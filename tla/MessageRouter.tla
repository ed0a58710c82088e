---------------------------- MODULE MessageRouter ----------------------------
(***************************************************************************)
(* The JavaScript/C++ query router: libcef_dll/wrapper/cef_message_router  *)
(* with the map that stores its pending entries (cef_browser_info_map.h).  *)
(*                                                                         *)
(* One browser process holds the browser-side router.  Every browser has a *)
(* render process of its own with a renderer-side router.  The two sides   *)
(* talk over one FIFO channel per direction; each side also posts tasks to *)
(* its own main thread.  A query goes                                      *)
(*                                                                         *)
(*   JS -> requests -> up -> queries (a handler owns it) -> uiTasks        *)
(*      -> down -> rtasks -> JS callback                                   *)
(*                                                                         *)
(* and may be cut short at every arrow: the page cancels it, its context   *)
(* goes away, the browser navigates, closes, or loses its render process,  *)
(* or the application removes the handler.                                 *)
(*                                                                         *)
(* The field q of a record and the variables issued, done, said, got, told *)
(* and answered are history: no guard of the code's own reads them, apart  *)
(* from the bounds MaxQueries and MaxSuccess.                              *)
(***************************************************************************)
EXTENDS Integers, Sequences, FiniteSets

CONSTANTS
  Browsers,     \* browsers that share the browser-side router
  Frames,       \* frame slots of a browser
  MainFrame,    \* the main frame's slot
  Handlers,     \* Handler objects the application may register
  None,         \* the NULL browser or handler argument
  MaxQueries,   \* bound: cefQuery calls in a behaviour
  MaxSuccess,   \* bound: Success calls on one Callback
  MaxTasks,     \* bound: length of uiTasks that other threads may fill
  MaxContexts,  \* bound: context ids a bare cefQueryCancel may draw
  Disturbed,    \* bound: browsers that navigate, close or lose their process
  Persistence   \* bound: values of a query's persistent member

ASSUME RouterAssumption ==
  /\ MainFrame \in Frames /\ Disturbed \subseteq Browsers
  /\ Persistence \subseteq BOOLEAN
  /\ None \notin Browsers \cup Handlers
  /\ MaxQueries \in Nat /\ MaxSuccess \in Nat
  /\ MaxTasks \in Nat /\ MaxContexts \in Nat

VARIABLES
  handlers,   \* handler_set_
  nextQuery,  \* query_id_generator_
  queries,    \* browser_query_info_map_, flattened to a set of QueryInfo
  callbacks,  \* CallbackImpl objects that handlers were given and accepted
  attached,   \* ids of the callbacks whose router_ is not NULL
  uiTasks,    \* tasks posted to TID_UI
  proc,       \* render process of each browser: running, dead; or closed
  nav,        \* the main frame's navigation: none, pending since it was
              \* announced, or aborted: the old document lives on
  ctx,        \* per frame: no context, one without an id (0), or its id
  nextCtx,    \* context_id_generator_
  nextReq,    \* request_id_generator_
  requests,   \* browser_request_info_map_
  rtasks,     \* tasks posted to TID_RENDERER
  up, down,   \* process messages, renderer to browser and back
  issued, done, said, got, told, answered  \* history, see the end of Init

browserVars  == <<handlers, nextQuery, queries, callbacks, attached, uiTasks>>
rendererVars == <<ctx, nextCtx, nextReq, requests, rtasks>>
envVars      == <<proc, nav>>
history      == <<issued, done, said, got, told, answered>>
vars == <<browserVars, rendererVars, envVars, up, down, history>>

kReservedId == 0
NoContext == -1
Uids == 1..MaxQueries

\* Mutant: the generator counts down.
MutIdsCountDown(last) == last - 1

\* IdGenerator: consecutive ids from 1; kReservedId is never drawn.
GetNextId(last) == last + 1

Request   == [ctx: Nat, req: Nat, pers: BOOLEAN, q: Uids]
QueryInfo == [id: Nat, browser: Browsers, ctx: Nat, req: Nat, pers: BOOLEAN,
              handler: Handlers, q: Uids]
CallbackImpl == [id: Nat, pers: BOOLEAN, q: Uids]
UpMessage == {m \in [type: {"query", "cancel", "gone"}, ctx: Nat, req: Nat,
                     pers: BOOLEAN, q: Uids \cup {0}] :
                m.type = "query" => m.q \in Uids}
Answer    == [ctx: Nat, req: Nat, ok: BOOLEAN, q: Uids]
UiTask    == [kind: {"Success", "Failure", "OnCallbackSuccess",
                     "OnCallbackFailure", "CancelPendingFor"},
              id: Nat, browser: Browsers \cup {None},
              handler: Handlers \cup {None}]

QueryMsg(r) == [type |-> "query", ctx |-> r.ctx, req |-> r.req,
                pers |-> r.pers, q |-> r.q]
CancelMsg(c, req) == [type |-> "cancel", ctx |-> c, req |-> req,
                      pers |-> FALSE, q |-> 0]
GoneMsg == [type |-> "gone", ctx |-> 0, req |-> 0, pers |-> FALSE, q |-> 0]
AnswerTo(x, ok) == [ctx |-> x.ctx, req |-> x.req, ok |-> ok, q |-> x.q]
CallbackTask(kind, id) ==
  [kind |-> kind, id |-> id, browser |-> None, handler |-> None]
CancelTask(b, h) ==
  [kind |-> "CancelPendingFor", id |-> 0, browser |-> b, handler |-> h]

Init ==
  /\ handlers = {} /\ nextQuery = 0
  /\ queries = {} /\ callbacks = {} /\ attached = {} /\ uiTasks = <<>>
  /\ proc = [b \in Browsers |-> "running"]
  /\ nav = [b \in Browsers |-> "none"]
  /\ ctx = [b \in Browsers |-> [f \in Frames |-> NoContext]]
  /\ nextCtx = [b \in Browsers |-> 0]
  /\ nextReq = [b \in Browsers |-> 0]
  /\ requests = [b \in Browsers |-> {}]
  /\ rtasks = [b \in Browsers |-> <<>>]
  /\ up = [b \in Browsers |-> <<>>]
  /\ down = [b \in Browsers |-> <<>>]
  /\ issued = 0                      \* cefQuery calls so far
  /\ done = {}                       \* queries whose last JS callback ran
  /\ said = [q \in Uids |-> 0]       \* Success calls that found a router
  /\ got = [q \in Uids |-> 0]        \* onSuccess calls in the page
  /\ told = [q \in Uids |-> 0]       \* OnQueryCanceled calls
  /\ answered = {}                   \* queries whose last answer was sent

-----------------------------------------------------------------------------
(* The renderer side: JavaScript, contexts, replies.                       *)

\* V8HandlerImpl::GetIDForContext: a context draws its id on first use.
IdForContext(b, f) ==
  IF ctx[b][f] = kReservedId THEN GetNextId(nextCtx[b]) ELSE ctx[b][f]

CreateIDForContext(b, f) ==
  /\ ctx' = [ctx EXCEPT ![b][f] = IdForContext(b, f)]
  /\ nextCtx' = [nextCtx EXCEPT ![b] = IF ctx[b][f] = kReservedId
                                       THEN GetNextId(@) ELSE @]

\* window.cefQuery: SendQuery stores the request and sends it.
CefQuery(b, f, pers) ==
  LET r == [ctx |-> IdForContext(b, f), req |-> GetNextId(nextReq[b]),
            pers |-> pers, q |-> issued + 1]
  IN /\ proc[b] = "running" /\ ctx[b][f] # NoContext
     /\ issued < MaxQueries
     /\ CreateIDForContext(b, f)
     /\ nextReq' = [nextReq EXCEPT ![b] = r.req]
     /\ requests' = [requests EXCEPT ![b] = @ \cup {r}]
     /\ up' = [up EXCEPT ![b] = Append(@, QueryMsg(r))]
     /\ issued' = r.q
     /\ UNCHANGED <<browserVars, rtasks, envVars, down,
                    done, said, got, told, answered>>

\* The requests that SendCancel removes.
CanceledBy(b, c, req) ==
  {r \in requests[b] : r.ctx = c /\ (req = kReservedId \/ r.req = req)}

\* Drops the requests and, if there were any, tells the browser process.
SendCancel(b, c, req) ==
  /\ requests' = [requests EXCEPT ![b] = @ \ CanceledBy(b, c, req)]
  /\ up' = IF CanceledBy(b, c, req) = {} THEN up
           ELSE [up EXCEPT ![b] = Append(@, CancelMsg(c, req))]

\* window.cefQueryCancel, with the id of a request of any frame: ids are
\* looked up under the caller's own context.
CefQueryCancel(b, f, req) ==
  /\ proc[b] = "running" /\ ctx[b][f] # NoContext
  /\ ctx[b][f] = kReservedId => nextCtx[b] < MaxContexts
  /\ CreateIDForContext(b, f)
  /\ SendCancel(b, IdForContext(b, f), req)
  /\ UNCHANGED <<browserVars, nextReq, rtasks, envVars, down, history>>

\* A document's scripts come up.  For the main frame this is the commit of a
\* pending navigation: every context of the old document is gone by then.
OnContextCreated(b, f) ==
  /\ proc[b] = "running" /\ ctx[b][f] = NoContext
  /\ IF f = MainFrame THEN \A g \in Frames : ctx[b][g] = NoContext
                      ELSE ctx[b][MainFrame] # NoContext
  /\ ctx' = [ctx EXCEPT ![b][f] = kReservedId]
  /\ nav' = [nav EXCEPT ![b] = IF f = MainFrame THEN "none" ELSE @]
  /\ UNCHANGED <<browserVars, nextCtx, nextReq, requests, rtasks, proc,
                 up, down, history>>

\* Mutant: the context leaves the map but its requests are not canceled.
MutReleaseKeepsRequests(b, f) ==
  /\ proc[b] = "running" /\ ctx[b][f] # NoContext
  /\ f = MainFrame => nav[b] = "pending"
  /\ ctx' = [ctx EXCEPT ![b][f] = NoContext]
  /\ UNCHANGED <<browserVars, nextCtx, nextReq, requests, rtasks, envVars,
                 up, down, history>>

\* A context goes away: any subframe's at any time (it navigates or is
\* detached), the main frame's when a navigation commits.
OnContextReleased(b, f) ==
  /\ proc[b] = "running" /\ ctx[b][f] # NoContext
  /\ f = MainFrame => nav[b] = "pending"
  /\ ctx' = [ctx EXCEPT ![b][f] = NoContext]
  /\ IF ctx[b][f] = kReservedId THEN UNCHANGED <<requests, up>>
     ELSE SendCancel(b, ctx[b][f], kReservedId)
  /\ UNCHANGED <<browserVars, nextCtx, nextReq, rtasks, envVars, down, history>>

\* A reply arrives and is posted to the renderer thread.
RendererOnProcessMessageReceived(b) ==
  /\ down[b] # <<>>
  /\ rtasks' = [rtasks EXCEPT ![b] = Append(@, Head(down[b]))]
  /\ down' = [down EXCEPT ![b] = Tail(@)]
  /\ UNCHANGED <<browserVars, ctx, nextCtx, nextReq, requests, envVars,
                 up, history>>

\* GetRequestInfo finds the request an answer names by its two ids.
GetRequestInfo(b, a) ==
  {r \in requests[b] : r.ctx = a.ctx /\ r.req = a.req}

\* A success leaves a persistent request in place; a failure never does.
RemovedRequests(b, a) ==
  {r \in GetRequestInfo(b, a) : ~a.ok \/ ~r.pers}

GetContextByID(b, c) == {f \in Frames : ctx[b][f] = c}

\* ExecuteSuccessCallback and ExecuteFailureCallback.
ExecuteCallback(b) ==
  LET a == Head(rtasks[b])
      heard == IF GetContextByID(b, a.ctx) = {} THEN {}
               ELSE GetRequestInfo(b, a)
  IN /\ rtasks[b] # <<>>
     /\ rtasks' = [rtasks EXCEPT ![b] = Tail(@)]
     /\ requests' = [requests EXCEPT ![b] = @ \ RemovedRequests(b, a)]
     /\ got' = [q \in Uids |-> IF a.ok /\ \E r \in heard : r.q = q
                               THEN got[q] + 1 ELSE got[q]]
     /\ done' = done \cup {r.q : r \in RemovedRequests(b, a)}
     /\ UNCHANGED <<browserVars, ctx, nextCtx, nextReq, envVars, up, down,
                    issued, said, told, answered>>

-----------------------------------------------------------------------------
(* The browser side: answers, cancellation, messages.                      *)

\* SendProcessMessage(PID_RENDERER): lost when there is no live process.
SendToRenderer(b, batch) ==
  IF proc[b] = "running" THEN down[b] \o batch ELSE down[b]

\* The failures for a set of QueryInfo of one browser, in map (id) order.
InIdOrder(S) ==
  {s \in [1..Cardinality(S) -> S] :
     \A i, j \in 1..Cardinality(S) : i < j => s[i].id < s[j].id}

FailuresOf(S) ==
  {[i \in 1..Cardinality(S) |-> AnswerTo(s[i], FALSE)] : s \in InIdOrder(S)}

OfBrowser(S, b) == {x \in S : x.browser = b}

\* SendQueryFailure with kCanceledErrorCode for every query of S.
SendCanceled(S) ==
  \E batch \in [Browsers -> UNION {FailuresOf(OfBrowser(S, b)) : b \in Browsers}] :
     /\ \A b \in Browsers : batch[b] \in FailuresOf(OfBrowser(S, b))
     /\ down' = [b \in Browsers |-> SendToRenderer(b, batch[b])]

\* Mutant: the visitor does not set *remove, the entries stay in the map.
MutCanceledEntriesStay(S) ==
  /\ attached' = attached \ {x.id : x \in S}
  /\ told' = [q \in Uids |-> IF \E x \in S : x.q = q THEN told[q] + 1
                             ELSE told[q]]
  /\ UNCHANGED queries

\* Mutant: CancelQuery forgets the Detach.
MutNoDetach(S) ==
  /\ queries' = queries \ S
  /\ told' = [q \in Uids |-> IF \E x \in S : x.q = q THEN told[q] + 1
                             ELSE told[q]]
  /\ UNCHANGED attached

\* CancelQuery on every query of S: OnQueryCanceled, Detach, and the entry
\* leaves the map.
CancelQueries(S) ==
  /\ queries' = queries \ S
  /\ attached' = attached \ {x.id : x \in S}
  /\ told' = [q \in Uids |-> IF \E x \in S : x.q = q THEN told[q] + 1
                             ELSE told[q]]

\* Mutant: the visitor tests the handler without allowing for NULL.
MutNullHandlerMatchesNone(b, h) ==
  {x \in queries : b \in {None, x.browser} /\ h = x.handler}

\* The queries CancelPendingFor selects; None stands for a NULL argument.
PendingFor(b, h) ==
  {x \in queries : b \in {None, x.browser} /\ h \in {None, x.handler}}

\* Mutant: the renderer is never notified.
MutSilentCancel(b, h, notify) ==
  CancelQueries(PendingFor(b, h)) /\ UNCHANGED down

\* Cancels every pending query of a browser and/or a handler.
CancelPendingFor(b, h, notify) ==
  /\ CancelQueries(PendingFor(b, h))
  /\ IF notify THEN SendCanceled(PendingFor(b, h)) ELSE UNCHANGED down

\* Mutant: the ids are looked up in every browser's map.
MutCancelInEveryBrowser(b, m) ==
  {x \in queries : x.ctx = m.ctx /\ (m.req = kReservedId \/ x.req = m.req)}

\* The queries CancelPendingRequest selects: every match when the request id
\* is kReservedId, otherwise the first in the map.
CanceledRequest(b, m) ==
  LET match == {x \in OfBrowser(queries, b) :
                  x.ctx = m.ctx /\ (m.req = kReservedId \/ x.req = m.req)}
  IN IF m.req = kReservedId THEN match
     ELSE {x \in match : \A y \in match : x.id <= y.id}

\* AddHandler: no effect on a handler that is registered already.
AddHandler(h) ==
  /\ h \notin handlers
  /\ handlers' = handlers \cup {h}
  /\ UNCHANGED <<nextQuery, queries, callbacks, attached, uiTasks,
                 rendererVars, envVars, up, down, history>>

\* RemoveHandler: the handler's pending queries are canceled at once.
RemoveHandler(h) ==
  /\ h \in handlers
  /\ handlers' = handlers \ {h}
  /\ CancelPendingFor(None, h, TRUE)
  /\ UNCHANGED <<nextQuery, callbacks, uiTasks, rendererVars, envVars, up,
                 issued, done, said, got, answered>>

\* CancelPending called on the UI thread.
CancelPending(b, h) ==
  /\ CancelPendingFor(b, h, TRUE)
  /\ UNCHANGED <<handlers, nextQuery, callbacks, uiTasks, rendererVars,
                 envVars, up, issued, done, said, got, answered>>

\* Another thread calls Success, Failure or CancelPending: the call is posted.
PostFromOtherThread(t) ==
  /\ Len(uiTasks) < MaxTasks
  /\ uiTasks' = Append(uiTasks, t)
  /\ UNCHANGED <<handlers, nextQuery, queries, callbacks, attached,
                 rendererVars, envVars, up, down, history>>

\* Success calls on a callback that are posted and have not run yet.
PostedSuccesses(id) ==
  Cardinality({i \in DOMAIN uiTasks :
                 uiTasks[i].kind = "Success" /\ uiTasks[i].id = id})

PostSuccess(c) ==
  /\ said[c.q] + PostedSuccesses(c.id) < MaxSuccess
  /\ PostFromOtherThread(CallbackTask("Success", c.id))

\* Mutant: a single-use callback keeps its router.
MutSuccessKeepsRouter(c, rest) ==
  IF c.id \in attached
  THEN /\ uiTasks' = Append(rest, CallbackTask("OnCallbackSuccess", c.id))
       /\ said' = [said EXCEPT ![c.q] = @ + 1]
       /\ UNCHANGED attached
  ELSE uiTasks' = rest /\ UNCHANGED <<attached, said>>

\* CallbackImpl::Success on the UI thread.  A call made inside OnQuery is the
\* same step: its effect is only this post and this detach.
Success(c, rest) ==
  IF c.id \in attached
  THEN /\ uiTasks' = Append(rest, CallbackTask("OnCallbackSuccess", c.id))
       /\ attached' = IF c.pers THEN attached ELSE attached \ {c.id}
       /\ said' = [said EXCEPT ![c.q] = @ + 1]
  ELSE uiTasks' = rest /\ UNCHANGED <<attached, said>>

\* CallbackImpl::Failure on the UI thread.
Failure(c, rest) ==
  /\ uiTasks' = IF c.id \in attached
                THEN Append(rest, CallbackTask("OnCallbackFailure", c.id))
                ELSE rest
  /\ attached' = attached \ {c.id}
  /\ UNCHANGED said

\* A handler answers on the UI thread through a callback it still may use.
CallSuccess(c) ==
  /\ c.id \in attached
  /\ said[c.q] + PostedSuccesses(c.id) < MaxSuccess
  /\ Success(c, uiTasks)
  /\ UNCHANGED <<handlers, nextQuery, queries, callbacks, rendererVars,
                 envVars, up, down, issued, done, got, told, answered>>

CallFailure(c) ==
  /\ c.id \in attached
  /\ Failure(c, uiTasks)
  /\ UNCHANGED <<handlers, nextQuery, queries, callbacks, rendererVars,
                 envVars, up, down, issued, done, got, told, answered>>

\* The posted half of a call another thread made on a callback.
RunCallback ==
  \E c \in callbacks :
     /\ uiTasks # <<>> /\ Head(uiTasks).id = c.id
     /\ \/ Head(uiTasks).kind = "Success" /\ Success(c, Tail(uiTasks))
        \/ Head(uiTasks).kind = "Failure" /\ Failure(c, Tail(uiTasks))
     /\ UNCHANGED <<handlers, nextQuery, queries, callbacks, rendererVars,
                    envVars, up, down, issued, done, got, told, answered>>

\* GetQueryInfo: the entry the posted answer is for, if it is still there.
GetQueryInfo(id) == {x \in queries : x.id = id}

\* OnCallbackSuccess and OnCallbackFailure: send the answer, and drop the
\* entry unless it is a persistent query's success.
OnCallback(ok) ==
  LET found == GetQueryInfo(Head(uiTasks).id)
      removed == {x \in found : ~ok \/ ~x.pers}
  IN /\ uiTasks # <<>>
     /\ Head(uiTasks).kind = IF ok THEN "OnCallbackSuccess"
                             ELSE "OnCallbackFailure"
     /\ uiTasks' = Tail(uiTasks)
     /\ queries' = queries \ removed
     /\ IF found = {} THEN UNCHANGED down
        ELSE \E x \in found :
               down' = [down EXCEPT ![x.browser] =
                          SendToRenderer(x.browser, <<AnswerTo(x, ok)>>)]
     /\ answered' = answered \cup {x.q : x \in removed}
     /\ UNCHANGED <<handlers, nextQuery, callbacks, attached, rendererVars,
                    envVars, up, issued, done, said, got, told>>

\* The posted half of CancelPending.
RunCancelPending ==
  /\ uiTasks # <<>> /\ Head(uiTasks).kind = "CancelPendingFor"
  /\ uiTasks' = Tail(uiTasks)
  /\ CancelPendingFor(Head(uiTasks).browser, Head(uiTasks).handler, TRUE)
  /\ UNCHANGED <<handlers, nextQuery, callbacks, rendererVars, envVars, up,
                 issued, done, said, got, answered>>

\* CancelUnhandledQuery: no handler took the query, the page hears -1.
CancelUnhandledQuery(b, m) ==
  down' = [down EXCEPT ![b] = SendToRenderer(b, <<AnswerTo(m, FALSE)>>)]

\* Mutant: the message is dropped without an answer.
MutDropWithoutHandlers(b, m) ==
  handlers = {} /\ UNCHANGED <<nextQuery, queries, callbacks, attached, down>>

\* The query message, when there is no handler at all.
RefuseWithoutHandlers(b, m) ==
  /\ handlers = {}
  /\ CancelUnhandledQuery(b, m)
  /\ UNCHANGED <<nextQuery, queries, callbacks, attached>>

\* Every handler's OnQuery returned false: an id was drawn, the callback is
\* detached and forgotten.
RefuseByHandlers(b, m) ==
  /\ handlers # {}
  /\ nextQuery' = GetNextId(nextQuery)
  /\ CancelUnhandledQuery(b, m)
  /\ UNCHANGED <<queries, callbacks, attached>>

\* Handler h's OnQuery returned true: the query is h's until it ends.  (What
\* else OnQuery may do to the registry is HandlerRegistry's subject.)
AcceptQuery(b, m, h) ==
  LET id == GetNextId(nextQuery)
  IN /\ h \in handlers
     /\ nextQuery' = id
     /\ queries' = queries \cup
          {[id |-> id, browser |-> b, ctx |-> m.ctx, req |-> m.req,
            pers |-> m.pers, handler |-> h, q |-> m.q]}
     /\ callbacks' = callbacks \cup {[id |-> id, pers |-> m.pers, q |-> m.q]}
     /\ attached' = attached \cup {id}
     /\ UNCHANGED down

OnQueryMessage(b) ==
  /\ up[b] # <<>> /\ Head(up[b]).type = "query"
  /\ up' = [up EXCEPT ![b] = Tail(@)]
  /\ \/ RefuseWithoutHandlers(b, Head(up[b]))
     \/ RefuseByHandlers(b, Head(up[b]))
     \/ \E h \in Handlers : AcceptQuery(b, Head(up[b]), h)
  /\ UNCHANGED <<handlers, uiTasks, rendererVars, envVars, history>>

\* The cancel message: the renderer knows already and is not notified.
OnCancelMessage(b) ==
  /\ up[b] # <<>> /\ Head(up[b]).type = "cancel"
  /\ up' = [up EXCEPT ![b] = Tail(@)]
  /\ CancelQueries(CanceledRequest(b, Head(up[b])))
  /\ UNCHANGED <<handlers, nextQuery, callbacks, uiTasks, rendererVars,
                 envVars, down, issued, done, said, got, answered>>

\* Mutant: the notice of the process's death does not cancel.
MutTerminatedKeepsQueries(b) ==
  /\ up[b] # <<>> /\ Head(up[b]).type = "gone"
  /\ up' = [up EXCEPT ![b] = Tail(@)]
  /\ nav' = [nav EXCEPT ![b] = "none"]
  /\ UNCHANGED <<browserVars, rendererVars, proc, down, history>>

\* The channel's end is the browser process's notice that the process died.
\* A navigation that was under way dies with it.
OnRenderProcessTerminated(b) ==
  /\ up[b] # <<>> /\ Head(up[b]).type = "gone"
  /\ up' = [up EXCEPT ![b] = Tail(@)]
  /\ nav' = [nav EXCEPT ![b] = "none"]
  /\ CancelPendingFor(b, None, FALSE)
  /\ UNCHANGED <<handlers, nextQuery, callbacks, uiTasks, rendererVars, proc,
                 issued, done, said, got, answered>>

\* A main frame navigation that is allowed to proceed.  (A subframe's
\* OnBeforeBrowse changes nothing.)
OnBeforeBrowse(b) ==
  /\ proc[b] # "closed" /\ nav[b] # "pending"
  /\ nav' = [nav EXCEPT ![b] = "pending"]
  /\ CancelPendingFor(b, None, FALSE)
  /\ UNCHANGED <<handlers, nextQuery, callbacks, uiTasks, rendererVars, proc,
                 up, issued, done, said, got, answered>>

-----------------------------------------------------------------------------
(* The environment: render processes die and start, browsers close.        *)

\* Nothing of the renderer side of b is left; a later process starts as Init.
ForgetRenderer(b) ==
  /\ nextCtx' = [nextCtx EXCEPT ![b] = 0]
  /\ nextReq' = [nextReq EXCEPT ![b] = 0]
  /\ ctx' = [ctx EXCEPT ![b] = [f \in Frames |-> NoContext]]
  /\ requests' = [requests EXCEPT ![b] = {}]
  /\ rtasks' = [rtasks EXCEPT ![b] = <<>>]

\* A pending navigation comes to nothing (it is stopped, fails, or turns into a
\* download): nobody calls the router, and a document that is there stays.
NavigationAborts(b) ==
  /\ nav[b] = "pending"
  /\ proc[b] = "dead" \/ ctx[b][MainFrame] # NoContext
  /\ nav' = [nav EXCEPT ![b] = "aborted"]
  /\ UNCHANGED <<browserVars, rendererVars, proc, up, down, history>>

\* The process dies: some of what it sent last never leaves it.
RendererCrash(b) ==
  /\ proc[b] = "running"
  /\ proc' = [proc EXCEPT ![b] = "dead"]
  /\ ForgetRenderer(b)
  /\ down' = [down EXCEPT ![b] = <<>>]
  /\ \E n \in 0..Len(up[b]) :
       up' = [up EXCEPT ![b] = Append(SubSeq(@, 1, n), GoneMsg)]
  /\ UNCHANGED <<browserVars, nav, history>>

\* A navigation after the death starts a new process, with new generators.
LaunchRenderer(b) ==
  /\ proc[b] = "dead" /\ up[b] = <<>> /\ nav[b] = "pending"
  /\ proc' = [proc EXCEPT ![b] = "running"]
  /\ UNCHANGED <<browserVars, rendererVars, nav, up, down, history>>

\* CefLifeSpanHandler::OnBeforeClose, the browser's last callback.
OnBeforeClose(b) ==
  /\ proc[b] # "closed"
  /\ proc' = [proc EXCEPT ![b] = "closed"]
  /\ nav' = [nav EXCEPT ![b] = "none"]
  /\ ForgetRenderer(b)
  /\ CancelQueries(PendingFor(b, None))
  /\ up' = [up EXCEPT ![b] = <<>>]
  /\ down' = [down EXCEPT ![b] = <<>>]
  /\ UNCHANGED <<handlers, nextQuery, callbacks, uiTasks,
                 issued, done, said, got, answered>>

-----------------------------------------------------------------------------
RendererStep ==
  \E b \in Browsers :
     \/ \E f \in Frames, pers \in Persistence : CefQuery(b, f, pers)
     \/ \E f \in Frames, r \in requests[b] : CefQueryCancel(b, f, r.req)
     \/ \E f \in Frames : OnContextCreated(b, f)
     \/ \E f \in Frames : OnContextReleased(b, f)
     \/ RendererOnProcessMessageReceived(b)
     \/ ExecuteCallback(b)

ApplicationStep ==
  \/ \E h \in Handlers : AddHandler(h) \/ RemoveHandler(h)
  \/ \E b \in Browsers \cup {None}, h \in Handlers \cup {None} :
        CancelPending(b, h) \/ PostFromOtherThread(CancelTask(b, h))
  \/ \E c \in callbacks :
        \/ CallSuccess(c)
        \/ CallFailure(c)
        \/ PostSuccess(c)
        \/ PostFromOtherThread(CallbackTask("Failure", c.id))

UiTaskStep == RunCallback \/ OnCallback(TRUE) \/ OnCallback(FALSE) \/ RunCancelPending

BrowserMessageStep(b) ==
  OnQueryMessage(b) \/ OnCancelMessage(b) \/ OnRenderProcessTerminated(b)

EnvironmentStep ==
  \E b \in Disturbed :
     \/ OnBeforeBrowse(b) \/ NavigationAborts(b)
     \/ RendererCrash(b) \/ LaunchRenderer(b) \/ OnBeforeClose(b)

Next ==
  \/ RendererStep
  \/ ApplicationStep
  \/ UiTaskStep
  \/ \E b \in Browsers : BrowserMessageStep(b)
  \/ EnvironmentStep

\* A handler must execute a Callback method to complete a non-persistent
\* query (cef_message_router.h:256-258).
FinalAnswer(c) == ~c.pers /\ (CallSuccess(c) \/ CallFailure(c))

\* Threads and channels make progress, an announced navigation commits or
\* aborts, and handlers keep their contract.  Nothing makes a page, a user or a crash act.
Fairness ==
  /\ WF_vars(UiTaskStep)
  /\ \A b \in Browsers :
       /\ WF_vars(BrowserMessageStep(b))
       /\ WF_vars(RendererOnProcessMessageReceived(b))
       /\ WF_vars(ExecuteCallback(b))
       /\ \A f \in Frames :
            WF_vars(/\ nav[b] = "pending"
                    /\ OnContextReleased(b, f) \/ NavigationAborts(b))
  /\ \A q \in Uids : WF_vars(\E c \in callbacks : c.q = q /\ FinalAnswer(c))

Spec == Init /\ [][Next]_vars
FairSpec == Spec /\ Fairness

-----------------------------------------------------------------------------
(* Properties.                                                             *)

\* The variables hold values of their types.
TypeOK ==
  /\ handlers \subseteq Handlers /\ nextQuery \in Nat
  /\ queries \subseteq QueryInfo /\ IsFiniteSet(queries)
  /\ callbacks \subseteq CallbackImpl /\ attached \subseteq Nat
  /\ uiTasks \in Seq(UiTask)
  /\ proc \in [Browsers -> {"running", "dead", "closed"}]
  /\ nav \in [Browsers -> {"none", "pending", "aborted"}]
  /\ ctx \in [Browsers -> [Frames -> Nat \cup {NoContext}]]
  /\ nextCtx \in [Browsers -> Nat] /\ nextReq \in [Browsers -> Nat]
  /\ requests \in [Browsers -> SUBSET Request]
  /\ rtasks \in [Browsers -> Seq(Answer)]
  /\ up \in [Browsers -> Seq(UpMessage)]
  /\ down \in [Browsers -> Seq(Answer)]
  /\ issued \in 0..MaxQueries /\ done \subseteq Uids /\ answered \subseteq Uids
  /\ said \in [Uids -> Nat] /\ got \in [Uids -> Nat] /\ told \in [Uids -> Nat]

Elems(s) == {s[i] : i \in DOMAIN s}
Count(s, S) == Cardinality({i \in DOMAIN s : s[i] \in S})

\* An answer on its way to a page, or the answer that a pending entry of the
\* browser side would send, reaches the query it was made for or none: the two
\* opaque ids never name another query, though a new render process draws the
\* same ids again while old entries, tasks and messages are still about.
AnswerMatchesQuery ==
  \A b \in Browsers :
    \A a \in Elems(down[b]) \cup Elems(rtasks[b]) \cup OfBrowser(queries, b) :
      \A r \in requests[b] : r.ctx = a.ctx /\ r.req = a.req => r.q = a.q

\* The inductive invariant behind AnswerMatchesQuery.  The keys about in b's
\* half of the system: a request id and the query it was drawn for.
KeyOf(x) == <<x.req, x.q>>
KeysInFlight(b) ==
  {KeyOf(r) : r \in requests[b] \cup OfBrowser(queries, b)
                     \cup Elems(down[b]) \cup Elems(rtasks[b])}
    \cup {KeyOf(m) : m \in {m \in Elems(up[b]) : m.type = "query"}}

\* A running process drew every id that is about, each for one query: nothing
\* of an earlier process of the browser is left when a new one starts.
KeysUnique ==
  \A b \in Browsers : proc[b] = "running" =>
    \A k, l \in KeysInFlight(b) :
      k[1] <= nextReq[b] /\ (k[1] = l[1] => k[2] = l[2])

\* The notice of a process's death is the last message it is survived by.
GoneIsLast ==
  \A b \in Browsers : \A i \in 1..Len(up[b]) :
    up[b][i].type = "gone" <=> (proc[b] = "dead" /\ i = Len(up[b]))

\* A process that does not run has nothing in its memory or on its way to it,
\* and once its last message is processed the browser side has no entry of it.
DeadIsEmpty ==
  \A b \in Browsers : proc[b] # "running" =>
    /\ requests[b] = {} /\ down[b] = <<>> /\ rtasks[b] = <<>>
    /\ up[b] = <<>> => OfBrowser(queries, b) = {}
    /\ proc[b] = "closed" => up[b] = <<>>

KeyInv == GoneIsLast /\ DeadIsEmpty /\ KeysUnique

\* The places that can still produce the end of request r of browser b.
MessagesFor(b, r) == Count(up[b], {QueryMsg(r)})
EntriesFor(b, r) ==
  Cardinality({x \in OfBrowser(queries, b) : x.q = r.q /\ x.id \in attached})
PostedAnswersFor(b, r) ==
  Cardinality({x \in OfBrowser(queries, b) :
    /\ x.q = r.q /\ x.id \notin attached
    /\ \E t \in Elems(uiTasks) :
         t.id = x.id /\ t.kind \in {"OnCallbackSuccess", "OnCallbackFailure"}})
LastAnswers(r) == {AnswerTo(r, FALSE)} \cup (IF r.pers THEN {} ELSE {AnswerTo(r, TRUE)})
RepliesFor(b, r) == Count(down[b], LastAnswers(r)) + Count(rtasks[b], LastAnswers(r))

\* The number of places that will end request r of browser b.
PlacesFor(b, r) ==
  MessagesFor(b, r) + EntriesFor(b, r) + PostedAnswersFor(b, r) + RepliesFor(b, r)

\* Every query a page waits for is in exactly one place that will end it: its
\* message, a handler's live callback, a posted answer, or a reply.  None is
\* lost and none will be ended twice.  The one exception is a query whose
\* handler was told of its end and whose page was not, because a navigation
\* was announced; it outlives the navigation only if that aborts.
NoQueryLost ==
  \A b \in Browsers : \A r \in requests[b] :
    \/ PlacesFor(b, r) = 1
    \/ PlacesFor(b, r) = 0 /\ told[r.q] = 1 /\ nav[b] # "none"

\* Every entry of the browser side has an end in sight: the page still waits
\* for it, or a cancel message or the notice of the process's death is coming.
\* A handler is not left serving a page that has gone.
NoEntryOrphaned ==
  \A x \in queries :
    \/ \E r \in requests[x.browser] : r.q = x.q /\ r.ctx = x.ctx /\ r.req = x.req
    \/ \E m \in Elems(up[x.browser]) :
         \/ m.type = "gone"
         \/ m.type = "cancel" /\ m.ctx = x.ctx /\ m.req \in {kReservedId, x.req}

\* A query a handler took ends for the handler exactly once: its last answer
\* goes out, or OnQueryCanceled is called (cef_message_router.h:256-258, 269-272).
HandledQueryEndsOnce ==
  \A c \in callbacks :
    told[c.q] + Cardinality(answered \cap {c.q})
      = IF \E x \in queries : x.id = c.id THEN 0 ELSE 1

\* A callback that can still answer belongs to a pending entry: once the entry
\* is gone the callback is dead (the DCHECK at cef_message_router.cc:82).
LiveCallbackHasEntry == attached \subseteq {x.id : x \in queries}

\* A request's context is still alive, so the check of GetContextByID never
\* swallows a callback (cef_message_router.cc:1026, 1051).
RequestHasContext ==
  \A b \in Browsers : \A r \in requests[b] : GetContextByID(b, r.ctx) # {}

OpenQueries == {r.q : r \in UNION {requests[b] : b \in Browsers}}

\* The promise to page and handler, in terms of the router's own state.
Contract == INSTANCE QueryContract WITH
  Queries <- Uids, said <- said, got <- got, told <- told,
  page <- [q \in Uids |-> IF q > issued THEN "idle"
                          ELSE IF q \in OpenQueries THEN "open"
                          ELSE IF q \in done THEN "done" ELSE "left"],
  desk <- [q \in Uids |-> IF \E c \in callbacks : c.q = q /\ c.id \in attached
                          THEN "pending"
                          ELSE IF \E c \in callbacks : c.q = q THEN "closed"
                          ELSE "none"]

\* Every step of the router is a step the contract allows.
ContractHolds == Contract!Spec

\* Every non-persistent query ends for the page, unless it was dropped for a
\* navigation that aborted: the document that issued it waits for ever.
NonPersistent(q) ==
  \E b \in Browsers : \E r \in requests[b] : r.q = q /\ ~r.pers
Forsaken(q) ==
  \E b \in Browsers : \E r \in requests[b] :
    r.q = q /\ PlacesFor(b, r) = 0 /\ nav[b] = "aborted"
PageIsAnswered ==
  \A q \in Uids : NonPersistent(q) ~> (q \notin OpenQueries \/ Forsaken(q))

\* A handler whose query the page has left hears of it, or had answered
\* already: a persistent subscription does not outlive its page.
HandlerIsReleased ==
  \A q \in Uids :
    (\E x \in queries : x.q = q /\ q \notin OpenQueries)
      ~> ~(\E x \in queries : x.q = q)
=============================================================================
