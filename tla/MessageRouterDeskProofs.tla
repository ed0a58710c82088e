----------------------- MODULE MessageRouterDeskProofs -----------------------
(***************************************************************************)
(* TLAPS proofs about what the router keeps of a query on its two sides:   *)
(* messages are sent once (SentOnce), the browser side's entries,          *)
(* callbacks and posted tasks hang together (DeskInv, TasksInv), a         *)
(* request's context is alive (ContextInv), and all that was made for one  *)
(* request agrees (AgreeInv).  Each is inductive relative to those before  *)
(* it.  DeskStep and BrowserStep sort the router's actions by what they do *)
(* to the browser side, and to one browser's half of the system.           *)
(***************************************************************************)
EXTENDS MessageRouterProofs

\* A query is sent once, and not sent any more once a handler has it.
SentOnce ==
  /\ \A b, c \in Browsers : \A i \in 1..Len(up[b]), j \in 1..Len(up[c]) :
       /\ up[b][i].type = "query" /\ up[c][j].type = "query"
       /\ up[b][i].q = up[c][j].q
       => b = c /\ i = j
  /\ \A b \in Browsers : \A i \in 1..Len(up[b]) : up[b][i].type = "query" =>
       up[b][i].q <= issued /\ \A c \in callbacks : c.q # up[b][i].q
  /\ \A c \in callbacks : c.q <= issued /\ \A d \in callbacks : c.q = d.q => c = d

\* The query messages of b's channel are old ones, moved up by one or not.
UpKept(b) ==
  \E n \in {0, 1} : \A i \in 1..Len(up'[b]) : up'[b][i].type = "query" =>
    i + n \in 1..Len(up[b]) /\ up'[b][i] = up[b][i + n]

\* What a step may do to the browser side's entries, callbacks and tasks.
AnswerKinds == {"OnCallbackSuccess", "OnCallbackFailure"}
TaskTaken(kinds) == uiTasks # <<>> /\ Head(uiTasks).kind \in kinds
QueuesTask ==
  \/ uiTasks' = uiTasks
  \/ \E t \in UiTask : t.kind \notin AnswerKinds /\ uiTasks' = Append(uiTasks, t)
DeskStill ==
  /\ UNCHANGED <<queries, callbacks, attached, said, told, answered>> /\ QueuesTask
  /\ nextQuery' \in {nextQuery, nextQuery + 1}
DeskCancel ==
  /\ \E S \in SUBSET queries : CancelQueries(S)
  /\ UNCHANGED <<callbacks, nextQuery, said, answered>>
  /\ uiTasks' = uiTasks \/ (TaskTaken({"CancelPendingFor"}) /\ uiTasks' = Tail(uiTasks))
DeskAnswer ==
  /\ \E c \in callbacks, rest \in Seq(UiTask) :
       /\ rest = uiTasks \/ (TaskTaken({"Success", "Failure"}) /\ rest = Tail(uiTasks))
       /\ Success(c, rest) \/ Failure(c, rest)
  /\ UNCHANGED <<queries, callbacks, nextQuery, told, answered, requests, issued, done, got>>
DeskAccept ==
  \E b \in Browsers, h \in Handlers :
    /\ up[b] # <<>> /\ Head(up[b]).type = "query" /\ up' = [up EXCEPT ![b] = Tail(up[b])]
    /\ AcceptQuery(b, Head(up[b]), h)
    /\ UNCHANGED <<uiTasks, said, told, answered, requests, issued, done, got>>
DeskStep ==
  \/ DeskStill \/ DeskCancel \/ DeskAnswer \/ DeskAccept
  \/ OnCallback(TRUE) \/ OnCallback(FALSE)

\* What the desk holds hangs together: every entry has its callback, only a
\* pending entry's callback is alive, and an entry that is gone has ended for
\* its handler in one way: it was told, or its last answer was sent.
CallbackOf(x) == [id |-> x.id, pers |-> x.pers, q |-> x.q]
EndsOnce(c) ==
  IF \E x \in queries : x.id = c.id THEN told[c.q] = 0 /\ c.q \notin answered
  ELSE \/ told[c.q] = 1 /\ c.q \notin answered
       \/ told[c.q] = 0 /\ c.q \in answered
DeskInv ==
  /\ \A c \in callbacks : 1 <= c.id /\ c.id <= nextQuery
  /\ \A c, d \in callbacks : c.id = d.id \/ c.q = d.q => c = d
  /\ \A x \in queries : CallbackOf(x) \in callbacks
  /\ \A x, y \in queries : x.id = y.id => x = y
  /\ LiveCallbackHasEntry
  /\ \A c \in callbacks : EndsOnce(c)
  /\ \A q \in Uids : told[q] # 0 \/ q \in answered => \E c \in callbacks : c.q = q

\* A posted answer is the last word of its callback, and an entry whose
\* callback has had its last word waits for it to be sent.
Ends(t, c) ==
  /\ t.id = c.id
  /\ t.kind = "OnCallbackFailure" \/ (t.kind = "OnCallbackSuccess" /\ ~c.pers)
TasksInv ==
  /\ \A t \in Elems(uiTasks) : t.kind \in AnswerKinds => t.id <= nextQuery
  /\ \A t \in Elems(uiTasks), c \in callbacks : Ends(t, c) => c.id \notin attached
  /\ \A x \in queries : x.id \in attached \/ \E t \in Elems(uiTasks) : Ends(t, x)

\* Contexts of a running process have ids of their own; a request's context is
\* there; and a cancel message on its way names nothing that is still open.
Withdraws(m, y) ==
  m.type = "cancel" /\ m.ctx = y.ctx /\ (m.req = kReservedId \/ m.req = y.req)
FramesNumbered(b) ==
  \A f \in Frames :
    /\ ctx[b][f] <= nextCtx[b]
    /\ \A g \in Frames : ctx[b][f] = ctx[b][g] /\ ctx[b][f] > 0 => f = g
RequestsPlaced(b) ==
  \A r \in requests[b] : r.ctx > 0 /\ r.req > 0 /\ \E f \in Frames : ctx[b][f] = r.ctx
CancelsArePast(b) ==
  \A m \in Elems(up[b]) : m.type = "cancel" =>
    /\ m.ctx > 0 /\ m.ctx <= nextCtx[b] /\ m.req <= nextReq[b]
    /\ m.req = kReservedId => \A f \in Frames : ctx[b][f] # m.ctx
    /\ \A r \in requests[b] : ~Withdraws(m, r)
ContextAt(b) ==
  IF proc[b] = "running"
  THEN FramesNumbered(b) /\ RequestsPlaced(b) /\ CancelsArePast(b)
  ELSE \A f \in Frames : ctx[b][f] = NoContext
ContextInv == \A b \in Browsers : ContextAt(b)

\* What a step other than cefQuery does to b's half of the system: the page's
\* requests and replies, the two channels, and the entries of b.
Entries(b) == OfBrowser(queries, b)
SamePage(b) == requests'[b] = requests[b] /\ rtasks'[b] = rtasks[b] /\ nav'[b] = nav[b]
SameUp(b)   == up'[b] = up[b]
SameDesk(b) == down'[b] = down[b] /\ Entries(b)' = Entries(b)
TakesMessage(b, type) ==
  up[b] # <<>> /\ Head(up[b]).type = type /\ up'[b] = Tail(up[b])

Stays(b) ==
  /\ requests'[b] = requests[b] /\ rtasks'[b] = rtasks[b] /\ SameUp(b) /\ SameDesk(b)
  /\ nav[b] = "none" \/ nav'[b] # "none" \/ requests[b] = {}
WithdrawsRequests(b) ==
  /\ \E c \in Nat, req \in Nat :
       /\ requests'[b] = requests[b] \ CanceledBy(b, c, req)
       /\ up'[b] = IF CanceledBy(b, c, req) = {} THEN up[b]
                   ELSE Append(up[b], CancelMsg(c, req))
  /\ rtasks'[b] = rtasks[b] /\ nav'[b] = nav[b] /\ SameDesk(b)
ReceivesReply(b) ==
  /\ down[b] # <<>> /\ down'[b] = Tail(down[b])
  /\ rtasks'[b] = Append(rtasks[b], Head(down[b]))
  /\ requests'[b] = requests[b] /\ nav'[b] = nav[b] /\ SameUp(b) /\ Entries(b)' = Entries(b)
HearsReply(b) ==
  /\ rtasks[b] # <<>> /\ rtasks'[b] = Tail(rtasks[b])
  /\ requests'[b] = requests[b] \ RemovedRequests(b, Head(rtasks[b]))
  /\ nav'[b] = nav[b] /\ SameUp(b) /\ SameDesk(b)
CancelsEntries(b) ==
  /\ \E S \in SUBSET Entries(b) :
       /\ Entries(b)' = Entries(b) \ S
       /\ \E batch \in FailuresOf(S) : down'[b] = SendToRenderer(b, batch)
  /\ SamePage(b) /\ SameUp(b)
AnswersEntry(b) ==
  /\ \E x \in Entries(b), ok \in BOOLEAN :
       /\ Entries(b)' = IF ok /\ x.pers THEN Entries(b) ELSE Entries(b) \ {x}
       /\ down'[b] = SendToRenderer(b, <<AnswerTo(x, ok)>>)
       /\ ok => uiTasks # <<>> /\ uiTasks' = Tail(uiTasks)
                 /\ Head(uiTasks) \in {t \in UiTask : t.kind = "OnCallbackSuccess" /\ t.id = x.id}
  /\ SamePage(b) /\ SameUp(b)
RefusesQuery(b) ==
  /\ TakesMessage(b, "query") /\ SamePage(b) /\ Entries(b)' = Entries(b)
  /\ down'[b] = SendToRenderer(b, <<AnswerTo(Head(up[b]), FALSE)>>)
AcceptsQuery(b) ==
  /\ TakesMessage(b, "query") /\ SamePage(b) /\ down'[b] = down[b]
  /\ \E x \in QueryInfo :
       /\ Entries(b)' = Entries(b) \cup {x} /\ QueryMsg(x) = QueryMsg(Head(up[b]))
CancelsRequest(b) ==
  /\ TakesMessage(b, "cancel") /\ SamePage(b) /\ down'[b] = down[b]
  /\ Entries(b)' = Entries(b) \ CanceledRequest(b, Head(up[b]))
BuriesRenderer(b) ==
  TakesMessage(b, "gone") /\ Entries(b)' = {} /\ down'[b] = down[b]
    /\ requests'[b] = requests[b] /\ rtasks'[b] = rtasks[b]
DropsEntries(b) ==
  /\ Entries(b)' = {} /\ down'[b] = down[b] /\ SameUp(b)
  /\ requests'[b] = requests[b] /\ rtasks'[b] = rtasks[b] /\ nav'[b] = "pending"
  /\ \A x \in Entries(b) : told'[x.q] = told[x.q] + 1
LosesRenderer(b) ==
  /\ requests'[b] = {} /\ rtasks'[b] = <<>> /\ down'[b] = <<>> /\ Entries(b)' = Entries(b)
  /\ \E n \in 0..Len(up[b]) : up'[b] = Append(SubSeq(up[b], 1, n), GoneMsg)
Closes(b) ==
  /\ requests'[b] = {} /\ rtasks'[b] = <<>> /\ down'[b] = <<>> /\ Entries(b)' = {}
  /\ up'[b] = <<>>
BrowserStep(b) ==
  \/ Stays(b) \/ WithdrawsRequests(b) \/ ReceivesReply(b) \/ HearsReply(b)
  \/ CancelsEntries(b) \/ AnswersEntry(b) \/ RefusesQuery(b) \/ AcceptsQuery(b)
  \/ CancelsRequest(b) \/ BuriesRenderer(b) \/ DropsEntries(b)
  \/ LosesRenderer(b) \/ Closes(b)

\* The stamps of all that is about in b's half, and whether it is persistent.
Stamp(y) == <<y.ctx, y.req, y.q>>
PersOf(y) == <<y.q, y.pers>>
QueriesSent(b) == {m \in Elems(up[b]) : m.type = "query"}
Stamps(b) ==
  {Stamp(y) : y \in requests[b] \cup Entries(b) \cup QueriesSent(b)
                      \cup Elems(down[b]) \cup Elems(rtasks[b])}
PersStamps(b) == {PersOf(y) : y \in requests[b] \cup Entries(b) \cup QueriesSent(b)}

\* Whatever is about and was made for an open request carries its stamp.
AgreeInv ==
  /\ \A b \in Browsers : \A s \in Stamps(b) : s[3] <= issued
  /\ \A b, c \in Browsers : \A r \in requests[b] :
       /\ \A s \in Stamps(c) : s[3] = r.q => c = b /\ s = Stamp(r)
       /\ \A p \in PersStamps(c) : p[1] = r.q => p[2] = r.pers

-----------------------------------------------------------------------------
(* What each group of actions leaves alone.                                *)

LEMMA RendererLeaves ==
  RendererStep => UNCHANGED <<browserVars, proc, said, told, answered>>
<1> SUFFICES ASSUME RendererStep PROVE UNCHANGED <<browserVars, proc, said, told, answered>>
  OBVIOUS
<1> USE DEF envVars, history
<1>1. ASSUME NEW b \in Browsers, NEW f \in Frames, NEW pers \in Persistence, CefQuery(b, f, pers)
      PROVE  UNCHANGED <<browserVars, proc, said, told, answered>>
  BY <1>1 DEF CefQuery
<1>2. ASSUME NEW b \in Browsers, NEW f \in Frames, NEW r \in requests[b], CefQueryCancel(b, f, r.req)
      PROVE  UNCHANGED <<browserVars, proc, said, told, answered>>
  BY <1>2 DEF CefQueryCancel
<1>3. ASSUME NEW b \in Browsers, NEW f \in Frames, OnContextCreated(b, f) \/ OnContextReleased(b, f)
      PROVE  UNCHANGED <<browserVars, proc, said, told, answered>>
  BY <1>3 DEF OnContextCreated, OnContextReleased
<1>4. ASSUME NEW b \in Browsers, RendererOnProcessMessageReceived(b) \/ ExecuteCallback(b)
      PROVE  UNCHANGED <<browserVars, proc, said, told, answered>>
  BY <1>4 DEF RendererOnProcessMessageReceived, ExecuteCallback
<1> QED BY <1>1, <1>2, <1>3, <1>4 DEF RendererStep

LEMMA ApplicationLeaves ==
  ApplicationStep =>
    UNCHANGED <<rendererVars, envVars, up, nextQuery, callbacks, issued, done, got, answered>>
  BY DEF ApplicationStep, AddHandler, RemoveHandler, CancelPending, PostFromOtherThread,
     CallSuccess, CallFailure, PostSuccess, browserVars, rendererVars, envVars, history

LEMMA UiTaskLeaves ==
  UiTaskStep =>
    UNCHANGED <<rendererVars, envVars, up, handlers, nextQuery, callbacks, issued, done, got>>
  BY DEF UiTaskStep, RunCallback, OnCallback, RunCancelPending, rendererVars, envVars

LEMMA MessageLeaves ==
  ASSUME NEW b \in Browsers, BrowserMessageStep(b)
  PROVE  /\ UNCHANGED <<rendererVars, proc, handlers, uiTasks, issued, done, said, got, answered>>
         /\ up[b] # <<>> /\ up' = [up EXCEPT ![b] = Tail(up[b])]
  BY DEF BrowserMessageStep, OnQueryMessage, OnCancelMessage, OnRenderProcessTerminated,
     rendererVars, envVars, history

LEMMA EnvironmentLeaves ==
  EnvironmentStep =>
    UNCHANGED <<handlers, nextQuery, callbacks, uiTasks, issued, done, said, got, answered>>
  BY DEF EnvironmentStep, OnBeforeBrowse, NavigationAborts, RendererCrash, LaunchRenderer,
     OnBeforeClose, browserVars, history

-----------------------------------------------------------------------------
(* Messages are sent once.                                                 *)

\* A channel that gains no query keeps its old ones.
LEMMA UpdatesKept ==
  ASSUME TypeOK, NEW b \in Browsers,
         \/ up'[b] = up[b]
         \/ \E m \in UpMessage : m.type # "query" /\ up'[b] = Append(up[b], m)
         \/ up[b] # <<>> /\ up'[b] = Tail(up[b])
         \/ \E n \in 0..Len(up[b]) : up'[b] = Append(SubSeq(up[b], 1, n), GoneMsg)
         \/ up'[b] = <<>>
  PROVE  UpKept(b)
<1>0. up[b] \in Seq(UpMessage) /\ Len(up[b]) \in Nat
  BY LenProperties DEF TypeOK
<1>1. CASE up'[b] = up[b]
  <2>1. \A i \in 1..Len(up'[b]) : i + 0 \in 1..Len(up[b]) /\ up'[b][i] = up[b][i + 0]
    BY <1>0, <1>1
  <2> QED BY <2>1 DEF UpKept
<1>2. CASE \E m \in UpMessage : m.type # "query" /\ up'[b] = Append(up[b], m)
  <2>1. PICK m \in UpMessage : m.type # "query" /\ up'[b] = Append(up[b], m)
    BY <1>2
  <2>2. /\ Len(up'[b]) = Len(up[b]) + 1
        /\ \A i \in 1..Len(up[b]) : up'[b][i] = up[b][i]
        /\ up'[b][Len(up[b]) + 1] = m
    BY <1>0, <2>1, AppendProperties
  <2>3. \A i \in 1..Len(up'[b]) : up'[b][i].type = "query" =>
          i + 0 \in 1..Len(up[b]) /\ up'[b][i] = up[b][i + 0]
    BY <1>0, <2>1, <2>2
  <2> QED BY <2>3 DEF UpKept
<1>3. CASE up[b] # <<>> /\ up'[b] = Tail(up[b])
  <2>1. /\ Len(up'[b]) = Len(up[b]) - 1
        /\ \A i \in 1..Len(up'[b]) : up'[b][i] = up[b][i + 1]
    BY <1>0, <1>3, HeadTailProperties
  <2>2. \A i \in 1..Len(up'[b]) : i + 1 \in 1..Len(up[b])
    BY <1>0, <2>1
  <2> QED BY <2>1, <2>2 DEF UpKept
<1>4. CASE \E n \in 0..Len(up[b]) : up'[b] = Append(SubSeq(up[b], 1, n), GoneMsg)
  <2>1. PICK n \in 0..Len(up[b]) : up'[b] = Append(SubSeq(up[b], 1, n), GoneMsg)
    BY <1>4
  <2>2. /\ SubSeq(up[b], 1, n) \in Seq(UpMessage)
        /\ Len(SubSeq(up[b], 1, n)) = n
        /\ \A i \in 1..n : SubSeq(up[b], 1, n)[i] = up[b][i]
    BY <1>0, ElemsOfPrefix
  <2>3. /\ Len(up'[b]) = n + 1
        /\ \A i \in 1..n : up'[b][i] = up[b][i]
        /\ up'[b][n + 1] = GoneMsg
    BY <2>1, <2>2, MessagesTyped, AppendProperties
  <2>4. \A i \in 1..Len(up'[b]) : up'[b][i].type = "query" =>
          i + 0 \in 1..Len(up[b]) /\ up'[b][i] = up[b][i + 0]
    BY <1>0, <2>3 DEF GoneMsg
  <2> QED BY <2>4 DEF UpKept
<1>5. CASE up'[b] = <<>>
  BY <1>5 DEF UpKept
<1> QED BY <1>1, <1>2, <1>3, <1>4, <1>5

\* Only cefQuery sends a query.
LEMMA StepKeepsUp ==
  ASSUME TypeOK, [Next]_vars,
         ~ \E b \in Browsers, f \in Frames, pers \in Persistence : CefQuery(b, f, pers),
         NEW b \in Browsers
  PROVE  UpKept(b)
<1> USE DEF browserVars, rendererVars, envVars, history
<1>t. /\ up \in [Browsers -> Seq(UpMessage)] /\ requests \in [Browsers -> SUBSET Request]
  BY DEF TypeOK
<1>s. ASSUME UNCHANGED up PROVE UpKept(b)
  BY <1>s, UpdatesKept
<1>c. ASSUME NEW a \in Browsers, NEW c \in Nat, NEW req \in Nat, SendCancel(a, c, req)
      PROVE  UpKept(b)
  <2>1. up'[b] = up[b] \/ up'[b] = Append(up[b], CancelMsg(c, req))
    BY <1>c, SendCancelTyped
  <2>2. CancelMsg(c, req) \in UpMessage /\ CancelMsg(c, req).type # "query"
    BY MessagesTyped DEF CancelMsg
  <2> QED BY <2>1, <2>2, UpdatesKept
<1>1. CASE RendererStep
  <2>1. ASSUME NEW a \in Browsers, NEW f \in Frames, NEW r \in requests[a],
               CefQueryCancel(a, f, r.req)
        PROVE  UpKept(b)
    <3>1. r.req \in Nat /\ IdForContext(a, f) \in Nat
      BY <1>t, <2>1, IdsTyped DEF Request, CefQueryCancel
    <3> QED BY <1>c, <2>1, <3>1 DEF CefQueryCancel
  <2>2. ASSUME NEW a \in Browsers, NEW f \in Frames, OnContextReleased(a, f)
        PROVE  UpKept(b)
    <3>1. ctx[a][f] \in Nat /\ kReservedId \in Nat
      BY <2>2 DEF TypeOK, OnContextReleased, kReservedId
    <3> QED BY <1>c, <1>s, <2>2, <3>1 DEF OnContextReleased
  <2>3. ASSUME NEW a \in Browsers, NEW f \in Frames, OnContextCreated(a, f)
        PROVE  UpKept(b)
    BY <1>s, <2>3 DEF OnContextCreated
  <2>4. ASSUME NEW a \in Browsers,
               RendererOnProcessMessageReceived(a) \/ ExecuteCallback(a)
        PROVE  UpKept(b)
    BY <1>s, <2>4 DEF RendererOnProcessMessageReceived, ExecuteCallback
  <2> QED BY <1>1, <2>1, <2>2, <2>3, <2>4 DEF RendererStep
<1>2. CASE ApplicationStep \/ UiTaskStep \/ UNCHANGED vars
  BY <1>s, <1>2, ApplicationLeaves, UiTaskLeaves DEF vars
<1>3. ASSUME NEW a \in Browsers, BrowserMessageStep(a)
      PROVE  UpKept(b)
  <2>1. up[a] # <<>> /\ up' = [up EXCEPT ![a] = Tail(up[a])]
    BY <1>3, MessageLeaves
  <2>2. up'[b] = up[b] \/ (up[b] # <<>> /\ up'[b] = Tail(up[b]))
    BY <1>t, <2>1
  <2> QED BY <2>2, UpdatesKept
<1>4. CASE EnvironmentStep
  <2>1. ASSUME NEW a \in Disturbed, OnBeforeBrowse(a) \/ NavigationAborts(a) \/ LaunchRenderer(a)
        PROVE  UpKept(b)
    BY <1>s, <2>1 DEF OnBeforeBrowse, NavigationAborts, LaunchRenderer
  <2>2. ASSUME NEW a \in Disturbed, RendererCrash(a)
        PROVE  UpKept(b)
    <3>1. PICK n \in 0..Len(up[a]) :
            up' = [up EXCEPT ![a] = Append(SubSeq(up[a], 1, n), GoneMsg)]
      BY <2>2 DEF RendererCrash
    <3>2. up'[b] = up[b] \/ (a = b /\ up'[b] = Append(SubSeq(up[b], 1, n), GoneMsg))
      BY <1>t, <3>1
    <3> QED BY <3>2, UpdatesKept
  <2>3. ASSUME NEW a \in Disturbed, OnBeforeClose(a)
        PROVE  UpKept(b)
    <3>1. up' = [up EXCEPT ![a] = <<>>]
      BY <2>3 DEF OnBeforeClose
    <3>2. up'[b] = up[b] \/ up'[b] = <<>>
      BY <1>t, <3>1
    <3> QED BY <3>2, UpdatesKept
  <2> QED BY <1>4, <2>1, <2>2, <2>3 DEF EnvironmentStep
<1> QED BY <1>1, <1>2, <1>3, <1>4 DEF Next

LEMMA SentApart ==
  ASSUME SentOnce, NEW b \in Browsers, NEW c \in Browsers,
         NEW i \in 1..Len(up[b]), NEW j \in 1..Len(up[c]),
         up[b][i].type = "query", up[c][j].type = "query", up[b][i].q = up[c][j].q
  PROVE  b = c /\ i = j
  BY DEF SentOnce

LEMMA SentOnceKept ==
  ASSUME TypeOK, SentOnce, \A b \in Browsers : UpKept(b), callbacks' = callbacks, issued' = issued
  PROVE  SentOnce'
<1>1. ASSUME NEW b \in Browsers, NEW c \in Browsers,
             NEW i \in 1..Len(up'[b]), NEW j \in 1..Len(up'[c]),
             up'[b][i].type = "query", up'[c][j].type = "query", up'[b][i].q = up'[c][j].q
      PROVE  b = c /\ i = j
  <2>1. PICK n \in {0, 1} : \A k \in 1..Len(up'[b]) : up'[b][k].type = "query" =>
                              k + n \in 1..Len(up[b]) /\ up'[b][k] = up[b][k + n]
    BY DEF UpKept
  <2>2. PICK m \in {0, 1} : \A k \in 1..Len(up'[c]) : up'[c][k].type = "query" =>
                              k + m \in 1..Len(up[c]) /\ up'[c][k] = up[c][k + m]
    BY DEF UpKept
  <2> DEFINE k == i + n
             l == j + m
  <2>a. k \in 1..Len(up[b]) /\ up[b][k] = up'[b][i]
    BY <1>1, <2>1
  <2>b. l \in 1..Len(up[c]) /\ up[c][l] = up'[c][j]
    BY <1>1, <2>2
  <2>c. b = c /\ k = l
    <3> HIDE DEF k, l
    <3>1. up[b][k].type = "query" /\ up[c][l].type = "query" /\ up[b][k].q = up[c][l].q
      BY <1>1, <2>a, <2>b
    <3>2. k \in 1..Len(up[b]) /\ l \in 1..Len(up[c])
      BY <2>a, <2>b
    <3> QED BY <3>1, <3>2, SentApart
  <2>3. b = c /\ i + n = j + m
    BY <2>c
  <2>4. CASE n = m
    BY <2>3, <2>4
  <2>5. CASE n # m
    <3>1. /\ j + n \in 1..Len(up[b]) /\ up[b][j + n].type = "query"
          /\ up[b][j + n] = up'[b][j]
      BY <1>1, <2>1, <2>3
    <3> DEFINE g == j + n
    <3>2. g \in 1..Len(up[c]) /\ up[c][g] = up[c][l]
      BY <2>b, <2>3, <3>1
    <3>3. up[c][g].type = "query" /\ up[c][l].type = "query"
      BY <1>1, <2>b, <3>2
    <3>4. g = l
      <4> HIDE DEF g, l
      <4> QED BY <2>b, <3>2, <3>3, SentApart
    <3>5. j + n = j + m
      BY <3>4
    <3> QED BY <2>5, <3>5
  <2> QED BY <2>3, <2>4, <2>5
<1>2. ASSUME NEW b \in Browsers, NEW i \in 1..Len(up'[b]), up'[b][i].type = "query"
      PROVE  up'[b][i].q <= issued' /\ \A c \in callbacks' : c.q # up'[b][i].q
  <2>1. PICK k \in 1..Len(up[b]) : up[b][k] = up'[b][i]
    BY <1>2 DEF UpKept
  <2> QED BY <1>2, <2>1 DEF SentOnce
<1>3. \A c \in callbacks' : c.q <= issued' /\ \A d \in callbacks' : c.q = d.q => c = d
  BY DEF SentOnce
<1> QED BY <1>1, <1>2, <1>3 DEF SentOnce

\* A new query has a number of its own.
LEMMA SentOnceQuery ==
  ASSUME TypeOK, SentOnce, NEW b \in Browsers, NEW f \in Frames, NEW pers \in Persistence,
         CefQuery(b, f, pers)
  PROVE  SentOnce'
<1> USE DEF browserVars
<1>1. PICK m \in UpMessage : m.q = issued + 1 /\ up' = [up EXCEPT ![b] = Append(up[b], m)]
  <2> DEFINE r == [ctx |-> IdForContext(b, f), req |-> GetNextId(nextReq[b]),
                   pers |-> pers, q |-> issued + 1]
  <2>1. IdForContext(b, f) \in Nat
    BY IdsTyped DEF CefQuery
  <2>2. issued + 1 \in Uids
    BY RouterAssumption DEF CefQuery, TypeOK, Uids
  <2>3. r \in Request
    BY <2>1, <2>2, RouterAssumption DEF Request, TypeOK, GetNextId
  <2>4. QueryMsg(r) \in UpMessage /\ QueryMsg(r).q = issued + 1
    BY <2>3, MessagesTyped DEF QueryMsg
  <2>5. up' = [up EXCEPT ![b] = Append(up[b], QueryMsg(r))]
    BY DEF CefQuery
  <2> QED BY <2>4, <2>5
<1>2. issued' = issued + 1 /\ callbacks' = callbacks /\ issued \in Nat
  BY RouterAssumption DEF CefQuery, TypeOK
<1>3. up \in [Browsers -> Seq(UpMessage)]
  BY DEF TypeOK
<1>4. \A c \in Browsers : c # b => up'[c] = up[c]
  BY <1>1, <1>3
<1>5. /\ Len(up[b]) \in Nat /\ Len(up'[b]) = Len(up[b]) + 1
      /\ \A i \in 1..Len(up[b]) : up'[b][i] = up[b][i]
      /\ up'[b][Len(up[b]) + 1] = m
  BY <1>1, <1>3, AppendProperties, LenProperties
<1>6. ASSUME NEW c \in Browsers, NEW i \in 1..Len(up'[c])
      PROVE  \/ i \in 1..Len(up[c]) /\ up'[c][i] = up[c][i]
             \/ c = b /\ i = Len(up[b]) + 1 /\ up'[c][i].q = issued + 1
  BY <1>1, <1>4, <1>5
<1>7. \A c \in Browsers : \A i \in 1..Len(up[c]) : up[c][i].type = "query" => up[c][i].q # issued + 1
  <2>1. \A c \in Browsers : \A i \in 1..Len(up[c]) : up[c][i] \in UpMessage
    BY <1>3, LenProperties, ElementOfSeq
  <2> QED BY <1>2, <2>1 DEF SentOnce, UpMessage, Uids
<1>8. ASSUME NEW c \in Browsers, NEW d \in Browsers,
             NEW i \in 1..Len(up'[c]), NEW j \in 1..Len(up'[d]),
             up'[c][i].type = "query", up'[d][j].type = "query", up'[c][i].q = up'[d][j].q
      PROVE  c = d /\ i = j
  <2>1. CASE i \in 1..Len(up[c]) /\ up'[c][i] = up[c][i] /\ j \in 1..Len(up[d]) /\ up'[d][j] = up[d][j]
    BY <1>8, <2>1, SentApart
  <2>2. CASE i \in 1..Len(up[c]) /\ up'[c][i] = up[c][i] /\ up'[d][j].q = issued + 1
    BY <1>7, <1>8, <2>2
  <2>3. CASE up'[c][i].q = issued + 1 /\ j \in 1..Len(up[d]) /\ up'[d][j] = up[d][j]
    BY <1>7, <1>8, <2>3
  <2>4. CASE c = b /\ i = Len(up[b]) + 1 /\ d = b /\ j = Len(up[b]) + 1
    BY <2>4
  <2> QED BY <1>6, <2>1, <2>2, <2>3, <2>4
<1>9. \A c \in callbacks : c.q \in Nat /\ c.q <= issued
  BY DEF TypeOK, CallbackImpl, SentOnce, Uids
<1>10. ASSUME NEW c \in Browsers, NEW i \in 1..Len(up'[c]), up'[c][i].type = "query"
       PROVE  up'[c][i].q <= issued' /\ \A d \in callbacks' : d.q # up'[c][i].q
  <2>1. CASE i \in 1..Len(up[c]) /\ up'[c][i] = up[c][i]
    <3>1. up[c][i] \in UpMessage
      BY <1>3, <2>1, LenProperties, ElementOfSeq
    <3>2. up[c][i].q \in Nat /\ up[c][i].q <= issued
      BY <1>10, <2>1, <3>1 DEF SentOnce, UpMessage, Uids
    <3> QED BY <1>2, <1>10, <2>1, <3>2 DEF SentOnce
  <2>2. CASE up'[c][i].q = issued + 1
    BY <1>2, <1>9, <2>2
  <2> QED BY <1>6, <2>1, <2>2
<1>11. \A c \in callbacks' : c.q <= issued' /\ \A d \in callbacks' : c.q = d.q => c = d
  BY <1>2, <1>9 DEF SentOnce
<1> QED BY <1>8, <1>10, <1>11 DEF SentOnce

\* A message that a handler takes is no longer in the channel.
LEMMA SentOnceAccept ==
  ASSUME TypeOK, SentOnce, NEW b \in Browsers, NEW h \in Handlers, up[b] # <<>>,
         Head(up[b]).type = "query", up'[b] = Tail(up[b]),
         \A c \in Browsers : c # b => up'[c] = up[c],
         AcceptQuery(b, Head(up[b]), h), issued' = issued
  PROVE  SentOnce'
<1> DEFINE m == Head(up[b])
           c0 == [id |-> GetNextId(nextQuery), pers |-> m.pers, q |-> m.q]
<1>1. callbacks' = callbacks \cup {c0} /\ c0.q = m.q
  BY DEF AcceptQuery
<1>2. up \in [Browsers -> Seq(UpMessage)] /\ Len(up[b]) \in Nat \ {0} /\ m = up[b][1]
  BY LenProperties, EmptySeq DEF TypeOK
<1>3. /\ Len(up'[b]) = Len(up[b]) - 1
      /\ \A i \in 1..Len(up'[b]) : up'[b][i] = up[b][i + 1]
  BY <1>2, HeadTailProperties
<1>4. 1 \in 1..Len(up[b]) /\ \A i \in 1..Len(up'[b]) : i + 1 \in 1..Len(up[b]) /\ i + 1 # 1
  BY <1>2, <1>3
<1> HIDE DEF c0, m
<1>5. \A c \in Browsers : c # b => up'[c] = up[c]
  OBVIOUS
<1>6. m.q <= issued /\ m.type = "query" /\ \A c \in callbacks : c.q # m.q
  BY <1>2, <1>4 DEF SentOnce, m
<1>7. ASSUME NEW c \in Browsers, NEW i \in 1..Len(up'[c]), up'[c][i].type = "query"
      PROVE  up'[c][i].q # m.q
  <2>1. CASE c = b
    <3>1. i + 1 \in 1..Len(up[b]) /\ i + 1 # 1 /\ up[b][i + 1] = up'[c][i]
      BY <1>3, <1>4, <2>1
    <3> QED BY <1>2, <1>4, <1>6, <1>7, <3>1, SentApart
  <2>2. CASE c # b
    BY <1>2, <1>4, <1>5, <1>6, <1>7, <2>2, SentApart
  <2> QED BY <2>1, <2>2
<1>8. \A c \in Browsers : UpKept(c)
  <2>1. \A c \in Browsers : up'[c] = up[c] \/ (up[c] # <<>> /\ up'[c] = Tail(up[c]))
    BY <1>2
  <2> QED BY <2>1, UpdatesKept
<1>9. ASSUME NEW c \in Browsers, NEW d \in Browsers,
             NEW i \in 1..Len(up'[c]), NEW j \in 1..Len(up'[d]),
             up'[c][i].type = "query", up'[d][j].type = "query", up'[c][i].q = up'[d][j].q
      PROVE  c = d /\ i = j
  <2>1. \A e \in Browsers : \A k \in 1..Len(up'[e]) : up'[e][k].type = "query" =>
          \E l \in 1..Len(up[e]) : up[e][l] = up'[e][k]
    BY <1>8 DEF UpKept
  <2>2. c = d
    <3>1. PICK k \in 1..Len(up[c]) : up[c][k] = up'[c][i]
      BY <1>9, <2>1
    <3>2. PICK l \in 1..Len(up[d]) : up[d][l] = up'[d][j]
      BY <1>9, <2>1
    <3>3. up[c][k].type = "query" /\ up[d][l].type = "query" /\ up[c][k].q = up[d][l].q
      BY <1>9, <3>1, <3>2
    <3> QED BY <3>3, SentApart
  <2>3. CASE c = b
    <3>1. i + 1 \in 1..Len(up[b]) /\ j + 1 \in 1..Len(up[b])
      BY <1>4, <2>2, <2>3
    <3>2. up[b][i + 1] = up'[c][i] /\ up[b][j + 1] = up'[d][j]
      BY <1>3, <2>2, <2>3
    <3> DEFINE k == i + 1
               l == j + 1
    <3>3. k \in 1..Len(up[b]) /\ l \in 1..Len(up[b])
      BY <3>1
    <3>4. up[b][k].type = "query" /\ up[b][l].type = "query" /\ up[b][k].q = up[b][l].q
      BY <1>9, <3>2
    <3>5. k = l
      <4> HIDE DEF k, l
      <4> QED BY <3>3, <3>4, SentApart
    <3> QED BY <2>2, <3>5
  <2>4. CASE c # b
    BY <1>5, <1>9, <2>2, <2>4, SentApart
  <2> QED BY <2>2, <2>3, <2>4
<1>10. ASSUME NEW c \in Browsers, NEW i \in 1..Len(up'[c]), up'[c][i].type = "query"
       PROVE  up'[c][i].q <= issued' /\ \A d \in callbacks' : d.q # up'[c][i].q
  <2>1. PICK k \in 1..Len(up[c]) : up[c][k] = up'[c][i]
    BY <1>8, <1>10 DEF UpKept
  <2> QED BY <1>1, <1>7, <1>10, <2>1 DEF SentOnce
<1>11. \A c \in callbacks' : c.q <= issued' /\ \A d \in callbacks' : c.q = d.q => c = d
  BY <1>1, <1>6 DEF SentOnce
<1> HIDE DEF m, c0
<1> QED BY <1>9, <1>10, <1>11 DEF SentOnce

LEMMA SentInit == Init => SentOnce
<1> SUFFICES ASSUME Init PROVE SentOnce
  OBVIOUS
<1>1. callbacks = {} /\ \A b \in Browsers : up[b] = <<>> /\ Len(up[b]) = 0
  BY DEF Init
<1> QED BY <1>1 DEF SentOnce

LEMMA SentStep == TypeOK /\ SentOnce /\ [Next]_vars => SentOnce'
<1> SUFFICES ASSUME TypeOK, SentOnce, [Next]_vars PROVE SentOnce'
  OBVIOUS
<1>1. CASE \E b \in Browsers, f \in Frames, pers \in Persistence : CefQuery(b, f, pers)
  BY <1>1, SentOnceQuery
<1>2. CASE ~ \E b \in Browsers, f \in Frames, pers \in Persistence : CefQuery(b, f, pers)
  <2>1. \A b \in Browsers : UpKept(b)
    BY <1>2, StepKeepsUp
  <2>2. CASE callbacks' = callbacks /\ issued' = issued
    BY <2>1, <2>2, SentOnceKept
  <2>3. ASSUME NEW b \in Browsers, OnQueryMessage(b), ~(callbacks' = callbacks)
        PROVE  SentOnce'
    <3>1. PICK h \in Handlers : AcceptQuery(b, Head(up[b]), h)
      BY <2>3 DEF OnQueryMessage, RefuseWithoutHandlers, RefuseByHandlers
    <3>2. /\ up[b] # <<>> /\ Head(up[b]).type = "query" /\ up' = [up EXCEPT ![b] = Tail(up[b])]
          /\ issued' = issued
      BY <2>3 DEF OnQueryMessage, history
    <3>3. up'[b] = Tail(up[b]) /\ \A c \in Browsers : c # b => up'[c] = up[c]
      BY <3>2 DEF TypeOK
    <3> QED BY <3>1, <3>2, <3>3, SentOnceAccept
  <2>4. issued' = issued
    <3>1. CASE RendererStep
      BY <1>2, <3>1 DEF RendererStep, CefQueryCancel, OnContextCreated, OnContextReleased,
         RendererOnProcessMessageReceived, ExecuteCallback, history
    <3>2. CASE ~RendererStep
      BY <3>2, ApplicationLeaves, UiTaskLeaves, MessageLeaves, EnvironmentLeaves
         DEF Next, vars, history
    <3> QED BY <3>1, <3>2
  <2>5. callbacks' = callbacks \/ \E b \in Browsers : OnQueryMessage(b)
    <3>1. ASSUME NEW b \in Browsers, BrowserMessageStep(b)
          PROVE  callbacks' = callbacks \/ OnQueryMessage(b)
      BY <3>1 DEF BrowserMessageStep, OnCancelMessage, OnRenderProcessTerminated
    <3> QED BY <3>1, RendererLeaves, ApplicationLeaves, UiTaskLeaves, EnvironmentLeaves
         DEF Next, vars, browserVars
  <2> QED BY <2>2, <2>3, <2>4, <2>5
<1> QED BY <1>1, <1>2

-----------------------------------------------------------------------------
(* The desk: entries, callbacks and tasks of the browser side.             *)

LEMMA DeskSteps ==
  ASSUME TypeOK, [Next]_vars
  PROVE  DeskStep
<1> USE DEF browserVars, rendererVars, envVars, history
<1>0. /\ \A a, h : PendingFor(a, h) \in SUBSET queries
      /\ \A a, m : CanceledRequest(a, m) \in SUBSET queries
      /\ uiTasks \in Seq(UiTask)
  BY PendingForTyped, CanceledRequestTyped DEF TypeOK
<1>1. CASE RendererStep \/ UNCHANGED vars
  BY <1>1, RendererLeaves DEF vars, DeskStep, DeskStill, QueuesTask
<1>2. CASE ApplicationStep
  <2>1. ASSUME NEW h \in Handlers, AddHandler(h) PROVE DeskStep
    BY <2>1 DEF AddHandler, DeskStep, DeskStill, QueuesTask
  <2>2. ASSUME NEW h \in Handlers, RemoveHandler(h) PROVE DeskStep
    BY <1>0, <2>2 DEF RemoveHandler, CancelPendingFor, DeskStep, DeskCancel
  <2>3. ASSUME NEW b \in Browsers \cup {None}, NEW h \in Handlers \cup {None},
               CancelPending(b, h)
        PROVE  DeskStep
    BY <1>0, <2>3 DEF CancelPending, CancelPendingFor, DeskStep, DeskCancel
  <2>4. ASSUME NEW t \in UiTask, t.kind \notin AnswerKinds, PostFromOtherThread(t)
        PROVE  DeskStep
    BY <2>4 DEF PostFromOtherThread, DeskStep, DeskStill, QueuesTask
  <2>5. ASSUME NEW b \in Browsers \cup {None}, NEW h \in Handlers \cup {None},
               PostFromOtherThread(CancelTask(b, h))
        PROVE  DeskStep
    <3>1. CancelTask(b, h) \in UiTask /\ CancelTask(b, h).kind \notin AnswerKinds
      BY TasksTyped DEF CancelTask, AnswerKinds
    <3> QED BY <2>4, <2>5, <3>1
  <2>6. ASSUME NEW c \in callbacks,
               PostSuccess(c) \/ PostFromOtherThread(CallbackTask("Failure", c.id))
        PROVE  DeskStep
    <3>1. \A k \in {"Success", "Failure"} :
            CallbackTask(k, c.id) \in UiTask /\ CallbackTask(k, c.id).kind \notin AnswerKinds
      BY TasksTyped DEF CallbackTask, AnswerKinds, TypeOK, CallbackImpl
    <3> QED BY <2>4, <2>6, <3>1 DEF PostSuccess
  <2>7. ASSUME NEW c \in callbacks, CallSuccess(c) \/ CallFailure(c) PROVE DeskStep
    BY <1>0, <2>7 DEF CallSuccess, CallFailure, DeskStep, DeskAnswer
  <2> QED BY <1>2, <2>1, <2>2, <2>3, <2>5, <2>6, <2>7 DEF ApplicationStep
<1>3. CASE UiTaskStep
  <2>1. CASE RunCallback
    <3>1. uiTasks # <<>> => Tail(uiTasks) \in Seq(UiTask)
      BY <1>0, ElemsOfTail
    <3>2. PICK c \in callbacks :
            /\ uiTasks # <<>> /\ Head(uiTasks).kind \in {"Success", "Failure"}
            /\ Success(c, Tail(uiTasks)) \/ Failure(c, Tail(uiTasks))
            /\ UNCHANGED <<queries, callbacks, nextQuery, told, answered, requests, issued, done, got>>
      BY <2>1 DEF RunCallback
    <3> QED BY <3>1, <3>2 DEF DeskStep, DeskAnswer, TaskTaken
  <2>2. CASE RunCancelPending
    BY <1>0, <2>2 DEF RunCancelPending, CancelPendingFor, DeskStep, DeskCancel, TaskTaken
  <2> QED BY <1>3, <2>1, <2>2 DEF UiTaskStep, DeskStep
<1>4. ASSUME NEW b \in Browsers, BrowserMessageStep(b) PROVE DeskStep
  <2>1. CASE OnQueryMessage(b)
    <3>1. CASE RefuseWithoutHandlers(b, Head(up[b])) \/ RefuseByHandlers(b, Head(up[b]))
      BY <2>1, <3>1 DEF OnQueryMessage, RefuseWithoutHandlers, RefuseByHandlers, GetNextId,
         DeskStep, DeskStill, QueuesTask
    <3>2. CASE \E h \in Handlers : AcceptQuery(b, Head(up[b]), h)
      BY <2>1, <3>2 DEF OnQueryMessage, DeskStep, DeskAccept
    <3> QED BY <2>1, <3>1, <3>2 DEF OnQueryMessage
  <2>2. CASE OnCancelMessage(b)
    BY <1>0, <2>2 DEF OnCancelMessage, DeskStep, DeskCancel
  <2>3. CASE OnRenderProcessTerminated(b)
    BY <1>0, <2>3 DEF OnRenderProcessTerminated, CancelPendingFor, DeskStep, DeskCancel
  <2> QED BY <1>4, <2>1, <2>2, <2>3 DEF BrowserMessageStep
<1>5. CASE EnvironmentStep
  <2>1. ASSUME NEW b \in Disturbed, OnBeforeBrowse(b) \/ OnBeforeClose(b) PROVE DeskStep
    BY <1>0, <2>1 DEF OnBeforeBrowse, OnBeforeClose, CancelPendingFor, DeskStep, DeskCancel
  <2>2. ASSUME NEW b \in Disturbed, NavigationAborts(b) \/ RendererCrash(b) \/ LaunchRenderer(b)
        PROVE  DeskStep
    BY <2>2 DEF NavigationAborts, RendererCrash, LaunchRenderer, DeskStep, DeskStill, QueuesTask
  <2> QED BY <1>5, <2>1, <2>2 DEF EnvironmentStep
<1> QED BY <1>1, <1>2, <1>3, <1>4, <1>5 DEF Next

\* Taking the head of a queue loses nothing but the head.
LEMMA TailKeepsOthers ==
  ASSUME NEW S, NEW s \in Seq(S), s # <<>>
  PROVE  /\ Elems(Tail(s)) \subseteq Elems(s)
         /\ \A e \in Elems(s) : e = Head(s) \/ e \in Elems(Tail(s))
<1>1. Tail(s) \in Seq(S) /\ Len(Tail(s)) = Len(s) - 1
      /\ \A i \in 1..Len(Tail(s)) : Tail(s)[i] = s[i + 1]
  BY HeadTailProperties
<1>2. DOMAIN s = 1..Len(s) /\ Len(s) \in Nat \ {0} /\ DOMAIN Tail(s) = 1..(Len(s) - 1)
  BY <1>1, LenProperties, EmptySeq
<1>3. Head(s) = s[1]
  OBVIOUS
<1>4. ASSUME NEW i \in 1..Len(s), i # 1 PROVE s[i] \in Elems(Tail(s))
  <2>1. i - 1 \in DOMAIN Tail(s) /\ (i - 1) + 1 = i
    BY <1>2, <1>4
  <2>2. Tail(s)[i - 1] = s[i]
    BY <1>1, <1>2, <2>1
  <2> QED BY <2>1, <2>2 DEF Elems
<1> QED BY <1>2, <1>3, <1>4, ElemsOfTail DEF Elems

LEMMA DeskInit == Init => DeskInv /\ TasksInv
<1> SUFFICES ASSUME Init PROVE DeskInv /\ TasksInv
  OBVIOUS
<1>1. callbacks = {} /\ queries = {} /\ attached = {} /\ answered = {} /\ Elems(uiTasks) = {}
  BY ElemsOfEmpty DEF Init
<1>2. \A q \in Uids : told[q] = 0
  BY DEF Init
<1> QED BY <1>1, <1>2 DEF DeskInv, TasksInv, LiveCallbackHasEntry

\* An entry that its task ends is not attached to a callback that may answer.
LEMMA EndedIsDead ==
  ASSUME DeskInv, TasksInv, NEW t \in Elems(uiTasks), NEW x \in queries, Ends(t, x)
  PROVE  x.id \notin attached
<1>1. CallbackOf(x) \in callbacks /\ Ends(t, CallbackOf(x)) /\ CallbackOf(x).id = x.id
  BY DEF DeskInv, CallbackOf, Ends
<1> QED BY <1>1 DEF TasksInv

\* An entry and its callback name each other by id and by query.
LEMMA CallbackOfEntry ==
  ASSUME DeskInv, NEW x \in queries, NEW c \in callbacks
  PROVE  (x.id = c.id <=> x.q = c.q) /\ (x.id = c.id => x.pers = c.pers)
<1>1. /\ CallbackOf(x) \in callbacks /\ CallbackOf(x).id = x.id /\ CallbackOf(x).q = x.q
      /\ CallbackOf(x).pers = x.pers
  BY DEF DeskInv, CallbackOf
<1>2. CallbackOf(x).id = c.id \/ CallbackOf(x).q = c.q => CallbackOf(x) = c
  BY <1>1 DEF DeskInv
<1> QED BY <1>1, <1>2

LEMMA DeskStillKept ==
  ASSUME TypeOK, DeskInv, TasksInv, DeskStill
  PROVE  DeskInv' /\ TasksInv'
<1>1. Elems(uiTasks') \subseteq Elems(uiTasks) \cup {t \in UiTask : t.kind \notin AnswerKinds}
      /\ Elems(uiTasks) \subseteq Elems(uiTasks')
  <2>1. uiTasks \in Seq(UiTask)
    BY DEF TypeOK
  <2>2. CASE uiTasks' = uiTasks
    BY <2>2
  <2>3. CASE \E t \in UiTask : t.kind \notin AnswerKinds /\ uiTasks' = Append(uiTasks, t)
    <3>1. PICK t \in UiTask : t.kind \notin AnswerKinds /\ uiTasks' = Append(uiTasks, t)
      BY <2>3
    <3>2. Elems(uiTasks') = Elems(uiTasks) \cup {t}
      BY <2>1, <3>1, ElemsOfAppend
    <3> QED BY <3>1, <3>2
  <2> QED BY <2>2, <2>3 DEF DeskStill, QueuesTask
<1>2. nextQuery \in Nat /\ nextQuery' \in {nextQuery, nextQuery + 1}
  BY DEF TypeOK, DeskStill
<1>3. \A c \in callbacks : c.id \in Nat
  BY DEF TypeOK, CallbackImpl
<1>4. \A t \in Elems(uiTasks) : t.id \in Nat
  BY ElemsTyped DEF TypeOK, UiTask
<1>5. UNCHANGED <<queries, callbacks, attached, told, answered>>
  BY DEF DeskStill
<1>6. DeskInv'
  <2>1. \A c \in callbacks' : 1 <= c.id /\ c.id <= nextQuery'
    BY <1>2, <1>3, <1>5 DEF DeskInv
  <2> QED BY <1>5, <2>1 DEF DeskInv, EndsOnce, LiveCallbackHasEntry
<1>7. TasksInv'
  <2>1. \A t \in Elems(uiTasks') : t.kind \in AnswerKinds => t.id <= nextQuery'
    BY <1>1, <1>2, <1>4 DEF TasksInv
  <2>2. \A t, c : Ends(t, c) => t.kind \in AnswerKinds
    BY DEF Ends, AnswerKinds
  <2>3. \A t \in Elems(uiTasks'), c \in callbacks' : Ends(t, c) => c.id \notin attached'
    BY <1>1, <1>5, <2>2 DEF TasksInv
  <2>4. \A x \in queries' : x.id \in attached' \/ \E t \in Elems(uiTasks') : Ends(t, x)
    BY <1>1, <1>5 DEF TasksInv
  <2> QED BY <2>1, <2>3, <2>4 DEF TasksInv
<1> QED BY <1>6, <1>7

LEMMA DeskCancelKept ==
  ASSUME TypeOK, DeskInv, TasksInv, DeskCancel
  PROVE  DeskInv' /\ TasksInv'
<1>1. PICK S \in SUBSET queries : CancelQueries(S)
  BY DEF DeskCancel
<1>2. /\ queries' = queries \ S /\ attached' = attached \ {x.id : x \in S}
      /\ \A q \in Uids : told'[q] = IF \E x \in S : x.q = q THEN told[q] + 1 ELSE told[q]
  BY <1>1 DEF CancelQueries
<1>3. UNCHANGED <<callbacks, nextQuery, answered>>
  BY DEF DeskCancel
<1>4. \A c \in callbacks : c.q \in Uids
  BY DEF TypeOK, CallbackImpl
<1>5. \A x \in queries, c \in callbacks : x.id = c.id <=> x.q = c.q
  BY CallbackOfEntry
<1>6. DeskInv'
  <2>1. \A c \in callbacks' : EndsOnce(c)'
    <3> SUFFICES ASSUME NEW c \in callbacks PROVE EndsOnce(c)'
      BY <1>3
    <3>1. CASE \E x \in S : x.id = c.id
      <4>1. told'[c.q] = told[c.q] + 1
        BY <1>2, <1>4, <1>5, <3>1
      <4>2. told[c.q] = 0 /\ c.q \notin answered
        BY <3>1 DEF DeskInv, EndsOnce
      <4>3. ~ \E x \in queries' : x.id = c.id
        BY <1>2, <3>1 DEF DeskInv
      <4> QED BY <1>3, <4>1, <4>2, <4>3 DEF EndsOnce
    <3>2. CASE ~ \E x \in S : x.id = c.id
      <4>1. told'[c.q] = told[c.q]
        BY <1>2, <1>4, <1>5, <3>2
      <4>2. (\E x \in queries' : x.id = c.id) <=> (\E x \in queries : x.id = c.id)
        BY <1>2, <3>2
      <4>3. EndsOnce(c)
        BY DEF DeskInv
      <4> QED BY <1>3, <4>1, <4>2, <4>3 DEF EndsOnce
    <3> QED BY <3>1, <3>2
  <2>2. \A q \in Uids : told'[q] # 0 \/ q \in answered' => \E c \in callbacks' : c.q = q
    <3> SUFFICES ASSUME NEW q \in Uids, told'[q] # 0 \/ q \in answered
                 PROVE  \E c \in callbacks : c.q = q
      BY <1>3
    <3>1. CASE \E x \in S : x.q = q
      BY <3>1 DEF DeskInv, CallbackOf
    <3>2. CASE ~ \E x \in S : x.q = q
      BY <1>2, <3>2 DEF DeskInv
    <3> QED BY <3>1, <3>2
  <2>3. LiveCallbackHasEntry'
    BY <1>2 DEF DeskInv, LiveCallbackHasEntry
  <2> QED BY <1>2, <1>3, <2>1, <2>2, <2>3 DEF DeskInv
<1>7. TasksInv'
  <2>1. Elems(uiTasks') \subseteq Elems(uiTasks)
        /\ \A t \in Elems(uiTasks) : t.kind \in AnswerKinds => t \in Elems(uiTasks')
    <3>1. CASE uiTasks' = uiTasks
      BY <3>1
    <3>2. CASE TaskTaken({"CancelPendingFor"}) /\ uiTasks' = Tail(uiTasks)
      BY <3>2, TailKeepsOthers DEF TaskTaken, AnswerKinds, TypeOK
    <3> QED BY <3>1, <3>2 DEF DeskCancel
  <2>2. \A t, c : Ends(t, c) => t.kind \in AnswerKinds
    BY DEF Ends, AnswerKinds
  <2>3. \A x \in queries' : x.id \in attached' \/ \E t \in Elems(uiTasks') : Ends(t, x)
    <3> SUFFICES ASSUME NEW x \in queries \ S
                 PROVE  x.id \in attached' \/ \E t \in Elems(uiTasks') : Ends(t, x)
      BY <1>2
    <3>1. CASE x.id \in attached
      BY <1>2, <3>1 DEF DeskInv
    <3>2. CASE \E t \in Elems(uiTasks) : Ends(t, x)
      BY <2>1, <2>2, <3>2
    <3> QED BY <3>1, <3>2 DEF TasksInv
  <2> QED BY <1>2, <1>3, <2>1, <2>3 DEF TasksInv
<1> QED BY <1>6, <1>7

LEMMA DeskAnswerKept ==
  ASSUME TypeOK, DeskInv, TasksInv, DeskAnswer
  PROVE  DeskInv' /\ TasksInv'
<1>1. PICK c \in callbacks, rest \in Seq(UiTask) :
        /\ rest = uiTasks \/ (TaskTaken({"Success", "Failure"}) /\ rest = Tail(uiTasks))
        /\ Success(c, rest) \/ Failure(c, rest)
  BY DEF DeskAnswer
<1>2. UNCHANGED <<queries, callbacks, nextQuery, told, answered>>
  BY DEF DeskAnswer
<1>3. Elems(rest) \subseteq Elems(uiTasks)
      /\ \A t \in Elems(uiTasks) : t.kind \in AnswerKinds => t \in Elems(rest)
  <2>1. CASE rest = uiTasks
    BY <2>1
  <2>2. CASE TaskTaken({"Success", "Failure"}) /\ rest = Tail(uiTasks)
    BY <2>2, TailKeepsOthers DEF TaskTaken, AnswerKinds, TypeOK
  <2> QED BY <1>1, <2>1, <2>2
<1>4. \A t, d : Ends(t, d) => t.kind \in AnswerKinds
  BY DEF Ends, AnswerKinds
<1>5. DeskInv'
  <2>1. attached' \subseteq attached
    BY <1>1 DEF Success, Failure
  <2>2. LiveCallbackHasEntry'
    BY <1>2, <2>1 DEF DeskInv, LiveCallbackHasEntry
  <2> QED BY <1>2, <2>2 DEF DeskInv, EndsOnce
<1>6. CASE c.id \notin attached
  <2>1. Elems(uiTasks') = Elems(rest) /\ attached' = attached
    BY <1>1, <1>6 DEF Success, Failure
  <2>2. TasksInv'
    BY <1>2, <1>3, <1>4, <2>1 DEF TasksInv
  <2> QED BY <1>5, <2>2
<1>7. CASE c.id \in attached
  <2>1. PICK k \in AnswerKinds :
          /\ uiTasks' = Append(rest, CallbackTask(k, c.id))
          /\ k = "OnCallbackFailure" \/ ~c.pers => attached' = attached \ {c.id}
          /\ k = "OnCallbackSuccess" /\ c.pers => attached' = attached
    BY <1>1, <1>7 DEF Success, Failure, AnswerKinds
  <2> DEFINE new == CallbackTask(k, c.id)
  <2>2. c.id \in Nat /\ new \in UiTask /\ new.id = c.id /\ new.kind = k
    BY <2>1, TasksTyped DEF TypeOK, CallbackImpl, AnswerKinds, CallbackTask
  <2> HIDE DEF new
  <2>3. Elems(uiTasks') = Elems(rest) \cup {new}
    BY <2>1, <2>2, ElemsOfAppend DEF new
  <2>4. c.id <= nextQuery /\ \A d \in callbacks : d.id = c.id => d = c
    BY DEF DeskInv
  <2>5. \A t \in Elems(uiTasks') : t.kind \in AnswerKinds => t.id <= nextQuery'
    BY <1>2, <1>3, <2>2, <2>3, <2>4 DEF TasksInv
  <2>6. attached' \subseteq attached
    BY <2>1 DEF AnswerKinds
  <2>7. ASSUME NEW t \in Elems(uiTasks'), NEW d \in callbacks, Ends(t, d)
        PROVE  d.id \notin attached'
    <3>1. CASE t \in Elems(uiTasks)
      BY <2>6, <2>7, <3>1 DEF TasksInv
    <3>2. CASE t = new
      <4>1. d = c /\ (k = "OnCallbackFailure" \/ ~c.pers)
        BY <2>2, <2>4, <2>7, <3>2 DEF Ends
      <4> QED BY <2>1, <4>1
    <3> QED BY <1>3, <2>3, <3>1, <3>2
  <2>8. ASSUME NEW x \in queries
        PROVE  x.id \in attached' \/ \E t \in Elems(uiTasks') : Ends(t, x)
    <3>1. CASE x.id # c.id \/ attached' = attached
      <4>1. x.id \in attached => x.id \in attached'
        BY <2>1, <3>1 DEF AnswerKinds
      <4> QED BY <1>3, <1>4, <2>3, <4>1 DEF TasksInv
    <3>2. CASE x.id = c.id /\ attached' # attached
      <4>1. x.pers = c.pers
        BY <3>2, CallbackOfEntry
      <4>2. k = "OnCallbackFailure" \/ (k = "OnCallbackSuccess" /\ ~c.pers)
        BY <2>1, <3>2 DEF AnswerKinds
      <4>3. Ends(new, x)
        BY <2>2, <3>2, <4>1, <4>2 DEF Ends
      <4> QED BY <2>3, <4>3
    <3> QED BY <3>1, <3>2
  <2>9. TasksInv'
    BY <1>2, <2>5, <2>7, <2>8 DEF TasksInv
  <2> QED BY <1>5, <2>9
<1> QED BY <1>6, <1>7

\* A posted answer that goes out takes its entry with it, and nothing else.
LEMMA AnswerTakes ==
  ASSUME TypeOK, DeskInv, NEW ok \in BOOLEAN, OnCallback(ok)
  PROVE  \E S \in SUBSET queries :
           /\ queries' = queries \ S /\ answered' = answered \cup {x.q : x \in S}
           /\ \A x \in queries : x \in S <=> Ends(Head(uiTasks), x)
           /\ uiTasks # <<>> /\ uiTasks' = Tail(uiTasks)
           /\ Head(uiTasks).kind = IF ok THEN "OnCallbackSuccess" ELSE "OnCallbackFailure"
           /\ UNCHANGED <<callbacks, nextQuery, attached, said, told>>
<1> DEFINE S == {x \in GetQueryInfo(Head(uiTasks).id) : ~ok \/ ~x.pers}
<1>1. S \in SUBSET queries
  BY DEF GetQueryInfo
<1>2. Head(uiTasks).kind = IF ok THEN "OnCallbackSuccess" ELSE "OnCallbackFailure"
  BY DEF OnCallback
<1>3. \A x \in queries : x \in S <=> Ends(Head(uiTasks), x)
  BY <1>2 DEF GetQueryInfo, Ends
<1>4. queries' = queries \ S /\ answered' = answered \cup {x.q : x \in S}
  BY DEF OnCallback
<1> HIDE DEF S
<1> QED BY <1>1, <1>2, <1>3, <1>4 DEF OnCallback

LEMMA OnCallbackKept ==
  ASSUME TypeOK, DeskInv, TasksInv, NEW ok \in BOOLEAN, OnCallback(ok)
  PROVE  DeskInv' /\ TasksInv'
<1>1. PICK S \in SUBSET queries :
        /\ queries' = queries \ S /\ answered' = answered \cup {x.q : x \in S}
        /\ \A x \in queries : x \in S <=> Ends(Head(uiTasks), x)
        /\ uiTasks # <<>> /\ uiTasks' = Tail(uiTasks)
        /\ UNCHANGED <<callbacks, nextQuery, attached, told>>
  BY AnswerTakes
<1>2. Elems(Tail(uiTasks)) \subseteq Elems(uiTasks) /\ Head(uiTasks) \in Elems(uiTasks)
      /\ \A t \in Elems(uiTasks) : t = Head(uiTasks) \/ t \in Elems(uiTasks')
  BY <1>1, TailKeepsOthers, ElemsOfTail DEF TypeOK
<1>3. \A x \in S : x.id \notin attached
  BY <1>1, <1>2, EndedIsDead
<1>4. \A x \in queries, c \in callbacks : x.id = c.id <=> x.q = c.q
  BY CallbackOfEntry
<1>5. ASSUME NEW c \in callbacks PROVE EndsOnce(c)'
  <2>1. EndsOnce(c)
    BY DEF DeskInv
  <2>2. CASE \E x \in S : x.id = c.id
    <3>1. c.q \in answered'
      BY <1>1, <1>4, <2>2
    <3>2. ~ \E x \in queries' : x.id = c.id
      BY <1>1, <2>2 DEF DeskInv
    <3> QED BY <1>1, <2>1, <2>2, <3>1, <3>2 DEF EndsOnce
  <2>3. CASE ~ \E x \in S : x.id = c.id
    <3>1. c.q \in answered' <=> c.q \in answered
      BY <1>1, <1>4, <2>3
    <3>2. (\E x \in queries' : x.id = c.id) <=> (\E x \in queries : x.id = c.id)
      BY <1>1, <2>3
    <3> QED BY <1>1, <2>1, <3>1, <3>2 DEF EndsOnce
  <2> QED BY <2>2, <2>3
<1>6. \A q \in Uids : told'[q] # 0 \/ q \in answered' => \E c \in callbacks : c.q = q
  <2> SUFFICES ASSUME NEW q \in Uids, told[q] # 0 \/ q \in answered \/ \E x \in S : x.q = q
               PROVE  \E c \in callbacks : c.q = q
    BY <1>1
  <2> QED BY <1>1 DEF DeskInv, CallbackOf
<1>7. LiveCallbackHasEntry'
  BY <1>1, <1>3 DEF DeskInv, LiveCallbackHasEntry
<1>8. DeskInv'
  BY <1>1, <1>5, <1>6, <1>7 DEF DeskInv
<1>9. TasksInv'
  <2>1. \A x \in queries' : x.id \in attached' \/ \E t \in Elems(uiTasks') : Ends(t, x)
    BY <1>1, <1>2 DEF TasksInv
  <2> QED BY <1>1, <1>2, <2>1 DEF TasksInv
<1> QED BY <1>8, <1>9

LEMMA DeskAcceptKept ==
  ASSUME TypeOK, SentOnce, DeskInv, TasksInv, DeskAccept
  PROVE  DeskInv' /\ TasksInv'
<1>1. PICK b \in Browsers, h \in Handlers :
        /\ up[b] # <<>> /\ Head(up[b]).type = "query"
        /\ AcceptQuery(b, Head(up[b]), h)
        /\ UNCHANGED <<uiTasks, told, answered>>
  BY DEF DeskAccept
<1> DEFINE m == Head(up[b])
           id == nextQuery + 1
           x == [id |-> id, browser |-> b, ctx |-> m.ctx, req |-> m.req,
                 pers |-> m.pers, handler |-> h, q |-> m.q]
           c == CallbackOf(x)
<1>2. up[b] \in Seq(UpMessage) /\ 1 \in 1..Len(up[b]) /\ m = up[b][1]
  BY <1>1, LenProperties, EmptySeq DEF TypeOK
<1>3. m.q \in Uids /\ \A d \in callbacks : d.q # m.q
  <2>1. m \in UpMessage
    BY <1>2, LenProperties, ElementOfSeq
  <2> QED BY <1>1, <1>2, <2>1 DEF SentOnce, UpMessage
<1>4. /\ nextQuery' = id /\ queries' = queries \cup {x} /\ callbacks' = callbacks \cup {c}
      /\ attached' = attached \cup {id}
  BY <1>1 DEF AcceptQuery, GetNextId, CallbackOf
<1>5. x.id = id /\ x.q = m.q /\ c.id = id /\ c.q = m.q
  BY DEF CallbackOf
<1>6. nextQuery \in Nat /\ \A d \in callbacks : d.id \in Nat
  BY DEF TypeOK, CallbackImpl
<1>t. \A t \in Elems(uiTasks) : t.id \in Nat
  <2>1. uiTasks \in Seq(UiTask)
    BY DEF TypeOK
  <2>2. \A t \in Elems(uiTasks) : t \in UiTask
    BY <2>1, ElemsTyped
  <2> QED BY <2>2 DEF UiTask
<1> HIDE DEF x, id, m
<1>7. id \in Nat /\ 1 <= id /\ \A n \in Nat : n <= nextQuery => n <= id /\ n # id
  BY <1>6 DEF id
<1>8. \A d \in callbacks : 1 <= d.id /\ d.id <= id /\ d.id # id
  BY <1>6, <1>7 DEF DeskInv
<1>9. \A y \in queries : y.id # id /\ y.q # m.q
  BY <1>3, <1>8 DEF DeskInv, CallbackOf
<1> HIDE DEF c
<1>c. CallbackOf(x) = c
  BY DEF c
<1>10. \A d \in callbacks' : EndsOnce(d)'
  <2>1. ASSUME NEW d \in callbacks PROVE EndsOnce(d)'
    <3>1. EndsOnce(d)
      BY DEF DeskInv
    <3>2. (\E y \in queries' : y.id = d.id) <=> (\E y \in queries : y.id = d.id)
      BY <1>4, <1>5, <1>8
    <3> QED BY <1>1, <3>1, <3>2 DEF EndsOnce
  <2>2. ASSUME NEW d \in callbacks', d = c PROVE EndsOnce(d)'
    <3>1. told[d.q] = 0 /\ d.q \notin answered
      BY <1>3, <1>5, <2>2 DEF DeskInv
    <3> QED BY <1>1, <1>4, <1>5, <2>2, <3>1 DEF EndsOnce
  <2> QED BY <1>4, <2>1, <2>2
<1>11. DeskInv'
  <2>1. \A d \in callbacks' : 1 <= d.id /\ d.id <= nextQuery'
    BY <1>4, <1>5, <1>7, <1>8
  <2>2. \A d, e \in callbacks' : d.id = e.id \/ d.q = e.q => d = e
    BY <1>3, <1>4, <1>5, <1>8 DEF DeskInv
  <2>3. \A y \in queries' : CallbackOf(y) \in callbacks'
    BY <1>4, <1>c DEF DeskInv
  <2>4. \A y, z \in queries' : y.id = z.id => y = z
    BY <1>4, <1>5, <1>9 DEF DeskInv
  <2>5. LiveCallbackHasEntry'
    BY <1>4, <1>5 DEF DeskInv, LiveCallbackHasEntry
  <2>6. \A q \in Uids : told'[q] # 0 \/ q \in answered' => \E d \in callbacks' : d.q = q
    BY <1>1, <1>4 DEF DeskInv
  <2> QED BY <1>10, <2>1, <2>2, <2>3, <2>4, <2>5, <2>6 DEF DeskInv
<1>12. TasksInv'
  <2>1. \A t \in Elems(uiTasks) : t.kind \in AnswerKinds => t.id <= id /\ t.id # id
    BY <1>7, <1>t DEF TasksInv
  <2>2. \A t, d : Ends(t, d) => t.kind \in AnswerKinds /\ t.id = d.id
    BY DEF Ends, AnswerKinds
  <2>3. \A t \in Elems(uiTasks'), d \in callbacks' : Ends(t, d) => d.id \notin attached'
    <3> SUFFICES ASSUME NEW t \in Elems(uiTasks), NEW d \in callbacks', Ends(t, d)
                 PROVE  d.id \notin attached'
      BY <1>1
    <3>1. d.id # id
      BY <2>1, <2>2
    <3>2. d \in callbacks
      BY <1>4, <1>5, <3>1
    <3> QED BY <1>4, <3>1, <3>2 DEF TasksInv
  <2>4. \A y \in queries' : y.id \in attached' \/ \E t \in Elems(uiTasks') : Ends(t, y)
    BY <1>1, <1>4, <1>5 DEF TasksInv
  <2> QED BY <1>1, <1>4, <2>1, <2>3, <2>4 DEF TasksInv
<1> QED BY <1>11, <1>12

LEMMA DeskKept ==
  TypeOK /\ SentOnce /\ DeskInv /\ TasksInv /\ [Next]_vars => DeskInv' /\ TasksInv'
<1> SUFFICES ASSUME TypeOK, SentOnce, DeskInv, TasksInv, [Next]_vars
             PROVE  DeskInv' /\ TasksInv'
  OBVIOUS
<1>1. DeskStep
  BY DeskSteps
<1> QED BY <1>1, DeskStillKept, DeskCancelKept, DeskAnswerKept, DeskAcceptKept, OnCallbackKept
     DEF DeskStep

LEMMA DeskImpliesEnds == TypeOK /\ DeskInv => HandledQueryEndsOnce
<1> SUFFICES ASSUME TypeOK, DeskInv, NEW c \in callbacks
             PROVE  told[c.q] + Cardinality(answered \cap {c.q})
                      = IF \E x \in queries : x.id = c.id THEN 0 ELSE 1
  BY DEF HandledQueryEndsOnce
<1>1. EndsOnce(c)
  BY DEF DeskInv
<1>2. CASE c.q \in answered
  <2>1. answered \cap {c.q} = {c.q}
    BY <1>2
  <2>2. Cardinality(answered \cap {c.q}) = 1
    BY <2>1, FS_Singleton
  <2> QED BY <1>1, <1>2, <2>2 DEF EndsOnce
<1>3. CASE c.q \notin answered
  <2>1. answered \cap {c.q} = {}
    BY <1>3
  <2>2. Cardinality(answered \cap {c.q}) = 0
    BY <2>1, FS_EmptySet
  <2> QED BY <1>1, <1>3, <2>2 DEF EndsOnce
<1> QED BY <1>2, <1>3

\* Of a query a handler took, the browser side holds an entry, a callback and
\* posted answers that belong together (CallbackImpl, OnCallbackSuccess and
\* OnCallbackFailure in cef_message_router.cc).
THEOREM DeskInvariant == Spec => [](SentOnce /\ DeskInv /\ TasksInv)
<1>1. Init => SentOnce /\ DeskInv /\ TasksInv
  BY SentInit, DeskInit
<1>2. TypeOK /\ SentOnce /\ DeskInv /\ TasksInv /\ [Next]_vars
        => (SentOnce /\ DeskInv /\ TasksInv)'
  BY SentStep, DeskKept
<1> QED BY <1>1, <1>2, TypeCorrect, PTL DEF Spec

\* A callback that can still answer belongs to a pending entry (the DCHECK at
\* cef_message_router.cc:82).
THEOREM LiveCallbacks == Spec => []LiveCallbackHasEntry
<1>1. DeskInv => LiveCallbackHasEntry
  BY DEF DeskInv
<1> QED BY <1>1, DeskInvariant, PTL

\* A query that a handler took ends for the handler exactly once
\* (cef_message_router.h:256-258, 269-272).
THEOREM HandledQueriesEnd == Spec => []HandledQueryEndsOnce
<1> QED BY DeskImpliesEnds, DeskInvariant, TypeCorrect, PTL

-----------------------------------------------------------------------------
(* The contexts of the requests.                                           *)

\* The parts of what is about.
LEMMA MessageParts ==
  ASSUME TypeOK, NEW b \in Browsers, NEW m \in Elems(up[b])
  PROVE  /\ m \in UpMessage /\ m.ctx \in Nat /\ m.req \in Nat /\ m.pers \in BOOLEAN
         /\ m.q \in Nat /\ (m.type = "query" => m.q \in Uids)
<1>1. m \in UpMessage
  BY ElemsTyped DEF TypeOK
<1> QED BY <1>1 DEF UpMessage, Uids

LEMMA RequestParts ==
  ASSUME TypeOK, NEW b \in Browsers, NEW r \in requests[b]
  PROVE  /\ r \in Request /\ r.ctx \in Nat /\ r.req \in Nat /\ r.pers \in BOOLEAN
         /\ r.q \in Uids /\ r.q \in Nat
<1>1. r \in Request
  BY DEF TypeOK
<1> QED BY <1>1 DEF Request, Uids

LEMMA AnswerParts ==
  ASSUME TypeOK, NEW b \in Browsers, NEW a \in Elems(down[b]) \cup Elems(rtasks[b])
  PROVE  /\ a \in Answer /\ a.ctx \in Nat /\ a.req \in Nat /\ a.ok \in BOOLEAN
         /\ a.q \in Uids /\ a.q \in Nat
<1>1. a \in Answer
  BY ElemsTyped DEF TypeOK
<1> QED BY <1>1 DEF Answer, Uids

LEMMA EntryParts ==
  ASSUME TypeOK, NEW x \in queries
  PROVE  /\ x \in QueryInfo /\ x.browser \in Browsers /\ x.id \in Nat /\ x.ctx \in Nat
         /\ x.req \in Nat /\ x.pers \in BOOLEAN /\ x.q \in Uids /\ x.q \in Nat
<1>1. x \in QueryInfo
  BY DEF TypeOK
<1> QED BY <1>1 DEF QueryInfo, Uids

\* A step that leaves b's frames alone and sends no cancel message for it.
LEMMA ContextStill ==
  ASSUME NEW b \in Browsers, ContextAt(b),
         proc'[b] = proc[b], ctx'[b] = ctx[b], nextCtx'[b] = nextCtx[b],
         nextReq'[b] = nextReq[b], requests'[b] \subseteq requests[b],
         \A m \in Elems(up'[b]) : m.type = "cancel" => m \in Elems(up[b])
  PROVE  ContextAt(b)'
<1>1. CASE proc[b] = "running"
  <2>1. FramesNumbered(b)'
    BY <1>1 DEF ContextAt, FramesNumbered
  <2>2. RequestsPlaced(b)'
    BY <1>1 DEF ContextAt, RequestsPlaced
  <2>3. CancelsArePast(b)'
    <3> SUFFICES ASSUME NEW m \in Elems(up'[b]), m.type = "cancel"
                 PROVE  /\ m.ctx > 0 /\ m.ctx <= nextCtx'[b] /\ m.req <= nextReq'[b]
                        /\ m.req = kReservedId => \A f \in Frames : ctx'[b][f] # m.ctx
                        /\ \A r \in requests'[b] : ~Withdraws(m, r)
      BY DEF CancelsArePast
    <3>1. m \in Elems(up[b])
      OBVIOUS
    <3> QED BY <1>1, <3>1 DEF ContextAt, CancelsArePast
  <2> QED BY <1>1, <2>1, <2>2, <2>3 DEF ContextAt
<1>2. CASE proc[b] # "running"
  BY <1>2 DEF ContextAt
<1> QED BY <1>1, <1>2

\* A context that asks for its id has one that no other frame and no cancel
\* message has.
LEMMA IdGiven ==
  ASSUME TypeOK, NEW b \in Browsers, NEW f \in Frames, proc[b] = "running",
         ContextAt(b), ctx[b][f] # NoContext, CreateIDForContext(b, f)
  PROVE  /\ IdForContext(b, f) \in Nat /\ IdForContext(b, f) > 0
         /\ IdForContext(b, f) <= nextCtx'[b]
         /\ nextCtx[b] <= nextCtx'[b]
         /\ ctx'[b][f] = IdForContext(b, f)
         /\ \A g \in Frames : g # f => ctx'[b][g] = ctx[b][g] /\ ctx[b][g] # IdForContext(b, f)
         /\ \A c \in Browsers : c # b => ctx'[c] = ctx[c] /\ nextCtx'[c] = nextCtx[c]
         /\ \A g \in Frames : ctx[b][g] > 0 => ctx'[b][g] = ctx[b][g]
         /\ IdForContext(b, f) <= nextCtx[b] => ctx[b][f] = IdForContext(b, f)
<1>1. /\ ctx \in [Browsers -> [Frames -> Nat \cup {NoContext}]] /\ nextCtx \in [Browsers -> Nat]
      /\ ctx[b][f] \in Nat
  BY DEF TypeOK
<1>2. \A g \in Frames : ctx[b][g] \in Int /\ ctx[b][g] <= nextCtx[b]
  BY <1>1 DEF ContextAt, FramesNumbered, NoContext
<1>3. /\ ctx' = [ctx EXCEPT ![b][f] = IdForContext(b, f)]
      /\ nextCtx' = [nextCtx EXCEPT ![b] = IF ctx[b][f] = 0 THEN nextCtx[b] + 1 ELSE nextCtx[b]]
  BY DEF CreateIDForContext, GetNextId, kReservedId
<1>4. IdForContext(b, f) = IF ctx[b][f] = 0 THEN nextCtx[b] + 1 ELSE ctx[b][f]
  BY DEF IdForContext, GetNextId, kReservedId
<1>5. /\ ctx'[b][f] = IdForContext(b, f)
      /\ \A g \in Frames : g # f => ctx'[b][g] = ctx[b][g]
      /\ \A c \in Browsers : c # b => ctx'[c] = ctx[c] /\ nextCtx'[c] = nextCtx[c]
      /\ nextCtx'[b] = IF ctx[b][f] = 0 THEN nextCtx[b] + 1 ELSE nextCtx[b]
  BY <1>1, <1>3
<1>6. nextCtx[b] \in Nat
  BY <1>1
<1>7. CASE ctx[b][f] = 0
  BY <1>2, <1>4, <1>5, <1>6, <1>7
<1>8. CASE ctx[b][f] # 0
  <2>1. ctx[b][f] > 0
    BY <1>1, <1>8
  <2>2. \A g \in Frames : g # f => ctx[b][g] # ctx[b][f]
    BY <2>1 DEF ContextAt, FramesNumbered
  <2> QED BY <1>1, <1>2, <1>4, <1>5, <1>6, <1>8, <2>1, <2>2
<1> QED BY <1>7, <1>8

\* After that the frames are still numbered, and old requests still placed.
LEMMA IdGivenKeeps ==
  ASSUME TypeOK, NEW b \in Browsers, NEW f \in Frames, proc[b] = "running",
         ContextAt(b), ctx[b][f] # NoContext, CreateIDForContext(b, f)
  PROVE  /\ FramesNumbered(b)'
         /\ \A r \in requests[b] : \E g \in Frames : ctx'[b][g] = r.ctx
         /\ \A m \in Elems(up[b]) : m.type = "cancel" =>
              /\ m.ctx > 0 /\ m.ctx <= nextCtx'[b] /\ m.req <= nextReq[b]
              /\ m.req = kReservedId => \A g \in Frames : ctx'[b][g] # m.ctx
              /\ \A r \in requests[b] : ~Withdraws(m, r)
<1> DEFINE id == IdForContext(b, f)
<1>1. /\ id \in Nat /\ id > 0 /\ id <= nextCtx'[b]
      /\ nextCtx[b] <= nextCtx'[b] /\ ctx'[b][f] = id
      /\ \A g \in Frames : g # f => ctx'[b][g] = ctx[b][g] /\ ctx[b][g] # id
      /\ \A g \in Frames : ctx[b][g] > 0 => ctx'[b][g] = ctx[b][g]
      /\ id <= nextCtx[b] => ctx[b][f] = id
  BY IdGiven
<1>2. nextCtx[b] \in Nat /\ nextCtx'[b] \in Nat /\ \A g \in Frames : ctx[b][g] \in Int
  <2>1. nextCtx[b] \in Nat /\ \A g \in Frames : ctx[b][g] \in Int
    BY DEF TypeOK, NoContext
  <2>2. nextCtx' \in [Browsers -> Nat]
    BY CreateIDTyped
  <2> QED BY <2>1, <2>2
<1> HIDE DEF id
<1>3. FramesNumbered(b)'
  <2>1. ASSUME NEW g \in Frames PROVE ctx'[b][g] <= nextCtx'[b]
    BY <1>1, <1>2 DEF ContextAt, FramesNumbered
  <2>2. ASSUME NEW g \in Frames, NEW h \in Frames, ctx'[b][g] = ctx'[b][h], ctx'[b][g] > 0
        PROVE  g = h
    BY <1>1, <1>2, <2>2 DEF ContextAt, FramesNumbered
  <2> QED BY <2>1, <2>2 DEF FramesNumbered
<1>4. \A r \in requests[b] : \E g \in Frames : ctx'[b][g] = r.ctx
  BY <1>1 DEF ContextAt, RequestsPlaced
<1>5. ASSUME NEW m \in Elems(up[b]), m.type = "cancel"
      PROVE  /\ m.ctx > 0 /\ m.ctx <= nextCtx'[b] /\ m.req <= nextReq[b]
             /\ m.req = kReservedId => \A g \in Frames : ctx'[b][g] # m.ctx
             /\ \A r \in requests[b] : ~Withdraws(m, r)
  <2>1. /\ m.ctx > 0 /\ m.ctx <= nextCtx[b] /\ m.req <= nextReq[b]
        /\ m.req = kReservedId => \A g \in Frames : ctx[b][g] # m.ctx
        /\ \A r \in requests[b] : ~Withdraws(m, r)
    BY <1>5 DEF ContextAt, CancelsArePast
  <2>2. m.ctx \in Nat
    BY MessageParts
  <2>3. m.req = kReservedId => \A g \in Frames : ctx'[b][g] # m.ctx
    BY <1>1, <1>2, <2>1, <2>2
  <2> QED BY <1>1, <1>2, <2>1, <2>2, <2>3
<1> QED BY <1>3, <1>4, <1>5

\* What the sending of a cancel message does to the requests and to the channel.
LEMMA SendCancelElems ==
  ASSUME TypeOK, NEW b \in Browsers, NEW c \in Nat, NEW req \in Nat, SendCancel(b, c, req)
  PROVE  /\ requests'[b] = requests[b] \ CanceledBy(b, c, req)
         /\ Elems(up[b]) \subseteq Elems(up'[b])
         /\ \A m \in Elems(up'[b]) : m \in Elems(up[b]) \/ m = CancelMsg(c, req)
         /\ CanceledBy(b, c, req) # {} => CancelMsg(c, req) \in Elems(up'[b])
         /\ \A a \in Browsers : a # b => requests'[a] = requests[a] /\ up'[a] = up[a]
<1>1. requests' = [requests EXCEPT ![b] = requests[b] \ CanceledBy(b, c, req)]
  BY DEF SendCancel
<1>2. requests'[b] = requests[b] \ CanceledBy(b, c, req)
      /\ \A a \in Browsers : a # b => requests'[a] = requests[a]
  BY <1>1 DEF TypeOK
<1>3. CASE CanceledBy(b, c, req) = {}
  BY <1>2, <1>3 DEF SendCancel
<1>4. CASE CanceledBy(b, c, req) # {}
  <2>1. up' = [up EXCEPT ![b] = Append(up[b], CancelMsg(c, req))]
    BY <1>4 DEF SendCancel
  <2>2. up'[b] = Append(up[b], CancelMsg(c, req))
        /\ \A a \in Browsers : a # b => up'[a] = up[a]
    BY <2>1 DEF TypeOK
  <2>3. Elems(up'[b]) = Elems(up[b]) \cup {CancelMsg(c, req)}
    BY <2>2, MessagesTyped, ElemsOfAppend DEF TypeOK
  <2> QED BY <1>2, <2>2, <2>3
<1> QED BY <1>3, <1>4

LEMMA ContextCefQuery ==
  ASSUME TypeOK, KeyInv, ContextInv, NEW a \in Browsers, NEW f \in Frames,
         NEW pers \in Persistence, CefQuery(a, f, pers), NEW b \in Browsers
  PROVE  ContextAt(b)'
<1> USE DEF browserVars, envVars
<1> DEFINE r == [ctx |-> IdForContext(a, f), req |-> GetNextId(nextReq[a]),
                 pers |-> pers, q |-> issued + 1]
<1>1. /\ proc[a] = "running" /\ ctx[a][f] # NoContext /\ CreateIDForContext(a, f)
      /\ nextReq' = [nextReq EXCEPT ![a] = r.req]
      /\ requests' = [requests EXCEPT ![a] = requests[a] \cup {r}]
      /\ up' = [up EXCEPT ![a] = Append(up[a], QueryMsg(r))]
      /\ proc' = proc
  BY DEF CefQuery
<1>2. r \in Request
  <2>1. issued + 1 \in Uids
    BY RouterAssumption DEF CefQuery, TypeOK, Uids
  <2>2. IdForContext(a, f) \in Nat
    BY <1>1, IdsTyped
  <2>4. GetNextId(nextReq[a]) \in Nat
    BY DEF TypeOK, GetNextId
  <2>3. pers \in BOOLEAN
    BY RouterAssumption
  <2> QED BY <2>1, <2>2, <2>3, <2>4 DEF Request
<1>3. nextReq[a] \in Nat /\ r.req = nextReq[a] + 1 /\ r.ctx = IdForContext(a, f)
  BY DEF GetNextId, TypeOK
<1>4. /\ r.ctx \in Nat /\ r.ctx > 0 /\ r.ctx <= nextCtx'[a]
      /\ ctx'[a][f] = r.ctx
      /\ \A c \in Browsers : c # a => ctx'[c] = ctx[c] /\ nextCtx'[c] = nextCtx[c]
  BY <1>1, <1>3, IdGiven DEF ContextInv
<1>5. /\ FramesNumbered(a)'
      /\ \A s \in requests[a] : \E g \in Frames : ctx'[a][g] = s.ctx
      /\ \A m \in Elems(up[a]) : m.type = "cancel" =>
           /\ m.ctx > 0 /\ m.ctx <= nextCtx'[a] /\ m.req <= nextReq[a]
           /\ m.req = kReservedId => \A g \in Frames : ctx'[a][g] # m.ctx
           /\ \A s \in requests[a] : ~Withdraws(m, s)
  BY <1>1, IdGivenKeeps DEF ContextInv
<1>6. Elems(Append(up[a], QueryMsg(r))) = Elems(up[a]) \cup {QueryMsg(r)}
  BY <1>2, MessagesTyped, ElemsOfAppend DEF TypeOK
<1>7. QueryMsg(r).type = "query"
  BY DEF QueryMsg
<1> HIDE DEF r
<1>8. /\ nextReq'[a] = r.req /\ requests'[a] = requests[a] \cup {r}
      /\ Elems(up'[a]) = Elems(up[a]) \cup {QueryMsg(r)}
      /\ \A c \in Browsers : c # a => /\ nextReq'[c] = nextReq[c] /\ up'[c] = up[c]
                                      /\ requests'[c] = requests[c]
  BY <1>1, <1>6 DEF TypeOK
<1>9. CASE b = a
  <2>1. RequestsPlaced(a)'
    <3>1. \A s \in requests[a] : s.ctx > 0 /\ s.req > 0
      BY <1>1 DEF ContextInv, ContextAt, RequestsPlaced
    <3> QED BY <1>3, <1>4, <1>5, <1>8, <3>1 DEF RequestsPlaced
  <2>2. ASSUME NEW m \in Elems(up'[a]), m.type = "cancel"
        PROVE  /\ m.ctx > 0 /\ m.ctx <= nextCtx'[a] /\ m.req <= nextReq'[a]
               /\ m.req = kReservedId => \A g \in Frames : ctx'[a][g] # m.ctx
               /\ \A s \in requests'[a] : ~Withdraws(m, s)
    <3>1. m \in Elems(up[a])
      BY <1>7, <1>8, <2>2
    <3>2. m.req \in Nat /\ m.ctx \in Nat
      BY <3>1, MessageParts
    <3>3. /\ m.ctx > 0 /\ m.ctx <= nextCtx'[a] /\ m.req <= nextReq[a]
          /\ m.req = kReservedId => \A g \in Frames : ctx'[a][g] # m.ctx
          /\ \A s \in requests[a] : ~Withdraws(m, s)
      BY <1>5, <2>2, <3>1
    <3>4. ~Withdraws(m, r)
      <4>1. m.req # r.req
        BY <1>3, <3>2, <3>3
      <4>2. m.req = kReservedId => m.ctx # r.ctx
        BY <1>4, <3>3
      <4> QED BY <4>1, <4>2 DEF Withdraws
    <3>5. m.req <= nextReq'[a]
      BY <1>3, <1>8, <3>2, <3>3
    <3> QED BY <1>8, <3>3, <3>4, <3>5
  <2>3. CancelsArePast(a)'
    BY <2>2 DEF CancelsArePast
  <2> QED BY <1>1, <1>5, <1>9, <2>1, <2>3 DEF ContextAt
<1>10. CASE b # a
  BY <1>1, <1>4, <1>8, <1>10, ContextStill DEF ContextInv
<1> QED BY <1>9, <1>10

LEMMA ContextCancel ==
  ASSUME TypeOK, KeyInv, ContextInv, NEW a \in Browsers, NEW f \in Frames,
         NEW r0 \in requests[a], CefQueryCancel(a, f, r0.req), NEW b \in Browsers
  PROVE  ContextAt(b)'
<1> USE DEF browserVars, envVars
<1> DEFINE id == IdForContext(a, f)
           req == r0.req
<1>1. /\ proc[a] = "running" /\ ctx[a][f] # NoContext /\ CreateIDForContext(a, f)
      /\ SendCancel(a, id, req) /\ nextReq' = nextReq /\ proc' = proc
  BY DEF CefQueryCancel
<1>2. /\ id \in Nat /\ id > 0 /\ id <= nextCtx'[a]
      /\ \A c \in Browsers : c # a => ctx'[c] = ctx[c] /\ nextCtx'[c] = nextCtx[c]
  BY <1>1, IdGiven DEF ContextInv
<1>3. req \in Nat /\ req > 0 /\ req <= nextReq[a] /\ nextReq[a] \in Nat
  <2>1. KeyOf(r0) \in KeysInFlight(a)
    BY KeysOfPlaces
  <2>2. req <= nextReq[a]
    BY <1>1, <2>1 DEF KeyInv, KeysUnique, KeyOf
  <2>3. req > 0
    BY <1>1 DEF ContextInv, ContextAt, RequestsPlaced
  <2> QED BY <2>2, <2>3, RequestParts DEF TypeOK
<1>5. /\ FramesNumbered(a)'
      /\ \A s \in requests[a] : \E g \in Frames : ctx'[a][g] = s.ctx
      /\ \A m \in Elems(up[a]) : m.type = "cancel" =>
           /\ m.ctx > 0 /\ m.ctx <= nextCtx'[a] /\ m.req <= nextReq[a]
           /\ m.req = kReservedId => \A g \in Frames : ctx'[a][g] # m.ctx
           /\ \A s \in requests[a] : ~Withdraws(m, s)
  BY <1>1, IdGivenKeeps DEF ContextInv
<1> HIDE DEF id, req
<1>6. /\ requests'[a] = requests[a] \ CanceledBy(a, id, req)
      /\ \A m \in Elems(up'[a]) : m \in Elems(up[a]) \/ m = CancelMsg(id, req)
      /\ \A c \in Browsers : c # a => requests'[c] = requests[c] /\ up'[c] = up[c]
  BY <1>1, <1>2, <1>3, SendCancelElems
<1>7. CASE b = a
  <2>1. RequestsPlaced(a)'
    BY <1>1, <1>5, <1>6 DEF RequestsPlaced, ContextInv, ContextAt
  <2>2. ASSUME NEW m \in Elems(up'[a]), m.type = "cancel"
        PROVE  /\ m.ctx > 0 /\ m.ctx <= nextCtx'[a] /\ m.req <= nextReq'[a]
               /\ m.req = kReservedId => \A g \in Frames : ctx'[a][g] # m.ctx
               /\ \A s \in requests'[a] : ~Withdraws(m, s)
    <3>1. CASE m \in Elems(up[a])
      BY <1>1, <1>5, <1>6, <2>2, <3>1
    <3>2. CASE m = CancelMsg(id, req)
      <4>1. m.ctx = id /\ m.req = req
        BY <3>2 DEF CancelMsg
      <4>2. \A s \in requests'[a] : ~Withdraws(m, s)
        BY <1>6, <4>1 DEF CanceledBy, Withdraws
      <4> QED BY <1>1, <1>2, <1>3, <4>1, <4>2 DEF kReservedId
    <3> QED BY <1>6, <3>1, <3>2
  <2>3. CancelsArePast(a)'
    BY <2>2 DEF CancelsArePast
  <2> QED BY <1>1, <1>5, <1>7, <2>1, <2>3 DEF ContextAt
<1>8. CASE b # a
  BY <1>1, <1>2, <1>6, <1>8, ContextStill DEF ContextInv
<1> QED BY <1>7, <1>8

LEMMA ContextReleased ==
  ASSUME TypeOK, ContextInv, NEW a \in Browsers, NEW f \in Frames,
         OnContextReleased(a, f), NEW b \in Browsers
  PROVE  ContextAt(b)'
<1> USE DEF browserVars, envVars
<1> DEFINE id == ctx[a][f]
<1>1. /\ proc[a] = "running" /\ id # NoContext /\ nextReq' = nextReq /\ proc' = proc
      /\ nextCtx' = nextCtx /\ ctx' = [ctx EXCEPT ![a][f] = NoContext]
      /\ IF id = kReservedId THEN UNCHANGED <<requests, up>> ELSE SendCancel(a, id, kReservedId)
  BY DEF OnContextReleased
<1>2. /\ id \in Nat /\ nextCtx[a] \in Nat /\ nextReq[a] \in Nat
      /\ \A g \in Frames : ctx[a][g] \in Int
  BY <1>1 DEF TypeOK, NoContext
<1>3. /\ ctx'[a][f] = NoContext /\ \A g \in Frames : g # f => ctx'[a][g] = ctx[a][g]
      /\ \A c \in Browsers : c # a => ctx'[c] = ctx[c]
  BY <1>1 DEF TypeOK
<1> HIDE DEF id
<1>4. id > 0 => \A g \in Frames : g # f => ctx[a][g] # id
  BY <1>1 DEF id, ContextInv, ContextAt, FramesNumbered
<1>5. FramesNumbered(a)'
  <2>1. ASSUME NEW g \in Frames PROVE ctx'[a][g] <= nextCtx'[a]
    BY <1>1, <1>2, <1>3 DEF NoContext, ContextInv, ContextAt, FramesNumbered
  <2>2. ASSUME NEW g \in Frames, NEW h \in Frames, ctx'[a][g] = ctx'[a][h], ctx'[a][g] > 0
        PROVE  g = h
    BY <1>1, <1>2, <1>3, <2>2 DEF NoContext, ContextInv, ContextAt, FramesNumbered
  <2> QED BY <2>1, <2>2 DEF FramesNumbered
<1>6. /\ \A r \in requests'[a] : r \in requests[a] /\ (id > 0 => r.ctx # id)
      /\ \A m \in Elems(up'[a]) : m \in Elems(up[a]) \/ (id > 0 /\ m = CancelMsg(id, kReservedId))
      /\ \A c \in Browsers : c # a => requests'[c] = requests[c] /\ up'[c] = up[c]
  <2>1. CASE id = kReservedId
    BY <1>1, <2>1 DEF kReservedId
  <2>2. CASE id # kReservedId
    <3>1. id > 0 /\ SendCancel(a, id, kReservedId) /\ kReservedId \in Nat
      BY <1>1, <1>2, <2>2 DEF kReservedId
    <3> QED BY <1>2, <3>1, SendCancelElems DEF CanceledBy
  <2> QED BY <2>1, <2>2
<1>7. CASE b = a
  <2>1. RequestsPlaced(a)'
    <3> SUFFICES ASSUME NEW r \in requests'[a]
                 PROVE  r.ctx > 0 /\ r.req > 0 /\ \E g \in Frames : ctx'[a][g] = r.ctx
      BY DEF RequestsPlaced
    <3>1. r \in requests[a]
      BY <1>6
    <3>2. r.ctx > 0 /\ r.req > 0
      BY <1>1, <3>1 DEF ContextInv, ContextAt, RequestsPlaced
    <3>3. PICK g \in Frames : ctx[a][g] = r.ctx
      BY <1>1, <3>1 DEF ContextInv, ContextAt, RequestsPlaced
    <3>4. g # f
      BY <1>2, <1>6, <3>1, <3>2, <3>3 DEF id
    <3> QED BY <1>3, <3>2, <3>3, <3>4
  <2>2. ASSUME NEW m \in Elems(up'[a]), m.type = "cancel"
        PROVE  /\ m.ctx > 0 /\ m.ctx <= nextCtx'[a] /\ m.req <= nextReq'[a]
               /\ m.req = kReservedId => \A g \in Frames : ctx'[a][g] # m.ctx
               /\ \A s \in requests'[a] : ~Withdraws(m, s)
    <3>1. CASE m \in Elems(up[a])
      <4>1. /\ m.ctx > 0 /\ m.ctx <= nextCtx[a] /\ m.req <= nextReq[a]
            /\ m.req = kReservedId => \A g \in Frames : ctx[a][g] # m.ctx
            /\ \A s \in requests[a] : ~Withdraws(m, s)
        BY <1>1, <2>2, <3>1 DEF ContextInv, ContextAt, CancelsArePast
      <4>2. m.ctx # NoContext
        BY <4>1, <3>1, MessageParts DEF NoContext
      <4> QED BY <1>1, <1>3, <1>6, <4>1, <4>2
    <3>2. CASE id > 0 /\ m = CancelMsg(id, kReservedId)
      <4>1. m.ctx = id /\ m.req = kReservedId
        BY <3>2 DEF CancelMsg
      <4>2. \A s \in requests'[a] : ~Withdraws(m, s)
        BY <1>6, <3>2, <4>1 DEF Withdraws
      <4>3. \A g \in Frames : ctx'[a][g] # id
        BY <1>2, <1>3, <1>4, <3>2 DEF NoContext
      <4>4. id <= nextCtx'[a]
        BY <1>1 DEF id, ContextInv, ContextAt, FramesNumbered
      <4> QED BY <1>1, <1>2, <3>2, <4>1, <4>2, <4>3, <4>4 DEF kReservedId
    <3> QED BY <1>6, <3>1, <3>2
  <2>3. CancelsArePast(a)'
    BY <2>2 DEF CancelsArePast
  <2> QED BY <1>1, <1>5, <1>7, <2>1, <2>3 DEF ContextAt
<1>8. CASE b # a
  BY <1>1, <1>3, <1>6, <1>8, ContextStill DEF ContextInv
<1> QED BY <1>7, <1>8

LEMMA ContextCreated ==
  ASSUME TypeOK, ContextInv, NEW a \in Browsers, NEW f \in Frames,
         OnContextCreated(a, f), NEW b \in Browsers
  PROVE  ContextAt(b)'
<1> USE DEF browserVars
<1>1. /\ proc[a] = "running" /\ ctx[a][f] = NoContext /\ ctx' = [ctx EXCEPT ![a][f] = kReservedId]
      /\ UNCHANGED <<proc, nextCtx, nextReq, requests, up>>
  BY DEF OnContextCreated
<1>2. /\ ctx'[a][f] = 0 /\ \A g \in Frames : g # f => ctx'[a][g] = ctx[a][g]
      /\ \A c \in Browsers : c # a => ctx'[c] = ctx[c]
      /\ nextCtx[a] \in Nat /\ \A g \in Frames : ctx[a][g] \in Int
  BY <1>1 DEF TypeOK, kReservedId, NoContext
<1>3. CASE b = a
  <2>1. FramesNumbered(a) /\ RequestsPlaced(a) /\ CancelsArePast(a)
    BY <1>1 DEF ContextInv, ContextAt
  <2>2. FramesNumbered(a)'
    <3>1. ASSUME NEW g \in Frames PROVE ctx'[a][g] <= nextCtx'[a]
      BY <1>1, <1>2, <2>1 DEF FramesNumbered
    <3>2. ASSUME NEW g \in Frames, NEW h \in Frames, ctx'[a][g] = ctx'[a][h], ctx'[a][g] > 0
          PROVE  g = h
      BY <1>2, <2>1, <3>2 DEF FramesNumbered
    <3> QED BY <3>1, <3>2 DEF FramesNumbered
  <2>3. RequestsPlaced(a)'
    <3> SUFFICES ASSUME NEW r \in requests[a]
                 PROVE  r.ctx > 0 /\ r.req > 0 /\ \E g \in Frames : ctx'[a][g] = r.ctx
      BY <1>1 DEF RequestsPlaced
    <3>1. PICK g \in Frames : ctx[a][g] = r.ctx
      BY <2>1 DEF RequestsPlaced
    <3>2. r.ctx > 0 /\ r.req > 0
      BY <2>1 DEF RequestsPlaced
    <3>3. g # f
      BY <1>1, <3>1, <3>2 DEF NoContext
    <3> QED BY <1>2, <3>1, <3>2, <3>3
  <2>4. CancelsArePast(a)'
    BY <1>1, <1>2, <2>1 DEF CancelsArePast
  <2> QED BY <1>1, <1>3, <2>2, <2>3, <2>4 DEF ContextAt
<1>4. CASE b # a
  BY <1>1, <1>2, <1>4, ContextStill DEF ContextInv
<1> QED BY <1>3, <1>4

LEMMA ContextStep ==
  ASSUME TypeOK, KeyInv, ContextInv, [Next]_vars
  PROVE  ContextInv'
<1> USE DEF browserVars, rendererVars, envVars, history
<1> SUFFICES ASSUME NEW b \in Browsers PROVE ContextAt(b)'
  BY DEF ContextInv
<1>0. ContextAt(b)
  BY DEF ContextInv
<1>1. CASE RendererStep
  <2>1. ASSUME NEW a \in Browsers, RendererOnProcessMessageReceived(a) \/ ExecuteCallback(a)
        PROVE  ContextAt(b)'
    <3>1. /\ requests' = requests \/ requests' = [requests EXCEPT ![a] = @ \ RemovedRequests(a, Head(rtasks[a]))]
          /\ UNCHANGED <<proc, ctx, nextCtx, nextReq, up>>
      BY <2>1 DEF RendererOnProcessMessageReceived, ExecuteCallback
    <3>2. requests'[b] \subseteq requests[b]
      BY <3>1 DEF TypeOK
    <3> QED BY <1>0, <3>1, <3>2, ContextStill
  <2> QED BY <1>1, <2>1, ContextCefQuery, ContextCancel, ContextCreated, ContextReleased
       DEF RendererStep
<1>2. CASE ApplicationStep \/ UiTaskStep \/ UNCHANGED vars
  <2>1. UNCHANGED <<proc, ctx, nextCtx, nextReq, requests, up>>
    BY <1>2, ApplicationLeaves, UiTaskLeaves DEF vars
  <2> QED BY <1>0, <2>1, ContextStill
<1>3. ASSUME NEW a \in Browsers, BrowserMessageStep(a) PROVE ContextAt(b)'
  <2>1. /\ UNCHANGED <<proc, ctx, nextCtx, nextReq, requests>>
        /\ up[a] # <<>> /\ up' = [up EXCEPT ![a] = Tail(up[a])]
    BY <1>3, MessageLeaves
  <2>2. Elems(up'[b]) \subseteq Elems(up[b])
    BY <2>1, TailKeepsOthers DEF TypeOK
  <2> QED BY <1>0, <2>1, <2>2, ContextStill
<1>4. CASE EnvironmentStep
  <2>1. ASSUME NEW a \in Disturbed, OnBeforeBrowse(a) \/ NavigationAborts(a)
        PROVE  ContextAt(b)'
    <3>1. UNCHANGED <<proc, ctx, nextCtx, nextReq, requests, up>>
      BY <2>1 DEF OnBeforeBrowse, NavigationAborts
    <3> QED BY <1>0, <3>1, ContextStill
  <2>2. ASSUME NEW a \in Disturbed, RendererCrash(a) \/ OnBeforeClose(a)
        PROVE  ContextAt(b)'
    <3>1. /\ a \in Browsers /\ ForgetRenderer(a)
          /\ proc' = [proc EXCEPT ![a] = "dead"] \/ proc' = [proc EXCEPT ![a] = "closed"]
      BY <2>2, RouterAssumption DEF RendererCrash, OnBeforeClose
    <3>2. CASE a = b
      <4>1. proc'[b] # "running" /\ \A f \in Frames : ctx'[b][f] = NoContext
        BY <3>1, <3>2 DEF TypeOK, ForgetRenderer
      <4> QED BY <4>1 DEF ContextAt
    <3>3. CASE a # b
      <4>1. /\ proc'[b] = proc[b] /\ ctx'[b] = ctx[b] /\ nextCtx'[b] = nextCtx[b]
            /\ nextReq'[b] = nextReq[b] /\ requests'[b] = requests[b]
        BY <3>1, <3>3 DEF TypeOK, ForgetRenderer
      <4>2. up'[b] = up[b]
        BY <2>2, <3>1, <3>3 DEF TypeOK, RendererCrash, OnBeforeClose
      <4> QED BY <1>0, <4>1, <4>2, ContextStill
    <3> QED BY <3>2, <3>3
  <2>3. ASSUME NEW a \in Disturbed, LaunchRenderer(a) PROVE ContextAt(b)'
    <3>1. /\ a \in Browsers /\ proc[a] = "dead" /\ up[a] = <<>>
          /\ proc' = [proc EXCEPT ![a] = "running"]
          /\ UNCHANGED <<ctx, nextCtx, nextReq, requests, up>>
      BY <2>3, RouterAssumption DEF LaunchRenderer
    <3>2. CASE a = b
      <4>1. requests[b] = {} /\ Elems(up[b]) = {}
        BY <3>1, <3>2, ElemsOfEmpty DEF KeyInv, DeadIsEmpty
      <4>2. (\A f \in Frames : ctx[b][f] = NoContext) /\ nextCtx[b] \in Nat
        BY <1>0, <3>1, <3>2 DEF ContextAt, TypeOK
      <4>3. FramesNumbered(b)'
        BY <3>1, <4>2 DEF FramesNumbered, NoContext
      <4>4. RequestsPlaced(b)' /\ CancelsArePast(b)'
        BY <3>1, <4>1 DEF RequestsPlaced, CancelsArePast
      <4>5. proc'[b] = "running"
        BY <3>1, <3>2 DEF TypeOK
      <4> QED BY <4>3, <4>4, <4>5 DEF ContextAt
    <3>3. CASE a # b
      <4>1. proc'[b] = proc[b]
        BY <3>1, <3>3 DEF TypeOK
      <4> QED BY <1>0, <3>1, <4>1, ContextStill
    <3> QED BY <3>2, <3>3
  <2> QED BY <1>4, <2>1, <2>2, <2>3 DEF EnvironmentStep
<1> QED BY <1>1, <1>2, <1>3, <1>4 DEF Next

LEMMA ContextInit == Init => ContextInv
<1> SUFFICES ASSUME Init, NEW b \in Browsers PROVE ContextAt(b)
  BY DEF ContextInv
<1>1. /\ proc[b] = "running" /\ requests[b] = {} /\ up[b] = <<>> /\ nextCtx[b] = 0
      /\ \A f \in Frames : ctx[b][f] = NoContext
  BY DEF Init
<1>2. FramesNumbered(b)
  BY <1>1 DEF FramesNumbered, NoContext
<1>3. RequestsPlaced(b) /\ CancelsArePast(b)
  BY <1>1, ElemsOfEmpty DEF RequestsPlaced, CancelsArePast
<1> QED BY <1>1, <1>2, <1>3 DEF ContextAt

\* A request's context is there, contexts have ids of their own, and a cancel
\* message names nothing that is still open.
THEOREM ContextInvariant == Spec => []ContextInv
<1>1. TypeOK /\ KeyInv /\ ContextInv /\ [Next]_vars => ContextInv'
  BY ContextStep
<1> QED BY <1>1, ContextInit, TypeCorrect, KeysInvariant, PTL DEF Spec

\* A request's context is still alive, so that GetContextByID never swallows a
\* callback (cef_message_router.cc:1026, 1051).
THEOREM RequestsHaveContexts == Spec => []RequestHasContext
<1>1. TypeOK /\ KeyInv /\ ContextInv => RequestHasContext
  <2> SUFFICES ASSUME TypeOK, KeyInv, ContextInv, NEW b \in Browsers, NEW r \in requests[b]
               PROVE  GetContextByID(b, r.ctx) # {}
    BY DEF RequestHasContext
  <2>1. proc[b] = "running"
    BY DEF KeyInv, DeadIsEmpty
  <2>2. \E f \in Frames : ctx[b][f] = r.ctx
    BY <2>1 DEF ContextInv, ContextAt, RequestsPlaced
  <2> QED BY <2>2 DEF GetContextByID
<1> QED BY <1>1, ContextInvariant, TypeCorrect, KeysInvariant, PTL

-----------------------------------------------------------------------------
(* What one step does to one browser's half.                               *)

LEMMA NotifiedBrowser ==
  ASSUME TypeOK, NEW c, NEW h, CancelPendingFor(c, h, TRUE),
         UNCHANGED <<rendererVars, envVars, up>>, NEW b \in Browsers
  PROVE  CancelsEntries(b)
<1> USE DEF rendererVars, envVars
<1> DEFINE S == PendingFor(c, h)
<1>1. queries' = queries \ S /\ SendCanceled(S)
  BY DEF CancelPendingFor, CancelQueries
<1>2. PICK batch :
        /\ \A a \in Browsers : batch[a] \in FailuresOf(OfBrowser(S, a))
        /\ down' = [a \in Browsers |-> SendToRenderer(a, batch[a])]
  BY <1>1 DEF SendCanceled
<1>3. S \subseteq queries
  BY PendingForTyped
<1> HIDE DEF S
<1>4. OfBrowser(S, b) \in SUBSET Entries(b) /\ Entries(b)' = Entries(b) \ OfBrowser(S, b)
  BY <1>1, <1>3 DEF Entries, OfBrowser
<1>5. down'[b] = SendToRenderer(b, batch[b]) /\ batch[b] \in FailuresOf(OfBrowser(S, b))
  BY <1>2
<1> QED BY <1>4, <1>5 DEF CancelsEntries, SamePage, SameUp

\* What OnBeforeBrowse, OnRenderProcessTerminated and OnBeforeClose cancel.
LEMMA DroppedBrowser ==
  ASSUME NEW a \in Browsers, CancelQueries(PendingFor(a, None)), NEW b \in Browsers
  PROVE  Entries(b)' = IF b = a THEN {} ELSE Entries(b)
<1>1. queries' = queries \ PendingFor(a, None)
  BY DEF CancelQueries
<1>2. \A x \in queries : x \in PendingFor(a, None) <=> x.browser = a
  <2>1. a # None
    BY RouterAssumption
  <2> QED BY <2>1 DEF PendingFor
<1> QED BY <1>1, <1>2 DEF Entries, OfBrowser

LEMMA AnsweredBrowser ==
  ASSUME TypeOK, DeskInv, NEW ok \in BOOLEAN, OnCallback(ok), NEW b \in Browsers
  PROVE  Stays(b) \/ AnswersEntry(b)
<1> USE DEF rendererVars, envVars
<1> DEFINE found == GetQueryInfo(Head(uiTasks).id)
           removed == {x \in found : ~ok \/ ~x.pers}
<1>1. /\ uiTasks # <<>> /\ uiTasks' = Tail(uiTasks) /\ queries' = queries \ removed
      /\ Head(uiTasks).kind = IF ok THEN "OnCallbackSuccess" ELSE "OnCallbackFailure"
      /\ UNCHANGED <<rendererVars, envVars, up>>
      /\ IF found = {} THEN UNCHANGED down
         ELSE \E x \in found :
                down' = [down EXCEPT ![x.browser] = SendToRenderer(x.browser, <<AnswerTo(x, ok)>>)]
  BY DEF OnCallback
<1>2. CASE found = {}
  BY <1>1, <1>2 DEF Stays, SameUp, SameDesk, Entries
<1>3. CASE found # {}
  <2>1. PICK x \in found :
          down' = [down EXCEPT ![x.browser] = SendToRenderer(x.browser, <<AnswerTo(x, ok)>>)]
    BY <1>1, <1>3
  <2>2. x \in queries /\ x.id = Head(uiTasks).id /\ x.browser \in Browsers /\ found = {x}
    <3>1. x \in queries /\ x.id = Head(uiTasks).id
      BY DEF GetQueryInfo
    <3> QED BY <3>1, EntryParts DEF GetQueryInfo, DeskInv
  <2>3. queries' = IF ok /\ x.pers THEN queries ELSE queries \ {x}
    BY <1>1, <2>2
  <2>4. Head(uiTasks) \in UiTask
    BY <1>1, ElemsOfTail DEF TypeOK
  <2> HIDE DEF found, removed
  <2>5. CASE x.browser = b
    <3>1. Entries(b)' = (IF ok /\ x.pers THEN Entries(b) ELSE Entries(b) \ {x}) /\ x \in Entries(b)
      BY <2>2, <2>3, <2>5 DEF Entries, OfBrowser
    <3>2. down'[b] = SendToRenderer(b, <<AnswerTo(x, ok)>>)
      BY <2>1, <2>5 DEF TypeOK
    <3>3. SamePage(b) /\ SameUp(b)
      BY <1>1 DEF SamePage, SameUp
    <3>4. ok => Head(uiTasks) \in {t \in UiTask : t.kind = "OnCallbackSuccess" /\ t.id = x.id}
      BY <1>1, <2>2, <2>4
    <3> QED BY <1>1, <3>1, <3>2, <3>3, <3>4 DEF AnswersEntry
  <2>6. CASE x.browser # b
    <3>1. Entries(b)' = Entries(b)
      BY <2>3, <2>6 DEF Entries, OfBrowser
    <3>2. down'[b] = down[b]
      BY <2>1, <2>2, <2>6 DEF TypeOK
    <3> QED BY <1>1, <3>1, <3>2 DEF Stays, SameUp, SameDesk
  <2> QED BY <2>5, <2>6
<1> QED BY <1>2, <1>3

\* A step of another browser.
LEMMA OtherBrowser ==
  ASSUME NEW b \in Browsers, requests'[b] = requests[b], rtasks'[b] = rtasks[b],
         nav'[b] = nav[b], up'[b] = up[b], down'[b] = down[b], Entries(b)' = Entries(b)
  PROVE  Stays(b)
  BY DEF Stays, SameUp, SameDesk

LEMMA RendererBrowser ==
  ASSUME TypeOK, ContextInv, KeyInv, RendererStep, NEW b \in Browsers,
         ~ \E a \in Browsers, f \in Frames, pers \in Persistence : CefQuery(a, f, pers)
  PROVE  BrowserStep(b)
<1> USE DEF browserVars, rendererVars, envVars, history
<1>1. UNCHANGED queries /\ Entries(b)' = Entries(b)
  BY RendererLeaves DEF Entries, OfBrowser
<1>2. ASSUME NEW a \in Browsers, NEW c \in Nat, NEW req \in Nat, SendCancel(a, c, req),
             UNCHANGED <<rtasks, down, nav>>
      PROVE  BrowserStep(b)
  <2>1. CASE a = b
    <3>1. requests'[b] = requests[b] \ CanceledBy(b, c, req)
      BY <1>2, <2>1 DEF SendCancel, TypeOK
    <3>2. up'[b] = IF CanceledBy(b, c, req) = {} THEN up[b]
                   ELSE Append(up[b], CancelMsg(c, req))
      BY <1>2, <2>1 DEF SendCancel, TypeOK
    <3>3. WithdrawsRequests(b)
      BY <1>1, <1>2, <3>1, <3>2 DEF WithdrawsRequests, SameDesk
    <3> QED BY <3>3 DEF BrowserStep
  <2>2. CASE a # b
    <3>1. requests'[b] = requests[b] /\ up'[b] = up[b]
      BY <1>2, <2>2, SendCancelElems
    <3> QED BY <1>1, <1>2, <3>1, OtherBrowser DEF BrowserStep
  <2> QED BY <2>1, <2>2
<1>3. ASSUME NEW a \in Browsers, NEW f \in Frames, NEW r \in requests[a],
             CefQueryCancel(a, f, r.req)
      PROVE  BrowserStep(b)
  <2>1. r.req \in Nat /\ IdForContext(a, f) \in Nat
    BY <1>3, RequestParts, IdsTyped DEF CefQueryCancel
  <2> QED BY <1>2, <1>3, <2>1 DEF CefQueryCancel
<1>4. ASSUME NEW a \in Browsers, NEW f \in Frames, OnContextReleased(a, f)
      PROVE  BrowserStep(b)
  <2>1. ctx[a][f] \in Nat /\ kReservedId \in Nat
    BY <1>4 DEF TypeOK, OnContextReleased, kReservedId
  <2>2. CASE ctx[a][f] = kReservedId
    BY <1>1, <1>4, <2>2, OtherBrowser DEF OnContextReleased, BrowserStep
  <2>3. CASE ctx[a][f] # kReservedId
    BY <1>2, <1>4, <2>1, <2>3 DEF OnContextReleased
  <2> QED BY <2>2, <2>3
<1>5. ASSUME NEW a \in Browsers, NEW f \in Frames, OnContextCreated(a, f)
      PROVE  BrowserStep(b)
  <2>1. UNCHANGED <<requests, rtasks, up, down>>
    BY <1>5 DEF OnContextCreated
  <2>2. nav'[b] = nav[b] \/ requests[b] = {}
    <3>1. nav' = [nav EXCEPT ![a] = IF f = MainFrame THEN "none" ELSE nav[a]]
      BY <1>5 DEF OnContextCreated
    <3>2. CASE a # b \/ f # MainFrame
      BY <3>1, <3>2 DEF TypeOK
    <3>3. CASE a = b /\ f = MainFrame
      <4>1. proc[b] = "running" /\ \A g \in Frames : ctx[b][g] = NoContext
        BY <1>5, <3>3 DEF OnContextCreated
      <4>2. \A r \in requests[b] : r.ctx > 0 /\ \E g \in Frames : NoContext = r.ctx
        BY <4>1 DEF ContextInv, ContextAt, RequestsPlaced
      <4>3. ~(NoContext > 0)
        BY DEF NoContext
      <4> QED BY <4>2, <4>3
    <3> QED BY <3>2, <3>3
  <2> QED BY <1>1, <2>1, <2>2 DEF BrowserStep, Stays, SameUp, SameDesk
<1>6. ASSUME NEW a \in Browsers, RendererOnProcessMessageReceived(a) PROVE BrowserStep(b)
  <2>1. CASE a = b
    <3>1. ReceivesReply(b)
      BY <1>1, <1>6, <2>1 DEF RendererOnProcessMessageReceived, ReceivesReply, SameUp, TypeOK
    <3> QED BY <3>1 DEF BrowserStep
  <2>2. CASE a # b
    <3>1. rtasks'[b] = rtasks[b] /\ down'[b] = down[b] /\ UNCHANGED <<requests, nav, up>>
      BY <1>6, <2>2 DEF RendererOnProcessMessageReceived, TypeOK
    <3> QED BY <1>1, <3>1, OtherBrowser DEF BrowserStep
  <2> QED BY <2>1, <2>2
<1>7. ASSUME NEW a \in Browsers, ExecuteCallback(a) PROVE BrowserStep(b)
  <2>1. CASE a = b
    <3>1. /\ rtasks[b] # <<>> /\ rtasks' = [rtasks EXCEPT ![b] = Tail(rtasks[b])]
          /\ requests' = [requests EXCEPT ![b] = requests[b] \ RemovedRequests(b, Head(rtasks[b]))]
          /\ UNCHANGED <<nav, up, down>>
      BY <1>7, <2>1 DEF ExecuteCallback
    <3>2. HearsReply(b)
      BY <1>1, <3>1 DEF HearsReply, SameUp, SameDesk, TypeOK
    <3> QED BY <3>2 DEF BrowserStep
  <2>2. CASE a # b
    <3>1. rtasks'[b] = rtasks[b] /\ requests'[b] = requests[b] /\ UNCHANGED <<down, nav, up>>
      BY <1>7, <2>2 DEF ExecuteCallback, TypeOK
    <3> QED BY <1>1, <3>1, OtherBrowser DEF BrowserStep
  <2> QED BY <2>1, <2>2
<1> QED BY <1>3, <1>4, <1>5, <1>6, <1>7 DEF RendererStep

LEMMA QueryBrowser ==
  ASSUME TypeOK, NEW a \in Browsers, OnQueryMessage(a), NEW b \in Browsers
  PROVE  BrowserStep(b)
<1> USE DEF rendererVars, envVars, history
<1> DEFINE m == Head(up[a])
<1>1. /\ up[a] # <<>> /\ m.type = "query" /\ up' = [up EXCEPT ![a] = Tail(up[a])]
      /\ UNCHANGED <<requests, rtasks, nav>>
  BY DEF OnQueryMessage
<1>2. up'[a] = Tail(up[a]) /\ \A c \in Browsers : c # a => up'[c] = up[c]
  BY <1>1 DEF TypeOK
<1>3. m \in UpMessage /\ m.ctx \in Nat /\ m.req \in Nat /\ m.pers \in BOOLEAN /\ m.q \in Uids
  <2>1. m \in Elems(up[a])
    BY <1>1, ElemsOfTail DEF TypeOK
  <2> QED BY <1>1, <2>1, MessageParts
<1>4. CASE RefuseWithoutHandlers(a, m) \/ RefuseByHandlers(a, m)
  <2>1. /\ down' = [down EXCEPT ![a] = SendToRenderer(a, <<AnswerTo(m, FALSE)>>)]
        /\ queries' = queries
    BY <1>4 DEF RefuseWithoutHandlers, RefuseByHandlers, CancelUnhandledQuery
  <2>2. Entries(b)' = Entries(b)
    BY <2>1 DEF Entries, OfBrowser
  <2> HIDE DEF m
  <2>3. /\ down'[a] = SendToRenderer(a, <<AnswerTo(m, FALSE)>>)
        /\ \A c \in Browsers : c # a => down'[c] = down[c]
    BY <2>1 DEF TypeOK
  <2>4. CASE a = b
    BY <1>1, <1>2, <2>2, <2>3, <2>4 DEF m, BrowserStep, RefusesQuery, TakesMessage, SamePage
  <2>5. CASE a # b
    BY <1>1, <1>2, <2>2, <2>3, <2>5, OtherBrowser DEF BrowserStep
  <2> QED BY <2>4, <2>5
<1>5. ASSUME NEW h \in Handlers, AcceptQuery(a, m, h) PROVE BrowserStep(b)
  <2> DEFINE x == [id |-> GetNextId(nextQuery), browser |-> a, ctx |-> m.ctx, req |-> m.req,
                   pers |-> m.pers, handler |-> h, q |-> m.q]
  <2>1. queries' = queries \cup {x} /\ down' = down
    BY <1>5 DEF AcceptQuery
  <2>2. x \in QueryInfo
    BY <1>3 DEF QueryInfo, TypeOK, GetNextId
  <2>3. x.browser = a /\ QueryMsg(x) = QueryMsg(m)
    BY DEF QueryMsg
  <2> HIDE DEF x, m
  <2>4. CASE a = b
    <3>1. Entries(b)' = Entries(b) \cup {x}
      BY <2>1, <2>3, <2>4 DEF Entries, OfBrowser
    <3> QED BY <1>1, <1>2, <2>1, <2>2, <2>3, <2>4, <3>1
             DEF m, BrowserStep, AcceptsQuery, TakesMessage, SamePage
  <2>5. CASE a # b
    <3>1. Entries(b)' = Entries(b)
      BY <2>1, <2>3, <2>5 DEF Entries, OfBrowser
    <3> QED BY <1>1, <1>2, <2>1, <2>5, <3>1, OtherBrowser DEF BrowserStep
  <2> QED BY <2>4, <2>5
<1> QED BY <1>4, <1>5 DEF OnQueryMessage

LEMMA MessageBrowser ==
  ASSUME TypeOK, NEW a \in Browsers, BrowserMessageStep(a), NEW b \in Browsers
  PROVE  BrowserStep(b)
<1> USE DEF rendererVars, envVars, history
<1>1. UNCHANGED <<requests, rtasks>> /\ up' = [up EXCEPT ![a] = Tail(up[a])]
  BY MessageLeaves
<1>2. up'[a] = Tail(up[a]) /\ \A c \in Browsers : c # a => up'[c] = up[c]
  BY <1>1 DEF TypeOK
<1>3. CASE OnCancelMessage(a)
  <2>1. /\ up[a] # <<>> /\ Head(up[a]).type = "cancel" /\ UNCHANGED <<nav, down>>
        /\ queries' = queries \ CanceledRequest(a, Head(up[a]))
    BY <1>3 DEF OnCancelMessage, CancelQueries
  <2>2. CanceledRequest(a, Head(up[a])) \subseteq OfBrowser(queries, a)
    BY DEF CanceledRequest
  <2>3. Entries(b)' = IF a = b THEN Entries(b) \ CanceledRequest(a, Head(up[a])) ELSE Entries(b)
    BY <2>1, <2>2 DEF Entries, OfBrowser
  <2>4. CASE a = b
    BY <1>1, <1>2, <2>1, <2>3, <2>4 DEF BrowserStep, CancelsRequest, TakesMessage, SamePage
  <2>5. CASE a # b
    BY <1>1, <1>2, <2>1, <2>3, <2>5, OtherBrowser DEF BrowserStep
  <2> QED BY <2>4, <2>5
<1>4. CASE OnRenderProcessTerminated(a)
  <2>1. /\ up[a] # <<>> /\ Head(up[a]).type = "gone" /\ UNCHANGED down
        /\ nav' = [nav EXCEPT ![a] = "none"] /\ CancelQueries(PendingFor(a, None))
    BY <1>4 DEF OnRenderProcessTerminated, CancelPendingFor
  <2>2. Entries(b)' = IF b = a THEN {} ELSE Entries(b)
    BY <2>1, DroppedBrowser
  <2>3. CASE a = b
    BY <1>1, <1>2, <2>1, <2>2, <2>3 DEF BrowserStep, BuriesRenderer, TakesMessage
  <2>4. CASE a # b
    <3>1. nav'[b] = nav[b]
      BY <2>1, <2>4 DEF TypeOK
    <3> QED BY <1>1, <1>2, <2>1, <2>2, <2>4, <3>1, OtherBrowser DEF BrowserStep
  <2> QED BY <2>3, <2>4
<1> QED BY <1>3, <1>4, QueryBrowser DEF BrowserMessageStep

LEMMA EnvironmentBrowser ==
  ASSUME TypeOK, EnvironmentStep, NEW b \in Browsers
  PROVE  BrowserStep(b)
<1> USE DEF browserVars, rendererVars, envVars, history
<1> Disturbed \subseteq Browsers
  BY RouterAssumption
<1>1. ASSUME NEW a \in Disturbed, OnBeforeBrowse(a) PROVE BrowserStep(b)
  <2>1. /\ UNCHANGED <<requests, rtasks, up, down>> /\ nav' = [nav EXCEPT ![a] = "pending"]
        /\ CancelQueries(PendingFor(a, None))
    BY <1>1 DEF OnBeforeBrowse, CancelPendingFor
  <2>2. Entries(b)' = IF b = a THEN {} ELSE Entries(b)
    BY <2>1, DroppedBrowser
  <2>3. nav'[b] = IF b = a THEN "pending" ELSE nav[b]
    BY <2>1 DEF TypeOK
  <2>4. CASE a = b
    <3>1. \A x \in Entries(b) : told'[x.q] = told[x.q] + 1
      <4> SUFFICES ASSUME NEW x \in Entries(b) PROVE told'[x.q] = told[x.q] + 1
        OBVIOUS
      <4>1. x \in PendingFor(a, None) /\ x.q \in Uids
        BY <2>4 DEF Entries, OfBrowser, PendingFor, TypeOK, QueryInfo
      <4> QED BY <2>1, <4>1 DEF CancelQueries
    <3> QED BY <2>1, <2>2, <2>3, <2>4, <3>1 DEF BrowserStep, DropsEntries, SameUp
  <2>5. CASE a # b
    BY <2>1, <2>2, <2>3, <2>5, OtherBrowser DEF BrowserStep
  <2> QED BY <2>4, <2>5
<1>2. ASSUME NEW a \in Disturbed, NavigationAborts(a) \/ LaunchRenderer(a) PROVE BrowserStep(b)
  <2>1. UNCHANGED <<requests, rtasks, up, down, queries>>
        /\ (UNCHANGED nav \/ nav' = [nav EXCEPT ![a] = "aborted"])
    BY <1>2 DEF NavigationAborts, LaunchRenderer
  <2>2. nav'[b] = nav[b] \/ nav'[b] # "none"
    BY <2>1 DEF TypeOK
  <2> QED BY <2>1, <2>2 DEF BrowserStep, Stays, SameUp, SameDesk, Entries, OfBrowser
<1>3. ASSUME NEW a \in Disturbed, RendererCrash(a) PROVE BrowserStep(b)
  <2>1. PICK n \in 0..Len(up[a]) :
          up' = [up EXCEPT ![a] = Append(SubSeq(up[a], 1, n), GoneMsg)]
    BY <1>3 DEF RendererCrash
  <2>2. /\ requests' = [requests EXCEPT ![a] = {}] /\ rtasks' = [rtasks EXCEPT ![a] = <<>>]
        /\ down' = [down EXCEPT ![a] = <<>>] /\ UNCHANGED <<queries, nav>>
    BY <1>3 DEF RendererCrash, ForgetRenderer
  <2>3. Entries(b)' = Entries(b)
    BY <2>2 DEF Entries, OfBrowser
  <2>4. CASE a = b
    <3>1. requests'[b] = {} /\ rtasks'[b] = <<>> /\ down'[b] = <<>>
          /\ up'[b] = Append(SubSeq(up[b], 1, n), GoneMsg)
      BY <2>1, <2>2, <2>4 DEF TypeOK
    <3>2. LosesRenderer(b)
      BY <2>3, <2>4, <3>1 DEF LosesRenderer
    <3> QED BY <3>2 DEF BrowserStep
  <2>5. CASE a # b
    <3>1. requests'[b] = requests[b] /\ rtasks'[b] = rtasks[b] /\ down'[b] = down[b]
          /\ up'[b] = up[b]
      BY <2>1, <2>2, <2>5 DEF TypeOK
    <3> QED BY <2>2, <2>3, <3>1, OtherBrowser DEF BrowserStep
  <2> QED BY <2>4, <2>5
<1>4. ASSUME NEW a \in Disturbed, OnBeforeClose(a) PROVE BrowserStep(b)
  <2>1. /\ requests' = [requests EXCEPT ![a] = {}] /\ rtasks' = [rtasks EXCEPT ![a] = <<>>]
        /\ down' = [down EXCEPT ![a] = <<>>] /\ up' = [up EXCEPT ![a] = <<>>]
        /\ nav' = [nav EXCEPT ![a] = "none"] /\ CancelQueries(PendingFor(a, None))
    BY <1>4 DEF OnBeforeClose, ForgetRenderer
  <2>2. Entries(b)' = IF b = a THEN {} ELSE Entries(b)
    BY <2>1, DroppedBrowser
  <2>3. CASE a = b
    BY <2>1, <2>2, <2>3 DEF TypeOK, BrowserStep, Closes
  <2>4. CASE a # b
    <3>1. requests'[b] = requests[b] /\ rtasks'[b] = rtasks[b] /\ down'[b] = down[b]
          /\ up'[b] = up[b] /\ nav'[b] = nav[b]
      BY <2>1, <2>4 DEF TypeOK
    <3> QED BY <2>2, <2>4, <3>1, OtherBrowser DEF BrowserStep
  <2> QED BY <2>3, <2>4
<1> QED BY <1>1, <1>2, <1>3, <1>4 DEF EnvironmentStep

LEMMA BrowserSteps ==
  ASSUME TypeOK, KeyInv, DeskInv, ContextInv, [Next]_vars,
         ~ \E a \in Browsers, f \in Frames, pers \in Persistence : CefQuery(a, f, pers),
         NEW b \in Browsers
  PROVE  BrowserStep(b)
<1> USE DEF browserVars, rendererVars, envVars, history
<1>1. CASE UNCHANGED vars
  BY <1>1, OtherBrowser DEF vars, BrowserStep, Entries, OfBrowser
<1>2. CASE ApplicationStep
  <2>1. UNCHANGED <<rendererVars, envVars, up>>
    BY <1>2, ApplicationLeaves
  <2>2. ASSUME UNCHANGED <<queries, down>> PROVE BrowserStep(b)
    BY <2>1, <2>2, OtherBrowser DEF BrowserStep, Entries, OfBrowser
  <2>3. ASSUME NEW c, NEW h, CancelPendingFor(c, h, TRUE) PROVE BrowserStep(b)
    BY <2>1, <2>3, NotifiedBrowser DEF BrowserStep
  <2> QED BY <1>2, <2>2, <2>3 DEF ApplicationStep, AddHandler, RemoveHandler, CancelPending,
             PostFromOtherThread, CallSuccess, CallFailure, PostSuccess
<1>3. CASE UiTaskStep
  <2>1. UNCHANGED <<rendererVars, envVars, up>>
    BY <1>3, UiTaskLeaves
  <2>2. CASE RunCallback
    <3>1. UNCHANGED <<queries, down>>
      BY <2>2 DEF RunCallback
    <3> QED BY <2>1, <3>1, OtherBrowser DEF BrowserStep, Entries, OfBrowser
  <2>3. CASE OnCallback(TRUE) \/ OnCallback(FALSE)
    BY <2>3, AnsweredBrowser DEF BrowserStep
  <2>4. CASE RunCancelPending
    BY <2>1, <2>4, NotifiedBrowser DEF RunCancelPending, BrowserStep
  <2> QED BY <1>3, <2>2, <2>3, <2>4 DEF UiTaskStep
<1> QED BY <1>1, <1>2, <1>3, RendererBrowser, MessageBrowser, EnvironmentBrowser DEF Next

-----------------------------------------------------------------------------
(* All that is about and was made for one request agrees.                  *)

\* What is sent to a page is added to its channel or lost.
LEMMA SentElems ==
  ASSUME TypeOK, NEW b \in Browsers, NEW s \in Seq(Answer), down'[b] = SendToRenderer(b, s)
  PROVE  Elems(down'[b]) \subseteq Elems(down[b]) \cup Elems(s)
  BY SendTyped

\* b's entries are typed and finitely many.
LEMMA EntriesTyped ==
  ASSUME TypeOK, NEW b \in Browsers
  PROVE  /\ Entries(b) \in SUBSET QueryInfo /\ IsFiniteSet(Entries(b)) /\ Entries(b) \subseteq queries
         /\ \A S \in SUBSET Entries(b) : S \in SUBSET QueryInfo /\ IsFiniteSet(S)
<1>1. Entries(b) \subseteq queries /\ queries \subseteq QueryInfo /\ IsFiniteSet(queries)
  BY DEF Entries, OfBrowser, TypeOK
<1>2. IsFiniteSet(Entries(b))
  BY <1>1, FS_Subset
<1> QED BY <1>1, <1>2, FS_Subset

\* The replies that a step adds are made from an entry or a query message.
LEMMA RepliesMade ==
  ASSUME TypeOK, NEW b \in Browsers, BrowserStep(b),
         NEW a \in Elems(down'[b]) \cup Elems(rtasks'[b])
  PROVE  \/ a \in Elems(down[b]) \cup Elems(rtasks[b])
         \/ \E y \in Entries(b) \cup QueriesSent(b) : Stamp(a) = Stamp(y)
<1>0. down[b] \in Seq(Answer) /\ rtasks[b] \in Seq(Answer) /\ up[b] \in Seq(UpMessage)
  BY DEF TypeOK
<1>1. CASE down'[b] = down[b] /\ rtasks'[b] = rtasks[b]
  BY <1>1
<1>2. CASE ReceivesReply(b)
  <2>1. Head(down[b]) \in Answer /\ Head(down[b]) \in Elems(down[b])
        /\ Elems(down'[b]) \subseteq Elems(down[b])
    BY <1>0, <1>2, ElemsOfTail DEF ReceivesReply
  <2>2. Elems(rtasks'[b]) = Elems(rtasks[b]) \cup {Head(down[b])}
    BY <1>0, <1>2, <2>1, ElemsOfAppend DEF ReceivesReply
  <2> QED BY <2>1, <2>2
<1>3. CASE HearsReply(b)
  <2>1. Elems(rtasks'[b]) \subseteq Elems(rtasks[b]) /\ down'[b] = down[b]
    BY <1>0, <1>3, ElemsOfTail DEF HearsReply, SameDesk
  <2> QED BY <2>1
<1>4. CASE CancelsEntries(b)
  <2>a. PICK S \in SUBSET Entries(b) :
          \E batch \in FailuresOf(S) : down'[b] = SendToRenderer(b, batch)
    BY <1>4 DEF CancelsEntries
  <2>1. PICK batch \in FailuresOf(S) : down'[b] = SendToRenderer(b, batch)
    BY <2>a
  <2>2. batch \in Seq(Answer) /\ \A e \in Elems(batch) : \E x \in S : e = AnswerTo(x, FALSE)
    BY EntriesTyped, FailuresTyped
  <2>3. Elems(down'[b]) \subseteq Elems(down[b]) \cup Elems(batch) /\ rtasks'[b] = rtasks[b]
    BY <1>4, <2>1, <2>2, SentElems DEF CancelsEntries, SamePage
  <2>4. \A x : Stamp(AnswerTo(x, FALSE)) = Stamp(x)
    BY DEF Stamp, AnswerTo
  <2>5. ASSUME a \in Elems(batch) PROVE \E y \in Entries(b) : Stamp(a) = Stamp(y)
    <3>1. PICK x \in S : a = AnswerTo(x, FALSE)
      BY <2>2, <2>5
    <3> QED BY <2>4, <3>1
  <2>6. a \in Elems(down[b]) \cup Elems(rtasks[b]) \/ a \in Elems(batch)
    BY <2>3
  <2> QED BY <2>5, <2>6
<1>5. CASE AnswersEntry(b)
  <2>1. PICK x \in Entries(b), ok \in BOOLEAN : down'[b] = SendToRenderer(b, <<AnswerTo(x, ok)>>)
    BY <1>5 DEF AnswersEntry
  <2>2. AnswerTo(x, ok) \in Answer
    BY AnswersTyped, EntriesTyped
  <2>3. <<AnswerTo(x, ok)>> \in Seq(Answer) /\ Elems(<<AnswerTo(x, ok)>>) = {AnswerTo(x, ok)}
    BY <2>2, ElemsOfSingleton
  <2>4. Elems(down'[b]) \subseteq Elems(down[b]) \cup {AnswerTo(x, ok)} /\ rtasks'[b] = rtasks[b]
    BY <1>5, <2>1, <2>3, SentElems DEF AnswersEntry, SamePage
  <2>5. Stamp(AnswerTo(x, ok)) = Stamp(x)
    BY DEF Stamp, AnswerTo
  <2> QED BY <2>4, <2>5
<1>6. CASE RefusesQuery(b)
  <2> DEFINE m == Head(up[b])
  <2>1. m \in Elems(up[b]) /\ m.type = "query" /\ m \in UpMessage
    BY <1>0, <1>6, ElemsOfTail DEF RefusesQuery, TakesMessage
  <2>2. down'[b] = SendToRenderer(b, <<AnswerTo(m, FALSE)>>) /\ rtasks'[b] = rtasks[b]
    BY <1>6 DEF RefusesQuery, SamePage
  <2> HIDE DEF m
  <2>3. AnswerTo(m, FALSE) \in Answer
    BY <2>1, AnswersTyped
  <2>4. <<AnswerTo(m, FALSE)>> \in Seq(Answer) /\ Elems(<<AnswerTo(m, FALSE)>>) = {AnswerTo(m, FALSE)}
    BY <2>3, ElemsOfSingleton
  <2>5. Elems(down'[b]) \subseteq Elems(down[b]) \cup {AnswerTo(m, FALSE)}
    BY <2>2, <2>4, SentElems
  <2>6. Stamp(AnswerTo(m, FALSE)) = Stamp(m) /\ m \in QueriesSent(b)
    BY <2>1 DEF Stamp, AnswerTo, QueriesSent
  <2> QED BY <2>2, <2>5, <2>6
<1>7. CASE LosesRenderer(b) \/ Closes(b)
  BY <1>7, ElemsOfEmpty DEF LosesRenderer, Closes
<1> QED BY <1>1, <1>2, <1>3, <1>4, <1>5, <1>6, <1>7
       DEF BrowserStep, Stays, WithdrawsRequests, AcceptsQuery, CancelsRequest, BuriesRenderer,
           DropsEntries, SameDesk, SamePage

\* The entries that a step adds are made from a query message.
LEMMA EntriesMade ==
  ASSUME TypeOK, NEW b \in Browsers, BrowserStep(b), NEW x \in Entries(b)'
  PROVE  \/ x \in Entries(b)
         \/ \E y \in QueriesSent(b) : Stamp(x) = Stamp(y) /\ PersOf(x) = PersOf(y)
<1>1. CASE AcceptsQuery(b) /\ x \notin Entries(b)
  <2>1. QueryMsg(x) = QueryMsg(Head(up[b])) /\ Head(up[b]).type = "query" /\ up[b] # <<>>
    BY <1>1 DEF AcceptsQuery, TakesMessage
  <2>2. Head(up[b]) \in QueriesSent(b)
    BY <2>1, ElemsOfTail DEF QueriesSent, TypeOK
  <2>3. \A y, z : QueryMsg(y) = QueryMsg(z) => Stamp(y) = Stamp(z) /\ PersOf(y) = PersOf(z)
    BY DEF QueryMsg, Stamp, PersOf
  <2> QED BY <2>1, <2>2, <2>3
<1>2. CASE ~AcceptsQuery(b)
  <2>1. Entries(b)' \subseteq Entries(b)
    BY <1>2 DEF BrowserStep, Stays, WithdrawsRequests, ReceivesReply, HearsReply, CancelsEntries,
       AnswersEntry, RefusesQuery, CancelsRequest, BuriesRenderer, DropsEntries, LosesRenderer,
       Closes, SameDesk
  <2> QED BY <2>1
<1> QED BY <1>1, <1>2

\* No step but cefQuery adds a request or a query message.
LEMMA RequestsKept ==
  ASSUME TypeOK, NEW b \in Browsers, BrowserStep(b)
  PROVE  requests'[b] \subseteq requests[b]
  BY DEF BrowserStep, Stays, WithdrawsRequests, ReceivesReply, HearsReply, CancelsEntries,
     AnswersEntry, RefusesQuery, AcceptsQuery, CancelsRequest, BuriesRenderer, DropsEntries,
     LosesRenderer, Closes, SamePage

LEMMA QueriesSentKept ==
  ASSUME TypeOK, TypeOK', NEW b \in Browsers, UpKept(b)
  PROVE  QueriesSent(b)' \subseteq QueriesSent(b)
<1>1. up[b] \in Seq(UpMessage) /\ up'[b] \in Seq(UpMessage)
  BY DEF TypeOK
<1>2. DOMAIN up[b] = 1..Len(up[b]) /\ DOMAIN up'[b] = 1..Len(up'[b])
  BY <1>1, LenProperties
<1> QED BY <1>2 DEF UpKept, QueriesSent, Elems

LEMMA StampsShrink ==
  ASSUME TypeOK, TypeOK', NEW b \in Browsers, BrowserStep(b), UpKept(b)
  PROVE  Stamps(b)' \subseteq Stamps(b) /\ PersStamps(b)' \subseteq PersStamps(b)
<1>1. /\ requests'[b] \subseteq requests[b] /\ QueriesSent(b)' \subseteq QueriesSent(b)
      /\ \A x \in Entries(b)' :
           \/ x \in Entries(b)
           \/ \E y \in QueriesSent(b) : Stamp(x) = Stamp(y) /\ PersOf(x) = PersOf(y)
      /\ \A a \in Elems(down'[b]) \cup Elems(rtasks'[b]) :
           \/ a \in Elems(down[b]) \cup Elems(rtasks[b])
           \/ \E y \in Entries(b) \cup QueriesSent(b) : Stamp(a) = Stamp(y)
  BY RequestsKept, QueriesSentKept, EntriesMade, RepliesMade
<1>2. \A y : Stamp(y)' = Stamp(y) /\ PersOf(y)' = PersOf(y)
  BY DEF Stamp, PersOf
<1> QED BY <1>1, <1>2 DEF Stamps, PersStamps

\* What cefQuery does: one new request, and its message.
LEMMA AskedQuery ==
  ASSUME TypeOK, NEW a \in Browsers, NEW f \in Frames, NEW pers \in Persistence,
         CefQuery(a, f, pers)
  PROVE  /\ issued \in Nat /\ issued' = issued + 1 /\ issued' \in Uids
         /\ UNCHANGED <<browserVars, rtasks, proc, nav, down, done, said, got, told, answered>>
         /\ \E r \in Request :
              /\ r.q = issued + 1
              /\ requests'[a] = requests[a] \cup {r}
              /\ QueryMsg(r) \in UpMessage
              /\ up'[a] = Append(up[a], QueryMsg(r))
              /\ \A b \in Browsers : b # a => requests'[b] = requests[b] /\ up'[b] = up[b]
<1> USE DEF envVars
<1> DEFINE r == [ctx |-> IdForContext(a, f), req |-> GetNextId(nextReq[a]),
                 pers |-> pers, q |-> issued + 1]
<1>1. issued \in Nat /\ issued + 1 \in Uids
  BY RouterAssumption DEF CefQuery, TypeOK, Uids
<1>2. IdForContext(a, f) \in Nat
  BY IdsTyped DEF CefQuery
<1>3. GetNextId(nextReq[a]) \in Nat
  BY DEF TypeOK, GetNextId
<1>4. pers \in BOOLEAN
  BY RouterAssumption
<1>5. r \in Request
  BY <1>1, <1>2, <1>3, <1>4 DEF Request
<1>6. /\ requests' = [requests EXCEPT ![a] = requests[a] \cup {r}]
      /\ up' = [up EXCEPT ![a] = Append(up[a], QueryMsg(r))]
      /\ issued' = r.q
      /\ UNCHANGED <<browserVars, rtasks, proc, nav, down, done, said, got, told, answered>>
  BY DEF CefQuery
<1>7. r.q = issued + 1
  OBVIOUS
<1> HIDE DEF r
<1>8. QueryMsg(r) \in UpMessage
  BY <1>5, MessagesTyped
<1>9. /\ requests'[a] = requests[a] \cup {r} /\ up'[a] = Append(up[a], QueryMsg(r))
      /\ \A b \in Browsers : b # a => requests'[b] = requests[b] /\ up'[b] = up[b]
  BY <1>6 DEF TypeOK
<1> QED BY <1>1, <1>5, <1>6, <1>7, <1>8, <1>9

LEMMA StampsTyped ==
  ASSUME TypeOK, NEW b \in Browsers, NEW s \in Stamps(b)
  PROVE  s[3] \in Nat
<1>1. PICK y \in requests[b] \cup Entries(b) \cup QueriesSent(b) \cup Elems(down[b]) \cup Elems(rtasks[b]) :
        s = Stamp(y)
  BY DEF Stamps
<1>2. y.q \in Nat
  BY RequestParts, EntriesTyped, EntryParts, MessageParts, AnswerParts DEF QueriesSent
<1> QED BY <1>1, <1>2 DEF Stamp

LEMMA AgreeQuery ==
  ASSUME TypeOK, AgreeInv, NEW a \in Browsers, NEW f \in Frames, NEW pers \in Persistence,
         CefQuery(a, f, pers)
  PROVE  AgreeInv'
<1>1. /\ issued \in Nat /\ issued' = issued + 1
      /\ UNCHANGED <<queries, rtasks, down>>
  BY AskedQuery DEF browserVars
<1>2. PICK r \in Request :
        /\ r.q = issued + 1
        /\ requests'[a] = requests[a] \cup {r}
        /\ QueryMsg(r) \in UpMessage
        /\ up'[a] = Append(up[a], QueryMsg(r))
        /\ \A b \in Browsers : b # a => requests'[b] = requests[b] /\ up'[b] = up[b]
  BY AskedQuery
<1>3. Elems(up'[a]) = Elems(up[a]) \cup {QueryMsg(r)}
  BY <1>2, ElemsOfAppend DEF TypeOK
<1>4. QueryMsg(r).type = "query" /\ Stamp(QueryMsg(r)) = Stamp(r) /\ PersOf(QueryMsg(r)) = PersOf(r)
  BY DEF QueryMsg, Stamp, PersOf
<1>5. \A b \in Browsers : b # a =>
        Stamps(b)' = Stamps(b) /\ PersStamps(b)' = PersStamps(b) /\ requests'[b] = requests[b]
  BY <1>1, <1>2 DEF Stamps, PersStamps, Entries, OfBrowser, QueriesSent, Stamp, PersOf, Elems
<1>6. /\ Stamps(a)' \subseteq Stamps(a) \cup {Stamp(r)}
      /\ PersStamps(a)' \subseteq PersStamps(a) \cup {PersOf(r)}
  <2>1. QueriesSent(a)' = QueriesSent(a) \cup {QueryMsg(r)} /\ Entries(a)' = Entries(a)
    BY <1>1, <1>3, <1>4 DEF QueriesSent, Entries, OfBrowser
  <2>2. \A y : Stamp(y)' = Stamp(y) /\ PersOf(y)' = PersOf(y)
    BY DEF Stamp, PersOf
  <2> QED BY <1>1, <1>2, <1>4, <2>1, <2>2 DEF Stamps, PersStamps
<1>7. Stamp(r)[3] = issued + 1 /\ PersOf(r) = <<issued + 1, r.pers>>
  BY <1>2 DEF Stamp, PersOf
<1>8. \A b \in Browsers : \A s \in Stamps(b) : s[3] \in Nat /\ s[3] <= issued
  BY StampsTyped DEF AgreeInv
<1>9. \A b \in Browsers : \A p \in PersStamps(b) : \E s \in Stamps(b) : s[3] = p[1]
  <2> SUFFICES ASSUME NEW b \in Browsers, NEW p \in PersStamps(b)
               PROVE  \E s \in Stamps(b) : s[3] = p[1]
    OBVIOUS
  <2>1. PICK y \in requests[b] \cup Entries(b) \cup QueriesSent(b) : p = PersOf(y)
    BY DEF PersStamps
  <2>2. Stamp(y) \in Stamps(b)
    BY DEF Stamps
  <2>3. Stamp(y)[3] = p[1]
    BY <2>1 DEF Stamp, PersOf
  <2> QED BY <2>2, <2>3
<1>10. \A b \in Browsers : \A t \in requests[b] : Stamp(t) \in Stamps(b) /\ t.q = Stamp(t)[3]
  BY DEF Stamps, Stamp
<1>11. \A b \in Browsers : \A s \in Stamps(b)' : s[3] <= issued'
  BY <1>1, <1>5, <1>6, <1>7, <1>8
<1>12. ASSUME NEW b \in Browsers, NEW c \in Browsers, NEW t \in requests'[b]
       PROVE  /\ \A s \in Stamps(c)' : s[3] = t.q => c = b /\ s = Stamp(t)
              /\ \A p \in PersStamps(c)' : p[1] = t.q => p[2] = t.pers
  <2>1. CASE t \in requests[b]
    <3>1. t.q # issued + 1
      BY <1>1, <1>8, <1>10, <2>1
    <3>2. \A s \in Stamps(c)' : s[3] = t.q => s \in Stamps(c)
      BY <1>5, <1>6, <1>7, <3>1
    <3>3. \A p \in PersStamps(c)' : p[1] = t.q => p \in PersStamps(c)
      BY <1>5, <1>6, <1>7, <3>1
    <3> QED BY <2>1, <3>2, <3>3 DEF AgreeInv
  <2>2. CASE b = a /\ t = r
    <3>1. \A e \in Browsers : \A s \in Stamps(e) : s[3] # issued + 1
      BY <1>1, <1>8
    <3>2. \A e \in Browsers : \A p \in PersStamps(e) : p[1] # issued + 1
      BY <1>9, <3>1
    <3> QED BY <1>2, <1>5, <1>6, <1>7, <2>2, <3>1, <3>2
  <2> QED BY <1>2, <2>1, <2>2
<1>13. \A y : Stamp(y)' = Stamp(y)
  BY DEF Stamp
<1> QED BY <1>11, <1>12, <1>13 DEF AgreeInv

LEMMA AgreeKept ==
  ASSUME TypeOK, TypeOK', AgreeInv, issued' = issued,
         \A b \in Browsers : BrowserStep(b) /\ UpKept(b)
  PROVE  AgreeInv'
<1>1. \A b \in Browsers : /\ Stamps(b)' \subseteq Stamps(b) /\ PersStamps(b)' \subseteq PersStamps(b)
                          /\ requests'[b] \subseteq requests[b]
  BY StampsShrink, RequestsKept
<1>2. \A y : Stamp(y)' = Stamp(y)
  BY DEF Stamp
<1> QED BY <1>1, <1>2 DEF AgreeInv

LEMMA IssuedOnly ==
  ASSUME [Next]_vars,
         ~ \E a \in Browsers, f \in Frames, pers \in Persistence : CefQuery(a, f, pers)
  PROVE  issued' = issued
<1>1. CASE RendererStep
  BY <1>1 DEF RendererStep, CefQueryCancel, OnContextCreated, OnContextReleased,
     RendererOnProcessMessageReceived, ExecuteCallback, history
<1>2. CASE ~RendererStep
  BY <1>2, ApplicationLeaves, UiTaskLeaves, MessageLeaves, EnvironmentLeaves
     DEF Next, vars, history
<1> QED BY <1>1, <1>2

LEMMA AgreeStep ==
  ASSUME TypeOK, KeyInv, DeskInv, ContextInv, AgreeInv, TypeOK', [Next]_vars
  PROVE  AgreeInv'
<1>1. CASE \E a \in Browsers, f \in Frames, pers \in Persistence : CefQuery(a, f, pers)
  BY <1>1, AgreeQuery
<1>2. CASE ~ \E a \in Browsers, f \in Frames, pers \in Persistence : CefQuery(a, f, pers)
  BY <1>2, BrowserSteps, StepKeepsUp, IssuedOnly, AgreeKept
<1> QED BY <1>1, <1>2

LEMMA AgreeInit == Init => AgreeInv
<1> SUFFICES ASSUME Init PROVE AgreeInv
  OBVIOUS
<1>1. \A b \in Browsers : /\ requests[b] = {} /\ Entries(b) = {} /\ Elems(up[b]) = {}
                          /\ Elems(down[b]) = {} /\ Elems(rtasks[b]) = {}
  BY ElemsOfEmpty DEF Init, Entries, OfBrowser
<1>2. \A b \in Browsers : Stamps(b) = {} /\ requests[b] = {}
  BY <1>1 DEF Stamps, QueriesSent
<1> QED BY <1>2 DEF AgreeInv

\* Whatever is about and was made for an open request, on either side or on its
\* way, carries that request's ids and persistence.
THEOREM AgreeInvariant == Spec => []AgreeInv
<1>1. TypeOK /\ TypeOK' /\ KeyInv /\ SentOnce /\ DeskInv /\ TasksInv /\ ContextInv /\ AgreeInv
        /\ [Next]_vars => AgreeInv'
  BY AgreeStep
<1> QED BY <1>1, AgreeInit, TypeCorrect, KeysInvariant, DeskInvariant, ContextInvariant, PTL DEF Spec
=============================================================================
