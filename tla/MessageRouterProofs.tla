------------------------- MODULE MessageRouterProofs -------------------------
(***************************************************************************)
(* TLAPS proofs about MessageRouter, for any sets of browsers, frames and  *)
(* handlers and any bounds: type correctness, and that an answer reaches   *)
(* the query it was made for.                                              *)
(***************************************************************************)
EXTENDS MessageRouter, FiniteSetTheorems, SequenceTheorems, TLAPS

-----------------------------------------------------------------------------
(* What the channel operations do to the elements of a sequence.           *)

\* Append adds one element.
LEMMA ElemsOfAppend ==
  ASSUME NEW S, NEW s \in Seq(S), NEW e \in S
  PROVE  Append(s, e) \in Seq(S) /\ Elems(Append(s, e)) = Elems(s) \cup {e}
<1>1. Append(s, e) \in Seq(S) /\ Len(Append(s, e)) = Len(s) + 1
      /\ \A i \in 1..Len(s) : Append(s, e)[i] = s[i]
      /\ Append(s, e)[Len(s) + 1] = e
  BY AppendProperties
<1>2. DOMAIN s = 1..Len(s) /\ Len(s) \in Nat
  BY LenProperties
<1>3. DOMAIN Append(s, e) = 1..(Len(s) + 1)
  BY <1>1, <1>2, LenProperties
<1> QED
  BY <1>1, <1>2, <1>3 DEF Elems

\* Taking the head of a queue loses nothing but the head.
LEMMA ElemsOfTail ==
  ASSUME NEW S, NEW s \in Seq(S), s # <<>>
  PROVE  /\ Head(s) \in Elems(s) /\ Head(s) \in S
         /\ Tail(s) \in Seq(S) /\ Elems(Tail(s)) \subseteq Elems(s)
<1>1. Head(s) \in S /\ Tail(s) \in Seq(S) /\ Len(Tail(s)) = Len(s) - 1
      /\ \A i \in 1..Len(Tail(s)) : Tail(s)[i] = s[i + 1]
  BY HeadTailProperties
<1>2. DOMAIN s = 1..Len(s) /\ Len(s) \in Nat \ {0}
  BY LenProperties, EmptySeq
<1>3. DOMAIN Tail(s) = 1..(Len(s) - 1)
  BY <1>1, <1>2, LenProperties
<1>4. Head(s) = s[1]
  OBVIOUS
<1> QED
  BY <1>1, <1>2, <1>3, <1>4 DEF Elems

\* Concatenation joins the elements.
LEMMA ElemsOfConcat ==
  ASSUME NEW S, NEW s \in Seq(S), NEW t \in Seq(S)
  PROVE  s \o t \in Seq(S) /\ Elems(s \o t) = Elems(s) \cup Elems(t)
<1>1. s \o t \in Seq(S) /\ Len(s \o t) = Len(s) + Len(t)
      /\ \A i \in 1..Len(s) + Len(t) :
            (s \o t)[i] = IF i <= Len(s) THEN s[i] ELSE t[i - Len(s)]
  BY ConcatProperties
<1>2. DOMAIN s = 1..Len(s) /\ DOMAIN t = 1..Len(t) /\ Len(s) \in Nat /\ Len(t) \in Nat
  BY LenProperties
<1>3. DOMAIN (s \o t) = 1..(Len(s) + Len(t))
  BY <1>1, <1>2, LenProperties
<1>4. Elems(s \o t) \subseteq Elems(s) \cup Elems(t)
  BY <1>1, <1>2, <1>3 DEF Elems
<1>5. Elems(s) \subseteq Elems(s \o t)
  BY <1>1, <1>2, <1>3 DEF Elems
<1>6. ASSUME NEW i \in 1..Len(t)
      PROVE  t[i] \in Elems(s \o t)
  <2>1. Len(s) + i \in 1..(Len(s) + Len(t)) /\ (s \o t)[Len(s) + i] = t[i]
    BY <1>1, <1>2
  <2> QED
    BY <2>1, <1>3 DEF Elems
<1>7. Elems(t) \subseteq Elems(s \o t)
  BY <1>2, <1>6 DEF Elems
<1> QED
  BY <1>1, <1>4, <1>5, <1>7

\* A batch of one.
LEMMA ElemsOfSingleton ==
  ASSUME NEW S, NEW e \in S
  PROVE  <<e>> \in Seq(S) /\ Elems(<<e>>) = {e}
  BY DEF Elems

\* Nothing is in an empty queue.
LEMMA ElemsOfEmpty == Elems(<<>>) = {}
  BY DEF Elems

\* Everything in a queue has the type of its elements.
LEMMA ElemsTyped ==
  ASSUME NEW S, NEW s \in Seq(S)
  PROVE  Elems(s) \subseteq S
  BY LenProperties, ElementOfSeq DEF Elems

\* A prefix holds elements of the whole.
LEMMA ElemsOfPrefix ==
  ASSUME NEW S, NEW s \in Seq(S), NEW n \in 0..Len(s)
  PROVE  /\ SubSeq(s, 1, n) \in Seq(S) /\ Len(SubSeq(s, 1, n)) = n
         /\ \A i \in 1..n : SubSeq(s, 1, n)[i] = s[i]
  BY LenProperties, SubSeqProperties

-----------------------------------------------------------------------------
(* Messages, tasks and cancellation have their types.                      *)

\* The failures for a set of entries are answers made from those entries.
LEMMA FailuresTyped ==
  ASSUME NEW S \in SUBSET QueryInfo, IsFiniteSet(S), NEW s \in FailuresOf(S)
  PROVE  /\ s \in Seq(Answer)
         /\ \A a \in Elems(s) : \E x \in S : a = AnswerTo(x, FALSE)
<1>1. Cardinality(S) \in Nat
  BY FS_CardinalityType
<1>2. PICK f \in [1..Cardinality(S) -> S] :
        s = [i \in 1..Cardinality(S) |-> AnswerTo(f[i], FALSE)]
  BY DEF FailuresOf, InIdOrder
<1>3. \A i \in 1..Cardinality(S) : f[i] \in S /\ AnswerTo(f[i], FALSE) \in Answer
  BY <1>2 DEF AnswerTo, Answer, QueryInfo
<1>4. s \in [1..Cardinality(S) -> Answer]
  BY <1>2, <1>3
<1>5. s \in Seq(Answer)
  BY <1>1, <1>4, SeqDef
<1>6. DOMAIN s = 1..Cardinality(S)
  BY <1>4
<1> QED
  BY <1>2, <1>3, <1>5, <1>6 DEF Elems

\* What a browser is sent is added behind what is on its way, or lost.
LEMMA SendTyped ==
  ASSUME TypeOK, NEW b \in Browsers, NEW s \in Seq(Answer)
  PROVE  /\ SendToRenderer(b, s) \in Seq(Answer)
         /\ Elems(SendToRenderer(b, s)) \subseteq Elems(down[b]) \cup Elems(s)
         /\ proc[b] # "running" => SendToRenderer(b, s) = down[b]
<1>1. down[b] \in Seq(Answer)
  BY DEF TypeOK
<1>2. CASE proc[b] = "running"
  BY <1>1, <1>2, ElemsOfConcat DEF SendToRenderer
<1>3. CASE proc[b] # "running"
  BY <1>1, <1>3 DEF SendToRenderer
<1> QED
  BY <1>2, <1>3

\* Notifying the renderers of the cancellation of S adds only failures of S.
LEMMA SendCanceledTyped ==
  ASSUME TypeOK, NEW S \in SUBSET queries, SendCanceled(S)
  PROVE  /\ down' \in [Browsers -> Seq(Answer)]
         /\ \A b \in Browsers :
              /\ \A a \in Elems(down'[b]) :
                   a \in Elems(down[b]) \/ \E x \in OfBrowser(S, b) : a = AnswerTo(x, FALSE)
              /\ proc[b] # "running" => down'[b] = down[b]
<1>1. PICK batch :
        /\ \A b \in Browsers : batch[b] \in FailuresOf(OfBrowser(S, b))
        /\ down' = [b \in Browsers |-> SendToRenderer(b, batch[b])]
  BY DEF SendCanceled
<1>2. ASSUME NEW b \in Browsers
      PROVE  /\ down'[b] \in Seq(Answer)
             /\ \A a \in Elems(down'[b]) :
                  a \in Elems(down[b]) \/ \E x \in OfBrowser(S, b) : a = AnswerTo(x, FALSE)
             /\ proc[b] # "running" => down'[b] = down[b]
  <2>1. OfBrowser(S, b) \subseteq queries /\ IsFiniteSet(queries) /\ queries \subseteq QueryInfo
    BY DEF OfBrowser, TypeOK
  <2>2. IsFiniteSet(OfBrowser(S, b)) /\ OfBrowser(S, b) \in SUBSET QueryInfo
    BY <2>1, FS_Subset
  <2>3. /\ batch[b] \in Seq(Answer)
        /\ \A a \in Elems(batch[b]) : \E x \in OfBrowser(S, b) : a = AnswerTo(x, FALSE)
    BY <1>1, <2>2, FailuresTyped
  <2>4. down'[b] = SendToRenderer(b, batch[b])
    BY <1>1
  <2> QED
    BY <2>3, <2>4, SendTyped
<1> QED
  BY <1>1, <1>2

\* Cancellation keeps the types of what it changes.
LEMMA CancelTyped ==
  ASSUME TypeOK, NEW S \in SUBSET queries, CancelQueries(S)
  PROVE  /\ queries' \subseteq QueryInfo /\ IsFiniteSet(queries')
         /\ queries' \subseteq queries
         /\ attached' \subseteq Nat
         /\ told' \in [Uids -> Nat]
<1>1. queries' \subseteq queries /\ IsFiniteSet(queries)
  BY DEF CancelQueries, TypeOK
<1>2. IsFiniteSet(queries')
  BY <1>1, FS_Subset
<1>3. told' \in [Uids -> Nat]
  BY DEF CancelQueries, TypeOK
<1> QED
  BY <1>1, <1>2, <1>3 DEF CancelQueries, TypeOK

LEMMA PendingForTyped ==
  ASSUME NEW b, NEW h
  PROVE  PendingFor(b, h) \in SUBSET queries
  BY DEF PendingFor

LEMMA CanceledRequestTyped ==
  ASSUME NEW b, NEW m
  PROVE  CanceledRequest(b, m) \in SUBSET queries
  BY DEF CanceledRequest, OfBrowser

LEMMA CancelPendingForTyped ==
  ASSUME TypeOK, NEW b, NEW h, NEW n \in BOOLEAN, CancelPendingFor(b, h, n)
  PROVE  /\ queries' \subseteq QueryInfo /\ IsFiniteSet(queries')
         /\ queries' \subseteq queries
         /\ attached' \subseteq Nat
         /\ told' \in [Uids -> Nat]
         /\ down' \in [Browsers -> Seq(Answer)]
<1>1. CancelQueries(PendingFor(b, h))
  BY DEF CancelPendingFor
<1>2. CASE n
  BY <1>1, <1>2, PendingForTyped, CancelTyped, SendCanceledTyped DEF CancelPendingFor
<1>3. CASE ~n
  BY <1>1, <1>3, PendingForTyped, CancelTyped DEF CancelPendingFor, TypeOK
<1> QED
  BY <1>2, <1>3

\* Messages and tasks built from typed parts are typed.
LEMMA MessagesTyped ==
  /\ \A r \in Request : QueryMsg(r) \in UpMessage
  /\ \A c \in Nat, req \in Nat : CancelMsg(c, req) \in UpMessage
  /\ GoneMsg \in UpMessage
  BY DEF Request, UpMessage, QueryMsg, CancelMsg, GoneMsg

LEMMA AnswersTyped ==
  /\ \A x \in QueryInfo, ok \in BOOLEAN : AnswerTo(x, ok) \in Answer
  /\ \A m \in UpMessage, ok \in BOOLEAN : m.type = "query" => AnswerTo(m, ok) \in Answer
  BY DEF QueryInfo, UpMessage, Answer, AnswerTo

LEMMA TasksTyped ==
  /\ \A id \in Nat : \A k \in {"Success", "Failure", "OnCallbackSuccess", "OnCallbackFailure"} :
        CallbackTask(k, id) \in UiTask
  /\ \A b \in Browsers \cup {None}, h \in Handlers \cup {None} :
        CancelTask(b, h) \in UiTask
  BY DEF CallbackTask, CancelTask, UiTask

-----------------------------------------------------------------------------
(* Type correctness.                                                       *)

LEMMA IdsTyped ==
  ASSUME TypeOK, NEW b \in Browsers, NEW f \in Frames, ctx[b][f] # NoContext
  PROVE  IdForContext(b, f) \in Nat
  BY DEF TypeOK, IdForContext, GetNextId, NoContext, kReservedId

LEMMA CreateIDTyped ==
  ASSUME TypeOK, NEW b \in Browsers, NEW f \in Frames, ctx[b][f] # NoContext,
         CreateIDForContext(b, f)
  PROVE  /\ ctx' \in [Browsers -> [Frames -> Nat \cup {NoContext}]]
         /\ nextCtx' \in [Browsers -> Nat]
<1>1. IdForContext(b, f) \in Nat
  BY IdsTyped
<1>2. ctx' \in [Browsers -> [Frames -> Nat \cup {NoContext}]]
  BY <1>1 DEF TypeOK, CreateIDForContext
<1>3. nextCtx' \in [Browsers -> Nat]
  BY DEF TypeOK, CreateIDForContext, GetNextId
<1> QED
  BY <1>2, <1>3

\* The renderer side's sending of a cancel message.
LEMMA SendCancelTyped ==
  ASSUME TypeOK, NEW b \in Browsers, NEW c \in Nat, NEW req \in Nat,
         SendCancel(b, c, req)
  PROVE  /\ requests' \in [Browsers -> SUBSET Request]
         /\ requests'[b] \subseteq requests[b]
         /\ \A a \in Browsers \ {b} : requests'[a] = requests[a]
         /\ up' \in [Browsers -> Seq(UpMessage)]
         /\ \A a \in Browsers \ {b} : up'[a] = up[a]
         /\ up'[b] = up[b] \/ up'[b] = Append(up[b], CancelMsg(c, req))
<1>1. CancelMsg(c, req) \in UpMessage
  BY MessagesTyped
<1>2. up[b] \in Seq(UpMessage)
  BY DEF TypeOK
<1>3. Append(up[b], CancelMsg(c, req)) \in Seq(UpMessage)
  BY <1>1, <1>2, ElemsOfAppend
<1>4. up' = up \/ up' = [up EXCEPT ![b] = Append(up[b], CancelMsg(c, req))]
  BY DEF SendCancel
<1>5. requests' = [requests EXCEPT ![b] = requests[b] \ CanceledBy(b, c, req)]
  BY DEF SendCancel
<1>6. requests' \in [Browsers -> SUBSET Request]
  BY <1>5 DEF TypeOK
<1> QED
  BY <1>3, <1>4, <1>5, <1>6 DEF TypeOK

LEMMA TypeInit == Init => TypeOK
<1> SUFFICES ASSUME Init PROVE TypeOK
  OBVIOUS
<1>1. IsFiniteSet(queries)
  BY FS_EmptySet DEF Init
<1>2. MaxQueries \in Nat
  BY RouterAssumption
<1> QED
  BY <1>1, <1>2 DEF Init, TypeOK, NoContext, Uids

\* Steps of JavaScript and the renderer side.
LEMMA TypeRenderer ==
  ASSUME TypeOK, RendererStep
  PROVE  TypeOK'
<1> USE DEF browserVars, rendererVars, envVars, history
<1>1. ASSUME NEW b \in Browsers, NEW f \in Frames, NEW pers \in Persistence,
             CefQuery(b, f, pers)
      PROVE  TypeOK'
  <2> DEFINE r == [ctx |-> IdForContext(b, f), req |-> GetNextId(nextReq[b]),
                   pers |-> pers, q |-> issued + 1]
  <2>1. IdForContext(b, f) \in Nat /\ ctx[b][f] # NoContext
    BY <1>1, IdsTyped DEF CefQuery
  <2>2. issued + 1 \in Uids /\ issued + 1 \in 0..MaxQueries
    BY <1>1, RouterAssumption DEF CefQuery, TypeOK, Uids
  <2>3. pers \in BOOLEAN
    BY RouterAssumption
  <2>4. r \in Request
    BY <2>1, <2>2, <2>3 DEF Request, TypeOK, GetNextId
  <2>5. ctx' \in [Browsers -> [Frames -> Nat \cup {NoContext}]] /\ nextCtx' \in [Browsers -> Nat]
    BY <1>1, <2>1, CreateIDTyped DEF CefQuery
  <2>6. QueryMsg(r) \in UpMessage
    BY <2>4, MessagesTyped
  <2>7. Append(up[b], QueryMsg(r)) \in Seq(UpMessage)
    BY <2>6, ElemsOfAppend DEF TypeOK
  <2>8. /\ nextReq' = [nextReq EXCEPT ![b] = r.req]
        /\ requests' = [requests EXCEPT ![b] = requests[b] \cup {r}]
        /\ up' = [up EXCEPT ![b] = Append(up[b], QueryMsg(r))]
        /\ issued' = issued + 1
        /\ UNCHANGED <<browserVars, rtasks, envVars, down, done, said, got, told, answered>>
    BY <1>1 DEF CefQuery
  <2>9. nextReq' \in [Browsers -> Nat] /\ requests' \in [Browsers -> SUBSET Request]
        /\ up' \in [Browsers -> Seq(UpMessage)] /\ issued' \in 0..MaxQueries
    BY <2>2, <2>4, <2>7, <2>8 DEF TypeOK, Request
  <2> HIDE DEF r
  <2> QED
    BY <2>5, <2>8, <2>9 DEF TypeOK
<1>2. ASSUME NEW b \in Browsers, NEW f \in Frames, NEW r \in requests[b],
             CefQueryCancel(b, f, r.req)
      PROVE  TypeOK'
  <2> r \in Request
    BY DEF TypeOK
  <2>1. r.req \in Nat /\ IdForContext(b, f) \in Nat /\ ctx[b][f] # NoContext
    <3>1. ctx[b][f] # NoContext
      BY <1>2 DEF CefQueryCancel
    <3> QED
      BY <3>1, IdsTyped DEF Request
  <2>2. ctx' \in [Browsers -> [Frames -> Nat \cup {NoContext}]] /\ nextCtx' \in [Browsers -> Nat]
    BY <1>2, <2>1, CreateIDTyped DEF CefQueryCancel
  <2>3. requests' \in [Browsers -> SUBSET Request] /\ up' \in [Browsers -> Seq(UpMessage)]
    BY <1>2, <2>1, SendCancelTyped DEF CefQueryCancel
  <2> QED
    BY <1>2, <2>2, <2>3 DEF TypeOK, CefQueryCancel
<1>3. ASSUME NEW b \in Browsers, NEW f \in Frames, OnContextCreated(b, f)
      PROVE  TypeOK'
  <2>1. /\ ctx' \in [Browsers -> [Frames -> Nat \cup {NoContext}]]
        /\ nav' \in [Browsers -> {"none", "pending", "aborted"}]
    BY <1>3 DEF TypeOK, OnContextCreated, kReservedId
  <2> QED
    BY <1>3, <2>1 DEF TypeOK, OnContextCreated
<1>4. ASSUME NEW b \in Browsers, NEW f \in Frames, OnContextReleased(b, f)
      PROVE  TypeOK'
  <2>1. ctx' \in [Browsers -> [Frames -> Nat \cup {NoContext}]]
    BY <1>4 DEF TypeOK, OnContextReleased
  <2>2. ctx[b][f] \in Nat
    BY <1>4 DEF TypeOK, OnContextReleased
  <2>3. requests' \in [Browsers -> SUBSET Request] /\ up' \in [Browsers -> Seq(UpMessage)]
    <3>1. CASE ctx[b][f] = kReservedId
      BY <1>4, <3>1 DEF OnContextReleased, TypeOK
    <3>2. CASE ctx[b][f] # kReservedId
      <4>1. SendCancel(b, ctx[b][f], kReservedId)
        BY <1>4, <3>2 DEF OnContextReleased
      <4>2. kReservedId \in Nat
        BY DEF kReservedId
      <4> QED
        BY <2>2, <4>1, <4>2, SendCancelTyped
    <3> QED
      BY <3>1, <3>2
  <2> QED
    BY <1>4, <2>1, <2>3 DEF TypeOK, OnContextReleased
<1>5. ASSUME NEW b \in Browsers, RendererOnProcessMessageReceived(b)
      PROVE  TypeOK'
  <2>1. down[b] \in Seq(Answer) /\ rtasks[b] \in Seq(Answer) /\ down[b] # <<>>
    BY <1>5 DEF TypeOK, RendererOnProcessMessageReceived
  <2>2. Tail(down[b]) \in Seq(Answer) /\ Append(rtasks[b], Head(down[b])) \in Seq(Answer)
    BY <2>1, ElemsOfTail, ElemsOfAppend
  <2>3. rtasks' \in [Browsers -> Seq(Answer)] /\ down' \in [Browsers -> Seq(Answer)]
    BY <1>5, <2>2 DEF TypeOK, RendererOnProcessMessageReceived
  <2> QED
    BY <1>5, <2>3 DEF TypeOK, RendererOnProcessMessageReceived
<1>6. ASSUME NEW b \in Browsers, ExecuteCallback(b)
      PROVE  TypeOK'
  <2>1. rtasks[b] \in Seq(Answer) /\ rtasks[b] # <<>>
    BY <1>6 DEF TypeOK, ExecuteCallback
  <2>2. Tail(rtasks[b]) \in Seq(Answer)
    BY <2>1, ElemsOfTail
  <2>3. rtasks' \in [Browsers -> Seq(Answer)]
    BY <1>6, <2>2 DEF TypeOK, ExecuteCallback
  <2>4. RemovedRequests(b, Head(rtasks[b])) \subseteq requests[b]
    BY DEF RemovedRequests, GetRequestInfo
  <2>5. requests' \in [Browsers -> SUBSET Request] /\ done' \subseteq Uids
    BY <1>6, <2>4 DEF TypeOK, ExecuteCallback, Request
  <2>6. got' \in [Uids -> Nat]
    BY <1>6 DEF TypeOK, ExecuteCallback
  <2> QED
    BY <1>6, <2>3, <2>5, <2>6 DEF TypeOK, ExecuteCallback
<1> QED
  BY <1>1, <1>2, <1>3, <1>4, <1>5, <1>6 DEF RendererStep

\* What CallbackImpl::Success and Failure do to a typed task queue.
LEMMA CallbackTyped ==
  ASSUME TypeOK, NEW c \in callbacks, NEW rest \in Seq(UiTask),
         Success(c, rest) \/ Failure(c, rest)
  PROVE  /\ uiTasks' \in Seq(UiTask) /\ attached' \subseteq Nat
         /\ attached' \subseteq attached /\ said' \in [Uids -> Nat]
<1>1. c.id \in Nat /\ c.q \in Uids
  BY DEF TypeOK, CallbackImpl
<1>2. /\ Append(rest, CallbackTask("OnCallbackSuccess", c.id)) \in Seq(UiTask)
      /\ Append(rest, CallbackTask("OnCallbackFailure", c.id)) \in Seq(UiTask)
  BY <1>1, TasksTyped, ElemsOfAppend
<1>3. uiTasks' \in {rest, Append(rest, CallbackTask("OnCallbackSuccess", c.id)),
                    Append(rest, CallbackTask("OnCallbackFailure", c.id))}
  BY DEF Success, Failure
<1>4. attached' \in {attached, attached \ {c.id}}
  BY DEF Success, Failure
<1>5. said' = said \/ said' = [said EXCEPT ![c.q] = said[c.q] + 1]
  BY DEF Success, Failure
<1>6. uiTasks' \in Seq(UiTask)
  BY <1>2, <1>3
<1>7. said' \in [Uids -> Nat]
  <2>1. said \in [Uids -> Nat]
    BY DEF TypeOK
  <2>2. said[c.q] + 1 \in Nat
    BY <1>1, <2>1
  <2> QED
    BY <1>1, <1>5, <2>1, <2>2
<1> QED
  BY <1>4, <1>6, <1>7 DEF TypeOK

\* Steps of the application: its handlers and its other threads.
LEMMA TypeApplication ==
  ASSUME TypeOK, ApplicationStep
  PROVE  TypeOK'
<1> USE DEF browserVars, rendererVars, envVars, history
<1>1. ASSUME NEW h \in Handlers, AddHandler(h) PROVE TypeOK'
  BY <1>1 DEF TypeOK, AddHandler
<1>2. ASSUME NEW h \in Handlers, RemoveHandler(h) PROVE TypeOK'
  <2>1. CancelPendingFor(None, h, TRUE)
    BY <1>2 DEF RemoveHandler
  <2>2. /\ queries' \subseteq QueryInfo /\ IsFiniteSet(queries')
        /\ attached' \subseteq Nat
        /\ told' \in [Uids -> Nat]
        /\ down' \in [Browsers -> Seq(Answer)]
    BY <2>1, CancelPendingForTyped
  <2> QED
    BY <1>2, <2>2 DEF TypeOK, RemoveHandler
<1>3. ASSUME NEW b \in Browsers \cup {None}, NEW h \in Handlers \cup {None},
             CancelPending(b, h)
      PROVE  TypeOK'
  <2>1. CancelPendingFor(b, h, TRUE)
    BY <1>3 DEF CancelPending
  <2>2. /\ queries' \subseteq QueryInfo /\ IsFiniteSet(queries')
        /\ attached' \subseteq Nat
        /\ told' \in [Uids -> Nat]
        /\ down' \in [Browsers -> Seq(Answer)]
    BY <2>1, CancelPendingForTyped
  <2> QED
    BY <1>3, <2>2 DEF TypeOK, CancelPending
<1>4. ASSUME NEW t \in UiTask, PostFromOtherThread(t) PROVE TypeOK'
  <2>1. uiTasks' \in Seq(UiTask)
    BY <1>4, ElemsOfAppend DEF TypeOK, PostFromOtherThread
  <2> QED
    BY <1>4, <2>1 DEF TypeOK, PostFromOtherThread
<1>5. ASSUME NEW b \in Browsers \cup {None}, NEW h \in Handlers \cup {None},
             PostFromOtherThread(CancelTask(b, h))
      PROVE  TypeOK'
  BY <1>4, <1>5, TasksTyped
<1>6. ASSUME NEW c \in callbacks, PostSuccess(c) PROVE TypeOK'
  <2>1. c.id \in Nat
    BY DEF TypeOK, CallbackImpl
  <2> QED
    BY <1>4, <1>6, <2>1, TasksTyped DEF PostSuccess
<1>7. ASSUME NEW c \in callbacks, PostFromOtherThread(CallbackTask("Failure", c.id))
      PROVE  TypeOK'
  <2>1. c.id \in Nat
    BY DEF TypeOK, CallbackImpl
  <2> QED
    BY <1>4, <1>7, <2>1, TasksTyped
<1>8. ASSUME NEW c \in callbacks, CallSuccess(c) \/ CallFailure(c) PROVE TypeOK'
  <2>1. uiTasks \in Seq(UiTask) /\ (Success(c, uiTasks) \/ Failure(c, uiTasks))
    BY <1>8 DEF TypeOK, CallSuccess, CallFailure
  <2>2. /\ uiTasks' \in Seq(UiTask) /\ attached' \subseteq Nat
        /\ said' \in [Uids -> Nat]
    BY <2>1, CallbackTyped
  <2>3. UNCHANGED <<handlers, nextQuery, queries, callbacks, rendererVars,
                    envVars, up, down, issued, done, got, told, answered>>
    BY <1>8 DEF CallSuccess, CallFailure
  <2> QED
    BY <2>2, <2>3 DEF TypeOK
<1> QED
  BY <1>1, <1>2, <1>3, <1>5, <1>6, <1>7, <1>8 DEF ApplicationStep

\* Posted tasks of the UI thread.
LEMMA TypeUiTask ==
  ASSUME TypeOK, UiTaskStep
  PROVE  TypeOK'
<1> USE DEF browserVars, rendererVars, envVars, history
<1>0. ASSUME uiTasks # <<>>
      PROVE  Tail(uiTasks) \in Seq(UiTask) /\ Head(uiTasks) \in UiTask
  BY <1>0, ElemsOfTail DEF TypeOK
<1>1. CASE RunCallback
  <2>1. PICK c \in callbacks :
          /\ uiTasks # <<>>
          /\ Success(c, Tail(uiTasks)) \/ Failure(c, Tail(uiTasks))
          /\ UNCHANGED <<handlers, nextQuery, queries, callbacks, rendererVars,
                         envVars, up, down, issued, done, got, told, answered>>
    BY <1>1 DEF RunCallback
  <2>2. /\ uiTasks' \in Seq(UiTask) /\ attached' \subseteq Nat
        /\ said' \in [Uids -> Nat]
    BY <1>0, <2>1, CallbackTyped
  <2> QED
    BY <2>1, <2>2 DEF TypeOK
<1>2. ASSUME NEW ok \in BOOLEAN, OnCallback(ok) PROVE TypeOK'
  <2> DEFINE found == GetQueryInfo(Head(uiTasks).id)
             removed == {x \in found : ~ok \/ ~x.pers}
  <2>1. uiTasks' \in Seq(UiTask)
    BY <1>0, <1>2 DEF OnCallback
  <2>2. found \subseteq queries /\ removed \subseteq queries
    BY DEF GetQueryInfo
  <2>3. /\ queries' = queries \ removed
        /\ answered' = answered \cup {x.q : x \in removed}
    BY <1>2 DEF OnCallback
  <2>4. queries' \subseteq QueryInfo /\ IsFiniteSet(queries')
    BY <2>3, FS_Subset DEF TypeOK
  <2>5. answered' \subseteq Uids
    BY <2>2, <2>3 DEF TypeOK, QueryInfo
  <2>6. down' \in [Browsers -> Seq(Answer)]
    <3>1. CASE found = {}
      BY <1>2, <3>1 DEF OnCallback, TypeOK
    <3>2. CASE found # {}
      <4>1. PICK x \in found :
              down' = [down EXCEPT ![x.browser] =
                         SendToRenderer(x.browser, <<AnswerTo(x, ok)>>)]
        BY <1>2, <3>2 DEF OnCallback
      <4>2. x \in QueryInfo /\ x.browser \in Browsers
        BY <2>2 DEF TypeOK, QueryInfo
      <4>3. <<AnswerTo(x, ok)>> \in Seq(Answer)
        BY <4>2, AnswersTyped
      <4> QED
        BY <4>1, <4>2, <4>3, SendTyped DEF TypeOK
    <3> QED
      BY <3>1, <3>2
  <2> QED
    BY <1>2, <2>1, <2>4, <2>5, <2>6 DEF TypeOK, OnCallback
<1>3. CASE RunCancelPending
  <2>1. CancelPendingFor(Head(uiTasks).browser, Head(uiTasks).handler, TRUE)
    BY <1>3 DEF RunCancelPending
  <2>2. /\ queries' \subseteq QueryInfo /\ IsFiniteSet(queries')
        /\ attached' \subseteq Nat
        /\ told' \in [Uids -> Nat]
        /\ down' \in [Browsers -> Seq(Answer)]
    BY <2>1, CancelPendingForTyped
  <2>3. uiTasks' \in Seq(UiTask)
    BY <1>0, <1>3 DEF RunCancelPending
  <2> QED
    BY <1>3, <2>2, <2>3 DEF TypeOK, RunCancelPending
<1> QED
  BY <1>1, <1>2, <1>3 DEF UiTaskStep

\* Messages from a renderer.
LEMMA TypeBrowserMessage ==
  ASSUME TypeOK, NEW b \in Browsers, BrowserMessageStep(b)
  PROVE  TypeOK'
<1> USE DEF browserVars, rendererVars, envVars, history
<1>0. up[b] # <<>>
  BY DEF BrowserMessageStep, OnQueryMessage, OnCancelMessage, OnRenderProcessTerminated
<1>a. up[b] \in Seq(UpMessage)
  BY DEF TypeOK
<1>b. Head(up[b]) \in UpMessage /\ Tail(up[b]) \in Seq(UpMessage)
  BY <1>0, <1>a, ElemsOfTail
<1>c. up' = [up EXCEPT ![b] = Tail(up[b])]
  BY DEF BrowserMessageStep, OnQueryMessage, OnCancelMessage, OnRenderProcessTerminated
<1>d. up' \in [Browsers -> Seq(UpMessage)]
  BY <1>b, <1>c DEF TypeOK
<1>1. CASE OnQueryMessage(b)
  <2> DEFINE m == Head(up[b])
  <2>1. m.type = "query" /\ m \in UpMessage
    BY <1>1, <1>b DEF OnQueryMessage
  <2>2. m.q \in Uids /\ m.ctx \in Nat /\ m.req \in Nat /\ m.pers \in BOOLEAN
    BY <2>1 DEF UpMessage
  <2>3. CancelUnhandledQuery(b, m) => down' \in [Browsers -> Seq(Answer)]
    <3> HIDE DEF m
    <3>1. AnswerTo(m, FALSE) \in Answer
      BY <2>1, AnswersTyped
    <3>2. <<AnswerTo(m, FALSE)>> \in Seq(Answer)
      BY <3>1, ElemsOfSingleton
    <3>3. SendToRenderer(b, <<AnswerTo(m, FALSE)>>) \in Seq(Answer)
      BY <3>2, SendTyped
    <3> QED
      BY <3>3 DEF CancelUnhandledQuery, TypeOK
  <2>4. UNCHANGED <<handlers, uiTasks, rendererVars, envVars, history>>
    BY <1>1 DEF OnQueryMessage
  <2>5. CASE RefuseWithoutHandlers(b, m)
    BY <1>d, <2>3, <2>4, <2>5 DEF TypeOK, RefuseWithoutHandlers
  <2>6. CASE RefuseByHandlers(b, m)
    BY <1>d, <2>3, <2>4, <2>6 DEF TypeOK, RefuseByHandlers, GetNextId
  <2>7. ASSUME NEW h \in Handlers, AcceptQuery(b, m, h) PROVE TypeOK'
    <3> DEFINE id == GetNextId(nextQuery)
    <3> DEFINE x == [id |-> id, browser |-> b, ctx |-> m.ctx, req |-> m.req,
                     pers |-> m.pers, handler |-> h, q |-> m.q]
    <3> DEFINE c == [id |-> id, pers |-> m.pers, q |-> m.q]
    <3>1. id \in Nat
      BY DEF TypeOK, GetNextId
    <3>2. x \in QueryInfo
      BY <2>2, <3>1 DEF QueryInfo
    <3>3. c \in CallbackImpl
      BY <2>2, <3>1 DEF CallbackImpl
    <3>4. /\ nextQuery' = id /\ queries' = queries \cup {x}
          /\ callbacks' = callbacks \cup {c} /\ attached' = attached \cup {id}
          /\ UNCHANGED down
      BY <2>7 DEF AcceptQuery
    <3> HIDE DEF id, x, c
    <3>5. IsFiniteSet(queries')
      BY <3>4, FS_AddElement DEF TypeOK
    <3> QED
      BY <1>d, <2>4, <3>1, <3>2, <3>3, <3>4, <3>5 DEF TypeOK
  <2> QED
    BY <1>1, <2>5, <2>6, <2>7 DEF OnQueryMessage
<1>2. CASE OnCancelMessage(b)
  <2>1. CancelQueries(CanceledRequest(b, Head(up[b])))
    BY <1>2 DEF OnCancelMessage
  <2>2. /\ queries' \subseteq QueryInfo /\ IsFiniteSet(queries')
        /\ attached' \subseteq Nat
        /\ told' \in [Uids -> Nat]
    BY <2>1, CanceledRequestTyped, CancelTyped
  <2> QED
    BY <1>2, <1>d, <2>2 DEF TypeOK, OnCancelMessage
<1>3. CASE OnRenderProcessTerminated(b)
  <2>1. CancelPendingFor(b, None, FALSE)
    BY <1>3 DEF OnRenderProcessTerminated
  <2>2. /\ queries' \subseteq QueryInfo /\ IsFiniteSet(queries')
        /\ attached' \subseteq Nat
        /\ told' \in [Uids -> Nat]
        /\ down' \in [Browsers -> Seq(Answer)]
    BY <2>1, CancelPendingForTyped
  <2> QED
    BY <1>3, <1>d, <2>2 DEF TypeOK, OnRenderProcessTerminated
<1> QED
  BY <1>1, <1>2, <1>3 DEF BrowserMessageStep

\* Nothing left of a renderer is a typed renderer.
LEMMA ForgetTyped ==
  ASSUME TypeOK, NEW b \in Browsers, ForgetRenderer(b)
  PROVE  /\ ctx' \in [Browsers -> [Frames -> Nat \cup {NoContext}]]
         /\ nextCtx' \in [Browsers -> Nat] /\ nextReq' \in [Browsers -> Nat]
         /\ requests' \in [Browsers -> SUBSET Request]
         /\ rtasks' \in [Browsers -> Seq(Answer)]
<1>1. ctx' \in [Browsers -> [Frames -> Nat \cup {NoContext}]]
  <2>1. [f \in Frames |-> NoContext] \in [Frames -> Nat \cup {NoContext}]
    OBVIOUS
  <2>2. ctx \in [Browsers -> [Frames -> Nat \cup {NoContext}]]
    BY DEF TypeOK
  <2>3. ctx' = [ctx EXCEPT ![b] = [f \in Frames |-> NoContext]]
    BY DEF ForgetRenderer
  <2> QED
    BY <2>1, <2>2, <2>3
<1>2. nextCtx' \in [Browsers -> Nat] /\ nextReq' \in [Browsers -> Nat]
  BY DEF ForgetRenderer, TypeOK
<1>3. requests' \in [Browsers -> SUBSET Request]
  BY DEF ForgetRenderer, TypeOK
<1>4. rtasks' \in [Browsers -> Seq(Answer)]
  BY EmptySeq DEF ForgetRenderer, TypeOK
<1> QED
  BY <1>1, <1>2, <1>3, <1>4

\* Steps of the environment.
LEMMA TypeEnvironment ==
  ASSUME TypeOK, EnvironmentStep
  PROVE  TypeOK'
<1> USE DEF browserVars, rendererVars, envVars, history
<1> Disturbed \subseteq Browsers
  BY RouterAssumption
<1>1. ASSUME NEW b \in Disturbed, OnBeforeBrowse(b) PROVE TypeOK'
  <2>1. CancelPendingFor(b, None, FALSE)
    BY <1>1 DEF OnBeforeBrowse
  <2>2. /\ queries' \subseteq QueryInfo /\ IsFiniteSet(queries')
        /\ attached' \subseteq Nat
        /\ told' \in [Uids -> Nat]
        /\ down' \in [Browsers -> Seq(Answer)]
    BY <2>1, CancelPendingForTyped
  <2> QED
    BY <1>1, <2>2 DEF TypeOK, OnBeforeBrowse
<1>2. ASSUME NEW b \in Disturbed, RendererCrash(b) PROVE TypeOK'
  <2>1. PICK n \in 0..Len(up[b]) :
          up' = [up EXCEPT ![b] = Append(SubSeq(up[b], 1, n), GoneMsg)]
    BY <1>2 DEF RendererCrash
  <2>2. up[b] \in Seq(UpMessage)
    BY DEF TypeOK
  <2>3. Append(SubSeq(up[b], 1, n), GoneMsg) \in Seq(UpMessage)
    BY <2>2, ElemsOfPrefix, ElemsOfAppend, MessagesTyped
  <2>4. up' \in [Browsers -> Seq(UpMessage)]
    BY <2>1, <2>3 DEF TypeOK
  <2>5. down' \in [Browsers -> Seq(Answer)]
    BY <1>2, EmptySeq DEF RendererCrash, TypeOK
  <2>6. ForgetRenderer(b)
    BY <1>2 DEF RendererCrash
  <2> QED
    BY <1>2, <2>4, <2>5, <2>6, ForgetTyped DEF TypeOK, RendererCrash
<1>3. ASSUME NEW b \in Disturbed, LaunchRenderer(b) PROVE TypeOK'
  BY <1>3 DEF TypeOK, LaunchRenderer
<1>4. ASSUME NEW b \in Disturbed, OnBeforeClose(b) PROVE TypeOK'
  <2>1. ForgetRenderer(b) /\ CancelQueries(PendingFor(b, None))
    BY <1>4 DEF OnBeforeClose
  <2>2. /\ queries' \subseteq QueryInfo /\ IsFiniteSet(queries')
        /\ attached' \subseteq Nat
        /\ told' \in [Uids -> Nat]
    BY <2>1, PendingForTyped, CancelTyped
  <2>3. up' \in [Browsers -> Seq(UpMessage)] /\ down' \in [Browsers -> Seq(Answer)]
    BY <1>4, EmptySeq DEF OnBeforeClose, TypeOK
  <2> QED
    BY <1>4, <2>1, <2>2, <2>3, ForgetTyped DEF TypeOK, OnBeforeClose
<1>5. ASSUME NEW b \in Disturbed, NavigationAborts(b) PROVE TypeOK'
  BY <1>5 DEF TypeOK, NavigationAborts
<1> QED
  BY <1>1, <1>2, <1>3, <1>4, <1>5 DEF EnvironmentStep

LEMMA TypeStep ==
  ASSUME TypeOK, [Next]_vars
  PROVE  TypeOK'
<1>1. CASE UNCHANGED vars
  BY <1>1 DEF TypeOK, vars, browserVars, rendererVars, envVars, history
<1> QED
  BY <1>1, TypeRenderer, TypeApplication, TypeUiTask, TypeBrowserMessage,
     TypeEnvironment DEF Next

\* The router's maps, queues and counters always hold values of their types,
\* whatever the interleaving of page, handlers, threads, crashes and closes.
THEOREM TypeCorrect == Spec => []TypeOK
  BY TypeInit, TypeStep, PTL DEF Spec

-----------------------------------------------------------------------------
(* Answers match queries: KeyInv is inductive relative to TypeOK.          *)

\* The keys of b's half do not grow, and nothing else that KeyInv speaks of
\* changes in b's disfavour.
Quiet(b) ==
  /\ proc'[b] = proc[b] /\ nextReq'[b] = nextReq[b]
  /\ requests'[b] \subseteq requests[b]
  /\ KeysInFlight(b)' \subseteq KeysInFlight(b)
  /\ proc[b] # "running" =>
       /\ down'[b] = down[b] /\ rtasks'[b] = rtasks[b]
       /\ up'[b] = <<>> => OfBrowser(queries', b) = {}
  /\ proc[b] = "closed" => up'[b] = <<>>

\* What one step may do to the messages of b, seen with the process's state.
UpDelta(b) ==
  \/ up'[b] = up[b] /\ proc'[b] = proc[b]
  \/ /\ proc[b] = "running" /\ proc'[b] = "running"
     /\ \E m \in UpMessage : m.type # "gone" /\ up'[b] = Append(up[b], m)
  \/ up[b] # <<>> /\ up'[b] = Tail(up[b]) /\ proc'[b] = proc[b]
  \/ /\ proc[b] = "running" /\ proc'[b] = "dead"
     /\ \E n \in 0..Len(up[b]) : up'[b] = Append(SubSeq(up[b], 1, n), GoneMsg)
  \/ up'[b] = <<>>

-----------------------------------------------------------------------------
(* The keys of each place.                                                 *)

LEMMA KeyOfAnswer ==
  \A x, ok : KeyOf(AnswerTo(x, ok)) = KeyOf(x)
  BY DEF KeyOf, AnswerTo

LEMMA KeysOfPlaces ==
  ASSUME NEW b \in Browsers
  PROVE  /\ \A r \in requests[b] : KeyOf(r) \in KeysInFlight(b)
         /\ \A x \in OfBrowser(queries, b) : KeyOf(x) \in KeysInFlight(b)
         /\ \A a \in Elems(down[b]) \cup Elems(rtasks[b]) : KeyOf(a) \in KeysInFlight(b)
         /\ \A m \in Elems(up[b]) : m.type = "query" => KeyOf(m) \in KeysInFlight(b)
  BY DEF KeysInFlight

LEMMA KeysTyped ==
  ASSUME TypeOK, NEW b \in Browsers, NEW k \in KeysInFlight(b)
  PROVE  k[1] \in Nat
<1>1. \A r \in requests[b] : r.req \in Nat
  BY DEF TypeOK, Request
<1>2. \A x \in OfBrowser(queries, b) : x.req \in Nat
  BY DEF TypeOK, QueryInfo, OfBrowser
<1>3. \A a \in Elems(down[b]) \cup Elems(rtasks[b]) : a.req \in Nat
  <2>1. Elems(down[b]) \subseteq Answer /\ Elems(rtasks[b]) \subseteq Answer
    BY ElemsTyped DEF TypeOK
  <2> QED
    BY <2>1 DEF Answer
<1>4. \A m \in Elems(up[b]) : m.req \in Nat
  <2>1. Elems(up[b]) \subseteq UpMessage
    BY ElemsTyped DEF TypeOK
  <2> QED
    BY <2>1 DEF UpMessage
<1>5. PICK x : x.req \in Nat /\ k = KeyOf(x)
  BY <1>1, <1>2, <1>3, <1>4 DEF KeysInFlight
<1> QED
  BY <1>5 DEF KeyOf

\* Where nothing has a key that was not about before, the keys do not grow.
LEMMA KeysShrink ==
  ASSUME NEW b \in Browsers,
         \A r \in requests'[b] : r \in requests[b] \/ KeyOf(r) \in KeysInFlight(b),
         \A x \in OfBrowser(queries', b) :
            x \in OfBrowser(queries, b) \/ KeyOf(x) \in KeysInFlight(b),
         \A a \in Elems(down'[b]) \cup Elems(rtasks'[b]) :
            \/ a \in Elems(down[b]) \cup Elems(rtasks[b])
            \/ KeyOf(a) \in KeysInFlight(b),
         \A m \in Elems(up'[b]) : m \in Elems(up[b]) \/ m.type # "query"
  PROVE  KeysInFlight(b)' \subseteq KeysInFlight(b)
  BY DEF KeysInFlight, KeyOf, OfBrowser

\* Canceling entries adds, at most, failures that carry the entries' keys.
LEMMA CanceledKeys ==
  ASSUME TypeOK, NEW c, NEW h, NEW n \in BOOLEAN, CancelPendingFor(c, h, n),
         NEW b \in Browsers
  PROVE  /\ OfBrowser(queries', b) \subseteq OfBrowser(queries, b)
         /\ \A a \in Elems(down'[b]) :
              a \in Elems(down[b]) \/ KeyOf(a) \in KeysInFlight(b)
         /\ proc[b] # "running" => down'[b] = down[b]
<1> DEFINE S == PendingFor(c, h)
<1>1. queries' = queries \ S
  BY DEF CancelPendingFor, CancelQueries
<1>2. OfBrowser(queries', b) \subseteq OfBrowser(queries, b)
  BY <1>1 DEF OfBrowser
<1>3. CASE n
  <2>1. SendCanceled(S) /\ S \in SUBSET queries
    BY <1>3, PendingForTyped DEF CancelPendingFor
  <2> HIDE DEF S
  <2>2. \A a \in Elems(down'[b]) :
          a \in Elems(down[b]) \/ \E x \in OfBrowser(S, b) : a = AnswerTo(x, FALSE)
    BY <2>1, SendCanceledTyped
  <2>3. proc[b] # "running" => down'[b] = down[b]
    BY <2>1, SendCanceledTyped
  <2>4. \A x \in OfBrowser(S, b) : KeyOf(x) \in KeysInFlight(b)
    <3>1. OfBrowser(S, b) \subseteq OfBrowser(queries, b)
      BY <2>1 DEF OfBrowser
    <3> QED
      BY <3>1, KeysOfPlaces
  <2>5. ASSUME NEW a \in Elems(down'[b]), a \notin Elems(down[b])
        PROVE  KeyOf(a) \in KeysInFlight(b)
    <3>1. PICK x \in OfBrowser(S, b) : a = AnswerTo(x, FALSE)
      BY <2>2, <2>5
    <3>2. KeyOf(a) = KeyOf(x)
      BY <3>1, KeyOfAnswer
    <3> QED
      BY <2>4, <3>1, <3>2
  <2> QED
    BY <1>2, <2>3, <2>5
<1>4. CASE ~n
  BY <1>2, <1>4 DEF CancelPendingFor
<1> QED
  BY <1>3, <1>4

-----------------------------------------------------------------------------
(* From Quiet and UpDelta to the invariant.                                *)

LEMMA QuietKeepsKeys ==
  ASSUME KeysUnique, NEW b \in Browsers, Quiet(b), proc'[b] = "running"
  PROVE  \A k, l \in KeysInFlight(b)' :
           k[1] <= nextReq'[b] /\ (k[1] = l[1] => k[2] = l[2])
  BY DEF KeysUnique, Quiet

LEMMA QuietKeepsDead ==
  ASSUME DeadIsEmpty, NEW b \in Browsers, Quiet(b), proc'[b] # "running"
  PROVE  /\ requests'[b] = {} /\ down'[b] = <<>> /\ rtasks'[b] = <<>>
         /\ up'[b] = <<>> => OfBrowser(queries', b) = {}
         /\ proc'[b] = "closed" => up'[b] = <<>>
  BY DEF DeadIsEmpty, Quiet

\* Messages are appended to a running process's channel only, and the notice
\* of its death is appended once, when it stops running.
LEMMA GoneStaysLast ==
  ASSUME TypeOK, GoneIsLast, NEW b \in Browsers, UpDelta(b), up' \in [Browsers -> Seq(UpMessage)]
  PROVE  \A i \in 1..Len(up'[b]) :
           up'[b][i].type = "gone" <=> (proc'[b] = "dead" /\ i = Len(up'[b]))
<1>0. up[b] \in Seq(UpMessage)
  BY DEF TypeOK
<1>a. Len(up[b]) \in Nat
  BY <1>0, LenProperties
<1>1. CASE up'[b] = up[b] /\ proc'[b] = proc[b]
  BY <1>1 DEF GoneIsLast
<1>2. CASE /\ proc[b] = "running" /\ proc'[b] = "running"
           /\ \E m \in UpMessage : m.type # "gone" /\ up'[b] = Append(up[b], m)
  <2>1. PICK m \in UpMessage : m.type # "gone" /\ up'[b] = Append(up[b], m)
    BY <1>2
  <2>2. /\ Len(up'[b]) = Len(up[b]) + 1
        /\ \A i \in 1..Len(up[b]) : up'[b][i] = up[b][i]
        /\ up'[b][Len(up[b]) + 1] = m
    BY <1>0, <2>1, AppendProperties
  <2>3. \A i \in 1..Len(up[b]) : up[b][i].type # "gone"
    BY <1>2 DEF GoneIsLast
  <2>4. \A i \in 1..Len(up'[b]) : up'[b][i].type # "gone"
    BY <1>a, <2>1, <2>2, <2>3
  <2> QED
    BY <1>2, <2>4
<1>3. CASE up[b] # <<>> /\ up'[b] = Tail(up[b]) /\ proc'[b] = proc[b]
  <2>1. /\ Len(up'[b]) = Len(up[b]) - 1
        /\ \A i \in 1..Len(up'[b]) : up'[b][i] = up[b][i + 1]
    BY <1>0, <1>3, HeadTailProperties
  <2>2. Len(up[b]) \in Nat \ {0}
    BY <1>0, <1>3, EmptySeq
  <2>3. ASSUME NEW i \in 1..Len(up'[b])
        PROVE  up'[b][i].type = "gone" <=> (proc'[b] = "dead" /\ i = Len(up'[b]))
    <3>1. i + 1 \in 1..Len(up[b]) /\ (i + 1 = Len(up[b]) <=> i = Len(up'[b]))
      BY <2>1, <2>2
    <3>2. up[b][i + 1].type = "gone" <=> (proc[b] = "dead" /\ i + 1 = Len(up[b]))
      BY <3>1 DEF GoneIsLast
    <3> QED
      BY <1>3, <2>1, <3>1, <3>2
  <2> QED
    BY <2>3
<1>4. CASE /\ proc[b] = "running" /\ proc'[b] = "dead"
           /\ \E n \in 0..Len(up[b]) : up'[b] = Append(SubSeq(up[b], 1, n), GoneMsg)
  <2>1. PICK n \in 0..Len(up[b]) : up'[b] = Append(SubSeq(up[b], 1, n), GoneMsg)
    BY <1>4
  <2>2. /\ SubSeq(up[b], 1, n) \in Seq(UpMessage)
        /\ Len(SubSeq(up[b], 1, n)) = n
        /\ \A i \in 1..n : SubSeq(up[b], 1, n)[i] = up[b][i]
    BY <1>0, ElemsOfPrefix
  <2>3. /\ Len(up'[b]) = n + 1
        /\ \A i \in 1..n : up'[b][i] = up[b][i]
        /\ up'[b][n + 1] = GoneMsg
    BY <2>1, <2>2, MessagesTyped, AppendProperties
  <2>4. \A i \in 1..n : up[b][i].type # "gone"
    BY <1>a, <1>4 DEF GoneIsLast
  <2> QED
    BY <1>4, <1>a, <2>3, <2>4 DEF GoneMsg
<1>5. CASE up'[b] = <<>>
  BY <1>5
<1> QED
  BY <1>1, <1>2, <1>3, <1>4, <1>5 DEF UpDelta

LEMMA QuietEverywhere ==
  ASSUME KeysUnique, DeadIsEmpty, \A b \in Browsers : Quiet(b)
  PROVE  KeysUnique' /\ DeadIsEmpty'
<1>1. KeysUnique'
  BY QuietKeepsKeys DEF KeysUnique
<1>2. DeadIsEmpty'
  BY QuietKeepsDead DEF DeadIsEmpty
<1> QED
  BY <1>1, <1>2

\* Quiet from what a step does to each place, when it takes no message of b.
LEMMA QuietFromParts ==
  ASSUME DeadIsEmpty, NEW b \in Browsers,
         proc'[b] = proc[b], nextReq'[b] = nextReq[b],
         requests'[b] \subseteq requests[b],
         OfBrowser(queries', b) \subseteq OfBrowser(queries, b),
         \A a \in Elems(down'[b]) \cup Elems(rtasks'[b]) :
            \/ a \in Elems(down[b]) \cup Elems(rtasks[b])
            \/ KeyOf(a) \in KeysInFlight(b),
         proc[b] # "running" => down'[b] = down[b] /\ rtasks'[b] = rtasks[b],
         \/ up'[b] = up[b]
         \/ /\ proc[b] = "running"
            /\ \A m \in Elems(up'[b]) : m \in Elems(up[b]) \/ m.type # "query"
  PROVE  Quiet(b)
<1>1. \A m \in Elems(up'[b]) : m \in Elems(up[b]) \/ m.type # "query"
  OBVIOUS
<1>2. KeysInFlight(b)' \subseteq KeysInFlight(b)
  BY <1>1, KeysShrink
<1>3. proc[b] # "running" => up'[b] = up[b] /\ (up[b] = <<>> => OfBrowser(queries, b) = {})
                             /\ (proc[b] = "closed" => up[b] = <<>>)
  BY DEF DeadIsEmpty
<1> QED
  BY <1>2, <1>3 DEF Quiet

\* A step that leaves every place of b alone, or only removes entries.
LEMMA QuietElsewhere ==
  ASSUME DeadIsEmpty, NEW b \in Browsers,
         proc'[b] = proc[b], nextReq'[b] = nextReq[b], requests'[b] = requests[b],
         OfBrowser(queries', b) \subseteq OfBrowser(queries, b),
         down'[b] = down[b], rtasks'[b] = rtasks[b], up'[b] = up[b]
  PROVE  Quiet(b)
  BY QuietFromParts

-----------------------------------------------------------------------------
(* Every action: keys and dead processes.                                  *)

LEMMA KeysCefQuery ==
  ASSUME TypeOK, KeyInv, NEW b \in Browsers, NEW f \in Frames, NEW pers,
         CefQuery(b, f, pers)
  PROVE  KeysUnique' /\ DeadIsEmpty'
<1> USE DEF browserVars, rendererVars, envVars, history
<1> DEFINE r == [ctx |-> IdForContext(b, f), req |-> GetNextId(nextReq[b]),
                 pers |-> pers, q |-> issued + 1]
           m == QueryMsg(r)
<1>1. /\ proc[b] = "running" /\ proc' = proc
      /\ nextReq' = [nextReq EXCEPT ![b] = nextReq[b] + 1]
      /\ requests' = [requests EXCEPT ![b] = requests[b] \cup {r}]
      /\ up' = [up EXCEPT ![b] = Append(up[b], m)]
      /\ queries' = queries /\ down' = down /\ rtasks' = rtasks
  BY DEF CefQuery, GetNextId
<1>2. KeyOf(r) = <<nextReq[b] + 1, issued + 1>> /\ KeyOf(m) = KeyOf(r)
  BY DEF KeyOf, QueryMsg, GetNextId
<1> HIDE DEF r, m
<1>t. /\ up \in [Browsers -> Seq(UpMessage)] /\ requests \in [Browsers -> SUBSET Request]
      /\ nextReq \in [Browsers -> Nat]
  BY DEF TypeOK
<1>3. ASSUME NEW a \in Browsers, a # b
      PROVE  Quiet(a)
  <2>1. /\ proc'[a] = proc[a] /\ nextReq'[a] = nextReq[a] /\ requests'[a] = requests[a]
        /\ up'[a] = up[a] /\ down'[a] = down[a] /\ rtasks'[a] = rtasks[a]
    BY <1>1, <1>3, <1>t
  <2>2. OfBrowser(queries', a) = OfBrowser(queries, a)
    BY <1>1
  <2> QED
    BY <2>1, <2>2, QuietElsewhere DEF KeyInv
<1>4. Elems(up'[b]) \subseteq Elems(up[b]) \cup {m}
  <2>1. DOMAIN up[b] = 1..Len(up[b]) /\ Len(up[b]) \in Nat
    BY <1>t, LenProperties
  <2>2. up'[b] = Append(up[b], m)
    BY <1>1, <1>t
  <2> QED
    BY <2>1, <2>2 DEF Elems
<1>5. requests'[b] = requests[b] \cup {r}
  BY <1>1, <1>t
<1>6. KeysInFlight(b)' \subseteq KeysInFlight(b) \cup {<<nextReq[b] + 1, issued + 1>>}
  <2> DEFINE places == requests[b] \cup OfBrowser(queries, b)
                         \cup Elems(down[b]) \cup Elems(rtasks[b])
             msgs == {x \in Elems(up[b]) : x.type = "query"}
  <2>1. KeysInFlight(b) = {KeyOf(x) : x \in places} \cup {KeyOf(x) : x \in msgs}
    BY DEF KeysInFlight
  <2>2. KeysInFlight(b)' = {KeyOf(x) : x \in (places)'} \cup {KeyOf(x) : x \in (msgs)'}
    BY DEF KeysInFlight, KeyOf
  <2>3. (places)' \subseteq places \cup {r} /\ (msgs)' \subseteq msgs \cup {m}
    BY <1>1, <1>4, <1>5 DEF OfBrowser
  <2> HIDE DEF places, msgs
  <2> QED
    BY <1>2, <2>1, <2>2, <2>3
<1>7. /\ nextReq[b] \in Nat /\ nextReq'[b] = nextReq[b] + 1
      /\ \A k, l \in KeysInFlight(b) : k[1] <= nextReq[b] /\ (k[1] = l[1] => k[2] = l[2])
  BY <1>1, <1>t DEF KeyInv, KeysUnique
<1>8. \A k \in KeysInFlight(b) : k[1] \in Nat
  BY KeysTyped
<1>9. \A k, l \in KeysInFlight(b)' :
        k[1] <= nextReq'[b] /\ (k[1] = l[1] => k[2] = l[2])
  BY <1>6, <1>7, <1>8
<1>10. KeysUnique'
  BY <1>3, <1>9, QuietKeepsKeys DEF KeysUnique, KeyInv
<1>11. DeadIsEmpty'
  BY <1>1, <1>3, QuietKeepsDead DEF DeadIsEmpty, KeyInv
<1> QED
  BY <1>10, <1>11

\* The renderer side's other steps.
LEMMA KeysRenderer ==
  ASSUME TypeOK, KeyInv, RendererStep
  PROVE  KeysUnique' /\ DeadIsEmpty'
<1> USE DEF browserVars, rendererVars, envVars, history
<1> USE DEF KeyInv
<1>t. /\ up \in [Browsers -> Seq(UpMessage)] /\ requests \in [Browsers -> SUBSET Request]
      /\ down \in [Browsers -> Seq(Answer)] /\ rtasks \in [Browsers -> Seq(Answer)]
  BY DEF TypeOK
<1>1. ASSUME NEW b \in Browsers, NEW f \in Frames, NEW pers \in Persistence,
             CefQuery(b, f, pers)
      PROVE  KeysUnique' /\ DeadIsEmpty'
  BY <1>1, KeysCefQuery
<1>2. ASSUME NEW b \in Browsers, NEW c \in Nat, NEW req \in Nat, SendCancel(b, c, req),
             proc[b] = "running",
             UNCHANGED <<queries, nextReq, rtasks, proc, down>>
      PROVE  KeysUnique' /\ DeadIsEmpty'
  <2>1. /\ requests'[b] \subseteq requests[b]
        /\ \A a \in Browsers \ {b} : requests'[a] = requests[a] /\ up'[a] = up[a]
        /\ up'[b] = up[b] \/ up'[b] = Append(up[b], CancelMsg(c, req))
    BY <1>2, SendCancelTyped
  <2>2. CancelMsg(c, req) \in UpMessage /\ CancelMsg(c, req).type # "query"
    BY MessagesTyped DEF CancelMsg
  <2>3. \A m \in Elems(up'[b]) : m \in Elems(up[b]) \/ m.type # "query"
    <3>1. Elems(Append(up[b], CancelMsg(c, req))) = Elems(up[b]) \cup {CancelMsg(c, req)}
      BY <1>t, <2>2, ElemsOfAppend
    <3> QED
      BY <2>1, <2>2, <3>1
  <2>4. Quiet(b)
    BY <1>2, <2>1, <2>3, QuietFromParts DEF OfBrowser
  <2>5. \A a \in Browsers \ {b} : Quiet(a)
    BY <1>2, <2>1, QuietElsewhere DEF OfBrowser
  <2> QED
    BY <2>4, <2>5, QuietEverywhere
<1>3. ASSUME NEW b \in Browsers, NEW f \in Frames, NEW r \in requests[b],
             CefQueryCancel(b, f, r.req)
      PROVE  KeysUnique' /\ DeadIsEmpty'
  <2>1. ctx[b][f] # NoContext
    BY <1>3 DEF CefQueryCancel
  <2>2. r.req \in Nat /\ IdForContext(b, f) \in Nat
    BY <1>t, <2>1, IdsTyped DEF Request
  <2> QED
    BY <1>2, <1>3, <2>2 DEF CefQueryCancel
<1>4. ASSUME NEW b \in Browsers, NEW f \in Frames, OnContextReleased(b, f)
      PROVE  KeysUnique' /\ DeadIsEmpty'
  <2>1. CASE ctx[b][f] = kReservedId
    <3>1. \A a \in Browsers : Quiet(a)
      BY <1>4, <2>1, QuietElsewhere DEF OnContextReleased, OfBrowser
    <3> QED
      BY <3>1, QuietEverywhere
  <2>2. CASE ctx[b][f] # kReservedId
    <3>1. ctx[b][f] \in Nat
      BY <1>4 DEF TypeOK, OnContextReleased
    <3>2. kReservedId \in Nat
      BY DEF kReservedId
    <3>3. SendCancel(b, ctx[b][f], kReservedId) /\ proc[b] = "running"
          /\ UNCHANGED <<queries, nextReq, rtasks, proc, down>>
      BY <1>4, <2>2 DEF OnContextReleased
    <3> QED
      BY <1>2, <3>1, <3>2, <3>3
  <2> QED
    BY <2>1, <2>2
<1>5. ASSUME NEW b \in Browsers, NEW f \in Frames, OnContextCreated(b, f)
      PROVE  KeysUnique' /\ DeadIsEmpty'
  <2>1. \A a \in Browsers : Quiet(a)
    BY <1>5, QuietElsewhere DEF OnContextCreated, OfBrowser
  <2> QED
    BY <2>1, QuietEverywhere
<1>6. ASSUME NEW b \in Browsers, RendererOnProcessMessageReceived(b)
      PROVE  KeysUnique' /\ DeadIsEmpty'
  <2>1. /\ down[b] # <<>> /\ proc[b] = "running"
        /\ rtasks' = [rtasks EXCEPT ![b] = Append(rtasks[b], Head(down[b]))]
        /\ down' = [down EXCEPT ![b] = Tail(down[b])]
        /\ UNCHANGED <<queries, nextReq, requests, proc, up>>
    BY <1>6 DEF RendererOnProcessMessageReceived, DeadIsEmpty
  <2>2. Elems(down'[b]) \cup Elems(rtasks'[b]) \subseteq Elems(down[b]) \cup Elems(rtasks[b])
    BY <1>t, <2>1, ElemsOfTail, ElemsOfAppend
  <2>3. Quiet(b)
    BY <2>1, <2>2, QuietFromParts DEF OfBrowser
  <2>4. \A a \in Browsers \ {b} : Quiet(a)
    BY <1>t, <2>1, QuietElsewhere DEF OfBrowser
  <2> QED
    BY <2>3, <2>4, QuietEverywhere
<1>7. ASSUME NEW b \in Browsers, ExecuteCallback(b)
      PROVE  KeysUnique' /\ DeadIsEmpty'
  <2>1. /\ rtasks[b] # <<>> /\ proc[b] = "running"
        /\ rtasks' = [rtasks EXCEPT ![b] = Tail(rtasks[b])]
        /\ requests' = [requests EXCEPT ![b] = requests[b] \ RemovedRequests(b, Head(rtasks[b]))]
        /\ UNCHANGED <<queries, nextReq, down, proc, up>>
    BY <1>7 DEF ExecuteCallback, DeadIsEmpty
  <2>2. Elems(rtasks'[b]) \subseteq Elems(rtasks[b])
    BY <1>t, <2>1, ElemsOfTail
  <2>3. Quiet(b)
    BY <1>t, <2>1, <2>2, QuietFromParts DEF OfBrowser
  <2>4. \A a \in Browsers \ {b} : Quiet(a)
    BY <1>t, <2>1, QuietElsewhere DEF OfBrowser
  <2> QED
    BY <2>3, <2>4, QuietEverywhere
<1> QED
  BY <1>1, <1>3, <1>4, <1>5, <1>6, <1>7 DEF RendererStep

\* Canceling entries, with nothing else that matters here.
LEMMA KeysCancel ==
  ASSUME TypeOK, KeyInv, NEW c, NEW h, NEW n \in BOOLEAN, CancelPendingFor(c, h, n),
         UNCHANGED <<nextReq, requests, rtasks, proc, up>>
  PROVE  KeysUnique' /\ DeadIsEmpty'
<1>1. \A b \in Browsers : Quiet(b)
  BY CanceledKeys, QuietFromParts DEF KeyInv
<1> QED
  BY <1>1, QuietEverywhere DEF KeyInv

LEMMA KeysApplication ==
  ASSUME TypeOK, KeyInv, ApplicationStep
  PROVE  KeysUnique' /\ DeadIsEmpty'
<1> USE DEF browserVars, rendererVars, envVars, history
<1>1. ASSUME UNCHANGED <<queries, nextReq, requests, rtasks, proc, up, down>>
      PROVE  KeysUnique' /\ DeadIsEmpty'
  <2>1. \A b \in Browsers : Quiet(b)
    BY <1>1, QuietElsewhere DEF OfBrowser, KeyInv
  <2> QED
    BY <2>1, QuietEverywhere DEF KeyInv
<1>2. ASSUME NEW h \in Handlers, RemoveHandler(h)
      PROVE  KeysUnique' /\ DeadIsEmpty'
  BY <1>2, KeysCancel DEF RemoveHandler
<1>3. ASSUME NEW b \in Browsers \cup {None}, NEW h \in Handlers \cup {None},
             CancelPending(b, h)
      PROVE  KeysUnique' /\ DeadIsEmpty'
  BY <1>3, KeysCancel DEF CancelPending
<1> QED
  BY <1>1, <1>2, <1>3 DEF ApplicationStep, AddHandler, PostFromOtherThread,
     PostSuccess, CallSuccess, CallFailure

\* Posted tasks: an answer that goes out carries its entry's key.
LEMMA KeysUiTask ==
  ASSUME TypeOK, KeyInv, UiTaskStep
  PROVE  KeysUnique' /\ DeadIsEmpty'
<1> USE DEF browserVars, rendererVars, envVars, history
<1>1. CASE RunCallback
  <2>1. \A b \in Browsers : Quiet(b)
    BY <1>1, QuietElsewhere DEF RunCallback, OfBrowser, KeyInv
  <2> QED
    BY <2>1, QuietEverywhere DEF KeyInv
<1>2. CASE RunCancelPending
  BY <1>2, KeysCancel DEF RunCancelPending
<1>3. ASSUME NEW ok \in BOOLEAN, OnCallback(ok)
      PROVE  KeysUnique' /\ DeadIsEmpty'
  <2> DEFINE found == GetQueryInfo(Head(uiTasks).id)
  <2>1. /\ queries' \subseteq queries
        /\ UNCHANGED <<nextReq, requests, rtasks, proc, up>>
    BY <1>3 DEF OnCallback
  <2>2. \A b \in Browsers : OfBrowser(queries', b) \subseteq OfBrowser(queries, b)
    BY <2>1 DEF OfBrowser
  <2>3. CASE found = {}
    <3>1. UNCHANGED down
      BY <1>3, <2>3 DEF OnCallback
    <3>2. \A b \in Browsers : Quiet(b)
      BY <2>1, <2>2, <3>1, QuietElsewhere DEF KeyInv
    <3> QED
      BY <3>2, QuietEverywhere DEF KeyInv
  <2>4. CASE found # {}
    <3>1. PICK x \in found :
            down' = [down EXCEPT ![x.browser] =
                       SendToRenderer(x.browser, <<AnswerTo(x, ok)>>)]
      BY <1>3, <2>4 DEF OnCallback
    <3>2. x \in queries /\ x \in QueryInfo /\ x.browser \in Browsers
      BY DEF GetQueryInfo, TypeOK, QueryInfo
    <3>3. AnswerTo(x, ok) \in Answer
      BY <3>2, AnswersTyped
    <3>4. /\ <<AnswerTo(x, ok)>> \in Seq(Answer)
          /\ Elems(<<AnswerTo(x, ok)>>) = {AnswerTo(x, ok)}
      BY <3>3, ElemsOfSingleton
    <3>5. down \in [Browsers -> Seq(Answer)]
      BY DEF TypeOK
    <3>6. down'[x.browser] = SendToRenderer(x.browser, <<AnswerTo(x, ok)>>)
      BY <3>1, <3>2, <3>5
    <3>7. /\ Elems(down'[x.browser]) \subseteq Elems(down[x.browser]) \cup {AnswerTo(x, ok)}
          /\ proc[x.browser] # "running" => down'[x.browser] = down[x.browser]
      BY <3>2, <3>4, <3>6, SendTyped
    <3>8. KeyOf(AnswerTo(x, ok)) \in KeysInFlight(x.browser)
      <4>1. x \in OfBrowser(queries, x.browser)
        BY <3>2 DEF OfBrowser
      <4>2. KeyOf(x) \in KeysInFlight(x.browser)
        BY <3>2, <4>1, KeysOfPlaces
      <4> QED
        BY <4>2, KeyOfAnswer
    <3>9. Quiet(x.browser)
      BY <2>1, <2>2, <3>2, <3>7, <3>8, QuietFromParts DEF KeyInv
    <3>10. ASSUME NEW b \in Browsers, b # x.browser
           PROVE  Quiet(b)
      <4>1. down'[b] = down[b]
        BY <3>1, <3>5, <3>10
      <4> QED
        BY <2>1, <2>2, <4>1, QuietElsewhere DEF KeyInv
    <3> QED
      BY <3>9, <3>10, QuietEverywhere DEF KeyInv
  <2> QED
    BY <2>3, <2>4
<1> QED
  BY <1>1, <1>2, <1>3 DEF UiTaskStep

\* A message is taken: it leaves its place for an entry or an answer.
LEMMA KeysMessage ==
  ASSUME TypeOK, KeyInv, NEW b \in Browsers, BrowserMessageStep(b)
  PROVE  KeysUnique' /\ DeadIsEmpty'
<1> USE DEF browserVars, rendererVars, envVars, history
<1> DEFINE m == Head(up[b])
<1>1. /\ up[b] # <<>> /\ up' = [up EXCEPT ![b] = Tail(up[b])]
      /\ UNCHANGED <<nextReq, requests, rtasks, proc>>
  BY DEF BrowserMessageStep, OnQueryMessage, OnCancelMessage, OnRenderProcessTerminated
<1>t. /\ up \in [Browsers -> Seq(UpMessage)] /\ down \in [Browsers -> Seq(Answer)]
      /\ up[b] \in Seq(UpMessage)
  BY DEF TypeOK
<1>2. /\ m \in Elems(up[b]) /\ m \in UpMessage /\ m = up[b][1]
      /\ Elems(Tail(up[b])) \subseteq Elems(up[b])
  BY <1>1, <1>t, ElemsOfTail
<1>3. /\ up'[b] = Tail(up[b]) /\ Elems(up'[b]) \subseteq Elems(up[b])
      /\ \A a \in Browsers \ {b} : up'[a] = up[a]
  BY <1>1, <1>2, <1>t
<1>4. Len(up[b]) \in Nat \ {0} /\ Len(Tail(up[b])) = Len(up[b]) - 1
  BY <1>1, <1>t, EmptySeq, HeadTailProperties
<1>5. m.type = "gone" <=> (proc[b] = "dead" /\ Len(up[b]) = 1)
  <2> HIDE DEF m
  <2>1. 1 \in 1..Len(up[b])
    BY <1>4
  <2>2. up[b][1].type = "gone" <=> (proc[b] = "dead" /\ 1 = Len(up[b]))
    BY <2>1 DEF KeyInv, GoneIsLast
  <2> QED
    BY <1>2, <2>2
<1>6. proc[b] # "closed"
  BY <1>1 DEF KeyInv, DeadIsEmpty
<1>7. proc[b] # "running" /\ m.type # "gone" => up'[b] # <<>>
  <2>1. proc[b] # "running" => proc[b] = "dead"
    BY <1>6 DEF TypeOK
  <2>2. up'[b] = <<>> => Len(up[b]) = 1
    <3> SUFFICES ASSUME up'[b] = <<>>
                 PROVE  Len(up[b]) = 1
      OBVIOUS
    <3>1. Tail(up[b]) = <<>>
      BY <1>3
    <3>2. Len(Tail(up[b])) = 0
      BY <1>t, <3>1, EmptySeq
    <3> HIDE DEF m
    <3> QED
      BY <1>4, <3>2
  <2> QED
    BY <1>5, <2>1, <2>2
<1> HIDE DEF m
<1>8. ASSUME \A x \in OfBrowser(queries', b) :
                x \in OfBrowser(queries, b) \/ KeyOf(x) \in KeysInFlight(b),
             \A a \in Elems(down'[b]) :
                a \in Elems(down[b]) \/ KeyOf(a) \in KeysInFlight(b),
             proc[b] # "running" => down'[b] = down[b],
             proc[b] # "running" /\ up'[b] = <<>> => OfBrowser(queries', b) = {},
             \A a \in Browsers \ {b} :
                OfBrowser(queries', a) \subseteq OfBrowser(queries, a) /\ down'[a] = down[a]
      PROVE  KeysUnique' /\ DeadIsEmpty'
  <2>1. KeysInFlight(b)' \subseteq KeysInFlight(b)
    <3>1. requests'[b] = requests[b] /\ rtasks'[b] = rtasks[b]
      BY <1>1
    <3> QED
      BY <1>3, <1>8, <3>1, KeysShrink
  <2>2. Quiet(b)
    BY <1>1, <1>6, <1>8, <2>1 DEF Quiet
  <2>3. \A a \in Browsers \ {b} : Quiet(a)
    BY <1>1, <1>3, <1>8, QuietElsewhere DEF KeyInv
  <2> QED
    BY <2>2, <2>3, QuietEverywhere DEF KeyInv
<1>9. CASE OnQueryMessage(b)
  <2>1. m.type = "query"
    BY <1>9 DEF OnQueryMessage, m
  <2>2. KeyOf(m) \in KeysInFlight(b)
    BY <1>2, <2>1, KeysOfPlaces
  <2>3. ASSUME CancelUnhandledQuery(b, m), queries' = queries
        PROVE  KeysUnique' /\ DeadIsEmpty'
    <3>1. AnswerTo(m, FALSE) \in Answer
      BY <1>2, <2>1, AnswersTyped
    <3>2. /\ <<AnswerTo(m, FALSE)>> \in Seq(Answer)
          /\ Elems(<<AnswerTo(m, FALSE)>>) = {AnswerTo(m, FALSE)}
      BY <3>1, ElemsOfSingleton
    <3>3. /\ down'[b] = SendToRenderer(b, <<AnswerTo(m, FALSE)>>)
          /\ \A a \in Browsers \ {b} : down'[a] = down[a]
      BY <1>t, <2>3 DEF CancelUnhandledQuery
    <3>4. /\ Elems(down'[b]) \subseteq Elems(down[b]) \cup {AnswerTo(m, FALSE)}
          /\ proc[b] # "running" => down'[b] = down[b]
      BY <3>2, <3>3, SendTyped
    <3>5. KeyOf(AnswerTo(m, FALSE)) \in KeysInFlight(b)
      BY <2>2, KeyOfAnswer
    <3>6. proc[b] # "running" => up'[b] # <<>>
      BY <1>7, <2>1
    <3> QED
      BY <1>8, <2>3, <3>3, <3>4, <3>5, <3>6 DEF OfBrowser
  <2>4. ASSUME NEW h \in Handlers, AcceptQuery(b, m, h)
        PROVE  KeysUnique' /\ DeadIsEmpty'
    <3> DEFINE x == [id |-> GetNextId(nextQuery), browser |-> b, ctx |-> m.ctx,
                     req |-> m.req, pers |-> m.pers, handler |-> h, q |-> m.q]
    <3>1. queries' = queries \cup {x} /\ down' = down
      BY <2>4 DEF AcceptQuery
    <3>2. x.browser = b /\ KeyOf(x) = KeyOf(m)
      BY DEF KeyOf
    <3> HIDE DEF x
    <3>3. proc[b] # "running" => up'[b] # <<>>
      BY <1>7, <2>1
    <3>4. \A y \in OfBrowser(queries', b) :
             y \in OfBrowser(queries, b) \/ KeyOf(y) \in KeysInFlight(b)
      BY <2>2, <3>1, <3>2 DEF OfBrowser
    <3>5. \A a \in Browsers \ {b} : OfBrowser(queries', a) \subseteq OfBrowser(queries, a)
      BY <3>1, <3>2 DEF OfBrowser
    <3> QED
      BY <1>8, <3>1, <3>3, <3>4, <3>5
  <2> QED
    BY <1>9, <2>3, <2>4 DEF OnQueryMessage, RefuseWithoutHandlers, RefuseByHandlers, m
<1>10. CASE OnCancelMessage(b)
  <2>1. /\ queries' \subseteq queries /\ down' = down
        /\ m.type = "cancel"
    BY <1>10 DEF OnCancelMessage, CancelQueries, m
  <2>2. \A a \in Browsers : OfBrowser(queries', a) \subseteq OfBrowser(queries, a)
    BY <2>1 DEF OfBrowser
  <2>3. proc[b] # "running" => up'[b] # <<>>
    BY <1>7, <2>1
  <2> QED
    BY <1>8, <2>1, <2>2, <2>3
<1>11. CASE OnRenderProcessTerminated(b)
  <2>1. CancelPendingFor(b, None, FALSE)
    BY <1>11 DEF OnRenderProcessTerminated
  <2>2. queries' = queries \ PendingFor(b, None) /\ down' = down
    BY <2>1 DEF CancelPendingFor, CancelQueries
  <2>3. OfBrowser(queries', b) = {}
    BY <2>2 DEF PendingFor, OfBrowser
  <2>4. \A a \in Browsers : OfBrowser(queries', a) \subseteq OfBrowser(queries, a)
    BY <2>2 DEF OfBrowser
  <2> QED
    BY <1>8, <2>2, <2>3, <2>4
<1> QED
  BY <1>9, <1>10, <1>11 DEF BrowserMessageStep

\* Processes die and start, browsers close.  A new process finds nothing of
\* the old one: the notice of its death was the last message processed.
LEMMA KeysEnvironment ==
  ASSUME TypeOK, KeyInv, NEW b \in Browsers,
         \/ OnBeforeBrowse(b) \/ NavigationAborts(b)
         \/ RendererCrash(b) \/ LaunchRenderer(b) \/ OnBeforeClose(b)
  PROVE  KeysUnique' /\ DeadIsEmpty'
<1> USE DEF browserVars, rendererVars, envVars, history
<1>t. /\ proc \in [Browsers -> {"running", "dead", "closed"}]
      /\ up \in [Browsers -> Seq(UpMessage)] /\ down \in [Browsers -> Seq(Answer)]
      /\ rtasks \in [Browsers -> Seq(Answer)] /\ nextReq \in [Browsers -> Nat]
      /\ requests \in [Browsers -> SUBSET Request]
  BY DEF TypeOK
<1>1. ASSUME \A a \in Browsers \ {b} : Quiet(a),
             proc'[b] = "running" => KeysInFlight(b)' = {},
             proc'[b] # "running" =>
               /\ requests'[b] = {} /\ down'[b] = <<>> /\ rtasks'[b] = <<>>
               /\ up'[b] = <<>> => OfBrowser(queries', b) = {}
               /\ proc'[b] = "closed" => up'[b] = <<>>
      PROVE  KeysUnique' /\ DeadIsEmpty'
  <2>1. KeysUnique'
    BY <1>1, QuietKeepsKeys DEF KeysUnique, KeyInv
  <2>2. DeadIsEmpty'
    BY <1>1, QuietKeepsDead DEF DeadIsEmpty, KeyInv
  <2> QED
    BY <2>1, <2>2
<1>2. CASE OnBeforeBrowse(b)
  BY <1>2, KeysCancel DEF OnBeforeBrowse
<1>3. CASE RendererCrash(b)
  <2>1. /\ proc' = [proc EXCEPT ![b] = "dead"]
        /\ ForgetRenderer(b) /\ down' = [down EXCEPT ![b] = <<>>]
        /\ queries' = queries
    BY <1>3 DEF RendererCrash
  <2>2. PICK n \in 0..Len(up[b]) :
          up' = [up EXCEPT ![b] = Append(SubSeq(up[b], 1, n), GoneMsg)]
    BY <1>3 DEF RendererCrash
  <2>3. \A a \in Browsers \ {b} : Quiet(a)
    BY <1>t, <2>1, <2>2, QuietElsewhere DEF ForgetRenderer, KeyInv, OfBrowser
  <2>4. proc'[b] = "dead" /\ requests'[b] = {} /\ down'[b] = <<>> /\ rtasks'[b] = <<>>
    BY <1>t, <2>1 DEF ForgetRenderer
  <2>5. up'[b] # <<>>
    <3>1. up[b] \in Seq(UpMessage) /\ GoneMsg \in UpMessage
      BY <1>t, MessagesTyped
    <3>2. SubSeq(up[b], 1, n) \in Seq(UpMessage)
      BY <3>1, ElemsOfPrefix
    <3>3. Append(SubSeq(up[b], 1, n), GoneMsg) # <<>>
      BY <3>1, <3>2, AppendProperties
    <3> QED
      BY <1>t, <2>2, <3>3
  <2> QED
    BY <1>1, <2>3, <2>4, <2>5
<1>4. CASE LaunchRenderer(b)
  <2>1. /\ proc[b] = "dead" /\ up[b] = <<>>
        /\ proc' = [proc EXCEPT ![b] = "running"]
        /\ UNCHANGED <<queries, nextReq, requests, rtasks, up, down>>
    BY <1>4 DEF LaunchRenderer
  <2>2. \A a \in Browsers \ {b} : Quiet(a)
    BY <1>t, <2>1, QuietElsewhere DEF KeyInv, OfBrowser
  <2>3. /\ requests'[b] = {} /\ down'[b] = <<>> /\ rtasks'[b] = <<>>
        /\ OfBrowser(queries', b) = {} /\ up'[b] = <<>>
    BY <2>1 DEF KeyInv, DeadIsEmpty, OfBrowser
  <2>4. KeysInFlight(b)' = {}
    BY <2>3 DEF KeysInFlight, Elems, OfBrowser
  <2>5. proc'[b] = "running"
    BY <1>t, <2>1
  <2> QED
    BY <1>1, <2>2, <2>4, <2>5
<1>5. CASE OnBeforeClose(b)
  <2>1. /\ proc' = [proc EXCEPT ![b] = "closed"]
        /\ ForgetRenderer(b) /\ queries' = queries \ PendingFor(b, None)
        /\ up' = [up EXCEPT ![b] = <<>>] /\ down' = [down EXCEPT ![b] = <<>>]
    BY <1>5 DEF OnBeforeClose, CancelQueries
  <2>2. \A a \in Browsers \ {b} : Quiet(a)
    BY <1>t, <2>1, QuietElsewhere DEF ForgetRenderer, KeyInv, OfBrowser
  <2>3. /\ proc'[b] = "closed" /\ requests'[b] = {} /\ down'[b] = <<>>
        /\ rtasks'[b] = <<>> /\ up'[b] = <<>>
    BY <1>t, <2>1 DEF ForgetRenderer
  <2>4. OfBrowser(queries', b) = {}
    BY <2>1 DEF PendingFor, OfBrowser
  <2> QED
    BY <1>1, <2>2, <2>3, <2>4
<1>6. CASE NavigationAborts(b)
  <2>1. UNCHANGED <<queries, proc, nextReq, requests, rtasks, up, down>>
    BY <1>6 DEF NavigationAborts
  <2> QED
    BY <2>1 DEF KeyInv, DeadIsEmpty, KeysUnique, KeysInFlight, KeyOf, OfBrowser, Elems
<1> QED
  BY <1>2, <1>3, <1>4, <1>5, <1>6

-----------------------------------------------------------------------------
(* The invariant.                                                          *)

\* Every step does to a browser's messages what UpDelta allows.
LEMMA MessagesMove ==
  ASSUME TypeOK, KeyInv, Next, NEW b \in Browsers
  PROVE  UpDelta(b)
<1> USE DEF browserVars, rendererVars, envVars, history
<1>t. /\ up \in [Browsers -> Seq(UpMessage)]
      /\ proc \in [Browsers -> {"running", "dead", "closed"}]
      /\ requests \in [Browsers -> SUBSET Request]
  BY DEF TypeOK
<1>s. ASSUME UNCHANGED <<up, proc>>
      PROVE  UpDelta(b)
  BY <1>s DEF UpDelta
<1>a. ASSUME NEW a \in Browsers, NEW m \in UpMessage, m.type # "gone",
             proc[a] = "running", UNCHANGED proc,
             up' = up \/ up' = [up EXCEPT ![a] = Append(up[a], m)]
      PROVE  UpDelta(b)
  BY <1>a, <1>t DEF UpDelta
<1>1. CASE RendererStep
  <2>1. ASSUME NEW a \in Browsers, NEW f \in Frames, NEW pers \in Persistence,
               CefQuery(a, f, pers)
        PROVE  UpDelta(b)
    <3> DEFINE r == [ctx |-> IdForContext(a, f), req |-> GetNextId(nextReq[a]),
                     pers |-> pers, q |-> issued + 1]
    <3>1. r \in Request
      <4>0. GetNextId(nextReq[a]) \in Nat
        BY DEF TypeOK, GetNextId
      <4>1. IdForContext(a, f) \in Nat /\ GetNextId(nextReq[a]) \in Nat
        BY <2>1, <4>0, IdsTyped DEF CefQuery
      <4>2. pers \in BOOLEAN
        BY RouterAssumption
      <4>3. issued + 1 \in Uids
        BY <2>1, RouterAssumption DEF TypeOK, CefQuery, Uids
      <4> QED
        BY <4>1, <4>2, <4>3 DEF Request
    <3>2. QueryMsg(r) \in UpMessage /\ QueryMsg(r).type # "gone"
      BY <3>1, MessagesTyped DEF QueryMsg
    <3>3. /\ proc[a] = "running" /\ proc' = proc
          /\ up' = [up EXCEPT ![a] = Append(up[a], QueryMsg(r))]
      BY <2>1 DEF CefQuery
    <3> HIDE DEF r
    <3> QED
      BY <1>a, <3>2, <3>3
  <2>2. ASSUME NEW a \in Browsers, NEW c \in Nat, NEW req \in Nat,
               SendCancel(a, c, req), proc[a] = "running", proc' = proc
        PROVE  UpDelta(b)
    <3>1. CancelMsg(c, req) \in UpMessage /\ CancelMsg(c, req).type # "gone"
      BY MessagesTyped DEF CancelMsg
    <3>2. up' = up \/ up' = [up EXCEPT ![a] = Append(up[a], CancelMsg(c, req))]
      BY <2>2 DEF SendCancel
    <3> QED
      BY <1>a, <2>2, <3>1, <3>2
  <2>3. ASSUME NEW a \in Browsers, NEW f \in Frames, NEW r \in requests[a],
               CefQueryCancel(a, f, r.req)
        PROVE  UpDelta(b)
    <3>1. ctx[a][f] # NoContext
      BY <2>3 DEF CefQueryCancel
    <3>2. r.req \in Nat /\ IdForContext(a, f) \in Nat
      BY <1>t, <3>1, IdsTyped DEF Request
    <3> QED
      BY <2>2, <2>3, <3>2 DEF CefQueryCancel
  <2>4. ASSUME NEW a \in Browsers, NEW f \in Frames, OnContextReleased(a, f)
        PROVE  UpDelta(b)
    <3>1. CASE ctx[a][f] = kReservedId
      BY <1>s, <2>4, <3>1 DEF OnContextReleased
    <3>2. CASE ctx[a][f] # kReservedId
      <4>1. ctx[a][f] \in Nat /\ kReservedId \in Nat
        BY <2>4 DEF TypeOK, OnContextReleased, kReservedId
      <4>2. SendCancel(a, ctx[a][f], kReservedId) /\ proc[a] = "running" /\ proc' = proc
        BY <2>4, <3>2 DEF OnContextReleased
      <4> QED
        BY <2>2, <4>1, <4>2
    <3> QED
      BY <3>1, <3>2
  <2>5. ASSUME NEW a \in Browsers, NEW f \in Frames, OnContextCreated(a, f)
        PROVE  UpDelta(b)
    BY <1>s, <2>5 DEF OnContextCreated
  <2>6. ASSUME NEW a \in Browsers,
               RendererOnProcessMessageReceived(a) \/ ExecuteCallback(a)
        PROVE  UpDelta(b)
    BY <1>s, <2>6 DEF RendererOnProcessMessageReceived, ExecuteCallback
  <2> QED
    BY <1>1, <2>1, <2>3, <2>4, <2>5, <2>6 DEF RendererStep
<1>2. CASE ApplicationStep
  <2>1. UNCHANGED <<up, proc>>
    BY <1>2 DEF ApplicationStep, AddHandler, RemoveHandler, CancelPending,
       PostFromOtherThread, PostSuccess, CallSuccess, CallFailure
  <2> QED
    BY <1>s, <2>1
<1>3. CASE UiTaskStep
  <2>1. UNCHANGED <<up, proc>>
    BY <1>3 DEF UiTaskStep, RunCallback, OnCallback, RunCancelPending
  <2> QED
    BY <1>s, <2>1
<1>4. ASSUME NEW a \in Browsers, BrowserMessageStep(a)
      PROVE  UpDelta(b)
  <2>1. up[a] # <<>> /\ up' = [up EXCEPT ![a] = Tail(up[a])] /\ proc' = proc
    BY <1>4 DEF BrowserMessageStep, OnQueryMessage, OnCancelMessage,
       OnRenderProcessTerminated
  <2> QED
    BY <1>t, <2>1 DEF UpDelta
<1>5. CASE EnvironmentStep
  <2>1. PICK a \in Disturbed : \/ OnBeforeBrowse(a) \/ NavigationAborts(a)
                               \/ RendererCrash(a) \/ LaunchRenderer(a) \/ OnBeforeClose(a)
    BY <1>5 DEF EnvironmentStep
  <2>2. a \in Browsers
    BY RouterAssumption
  <2>3. CASE OnBeforeBrowse(a)
    BY <1>s, <2>3 DEF OnBeforeBrowse
  <2>4. CASE RendererCrash(a)
    <3>1. PICK n \in 0..Len(up[a]) :
            up' = [up EXCEPT ![a] = Append(SubSeq(up[a], 1, n), GoneMsg)]
      BY <2>4 DEF RendererCrash
    <3>2. proc[a] = "running" /\ proc' = [proc EXCEPT ![a] = "dead"]
      BY <2>4 DEF RendererCrash
    <3>3. CASE a = b
      <4>1. proc'[b] = "dead"
        BY <1>t, <3>2, <3>3
      <4>2. up'[b] = Append(SubSeq(up[b], 1, n), GoneMsg)
        BY <1>t, <3>1, <3>3
      <4> QED
        BY <3>2, <3>3, <4>1, <4>2 DEF UpDelta
    <3>4. CASE a # b
      BY <1>t, <2>2, <3>1, <3>2, <3>4 DEF UpDelta
    <3> QED
      BY <3>3, <3>4
  <2>5. CASE LaunchRenderer(a)
    <3>1. up' = up /\ up[a] = <<>> /\ proc' = [proc EXCEPT ![a] = "running"]
      BY <2>5 DEF LaunchRenderer
    <3> QED
      BY <1>t, <2>2, <3>1 DEF UpDelta
  <2>6. CASE OnBeforeClose(a)
    <3>1. up' = [up EXCEPT ![a] = <<>>] /\ proc' = [proc EXCEPT ![a] = "closed"]
      BY <2>6 DEF OnBeforeClose
    <3> QED
      BY <1>t, <2>2, <3>1 DEF UpDelta
  <2>7. CASE NavigationAborts(a)
    BY <1>s, <2>7 DEF NavigationAborts
  <2> QED
    BY <2>1, <2>3, <2>4, <2>5, <2>6, <2>7
<1> QED
  BY <1>1, <1>2, <1>3, <1>4, <1>5 DEF Next

LEMMA KeyInit == Init => KeyInv
<1> SUFFICES ASSUME Init PROVE KeyInv
  OBVIOUS
<1>1. \A b \in Browsers : /\ proc[b] = "running" /\ up[b] = <<>> /\ down[b] = <<>>
                          /\ rtasks[b] = <<>> /\ requests[b] = {} /\ queries = {}
  BY DEF Init
<1>2. \A b \in Browsers : KeysInFlight(b) = {}
  BY <1>1, ElemsOfEmpty DEF KeysInFlight, OfBrowser
<1>3. GoneIsLast
  BY <1>1 DEF GoneIsLast
<1> QED
  BY <1>1, <1>2, <1>3 DEF KeyInv, KeysUnique, DeadIsEmpty

\* KeyInv is inductive relative to TypeOK.
LEMMA KeyStep == TypeOK /\ TypeOK' /\ KeyInv /\ [Next]_vars => KeyInv'
<1> SUFFICES ASSUME TypeOK, TypeOK', KeyInv, [Next]_vars PROVE KeyInv'
  OBVIOUS
<1>1. CASE UNCHANGED vars
  BY <1>1 DEF vars, browserVars, rendererVars, envVars, history, KeyInv, GoneIsLast,
     DeadIsEmpty, KeysUnique, KeysInFlight, KeyOf, OfBrowser, Elems
<1>2. CASE Next
  <2>1. GoneIsLast'
    <3>1. up' \in [Browsers -> Seq(UpMessage)]
      BY DEF TypeOK
    <3>2. \A b \in Browsers : UpDelta(b)
      BY <1>2, MessagesMove
    <3> QED
      BY <3>1, <3>2, GoneStaysLast DEF GoneIsLast, KeyInv
  <2>2. KeysUnique' /\ DeadIsEmpty'
    <3>1. CASE EnvironmentStep
      <4>1. PICK b \in Disturbed : \/ OnBeforeBrowse(b) \/ NavigationAborts(b)
                                   \/ RendererCrash(b) \/ LaunchRenderer(b) \/ OnBeforeClose(b)
        BY <3>1 DEF EnvironmentStep
      <4>2. b \in Browsers
        BY RouterAssumption
      <4> QED
        BY <4>1, <4>2, KeysEnvironment
    <3> QED
      BY <1>2, <3>1, KeysRenderer, KeysApplication, KeysUiTask, KeysMessage DEF Next
  <2> QED
    BY <2>1, <2>2 DEF KeyInv
<1> QED
  BY <1>1, <1>2

\* Two keys with one request id have one query: the answer is the request's.
LEMMA KeysImplyMatch == KeyInv => AnswerMatchesQuery
<1> SUFFICES ASSUME KeyInv, NEW b \in Browsers,
                    NEW a \in Elems(down[b]) \cup Elems(rtasks[b]) \cup OfBrowser(queries, b),
                    NEW r \in requests[b], r.ctx = a.ctx /\ r.req = a.req
             PROVE  r.q = a.q
  BY DEF AnswerMatchesQuery
<1>1. proc[b] = "running"
  BY DEF KeyInv, DeadIsEmpty
<1>2. KeyOf(r) \in KeysInFlight(b) /\ KeyOf(a) \in KeysInFlight(b)
  BY KeysOfPlaces
<1>3. KeyOf(r)[1] = KeyOf(a)[1] => KeyOf(r)[2] = KeyOf(a)[2]
  BY <1>1, <1>2 DEF KeyInv, KeysUnique
<1> QED
  BY <1>3 DEF KeyOf

\* The ids that are about in a browser's half of the router were all drawn by
\* the render process that runs now, each for one query: whatever the order of
\* crashes, restarts, closes and late messages (IdGenerator, 45-61, drawn
\* from 1 again by every process).
THEOREM KeysInvariant == Spec => []KeyInv
<1>1. Init => KeyInv
  BY KeyInit
<1>2. TypeOK /\ TypeOK' /\ KeyInv /\ [Next]_vars => KeyInv'
  BY KeyStep
<1> QED
  BY <1>1, <1>2, TypeCorrect, PTL DEF Spec

\* No answer is ever delivered to, or due to, a query it was not made for:
\* ExecuteSuccessCallback and ExecuteFailureCallback find by (context id,
\* request id) the request that SendQuery made, or none.
THEOREM AnswersMatch == Spec => []AnswerMatchesQuery
<1>1. KeyInv => AnswerMatchesQuery
  BY KeysImplyMatch
<1> QED
  BY <1>1, KeysInvariant, PTL
=============================================================================
