----------------------- MODULE MessageRouterEndsProofs -----------------------
(***************************************************************************)
(* TLAPS proofs that every query ends as the router promises: its page is  *)
(* left with exactly one place that will end it (NoQueryLost), no entry    *)
(* outlives its page unnoticed (OrphanInv), no page hears more than its    *)
(* handler said (HeardInv) or anything after the end (DoneInv), and every  *)
(* step of the router is a step of QueryContract.  Each invariant is       *)
(* inductive relative to those before it and to those of                   *)
(* MessageRouterDeskProofs.                                                *)
(***************************************************************************)
EXTENDS MessageRouterDeskProofs

-----------------------------------------------------------------------------
(* Counting the positions of a sequence.                                   *)

\* The positions of s that hold an element of S.
Hits(s, S) == {i \in DOMAIN s : s[i] \in S}

LEMMA CountTyped ==
  ASSUME NEW T, NEW s \in Seq(T), NEW S
  PROVE  /\ IsFiniteSet(Hits(s, S)) /\ Count(s, S) = Cardinality(Hits(s, S))
         /\ Count(s, S) \in Nat
<1>1. Hits(s, S) \subseteq 1..Len(s) /\ Len(s) \in Nat
  BY LenProperties DEF Hits
<1>2. IsFiniteSet(1..Len(s))
  BY <1>1, FS_Interval
<1>3. IsFiniteSet(Hits(s, S))
  BY <1>1, <1>2, FS_Subset
<1> QED BY <1>3, FS_CardinalityType DEF Count, Hits

LEMMA CountOfAppend ==
  ASSUME NEW T, NEW s \in Seq(T), NEW e \in T, NEW S
  PROVE  Count(Append(s, e), S) = Count(s, S) + (IF e \in S THEN 1 ELSE 0)
<1>1. /\ Append(s, e) \in Seq(T) /\ Len(Append(s, e)) = Len(s) + 1
      /\ \A i \in 1..Len(s) : Append(s, e)[i] = s[i]
      /\ Append(s, e)[Len(s) + 1] = e
  BY AppendProperties
<1>2. DOMAIN s = 1..Len(s) /\ Len(s) \in Nat
  BY LenProperties
<1>3. DOMAIN Append(s, e) = 1..(Len(s) + 1)
  BY <1>1, <1>2, LenProperties
<1>4. Hits(Append(s, e), S) = Hits(s, S) \cup (IF e \in S THEN {Len(s) + 1} ELSE {})
  BY <1>1, <1>2, <1>3 DEF Hits
<1>5. Len(s) + 1 \notin Hits(s, S)
  BY <1>2 DEF Hits
<1>6. /\ IsFiniteSet(Hits(s, S)) /\ Count(s, S) = Cardinality(Hits(s, S)) /\ Count(s, S) \in Nat
      /\ Count(Append(s, e), S) = Cardinality(Hits(Append(s, e), S))
  BY <1>1, CountTyped
<1>7. CASE e \in S
  <2>1. Cardinality(Hits(s, S) \cup {Len(s) + 1}) = Cardinality(Hits(s, S)) + 1
    BY <1>5, <1>6, FS_AddElement
  <2> QED BY <1>4, <1>6, <1>7, <2>1
<1>8. CASE e \notin S
  BY <1>4, <1>6, <1>8
<1> QED BY <1>7, <1>8

LEMMA CountOfConcat ==
  ASSUME NEW T, NEW s \in Seq(T), NEW t \in Seq(T), NEW S
  PROVE  Count(s \o t, S) = Count(s, S) + Count(t, S)
<1>1. /\ s \o t \in Seq(T) /\ Len(s \o t) = Len(s) + Len(t)
      /\ \A i \in 1..Len(s) + Len(t) :
            (s \o t)[i] = IF i <= Len(s) THEN s[i] ELSE t[i - Len(s)]
  BY ConcatProperties
<1>2. DOMAIN s = 1..Len(s) /\ DOMAIN t = 1..Len(t) /\ Len(s) \in Nat /\ Len(t) \in Nat
  BY LenProperties
<1>3. DOMAIN (s \o t) = 1..(Len(s) + Len(t))
  BY <1>1, <1>2, LenProperties
<1> DEFINE moved == {i \in 1..(Len(s) + Len(t)) : i > Len(s) /\ (s \o t)[i] \in S}
           f == [i \in Hits(t, S) |-> i + Len(s)]
<1>4. Hits(s \o t, S) = Hits(s, S) \cup moved
  BY <1>1, <1>2, <1>3 DEF Hits
<1>5. Hits(s, S) \cap moved = {}
  BY <1>2 DEF Hits
<1>6. f \in [Hits(t, S) -> moved]
  <2>1. ASSUME NEW i \in Hits(t, S) PROVE i + Len(s) \in moved
    <3>1. i \in 1..Len(t) /\ t[i] \in S
      BY <1>2 DEF Hits
    <3>2. i + Len(s) \in 1..(Len(s) + Len(t)) /\ i + Len(s) > Len(s) /\ (i + Len(s)) - Len(s) = i
      BY <1>2, <3>1
    <3>3. (s \o t)[i + Len(s)] = t[i]
      BY <1>1, <1>2, <3>2
    <3> QED BY <3>1, <3>2, <3>3
  <2> QED BY <2>1
<1>7. \A i, j \in Hits(t, S) : f[i] = f[j] => i = j
  <2>1. Hits(t, S) \subseteq Nat
    BY <1>2 DEF Hits
  <2> QED BY <1>2, <2>1
<1>8. \A k \in moved : \E i \in Hits(t, S) : f[i] = k
  <2> SUFFICES ASSUME NEW k \in moved PROVE \E i \in Hits(t, S) : f[i] = k
    OBVIOUS
  <2>1. k - Len(s) \in 1..Len(t) /\ (k - Len(s)) + Len(s) = k
    BY <1>2
  <2>2. t[k - Len(s)] \in S
    BY <1>1, <1>2
  <2>3. k - Len(s) \in Hits(t, S)
    BY <1>2, <2>1, <2>2 DEF Hits
  <2> QED BY <2>1, <2>3
<1>9. ExistsBijection(Hits(t, S), moved)
  <2> HIDE DEF f, moved
  <2>1. f \in Injection(Hits(t, S), moved) /\ f \in Surjection(Hits(t, S), moved)
    BY <1>6, <1>7, <1>8 DEF Injection, Surjection, IsInjective
  <2> QED BY <2>1 DEF ExistsBijection, Bijection
<1> HIDE DEF f, moved
<1>10. /\ IsFiniteSet(Hits(s, S)) /\ Count(s, S) = Cardinality(Hits(s, S)) /\ Count(s, S) \in Nat
       /\ IsFiniteSet(Hits(t, S)) /\ Count(t, S) = Cardinality(Hits(t, S)) /\ Count(t, S) \in Nat
       /\ Count(s \o t, S) = Cardinality(Hits(s \o t, S))
  BY <1>1, CountTyped
<1>11. IsFiniteSet(moved) /\ Cardinality(moved) = Count(t, S)
  BY <1>9, <1>10, FS_Bijection
<1>12. Cardinality(Hits(s, S) \cup moved)
         = Cardinality(Hits(s, S)) + Cardinality(moved) - Cardinality(Hits(s, S) \cap moved)
  BY <1>10, <1>11, FS_Union
<1>13. Cardinality(Hits(s, S) \cap moved) = 0
  BY <1>5, FS_EmptySet
<1> QED BY <1>4, <1>10, <1>11, <1>12, <1>13

LEMMA CountNone ==
  ASSUME NEW T, NEW s \in Seq(T), NEW S
  PROVE  Count(s, S) = 0 <=> \A e \in Elems(s) : e \notin S
<1>1. IsFiniteSet(Hits(s, S)) /\ Count(s, S) = Cardinality(Hits(s, S))
  BY CountTyped
<1>2. Count(s, S) = 0 <=> Hits(s, S) = {}
  BY <1>1, FS_EmptySet
<1> QED BY <1>2 DEF Hits, Elems

LEMMA CountOnce ==
  ASSUME NEW T, NEW s \in Seq(T), NEW S, NEW i \in DOMAIN s, s[i] \in S,
         \A j \in DOMAIN s : s[j] \in S => j = i
  PROVE  Count(s, S) = 1
<1>1. Hits(s, S) = {i}
  BY DEF Hits
<1>2. Count(s, S) = Cardinality(Hits(s, S))
  BY CountTyped
<1>3. Cardinality({i}) = 1
  BY FS_Singleton
<1> QED BY <1>1, <1>2, <1>3

LEMMA CountOfSingleton ==
  ASSUME NEW T, NEW e \in T, NEW S
  PROVE  <<e>> \in Seq(T) /\ Count(<<e>>, S) = IF e \in S THEN 1 ELSE 0
<1>1. <<e>> \in Seq(T) /\ Elems(<<e>>) = {e}
  BY ElemsOfSingleton
<1>2. CASE e \in S
  <2>1. 1 \in DOMAIN <<e>> /\ <<e>>[1] = e /\ \A j \in DOMAIN <<e>> : j = 1
    OBVIOUS
  <2>2. Count(<<e>>, S) = 1
    BY <1>1, <1>2, <2>1, CountOnce
  <2> QED BY <1>1, <1>2, <2>2
<1>3. CASE e \notin S
  BY <1>1, <1>3, CountNone
<1> QED BY <1>2, <1>3

LEMMA CountOfTail ==
  ASSUME NEW T, NEW s \in Seq(T), s # <<>>, NEW S
  PROVE  Count(s, S) = Count(Tail(s), S) + (IF Head(s) \in S THEN 1 ELSE 0)
<1>1. Head(s) \in T /\ Tail(s) \in Seq(T) /\ s = <<Head(s)>> \o Tail(s)
  <2>1. /\ Head(s) \in T /\ Tail(s) \in Seq(T) /\ Len(Tail(s)) = Len(s) - 1
        /\ \A i \in 1..Len(Tail(s)) : Tail(s)[i] = s[i + 1]
    BY HeadTailProperties
  <2>2. Len(s) \in Nat \ {0} /\ Head(s) = s[1] /\ <<Head(s)>> \in Seq(T) /\ Len(<<Head(s)>>) = 1
    BY <2>1, LenProperties, EmptySeq
  <2> DEFINE u == <<Head(s)>>
  <2>3. u \in Seq(T) /\ Len(u) = 1 /\ u[1] = s[1]
    BY <2>2
  <2> HIDE DEF u
  <2>4. /\ u \o Tail(s) \in Seq(T) /\ Len(u \o Tail(s)) = Len(s)
        /\ \A i \in 1..Len(s) : (u \o Tail(s))[i] = IF i <= 1 THEN u[i] ELSE Tail(s)[i - 1]
    <3>1. /\ u \o Tail(s) \in Seq(T) /\ Len(u \o Tail(s)) = Len(u) + Len(Tail(s))
          /\ \A i \in 1..Len(u) + Len(Tail(s)) : (u \o Tail(s))[i] =
                 IF i <= Len(u) THEN u[i] ELSE Tail(s)[i - Len(u)]
      <4>1. u \in Seq(T) /\ Tail(s) \in Seq(T)
        BY <2>1, <2>3
      <4> QED BY <4>1, ConcatProperties
    <3>2. Len(u) + Len(Tail(s)) = Len(s)
      <4>1. Len(s) \in Nat
        BY <2>2
      <4> QED BY <2>1, <2>3, <4>1
    <3> QED BY <2>3, <3>1, <3>2
  <2>5. \A i \in 1..Len(s) : (u \o Tail(s))[i] = s[i]
    <3> SUFFICES ASSUME NEW i \in 1..Len(s) PROVE (u \o Tail(s))[i] = s[i]
      OBVIOUS
    <3>1. CASE i = 1
      BY <2>3, <2>4, <3>1
    <3>2. CASE i > 1
      <4>1. i - 1 \in 1..Len(Tail(s)) /\ (i - 1) + 1 = i /\ ~(i <= 1)
        BY <2>1, <2>2, <3>2
      <4>2. Tail(s)[i - 1] = s[(i - 1) + 1]
        BY <2>1, <4>1
      <4>3. (u \o Tail(s))[i] = Tail(s)[i - 1]
        BY <2>4, <4>1
      <4> QED BY <4>1, <4>2, <4>3
    <3>3. i = 1 \/ i > 1
      OBVIOUS
    <3> QED BY <3>1, <3>2, <3>3
  <2>6. u \o Tail(s) = s
    BY <2>4, <2>5, SeqEqual
  <2> QED BY <2>1, <2>6 DEF u
<1>2. <<Head(s)>> \in Seq(T) /\ Count(<<Head(s)>>, S) = IF Head(s) \in S THEN 1 ELSE 0
  BY <1>1, CountOfSingleton
<1>3. Count(<<Head(s)>> \o Tail(s), S) = Count(<<Head(s)>>, S) + Count(Tail(s), S)
  BY <1>1, <1>2, CountOfConcat
<1>4. Count(Tail(s), S) \in Nat
  BY <1>1, CountTyped
<1>5. Count(s, S) = Count(<<Head(s)>>, S) + Count(Tail(s), S)
  BY <1>1, <1>3
<1>6. CASE Head(s) \in S
  <2>1. Count(<<Head(s)>>, S) = 1
    BY <1>2, <1>6
  <2> QED BY <1>4, <1>5, <1>6, <2>1
<1>7. CASE Head(s) \notin S
  <2>1. Count(<<Head(s)>>, S) = 0
    BY <1>2, <1>7
  <2> QED BY <1>4, <1>5, <1>7, <2>1
<1> QED BY <1>6, <1>7

-----------------------------------------------------------------------------
(* No query is lost: the places that will end a request.                   *)

\* The entries of b for query q, of which there is one at most.
Held(b, q) == {x \in Entries(b) : x.q = q}
HeldCount(b, q) == IF Held(b, q) = {} THEN 0 ELSE 1
Ways(b, r) == MessagesFor(b, r) + HeldCount(b, r.q) + RepliesFor(b, r)

LEMMA HeldOnce ==
  ASSUME TypeOK, DeskInv, NEW b \in Browsers, NEW q, NEW x \in Held(b, q), NEW y \in Held(b, q)
  PROVE  x = y
<1>1. x \in queries /\ y \in queries /\ x.q = q /\ y.q = q
  BY EntriesTyped DEF Held
<1>2. CallbackOf(x) \in callbacks /\ CallbackOf(y) \in callbacks
  BY <1>1 DEF DeskInv
<1>3. CallbackOf(x).q = CallbackOf(y).q /\ CallbackOf(x).id = x.id /\ CallbackOf(y).id = y.id
  BY <1>1 DEF CallbackOf
<1>4. CallbackOf(x) = CallbackOf(y)
  BY <1>2, <1>3 DEF DeskInv
<1> QED BY <1>1, <1>3, <1>4 DEF DeskInv

\* An entry is answered by its live callback or by a task that is posted.
LEMMA WaysArePlaces ==
  ASSUME TypeOK, DeskInv, TasksInv, NEW b \in Browsers, NEW r \in requests[b]
  PROVE  PlacesFor(b, r) = Ways(b, r) /\ Ways(b, r) \in Nat
         /\ MessagesFor(b, r) \in Nat /\ RepliesFor(b, r) \in Nat
<1> DEFINE E == {x \in OfBrowser(queries, b) : x.q = r.q /\ x.id \in attached}
           P == {x \in OfBrowser(queries, b) :
                   /\ x.q = r.q /\ x.id \notin attached
                   /\ \E t \in Elems(uiTasks) :
                        t.id = x.id /\ t.kind \in {"OnCallbackSuccess", "OnCallbackFailure"}}
<1>1. \A x \in Held(b, r.q) : x \in E \/ x \in P
  <2> SUFFICES ASSUME NEW x \in Held(b, r.q), x.id \notin attached PROVE x \in P
    BY DEF Held, Entries
  <2>1. x \in queries /\ x \in OfBrowser(queries, b) /\ x.q = r.q
    BY EntriesTyped DEF Held, Entries
  <2>2. PICK t \in Elems(uiTasks) : Ends(t, x)
    BY <2>1 DEF TasksInv
  <2> QED BY <2>1, <2>2 DEF Ends
<1>2. E \subseteq Held(b, r.q) /\ P \subseteq Held(b, r.q) /\ E \cap P = {}
  BY DEF Held, Entries
<1>3. EntriesFor(b, r) = Cardinality(E) /\ PostedAnswersFor(b, r) = Cardinality(P)
  BY DEF EntriesFor, PostedAnswersFor
<1> HIDE DEF E, P
<1>4. Cardinality(E) + Cardinality(P) = HeldCount(b, r.q)
  <2>1. CASE Held(b, r.q) = {}
    <3>1. E = {} /\ P = {}
      BY <1>2, <2>1
    <3> QED BY <2>1, <3>1, FS_EmptySet DEF HeldCount
  <2>2. ASSUME NEW x \in Held(b, r.q) PROVE Cardinality(E) + Cardinality(P) = HeldCount(b, r.q)
    <3>1. Held(b, r.q) = {x}
      BY HeldOnce
    <3>2. HeldCount(b, r.q) = 1 /\ Cardinality({x}) = 1 /\ Cardinality({}) = 0
      BY <3>1, FS_EmptySet, FS_Singleton DEF HeldCount
    <3>3. (E = {x} /\ P = {}) \/ (E = {} /\ P = {x})
      BY <1>1, <1>2, <3>1
    <3> QED BY <3>2, <3>3
  <2> QED BY <2>1, <2>2
<1>5. MessagesFor(b, r) \in Nat /\ RepliesFor(b, r) \in Nat
  <2>1. up[b] \in Seq(UpMessage) /\ down[b] \in Seq(Answer) /\ rtasks[b] \in Seq(Answer)
    BY DEF TypeOK
  <2>2. Count(up[b], {QueryMsg(r)}) \in Nat /\ Count(down[b], LastAnswers(r)) \in Nat
        /\ Count(rtasks[b], LastAnswers(r)) \in Nat
    BY <2>1, CountTyped
  <2> QED BY <2>2 DEF MessagesFor, RepliesFor
<1>6. HeldCount(b, r.q) \in Nat
  BY DEF HeldCount
<1>7. Cardinality(E) \in Nat /\ Cardinality(P) \in Nat
  <2>1. IsFiniteSet(E) /\ IsFiniteSet(P)
    <3>1. Held(b, r.q) \in SUBSET Entries(b)
      BY DEF Held
    <3>2. IsFiniteSet(Held(b, r.q))
      BY <3>1, EntriesTyped
    <3> QED BY <1>2, <3>2, FS_Subset
  <2> QED BY <2>1, FS_CardinalityType
<1> QED BY <1>3, <1>4, <1>5, <1>6, <1>7 DEF PlacesFor, Ways

\* What bears the query of an open request is of its browser and made for it.
LEMMA MatchesRequest ==
  ASSUME TypeOK, AgreeInv, NEW b \in Browsers, NEW r \in requests[b], NEW c \in Browsers
  PROVE  /\ \A x \in Entries(c) : x.q = r.q =>
              c = b /\ x.ctx = r.ctx /\ x.req = r.req /\ x.pers = r.pers
         /\ \A m \in QueriesSent(c) : m.q = r.q => c = b /\ m = QueryMsg(r)
         /\ \A s \in requests[c] : s.q = r.q => c = b /\ s = r
         /\ \A a \in Elems(down[c]) \cup Elems(rtasks[c]) : a.q = r.q =>
              c = b /\ a.ctx = r.ctx /\ a.req = r.req
<1>1. /\ \A s \in Stamps(c) : s[3] = r.q => c = b /\ s = Stamp(r)
      /\ \A p \in PersStamps(c) : p[1] = r.q => p[2] = r.pers
  BY DEF AgreeInv
<1>2. \A y : Stamp(y)[3] = y.q /\ (Stamp(y) = Stamp(r) => y.ctx = r.ctx /\ y.req = r.req)
             /\ PersOf(y)[1] = y.q /\ PersOf(y)[2] = y.pers
  BY DEF Stamp, PersOf
<1>3. \A y \in requests[c] \cup Entries(c) \cup QueriesSent(c) : y.q = r.q =>
        c = b /\ y.ctx = r.ctx /\ y.req = r.req /\ y.pers = r.pers
  <2> SUFFICES ASSUME NEW y \in requests[c] \cup Entries(c) \cup QueriesSent(c), y.q = r.q
               PROVE  c = b /\ y.ctx = r.ctx /\ y.req = r.req /\ y.pers = r.pers
    OBVIOUS
  <2>1. Stamp(y) \in Stamps(c) /\ PersOf(y) \in PersStamps(c)
    BY DEF Stamps, PersStamps
  <2> QED BY <1>1, <1>2, <2>1
<1>4. \A a \in Elems(down[c]) \cup Elems(rtasks[c]) : a.q = r.q =>
        c = b /\ a.ctx = r.ctx /\ a.req = r.req
  <2> SUFFICES ASSUME NEW a \in Elems(down[c]) \cup Elems(rtasks[c]), a.q = r.q
               PROVE  c = b /\ a.ctx = r.ctx /\ a.req = r.req
    OBVIOUS
  <2>1. Stamp(a) \in Stamps(c)
    BY DEF Stamps
  <2> QED BY <1>1, <1>2, <2>1
<1>5. \A m \in QueriesSent(c) : m.q = r.q => m = QueryMsg(r)
  <2> SUFFICES ASSUME NEW m \in QueriesSent(c), m.q = r.q PROVE m = QueryMsg(r)
    OBVIOUS
  <2>1. m \in UpMessage /\ m.type = "query"
    BY MessageParts DEF QueriesSent
  <2>2. m.ctx = r.ctx /\ m.req = r.req /\ m.pers = r.pers
    BY <1>3
  <2> QED BY <2>1, <2>2 DEF UpMessage, QueryMsg
<1>6. \A s \in requests[c] : s.q = r.q => s = r
  <2> SUFFICES ASSUME NEW s \in requests[c], s.q = r.q PROVE s = r
    OBVIOUS
  <2>1. s \in Request /\ r \in Request
    BY RequestParts
  <2>2. s.ctx = r.ctx /\ s.req = r.req /\ s.pers = r.pers
    BY <1>3
  <2> QED BY <2>1, <2>2 DEF Request
<1> QED BY <1>3, <1>4, <1>5, <1>6

LEMMA LastAnswersAre ==
  ASSUME NEW r
  PROVE  /\ \A a \in LastAnswers(r) : a.q = r.q /\ a.ctx = r.ctx /\ a.req = r.req /\ (~a.ok \/ ~r.pers)
         /\ \A ok \in BOOLEAN : AnswerTo(r, ok) \in LastAnswers(r) <=> ~ok \/ ~r.pers
<1>1. \A ok : /\ AnswerTo(r, ok).q = r.q /\ AnswerTo(r, ok).ctx = r.ctx
               /\ AnswerTo(r, ok).req = r.req /\ AnswerTo(r, ok).ok = ok
  BY DEF AnswerTo
<1>2. \A a \in LastAnswers(r) : a = AnswerTo(r, FALSE) \/ (a = AnswerTo(r, TRUE) /\ ~r.pers)
  BY DEF LastAnswers
<1>3. AnswerTo(r, FALSE) \in LastAnswers(r) /\ (~r.pers => AnswerTo(r, TRUE) \in LastAnswers(r))
  BY DEF LastAnswers
<1>4. \A a \in LastAnswers(r) : a.q = r.q /\ a.ctx = r.ctx /\ a.req = r.req
  BY <1>1, <1>2
<1>5. \A a \in LastAnswers(r) : a.ok => ~r.pers
  BY <1>1, <1>2
<1>6. AnswerTo(r, TRUE) \in LastAnswers(r) => ~r.pers
  BY <1>1, <1>5
<1>7. \A ok \in BOOLEAN : AnswerTo(r, ok) \in LastAnswers(r) <=> ~ok \/ ~r.pers
  BY <1>3, <1>6
<1> QED BY <1>4, <1>5, <1>7

LEMMA SameAnswer ==
  ASSUME NEW x, NEW r, x.ctx = r.ctx, x.req = r.req, x.q = r.q, NEW ok
  PROVE  AnswerTo(x, ok) = AnswerTo(r, ok)
  BY DEF AnswerTo

LEMMA SentCount ==
  ASSUME TypeOK, NEW b \in Browsers, proc[b] = "running", NEW s \in Seq(Answer),
         down'[b] = SendToRenderer(b, s), NEW S
  PROVE  Count(down'[b], S) = Count(down[b], S) + Count(s, S)
<1>1. down'[b] = down[b] \o s /\ down[b] \in Seq(Answer)
  BY DEF SendToRenderer, TypeOK
<1> QED BY <1>1, CountOfConcat

\* The parts of Ways before and after a step.
LEMMA WaysParts ==
  ASSUME NEW b \in Browsers, NEW r
  PROVE  /\ Ways(b, r) = Count(up[b], {QueryMsg(r)}) + HeldCount(b, r.q)
                           + (Count(down[b], LastAnswers(r)) + Count(rtasks[b], LastAnswers(r)))
         /\ Ways(b, r)' = Count(up'[b], {QueryMsg(r)}) + HeldCount(b, r.q)'
                           + (Count(down'[b], LastAnswers(r)) + Count(rtasks'[b], LastAnswers(r)))
<1>1. LastAnswers(r)' = LastAnswers(r) /\ QueryMsg(r)' = QueryMsg(r)
  BY DEF LastAnswers, AnswerTo, QueryMsg
<1> QED BY <1>1 DEF Ways, MessagesFor, RepliesFor

LEMMA WaysTyped ==
  ASSUME TypeOK, NEW b \in Browsers, NEW r
  PROVE  /\ Count(up[b], {QueryMsg(r)}) \in Nat /\ HeldCount(b, r.q) \in {0, 1}
         /\ Count(down[b], LastAnswers(r)) \in Nat /\ Count(rtasks[b], LastAnswers(r)) \in Nat
<1>1. up[b] \in Seq(UpMessage) /\ down[b] \in Seq(Answer) /\ rtasks[b] \in Seq(Answer)
  BY DEF TypeOK
<1>2. HeldCount(b, r.q) \in {0, 1}
  BY DEF HeldCount
<1> QED BY <1>1, <1>2, CountTyped

\* Taking a message that is not r's query.
LEMMA MessageTaken ==
  ASSUME TypeOK, NEW b \in Browsers, NEW type, TakesMessage(b, type), NEW r
  PROVE  /\ Head(up[b]) \in Elems(up[b]) /\ Head(up[b]).type = type
         /\ Count(up[b], {QueryMsg(r)})
              = Count(up'[b], {QueryMsg(r)}) + (IF Head(up[b]) = QueryMsg(r) THEN 1 ELSE 0)
         /\ type # "query" => Head(up[b]) # QueryMsg(r)
<1>1. up[b] \in Seq(UpMessage) /\ up[b] # <<>> /\ Head(up[b]).type = type /\ up'[b] = Tail(up[b])
  BY DEF TypeOK, TakesMessage
<1>2. Head(up[b]) \in Elems(up[b])
  BY <1>1, ElemsOfTail
<1>3. Count(up[b], {QueryMsg(r)})
        = Count(Tail(up[b]), {QueryMsg(r)}) + (IF Head(up[b]) \in {QueryMsg(r)} THEN 1 ELSE 0)
  BY <1>1, CountOfTail
<1>4. Head(up[b]) \in {QueryMsg(r)} <=> Head(up[b]) = QueryMsg(r)
  OBVIOUS
<1>5. QueryMsg(r).type = "query"
  BY DEF QueryMsg
<1> QED BY <1>1, <1>2, <1>3, <1>4, <1>5

\* The failures sent for a batch of entries name each of them once.
LEMMA BatchCount ==
  ASSUME TypeOK, DeskInv, NEW b \in Browsers, NEW S \in SUBSET Entries(b), NEW batch \in FailuresOf(S),
         NEW x \in S, NEW A, AnswerTo(x, FALSE) \in A,
         \A y \in S : AnswerTo(y, FALSE) \in A => y = x
  PROVE  Count(batch, A) = 1
<1>0. S \in SUBSET QueryInfo /\ IsFiniteSet(S) /\ Cardinality(S) \in Nat
  BY EntriesTyped, FS_CardinalityType
<1>1. PICK s \in InIdOrder(S) : batch = [i \in 1..Cardinality(S) |-> AnswerTo(s[i], FALSE)]
  BY DEF FailuresOf
<1>2. /\ s \in [1..Cardinality(S) -> S]
      /\ \A i, j \in 1..Cardinality(S) : i < j => s[i].id < s[j].id
  BY DEF InIdOrder
<1>3. \A i, j \in 1..Cardinality(S) : s[i] = s[j] => i = j
  <2> SUFFICES ASSUME NEW i \in 1..Cardinality(S), NEW j \in 1..Cardinality(S), s[i] = s[j], i # j
               PROVE  FALSE
    OBVIOUS
  <2>1. s[i] \in QueryInfo
    BY <1>0, <1>2
  <2>2. s[i].id \in Nat
    BY <2>1 DEF QueryInfo
  <2>3. i < j \/ j < i
    OBVIOUS
  <2>4. s[i].id < s[j].id \/ s[j].id < s[i].id
    BY <1>2, <2>3
  <2> QED BY <2>2, <2>4
<1>4. s \in Surjection(1..Cardinality(S), S)
  <2>1. s \in Injection(1..Cardinality(S), S)
    BY <1>2, <1>3 DEF Injection, IsInjective
  <2>2. Cardinality(1..Cardinality(S)) = Cardinality(S)
    BY <1>0, FS_Interval
  <2> QED BY <1>0, <2>1, <2>2, FS_Injection
<1>5. PICK i \in 1..Cardinality(S) : s[i] = x
  BY <1>4 DEF Surjection
<1>6. batch \in Seq(Answer)
  BY <1>0, FailuresTyped
<1>7. DOMAIN batch = 1..Cardinality(S) /\ \A j \in 1..Cardinality(S) : batch[j] = AnswerTo(s[j], FALSE)
  BY <1>1
<1>8. batch[i] \in A /\ \A j \in DOMAIN batch : batch[j] \in A => j = i
  BY <1>2, <1>3, <1>5, <1>7
<1> QED BY <1>6, <1>7, <1>8, CountOnce

\* A page that waits is a running process's.
LEMMA WaitingRuns ==
  ASSUME TypeOK, KeyInv, NEW b \in Browsers, NEW r \in requests[b]
  PROVE  proc[b] = "running"
  BY DEF KeyInv, DeadIsEmpty

\* Entries that are canceled: r's own turns into its failure.
LEMMA CancelsWays ==
  ASSUME TypeOK, KeyInv, DeskInv, AgreeInv, NEW b \in Browsers, NEW r \in requests[b],
         CancelsEntries(b)
  PROVE  Ways(b, r)' = Ways(b, r)
<1>1. PICK S \in SUBSET Entries(b) :
        /\ Entries(b)' = Entries(b) \ S
        /\ \E batch \in FailuresOf(S) : down'[b] = SendToRenderer(b, batch)
  BY DEF CancelsEntries
<1>2. PICK batch \in FailuresOf(S) : down'[b] = SendToRenderer(b, batch)
  BY <1>1
<1>3. batch \in Seq(Answer) /\ \A e \in Elems(batch) : \E x \in S : e = AnswerTo(x, FALSE)
  BY EntriesTyped, FailuresTyped
<1>4. Count(down'[b], LastAnswers(r)) = Count(down[b], LastAnswers(r)) + Count(batch, LastAnswers(r))
  BY <1>2, <1>3, WaitingRuns, SentCount
<1>5. up'[b] = up[b] /\ rtasks'[b] = rtasks[b]
  BY DEF CancelsEntries, SamePage, SameUp
<1>6. \A x \in S : AnswerTo(x, FALSE) \in LastAnswers(r) <=> x.q = r.q
  <2> SUFFICES ASSUME NEW x \in S PROVE AnswerTo(x, FALSE) \in LastAnswers(r) <=> x.q = r.q
    OBVIOUS
  <2>1. AnswerTo(x, FALSE).q = x.q
    BY DEF AnswerTo
  <2>2. ASSUME x.q = r.q PROVE AnswerTo(x, FALSE) = AnswerTo(r, FALSE)
    <3>1. x \in Entries(b)
      OBVIOUS
    <3>2. x.ctx = r.ctx /\ x.req = r.req
      BY <2>2, <3>1, MatchesRequest
    <3> QED BY <2>2, <3>2, SameAnswer
  <2> QED BY <2>1, <2>2, LastAnswersAre
<1>7. Count(batch, LastAnswers(r)) + HeldCount(b, r.q)' = HeldCount(b, r.q)
  <2>1. ASSUME NEW x \in S, x.q = r.q
        PROVE  Count(batch, LastAnswers(r)) + HeldCount(b, r.q)' = HeldCount(b, r.q)
    <3>1. x \in Held(b, r.q)
      BY <2>1 DEF Held
    <3>2. \A y \in S : y.q = r.q => y = x
      BY <2>1, <3>1, HeldOnce DEF Held
    <3>3. Count(batch, LastAnswers(r)) = 1
      BY <1>6, <2>1, <3>2, BatchCount
    <3>4. \A y \in Held(b, r.q) : y = x
      BY <3>1, HeldOnce
    <3>5. Held(b, r.q)' = {}
      BY <1>1, <3>4 DEF Held
    <3> QED BY <3>1, <3>3, <3>5 DEF HeldCount
  <2>2. CASE \A x \in S : x.q # r.q
    <3>0. \A e \in Elems(batch) : e \notin LastAnswers(r)
      BY <1>3, <1>6, <2>2
    <3>1. Count(batch, LastAnswers(r)) = 0
      <4>1. batch \in Seq(Answer)
        BY <1>3
      <4> QED BY <3>0, <4>1, CountNone
    <3>2. Held(b, r.q)' = Held(b, r.q)
      BY <1>1, <2>2 DEF Held
    <3> QED BY <3>1, <3>2 DEF HeldCount
  <2> QED BY <2>1, <2>2
<1>8. Count(batch, LastAnswers(r)) \in Nat
  BY <1>3, CountTyped
<1>9. HeldCount(b, r.q)' \in {0, 1}
  BY DEF HeldCount
<1>10. /\ Ways(b, r) = Count(up[b], {QueryMsg(r)}) + HeldCount(b, r.q)
                          + (Count(down[b], LastAnswers(r)) + Count(rtasks[b], LastAnswers(r)))
       /\ Ways(b, r)' = Count(up'[b], {QueryMsg(r)}) + HeldCount(b, r.q)'
                          + (Count(down'[b], LastAnswers(r)) + Count(rtasks'[b], LastAnswers(r)))
  BY WaysParts
<1>11. /\ Count(up[b], {QueryMsg(r)}) \in Nat /\ HeldCount(b, r.q) \in {0, 1}
       /\ Count(down[b], LastAnswers(r)) \in Nat /\ Count(rtasks[b], LastAnswers(r)) \in Nat
  BY WaysTyped
<1> QED BY <1>4, <1>5, <1>7, <1>8, <1>9, <1>10, <1>11

\* A posted answer is sent: r's last one leaves with its entry.
LEMMA AnswersWays ==
  ASSUME TypeOK, KeyInv, DeskInv, AgreeInv, NEW b \in Browsers, NEW r \in requests[b],
         AnswersEntry(b)
  PROVE  Ways(b, r)' = Ways(b, r)
<1>1. PICK x \in Entries(b), ok \in BOOLEAN :
        /\ Entries(b)' = IF ok /\ x.pers THEN Entries(b) ELSE Entries(b) \ {x}
        /\ down'[b] = SendToRenderer(b, <<AnswerTo(x, ok)>>)
  BY DEF AnswersEntry
<1>2. AnswerTo(x, ok) \in Answer
  BY EntriesTyped, AnswersTyped
<1>3. /\ <<AnswerTo(x, ok)>> \in Seq(Answer)
      /\ Count(<<AnswerTo(x, ok)>>, LastAnswers(r)) = IF AnswerTo(x, ok) \in LastAnswers(r) THEN 1 ELSE 0
  BY <1>2, CountOfSingleton
<1>4. Count(down'[b], LastAnswers(r)) = Count(down[b], LastAnswers(r))
         + (IF AnswerTo(x, ok) \in LastAnswers(r) THEN 1 ELSE 0)
  <2>1. <<AnswerTo(x, ok)>> \in Seq(Answer) /\ proc[b] = "running"
    BY <1>3, WaitingRuns
  <2>2. down'[b] = SendToRenderer(b, <<AnswerTo(x, ok)>>)
    BY <1>1
  <2>3. Count(down'[b], LastAnswers(r))
          = Count(down[b], LastAnswers(r)) + Count(<<AnswerTo(x, ok)>>, LastAnswers(r))
    BY <2>1, <2>2, SentCount
  <2> QED BY <1>3, <2>3
<1>5. up'[b] = up[b] /\ rtasks'[b] = rtasks[b]
  BY DEF AnswersEntry, SamePage, SameUp
<1>6. (IF AnswerTo(x, ok) \in LastAnswers(r) THEN 1 ELSE 0) + HeldCount(b, r.q)' = HeldCount(b, r.q)
  <2>1. CASE x.q = r.q
    <3>1. AnswerTo(x, ok) = AnswerTo(r, ok) /\ x.pers = r.pers
      BY <2>1, MatchesRequest, SameAnswer
    <3>2. AnswerTo(x, ok) \in LastAnswers(r) <=> ~ok \/ ~r.pers
      BY <3>1, LastAnswersAre
    <3>3. x \in Held(b, r.q)
      BY <2>1 DEF Held
    <3>4. CASE ok /\ r.pers
      <4>1. Held(b, r.q)' = Held(b, r.q)
        BY <1>1, <3>1, <3>4 DEF Held
      <4> QED BY <3>2, <3>4, <4>1 DEF HeldCount
    <3>5. CASE ~ok \/ ~r.pers
      <4>1. \A y \in Held(b, r.q) : y = x
        BY <3>3, HeldOnce
      <4>2. Held(b, r.q)' = {}
        BY <1>1, <3>1, <3>5, <4>1 DEF Held
      <4> QED BY <3>2, <3>3, <3>5, <4>2 DEF HeldCount
    <3> QED BY <3>4, <3>5
  <2>2. CASE x.q # r.q
    <3>1. AnswerTo(x, ok) \notin LastAnswers(r)
      <4>1. AnswerTo(x, ok).q = x.q
        BY DEF AnswerTo
      <4> QED BY <2>2, <4>1, LastAnswersAre
    <3>2. Held(b, r.q)' = Held(b, r.q)
      BY <1>1, <2>2 DEF Held
    <3> QED BY <3>1, <3>2 DEF HeldCount
  <2> QED BY <2>1, <2>2
<1>7. HeldCount(b, r.q)' \in {0, 1}
  BY DEF HeldCount
<1>8. /\ Ways(b, r) = Count(up[b], {QueryMsg(r)}) + HeldCount(b, r.q)
                          + (Count(down[b], LastAnswers(r)) + Count(rtasks[b], LastAnswers(r)))
       /\ Ways(b, r)' = Count(up'[b], {QueryMsg(r)}) + HeldCount(b, r.q)'
                          + (Count(down'[b], LastAnswers(r)) + Count(rtasks'[b], LastAnswers(r)))
  BY WaysParts
<1>9. /\ Count(up[b], {QueryMsg(r)}) \in Nat /\ HeldCount(b, r.q) \in {0, 1}
       /\ Count(down[b], LastAnswers(r)) \in Nat /\ Count(rtasks[b], LastAnswers(r)) \in Nat
  BY WaysTyped
<1>10. CASE AnswerTo(x, ok) \in LastAnswers(r)
  BY <1>4, <1>5, <1>6, <1>7, <1>8, <1>9, <1>10
<1>11. CASE AnswerTo(x, ok) \notin LastAnswers(r)
  BY <1>4, <1>5, <1>6, <1>7, <1>8, <1>9, <1>11
<1> QED BY <1>10, <1>11

\* A query that nobody takes: its message turns into the failure.
LEMMA RefusesWays ==
  ASSUME TypeOK, KeyInv, AgreeInv, NEW b \in Browsers, NEW r \in requests[b], RefusesQuery(b)
  PROVE  Ways(b, r)' = Ways(b, r)
<1> DEFINE m == Head(up[b])
<1>1. /\ m \in Elems(up[b]) /\ m.type = "query"
      /\ Count(up[b], {QueryMsg(r)}) = Count(up'[b], {QueryMsg(r)}) + (IF m = QueryMsg(r) THEN 1 ELSE 0)
  BY MessageTaken DEF RefusesQuery
<1>2. down'[b] = SendToRenderer(b, <<AnswerTo(m, FALSE)>>) /\ rtasks'[b] = rtasks[b]
      /\ Entries(b)' = Entries(b)
  BY DEF RefusesQuery, SamePage
<1> HIDE DEF m
<1>3. AnswerTo(m, FALSE) \in Answer
  BY <1>1, MessageParts, AnswersTyped
<1>4. /\ <<AnswerTo(m, FALSE)>> \in Seq(Answer)
      /\ Count(<<AnswerTo(m, FALSE)>>, LastAnswers(r)) = IF AnswerTo(m, FALSE) \in LastAnswers(r) THEN 1 ELSE 0
  BY <1>3, CountOfSingleton
<1>5. AnswerTo(m, FALSE) \in LastAnswers(r) <=> m = QueryMsg(r)
  <2>1. ASSUME m = QueryMsg(r) PROVE AnswerTo(m, FALSE) \in LastAnswers(r)
    <3>1. m.ctx = r.ctx /\ m.req = r.req /\ m.q = r.q
      BY <2>1 DEF QueryMsg
    <3>2. AnswerTo(m, FALSE) = AnswerTo(r, FALSE)
      BY <3>1, SameAnswer
    <3> QED BY <3>2, LastAnswersAre
  <2>2. ASSUME AnswerTo(m, FALSE) \in LastAnswers(r) PROVE m = QueryMsg(r)
    <3>1. AnswerTo(m, FALSE).q = m.q
      BY DEF AnswerTo
    <3>2. m.q = r.q
      BY <2>2, <3>1, LastAnswersAre
    <3>3. m \in QueriesSent(b)
      BY <1>1 DEF QueriesSent
    <3> QED BY <3>2, <3>3, MatchesRequest
  <2> QED BY <2>1, <2>2
<1>6. Count(down'[b], LastAnswers(r)) = Count(down[b], LastAnswers(r)) + (IF m = QueryMsg(r) THEN 1 ELSE 0)
  <2>1. <<AnswerTo(m, FALSE)>> \in Seq(Answer) /\ proc[b] = "running"
    BY <1>4, WaitingRuns
  <2>2. down'[b] = SendToRenderer(b, <<AnswerTo(m, FALSE)>>)
    BY <1>2
  <2>3. Count(down'[b], LastAnswers(r))
          = Count(down[b], LastAnswers(r)) + Count(<<AnswerTo(m, FALSE)>>, LastAnswers(r))
    BY <2>1, <2>2, SentCount
  <2> QED BY <1>4, <1>5, <2>3
<1>7. HeldCount(b, r.q)' = HeldCount(b, r.q)
  BY <1>2 DEF HeldCount, Held
<1>8. /\ Ways(b, r) = Count(up[b], {QueryMsg(r)}) + HeldCount(b, r.q)
                          + (Count(down[b], LastAnswers(r)) + Count(rtasks[b], LastAnswers(r)))
      /\ Ways(b, r)' = Count(up'[b], {QueryMsg(r)}) + HeldCount(b, r.q)'
                          + (Count(down'[b], LastAnswers(r)) + Count(rtasks'[b], LastAnswers(r)))
  BY WaysParts
<1>9. /\ Count(up[b], {QueryMsg(r)}) \in Nat /\ HeldCount(b, r.q) \in {0, 1}
      /\ Count(down[b], LastAnswers(r)) \in Nat /\ Count(rtasks[b], LastAnswers(r)) \in Nat
  BY WaysTyped
<1>10. Count(up'[b], {QueryMsg(r)}) \in Nat
  <2>1. up'[b] \in Seq(UpMessage)
    <3>1. up[b] \in Seq(UpMessage) /\ up[b] # <<>> /\ up'[b] = Tail(up[b])
      BY DEF TypeOK, RefusesQuery, TakesMessage
    <3> QED BY <3>1, ElemsOfTail
  <2> QED BY <2>1, CountTyped
<1>11. CASE m = QueryMsg(r)
  BY <1>1, <1>2, <1>6, <1>7, <1>8, <1>9, <1>10, <1>11
<1>12. CASE m # QueryMsg(r)
  BY <1>1, <1>2, <1>6, <1>7, <1>8, <1>9, <1>10, <1>12
<1> QED BY <1>11, <1>12

\* A query that a handler takes: its message turns into the entry.
LEMMA AcceptsWays ==
  ASSUME TypeOK, SentOnce, DeskInv, AgreeInv, NEW b \in Browsers, NEW r \in requests[b],
         AcceptsQuery(b)
  PROVE  Ways(b, r)' = Ways(b, r)
<1> DEFINE m == Head(up[b])
<1>1. /\ m \in Elems(up[b]) /\ m.type = "query"
      /\ Count(up[b], {QueryMsg(r)}) = Count(up'[b], {QueryMsg(r)}) + (IF m = QueryMsg(r) THEN 1 ELSE 0)
  BY MessageTaken DEF AcceptsQuery
<1>2. PICK x \in QueryInfo :
        Entries(b)' = Entries(b) \cup {x} /\ QueryMsg(x) = QueryMsg(m)
  BY DEF AcceptsQuery
<1>3. rtasks'[b] = rtasks[b] /\ down'[b] = down[b]
  BY DEF AcceptsQuery, SamePage
<1>4. \A y : y \in Held(b, m.q) => FALSE
  <2> SUFFICES ASSUME NEW y \in Held(b, m.q) PROVE FALSE
    OBVIOUS
  <2>1. y \in queries /\ y.q = m.q
    BY EntriesTyped DEF Held
  <2>2. CallbackOf(y) \in callbacks /\ CallbackOf(y).q = m.q
    BY <2>1 DEF DeskInv, CallbackOf
  <2>3. up[b] \in Seq(UpMessage) /\ up[b] # <<>>
    BY DEF TypeOK, AcceptsQuery, TakesMessage
  <2>4. 1 \in 1..Len(up[b]) /\ up[b][1] = m
    BY <2>3, HeadTailProperties, EmptySeq, LenProperties
  <2> QED BY <1>1, <2>2, <2>4 DEF SentOnce
<1> HIDE DEF m
<1>5. x.q = m.q
  BY <1>2 DEF QueryMsg
<1>6. Held(b, r.q)' = Held(b, r.q) \cup (IF x.q = r.q THEN {x} ELSE {})
  BY <1>2 DEF Held
<1>7. m = QueryMsg(r) <=> m.q = r.q
  <2>1. m \in QueriesSent(b)
    BY <1>1 DEF QueriesSent
  <2>2. QueryMsg(r).q = r.q
    BY DEF QueryMsg
  <2> QED BY <2>1, <2>2, MatchesRequest
<1>8. HeldCount(b, r.q)' = HeldCount(b, r.q) + (IF m = QueryMsg(r) THEN 1 ELSE 0)
  <2>1. CASE m.q = r.q
    <3>1. Held(b, r.q) = {} /\ x \in Held(b, r.q)'
      BY <1>4, <1>5, <1>6, <2>1
    <3> QED BY <1>7, <2>1, <3>1 DEF HeldCount
  <2>2. CASE m.q # r.q
    <3>1. Held(b, r.q)' = Held(b, r.q)
      BY <1>5, <1>6, <2>2
    <3> QED BY <1>7, <2>2, <3>1 DEF HeldCount
  <2> QED BY <2>1, <2>2
<1>9. /\ Ways(b, r) = Count(up[b], {QueryMsg(r)}) + HeldCount(b, r.q)
                          + (Count(down[b], LastAnswers(r)) + Count(rtasks[b], LastAnswers(r)))
      /\ Ways(b, r)' = Count(up'[b], {QueryMsg(r)}) + HeldCount(b, r.q)'
                          + (Count(down'[b], LastAnswers(r)) + Count(rtasks'[b], LastAnswers(r)))
  BY WaysParts
<1>10. /\ Count(up[b], {QueryMsg(r)}) \in Nat /\ HeldCount(b, r.q) \in {0, 1}
       /\ Count(down[b], LastAnswers(r)) \in Nat /\ Count(rtasks[b], LastAnswers(r)) \in Nat
  BY WaysTyped
<1>11. Count(up'[b], {QueryMsg(r)}) \in Nat
  <2>1. up'[b] \in Seq(UpMessage)
    <3>1. up[b] \in Seq(UpMessage) /\ up[b] # <<>> /\ up'[b] = Tail(up[b])
      BY DEF TypeOK, AcceptsQuery, TakesMessage
    <3> QED BY <3>1, ElemsOfTail
  <2> QED BY <2>1, CountTyped
<1>12. CASE m = QueryMsg(r)
  BY <1>1, <1>3, <1>8, <1>9, <1>10, <1>11, <1>12
<1>13. CASE m # QueryMsg(r)
  BY <1>1, <1>3, <1>8, <1>9, <1>10, <1>11, <1>13
<1> QED BY <1>12, <1>13

\* A cancel message ends no query that a page still waits for.
LEMMA CancelsOthers ==
  ASSUME TypeOK, KeyInv, ContextInv, AgreeInv, NEW b \in Browsers, NEW r \in requests[b],
         CancelsRequest(b)
  PROVE  \A x \in CanceledRequest(b, Head(up[b])) : x.q # r.q
<1> DEFINE m == Head(up[b])
<1>1. m \in Elems(up[b]) /\ m.type = "cancel"
  BY MessageTaken DEF CancelsRequest
<1>2. ~Withdraws(m, r)
  BY <1>1, WaitingRuns DEF ContextInv, ContextAt, CancelsArePast
<1> HIDE DEF m
<1> SUFFICES ASSUME NEW x \in CanceledRequest(b, m), x.q = r.q PROVE FALSE
  BY DEF m
<1>3. x \in Entries(b) /\ x.ctx = m.ctx /\ (m.req = kReservedId \/ x.req = m.req)
  BY DEF CanceledRequest, Entries
<1>4. x.ctx = r.ctx /\ x.req = r.req
  BY <1>3, MatchesRequest
<1> QED BY <1>1, <1>2, <1>3, <1>4 DEF Withdraws

LEMMA CancelMessageWays ==
  ASSUME TypeOK, KeyInv, ContextInv, AgreeInv, NEW b \in Browsers, NEW r \in requests[b],
         CancelsRequest(b)
  PROVE  Ways(b, r)' = Ways(b, r)
<1>1. TakesMessage(b, "cancel") /\ rtasks'[b] = rtasks[b] /\ down'[b] = down[b]
      /\ Entries(b)' = Entries(b) \ CanceledRequest(b, Head(up[b]))
  BY DEF CancelsRequest, SamePage
<1>2. Count(up'[b], {QueryMsg(r)}) = Count(up[b], {QueryMsg(r)})
  <2>1. /\ Count(up[b], {QueryMsg(r)})
             = Count(up'[b], {QueryMsg(r)}) + (IF Head(up[b]) = QueryMsg(r) THEN 1 ELSE 0)
        /\ Head(up[b]) # QueryMsg(r)
    BY <1>1, MessageTaken
  <2>2. Count(up'[b], {QueryMsg(r)}) \in Nat
    <3>1. up[b] \in Seq(UpMessage) /\ up[b] # <<>> /\ up'[b] = Tail(up[b])
      BY <1>1 DEF TypeOK, TakesMessage
    <3>2. up'[b] \in Seq(UpMessage)
      BY <3>1, ElemsOfTail
    <3> QED BY <3>2, CountTyped
  <2> QED BY <2>1, <2>2
<1>3. Held(b, r.q)' = Held(b, r.q)
  BY <1>1, CancelsOthers DEF Held
<1>4. HeldCount(b, r.q)' = HeldCount(b, r.q)
  BY <1>3 DEF HeldCount
<1> QED BY <1>1, <1>2, <1>4, WaysParts

\* A reply that arrives moves on to the renderer's tasks.
LEMMA ReceivesWays ==
  ASSUME TypeOK, NEW b \in Browsers, NEW r, ReceivesReply(b)
  PROVE  Ways(b, r)' = Ways(b, r)
<1> DEFINE a == Head(down[b])
           A == LastAnswers(r)
<1>1. /\ down[b] \in Seq(Answer) /\ rtasks[b] \in Seq(Answer) /\ down[b] # <<>>
      /\ down'[b] = Tail(down[b]) /\ rtasks'[b] = Append(rtasks[b], a)
      /\ up'[b] = up[b] /\ Entries(b)' = Entries(b)
  BY DEF TypeOK, ReceivesReply, SameUp
<1>2. Count(down[b], A) = Count(Tail(down[b]), A) + (IF a \in A THEN 1 ELSE 0)
  BY <1>1, CountOfTail
<1>3. a \in Answer /\ Tail(down[b]) \in Seq(Answer)
  BY <1>1, ElemsOfTail
<1> HIDE DEF a, A
<1>4. Count(Append(rtasks[b], a), A) = Count(rtasks[b], A) + (IF a \in A THEN 1 ELSE 0)
  BY <1>1, <1>3, CountOfAppend
<1>5. Count(Tail(down[b]), A) \in Nat /\ Count(rtasks[b], A) \in Nat
  BY <1>1, <1>3, CountTyped
<1>6. Count(down[b], A) + Count(rtasks[b], A) = Count(down'[b], A) + Count(rtasks'[b], A)
  <2>1. CASE a \in A
    BY <1>1, <1>2, <1>4, <1>5, <2>1
  <2>2. CASE a \notin A
    BY <1>1, <1>2, <1>4, <1>5, <2>2
  <2> QED BY <2>1, <2>2
<1>7. HeldCount(b, r.q)' = HeldCount(b, r.q)
  BY <1>1 DEF HeldCount, Held
<1> QED BY <1>1, <1>6, <1>7, WaysParts DEF A

\* A reply that is heard and leaves r open is not r's last.
LEMMA HearsWays ==
  ASSUME TypeOK, NEW b \in Browsers, NEW r \in requests[b], HearsReply(b), r \in requests'[b]
  PROVE  Ways(b, r)' = Ways(b, r)
<1> DEFINE a == Head(rtasks[b])
           A == LastAnswers(r)
<1>1. /\ rtasks[b] \in Seq(Answer) /\ rtasks[b] # <<>> /\ rtasks'[b] = Tail(rtasks[b])
      /\ requests'[b] = requests[b] \ RemovedRequests(b, a)
      /\ up'[b] = up[b] /\ down'[b] = down[b] /\ Entries(b)' = Entries(b)
  BY DEF TypeOK, HearsReply, SameUp, SameDesk
<1>2. Count(rtasks[b], A) = Count(Tail(rtasks[b]), A) + (IF a \in A THEN 1 ELSE 0)
  BY <1>1, CountOfTail
<1>3. Tail(rtasks[b]) \in Seq(Answer)
  BY <1>1, ElemsOfTail
<1> HIDE DEF a, A
<1>4. a \notin A
  <2> SUFFICES ASSUME a \in A PROVE FALSE
    OBVIOUS
  <2>1. a.ctx = r.ctx /\ a.req = r.req /\ (~a.ok \/ ~r.pers)
    BY LastAnswersAre DEF A
  <2>2. r \in RemovedRequests(b, a)
    BY <2>1 DEF RemovedRequests, GetRequestInfo
  <2> QED BY <1>1, <2>2
<1>5. Count(Tail(rtasks[b]), A) \in Nat
  BY <1>3, CountTyped
<1>6. Count(rtasks[b], A) = Count(rtasks'[b], A)
  BY <1>1, <1>2, <1>4, <1>5
<1>7. HeldCount(b, r.q)' = HeldCount(b, r.q)
  BY <1>1 DEF HeldCount, Held
<1> QED BY <1>1, <1>6, <1>7, WaysParts DEF A

\* A withdrawal adds a cancel message, if anything.
LEMMA WithdrawsWays ==
  ASSUME TypeOK, TypeOK', NEW b \in Browsers, NEW r, WithdrawsRequests(b)
  PROVE  Ways(b, r)' = Ways(b, r)
<1>1. rtasks'[b] = rtasks[b] /\ down'[b] = down[b] /\ Entries(b)' = Entries(b)
  BY DEF WithdrawsRequests, SameDesk
<1>2. PICK c \in Nat, req \in Nat :
        up'[b] = up[b] \/ up'[b] = Append(up[b], CancelMsg(c, req))
  BY DEF WithdrawsRequests
<1>3. Count(up'[b], {QueryMsg(r)}) = Count(up[b], {QueryMsg(r)})
  <2>1. CASE up'[b] = up[b]
    BY <2>1
  <2>2. CASE up'[b] = Append(up[b], CancelMsg(c, req))
    <3>1. CancelMsg(c, req) \in UpMessage /\ CancelMsg(c, req) \notin {QueryMsg(r)}
      BY MessagesTyped DEF CancelMsg, QueryMsg
    <3>2. up[b] \in Seq(UpMessage)
      BY DEF TypeOK
    <3>3. Count(Append(up[b], CancelMsg(c, req)), {QueryMsg(r)})
            = Count(up[b], {QueryMsg(r)}) + (IF CancelMsg(c, req) \in {QueryMsg(r)} THEN 1 ELSE 0)
      BY <3>1, <3>2, CountOfAppend
    <3>4. Count(up[b], {QueryMsg(r)}) \in Nat
      BY <3>2, CountTyped
    <3> QED BY <2>2, <3>1, <3>3, <3>4
  <2> QED BY <1>2, <2>1, <2>2
<1>4. HeldCount(b, r.q)' = HeldCount(b, r.q)
  BY <1>1 DEF HeldCount, Held
<1> QED BY <1>1, <1>3, <1>4, WaysParts

\* A handler is told of r's end only by the entry of r.
LEMMA ToldStays ==
  ASSUME TypeOK, AgreeInv, [Next]_vars, NEW b \in Browsers, NEW r \in requests[b],
         Held(b, r.q) = {}
  PROVE  told'[r.q] = told[r.q]
<1>1. r.q \in Uids
  BY RequestParts
<1>2. \A x \in queries : x.q # r.q
  <2> SUFFICES ASSUME NEW x \in queries, x.q = r.q PROVE FALSE
    OBVIOUS
  <2>1. x.browser \in Browsers /\ x \in Entries(x.browser)
    BY EntryParts DEF Entries, OfBrowser
  <2>2. x.browser = b
    BY <2>1, MatchesRequest
  <2> QED BY <2>1, <2>2 DEF Held
<1>3. CASE DeskCancel
  <2>1. PICK S \in SUBSET queries : CancelQueries(S)
    BY <1>3 DEF DeskCancel
  <2>2. told' = [q \in Uids |-> IF \E x \in S : x.q = q THEN told[q] + 1 ELSE told[q]]
    BY <2>1 DEF CancelQueries
  <2> QED BY <1>1, <1>2, <2>2
<1>4. CASE ~DeskCancel
  <2>1. told' = told
    BY <1>4, DeskSteps DEF DeskStep, DeskStill, DeskAnswer, DeskAccept, OnCallback
  <2> QED BY <2>1
<1> QED BY <1>3, <1>4

\* Entries dropped for a navigation: r's own leaves and its handler is told.
LEMMA DropsWays ==
  ASSUME TypeOK, DeskInv, NEW b \in Browsers, NEW r \in requests[b], DropsEntries(b),
         Held(b, r.q) # {}, Ways(b, r) = 1
  PROVE  Ways(b, r)' = 0 /\ told'[r.q] = 1 /\ nav'[b] = "pending"
<1>1. PICK x \in Entries(b) : x.q = r.q
  BY DEF Held
<1>2. /\ Entries(b)' = {} /\ down'[b] = down[b] /\ rtasks'[b] = rtasks[b] /\ up'[b] = up[b]
      /\ told'[x.q] = told[x.q] + 1 /\ nav'[b] = "pending"
  BY DEF DropsEntries, SameUp
<1>3. told[x.q] = 0
  <2>1. x \in queries
    BY EntriesTyped
  <2>2. CallbackOf(x) \in callbacks /\ CallbackOf(x).id = x.id /\ CallbackOf(x).q = x.q
    BY <2>1 DEF DeskInv, CallbackOf
  <2>3. EndsOnce(CallbackOf(x))
    BY <2>2 DEF DeskInv
  <2> QED BY <2>1, <2>2, <2>3 DEF EndsOnce
<1>4. HeldCount(b, r.q) = 1 /\ HeldCount(b, r.q)' = 0
  BY <1>2 DEF HeldCount, Held
<1>5. /\ Ways(b, r) = Count(up[b], {QueryMsg(r)}) + HeldCount(b, r.q)
                          + (Count(down[b], LastAnswers(r)) + Count(rtasks[b], LastAnswers(r)))
      /\ Ways(b, r)' = Count(up'[b], {QueryMsg(r)}) + HeldCount(b, r.q)'
                          + (Count(down'[b], LastAnswers(r)) + Count(rtasks'[b], LastAnswers(r)))
  BY WaysParts
<1>6. /\ Count(up[b], {QueryMsg(r)}) \in Nat
      /\ Count(down[b], LastAnswers(r)) \in Nat /\ Count(rtasks[b], LastAnswers(r)) \in Nat
  BY WaysTyped
<1>7. Ways(b, r)' = 0
  BY <1>2, <1>4, <1>5, <1>6
<1> QED BY <1>1, <1>2, <1>3, <1>7

\* Every other step of b keeps the number of places of r.
LEMMA WaysKept ==
  ASSUME TypeOK, TypeOK', KeyInv, SentOnce, DeskInv, ContextInv, AgreeInv,
         NEW b \in Browsers, BrowserStep(b), NEW r \in requests[b], r \in requests'[b],
         DropsEntries(b) => Held(b, r.q) = {}
  PROVE  Ways(b, r)' = Ways(b, r) /\ (nav[b] # "none" => nav'[b] # "none")
<1>1. CASE Stays(b) \/ DropsEntries(b)
  <2>1. /\ up'[b] = up[b] /\ down'[b] = down[b] /\ rtasks'[b] = rtasks[b]
        /\ nav[b] # "none" => nav'[b] # "none"
    BY <1>1 DEF Stays, DropsEntries, SameUp, SameDesk
  <2>2. Held(b, r.q)' = Held(b, r.q)
    BY <1>1 DEF Stays, DropsEntries, SameDesk, Held
  <2>3. HeldCount(b, r.q)' = HeldCount(b, r.q)
    BY <2>2 DEF HeldCount
  <2> QED BY <2>1, <2>3, WaysParts
<1>2. CASE WithdrawsRequests(b)
  BY <1>2, WithdrawsWays DEF WithdrawsRequests
<1>3. CASE ReceivesReply(b)
  BY <1>3, ReceivesWays DEF ReceivesReply
<1>4. CASE HearsReply(b)
  BY <1>4, HearsWays DEF HearsReply
<1>5. CASE CancelsEntries(b)
  BY <1>5, CancelsWays DEF CancelsEntries, SamePage
<1>6. CASE AnswersEntry(b)
  BY <1>6, AnswersWays DEF AnswersEntry, SamePage
<1>7. CASE RefusesQuery(b)
  BY <1>7, RefusesWays DEF RefusesQuery, SamePage
<1>8. CASE AcceptsQuery(b)
  BY <1>8, AcceptsWays DEF AcceptsQuery, SamePage
<1>9. CASE CancelsRequest(b)
  BY <1>9, CancelMessageWays DEF CancelsRequest, SamePage
<1>10. CASE BuriesRenderer(b)
  <2>1. Head(up[b]) \in Elems(up[b]) /\ Head(up[b]).type = "gone"
    BY <1>10, MessageTaken DEF BuriesRenderer
  <2>2. \A m \in Elems(up[b]) : m.type = "gone" => proc[b] = "dead"
    <3>1. DOMAIN up[b] = 1..Len(up[b])
      BY LenProperties DEF TypeOK
    <3> QED BY <3>1 DEF KeyInv, GoneIsLast, Elems
  <2> QED BY <2>1, <2>2, WaitingRuns
<1>11. CASE LosesRenderer(b) \/ Closes(b)
  BY <1>11 DEF LosesRenderer, Closes
<1> QED BY <1>1, <1>2, <1>3, <1>4, <1>5, <1>6, <1>7, <1>8, <1>9, <1>10, <1>11 DEF BrowserStep

\* cefQuery adds one place for the new request and none for the others.
LEMMA QueryWays ==
  ASSUME TypeOK, AgreeInv, NEW a \in Browsers, NEW f \in Frames, NEW pers \in Persistence,
         CefQuery(a, f, pers), NEW b \in Browsers, NEW s \in requests'[b]
  PROVE  /\ nav' = nav /\ told' = told
         /\ IF s \in requests[b] THEN Ways(b, s)' = Ways(b, s) ELSE Ways(b, s)' = 1
<1>1. issued \in Nat /\ UNCHANGED <<queries, rtasks, nav, down, told>>
  BY AskedQuery DEF browserVars
<1>2. PICK r \in Request :
        /\ r.q = issued + 1
        /\ requests'[a] = requests[a] \cup {r}
        /\ QueryMsg(r) \in UpMessage
        /\ up'[a] = Append(up[a], QueryMsg(r))
        /\ \A c \in Browsers : c # a => requests'[c] = requests[c] /\ up'[c] = up[c]
  BY AskedQuery
<1>3. up[b] \in Seq(UpMessage) /\ down[b] \in Seq(Answer) /\ rtasks[b] \in Seq(Answer)
  BY DEF TypeOK
<1>4. \A y : Stamp(y)[3] = y.q
  BY DEF Stamp
<1>5. \A y \in requests[b] \cup Entries(b) \cup QueriesSent(b) \cup Elems(down[b]) \cup Elems(rtasks[b]) :
        y.q # issued + 1
  <2> SUFFICES ASSUME NEW y \in requests[b] \cup Entries(b) \cup QueriesSent(b)
                                  \cup Elems(down[b]) \cup Elems(rtasks[b])
               PROVE  y.q # issued + 1
    OBVIOUS
  <2>1. Stamp(y) \in Stamps(b)
    BY DEF Stamps
  <2>2. Stamp(y)[3] \in Nat /\ Stamp(y)[3] <= issued
    BY <2>1, StampsTyped DEF AgreeInv
  <2> QED BY <1>1, <1>4, <2>2
<1>6. \A y : QueryMsg(y).q = y.q /\ QueryMsg(y).type = "query"
  BY DEF QueryMsg
<1>7. HeldCount(b, s.q)' = HeldCount(b, s.q)
  BY <1>1 DEF HeldCount, Held, Entries, OfBrowser
<1>8. CASE s \in requests[b]
  <2>1. s.q # r.q
    BY <1>2, <1>5, <1>8
  <2>2. QueryMsg(r) \notin {QueryMsg(s)}
    BY <1>6, <2>1
  <2>3. Count(up'[b], {QueryMsg(s)}) = Count(up[b], {QueryMsg(s)})
    <3>1. CASE b = a
      <4>1. Count(Append(up[b], QueryMsg(r)), {QueryMsg(s)})
              = Count(up[b], {QueryMsg(s)}) + (IF QueryMsg(r) \in {QueryMsg(s)} THEN 1 ELSE 0)
        <5>1. QueryMsg(r) \in UpMessage
          BY <1>2
        <5> QED BY <1>3, <5>1, CountOfAppend
      <4>2. Count(up[b], {QueryMsg(s)}) \in Nat
        BY <1>3, CountTyped
      <4>3. up'[b] = Append(up[b], QueryMsg(r))
        BY <1>2, <3>1
      <4> QED BY <2>2, <4>1, <4>2, <4>3
    <3>2. CASE b # a
      BY <1>2, <3>2
    <3> QED BY <3>1, <3>2
  <2>4. Ways(b, s)' = Ways(b, s)
    BY <1>1, <1>7, <2>3, WaysParts
  <2> QED BY <1>1, <1>8, <2>4
<1>9. CASE s \notin requests[b]
  <2>1. b = a /\ s = r
    BY <1>2, <1>9
  <2>2. Count(up[b], {QueryMsg(s)}) = 0
    <3>1. \A e \in Elems(up[b]) : e \notin {QueryMsg(s)}
      BY <1>2, <1>5, <1>6, <2>1 DEF QueriesSent
    <3> QED BY <1>3, <3>1, CountNone
  <2>3. Count(up'[b], {QueryMsg(s)}) = 1
    <3>1. Count(Append(up[b], QueryMsg(r)), {QueryMsg(s)})
            = Count(up[b], {QueryMsg(s)}) + (IF QueryMsg(r) \in {QueryMsg(s)} THEN 1 ELSE 0)
      <4>1. QueryMsg(r) \in UpMessage
        BY <1>2
      <4> QED BY <1>3, <4>1, CountOfAppend
    <3>2. up'[b] = Append(up[b], QueryMsg(r)) /\ QueryMsg(r) \in {QueryMsg(s)}
      BY <1>2, <2>1
    <3> QED BY <2>2, <3>1, <3>2
  <2>4. HeldCount(b, s.q) = 0
    BY <1>2, <1>5, <2>1 DEF HeldCount, Held
  <2>5. Count(down[b], LastAnswers(s)) = 0 /\ Count(rtasks[b], LastAnswers(s)) = 0
    <3>1. \A e \in Elems(down[b]) \cup Elems(rtasks[b]) : e \notin LastAnswers(s)
      BY <1>2, <1>5, <2>1, LastAnswersAre
    <3>2. \A e \in Elems(down[b]) : e \notin LastAnswers(s)
      BY <3>1
    <3>3. \A e \in Elems(rtasks[b]) : e \notin LastAnswers(s)
      BY <3>1
    <3> QED BY <1>3, <3>2, <3>3, CountNone
  <2>6. Ways(b, s)' = 1
    <3>1. Ways(b, s)' = Count(up'[b], {QueryMsg(s)}) + HeldCount(b, s.q)'
                          + (Count(down'[b], LastAnswers(s)) + Count(rtasks'[b], LastAnswers(s)))
      BY WaysParts
    <3> QED BY <1>1, <1>7, <2>3, <2>4, <2>5, <3>1
  <2> QED BY <1>1, <1>9, <2>6
<1> QED BY <1>8, <1>9

\* NoQueryLost, with the places counted as above.
LostAt(b, r) == Ways(b, r) = 1 \/ (Ways(b, r) = 0 /\ told[r.q] = 1 /\ nav[b] # "none")

LEMMA LostParts ==
  TypeOK /\ DeskInv /\ TasksInv
  => (NoQueryLost <=> \A b \in Browsers : \A r \in requests[b] : LostAt(b, r))
  BY WaysArePlaces DEF NoQueryLost, LostAt

LEMMA LostPartsNext ==
  TypeOK' /\ DeskInv' /\ TasksInv'
  => (NoQueryLost' <=> \A b \in Browsers : \A r \in requests'[b] : LostAt(b, r)')
<1>1. (TypeOK /\ DeskInv /\ TasksInv
        => (NoQueryLost <=> \A b \in Browsers : \A r \in requests[b] : LostAt(b, r)))'
  BY LostParts, PTL
<1> QED BY <1>1

LEMMA LostStep ==
  ASSUME TypeOK, KeyInv, SentOnce, DeskInv, TasksInv, ContextInv, AgreeInv, NoQueryLost,
         TypeOK', DeskInv', TasksInv', [Next]_vars
  PROVE  NoQueryLost'
<1> SUFFICES ASSUME NEW b \in Browsers, NEW r \in requests'[b]
             PROVE  LostAt(b, r)'
  BY LostPartsNext
<1>1. \A t \in requests[b] : LostAt(b, t)
  BY LostParts
<1>2. CASE \E a \in Browsers, f \in Frames, pers \in Persistence : CefQuery(a, f, pers)
  <2>1. PICK a \in Browsers, f \in Frames, pers \in Persistence : CefQuery(a, f, pers)
    BY <1>2
  <2>2. nav' = nav /\ told' = told
        /\ IF r \in requests[b] THEN Ways(b, r)' = Ways(b, r) ELSE Ways(b, r)' = 1
    BY <2>1, QueryWays
  <2> QED BY <1>1, <2>2 DEF LostAt
<1>3. CASE ~ \E a \in Browsers, f \in Frames, pers \in Persistence : CefQuery(a, f, pers)
  <2>1. BrowserStep(b)
    BY <1>3, BrowserSteps
  <2>2. r \in requests[b]
    BY <2>1, RequestsKept
  <2>3. LostAt(b, r)
    BY <1>1, <2>2
  <2>4. CASE Ways(b, r) = 1
    <3>1. CASE DropsEntries(b) /\ Held(b, r.q) # {}
      <4>1. Ways(b, r)' = 0 /\ told'[r.q] = 1 /\ nav'[b] = "pending"
        BY <2>2, <2>4, <3>1, DropsWays
      <4> QED BY <4>1 DEF LostAt
    <3>2. CASE ~(DropsEntries(b) /\ Held(b, r.q) # {})
      BY <2>1, <2>2, <2>4, <3>2, WaysKept DEF LostAt
    <3> QED BY <3>1, <3>2
  <2>5. CASE Ways(b, r) = 0 /\ told[r.q] = 1 /\ nav[b] # "none"
    <3>1. HeldCount(b, r.q) = 0
      <4>1. Ways(b, r) = Count(up[b], {QueryMsg(r)}) + HeldCount(b, r.q)
                          + (Count(down[b], LastAnswers(r)) + Count(rtasks[b], LastAnswers(r)))
        BY WaysParts
      <4>2. /\ Count(up[b], {QueryMsg(r)}) \in Nat /\ HeldCount(b, r.q) \in {0, 1}
            /\ Count(down[b], LastAnswers(r)) \in Nat /\ Count(rtasks[b], LastAnswers(r)) \in Nat
        BY WaysTyped
      <4> QED BY <2>5, <4>1, <4>2
    <3>2. Held(b, r.q) = {}
      BY <3>1 DEF HeldCount
    <3>3. told'[r.q] = told[r.q]
      BY <2>2, <3>2, ToldStays
    <3>4. Ways(b, r)' = Ways(b, r) /\ (nav[b] # "none" => nav'[b] # "none")
      BY <2>1, <2>2, <3>2, WaysKept
    <3> QED BY <2>5, <3>3, <3>4 DEF LostAt
  <2> QED BY <2>3, <2>4, <2>5 DEF LostAt
<1> QED BY <1>2, <1>3

LEMMA LostInit == Init => NoQueryLost
  BY DEF Init, NoQueryLost

\* What a page waits for is in exactly one place that will end it (NoQueryLost).
THEOREM NoQueryIsLost == Spec => []NoQueryLost
<1>1. TypeOK /\ KeyInv /\ SentOnce /\ DeskInv /\ TasksInv /\ ContextInv /\ AgreeInv /\ NoQueryLost
        /\ TypeOK' /\ DeskInv' /\ TasksInv' /\ [Next]_vars => NoQueryLost'
  BY LostStep
<1> QED BY <1>1, LostInit, TypeCorrect, KeysInvariant, DeskInvariant, ContextInvariant,
           AgreeInvariant, PTL DEF Spec

-----------------------------------------------------------------------------
(* No entry is orphaned: what is left of a withdrawn request is covered.   *)

\* A message that will clear y: a cancel that names it, or the process's end.
Covers(m, y) == m.type = "gone" \/ Withdraws(m, y)
WaitedFor(b, y) == \E r \in requests[b] : r.ctx = y.ctx /\ r.req = y.req /\ r.q = y.q
CoveredFrom(b, i, y) == \E j \in i..Len(up[b]) : Covers(up[b][j], y)

\* Every entry, and every query still on its way to become one, is waited for
\* by its page or covered by a message behind it.
Followed(b, i) == WaitedFor(b, up[b][i]) \/ CoveredFrom(b, i + 1, up[b][i])
OrphanAt(b) ==
  /\ \A x \in Entries(b) : WaitedFor(b, x) \/ CoveredFrom(b, 1, x)
  /\ \A i \in 1..Len(up[b]) : up[b][i].type = "query" => Followed(b, i)
OrphanInv == \A b \in Browsers : OrphanAt(b)

LEMMA TailFacts ==
  ASSUME TypeOK, NEW b \in Browsers, NEW type, TakesMessage(b, type)
  PROVE  /\ Len(up[b]) \in Nat \ {0} /\ Len(up'[b]) = Len(up[b]) - 1 /\ up[b][1].type = type
         /\ up[b][1] = Head(up[b])
         /\ \A i \in 1..Len(up'[b]) : i + 1 \in 1..Len(up[b]) /\ up'[b][i] = up[b][i + 1]
<1>1. up[b] \in Seq(UpMessage) /\ up[b] # <<>> /\ up'[b] = Tail(up[b]) /\ Head(up[b]).type = type
  BY DEF TypeOK, TakesMessage
<1>2. /\ Len(Tail(up[b])) = Len(up[b]) - 1
      /\ \A i \in 1..Len(Tail(up[b])) : Tail(up[b])[i] = up[b][i + 1]
  BY <1>1, HeadTailProperties
<1>3. Len(up[b]) \in Nat \ {0} /\ Head(up[b]) = up[b][1]
  BY <1>1, LenProperties, EmptySeq
<1> QED BY <1>1, <1>2, <1>3

\* Taking the head keeps the messages covered, and what was covered by
\* another message than the head.
LEMMA CoveredAfterTail ==
  ASSUME TypeOK, NEW b \in Browsers, NEW type, TakesMessage(b, type), NEW i \in Nat, i >= 2, NEW y,
         CoveredFrom(b, i, y)
  PROVE  CoveredFrom(b, i - 1, y)'
<1>1. PICK j \in i..Len(up[b]) : Covers(up[b][j], y)
  BY DEF CoveredFrom
<1>2. /\ Len(up[b]) \in Nat \ {0} /\ Len(up'[b]) = Len(up[b]) - 1
      /\ \A k \in 1..Len(up'[b]) : up'[b][k] = up[b][k + 1]
  BY TailFacts
<1>3. j - 1 \in (i - 1)..Len(up'[b]) /\ j - 1 \in 1..Len(up'[b]) /\ (j - 1) + 1 = j
  BY <1>2
<1>4. up'[b][j - 1] = up[b][(j - 1) + 1]
  BY <1>2, <1>3
<1>5. Covers(up'[b][j - 1], y)
  BY <1>1, <1>3, <1>4
<1>6. \E k \in (i - 1)..Len(up'[b]) : Covers(up'[b][k], y)
  BY <1>3, <1>5
<1>7. \A m : Covers(m, y)' = Covers(m, y)
  BY DEF Covers, Withdraws
<1> QED BY <1>6, <1>7 DEF CoveredFrom

LEMMA TailKeepsMessages ==
  ASSUME TypeOK, OrphanInv, NEW b \in Browsers, NEW type, TakesMessage(b, type),
         requests'[b] = requests[b], NEW i \in 1..Len(up'[b]), up'[b][i].type = "query"
  PROVE  Followed(b, i)'
<1>1. i + 1 \in 1..Len(up[b]) /\ up'[b][i] = up[b][i + 1]
  BY TailFacts
<1> DEFINE y == up[b][i + 1]
<1>2. WaitedFor(b, y) \/ CoveredFrom(b, (i + 1) + 1, y)
  BY <1>1 DEF OrphanInv, OrphanAt, Followed
<1>3. i \in Nat /\ (i + 1) + 1 >= 2 /\ ((i + 1) + 1) - 1 = i + 1 /\ (i + 1) + 1 \in Nat
  OBVIOUS
<1>4. ASSUME NEW z, z = up'[b][i] PROVE WaitedFor(b, z)' \/ CoveredFrom(b, i + 1, z)'
  <2>1. WaitedFor(b, z) \/ CoveredFrom(b, (i + 1) + 1, z)
    BY <1>1, <1>2, <1>4
  <2>2. WaitedFor(b, z) => WaitedFor(b, z)'
    BY DEF WaitedFor
  <2>3. CoveredFrom(b, (i + 1) + 1, z) => CoveredFrom(b, i + 1, z)'
    BY <1>3, CoveredAfterTail
  <2> QED BY <2>1, <2>2, <2>3
<1> QED BY <1>4 DEF Followed, WaitedFor, CoveredFrom

\* What is waited for and covered depends on b's requests and messages alone.
LEMMA OrphanSame ==
  ASSUME NEW b \in Browsers, requests'[b] = requests[b], up'[b] = up[b]
  PROVE  /\ \A y : WaitedFor(b, y)' = WaitedFor(b, y)
         /\ \A i, y : CoveredFrom(b, i, y)' = CoveredFrom(b, i, y)
         /\ \A i : Followed(b, i)' = Followed(b, i)
<1>1. \A y : WaitedFor(b, y)' = WaitedFor(b, y)
  BY DEF WaitedFor
<1>2. \A i, y : CoveredFrom(b, i, y)' = CoveredFrom(b, i, y)
  BY DEF CoveredFrom, Covers, Withdraws
<1>3. \A i : Followed(b, i)' = Followed(b, i)
  BY DEF Followed, WaitedFor, CoveredFrom, Covers, Withdraws
<1> QED BY <1>1, <1>2, <1>3

LEMMA OrphanStays ==
  ASSUME OrphanInv, NEW b \in Browsers, requests'[b] = requests[b], up'[b] = up[b],
         Entries(b)' \subseteq Entries(b)
  PROVE  OrphanAt(b)'
<1>1. OrphanAt(b)
  BY DEF OrphanInv
<1>2. \A x \in Entries(b)' : WaitedFor(b, x)' \/ CoveredFrom(b, 1, x)'
  BY <1>1, OrphanSame DEF OrphanAt
<1>3. \A i \in 1..Len(up'[b]) : up'[b][i].type = "query" => Followed(b, i)'
  BY <1>1, OrphanSame DEF OrphanAt
<1> QED BY <1>2, <1>3 DEF OrphanAt

\* The parts of the messages after an append.
LEMMA AppendFacts ==
  ASSUME TypeOK, NEW b \in Browsers, NEW m \in UpMessage, up'[b] = Append(up[b], m)
  PROVE  /\ Len(up[b]) \in Nat /\ Len(up'[b]) = Len(up[b]) + 1
         /\ up'[b][Len(up[b]) + 1] = m
         /\ \A i \in 1..Len(up[b]) : up'[b][i] = up[b][i]
  BY AppendProperties, LenProperties DEF TypeOK

LEMMA CoveredAfterAppend ==
  ASSUME TypeOK, NEW b \in Browsers, NEW m \in UpMessage, up'[b] = Append(up[b], m),
         NEW i \in Nat \ {0}, NEW y
  PROVE  /\ CoveredFrom(b, i, y) => CoveredFrom(b, i, y)'
         /\ Covers(m, y) /\ i <= Len(up[b]) + 1 => CoveredFrom(b, i, y)'
<1>0. \A n : Covers(n, y)' = Covers(n, y)
  BY DEF Covers, Withdraws
<1>1. CoveredFrom(b, i, y)' <=> \E j \in i..Len(up'[b]) : Covers(up'[b][j], y)
  BY <1>0 DEF CoveredFrom
<1>2. ASSUME NEW j \in i..Len(up[b]), Covers(up[b][j], y) PROVE CoveredFrom(b, i, y)'
  <2>1. j \in 1..Len(up[b]) /\ j \in i..Len(up'[b])
    BY AppendFacts
  <2>2. up'[b][j] = up[b][j]
    BY <2>1, AppendFacts
  <2> QED BY <1>1, <1>2, <2>1, <2>2
<1>3. ASSUME Covers(m, y), i <= Len(up[b]) + 1 PROVE CoveredFrom(b, i, y)'
  <2>1. Len(up[b]) + 1 \in i..Len(up'[b])
    BY <1>3, AppendFacts
  <2>2. up'[b][Len(up[b]) + 1] = m
    BY AppendFacts
  <2> QED BY <1>1, <1>3, <2>1, <2>2
<1> QED BY <1>2, <1>3 DEF CoveredFrom

\* A withdrawal covers what it leaves behind.
LEMMA OrphanWithdraws ==
  ASSUME TypeOK, OrphanInv, NEW b \in Browsers, WithdrawsRequests(b)
  PROVE  OrphanAt(b)'
<1>0. OrphanAt(b)
  BY DEF OrphanInv
<1>1. Entries(b)' = Entries(b)
  BY DEF WithdrawsRequests, SameDesk
<1>2. PICK c \in Nat, req \in Nat :
        /\ requests'[b] = requests[b] \ CanceledBy(b, c, req)
        /\ up'[b] = IF CanceledBy(b, c, req) = {} THEN up[b]
                    ELSE Append(up[b], CancelMsg(c, req))
  BY DEF WithdrawsRequests
<1>3. CASE CanceledBy(b, c, req) = {}
  BY <1>1, <1>2, <1>3, OrphanStays
<1>4. CASE CanceledBy(b, c, req) # {}
  <2> DEFINE m == CancelMsg(c, req)
  <2>1. m \in UpMessage /\ up'[b] = Append(up[b], m)
    BY <1>2, <1>4, MessagesTyped
  <2>2. ASSUME NEW y, WaitedFor(b, y), ~ WaitedFor(b, y)' PROVE Covers(m, y)
    <3>1. PICK r \in requests[b] : r.ctx = y.ctx /\ r.req = y.req /\ r.q = y.q
      BY <2>2 DEF WaitedFor
    <3>2. r \in CanceledBy(b, c, req)
      BY <1>2, <2>2, <3>1 DEF WaitedFor
    <3>3. r.ctx = c /\ (req = kReservedId \/ r.req = req)
      BY <3>2 DEF CanceledBy
    <3>4. m.type = "cancel" /\ m.ctx = c /\ m.req = req
      BY DEF CancelMsg
    <3> QED BY <3>1, <3>3, <3>4 DEF Covers, Withdraws
  <2> HIDE DEF m
  <2>3. Len(up[b]) \in Nat
    BY <2>1, AppendFacts
  <2>4. ASSUME NEW x \in Entries(b)' PROVE WaitedFor(b, x)' \/ CoveredFrom(b, 1, x)'
    <3>1. WaitedFor(b, x) \/ CoveredFrom(b, 1, x)
      BY <1>0, <1>1 DEF OrphanAt
    <3>2. CoveredFrom(b, 1, x) => CoveredFrom(b, 1, x)'
      BY <2>1, CoveredAfterAppend
    <3>3. Covers(m, x) => CoveredFrom(b, 1, x)'
      BY <2>1, <2>3, CoveredAfterAppend
    <3> QED BY <2>2, <3>1, <3>2, <3>3
  <2>5. ASSUME NEW i \in 1..Len(up'[b]), up'[b][i].type = "query" PROVE Followed(b, i)'
    <3>1. i \in 1..Len(up[b]) /\ up'[b][i] = up[b][i]
      <4>1. i \in 1..Len(up[b]) \/ i = Len(up[b]) + 1
        BY <2>1, <2>3, AppendFacts
      <4>2. up'[b][Len(up[b]) + 1].type = "cancel"
        BY <2>1, AppendFacts DEF m, CancelMsg
      <4> QED BY <2>1, <2>5, <4>1, <4>2, AppendFacts
    <3>2. WaitedFor(b, up[b][i]) \/ CoveredFrom(b, i + 1, up[b][i])
      BY <1>0, <2>5, <3>1 DEF OrphanAt, Followed
    <3>3. ASSUME NEW z, z = up'[b][i] PROVE WaitedFor(b, z)' \/ CoveredFrom(b, i + 1, z)'
      <4>1. WaitedFor(b, z) \/ CoveredFrom(b, i + 1, z)
        BY <3>1, <3>2, <3>3
      <4>2. i + 1 \in Nat \ {0} /\ i + 1 <= Len(up[b]) + 1
        BY <2>3, <3>1
      <4>3. CoveredFrom(b, i + 1, z) => CoveredFrom(b, i + 1, z)'
        BY <2>1, <4>2, CoveredAfterAppend
      <4>4. Covers(m, z) => CoveredFrom(b, i + 1, z)'
        BY <2>1, <4>2, CoveredAfterAppend
      <4> QED BY <2>2, <4>1, <4>3, <4>4
    <3> QED BY <3>3 DEF Followed, WaitedFor, CoveredFrom
  <2> QED BY <2>4, <2>5 DEF OrphanAt
<1> QED BY <1>3, <1>4

\* What still waits for r when its last reply is heard is nothing.
LEMMA LastHeard ==
  ASSUME TypeOK, KeyInv, DeskInv, TasksInv, AgreeInv, NoQueryLost, NEW b \in Browsers,
         HearsReply(b), NEW r \in requests[b], r \notin requests'[b]
  PROVE  /\ \A x \in Entries(b) : x.q # r.q
         /\ \A m \in QueriesSent(b) : m.q # r.q
<1> DEFINE a == Head(rtasks[b])
           A == LastAnswers(r)
<1>1. /\ rtasks[b] \in Seq(Answer) /\ rtasks[b] # <<>>
      /\ requests'[b] = requests[b] \ RemovedRequests(b, a)
  BY DEF TypeOK, HearsReply
<1>2. a \in Elems(rtasks[b]) /\ a \in Answer /\ Tail(rtasks[b]) \in Seq(Answer)
  BY <1>1, ElemsOfTail
<1>3. Count(rtasks[b], A) = Count(Tail(rtasks[b]), A) + (IF a \in A THEN 1 ELSE 0)
  BY <1>1, CountOfTail
<1> HIDE DEF a
<1>4. r.ctx = a.ctx /\ r.req = a.req /\ (~a.ok \/ ~r.pers)
  BY <1>1 DEF RemovedRequests, GetRequestInfo
<1>5. a.q = r.q
  BY <1>2, <1>4, KeysImplyMatch DEF AnswerMatchesQuery
<1>6. a \in A
  <2>1. a = AnswerTo(r, a.ok) /\ a.ok \in BOOLEAN
    BY <1>2, <1>4, <1>5 DEF Answer, AnswerTo
  <2> QED BY <1>4, <2>1, LastAnswersAre
<1> HIDE DEF A
<1>7. Count(Tail(rtasks[b]), A) \in Nat
  BY <1>2, CountTyped
<1>8. Count(rtasks[b], A) >= 1
  BY <1>3, <1>6, <1>7
<1>9. Ways(b, r) \in {0, 1}
  BY LostParts DEF LostAt
<1>10. Ways(b, r) = Count(up[b], {QueryMsg(r)}) + HeldCount(b, r.q) + (Count(down[b], A) + Count(rtasks[b], A))
  BY WaysParts DEF A
<1>11. Count(up[b], {QueryMsg(r)}) \in Nat /\ HeldCount(b, r.q) \in {0, 1} /\ Count(down[b], A) \in Nat
       /\ Count(rtasks[b], A) \in Nat
  BY WaysTyped DEF A
<1>12. Count(up[b], {QueryMsg(r)}) = 0 /\ HeldCount(b, r.q) = 0
  BY <1>8, <1>9, <1>10, <1>11
<1>13. \A x \in Entries(b) : x.q # r.q
  BY <1>12 DEF HeldCount, Held
<1>14. \A m \in QueriesSent(b) : m.q # r.q
  <2>1. \A m \in Elems(up[b]) : m \notin {QueryMsg(r)}
    <3>1. up[b] \in Seq(UpMessage)
      BY DEF TypeOK
    <3> QED BY <1>12, <3>1, CountNone
  <2>2. \A m \in QueriesSent(b) : m.q = r.q => m = QueryMsg(r)
    BY MatchesRequest
  <2> QED BY <2>1, <2>2 DEF QueriesSent
<1> QED BY <1>13, <1>14


\* A reply is heard: nothing else was left of the request it ends.
LEMMA OrphanHears ==
  ASSUME TypeOK, KeyInv, DeskInv, TasksInv, AgreeInv, NoQueryLost, OrphanInv, NEW b \in Browsers,
         HearsReply(b)
  PROVE  OrphanAt(b)'
<1>0. OrphanAt(b)
  BY DEF OrphanInv
<1>1. Entries(b)' = Entries(b) /\ up'[b] = up[b] /\ requests'[b] \subseteq requests[b]
  BY DEF HearsReply, SameUp, SameDesk
<1>2. \A i, y : CoveredFrom(b, i, y)' = CoveredFrom(b, i, y)
  BY <1>1 DEF CoveredFrom, Covers, Withdraws
<1>3. ASSUME NEW y \in Entries(b) \cup QueriesSent(b), WaitedFor(b, y) PROVE WaitedFor(b, y)'
  <2>1. PICK r \in requests[b] : r.ctx = y.ctx /\ r.req = y.req /\ r.q = y.q
    BY <1>3 DEF WaitedFor
  <2>2. r \in requests'[b]
    BY <2>1, LastHeard
  <2> QED BY <2>1, <2>2 DEF WaitedFor
<1>4. \A x \in Entries(b)' : WaitedFor(b, x)' \/ CoveredFrom(b, 1, x)'
  BY <1>0, <1>1, <1>2, <1>3 DEF OrphanAt
<1>5. ASSUME NEW i \in 1..Len(up'[b]), up'[b][i].type = "query" PROVE Followed(b, i)'
  <2>1. up[b][i] \in QueriesSent(b) /\ i \in 1..Len(up[b]) /\ up[b][i].type = "query"
    <3>1. DOMAIN up[b] = 1..Len(up[b])
      BY LenProperties DEF TypeOK
    <3> QED BY <1>1, <1>5, <3>1 DEF QueriesSent, Elems
  <2>2. WaitedFor(b, up[b][i]) \/ CoveredFrom(b, i + 1, up[b][i])
    BY <1>0, <2>1 DEF OrphanAt, Followed
  <2>3. ASSUME NEW z, z = up[b][i] PROVE WaitedFor(b, z)' \/ CoveredFrom(b, i + 1, z)'
    BY <1>2, <1>3, <2>1, <2>2, <2>3
  <2> QED BY <1>1, <2>3 DEF Followed, WaitedFor, CoveredFrom
<1> QED BY <1>4, <1>5 DEF OrphanAt

\* A query message is processed: refused, or turned into an entry.
LEMMA OrphanQueryTaken ==
  ASSUME TypeOK, OrphanInv, NEW b \in Browsers, TakesMessage(b, "query"),
         requests'[b] = requests[b],
         \A x \in Entries(b)' : x \in Entries(b) \/ QueryMsg(x) = QueryMsg(Head(up[b]))
  PROVE  OrphanAt(b)'
<1>0. OrphanAt(b)
  BY DEF OrphanInv
<1>1. \A y : WaitedFor(b, y) => WaitedFor(b, y)'
  BY DEF WaitedFor
<1>2. up[b][1].type = "query" /\ up[b][1] = Head(up[b]) /\ 1 \in 1..Len(up[b])
  BY TailFacts
<1>3. ASSUME NEW y, CoveredFrom(b, 2, y) PROVE CoveredFrom(b, 1, y)'
  <2>1. CoveredFrom(b, 2 - 1, y)'
    BY <1>3, CoveredAfterTail
  <2>2. 2 - 1 = 1
    OBVIOUS
  <2> QED BY <2>1, <2>2
<1>4. ASSUME NEW x \in Entries(b)' PROVE WaitedFor(b, x)' \/ CoveredFrom(b, 1, x)'
  <2>1. CASE x \in Entries(b)
    <3>1. WaitedFor(b, x) \/ CoveredFrom(b, 1, x)
      BY <1>0, <2>1 DEF OrphanAt
    <3>2. ASSUME CoveredFrom(b, 1, x) PROVE CoveredFrom(b, 2, x)
      <4>1. PICK j \in 1..Len(up[b]) : Covers(up[b][j], x)
        BY <3>2 DEF CoveredFrom
      <4>2. j # 1
        BY <1>2, <4>1 DEF Covers, Withdraws
      <4>3. j \in 2..Len(up[b])
        BY <4>2
      <4> QED BY <4>1, <4>3 DEF CoveredFrom
    <3> QED BY <1>1, <1>3, <3>1, <3>2
  <2>2. CASE QueryMsg(x) = QueryMsg(up[b][1])
    <3> DEFINE m == up[b][1]
    <3>1. WaitedFor(b, m) \/ CoveredFrom(b, 1 + 1, m)
      BY <1>0, <1>2 DEF OrphanAt, Followed
    <3>2. 1 + 1 = 2
      OBVIOUS
    <3> HIDE DEF m
    <3>3. x.ctx = m.ctx /\ x.req = m.req /\ x.q = m.q
      BY <2>2 DEF QueryMsg, m
    <3>4. WaitedFor(b, m) => WaitedFor(b, x)
      BY <3>3 DEF WaitedFor
    <3>5. CoveredFrom(b, 2, m) => CoveredFrom(b, 2, x)
      BY <3>3 DEF CoveredFrom, Covers, Withdraws
    <3> QED BY <1>1, <1>3, <3>1, <3>2, <3>4, <3>5
  <2> QED BY <1>2, <2>1, <2>2
<1>5. ASSUME NEW i \in 1..Len(up'[b]), up'[b][i].type = "query" PROVE Followed(b, i)'
  BY <1>5, TailKeepsMessages
<1> QED BY <1>4, <1>5 DEF OrphanAt

\* A cancel message is processed: what it covered and leaves behind is covered
\* by the notice of the process's death.
LEMMA OrphanCancels ==
  ASSUME TypeOK, KeyInv, DeskInv, OrphanInv, NEW b \in Browsers, CancelsRequest(b)
  PROVE  OrphanAt(b)'
<1> DEFINE m == Head(up[b])
<1>0. OrphanAt(b)
  BY DEF OrphanInv
<1>1. /\ TakesMessage(b, "cancel") /\ requests'[b] = requests[b]
      /\ Entries(b)' = Entries(b) \ CanceledRequest(b, m)
  BY DEF CancelsRequest, SamePage
<1>2. up[b][1].type = "cancel" /\ up[b][1] = m /\ Len(up[b]) \in Nat \ {0}
  BY <1>1, TailFacts
<1>3. \A y : WaitedFor(b, y) => WaitedFor(b, y)'
  BY <1>1 DEF WaitedFor
<1>4. ASSUME NEW y, CoveredFrom(b, 2, y) PROVE CoveredFrom(b, 1, y)'
  <2>1. CoveredFrom(b, 2 - 1, y)'
    BY <1>1, <1>4, CoveredAfterTail
  <2>2. 2 - 1 = 1
    OBVIOUS
  <2> QED BY <2>1, <2>2
<1> HIDE DEF m
<1>5. ASSUME NEW x \in Entries(b)', Covers(m, x) PROVE CoveredFrom(b, 2, x)
  <2>1. Withdraws(m, x) /\ x \in Entries(b) /\ x \in queries
    BY <1>1, <1>2, <1>5, EntriesTyped DEF Covers
  <2> DEFINE match == {y \in OfBrowser(queries, b) :
                         y.ctx = m.ctx /\ (m.req = kReservedId \/ y.req = m.req)}
  <2>2. x \in match
    BY <2>1 DEF Withdraws, Entries
  <2>3. CanceledRequest(b, m) = IF m.req = kReservedId THEN match
                                ELSE {y \in match : \A z \in match : y.id <= z.id}
    BY DEF CanceledRequest
  <2>4. PICK z \in match : m.req # kReservedId /\ ~(x.id <= z.id)
    BY <1>1, <2>2, <2>3
  <2>5. z \in queries /\ z \in OfBrowser(queries, b) /\ z.req = x.req /\ z # x
    BY <2>1, <2>2, <2>4, EntryParts DEF OfBrowser
  <2>6. proc[b] # "running"
    <3> SUFFICES ASSUME proc[b] = "running" PROVE FALSE
      OBVIOUS
    <3>1. KeyOf(z) \in KeysInFlight(b) /\ KeyOf(x) \in KeysInFlight(b)
      BY <2>1, <2>5, KeysOfPlaces DEF Entries
    <3>2. KeyOf(z)[1] = KeyOf(x)[1]
      BY <2>5 DEF KeyOf
    <3>3. KeyOf(z)[2] = KeyOf(x)[2]
      BY <3>1, <3>2 DEF KeyInv, KeysUnique
    <3>4. z.q = x.q
      BY <3>3 DEF KeyOf
    <3>5. z \in Held(b, x.q) /\ x \in Held(b, x.q)
      BY <2>1, <2>5, <3>4 DEF Held, Entries
    <3> QED BY <2>5, <3>5, HeldOnce
  <2>7. proc[b] = "dead"
    <3>1. proc[b] = "closed" => up[b] = <<>>
      BY <2>6 DEF KeyInv, DeadIsEmpty
    <3> QED BY <1>1, <2>6, <3>1 DEF TypeOK, TakesMessage
  <2>8. up[b][Len(up[b])].type = "gone" /\ Len(up[b]) # 1
    BY <1>2, <2>7 DEF KeyInv, GoneIsLast
  <2>9. Len(up[b]) \in 2..Len(up[b])
    BY <1>2, <2>8
  <2> QED BY <2>8, <2>9 DEF CoveredFrom, Covers
<1>6. ASSUME NEW x \in Entries(b)' PROVE WaitedFor(b, x)' \/ CoveredFrom(b, 1, x)'
  <2>1. WaitedFor(b, x) \/ CoveredFrom(b, 1, x)
    BY <1>0, <1>1 DEF OrphanAt
  <2>2. ASSUME CoveredFrom(b, 1, x) PROVE CoveredFrom(b, 2, x) \/ Covers(m, x)
    <3>1. PICK j \in 1..Len(up[b]) : Covers(up[b][j], x)
      BY <2>2 DEF CoveredFrom
    <3>2. j = 1 \/ j \in 2..Len(up[b])
      OBVIOUS
    <3> QED BY <1>2, <3>1, <3>2 DEF CoveredFrom
  <2> QED BY <1>3, <1>4, <1>5, <2>1, <2>2
<1>7. ASSUME NEW i \in 1..Len(up'[b]), up'[b][i].type = "query" PROVE Followed(b, i)'
  BY <1>1, <1>7, TailKeepsMessages
<1> QED BY <1>6, <1>7 DEF OrphanAt

\* The process is gone: the notice is the last message, and nothing is left
\* once it is processed.
LEMMA OrphanBuries ==
  ASSUME TypeOK, KeyInv, NEW b \in Browsers, BuriesRenderer(b)
  PROVE  OrphanAt(b)'
<1>1. TakesMessage(b, "gone") /\ Entries(b)' = {}
  BY DEF BuriesRenderer
<1>2. up[b][1].type = "gone" /\ Len(up[b]) \in Nat \ {0} /\ Len(up'[b]) = Len(up[b]) - 1
  BY <1>1, TailFacts
<1>3. Len(up[b]) = 1
  <2>1. 1 \in 1..Len(up[b])
    BY <1>2
  <2>2. up[b][1].type = "gone" => 1 = Len(up[b])
    BY <2>1 DEF KeyInv, GoneIsLast
  <2> QED BY <1>2, <2>2
<1> QED BY <1>1, <1>2, <1>3 DEF OrphanAt

LEMMA OrphanLoses ==
  ASSUME TypeOK, NEW b \in Browsers, LosesRenderer(b)
  PROVE  OrphanAt(b)'
<1>1. PICK n \in 0..Len(up[b]) : up'[b] = Append(SubSeq(up[b], 1, n), GoneMsg)
  BY DEF LosesRenderer
<1>2. up[b] \in Seq(UpMessage) /\ Len(up[b]) \in Nat
  BY LenProperties DEF TypeOK
<1>3. SubSeq(up[b], 1, n) \in Seq(UpMessage) /\ Len(SubSeq(up[b], 1, n)) = n
  BY <1>2, SubSeqProperties
<1>4. Len(up'[b]) = n + 1 /\ up'[b][n + 1] = GoneMsg
  <2>1. GoneMsg \in UpMessage
    BY MessagesTyped
  <2> QED BY <1>1, <1>3, <2>1, AppendProperties
<1>5. GoneMsg.type = "gone"
  BY DEF GoneMsg
<1>6. \A i \in 1..(n + 1) : \A y : CoveredFrom(b, i, y)'
  BY <1>4, <1>5 DEF CoveredFrom, Covers
<1>7. \A x \in Entries(b)' : WaitedFor(b, x)' \/ CoveredFrom(b, 1, x)'
  BY <1>2, <1>6
<1>8. ASSUME NEW i \in 1..Len(up'[b]), up'[b][i].type = "query" PROVE Followed(b, i)'
  <2>1. i # n + 1
    BY <1>4, <1>5, <1>8
  <2>2. i + 1 \in 1..(n + 1)
    BY <1>4, <2>1
  <2>3. \A z : CoveredFrom(b, i + 1, z)'
    BY <1>6, <2>2
  <2> QED BY <2>3 DEF Followed, CoveredFrom
<1> QED BY <1>7, <1>8 DEF OrphanAt

LEMMA OrphanCloses ==
  ASSUME NEW b \in Browsers, Closes(b)
  PROVE  OrphanAt(b)'
<1>1. Entries(b)' = {} /\ up'[b] = <<>>
  BY DEF Closes
<1>2. Len(up'[b]) = 0
  BY <1>1
<1> QED BY <1>1, <1>2 DEF OrphanAt

\* cefQuery: the new message's request is there.
LEMMA OrphanQuery ==
  ASSUME TypeOK, OrphanInv, NEW a \in Browsers, NEW f \in Frames, NEW pers \in Persistence,
         CefQuery(a, f, pers), NEW b \in Browsers
  PROVE  OrphanAt(b)'
<1>0. OrphanAt(b)
  BY DEF OrphanInv
<1>1. UNCHANGED queries
  BY AskedQuery DEF browserVars
<1>2. PICK r \in Request :
        /\ r.q = issued + 1
        /\ requests'[a] = requests[a] \cup {r}
        /\ QueryMsg(r) \in UpMessage
        /\ up'[a] = Append(up[a], QueryMsg(r))
        /\ \A c \in Browsers : c # a => requests'[c] = requests[c] /\ up'[c] = up[c]
  BY AskedQuery
<1>3. Entries(b)' = Entries(b)
  BY <1>1 DEF Entries, OfBrowser
<1>4. CASE b # a
  BY <1>2, <1>3, <1>4, OrphanStays
<1>5. CASE b = a
  <2> DEFINE m == QueryMsg(r)
  <2>1. m \in UpMessage /\ up'[b] = Append(up[b], m) /\ requests'[b] = requests[b] \cup {r}
    BY <1>2, <1>5
  <2>2. m.ctx = r.ctx /\ m.req = r.req /\ m.q = r.q
    BY DEF QueryMsg
  <2> HIDE DEF m
  <2>3. WaitedFor(b, m)' /\ \A y : WaitedFor(b, y) => WaitedFor(b, y)'
    BY <2>1, <2>2 DEF WaitedFor
  <2>4. \A y : CoveredFrom(b, 1, y) => CoveredFrom(b, 1, y)'
    BY <2>1, CoveredAfterAppend
  <2>5. \A x \in Entries(b)' : WaitedFor(b, x)' \/ CoveredFrom(b, 1, x)'
    BY <1>0, <1>3, <2>3, <2>4 DEF OrphanAt
  <2>6. ASSUME NEW i \in 1..Len(up'[b]), up'[b][i].type = "query" PROVE Followed(b, i)'
    <3>1. Len(up[b]) \in Nat /\ (i \in 1..Len(up[b]) \/ i = Len(up[b]) + 1)
      BY <2>1, AppendFacts
    <3>2. ASSUME NEW z, z = up'[b][i] PROVE WaitedFor(b, z)' \/ CoveredFrom(b, i + 1, z)'
      <4>1. CASE i = Len(up[b]) + 1
        <5>1. z = m
          BY <2>1, <3>2, <4>1, AppendFacts
        <5> QED BY <2>3, <5>1
      <4>2. CASE i \in 1..Len(up[b])
        <5>1. z = up[b][i]
          BY <2>1, <3>2, <4>2, AppendFacts
        <5>2. WaitedFor(b, z) \/ CoveredFrom(b, i + 1, z)
          BY <1>0, <2>6, <3>2, <4>2, <5>1 DEF OrphanAt, Followed
        <5>3. CoveredFrom(b, i + 1, z) => CoveredFrom(b, i + 1, z)'
          <6>1. i + 1 \in Nat \ {0}
            OBVIOUS
          <6> QED BY <2>1, <6>1, CoveredAfterAppend
        <5> QED BY <2>3, <5>2, <5>3
      <4> QED BY <3>1, <4>1, <4>2
    <3> QED BY <3>2 DEF Followed, WaitedFor, CoveredFrom
  <2> QED BY <2>5, <2>6 DEF OrphanAt
<1> QED BY <1>4, <1>5

LEMMA OrphanStep ==
  ASSUME TypeOK, KeyInv, DeskInv, TasksInv, ContextInv, AgreeInv, NoQueryLost, OrphanInv,
         [Next]_vars
  PROVE  OrphanInv'
<1> SUFFICES ASSUME NEW b \in Browsers PROVE OrphanAt(b)'
  BY DEF OrphanInv
<1>1. CASE \E a \in Browsers, f \in Frames, pers \in Persistence : CefQuery(a, f, pers)
  BY <1>1, OrphanQuery
<1>2. CASE ~ \E a \in Browsers, f \in Frames, pers \in Persistence : CefQuery(a, f, pers)
  <2>0. BrowserStep(b)
    BY <1>2, BrowserSteps
  <2>1. CASE Stays(b) \/ ReceivesReply(b) \/ CancelsEntries(b) \/ AnswersEntry(b) \/ DropsEntries(b)
    <3>1. requests'[b] = requests[b] /\ up'[b] = up[b] /\ Entries(b)' \subseteq Entries(b)
      BY <2>1 DEF Stays, ReceivesReply, CancelsEntries, AnswersEntry, DropsEntries, SamePage,
         SameUp, SameDesk
    <3> QED BY <3>1, OrphanStays
  <2>2. CASE RefusesQuery(b) \/ AcceptsQuery(b)
    <3>1. TakesMessage(b, "query") /\ requests'[b] = requests[b]
          /\ \A x \in Entries(b)' : x \in Entries(b) \/ QueryMsg(x) = QueryMsg(Head(up[b]))
      BY <2>2 DEF RefusesQuery, AcceptsQuery, SamePage
    <3> QED BY <3>1, OrphanQueryTaken
  <2> QED BY <2>0, <2>1, <2>2, OrphanWithdraws, OrphanHears, OrphanCancels, OrphanBuries,
             OrphanLoses, OrphanCloses DEF BrowserStep
<1> QED BY <1>1, <1>2

LEMMA OrphanInit == Init => OrphanInv
<1> SUFFICES ASSUME Init, NEW b \in Browsers PROVE OrphanAt(b)
  BY DEF OrphanInv
<1>1. Entries(b) = {} /\ up[b] = <<>>
  BY DEF Init, Entries, OfBrowser
<1>2. Len(up[b]) = 0
  BY <1>1
<1> QED BY <1>1, <1>2 DEF OrphanAt

LEMMA OrphanImplies == TypeOK /\ OrphanInv => NoEntryOrphaned
<1> SUFFICES ASSUME TypeOK, OrphanInv, NEW x \in queries
             PROVE  \/ \E r \in requests[x.browser] : r.q = x.q /\ r.ctx = x.ctx /\ r.req = x.req
                    \/ \E m \in Elems(up[x.browser]) :
                         \/ m.type = "gone"
                         \/ m.type = "cancel" /\ m.ctx = x.ctx /\ m.req \in {kReservedId, x.req}
  BY DEF NoEntryOrphaned
<1>1. x.browser \in Browsers /\ x \in Entries(x.browser)
  BY EntryParts DEF Entries, OfBrowser
<1>2. WaitedFor(x.browser, x) \/ CoveredFrom(x.browser, 1, x)
  BY <1>1 DEF OrphanInv, OrphanAt
<1>3. CASE WaitedFor(x.browser, x)
  BY <1>3 DEF WaitedFor
<1>4. CASE CoveredFrom(x.browser, 1, x)
  <2>1. PICK j \in 1..Len(up[x.browser]) : Covers(up[x.browser][j], x)
    BY <1>4 DEF CoveredFrom
  <2>2. DOMAIN up[x.browser] = 1..Len(up[x.browser])
    BY <1>1, LenProperties DEF TypeOK
  <2>3. up[x.browser][j] \in Elems(up[x.browser])
    BY <2>1, <2>2 DEF Elems
  <2> QED BY <2>1, <2>3 DEF Covers, Withdraws
<1> QED BY <1>2, <1>3, <1>4

\* An entry whose page does not wait any more is on its way to be canceled
\* (NoEntryOrphaned).
THEOREM EntriesAreCovered == Spec => []NoEntryOrphaned
<1>1. TypeOK /\ KeyInv /\ DeskInv /\ TasksInv /\ ContextInv /\ AgreeInv /\ NoQueryLost /\ OrphanInv
        /\ [Next]_vars => OrphanInv'
  BY OrphanStep
<1>2. Spec => []OrphanInv
  BY <1>1, OrphanInit, TypeCorrect, KeysInvariant, DeskInvariant, ContextInvariant,
     AgreeInvariant, NoQueryIsLost, PTL DEF Spec
<1>3. TypeOK /\ OrphanInv => NoEntryOrphaned
  BY OrphanImplies
<1> QED BY <1>2, <1>3, TypeCorrect, PTL

-----------------------------------------------------------------------------
(* The page hears no more than the handler said, and one end at most.      *)

\* The successes of a callback that are posted, and those of a request that
\* are on their way to its page or were heard there.
SuccessTasks(id) == {t \in UiTask : t.kind = "OnCallbackSuccess" /\ t.id = id}
Owed(c) == Count(uiTasks, SuccessTasks(c.id))
Heading(b, r) == Count(down[b], {AnswerTo(r, TRUE)}) + Count(rtasks[b], {AnswerTo(r, TRUE)})
HeardInv ==
  /\ \A q \in Uids : got[q] <= said[q]
  /\ \A b \in Browsers : \A r \in requests[b] :
       /\ got[r.q] + Heading(b, r) <= said[r.q]
       /\ \A c \in callbacks : c.q = r.q => got[r.q] + Heading(b, r) + Owed(c) <= said[r.q]

\* A query the page has heard the end of is not open and not on its way.
DoneInv ==
  /\ \A q \in done : q <= issued
  /\ \A b \in Browsers : \A y \in requests[b] \cup QueriesSent(b) : y.q \notin done

LEMMA CountInTail ==
  ASSUME NEW T, NEW s \in Seq(T), s # <<>>, NEW S
  PROVE  Count(Tail(s), S) <= Count(s, S) /\ (Head(s) \in S => Count(Tail(s), S) + 1 = Count(s, S))
<1>1. Count(s, S) = Count(Tail(s), S) + (IF Head(s) \in S THEN 1 ELSE 0)
  BY CountOfTail
<1>2. Tail(s) \in Seq(T)
  BY ElemsOfTail
<1>3. Count(Tail(s), S) \in Nat
  BY <1>2, CountTyped
<1>4. CASE Head(s) \in S
  BY <1>1, <1>3, <1>4
<1>5. CASE Head(s) \notin S
  BY <1>1, <1>3, <1>5
<1> QED BY <1>4, <1>5

LEMMA OwedTyped ==
  ASSUME TypeOK, NEW c \in callbacks
  PROVE  Owed(c) \in Nat /\ c.q \in Uids /\ said[c.q] \in Nat /\ got[c.q] \in Nat
<1>1. uiTasks \in Seq(UiTask) /\ c \in CallbackImpl /\ said \in [Uids -> Nat] /\ got \in [Uids -> Nat]
  BY DEF TypeOK
<1>2. c.q \in Uids
  BY <1>1 DEF CallbackImpl
<1> QED BY <1>1, <1>2, CountTyped DEF Owed

\* A callback's posted successes grow only with what it said.
LEMMA OwedStep ==
  ASSUME TypeOK, DeskInv, [Next]_vars, NEW c \in callbacks
  PROVE  said'[c.q] >= said[c.q] /\ Owed(c)' + said[c.q] <= Owed(c) + said'[c.q]
<1>0. /\ uiTasks \in Seq(UiTask) /\ said \in [Uids -> Nat] /\ c.q \in Uids
      /\ Owed(c) \in Nat /\ said[c.q] \in Nat
  BY OwedTyped DEF TypeOK
<1>1. /\ Owed(c) = Count(uiTasks, SuccessTasks(c.id))
      /\ Owed(c)' = Count(uiTasks', SuccessTasks(c.id))
  BY DEF Owed, SuccessTasks, UiTask
<1>2. ASSUME NEW t \in UiTask, t.kind # "OnCallbackSuccess", NEW rest \in Seq(UiTask),
             uiTasks' = Append(rest, t)
      PROVE  Owed(c)' = Count(rest, SuccessTasks(c.id))
  <2>1. t \notin SuccessTasks(c.id)
    BY <1>2 DEF SuccessTasks
  <2>2. Count(Append(rest, t), SuccessTasks(c.id))
          = Count(rest, SuccessTasks(c.id)) + (IF t \in SuccessTasks(c.id) THEN 1 ELSE 0)
    BY CountOfAppend
  <2>3. Count(rest, SuccessTasks(c.id)) \in Nat
    BY CountTyped
  <2> QED BY <1>1, <1>2, <2>1, <2>2, <2>3
<1>3. ASSUME uiTasks # <<>>
      PROVE  Tail(uiTasks) \in Seq(UiTask) /\ Count(Tail(uiTasks), SuccessTasks(c.id)) <= Owed(c)
  BY <1>0, <1>1, <1>3, CountInTail, ElemsOfTail
<1>4. CASE DeskStill
  <2>1. said' = said
    BY <1>4 DEF DeskStill
  <2>2. CASE uiTasks' = uiTasks
    BY <1>0, <1>1, <2>1, <2>2
  <2>3. CASE uiTasks' # uiTasks
    <3>1. PICK t \in UiTask : t.kind \notin AnswerKinds /\ uiTasks' = Append(uiTasks, t)
      BY <1>4, <2>3 DEF DeskStill, QueuesTask
    <3>2. t.kind # "OnCallbackSuccess"
      BY <3>1 DEF AnswerKinds
    <3>3. Owed(c)' = Owed(c)
      BY <1>0, <1>1, <1>2, <3>1, <3>2
    <3> QED BY <1>0, <2>1, <3>3
  <2> QED BY <2>2, <2>3
<1>5. CASE DeskCancel \/ OnCallback(TRUE) \/ OnCallback(FALSE)
  <2>1. said' = said /\ (uiTasks' = uiTasks \/ (uiTasks # <<>> /\ uiTasks' = Tail(uiTasks)))
    BY <1>5 DEF DeskCancel, OnCallback, TaskTaken
  <2>2. Owed(c)' <= Owed(c)
    <3>1. CASE uiTasks' = uiTasks
      BY <1>0, <1>1, <3>1
    <3>2. CASE uiTasks # <<>> /\ uiTasks' = Tail(uiTasks)
      <4>1. Count(Tail(uiTasks), SuccessTasks(c.id)) <= Owed(c)
        BY <1>3, <3>2
      <4> QED BY <1>1, <3>2, <4>1
    <3> QED BY <2>1, <3>1, <3>2
  <2>3. Owed(c)' \in Nat
    BY <1>0, <1>1, <1>3, <2>1, CountTyped
  <2> QED BY <1>0, <2>1, <2>2, <2>3
<1>6. CASE DeskAccept
  <2>1. said' = said /\ uiTasks' = uiTasks
    BY <1>6 DEF DeskAccept
  <2> QED BY <1>0, <1>1, <2>1
<1>7. CASE DeskAnswer
  <2>1. PICK d \in callbacks, rest \in Seq(UiTask) :
          /\ rest = uiTasks \/ (TaskTaken({"Success", "Failure"}) /\ rest = Tail(uiTasks))
          /\ Success(d, rest) \/ Failure(d, rest)
    BY <1>7 DEF DeskAnswer
  <2>2. Count(rest, SuccessTasks(c.id)) \in Nat /\ Count(rest, SuccessTasks(c.id)) <= Owed(c)
    <3>1. Count(rest, SuccessTasks(c.id)) \in Nat
      BY CountTyped
    <3>2. rest = uiTasks \/ (uiTasks # <<>> /\ rest = Tail(uiTasks))
      BY <2>1 DEF TaskTaken
    <3>3. CASE rest = uiTasks
      BY <1>0, <1>1, <3>1, <3>3
    <3>4. CASE uiTasks # <<>> /\ rest = Tail(uiTasks)
      <4>1. Count(Tail(uiTasks), SuccessTasks(c.id)) <= Owed(c)
        BY <1>3, <3>4
      <4> QED BY <3>1, <3>4, <4>1
    <3> QED BY <3>2, <3>3, <3>4
  <2>3. d.id \in Nat /\ d.q \in Uids /\ said[d.q] \in Nat
    BY OwedTyped DEF TypeOK, CallbackImpl
  <2>4. CASE Success(d, rest) /\ d.id \in attached
    <3> DEFINE t == CallbackTask("OnCallbackSuccess", d.id)
    <3>1. uiTasks' = Append(rest, t) /\ said' = [said EXCEPT ![d.q] = said[d.q] + 1]
      BY <2>4 DEF Success
    <3>2. t \in UiTask /\ t.id = d.id
      BY <2>3, TasksTyped DEF CallbackTask
    <3> HIDE DEF t
    <3>3. Count(Append(rest, t), SuccessTasks(c.id))
            = Count(rest, SuccessTasks(c.id)) + (IF t \in SuccessTasks(c.id) THEN 1 ELSE 0)
      BY <3>2, CountOfAppend
    <3>4. CASE d = c
      <4>1. said'[c.q] = said[c.q] + 1
        BY <1>0, <3>1, <3>4
      <4>2. Owed(c)' <= Count(rest, SuccessTasks(c.id)) + 1 /\ Owed(c)' \in Nat
        BY <1>1, <2>2, <3>1, <3>3
      <4> QED BY <1>0, <2>2, <4>1, <4>2
    <3>5. CASE d # c
      <4>1. d.id # c.id /\ d.q # c.q
        BY <3>5 DEF DeskInv
      <4>2. said'[c.q] = said[c.q]
        BY <1>0, <3>1, <4>1
      <4>3. t \notin SuccessTasks(c.id)
        BY <3>2, <4>1 DEF SuccessTasks
      <4>4. Owed(c)' = Count(rest, SuccessTasks(c.id))
        BY <1>1, <2>2, <3>1, <3>3, <4>3
      <4> QED BY <1>0, <2>2, <4>2, <4>4
    <3> QED BY <3>4, <3>5
  <2>5. CASE ~(Success(d, rest) /\ d.id \in attached)
    <3>1. said' = said
      BY <2>1, <2>5 DEF Success, Failure
    <3>2. uiTasks' = rest \/ uiTasks' = Append(rest, CallbackTask("OnCallbackFailure", d.id))
      BY <2>1, <2>5 DEF Success, Failure
    <3>3. /\ CallbackTask("OnCallbackFailure", d.id) \in UiTask
          /\ CallbackTask("OnCallbackFailure", d.id).kind # "OnCallbackSuccess"
      BY <2>3, TasksTyped DEF CallbackTask
    <3>4. Owed(c)' = Count(rest, SuccessTasks(c.id))
      BY <1>1, <1>2, <3>2, <3>3
    <3> QED BY <1>0, <2>2, <3>1, <3>4
  <2> QED BY <2>4, <2>5
<1> QED BY <1>4, <1>5, <1>6, <1>7, DeskSteps DEF DeskStep

LEMMA HeadingParts ==
  ASSUME NEW b \in Browsers, NEW r
  PROVE  /\ Heading(b, r) = Count(down[b], {AnswerTo(r, TRUE)}) + Count(rtasks[b], {AnswerTo(r, TRUE)})
         /\ Heading(b, r)' = Count(down'[b], {AnswerTo(r, TRUE)}) + Count(rtasks'[b], {AnswerTo(r, TRUE)})
  BY DEF Heading, AnswerTo

LEMMA HeadingTyped ==
  ASSUME TypeOK, NEW b \in Browsers, NEW A
  PROVE  /\ Count(down[b], A) \in Nat /\ Count(rtasks[b], A) \in Nat
         /\ down[b] \in Seq(Answer) /\ rtasks[b] \in Seq(Answer)
<1>1. down[b] \in Seq(Answer) /\ rtasks[b] \in Seq(Answer)
  BY DEF TypeOK
<1> QED BY <1>1, CountTyped

\* Failures are no successes.
LEMMA FailuresSent ==
  ASSUME TypeOK, NEW b \in Browsers, proc[b] = "running", NEW s \in Seq(Answer),
         down'[b] = SendToRenderer(b, s), \A a \in Elems(s) : a.ok = FALSE, NEW r
  PROVE  Count(down'[b], {AnswerTo(r, TRUE)}) = Count(down[b], {AnswerTo(r, TRUE)})
<1>1. Count(down'[b], {AnswerTo(r, TRUE)}) = Count(down[b], {AnswerTo(r, TRUE)}) + Count(s, {AnswerTo(r, TRUE)})
  BY SentCount
<1>2. \A a \in Elems(s) : a \notin {AnswerTo(r, TRUE)}
  <2>1. AnswerTo(r, TRUE).ok = TRUE
    BY DEF AnswerTo
  <2> QED BY <2>1
<1>3. Count(s, {AnswerTo(r, TRUE)}) = 0
  BY <1>2, CountNone
<1>4. Count(down[b], {AnswerTo(r, TRUE)}) \in Nat
  BY HeadingTyped
<1> QED BY <1>1, <1>3, <1>4

\* A step sends r at most one success, and that one was posted before.
SendsSuccess(b, r) ==
  /\ Heading(b, r)' = Heading(b, r) + 1
  /\ \E x \in Entries(b) : x.q = r.q /\ uiTasks # <<>> /\ uiTasks' = Tail(uiTasks)
                             /\ Head(uiTasks) \in SuccessTasks(x.id)

LEMMA HeadingAnswers ==
  ASSUME TypeOK, KeyInv, AgreeInv, NEW b \in Browsers, AnswersEntry(b), NEW r \in requests[b]
  PROVE  Heading(b, r)' = Heading(b, r) \/ SendsSuccess(b, r)
<1> DEFINE A == {AnswerTo(r, TRUE)}
<1>1. PICK x \in Entries(b), ok \in BOOLEAN :
        /\ down'[b] = SendToRenderer(b, <<AnswerTo(x, ok)>>)
        /\ ok => uiTasks # <<>> /\ uiTasks' = Tail(uiTasks)
                  /\ Head(uiTasks) \in {t \in UiTask : t.kind = "OnCallbackSuccess" /\ t.id = x.id}
  BY DEF AnswersEntry
<1>2. AnswerTo(x, ok) \in Answer
  BY EntriesTyped, AnswersTyped
<1> HIDE DEF A
<1>3. /\ <<AnswerTo(x, ok)>> \in Seq(Answer)
      /\ Count(<<AnswerTo(x, ok)>>, A) = IF AnswerTo(x, ok) \in A THEN 1 ELSE 0
  BY <1>2, CountOfSingleton
<1>4. rtasks'[b] = rtasks[b] /\ proc[b] = "running"
  BY WaitingRuns DEF AnswersEntry, SamePage
<1>5. Count(down'[b], A) = Count(down[b], A) + Count(<<AnswerTo(x, ok)>>, A)
  <2>1. <<AnswerTo(x, ok)>> \in Seq(Answer) /\ down'[b] = SendToRenderer(b, <<AnswerTo(x, ok)>>)
    BY <1>1, <1>3
  <2> QED BY <1>4, <2>1, SentCount
<1>6. Count(down[b], A) \in Nat /\ Count(rtasks[b], A) \in Nat
  BY HeadingTyped
<1>7. /\ Heading(b, r) = Count(down[b], A) + Count(rtasks[b], A)
      /\ Heading(b, r)' = Count(down'[b], A) + Count(rtasks'[b], A)
  BY HeadingParts DEF A
<1>8. CASE AnswerTo(x, ok) \in A
  <2>1. AnswerTo(x, ok).ok = ok /\ AnswerTo(x, ok).q = x.q
        /\ AnswerTo(r, TRUE).ok = TRUE /\ AnswerTo(r, TRUE).q = r.q
    BY DEF AnswerTo
  <2>2. ok /\ x.q = r.q
    BY <1>8, <2>1 DEF A
  <2>3. Heading(b, r)' = Heading(b, r) + 1
    <3>1. Count(<<AnswerTo(x, ok)>>, A) = 1
      BY <1>3, <1>8
    <3> QED BY <1>4, <1>5, <1>6, <1>7, <3>1
  <2> QED BY <1>1, <2>2, <2>3 DEF SendsSuccess, SuccessTasks
<1>9. CASE AnswerTo(x, ok) \notin A
  <2>1. Count(<<AnswerTo(x, ok)>>, A) = 0
    BY <1>3, <1>9
  <2> QED BY <1>4, <1>5, <1>6, <1>7, <2>1
<1> QED BY <1>8, <1>9

LEMMA HeadingStep ==
  ASSUME TypeOK, KeyInv, AgreeInv, NEW b \in Browsers, BrowserStep(b),
         NEW r \in requests[b], r \in requests'[b]
  PROVE  /\ Heading(b, r) \in Nat /\ Heading(b, r)' \in Nat
         /\ Heading(b, r)' <= Heading(b, r) \/ SendsSuccess(b, r)
<1> DEFINE A == {AnswerTo(r, TRUE)}
           D == Count(down[b], A)
           T == Count(rtasks[b], A)
<1>1. D \in Nat /\ T \in Nat /\ down[b] \in Seq(Answer) /\ rtasks[b] \in Seq(Answer)
  BY HeadingTyped
<1>2. Heading(b, r) = D + T /\ Heading(b, r)' = Count(down'[b], A) + Count(rtasks'[b], A)
  BY HeadingParts
<1> DEFINE Bounded == Heading(b, r)' \in Nat /\ Heading(b, r)' <= Heading(b, r)
<1> HIDE DEF A
<1>3. ASSUME down'[b] = down[b], rtasks'[b] = rtasks[b] PROVE Bounded
  BY <1>1, <1>2, <1>3
<1>4. CASE ReceivesReply(b)
  <2> DEFINE a == Head(down[b])
  <2>1. down[b] # <<>> /\ down'[b] = Tail(down[b]) /\ rtasks'[b] = Append(rtasks[b], a)
    BY <1>4 DEF ReceivesReply
  <2>2. D = Count(Tail(down[b]), A) + (IF a \in A THEN 1 ELSE 0)
    BY <1>1, <2>1, CountOfTail
  <2>3. a \in Answer /\ Tail(down[b]) \in Seq(Answer)
    BY <1>1, <2>1, ElemsOfTail
  <2> HIDE DEF a
  <2>4. Count(Append(rtasks[b], a), A) = T + (IF a \in A THEN 1 ELSE 0)
    BY <1>1, <2>3, CountOfAppend
  <2>5. Count(Tail(down[b]), A) \in Nat
    BY <2>3, CountTyped
  <2>6. CASE a \in A
    <3>1. D = Count(Tail(down[b]), A) + 1 /\ Count(Append(rtasks[b], a), A) = T + 1
      BY <2>2, <2>4, <2>6
    <3> QED BY <1>1, <1>2, <2>1, <2>5, <3>1
  <2>7. CASE a \notin A
    <3>1. D = Count(Tail(down[b]), A) + 0 /\ Count(Append(rtasks[b], a), A) = T + 0
      BY <2>2, <2>4, <2>7
    <3> QED BY <1>1, <1>2, <2>1, <2>5, <3>1
  <2> QED BY <2>6, <2>7
<1>5. CASE HearsReply(b)
  <2>1. rtasks[b] # <<>> /\ down'[b] = down[b] /\ rtasks'[b] = Tail(rtasks[b])
    BY <1>5 DEF HearsReply, SameDesk
  <2>2. Count(Tail(rtasks[b]), A) <= T
    BY <1>1, <2>1, CountInTail
  <2>3. Count(Tail(rtasks[b]), A) \in Nat
    BY <1>1, <2>1, ElemsOfTail, CountTyped
  <2> QED BY <1>1, <1>2, <2>1, <2>2, <2>3
<1>6. CASE CancelsEntries(b)
  <2>1. PICK S \in SUBSET Entries(b) : \E batch \in FailuresOf(S) : down'[b] = SendToRenderer(b, batch)
    BY <1>6 DEF CancelsEntries
  <2>2. PICK batch \in FailuresOf(S) : down'[b] = SendToRenderer(b, batch)
    BY <2>1
  <2>3. batch \in Seq(Answer) /\ \A e \in Elems(batch) : \E x \in S : e = AnswerTo(x, FALSE)
    BY EntriesTyped, FailuresTyped
  <2>4. \A e \in Elems(batch) : e.ok = FALSE
    BY <2>3 DEF AnswerTo
  <2>5. Count(down'[b], A) = D
    BY <2>2, <2>3, <2>4, WaitingRuns, FailuresSent DEF A
  <2>6. rtasks'[b] = rtasks[b]
    BY <1>6 DEF CancelsEntries, SamePage
  <2> QED BY <1>1, <1>2, <2>5, <2>6
<1>7. CASE RefusesQuery(b)
  <2> DEFINE m == Head(up[b])
  <2>1. m \in Elems(up[b]) /\ m.type = "query"
    BY <1>7, MessageTaken DEF RefusesQuery
  <2>2. down'[b] = SendToRenderer(b, <<AnswerTo(m, FALSE)>>) /\ rtasks'[b] = rtasks[b]
    BY <1>7 DEF RefusesQuery, SamePage
  <2> HIDE DEF m
  <2>3. AnswerTo(m, FALSE) \in Answer /\ AnswerTo(m, FALSE).ok = FALSE
    BY <2>1, MessageParts, AnswersTyped DEF AnswerTo
  <2>4. <<AnswerTo(m, FALSE)>> \in Seq(Answer) /\ \A e \in Elems(<<AnswerTo(m, FALSE)>>) : e.ok = FALSE
    BY <2>3, ElemsOfSingleton
  <2>5. Count(down'[b], A) = D
    BY <2>2, <2>4, WaitingRuns, FailuresSent DEF A
  <2> QED BY <1>1, <1>2, <2>2, <2>5
<1>8. CASE AnswersEntry(b)
  <2>1. Heading(b, r)' = Heading(b, r) \/ SendsSuccess(b, r)
    BY <1>8, HeadingAnswers
  <2>2. CASE Heading(b, r)' = Heading(b, r)
    BY <1>1, <1>2, <2>2
  <2>3. CASE SendsSuccess(b, r)
    BY <1>1, <1>2, <2>3 DEF SendsSuccess
  <2> QED BY <2>1, <2>2, <2>3
<1>9. CASE LosesRenderer(b) \/ Closes(b)
  BY <1>9 DEF LosesRenderer, Closes
<1>10. CASE \/ Stays(b) \/ WithdrawsRequests(b) \/ AcceptsQuery(b) \/ CancelsRequest(b)
            \/ BuriesRenderer(b) \/ DropsEntries(b)
  <2>1. down'[b] = down[b] /\ rtasks'[b] = rtasks[b]
    BY <1>10 DEF Stays, WithdrawsRequests, AcceptsQuery, CancelsRequest, BuriesRenderer,
       DropsEntries, SameDesk, SamePage
  <2> QED BY <1>1, <1>2, <1>3, <2>1
<1> QED BY <1>1, <1>2, <1>4, <1>5, <1>6, <1>7, <1>8, <1>9, <1>10 DEF BrowserStep

\* What executing a reply does: nothing, or one callback of the one request
\* it was made for.
Hears(b, r, ok) ==
  /\ Head(rtasks[b]) = AnswerTo(r, ok)
  /\ requests'[b] = IF ~ok \/ ~r.pers THEN requests[b] \ {r} ELSE requests[b]
  /\ done' = IF ~ok \/ ~r.pers THEN done \cup {r.q} ELSE done
  /\ got' = IF ok THEN [got EXCEPT ![r.q] = got[r.q] + 1] ELSE got

LEMMA ExecuteHears ==
  ASSUME TypeOK, KeyInv, ContextInv, AgreeInv, NEW b \in Browsers, ExecuteCallback(b)
  PROVE  /\ rtasks[b] # <<>> /\ rtasks'[b] = Tail(rtasks[b])
         /\ requests'[b] = requests[b] \ RemovedRequests(b, Head(rtasks[b]))
         /\ \A c \in Browsers : c # b => requests'[c] = requests[c] /\ rtasks'[c] = rtasks[c]
         /\ UNCHANGED <<browserVars, up, down, issued, said, told>>
         /\ \/ requests'[b] = requests[b] /\ got' = got /\ done' = done
            \/ \E r \in requests[b], ok \in BOOLEAN : Hears(b, r, ok)
<1> DEFINE a == Head(rtasks[b])
           heard == IF GetContextByID(b, a.ctx) = {} THEN {} ELSE GetRequestInfo(b, a)
<1>1. /\ rtasks[b] # <<>>
      /\ rtasks' = [rtasks EXCEPT ![b] = Tail(rtasks[b])]
      /\ requests' = [requests EXCEPT ![b] = requests[b] \ RemovedRequests(b, a)]
      /\ got' = [q \in Uids |-> IF a.ok /\ \E r \in heard : r.q = q THEN got[q] + 1 ELSE got[q]]
      /\ done' = done \cup {r.q : r \in RemovedRequests(b, a)}
      /\ UNCHANGED <<browserVars, up, down, issued, said, told>>
  BY DEF ExecuteCallback
<1>2. /\ rtasks'[b] = Tail(rtasks[b]) /\ requests'[b] = requests[b] \ RemovedRequests(b, a)
      /\ \A c \in Browsers : c # b => requests'[c] = requests[c] /\ rtasks'[c] = rtasks[c]
  BY <1>1 DEF TypeOK
<1>3. a \in Elems(rtasks[b]) /\ a \in Answer
  BY <1>1, ElemsOfTail DEF TypeOK
<1>4. got \in [Uids -> Nat]
  BY DEF TypeOK
<1>5. CASE GetRequestInfo(b, a) = {}
  <2>1. RemovedRequests(b, a) = {} /\ heard = {}
    BY <1>5 DEF RemovedRequests
  <2>2. requests'[b] = requests[b] /\ got' = got /\ done' = done
    <3>1. got' = [q \in Uids |-> got[q]]
      BY <1>1, <2>1
    <3> QED BY <1>1, <1>2, <1>4, <2>1, <3>1
  <2> QED BY <1>1, <1>2, <2>2
<1>6. ASSUME NEW r \in GetRequestInfo(b, a)
      PROVE  \E ok \in BOOLEAN : Hears(b, r, ok)
  <2>1. r \in requests[b] /\ r.ctx = a.ctx /\ r.req = a.req
    BY DEF GetRequestInfo
  <2>2. \A s \in GetRequestInfo(b, a) : s \in requests[b] /\ s.q = a.q
    BY <1>3, KeysImplyMatch DEF AnswerMatchesQuery, GetRequestInfo
  <2>3. \A s \in GetRequestInfo(b, a) : s = r
    BY <2>1, <2>2, MatchesRequest
  <2>4. GetRequestInfo(b, a) = {r}
    BY <2>3
  <2>5. a = AnswerTo(r, a.ok) /\ a.ok \in BOOLEAN
    BY <1>3, <2>1, <2>2 DEF Answer, AnswerTo
  <2>6. GetContextByID(b, a.ctx) # {}
    <3>1. proc[b] = "running"
      BY <2>1, WaitingRuns
    <3>2. \E f \in Frames : ctx[b][f] = r.ctx
      BY <2>1, <3>1 DEF ContextInv, ContextAt, RequestsPlaced
    <3> QED BY <2>1, <3>2 DEF GetContextByID
  <2>7. heard = {r}
    BY <2>4, <2>6
  <2>8. RemovedRequests(b, a) = IF ~a.ok \/ ~r.pers THEN {r} ELSE {}
    BY <2>4 DEF RemovedRequests
  <2>9. got' = IF a.ok THEN [got EXCEPT ![r.q] = got[r.q] + 1] ELSE got
    <3>1. got' = [q \in Uids |-> IF a.ok /\ r.q = q THEN got[q] + 1 ELSE got[q]]
      BY <1>1, <2>7
    <3>2. r.q \in Uids
      BY <2>1, RequestParts
    <3>3. CASE a.ok
      <4> HIDE DEF a
      <4>1. got' = [q \in Uids |-> IF r.q = q THEN got[q] + 1 ELSE got[q]]
        BY <3>1, <3>3
      <4>2. [got EXCEPT ![r.q] = got[r.q] + 1] = [q \in Uids |-> IF r.q = q THEN got[q] + 1 ELSE got[q]]
        BY <1>4, <3>2
      <4> QED BY <3>3, <4>1, <4>2
    <3>4. CASE ~a.ok
      <4> HIDE DEF a
      <4>1. got' = [q \in Uids |-> got[q]]
        BY <3>1, <3>4
      <4> QED BY <1>4, <3>4, <4>1
    <3> QED BY <3>3, <3>4
  <2>10. done' = IF ~a.ok \/ ~r.pers THEN done \cup {r.q} ELSE done
    BY <1>1, <2>8
  <2>11. requests'[b] = IF ~a.ok \/ ~r.pers THEN requests[b] \ {r} ELSE requests[b]
    BY <1>2, <2>8
  <2> QED BY <2>5, <2>9, <2>10, <2>11 DEF Hears
<1>7. CASE GetRequestInfo(b, a) # {}
  <2>1. PICK r \in GetRequestInfo(b, a) : TRUE
    BY <1>7
  <2>2. r \in requests[b]
    BY DEF GetRequestInfo
  <2> QED BY <1>1, <1>2, <1>6, <2>2
<1> QED BY <1>5, <1>7

\* The counts never go down, and a new callback has nothing posted for it.
LEMMA SaidGrows ==
  ASSUME TypeOK, [Next]_vars, NEW q \in Uids
  PROVE  said[q] \in Nat /\ said'[q] \in Nat /\ said'[q] >= said[q]
<1>0. said \in [Uids -> Nat]
  BY DEF TypeOK
<1>1. CASE said' = said
  BY <1>0, <1>1
<1>2. CASE \E c \in callbacks : said' = [said EXCEPT ![c.q] = said[c.q] + 1]
  <2>1. PICK c \in callbacks : said' = [said EXCEPT ![c.q] = said[c.q] + 1]
    BY <1>2
  <2>2. c.q \in Uids
    BY OwedTyped
  <2> QED BY <1>0, <2>1, <2>2
<1>3. said' = said \/ \E c \in callbacks : said' = [said EXCEPT ![c.q] = said[c.q] + 1]
  <2>1. CASE DeskAnswer
    BY <2>1 DEF DeskAnswer, Success, Failure
  <2> QED BY <2>1, DeskSteps DEF DeskStep, DeskStill, DeskCancel, DeskAccept, OnCallback
<1> QED BY <1>1, <1>2, <1>3

LEMMA CallbacksKept ==
  ASSUME TypeOK, DeskInv, TasksInv, [Next]_vars
  PROVE  /\ callbacks \subseteq callbacks'
         /\ \A c \in callbacks' : c \in callbacks \/ Owed(c)' = 0
<1>1. CASE DeskAccept
  <2>1. PICK b \in Browsers, h \in Handlers :
          AcceptQuery(b, Head(up[b]), h) /\ UNCHANGED <<uiTasks, told, answered>>
    BY <1>1 DEF DeskAccept
  <2>2. PICK c : callbacks' = callbacks \cup {c} /\ uiTasks' = uiTasks /\ c.id = nextQuery + 1
    <3> DEFINE new == [id |-> nextQuery + 1, pers |-> Head(up[b]).pers, q |-> Head(up[b]).q]
    <3>1. callbacks' = callbacks \cup {new} /\ uiTasks' = uiTasks /\ new.id = nextQuery + 1
      BY <2>1 DEF AcceptQuery, GetNextId
    <3> QED BY <3>1
  <2>3. \A t \in Elems(uiTasks) : t \notin SuccessTasks(c.id)
    <3>1. ASSUME NEW t \in Elems(uiTasks), t.kind = "OnCallbackSuccess" PROVE t.id # nextQuery + 1
      <4>1. t.id <= nextQuery
        BY <3>1 DEF TasksInv, AnswerKinds
      <4>2. nextQuery \in Nat /\ \A u \in Elems(uiTasks) : u.id \in Nat
        BY ElemsTyped DEF TypeOK, UiTask
      <4> QED BY <4>1, <4>2
    <3> QED BY <2>2, <3>1 DEF SuccessTasks
  <2>4. uiTasks \in Seq(UiTask)
    BY DEF TypeOK
  <2>5. Count(uiTasks, SuccessTasks(c.id)) = 0
    BY <2>3, <2>4, CountNone
  <2>6. Owed(c)' = Count(uiTasks', SuccessTasks(c.id))
    BY DEF Owed, SuccessTasks, UiTask
  <2> QED BY <2>2, <2>5, <2>6
<1>2. CASE ~DeskAccept
  BY <1>2, DeskSteps DEF DeskStep, DeskStill, DeskCancel, DeskAnswer, OnCallback
<1> QED BY <1>1, <1>2

\* A success that is sent was posted by the callback of its entry.
LEMMA SendsOwed ==
  ASSUME TypeOK, DeskInv, NEW b \in Browsers, NEW r \in requests[b], SendsSuccess(b, r)
  PROVE  \E c \in callbacks :
           /\ c.q = r.q /\ \A d \in callbacks : d.q = r.q => d = c
           /\ Owed(c)' + 1 = Owed(c) /\ Owed(c) \in Nat /\ Owed(c)' \in Nat
<1>1. PICK x \in Entries(b) : /\ x.q = r.q /\ uiTasks # <<>> /\ uiTasks' = Tail(uiTasks)
                              /\ Head(uiTasks) \in SuccessTasks(x.id)
  BY DEF SendsSuccess
<1> DEFINE c == CallbackOf(x)
<1>2. c \in callbacks /\ c.q = r.q /\ c.id = x.id /\ \A d \in callbacks : d.q = r.q => d = c
  BY <1>1 DEF DeskInv, CallbackOf, Entries, OfBrowser
<1>3. uiTasks \in Seq(UiTask) /\ Tail(uiTasks) \in Seq(UiTask)
  BY <1>1, ElemsOfTail DEF TypeOK
<1> HIDE DEF c
<1>4. /\ Owed(c) = Count(uiTasks, SuccessTasks(c.id))
      /\ Owed(c)' = Count(uiTasks', SuccessTasks(c.id))
  BY DEF Owed, SuccessTasks, UiTask
<1>5. Head(uiTasks) \in SuccessTasks(c.id)
  BY <1>1, <1>2
<1>6. Count(Tail(uiTasks), SuccessTasks(c.id)) + 1 = Count(uiTasks, SuccessTasks(c.id))
  BY <1>1, <1>3, <1>5, CountInTail
<1>7. Count(Tail(uiTasks), SuccessTasks(c.id)) \in Nat /\ Count(uiTasks, SuccessTasks(c.id)) \in Nat
  BY <1>3, CountTyped
<1> QED BY <1>1, <1>2, <1>4, <1>6, <1>7

\* HeardInv, request by request.
HeardAt(b, r) ==
  /\ got[r.q] + Heading(b, r) <= said[r.q]
  /\ \A c \in callbacks : c.q = r.q => got[r.q] + Heading(b, r) + Owed(c) <= said[r.q]

LEMMA HeardOther ==
  ASSUME TypeOK, TypeOK', KeyInv, DeskInv, TasksInv, AgreeInv, HeardInv, [Next]_vars, got' = got,
         NEW b \in Browsers, BrowserStep(b), NEW r \in requests'[b]
  PROVE  HeardAt(b, r)'
<1>0. r \in requests[b] /\ r.q \in Uids
  BY RequestsKept, RequestParts
<1>1. HeardAt(b, r)
  BY <1>0 DEF HeardInv, HeardAt
<1> DEFINE H == Heading(b, r)
           K == Heading(b, r)'
           g == got[r.q]
<1>2. /\ H \in Nat /\ K \in Nat
      /\ K <= H \/ SendsSuccess(b, r)
  BY <1>0, HeadingStep
<1>3. g \in Nat /\ got'[r.q] = g
  BY <1>0 DEF TypeOK
<1>4. said[r.q] \in Nat /\ said'[r.q] \in Nat /\ said'[r.q] >= said[r.q]
  BY <1>0, SaidGrows
<1>5. g + K <= said'[r.q]
  <2>1. CASE K <= H
    <3>1. g + H <= said[r.q]
      BY <1>1 DEF HeardAt
    <3> HIDE DEF H, K, g
    <3> QED BY <1>2, <1>3, <1>4, <2>1, <3>1
  <2>2. CASE SendsSuccess(b, r)
    <3>1. PICK c \in callbacks : c.q = r.q /\ Owed(c)' + 1 = Owed(c) /\ Owed(c) \in Nat /\ Owed(c)' \in Nat
      BY <1>0, <2>2, SendsOwed
    <3>2. K = H + 1
      BY <2>2 DEF SendsSuccess
    <3>3. g + H + Owed(c) <= said[r.q]
      BY <1>1, <3>1 DEF HeardAt
    <3> HIDE DEF H, K, g
    <3> QED BY <1>2, <1>3, <1>4, <3>1, <3>2, <3>3
  <2> QED BY <1>2, <2>1, <2>2
<1>6. ASSUME NEW c \in callbacks', c.q = r.q PROVE g + K + Owed(c)' <= said'[r.q]
  <2>1. CASE c \notin callbacks
    <3>1. Owed(c)' = 0
      BY <2>1, CallbacksKept
    <3> HIDE DEF H, K, g
    <3> QED BY <1>2, <1>3, <1>5, <3>1
  <2>2. CASE c \in callbacks
    <3>1. Owed(c) \in Nat /\ said'[r.q] >= said[r.q] /\ Owed(c)' + said[r.q] <= Owed(c) + said'[r.q]
      BY <1>6, <2>2, OwedTyped, OwedStep
    <3>2. Owed(c)' \in Nat
      <4>1. c \in callbacks'
        OBVIOUS
      <4>2. uiTasks' \in Seq(UiTask) /\ Owed(c)' = Count(uiTasks', SuccessTasks(c.id))
        BY DEF TypeOK, Owed, SuccessTasks, UiTask
      <4> QED BY <4>2, CountTyped
    <3>3. g + H + Owed(c) <= said[r.q]
      BY <1>1, <1>6, <2>2 DEF HeardAt
    <3>4. CASE K <= H
      <4> HIDE DEF H, K, g
      <4> QED BY <1>2, <1>3, <1>4, <3>1, <3>2, <3>3, <3>4
    <3>5. CASE SendsSuccess(b, r)
      <4>1. Owed(c)' + 1 = Owed(c)
        BY <1>0, <1>6, <2>2, <3>5, SendsOwed
      <4>2. K = H + 1
        BY <3>5 DEF SendsSuccess
      <4> HIDE DEF H, K, g
      <4> QED BY <1>2, <1>3, <1>4, <3>1, <3>2, <3>3, <4>1, <4>2
    <3> QED BY <1>2, <3>4, <3>5
  <2> QED BY <2>1, <2>2
<1> QED BY <1>3, <1>5, <1>6 DEF HeardAt

LEMMA GotOnly ==
  ASSUME [Next]_vars, ~ \E a \in Browsers : ExecuteCallback(a)
  PROVE  got' = got /\ done' = done
<1>1. CASE RendererStep
  <2> USE DEF history
  <2>1. ASSUME NEW b \in Browsers, NEW f \in Frames, NEW pers \in Persistence, CefQuery(b, f, pers)
        PROVE  got' = got /\ done' = done
    BY <2>1 DEF CefQuery
  <2>2. ASSUME NEW b \in Browsers, NEW f \in Frames, NEW r \in requests[b], CefQueryCancel(b, f, r.req)
        PROVE  got' = got /\ done' = done
    BY <2>2 DEF CefQueryCancel
  <2>3. ASSUME NEW b \in Browsers, NEW f \in Frames, OnContextCreated(b, f) \/ OnContextReleased(b, f)
        PROVE  got' = got /\ done' = done
    BY <2>3 DEF OnContextCreated, OnContextReleased
  <2>4. ASSUME NEW b \in Browsers, RendererOnProcessMessageReceived(b)
        PROVE  got' = got /\ done' = done
    BY <2>4 DEF RendererOnProcessMessageReceived
  <2> QED BY <1>1, <2>1, <2>2, <2>3, <2>4 DEF RendererStep
<1>2. CASE \E b \in Browsers : BrowserMessageStep(b)
  BY <1>2, MessageLeaves
<1>3. CASE UNCHANGED vars
  BY <1>3 DEF vars, history
<1> QED BY <1>1, <1>2, <1>3, ApplicationLeaves, UiTaskLeaves, EnvironmentLeaves DEF Next

\* Only callbacks and their queries count for what is owed.
LEMMA OwedSame ==
  ASSUME UNCHANGED browserVars
  PROVE  callbacks' = callbacks /\ \A c : Owed(c)' = Owed(c)
BY DEF Owed, SuccessTasks, browserVars

\* A reply's task is run: what remains of r's successes is no more than before.
LEMMA HeadingAfterTail ==
  ASSUME TypeOK, NEW b \in Browsers, NEW r, down'[b] = down[b],
         rtasks[b] # <<>>, rtasks'[b] = Tail(rtasks[b])
  PROVE  /\ Heading(b, r) \in Nat /\ Heading(b, r)' \in Nat /\ Heading(b, r)' <= Heading(b, r)
         /\ Head(rtasks[b]) = AnswerTo(r, TRUE) => Heading(b, r)' + 1 = Heading(b, r)
<1> DEFINE A == {AnswerTo(r, TRUE)}
           D == Count(down[b], A)
           T == Count(rtasks[b], A)
           U == Count(Tail(rtasks[b]), A)
<1>1. Heading(b, r) = D + T /\ Heading(b, r)' = D + U
  BY HeadingParts
<1>2. D \in Nat /\ T \in Nat
  BY HeadingTyped
<1>3. U \in Nat /\ U <= T /\ (Head(rtasks[b]) \in A => U + 1 = T)
  BY HeadingTyped, ElemsOfTail, CountTyped, CountInTail
<1>4. Heading(b, r) \in Nat /\ Heading(b, r)' \in Nat /\ Heading(b, r)' <= Heading(b, r)
  <2> HIDE DEF D, T, U
  <2> QED BY <1>1, <1>2, <1>3
<1>5. ASSUME Head(rtasks[b]) = AnswerTo(r, TRUE) PROVE Heading(b, r)' + 1 = Heading(b, r)
  <2>1. U + 1 = T
    BY <1>3, <1>5
  <2> HIDE DEF D, T, U
  <2> QED BY <1>1, <1>2, <1>3, <2>1
<1> QED BY <1>4, <1>5

LEMMA HeardExecute ==
  ASSUME TypeOK, KeyInv, ContextInv, AgreeInv, HeardInv, NEW a \in Browsers, ExecuteCallback(a)
  PROVE  HeardInv'
<1>1. /\ rtasks[a] # <<>> /\ rtasks'[a] = Tail(rtasks[a])
      /\ requests'[a] \subseteq requests[a]
      /\ \A c \in Browsers : c # a => requests'[c] = requests[c] /\ rtasks'[c] = rtasks[c]
      /\ UNCHANGED <<browserVars, down, said>>
      /\ \/ got' = got
         \/ \E r \in requests[a] : /\ Head(rtasks[a]) = AnswerTo(r, TRUE)
                                   /\ got' = [got EXCEPT ![r.q] = got[r.q] + 1]
  <2>1. /\ rtasks[a] # <<>> /\ rtasks'[a] = Tail(rtasks[a])
        /\ requests'[a] \subseteq requests[a]
        /\ \A c \in Browsers : c # a => requests'[c] = requests[c] /\ rtasks'[c] = rtasks[c]
        /\ UNCHANGED <<browserVars, down, said>>
    BY ExecuteHears
  <2>3. ASSUME NEW r \in requests[a], NEW ok \in BOOLEAN, Hears(a, r, ok)
        PROVE  \/ got' = got
               \/ Head(rtasks[a]) = AnswerTo(r, TRUE) /\ got' = [got EXCEPT ![r.q] = got[r.q] + 1]
    <3>1. CASE ok = TRUE
      BY <2>3, <3>1 DEF Hears
    <3>2. CASE ok = FALSE
      BY <2>3, <3>2 DEF Hears
    <3> QED BY <3>1, <3>2
  <2>4. got' = got \/ \E r \in requests[a], ok \in BOOLEAN : Hears(a, r, ok)
    BY ExecuteHears
  <2> QED BY <2>1, <2>3, <2>4
<1>2. callbacks' = callbacks /\ \A c : Owed(c)' = Owed(c)
  BY <1>1, OwedSame
<1>3. got \in [Uids -> Nat] /\ said \in [Uids -> Nat]
  BY DEF TypeOK
<1>4. ASSUME NEW b \in Browsers, NEW r \in requests'[b]
      PROVE  /\ r \in requests[b] /\ r.q \in Uids /\ Heading(b, r) \in Nat /\ Heading(b, r)' \in Nat
             /\ Heading(b, r)' <= Heading(b, r)
  <2>1. r \in requests[b] /\ down'[b] = down[b]
    BY <1>1, <1>4
  <2>2. CASE b = a
    BY <1>1, <2>1, <2>2, HeadingAfterTail, RequestParts
  <2>3. CASE b # a
    <3>1. rtasks'[b] = rtasks[b]
      BY <1>1, <2>3
    <3>2. Heading(b, r)' = Heading(b, r)
      BY <2>1, <3>1, HeadingParts
    <3>3. Count(down[b], {AnswerTo(r, TRUE)}) \in Nat /\ Count(rtasks[b], {AnswerTo(r, TRUE)}) \in Nat
      BY HeadingTyped
    <3>4. Heading(b, r) = Count(down[b], {AnswerTo(r, TRUE)}) + Count(rtasks[b], {AnswerTo(r, TRUE)})
      BY HeadingParts
    <3>5. Heading(b, r) \in Nat
      BY <3>3, <3>4
    <3> QED BY <2>1, <3>2, <3>5, RequestParts
  <2> QED BY <2>2, <2>3
<1>5. ASSUME NEW c \in callbacks PROVE Owed(c) \in Nat
  BY OwedTyped
<1>6. ASSUME NEW b \in Browsers, NEW r \in requests'[b], got'[r.q] + Heading(b, r)' <= got[r.q] + Heading(b, r)
      PROVE  /\ got'[r.q] + Heading(b, r)' <= said'[r.q]
             /\ \A c \in callbacks' : c.q = r.q => got'[r.q] + Heading(b, r)' + Owed(c)' <= said'[r.q]
  <2>1. r \in requests[b] /\ r.q \in Uids /\ Heading(b, r) \in Nat /\ Heading(b, r)' \in Nat
    BY <1>4
  <2>2. got[r.q] \in Nat /\ said[r.q] \in Nat /\ got'[r.q] \in Nat /\ said' = said
    <3>1. CASE got' = got
      BY <1>1, <1>3, <2>1, <3>1
    <3>2. CASE \E s \in requests[a] : got' = [got EXCEPT ![s.q] = got[s.q] + 1]
      <4>1. PICK s \in requests[a] : got' = [got EXCEPT ![s.q] = got[s.q] + 1]
        BY <3>2
      <4>2. s.q \in Uids
        BY RequestParts
      <4> QED BY <1>1, <1>3, <2>1, <4>1, <4>2
    <3> QED BY <1>1, <3>1, <3>2
  <2> DEFINE g == got[r.q]
             k == got'[r.q]
             H == Heading(b, r)
             K == Heading(b, r)'
  <2>3. g + H <= said[r.q]
    BY <2>1 DEF HeardInv
  <2>4. k + K <= g + H
    BY <1>6
  <2>5. k + K <= said'[r.q]
    <3> HIDE DEF g, k, H, K
    <3> QED BY <2>1, <2>2, <2>3, <2>4 DEF g, k, H, K
  <2>6. ASSUME NEW c \in callbacks', c.q = r.q PROVE k + K + Owed(c)' <= said'[r.q]
    <3>1. c \in callbacks /\ Owed(c)' = Owed(c) /\ Owed(c) \in Nat
      BY <1>2, <1>5
    <3>2. g + H + Owed(c) <= said[r.q]
      BY <2>1, <2>6, <3>1 DEF HeardInv
    <3> QED BY <2>1, <2>2, <2>4, <3>1, <3>2
  <2> QED BY <2>5, <2>6
<1>7. CASE got' = got
  <2>1. \A q \in Uids : got'[q] <= said'[q]
    BY <1>1, <1>7 DEF HeardInv
  <2>2. ASSUME NEW b \in Browsers, NEW r \in requests'[b]
        PROVE  got'[r.q] + Heading(b, r)' <= got[r.q] + Heading(b, r)
    <3>1. r.q \in Uids /\ Heading(b, r) \in Nat /\ Heading(b, r)' \in Nat
          /\ Heading(b, r)' <= Heading(b, r)
      BY <1>4
    <3>2. got[r.q] \in Nat
      BY <1>3, <3>1
    <3> QED BY <1>7, <3>1, <3>2
  <2> QED BY <1>6, <2>1, <2>2 DEF HeardInv
<1>8. ASSUME NEW s \in requests[a], Head(rtasks[a]) = AnswerTo(s, TRUE),
             got' = [got EXCEPT ![s.q] = got[s.q] + 1]
      PROVE  HeardInv'
  <2>1. s.q \in Uids /\ got'[s.q] = got[s.q] + 1 /\ \A q \in Uids : q # s.q => got'[q] = got[q]
    BY <1>3, <1>8, RequestParts
  <2>2. Heading(a, s) \in Nat /\ Heading(a, s)' \in Nat /\ Heading(a, s)' + 1 = Heading(a, s)
    BY <1>1, <1>8, HeadingAfterTail
  <2>3. \A q \in Uids : got'[q] <= said'[q]
    <3>1. got[s.q] + Heading(a, s) <= said[s.q]
      BY DEF HeardInv
    <3>2. got[s.q] \in Nat /\ said[s.q] \in Nat
      BY <1>3, <2>1
    <3>3. got'[s.q] <= said[s.q]
      BY <2>1, <2>2, <3>1, <3>2
    <3>4. \A q \in Uids : q # s.q => got'[q] <= said[q]
      BY <2>1 DEF HeardInv
    <3> QED BY <1>1, <3>3, <3>4
  <2>4. ASSUME NEW b \in Browsers, NEW r \in requests'[b]
        PROVE  got'[r.q] + Heading(b, r)' <= got[r.q] + Heading(b, r)
    <3>1. r \in requests[b] /\ r.q \in Uids /\ Heading(b, r) \in Nat /\ Heading(b, r)' \in Nat
          /\ Heading(b, r)' <= Heading(b, r)
      BY <1>4
    <3>2. got[r.q] \in Nat
      BY <1>3, <3>1
    <3>3. CASE r.q = s.q
      <4>1. b = a /\ r = s
        BY <3>1, <3>3, MatchesRequest
      <4> QED BY <2>1, <2>2, <3>2, <4>1
    <3>4. CASE r.q # s.q
      <4>1. got'[r.q] = got[r.q]
        BY <2>1, <3>1, <3>4
      <4> QED BY <3>1, <3>2, <4>1
    <3> QED BY <3>3, <3>4
  <2> QED BY <1>6, <2>3, <2>4 DEF HeardInv
<1> QED BY <1>1, <1>7, <1>8

\* A new query: nothing is about that could answer it.
LEMMA HeardQuery ==
  ASSUME TypeOK, TypeOK', SentOnce, AgreeInv, HeardInv, NEW a \in Browsers, NEW f \in Frames,
         NEW pers \in Persistence, CefQuery(a, f, pers)
  PROVE  HeardInv'
<1>1. /\ issued \in Nat /\ issued' = issued + 1 /\ issued' \in Uids
      /\ UNCHANGED <<browserVars, rtasks, down, done, said, got>>
  BY AskedQuery
<1>2. PICK n \in Request : n.q = issued + 1 /\ requests'[a] = requests[a] \cup {n}
                             /\ \A b \in Browsers : b # a => requests'[b] = requests[b]
  BY AskedQuery
<1>3. callbacks' = callbacks /\ \A c : Owed(c)' = Owed(c)
  BY <1>1, OwedSame
<1>4. \A b \in Browsers : \A r : Heading(b, r)' = Heading(b, r)
  BY <1>1, HeadingParts
<1>5. \A b \in Browsers : \A r \in requests[b] : HeardAt(b, r)'
  BY <1>1, <1>3, <1>4 DEF HeardInv, HeardAt
<1>6. HeardAt(a, n)'
  <2>1. \A x \in Elems(down[a]) \cup Elems(rtasks[a]) : x.q # n.q
    <3>1. ASSUME NEW x \in Elems(down[a]) \cup Elems(rtasks[a]) PROVE x.q <= issued /\ x.q \in Nat
      <4>1. Stamp(x) \in Stamps(a)
        BY DEF Stamps
      <4>2. Stamp(x)[3] = x.q
        BY DEF Stamp
      <4> QED BY <4>1, <4>2, AnswerParts DEF AgreeInv
    <3> QED BY <1>1, <1>2, <3>1
  <2>2. AnswerTo(n, TRUE).q = n.q
    BY DEF AnswerTo
  <2>3. Count(down[a], {AnswerTo(n, TRUE)}) = 0 /\ Count(rtasks[a], {AnswerTo(n, TRUE)}) = 0
    <3>1. down[a] \in Seq(Answer) /\ rtasks[a] \in Seq(Answer)
      BY DEF TypeOK
    <3>2. \A x \in Elems(down[a]) \cup Elems(rtasks[a]) : x \notin {AnswerTo(n, TRUE)}
      BY <2>1, <2>2
    <3> QED BY <3>1, <3>2, CountNone
  <2>4. Heading(a, n)' = 0
    <3>1. Heading(a, n) = Count(down[a], {AnswerTo(n, TRUE)}) + Count(rtasks[a], {AnswerTo(n, TRUE)})
      BY HeadingParts
    <3>2. Heading(a, n) = 0
      BY <2>3, <3>1
    <3> QED BY <1>4, <3>2
  <2>5. \A c \in callbacks' : c.q # n.q
    <3>1. \A c \in callbacks : c.q <= issued /\ c.q \in Nat
      BY OwedTyped DEF SentOnce, Uids
    <3> QED BY <1>1, <1>2, <1>3, <3>1
  <2>6. got'[n.q] <= said'[n.q] /\ got'[n.q] \in Nat
    BY <1>1, <1>2 DEF HeardInv, TypeOK
  <2>7. got'[n.q] + Heading(a, n)' <= said'[n.q]
    BY <2>4, <2>6
  <2> QED BY <2>5, <2>7 DEF HeardAt
<1>7. \A b \in Browsers : \A r \in requests'[b] : HeardAt(b, r)'
  BY <1>2, <1>5, <1>6
<1>8. \A q \in Uids : got'[q] <= said'[q]
  BY <1>1 DEF HeardInv
<1> QED BY <1>7, <1>8 DEF HeardInv, HeardAt

LEMMA HeardStep ==
  ASSUME TypeOK, TypeOK', KeyInv, SentOnce, DeskInv, TasksInv, ContextInv, AgreeInv, HeardInv,
         [Next]_vars
  PROVE  HeardInv'
<1>1. CASE \E a \in Browsers : ExecuteCallback(a)
  BY <1>1, HeardExecute
<1>2. CASE \E a \in Browsers, f \in Frames, pers \in Persistence : CefQuery(a, f, pers)
  BY <1>2, HeardQuery
<1>3. CASE /\ ~ \E a \in Browsers : ExecuteCallback(a)
           /\ ~ \E a \in Browsers, f \in Frames, pers \in Persistence : CefQuery(a, f, pers)
  <2>1. got' = got
    BY <1>3, GotOnly
  <2>2. \A q \in Uids : got'[q] <= said'[q]
    <3>1. ASSUME NEW q \in Uids PROVE got'[q] <= said'[q]
      <4>1. got[q] \in Nat /\ got[q] <= said[q]
        BY DEF HeardInv, TypeOK
      <4> QED BY <2>1, <4>1, SaidGrows
    <3> QED BY <3>1
  <2>3. \A b \in Browsers : \A r \in requests'[b] : HeardAt(b, r)'
    BY <1>3, <2>1, BrowserSteps, HeardOther
  <2> QED BY <2>2, <2>3 DEF HeardInv, HeardAt
<1> QED BY <1>1, <1>2, <1>3

LEMMA HeardInit == Init => HeardInv
<1> SUFFICES ASSUME Init PROVE HeardInv
  OBVIOUS
<1>1. \A b \in Browsers : requests[b] = {}
  BY DEF Init
<1>2. \A q \in Uids : got[q] = 0 /\ said[q] = 0
  BY DEF Init
<1> QED BY <1>1, <1>2 DEF HeardInv

\* No page hears more successes than its handler sent.
THEOREM HeardInvariant == Spec => []HeardInv
<1>1. TypeOK /\ TypeOK' /\ KeyInv /\ SentOnce /\ DeskInv /\ TasksInv /\ ContextInv /\ AgreeInv
        /\ HeardInv /\ [Next]_vars => HeardInv'
  BY HeardStep
<1> QED BY <1>1, HeardInit, TypeCorrect, KeysInvariant, DeskInvariant, ContextInvariant,
          AgreeInvariant, PTL DEF Spec

LEMMA ExecuteIsHearing ==
  ASSUME TypeOK, NEW b \in Browsers, ExecuteCallback(b)
  PROVE  HearsReply(b)
<1>1. /\ rtasks[b] # <<>> /\ rtasks'[b] = Tail(rtasks[b])
      /\ requests'[b] = requests[b] \ RemovedRequests(b, Head(rtasks[b]))
  BY DEF ExecuteCallback, TypeOK
<1>2. UNCHANGED <<queries, nav, up, down>>
  BY DEF ExecuteCallback, browserVars, envVars
<1> QED BY <1>1, <1>2 DEF HearsReply, SameUp, SameDesk, Entries, OfBrowser

LEMMA IssuedQueries ==
  ASSUME TypeOK, AgreeInv, NEW b \in Browsers, NEW y \in requests[b] \cup QueriesSent(b)
  PROVE  y.q <= issued /\ y.q \in Nat
<1>1. Stamp(y) \in Stamps(b)
  BY DEF Stamps
<1>2. Stamp(y)[3] = y.q
  BY DEF Stamp
<1> QED BY <1>1, <1>2, StampsTyped DEF AgreeInv

LEMMA DoneExecute ==
  ASSUME TypeOK, KeyInv, DeskInv, TasksInv, ContextInv, AgreeInv, NoQueryLost, DoneInv,
         NEW a \in Browsers, ExecuteCallback(a)
  PROVE  DoneInv'
<1>1. /\ requests'[a] \subseteq requests[a] /\ up' = up /\ issued' = issued
      /\ \A c \in Browsers : c # a => requests'[c] = requests[c]
  BY ExecuteHears
<1>2. \A b \in Browsers : QueriesSent(b)' = QueriesSent(b) /\ requests'[b] \subseteq requests[b]
  BY <1>1 DEF QueriesSent
<1>3. CASE done' = done
  BY <1>1, <1>2, <1>3 DEF DoneInv
<1>4. ASSUME NEW r \in requests[a], r \notin requests'[a], done' = done \cup {r.q}
      PROVE  DoneInv'
  <2>1. \A q \in done' : q <= issued'
    BY <1>1, <1>4, IssuedQueries DEF DoneInv
  <2>2. ASSUME NEW b \in Browsers, NEW y \in requests'[b] \cup QueriesSent(b)' PROVE y.q \notin done'
    <3>1. y \in requests[b] \cup QueriesSent(b)
      BY <1>2
    <3>2. y.q \notin done
      BY <3>1 DEF DoneInv
    <3>3. CASE y \in requests'[b]
      <4>1. y \in requests[b] /\ (y.q = r.q => b = a /\ y = r)
        BY <1>2, <3>3, MatchesRequest
      <4> QED BY <1>4, <3>2, <3>3, <4>1
    <3>4. CASE y \in QueriesSent(b)
      <4>1. y.q = r.q => b = a
        BY <3>4, MatchesRequest
      <4>2. \A m \in QueriesSent(a) : m.q # r.q
        BY <1>4, ExecuteIsHearing, LastHeard
      <4> QED BY <1>4, <3>2, <3>4, <4>1, <4>2
    <3> QED BY <1>2, <3>3, <3>4
  <2> QED BY <2>1, <2>2 DEF DoneInv
<1>5. done' = done \/ \E r \in requests[a] : r \notin requests'[a] /\ done' = done \cup {r.q}
  <2>1. ASSUME NEW r \in requests[a], NEW ok \in BOOLEAN, Hears(a, r, ok)
        PROVE  done' = done \/ (r \notin requests'[a] /\ done' = done \cup {r.q})
    BY <2>1 DEF Hears
  <2> QED BY <2>1, ExecuteHears
<1> QED BY <1>3, <1>4, <1>5

LEMMA DoneQuery ==
  ASSUME TypeOK, DoneInv, NEW a \in Browsers, NEW f \in Frames,
         NEW pers \in Persistence, CefQuery(a, f, pers)
  PROVE  DoneInv'
<1>1. issued \in Nat /\ issued' = issued + 1 /\ done' = done
  BY AskedQuery
<1>2. PICK n \in Request : /\ n.q = issued + 1 /\ requests'[a] = requests[a] \cup {n}
                           /\ QueryMsg(n) \in UpMessage /\ up'[a] = Append(up[a], QueryMsg(n))
                           /\ \A b \in Browsers : b # a => requests'[b] = requests[b] /\ up'[b] = up[b]
  BY AskedQuery
<1>3. Elems(up'[a]) = Elems(up[a]) \cup {QueryMsg(n)} /\ QueryMsg(n).q = n.q
  <2>1. up[a] \in Seq(UpMessage)
    BY DEF TypeOK
  <2> QED BY <1>2, <2>1, ElemsOfAppend DEF QueryMsg
<1>4. \A q \in done : q <= issued /\ q \in Nat
  BY DEF DoneInv, TypeOK, Uids
<1>5. issued + 1 \notin done
  BY <1>1, <1>4
<1>6. ASSUME NEW b \in Browsers, NEW y \in requests'[b] \cup QueriesSent(b)' PROVE y.q \notin done'
  <2>1. y.q = issued + 1 \/ y \in requests[b] \cup QueriesSent(b)
    <3>1. CASE b = a
      BY <1>2, <1>3, <3>1 DEF QueriesSent
    <3>2. CASE b # a
      BY <1>2, <3>2 DEF QueriesSent
    <3> QED BY <3>1, <3>2
  <2> QED BY <1>1, <1>5, <2>1 DEF DoneInv
<1>7. \A q \in done' : q <= issued'
  BY <1>1, <1>4
<1> QED BY <1>6, <1>7 DEF DoneInv

LEMMA DoneStep ==
  ASSUME TypeOK, TypeOK', KeyInv, SentOnce, DeskInv, TasksInv, ContextInv, AgreeInv, NoQueryLost,
         DoneInv, [Next]_vars
  PROVE  DoneInv'
<1>1. CASE \E a \in Browsers : ExecuteCallback(a)
  BY <1>1, DoneExecute
<1>2. CASE \E a \in Browsers, f \in Frames, pers \in Persistence : CefQuery(a, f, pers)
  BY <1>2, DoneQuery
<1>3. CASE /\ ~ \E a \in Browsers : ExecuteCallback(a)
           /\ ~ \E a \in Browsers, f \in Frames, pers \in Persistence : CefQuery(a, f, pers)
  <2>1. done' = done /\ issued' = issued
    BY <1>3, GotOnly, IssuedOnly
  <2>2. \A b \in Browsers : UpKept(b) /\ BrowserStep(b)
    BY <1>3, StepKeepsUp, BrowserSteps
  <2>3. \A b \in Browsers : requests'[b] \subseteq requests[b] /\ QueriesSent(b)' \subseteq QueriesSent(b)
    BY <2>2, RequestsKept, QueriesSentKept
  <2> QED BY <2>1, <2>3 DEF DoneInv
<1> QED BY <1>1, <1>2, <1>3

LEMMA DoneInit == Init => DoneInv
<1> SUFFICES ASSUME Init PROVE DoneInv
  OBVIOUS
<1> QED BY DEF Init, DoneInv, QueriesSent, Elems

\* A query whose last callback ran in the page is not open, and no message is
\* about that could make a handler take it.
THEOREM DoneInvariant == Spec => []DoneInv
<1>1. TypeOK /\ TypeOK' /\ KeyInv /\ SentOnce /\ DeskInv /\ TasksInv /\ ContextInv /\ AgreeInv
        /\ NoQueryLost /\ DoneInv /\ [Next]_vars => DoneInv'
  BY DoneStep
<1> QED BY <1>1, DoneInit, TypeCorrect, KeysInvariant, DeskInvariant, ContextInvariant,
          AgreeInvariant, NoQueryIsLost, PTL DEF Spec

-----------------------------------------------------------------------------
(* The router implements the contract.                                     *)

\* The two sides of a query as the contract sees them.
Page(q) ==
  IF q > issued THEN "idle"
  ELSE IF q \in OpenQueries THEN "open"
  ELSE IF q \in done THEN "done" ELSE "left"
Taken(q) == \E c \in callbacks : c.q = q
Live(q)  == \E c \in callbacks : c.q = q /\ c.id \in attached
Desk(q)  == IF Live(q) THEN "pending" ELSE IF Taken(q) THEN "closed" ELSE "none"
pages == [q \in Uids |-> Page(q)]
desks == [q \in Uids |-> Desk(q)]

\* The contract's actions in these terms.
LEMMA MapInit ==
  ASSUME pages = [q \in Uids |-> "idle"], desks = [q \in Uids |-> "none"],
         said = [q \in Uids |-> 0], got = [q \in Uids |-> 0], told = [q \in Uids |-> 0]
  PROVE  Contract!Init
BY DEF Contract!Init, pages, desks, Page, Desk, Live, Taken

LEMMA MapStutter ==
  ASSUME UNCHANGED <<pages, desks, said, got, told>>
  PROVE  UNCHANGED Contract!vars
BY DEF Contract!vars, pages, desks, Page, Desk, Live, Taken

LEMMA MapAsk ==
  ASSUME NEW q \in Uids, pages[q] = "idle", pages' = [pages EXCEPT ![q] = "open"],
         UNCHANGED <<desks, said, got, told>>
  PROVE  Contract!Next
<1>1. Contract!Ask(q)
  BY DEF Contract!Ask, pages, desks, Page, Desk, Live, Taken
<1> QED BY <1>1 DEF Contract!Next

LEMMA MapAccept ==
  ASSUME NEW q \in Uids, pages[q] \in {"open", "left"}, desks[q] = "none",
         desks' = [desks EXCEPT ![q] = "pending"], UNCHANGED <<pages, said, got, told>>
  PROVE  Contract!Next
<1>1. Contract!Accept(q)
  BY DEF Contract!Accept, pages, desks, Page, Desk, Live, Taken
<1> QED BY <1>1 DEF Contract!Next

LEMMA MapSay ==
  ASSUME NEW q \in Uids, NEW last \in BOOLEAN, desks[q] = "pending",
         said' = [said EXCEPT ![q] = said[q] + 1],
         desks' = [desks EXCEPT ![q] = IF last THEN "closed" ELSE desks[q]],
         UNCHANGED <<pages, got, told>>
  PROVE  Contract!Next
<1>1. Contract!Say(q, last)
  BY DEF Contract!Say, pages, desks, Page, Desk, Live, Taken
<1> QED BY <1>1 DEF Contract!Next

LEMMA MapGiveUp ==
  ASSUME NEW q \in Uids, desks[q] = "pending", desks' = [desks EXCEPT ![q] = "closed"],
         UNCHANGED <<pages, said, got, told>>
  PROVE  Contract!Next
<1>1. Contract!GiveUp(q)
  BY DEF Contract!GiveUp, pages, desks, Page, Desk, Live, Taken
<1> QED BY <1>1 DEF Contract!Next

LEMMA MapHear ==
  ASSUME NEW q \in Uids, NEW last \in BOOLEAN, pages[q] = "open", got[q] < said[q],
         last => desks[q] # "pending",
         got' = [got EXCEPT ![q] = got[q] + 1],
         pages' = [pages EXCEPT ![q] = IF last THEN "done" ELSE pages[q]],
         UNCHANGED <<desks, said, told>>
  PROVE  Contract!Next
<1>1. Contract!Hear(q, last)
  BY DEF Contract!Hear, pages, desks, Page, Desk, Live, Taken
<1> QED BY <1>1 DEF Contract!Next

LEMMA MapFail ==
  ASSUME NEW q \in Uids, pages[q] = "open", desks[q] # "pending",
         pages' = [pages EXCEPT ![q] = "done"], UNCHANGED <<desks, said, got, told>>
  PROVE  Contract!Next
<1>1. Contract!Fail(q)
  BY DEF Contract!Fail, pages, desks, Page, Desk, Live, Taken
<1> QED BY <1>1 DEF Contract!Next

LEMMA MapTellLeave ==
  ASSUME NEW Q \in SUBSET Uids, NEW P \in SUBSET Uids,
         \A q \in Q : desks[q] # "none" /\ told[q] = 0,
         desks' = [q \in Uids |-> IF q \in Q THEN "closed" ELSE desks[q]],
         told' = [q \in Uids |-> IF q \in Q THEN 1 ELSE told[q]],
         said' = said,
         \A q \in P : pages[q] = "open",
         pages' = [q \in Uids |-> IF q \in P THEN "left" ELSE pages[q]],
         got' = got
  PROVE  Contract!Next
<1>1. Contract!Tell(Q)
  BY DEF Contract!Tell, pages, desks, Page, Desk, Live, Taken
<1>2. Contract!Leave(P)
  BY DEF Contract!Leave, pages, desks, Page, Desk, Live, Taken
<1> QED BY <1>1, <1>2 DEF Contract!Next

-----------------------------------------------------------------------------
(* Both sides, query by query.                                             *)

LEMMA SidesAre ==
  /\ pages \in [Uids -> {"idle", "open", "done", "left"}]
  /\ desks \in [Uids -> {"pending", "closed", "none"}]
  /\ \A q \in Uids : pages[q] = Page(q) /\ desks[q] = Desk(q)
BY DEF pages, desks, Page, Desk

LEMMA PagesNext ==
  /\ pages' = [q \in Uids |-> Page(q)']
  /\ desks' = [q \in Uids |-> Desk(q)']
BY DEF pages, desks

\* One side of one query changes.
LEMMA PageSet ==
  ASSUME NEW q \in Uids, NEW v, Page(q)' = v, \A p \in Uids : p # q => Page(p)' = Page(p)
  PROVE  pages' = [pages EXCEPT ![q] = v]
<1>1. \A p \in Uids : Page(p)' = [pages EXCEPT ![q] = v][p]
  BY SidesAre
<1> QED BY <1>1, PagesNext, SidesAre

LEMMA DeskSet ==
  ASSUME NEW q \in Uids, NEW v, Desk(q)' = v, \A p \in Uids : p # q => Desk(p)' = Desk(p)
  PROVE  desks' = [desks EXCEPT ![q] = v]
<1>1. \A p \in Uids : Desk(p)' = [desks EXCEPT ![q] = v][p]
  BY SidesAre
<1> QED BY <1>1, PagesNext, SidesAre

\* A side changes only with what it is made of.
LEMMA PagesSame ==
  ASSUME UNCHANGED <<issued, done>>, \A q \in Uids : q \in OpenQueries' <=> q \in OpenQueries
  PROVE  pages' = pages
<1>1. \A q \in Uids : Page(q)' = Page(q)
  BY DEF Page
<1> QED BY <1>1, PagesNext, SidesAre

LEMMA DesksSame ==
  ASSUME \A q \in Uids : (Live(q)' <=> Live(q)) /\ (Taken(q)' <=> Taken(q))
  PROVE  desks' = desks
<1>1. \A q \in Uids : Desk(q)' = Desk(q)
  BY DEF Desk
<1> QED BY <1>1, PagesNext, SidesAre

LEMMA OpenAre ==
  ASSUME TypeOK
  PROVE  /\ \A q : q \in OpenQueries <=> \E b \in Browsers : \E r \in requests[b] : r.q = q
         /\ OpenQueries \subseteq Uids
<1>1. \A q : q \in OpenQueries <=> \E b \in Browsers : \E r \in requests[b] : r.q = q
  BY DEF OpenQueries
<1> QED BY <1>1, RequestParts

LEMMA OpenNext ==
  ASSUME TypeOK
  PROVE  \A q : q \in OpenQueries' <=> \E b \in Browsers : \E r \in requests'[b] : r.q = q
BY DEF OpenQueries

\* An open query was issued, and the page did not hear its end.
LEMMA OpenIsIssued ==
  ASSUME TypeOK, AgreeInv, DoneInv, NEW q \in OpenQueries
  PROVE  q \in Uids /\ q <= issued /\ q \notin done /\ Page(q) = "open"
<1>1. PICK b \in Browsers : \E r \in requests[b] : r.q = q
  BY OpenAre
<1>r. PICK r \in requests[b] : r.q = q
  BY <1>1
<1>2. q <= issued /\ q \in Nat
  BY <1>r, IssuedQueries
<1>3. q \notin done
  BY <1>r DEF DoneInv
<1>4. q \in Uids /\ issued \in Nat
  BY OpenAre DEF TypeOK
<1> QED BY <1>2, <1>3, <1>4 DEF Page

\* Queries that are not open any more, and whose end nobody heard, were left.
LEMMA PagesLeft ==
  ASSUME TypeOK, AgreeInv, DoneInv, UNCHANGED <<issued, done>>, OpenQueries' \subseteq OpenQueries
  PROVE  /\ OpenQueries \ OpenQueries' \in SUBSET Uids
         /\ \A q \in OpenQueries \ OpenQueries' : pages[q] = "open"
         /\ pages' = [q \in Uids |-> IF q \in OpenQueries \ OpenQueries' THEN "left" ELSE pages[q]]
<1> DEFINE P == OpenQueries \ OpenQueries'
<1>1. \A q \in P : q \in Uids /\ q <= issued /\ q \notin done /\ pages[q] = "open"
  BY OpenIsIssued, SidesAre
<1>2. ASSUME NEW q \in Uids PROVE Page(q)' = IF q \in P THEN "left" ELSE pages[q]
  <2>1. CASE q \in P
    <3>1. q <= issued /\ q \notin done /\ q \notin OpenQueries' /\ issued \in Nat /\ q \in Nat
      BY <1>1, <2>1 DEF TypeOK, Uids
    <3>2. ~(q > issued)
      BY <3>1
    <3>3. Page(q)' = IF q > issued THEN "idle" ELSE IF q \in OpenQueries' THEN "open"
                     ELSE IF q \in done THEN "done" ELSE "left"
      BY DEF Page
    <3> QED BY <2>1, <3>1, <3>2, <3>3
  <2>2. CASE q \notin P
    <3>1. q \in OpenQueries' <=> q \in OpenQueries
      BY <2>2
    <3>2. Page(q)' = Page(q)
      BY <3>1 DEF Page
    <3> QED BY <2>2, <3>2, SidesAre
  <2> QED BY <2>1, <2>2
<1>3. P \in SUBSET Uids
  BY <1>1
<1> QED BY <1>1, <1>2, <1>3, PagesNext

\* Entries that are canceled: their handlers are told, for the first time.
LEMMA DesksTold ==
  ASSUME TypeOK, DeskInv, NEW S \in SUBSET queries, CancelQueries(S), callbacks' = callbacks
  PROVE  \E Q \in SUBSET Uids :
           /\ \A q \in Q : desks[q] # "none" /\ told[q] = 0
           /\ desks' = [q \in Uids |-> IF q \in Q THEN "closed" ELSE desks[q]]
           /\ told' = [q \in Uids |-> IF q \in Q THEN 1 ELSE told[q]]
<1> DEFINE Q == {x.q : x \in S}
<1>1. \A x \in S : x.q \in Uids /\ CallbackOf(x) \in callbacks /\ CallbackOf(x).q = x.q /\ CallbackOf(x).id = x.id
  BY EntryParts DEF DeskInv, CallbackOf
<1>2. \A x \in S : told[x.q] = 0
  <2>1. ASSUME NEW x \in S PROVE told[x.q] = 0
    <3>1. EndsOnce(CallbackOf(x))
      BY <1>1 DEF DeskInv
    <3> QED BY <1>1, <3>1 DEF EndsOnce
  <2> QED BY <2>1
<1>3. attached' = attached \ {x.id : x \in S}
  BY DEF CancelQueries
<1>4. ASSUME NEW q \in Uids PROVE Desk(q)' = IF q \in Q THEN "closed" ELSE desks[q]
  <2>1. Taken(q)' <=> Taken(q)
    BY DEF Taken
  <2>2. CASE q \in Q
    <3>1. PICK x \in S : x.q = q
      BY <2>2
    <3>2. \A c \in callbacks : c.q = q => c = CallbackOf(x)
      BY <1>1, <3>1 DEF DeskInv
    <3>3. ~Live(q)' /\ Taken(q)
      BY <1>1, <1>3, <3>1, <3>2 DEF Live, Taken
    <3> QED BY <2>1, <2>2, <3>3 DEF Desk
  <2>3. CASE q \notin Q
    <3>1. \A c \in callbacks, x \in S : c.q = q => c.id # x.id
      <4>1. ASSUME NEW c \in callbacks, NEW x \in S, c.q = q, c.id = x.id PROVE FALSE
        <5>1. c = CallbackOf(x)
          BY <1>1, <4>1 DEF DeskInv
        <5> QED BY <1>1, <2>3, <4>1, <5>1
      <4> QED BY <4>1
    <3>2. Live(q)' <=> Live(q)
      BY <1>3, <3>1 DEF Live
    <3>3. Desk(q)' = Desk(q)
      BY <2>1, <3>2 DEF Desk
    <3> QED BY <2>3, <3>3, SidesAre
  <2> QED BY <2>2, <2>3
<1>5. Q \in SUBSET Uids
  BY <1>1
<1>6. \A q \in Q : desks[q] # "none" /\ told[q] = 0
  <2>1. ASSUME NEW x \in S PROVE desks[x.q] # "none"
    <3>1. Taken(x.q) /\ x.q \in Uids
      BY <1>1 DEF Taken
    <3>2. desks[x.q] = Desk(x.q)
      BY <3>1, SidesAre
    <3> QED BY <3>1, <3>2 DEF Desk
  <2> QED BY <1>2, <2>1
<1>7. told' = [q \in Uids |-> IF q \in Q THEN 1 ELSE told[q]]
  <2>1. told' = [q \in Uids |-> IF \E x \in S : x.q = q THEN told[q] + 1 ELSE told[q]]
    BY DEF CancelQueries
  <2>2. \A q \in Uids : (\E x \in S : x.q = q) <=> q \in Q
    OBVIOUS
  <2>3. \A q \in Uids : q \in Q => told[q] + 1 = 1
    BY <1>6
  <2> QED BY <2>1, <2>2, <2>3
<1>8. desks' = [q \in Uids |-> IF q \in Q THEN "closed" ELSE desks[q]]
  BY <1>4, PagesNext
<1> QED BY <1>5, <1>6, <1>7, <1>8

\* A step that answers nothing: handlers are told and pages leave.
LEMMA StepTells ==
  ASSUME TypeOK, DeskInv, AgreeInv, DoneInv, UNCHANGED <<issued, done, said, got, callbacks>>,
         OpenQueries' \subseteq OpenQueries,
         (\E S \in SUBSET queries : CancelQueries(S)) \/ UNCHANGED <<attached, told>>
  PROVE  Contract!Next
<1>1. \E Q \in SUBSET Uids :
           /\ \A q \in Q : desks[q] # "none" /\ told[q] = 0
           /\ desks' = [q \in Uids |-> IF q \in Q THEN "closed" ELSE desks[q]]
           /\ told' = [q \in Uids |-> IF q \in Q THEN 1 ELSE told[q]]
  <2>1. CASE \E S \in SUBSET queries : CancelQueries(S)
    BY <2>1, DesksTold
  <2>2. CASE UNCHANGED <<attached, told>>
    <3>1. \A q \in Uids : (Live(q)' <=> Live(q)) /\ (Taken(q)' <=> Taken(q))
      BY <2>2 DEF Live, Taken
    <3>2. desks' = desks /\ told' = told
      BY <2>2, <3>1, DesksSame
    <3>3. desks = [q \in Uids |-> desks[q]] /\ told = [q \in Uids |-> told[q]]
      BY SidesAre DEF TypeOK
    <3>4. PICK N \in SUBSET Uids : N = {}
      OBVIOUS
    <3>5. \A q \in N : desks[q] # "none" /\ told[q] = 0
      BY <3>4
    <3>6. /\ desks' = [q \in Uids |-> IF q \in N THEN "closed" ELSE desks[q]]
          /\ told' = [q \in Uids |-> IF q \in N THEN 1 ELSE told[q]]
      BY <3>2, <3>3, <3>4
    <3> WITNESS N \in SUBSET Uids
    <3> QED BY <3>5, <3>6
  <2> QED BY <2>1, <2>2
<1>2. PICK Q \in SUBSET Uids :
           /\ \A q \in Q : desks[q] # "none" /\ told[q] = 0
           /\ desks' = [q \in Uids |-> IF q \in Q THEN "closed" ELSE desks[q]]
           /\ told' = [q \in Uids |-> IF q \in Q THEN 1 ELSE told[q]]
  BY <1>1
<1>3. \E P \in SUBSET Uids :
           /\ \A q \in P : pages[q] = "open"
           /\ pages' = [q \in Uids |-> IF q \in P THEN "left" ELSE pages[q]]
  BY PagesLeft
<1>4. PICK P \in SUBSET Uids :
           /\ \A q \in P : pages[q] = "open"
           /\ pages' = [q \in Uids |-> IF q \in P THEN "left" ELSE pages[q]]
  BY <1>3
<1> QED BY <1>2, <1>4, MapTellLeave

\* A handler answers through a callback.
LEMMA StepAnswers ==
  ASSUME TypeOK, DeskInv, AgreeInv, DoneInv, DeskAnswer
  PROVE  Contract!Next
<1>1. PICK c \in callbacks, rest \in Seq(UiTask) : Success(c, rest) \/ Failure(c, rest)
  BY DEF DeskAnswer
<1>2. UNCHANGED <<callbacks, told, requests, issued, done, got>>
  BY DEF DeskAnswer
<1>3. OpenQueries' = OpenQueries
  BY <1>2 DEF OpenQueries
<1>4. CASE c.id \notin attached
  <2>1. said' = said /\ attached' = attached
    BY <1>1, <1>4 DEF Success, Failure
  <2> QED BY <1>2, <1>3, <2>1, StepTells
<1>5. CASE c.id \in attached
  <2>1. pages' = pages
    BY <1>2, <1>3, PagesSame
  <2> DEFINE q == c.q
  <2>2. q \in Uids
    BY OwedTyped
  <2>3. desks[q] = "pending" /\ Desk(q) = "pending"
    BY <1>5, <2>2, SidesAre DEF Desk, Live
  <2>4. \A p : Taken(p)' <=> Taken(p)
    BY <1>2 DEF Taken
  <2>5. ASSUME attached' = attached \/ attached' = attached \ {c.id}, NEW p \in Uids, p # q
        PROVE  Desk(p)' = Desk(p)
    <3>1. \A d \in callbacks : d.q = p => d.id # c.id
      BY <2>5 DEF DeskInv
    <3>2. Live(p)' <=> Live(p)
      BY <1>2, <2>5, <3>1 DEF Live
    <3> QED BY <2>4, <3>2 DEF Desk
  <2>6. ASSUME attached' = attached \ {c.id} PROVE desks' = [desks EXCEPT ![q] = "closed"]
    <3>1. \A d \in callbacks : d.q = q => d = c
      BY DEF DeskInv
    <3>2. ~Live(q)' /\ Taken(q)'
      BY <1>2, <2>6, <3>1 DEF Live, Taken
    <3>3. Desk(q)' = "closed"
      BY <3>2 DEF Desk
    <3>4. \A p \in Uids : p # q => Desk(p)' = Desk(p)
      BY <2>5, <2>6
    <3> QED BY <2>2, <3>3, <3>4, DeskSet
  <2>7. CASE Success(c, rest)
    <3>1. said' = [said EXCEPT ![q] = said[q] + 1]
      BY <1>5, <2>7 DEF Success
    <3>2. CASE c.pers
      <4>1. attached' = attached
        BY <1>5, <2>7, <3>2 DEF Success
      <4>2. Desk(q)' = desks[q]
        BY <1>2, <2>3, <2>4, <4>1 DEF Desk, Live
      <4>3. desks' = [desks EXCEPT ![q] = desks[q]]
        <5>1. \A p \in Uids : p # q => Desk(p)' = Desk(p)
          BY <2>5, <4>1
        <5> QED BY <2>2, <4>2, <5>1, DeskSet
      <4>4. desks' = [desks EXCEPT ![q] = IF FALSE THEN "closed" ELSE desks[q]]
        BY <4>3
      <4> HIDE DEF q
      <4> QED BY <1>2, <2>1, <2>2, <2>3, <3>1, <4>4, MapSay
    <3>3. CASE ~c.pers
      <4>1. attached' = attached \ {c.id}
        BY <1>5, <2>7, <3>3 DEF Success
      <4>2. desks' = [desks EXCEPT ![q] = IF TRUE THEN "closed" ELSE desks[q]]
        BY <2>6, <4>1
      <4> HIDE DEF q
      <4> QED BY <1>2, <2>1, <2>2, <2>3, <3>1, <4>2, MapSay
    <3> QED BY <3>2, <3>3
  <2>8. CASE Failure(c, rest)
    <3>1. said' = said /\ attached' = attached \ {c.id}
      BY <2>8 DEF Failure
    <3>2. desks' = [desks EXCEPT ![q] = "closed"]
      BY <2>6, <3>1
    <3> HIDE DEF q
    <3> QED BY <1>2, <2>1, <2>2, <2>3, <3>1, <3>2, MapGiveUp
  <2> QED BY <1>1, <2>7, <2>8
<1> QED BY <1>4, <1>5

\* A handler takes a query.
LEMMA StepAccepts ==
  ASSUME TypeOK, SentOnce, DeskInv, AgreeInv, DoneInv, DeskAccept
  PROVE  Contract!Next
<1>1. PICK b \in Browsers, h \in Handlers :
        /\ up[b] # <<>> /\ Head(up[b]).type = "query"
        /\ AcceptQuery(b, Head(up[b]), h)
        /\ UNCHANGED <<uiTasks, said, told, answered, requests, issued, done, got>>
  BY DEF DeskAccept
<1>2. up[b] \in Seq(UpMessage) /\ 1 \in 1..Len(up[b]) /\ Head(up[b]) = up[b][1]
      /\ Head(up[b]) \in Elems(up[b])
  BY <1>1, LenProperties, EmptySeq, ElemsOfTail DEF TypeOK
<1>3. PICK m : m = Head(up[b])
  OBVIOUS
<1>4. m \in QueriesSent(b) /\ m.q \in Uids /\ \A d \in callbacks : d.q # m.q
  BY <1>1, <1>2, <1>3, MessageParts DEF SentOnce, QueriesSent
<1>5. PICK c : /\ c.id = nextQuery + 1 /\ c.q = m.q
               /\ callbacks' = callbacks \cup {c} /\ attached' = attached \cup {c.id}
  <2> DEFINE new == [id |-> nextQuery + 1, pers |-> m.pers, q |-> m.q]
  <2>1. /\ new.id = nextQuery + 1 /\ new.q = m.q
        /\ callbacks' = callbacks \cup {new} /\ attached' = attached \cup {new.id}
    BY <1>1, <1>3 DEF AcceptQuery, GetNextId
  <2> QED BY <2>1
<1>6. \A d \in callbacks : d.id # c.id
  <2>1. \A d \in callbacks : d.id <= nextQuery /\ d.id \in Nat
    BY DEF DeskInv, TypeOK, CallbackImpl
  <2>2. nextQuery \in Nat
    BY DEF TypeOK
  <2> QED BY <1>5, <2>1, <2>2
<1> DEFINE q == m.q
<1>7. desks[q] = "none"
  <2>1. ~Live(q) /\ ~Taken(q)
    BY <1>4 DEF Live, Taken
  <2> QED BY <1>4, <2>1, SidesAre DEF Desk
<1>8. Desk(q)' = "pending"
  BY <1>5 DEF Desk, Live
<1>9. ASSUME NEW p \in Uids, p # q PROVE Desk(p)' = Desk(p)
  <2>1. \A d \in callbacks' : d.q = p => d \in callbacks
    BY <1>5, <1>9
  <2>2. Taken(p)' <=> Taken(p)
    BY <1>5, <2>1 DEF Taken
  <2>3. \A d \in callbacks : d.id \in attached' <=> d.id \in attached
    BY <1>5, <1>6
  <2>4. Live(p)' <=> Live(p)
    BY <1>5, <2>1, <2>3 DEF Live
  <2> QED BY <2>2, <2>4 DEF Desk
<1>10. desks' = [desks EXCEPT ![q] = "pending"]
  BY <1>4, <1>8, <1>9, DeskSet
<1>11. pages' = pages
  <2>1. OpenQueries' = OpenQueries
    BY <1>1 DEF OpenQueries
  <2> QED BY <1>1, <2>1, PagesSame
<1>12. pages[q] \in {"open", "left"}
  <2>1. q <= issued /\ q \notin done /\ q \in Nat /\ issued \in Nat
    BY <1>4, IssuedQueries DEF DoneInv, TypeOK
  <2>2. ~(q > issued)
    BY <2>1
  <2>3. Page(q) \in {"open", "left"}
    BY <2>1, <2>2 DEF Page
  <2> QED BY <1>4, <2>3, SidesAre
<1> HIDE DEF q
<1>13. q \in Uids
  BY <1>4 DEF q
<1> QED BY <1>1, <1>7, <1>10, <1>11, <1>12, <1>13, MapAccept

\* The page asks.
LEMMA StepAsks ==
  ASSUME TypeOK, AgreeInv, NEW a \in Browsers, NEW f \in Frames,
         NEW pers \in Persistence, CefQuery(a, f, pers)
  PROVE  Contract!Next
<1>1. /\ issued \in Nat /\ issued' = issued + 1 /\ issued' \in Uids
      /\ UNCHANGED <<browserVars, done, said, got, told>>
  BY AskedQuery
<1>2. PICK n \in Request : /\ n.q = issued + 1 /\ requests'[a] = requests[a] \cup {n}
                           /\ \A b \in Browsers : b # a => requests'[b] = requests[b]
  BY AskedQuery
<1>3. PICK q \in Uids : q = issued + 1
  BY <1>1
<1>4. \A p \in Uids : p \in OpenQueries' <=> p \in OpenQueries \/ p = q
  <2>1. \A p : p \in OpenQueries <=> \E b \in Browsers : \E r \in requests[b] : r.q = p
    BY OpenAre
  <2>2. \A p : p \in OpenQueries' <=> \E b \in Browsers : \E r \in requests'[b] : r.q = p
    BY OpenNext
  <2>3. \A b \in Browsers : \A r : r \in requests'[b] <=> r \in requests[b] \/ (b = a /\ r = n)
    BY <1>2
  <2> QED BY <1>2, <1>3, <2>1, <2>2, <2>3
<1>5. \A p \in Uids : p \in Nat
  BY DEF Uids
<1>6. pages[q] = "idle"
  <2>1. q > issued
    BY <1>1, <1>3
  <2> QED BY <2>1, SidesAre DEF Page
<1>7. Page(q)' = "open"
  <2>1. ~(q > issued') /\ q \in OpenQueries'
    BY <1>1, <1>3, <1>4
  <2> QED BY <2>1 DEF Page
<1>8. ASSUME NEW p \in Uids, p # q PROVE Page(p)' = Page(p)
  <2>1. p > issued' <=> p > issued
    BY <1>1, <1>3, <1>5, <1>8
  <2>2. p \in OpenQueries' <=> p \in OpenQueries
    BY <1>4, <1>8
  <2> QED BY <1>1, <2>1, <2>2 DEF Page
<1>9. pages' = [pages EXCEPT ![q] = "open"]
  BY <1>7, <1>8, PageSet
<1>10. desks' = desks
  <2>1. \A p \in Uids : (Live(p)' <=> Live(p)) /\ (Taken(p)' <=> Taken(p))
    BY <1>1 DEF Live, Taken, browserVars
  <2> QED BY <2>1, DesksSame
<1> QED BY <1>1, <1>6, <1>9, <1>10, MapAsk

\* A callback of the page runs.
LEMMA StepHears ==
  ASSUME TypeOK, KeyInv, DeskInv, TasksInv, ContextInv, AgreeInv, NoQueryLost, HeardInv, DoneInv,
         NEW a \in Browsers, ExecuteCallback(a)
  PROVE  Contract!Next
<1>1. /\ \A c \in Browsers : c # a => requests'[c] = requests[c]
      /\ UNCHANGED <<browserVars, issued, said, told>>
  BY ExecuteHears
<1>2. UNCHANGED <<callbacks, attached, queries>>
  BY <1>1 DEF browserVars
<1>3. desks' = desks
  <2>1. \A p \in Uids : (Live(p)' <=> Live(p)) /\ (Taken(p)' <=> Taken(p))
    BY <1>2 DEF Live, Taken
  <2> QED BY <2>1, DesksSame
<1>4. CASE requests'[a] = requests[a] /\ got' = got /\ done' = done
  <2>1. \A b \in Browsers : requests'[b] = requests[b]
    BY <1>1, <1>4
  <2>2. OpenQueries' \subseteq OpenQueries
    BY <2>1, OpenAre, OpenNext
  <2> QED BY <1>1, <1>2, <1>4, <2>2, StepTells
<1>5. ASSUME NEW r \in requests[a], NEW ok \in BOOLEAN, Hears(a, r, ok) PROVE Contract!Next
  <2>1. PICK q \in Uids : q = r.q
    BY RequestParts
  <2>2. q \in OpenQueries /\ pages[q] = "open" /\ q <= issued
    <3>1. q \in OpenQueries
      BY <2>1, OpenAre
    <3> QED BY <3>1, OpenIsIssued, SidesAre
  <2>3. ASSUME ~ok \/ ~r.pers
        PROVE  pages' = [pages EXCEPT ![q] = "done"] /\ desks[q] # "pending"
    <3>1. requests'[a] = requests[a] \ {r} /\ done' = done \cup {q}
      BY <1>5, <2>1, <2>3 DEF Hears
    <3>2. \A b \in Browsers : \A s \in requests[b] : s.q = q => b = a /\ s = r
      BY <2>1, MatchesRequest
    <3>3. \A b \in Browsers : \A s : s \in requests'[b] <=> s \in requests[b] /\ ~(b = a /\ s = r)
      BY <1>1, <3>1
    <3>4. \A p \in Uids : p \in OpenQueries' <=> p \in OpenQueries /\ p # q
      <4>1. \A p : p \in OpenQueries <=> \E b \in Browsers : \E s \in requests[b] : s.q = p
        BY OpenAre
      <4>2. \A p : p \in OpenQueries' <=> \E b \in Browsers : \E s \in requests'[b] : s.q = p
        BY OpenNext
      <4> QED BY <2>1, <3>2, <3>3, <4>1, <4>2
    <3>5. Page(q)' = "done"
      <4>1. q \in done' /\ q \notin OpenQueries' /\ ~(q > issued')
        <5>1. q \in Nat /\ issued \in Nat
          BY DEF Uids, TypeOK
        <5> QED BY <1>1, <2>2, <3>1, <3>4, <5>1
      <4> QED BY <4>1 DEF Page
    <3>6. ASSUME NEW p \in Uids, p # q PROVE Page(p)' = Page(p)
      <4>1. (p \in OpenQueries' <=> p \in OpenQueries) /\ (p \in done' <=> p \in done)
        BY <3>1, <3>4, <3>6
      <4> QED BY <1>1, <4>1 DEF Page
    <3>7. ~Live(q)
      <4>1. ASSUME NEW c \in callbacks, c.q = q, c.id \in attached PROVE FALSE
        <5>1. PICK x \in queries : x.id = c.id
          BY <4>1 DEF DeskInv, LiveCallbackHasEntry
        <5>2. x.q = r.q /\ x.browser \in Browsers /\ x \in Entries(x.browser)
          BY <2>1, <4>1, <5>1, CallbackOfEntry, EntryParts DEF Entries, OfBrowser
        <5>3. x \in Entries(a)
          BY <5>2, MatchesRequest
        <5>4. HearsReply(a) /\ r \notin requests'[a]
          BY <3>1, ExecuteIsHearing
        <5>5. \A y \in Entries(a) : y.q # r.q
          BY <5>4, LastHeard
        <5> QED BY <5>2, <5>3, <5>5
      <4> QED BY <4>1 DEF Live
    <3>8. desks[q] # "pending"
      BY <3>7, SidesAre DEF Desk
    <3> QED BY <3>5, <3>6, <3>8, PageSet
  <2>4. CASE ~ok
    <3>1. got' = got
      BY <1>5, <2>4 DEF Hears
    <3> QED BY <1>1, <1>3, <2>2, <2>3, <2>4, <3>1, MapFail
  <2>5. CASE ok
    <3>1. got' = [got EXCEPT ![q] = got[q] + 1]
      BY <1>5, <2>1, <2>5 DEF Hears
    <3>2. got[q] < said[q]
      <4>1. HeardInv'
        BY HeardExecute
      <4>2. got'[q] <= said'[q]
        BY <4>1 DEF HeardInv
      <4>3. got'[q] = got[q] + 1 /\ got[q] \in Nat /\ said[q] \in Nat
        BY <3>1 DEF TypeOK
      <4> QED BY <1>1, <4>2, <4>3
    <3>3. CASE r.pers
      <4>1. requests'[a] = requests[a] /\ done' = done
        BY <1>5, <2>5, <3>3 DEF Hears
      <4>2. \A b \in Browsers : requests'[b] = requests[b]
        BY <1>1, <4>1
      <4>3. \A p \in Uids : p \in OpenQueries' <=> p \in OpenQueries
        BY <4>2, OpenAre, OpenNext
      <4>4. pages' = pages
        BY <1>1, <4>1, <4>3, PagesSame
      <4>5. pages' = [pages EXCEPT ![q] = IF FALSE THEN "done" ELSE pages[q]]
        BY <4>4, SidesAre
      <4> QED BY <1>1, <1>3, <2>2, <3>1, <3>2, <4>5, MapHear
    <3>4. CASE ~r.pers
      <4>1. pages' = [pages EXCEPT ![q] = IF TRUE THEN "done" ELSE pages[q]]
        BY <2>3, <3>4
      <4>2. TRUE => desks[q] # "pending"
        BY <2>3, <3>4
      <4> QED BY <1>1, <1>3, <2>2, <3>1, <3>2, <4>1, <4>2, MapHear
    <3> QED BY <3>3, <3>4
  <2> QED BY <2>4, <2>5
<1>6. (requests'[a] = requests[a] /\ got' = got /\ done' = done)
        \/ \E r \in requests[a], ok \in BOOLEAN : Hears(a, r, ok)
  BY ExecuteHears
<1> QED BY <1>4, <1>5, <1>6

LEMMA ContractStep ==
  ASSUME TypeOK, TypeOK', KeyInv, SentOnce, DeskInv, TasksInv, ContextInv, AgreeInv, NoQueryLost,
         HeardInv, DoneInv, [Next]_vars
  PROVE  Contract!Next
<1>1. CASE \E a \in Browsers : ExecuteCallback(a)
  BY <1>1, StepHears
<1>2. CASE \E a \in Browsers, f \in Frames, pers \in Persistence : CefQuery(a, f, pers)
  BY <1>2, StepAsks
<1>3. CASE /\ ~ \E a \in Browsers : ExecuteCallback(a)
           /\ ~ \E a \in Browsers, f \in Frames, pers \in Persistence : CefQuery(a, f, pers)
  <2>1. UNCHANGED <<issued, done, got>>
    BY <1>3, GotOnly, IssuedOnly
  <2>2. OpenQueries' \subseteq OpenQueries
    <3>1. \A b \in Browsers : requests'[b] \subseteq requests[b]
      BY <1>3, BrowserSteps, RequestsKept
    <3> QED BY <3>1, OpenAre, OpenNext
  <2>3. CASE DeskStill
    <3>1. UNCHANGED <<callbacks, attached, said, told>>
      BY <2>3 DEF DeskStill
    <3> QED BY <2>1, <2>2, <3>1, StepTells
  <2>4. CASE DeskCancel
    <3>1. UNCHANGED <<callbacks, said>> /\ \E S \in SUBSET queries : CancelQueries(S)
      BY <2>4 DEF DeskCancel
    <3> QED BY <2>1, <2>2, <3>1, StepTells
  <2>5. CASE OnCallback(TRUE) \/ OnCallback(FALSE)
    <3>1. UNCHANGED <<callbacks, attached, said, told>>
      BY <2>5 DEF OnCallback
    <3> QED BY <2>1, <2>2, <3>1, StepTells
  <2> QED BY <2>3, <2>4, <2>5, DeskSteps, StepAnswers, StepAccepts DEF DeskStep
<1> QED BY <1>1, <1>2, <1>3

LEMMA ContractInit == Init => Contract!Init
<1> SUFFICES ASSUME Init PROVE Contract!Init
  OBVIOUS
<1>1. \A q \in Uids : Page(q) = "idle"
  <2>1. \A q \in Uids : q > issued
    BY DEF Init, Uids
  <2> QED BY <2>1 DEF Page
<1>2. \A q \in Uids : Desk(q) = "none"
  BY DEF Init, Desk, Live, Taken
<1>3. said = [q \in Uids |-> 0] /\ got = [q \in Uids |-> 0] /\ told = [q \in Uids |-> 0]
  BY DEF Init
<1> QED BY <1>1, <1>2, <1>3, MapInit DEF pages, desks

\* Every step of the router is a step the contract allows: the router
\* implements the promise of include/wrapper/cef_message_router.h.
THEOREM ContractIsKept == Spec => ContractHolds
<1>1. TypeOK /\ TypeOK' /\ KeyInv /\ SentOnce /\ DeskInv /\ TasksInv /\ ContextInv /\ AgreeInv
        /\ NoQueryLost /\ HeardInv /\ DoneInv /\ [Next]_vars => Contract!Next
  BY ContractStep
<1> QED BY <1>1, ContractInit, TypeCorrect, KeysInvariant, DeskInvariant, ContextInvariant,
          AgreeInvariant, NoQueryIsLost, HeardInvariant, DoneInvariant, PTL
       DEF Spec, ContractHolds, Contract!Spec
=============================================================================
