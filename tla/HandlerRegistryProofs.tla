------------------------ MODULE HandlerRegistryProofs ------------------------
(***************************************************************************)
(* HandlerRegistry's invariants hold for any set of handlers and any       *)
(* number of queries.                                                      *)
(***************************************************************************)
EXTENDS HandlerRegistry, FiniteSetTheorems, SequenceTheorems, WellFoundedInduction, TLAPS

\* The loop's state: what is left of the copy has not been asked, and the two
\* make up the copy; outside the loop the latest verdict says what became of
\* the query, and a running loop has drawn an id.
LoopInv ==
  /\ IsFiniteSet(Asked)
  /\ busy => /\ asked # <<>> /\ nextQuery \in 1..MaxQueries
             /\ verdict = "none"
             /\ Asked \cup rest = copy /\ Asked \cap rest = {}

\* The history of AddHandler's calls names every handler in the set.
Names(s, h) == \E i \in DOMAIN s : s[i] = h
OrderInv == \A h \in handlers : Names(order, h)

\* While the loop runs, a handler of its copy that is not in the set any more
\* was removed under it, and owns at most the query it may still take.
RemovedInv ==
  /\ busy => \A h \in copy \ handlers : removedIn[h] = nextQuery
  /\ RemovedOwnsOnlyOffered

RegistryInv == TypeOK /\ LoopInv /\ OrderInv /\ OfferedToEachOnce /\ RemovedInv

\* A set of addresses has a lowest one, so the iterators are well defined.
LEMMA LowestHandler ==
  ASSUME NEW S, S \subseteq Nat, S # {}
  PROVE  Lowest(S) \in S
<1> DEFINE R == OpToRel(<, Nat)
<1>1. IsWellFoundedOn(R, Nat)
  BY NatLessThanWellFounded, Zenon
<1>2. PICK x \in S : \A y \in S : ~ (<<y, x>> \in R)
  <2> HIDE DEF R
  <2> QED BY <1>1, WFMin, Zenon
<1>3. ASSUME NEW y \in S PROVE x <= y
  <2>1. y \in Nat /\ x \in Nat /\ <<y, x>> \in Nat \X Nat
    OBVIOUS
  <2>2. ~(y < x)
    BY <1>2, <2>1 DEF OpToRel
  <2> HIDE DEF R
  <2> QED BY <2>1, <2>2
<1> HIDE DEF R
<1> QED BY <1>3 DEF Lowest

\* Taking a handler out of the order leaves the others in it.
LEMMA WithoutOne ==
  ASSUME NEW s \in Seq(Handlers), NEW h, Names(s, h)
  PROVE  /\ Without(s, h) \in Seq(Handlers)
         /\ \A g : g # h /\ Names(s, g) => Names(Without(s, h), g)
<1> DEFINE i == CHOOSE i \in DOMAIN s : s[i] = h
           front == SubSeq(s, 1, i - 1)
           back == SubSeq(s, i + 1, Len(s))
<1>1. i \in 1..Len(s) /\ s[i] = h
  BY DEF Names
<1> HIDE DEF i
<1>2. /\ front \in Seq(Handlers) /\ Len(front) = i - 1
      /\ \A j \in 1..(i - 1) : front[j] = s[j]
  BY <1>1
<1>3. /\ back \in Seq(Handlers) /\ Len(back) = Len(s) - i
      /\ \A j \in 1..(Len(s) - i) : back[j] = s[i + j]
  BY <1>1
<1>4. Without(s, h) = front \o back
  BY DEF Without, i
<1> HIDE DEF front, back
<1>5. /\ front \o back \in Seq(Handlers) /\ DOMAIN (front \o back) = 1..(Len(s) - 1)
      /\ \A j \in 1..(i - 1) : (front \o back)[j] = s[j]
      /\ \A j \in i..(Len(s) - 1) : (front \o back)[j] = s[j + 1]
  <2>1. /\ front \o back \in Seq(Handlers) /\ Len(front \o back) = Len(front) + Len(back)
        /\ \A j \in 1..Len(front) : (front \o back)[j] = front[j]
        /\ \A j \in (Len(front) + 1)..(Len(front) + Len(back)) :
             (front \o back)[j] = back[j - Len(front)]
    <3>1. /\ front \o back \in Seq(Handlers) /\ Len(front \o back) = Len(front) + Len(back)
          /\ \A j \in 1..Len(front) + Len(back) :
               (front \o back)[j] = IF j <= Len(front) THEN front[j] ELSE back[j - Len(front)]
      BY <1>2, <1>3, ConcatProperties
    <3>2. Len(front) \in Nat /\ Len(back) \in Nat
      BY <1>2, <1>3
    <3> QED BY <3>1, <3>2
  <2>2. ASSUME NEW j \in i..(Len(s) - 1) PROVE (front \o back)[j] = s[j + 1]
    <3>1. /\ j \in (Len(front) + 1)..(Len(front) + Len(back))
          /\ j - Len(front) = j - i + 1 /\ j - i + 1 \in 1..(Len(s) - i)
          /\ i + (j - i + 1) = j + 1
      BY <1>1, <1>2, <1>3
    <3>2. (front \o back)[j] = back[j - i + 1]
      BY <2>1, <3>1
    <3> QED BY <1>3, <3>1, <3>2
  <2>3. DOMAIN (front \o back) = 1..(Len(s) - 1)
    BY <1>1, <1>2, <1>3, <2>1
  <2> QED BY <1>2, <2>1, <2>2, <2>3
<1>6. ASSUME NEW g, g # h, NEW j \in DOMAIN s, s[j] = g
      PROVE  Names(front \o back, g)
  <2>1. j # i /\ j \in 1..Len(s)
    BY <1>1, <1>6
  <2>2. CASE j < i
    <3>1. j \in 1..(Len(s) - 1) /\ j \in 1..(i - 1)
      BY <1>1, <2>1, <2>2
    <3> QED BY <1>5, <1>6, <3>1 DEF Names
  <2>3. CASE j > i
    <3>1. j - 1 \in 1..(Len(s) - 1) /\ j - 1 \in i..(Len(s) - 1) /\ (j - 1) + 1 = j
      BY <1>1, <2>1, <2>3
    <3> QED BY <1>5, <1>6, <3>1 DEF Names
  <2> QED BY <1>1, <2>1, <2>2, <2>3
<1> QED BY <1>4, <1>5, <1>6 DEF Names

LEMMA RegistryInit == Init => RegistryInv
<1> SUFFICES ASSUME Init PROVE RegistryInv
  OBVIOUS
<1>1. Asked = {} /\ IsFiniteSet(Asked) /\ Len(asked) = 0 /\ Cardinality(Asked) = 0
  BY FS_EmptySet DEF Init, Asked
<1>2. TypeOK
  BY RegistryAssumption DEF Init, TypeOK
<1>3. LoopInv /\ OfferedToEachOnce
  BY <1>1 DEF Init, LoopInv, OfferedToEachOnce
<1> QED BY <1>2, <1>3 DEF Init, RegistryInv, OrderInv, RemovedInv, RemovedOwnsOnlyOffered

\* An action that leaves the loop alone.
LEMMA LoopUntouched ==
  ASSUME LoopInv, OfferedToEachOnce, UNCHANGED loop, UNCHANGED nextQuery
  PROVE  LoopInv' /\ OfferedToEachOnce'
<1>1. Asked' = Asked
  BY DEF loop, Asked
<1> QED BY <1>1 DEF loop, LoopInv, OfferedToEachOnce

LEMMA AddHandlerKeeps ==
  ASSUME RegistryInv, NEW h \in Handlers, NEW first \in BOOLEAN, AddHandler(h, first)
  PROVE  RegistryInv'
<1>1. LoopInv' /\ OfferedToEachOnce'
  BY LoopUntouched DEF RegistryInv, AddHandler
<1>2. order' \in Seq(Handlers) /\ OrderInv'
  <2>1. order \in Seq(Handlers)
    BY DEF RegistryInv, TypeOK
  <2>2. CASE first
    <3>1. /\ order' \in Seq(Handlers) /\ 1 \in DOMAIN order' /\ order'[1] = h
          /\ \A i \in DOMAIN order : i + 1 \in DOMAIN order' /\ order'[i + 1] = order[i]
      BY <2>1, <2>2 DEF AddHandler
    <3>2. ASSUME NEW g \in handlers' PROVE Names(order, g)'
      <4>1. CASE g = h
        BY <3>1, <4>1 DEF Names
      <4>2. CASE g # h
        <5>1. PICK i \in DOMAIN order : order[i] = g
          BY <4>2 DEF AddHandler, RegistryInv, OrderInv, Names
        <5> QED BY <3>1, <5>1 DEF Names
      <4> QED BY <4>1, <4>2
    <3> QED BY <3>1, <3>2 DEF OrderInv
  <2>3. CASE ~first
    <3>1. order' = Append(order, h)
      BY <2>3 DEF AddHandler
    <3>2. /\ order' \in Seq(Handlers)
          /\ Len(order) + 1 \in DOMAIN order' /\ order'[Len(order) + 1] = h
          /\ \A i \in DOMAIN order : i \in DOMAIN order' /\ order'[i] = order[i]
      BY <2>1, <3>1
    <3> QED BY <3>2 DEF AddHandler, RegistryInv, OrderInv, Names
  <2> QED BY <2>2, <2>3
<1>3. /\ removedIn' \in [Handlers -> 0..MaxQueries]
      /\ \A g \in Handlers : g # h => removedIn'[g] = removedIn[g]
  BY RegistryAssumption DEF RegistryInv, TypeOK, AddHandler
<1>4. TypeOK'
  BY <1>2, <1>3 DEF RegistryInv, TypeOK, AddHandler, loop
<1>5. RemovedInv'
  BY <1>3 DEF RegistryInv, TypeOK, RemovedInv, RemovedOwnsOnlyOffered, AddHandler, loop
<1> QED BY <1>1, <1>2, <1>4, <1>5 DEF RegistryInv

LEMMA RemoveHandlerKeeps ==
  ASSUME RegistryInv, NEW h \in Handlers, RemoveHandler(h)
  PROVE  RegistryInv'
<1>1. LoopInv' /\ OfferedToEachOnce'
  BY LoopUntouched DEF RegistryInv, RemoveHandler, Remove
<1>2. order' \in Seq(Handlers) /\ OrderInv'
  <2>1. order \in Seq(Handlers) /\ h \in handlers /\ order' = Without(order, h)
        /\ handlers' = handlers \ {h}
    BY DEF RegistryInv, TypeOK, RemoveHandler, Remove
  <2>2. Names(order, h)
    BY <2>1 DEF RegistryInv, OrderInv
  <2>3. /\ Without(order, h) \in Seq(Handlers)
        /\ \A g : g # h /\ Names(order, g) => Names(Without(order, h), g)
    BY <2>1, <2>2, WithoutOne
  <2> QED BY <2>1, <2>3 DEF RegistryInv, OrderInv
<1>3. /\ removedIn' \in [Handlers -> 0..MaxQueries]
      /\ \A g \in Handlers : g # h => removedIn'[g] = removedIn[g]
      /\ busy => removedIn'[h] = nextQuery
  BY RegistryAssumption DEF RegistryInv, TypeOK, RemoveHandler, Remove
<1>4. TypeOK'
  BY <1>2, <1>3 DEF RegistryInv, TypeOK, RemoveHandler, Remove, CancelPendingFor, loop
<1>5. RemovedInv'
  BY <1>3
  DEF RegistryInv, TypeOK, RemovedInv, RemovedOwnsOnlyOffered, RemoveHandler, Remove,
      CancelPendingFor, loop
<1> QED BY <1>1, <1>2, <1>4, <1>5 DEF RegistryInv

\* CancelPending and the answers only take entries away.
LEMMA EntriesGoKeeps ==
  ASSUME RegistryInv, entries' \subseteq entries,
         UNCHANGED <<handlers, nextQuery, order, removedIn, loop>>
  PROVE  RegistryInv'
<1>1. LoopInv' /\ OfferedToEachOnce'
  BY LoopUntouched DEF RegistryInv
<1>2. TypeOK'
  BY DEF RegistryInv, TypeOK, loop
<1>3. RemovedInv' /\ OrderInv'
  BY DEF RegistryInv, RemovedInv, RemovedOwnsOnlyOffered, OrderInv, Names, loop
<1> QED BY <1>1, <1>2, <1>3 DEF RegistryInv

LEMMA OnQueryMessageKeeps ==
  ASSUME RegistryInv, OnQueryMessage
  PROVE  RegistryInv'
<1>1. handlers \subseteq Handlers /\ nextQuery \in 0..MaxQueries /\ nextQuery < MaxQueries
      /\ MaxQueries \in Nat
  BY RegistryAssumption DEF RegistryInv, TypeOK, OnQueryMessage
<1>2. OrderInv' /\ RemovedInv'
  <2>1. UNCHANGED <<handlers, entries, order, removedIn>> /\ copy' = handlers
    BY DEF OnQueryMessage
  <2> QED BY <2>1 DEF RegistryInv, OrderInv, Names, RemovedInv, RemovedOwnsOnlyOffered
<1>3. CASE handlers = {}
  <2>1. asked' = <<>> /\ copy' = {} /\ verdict' = "refused" /\ ~busy
        /\ UNCHANGED <<handlers, entries, order, removedIn, nextQuery, rest, busy>> /\ orderThen' = order
    BY <1>3 DEF OnQueryMessage
  <2>2. Asked' = {} /\ IsFiniteSet(Asked') /\ Cardinality(Asked') = 0 /\ Len(asked') = 0
    BY <2>1, FS_EmptySet DEF Asked
  <2>3. LoopInv' /\ OfferedToEachOnce'
    BY <2>1, <2>2 DEF LoopInv, OfferedToEachOnce
  <2>4. TypeOK'
    BY <2>1 DEF RegistryInv, TypeOK
  <2> QED BY <1>2, <2>3, <2>4 DEF RegistryInv
<1>4. CASE handlers # {}
  <2> DEFINE low == Lowest(handlers)
  <2>1. low \in handlers
    BY <1>1, <1>4, LowestHandler, RegistryAssumption
  <2>2. asked' = <<low>> /\ copy' = handlers /\ rest' = handlers \ {low} /\ verdict' = "none"
        /\ busy' = TRUE /\ nextQuery' = nextQuery + 1
        /\ UNCHANGED <<handlers, entries, order, removedIn>> /\ orderThen' = order
    BY <1>4 DEF OnQueryMessage
  <2> HIDE DEF low
  <2>3. Asked' = {low} /\ IsFiniteSet(Asked') /\ Cardinality(Asked') = 1 /\ Len(asked') = 1
    BY <2>2, FS_Singleton DEF Asked
  <2>4. nextQuery' \in 1..MaxQueries /\ asked' # <<>> /\ asked' \in Seq(Handlers)
    BY <1>1, <2>1, <2>2
  <2>5. LoopInv' /\ OfferedToEachOnce'
    BY <2>1, <2>2, <2>3, <2>4 DEF LoopInv, OfferedToEachOnce
  <2>6. busy' \in BOOLEAN
    BY <2>2
  <2>7. TypeOK'
    BY <1>1, <2>1, <2>2, <2>4, <2>6 DEF RegistryInv, TypeOK
  <2> QED BY <1>2, <2>5, <2>7 DEF RegistryInv
<1> QED BY <1>3, <1>4

LEMMA QueryTakenKeeps ==
  ASSUME RegistryInv, QueryTaken
  PROVE  RegistryInv'
<1> DEFINE entry == [id |-> nextQuery, handler |-> Current]
<1>1. /\ busy' = FALSE /\ verdict' = "taken" /\ rest' = {} /\ entries' = entries \cup {entry}
      /\ UNCHANGED <<handlers, nextQuery, order, removedIn, asked, copy, orderThen>>
  BY DEF QueryTaken
<1>2. Current \in Asked /\ Current \in Handlers /\ nextQuery \in 1..MaxQueries
  <2>1. asked \in Seq(Handlers) /\ asked # <<>> /\ nextQuery \in 1..MaxQueries
    BY DEF RegistryInv, TypeOK, LoopInv, QueryTaken
  <2> QED BY <2>1 DEF Current, Asked
<1>3. entry \in [id: 1..MaxQueries, handler: Handlers]
  BY <1>2
<1>4. Asked' = Asked
  BY <1>1 DEF Asked
<1>5. LoopInv' /\ OfferedToEachOnce'
  BY <1>1, <1>4 DEF RegistryInv, LoopInv, OfferedToEachOnce
<1>6. RemovedInv' /\ OrderInv'
  <2>1. entry.handler \in handlers \/ entry.id = removedIn[entry.handler]
    BY <1>2 DEF RegistryInv, RemovedInv, OfferedToEachOnce, QueryTaken
  <2> HIDE DEF entry
  <2> QED BY <1>1, <2>1 DEF RegistryInv, RemovedInv, RemovedOwnsOnlyOffered, OrderInv, Names
<1> HIDE DEF entry
<1>7. busy' \in BOOLEAN /\ ~busy'
  BY <1>1
<1>8. TypeOK'
  BY <1>1, <1>3, <1>7 DEF RegistryInv, TypeOK
<1> QED BY <1>5, <1>6, <1>8 DEF RegistryInv

LEMMA QueryPassedKeeps ==
  ASSUME RegistryInv, QueryPassed
  PROVE  RegistryInv'
<1>1. OrderInv' /\ RemovedInv'
  <2>1. UNCHANGED <<handlers, nextQuery, entries, order, removedIn, copy>> /\ busy
    BY DEF QueryPassed
  <2> QED BY <2>1 DEF RegistryInv, OrderInv, Names, RemovedInv, RemovedOwnsOnlyOffered
<1>2. /\ asked \in Seq(Handlers) /\ rest \subseteq Handlers /\ asked # <<>>
      /\ nextQuery \in 1..MaxQueries /\ verdict = "none"
      /\ Asked \cup rest = copy /\ Asked \cap rest = {} /\ IsFiniteSet(Asked)
      /\ Len(asked) = Cardinality(Asked)
  BY DEF RegistryInv, TypeOK, LoopInv, OfferedToEachOnce, QueryPassed
<1>3. CASE rest = {}
  <2>1. busy' = FALSE /\ verdict' = "refused"
        /\ UNCHANGED <<rest, asked, handlers, nextQuery, entries, order, removedIn, copy, orderThen>>
    BY <1>3 DEF QueryPassed
  <2>2. Asked' = Asked /\ Asked = copy
    BY <1>2, <1>3, <2>1 DEF Asked
  <2>3. LoopInv' /\ OfferedToEachOnce'
    BY <1>2, <2>1, <2>2 DEF LoopInv, OfferedToEachOnce
  <2>4. busy' \in BOOLEAN /\ ~busy'
    BY <2>1
  <2>5. TypeOK'
    BY <2>1, <2>4 DEF RegistryInv, TypeOK
  <2> QED BY <1>1, <2>3, <2>5 DEF RegistryInv
<1>4. CASE rest # {}
  <2> DEFINE low == Lowest(rest)
  <2>1. low \in rest
    BY <1>2, <1>4, LowestHandler, RegistryAssumption
  <2>2. asked' = Append(asked, low) /\ rest' = rest \ {low}
        /\ UNCHANGED <<busy, verdict, handlers, nextQuery, entries, order, removedIn, copy, orderThen>>
    BY <1>4 DEF QueryPassed
  <2> HIDE DEF low
  <2>3. /\ asked' \in Seq(Handlers) /\ asked' # <<>> /\ Len(asked') = Len(asked) + 1
        /\ DOMAIN asked' = DOMAIN asked \cup {Len(asked) + 1}
        /\ asked'[Len(asked) + 1] = low
        /\ \A i \in DOMAIN asked : asked'[i] = asked[i]
    BY <1>2, <2>1, <2>2
  <2>4. Asked' = Asked \cup {low}
    BY <2>3 DEF Asked
  <2>5. low \notin Asked
    BY <1>2, <2>1
  <2>6. IsFiniteSet(Asked') /\ Cardinality(Asked') = Cardinality(Asked) + 1
    BY <1>2, <2>4, <2>5, FS_AddElement
  <2>7. LoopInv' /\ OfferedToEachOnce'
    BY <1>2, <2>1, <2>2, <2>3, <2>4, <2>6 DEF LoopInv, OfferedToEachOnce
  <2>8. TypeOK'
    BY <1>2, <2>2, <2>3 DEF RegistryInv, TypeOK
  <2> QED BY <1>1, <2>7, <2>8 DEF RegistryInv
<1> QED BY <1>3, <1>4

LEMMA RegistryStep == RegistryInv /\ [Next]_vars => RegistryInv'
<1> SUFFICES ASSUME RegistryInv, [Next]_vars PROVE RegistryInv'
  OBVIOUS
<1>1. ASSUME NEW h \in Handlers, NEW first \in BOOLEAN, AddHandler(h, first) PROVE RegistryInv'
  BY <1>1, AddHandlerKeeps
<1>2. ASSUME NEW h \in Handlers, RemoveHandler(h) PROVE RegistryInv'
  BY <1>2, RemoveHandlerKeeps
<1>3. ASSUME NEW h \in Handlers, CancelPending(h) PROVE RegistryInv'
  BY <1>3, EntriesGoKeeps DEF CancelPending, CancelPendingFor
<1>4. ASSUME NEW e \in entries, OnCallback(e) PROVE RegistryInv'
  BY <1>4, EntriesGoKeeps DEF OnCallback
<1>5. CASE OnQueryMessage
  BY <1>5, OnQueryMessageKeeps
<1>6. CASE QueryTaken
  BY <1>6, QueryTakenKeeps
<1>7. CASE QueryPassed
  BY <1>7, QueryPassedKeeps
<1>8. CASE UNCHANGED vars
  BY <1>8, EntriesGoKeeps DEF vars
<1> QED BY <1>1, <1>2, <1>3, <1>4, <1>5, <1>6, <1>7, <1>8 DEF Next

THEOREM RegistryInvariant == Spec => []RegistryInv
  BY RegistryInit, RegistryStep, PTL DEF Spec

\* The registry's variables always hold values of their types.
THEOREM RegistryTypeCorrect == Spec => []TypeOK
  BY RegistryInvariant, PTL DEF RegistryInv

\* However OnQuery changes the set under the loop, a query is offered to each
\* handler that was registered when it arrived, once, and to nobody else.
THEOREM EachIsAskedOnce == Spec => []OfferedToEachOnce
  BY RegistryInvariant, PTL DEF RegistryInv

\* However removals are mixed with the loop and with later AddHandlers, a
\* removed handler owns no query but the one offered when it was removed.
THEOREM RemovedKeepsOnlyOffered == Spec => []RemovedOwnsOnlyOffered
  BY RegistryInvariant, PTL DEF RegistryInv, RemovedInv
=============================================================================
