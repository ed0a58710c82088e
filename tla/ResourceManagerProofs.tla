------------------------ MODULE ResourceManagerProofs ------------------------
(***************************************************************************)
(* TLAPS proofs about ResourceManager.  One inductive invariant, ManagerInv, *)
(* holds of the list of providers, of the two iterators of each load, and  *)
(* of what has been asked, answered and canceled; from it follow the five  *)
(* safety invariants and the action property AskedInOrder.  The lemmas     *)
(* treat sequences, then the two things that happen to a load: its state   *)
(* leaves a Request for a task (Posted), or it moves to another provider   *)
(* (Relocates); then each action.                                          *)
(***************************************************************************)
EXTENDS ResourceManager, SequenceTheorems, FiniteSetTheorems,
        WellFoundedInduction, TLAPS

NoRepeats(s) == \A i, j \in DOMAIN s : s[i] = s[j] => i = j

\* The list is in order and holds what was added, once.
ListInv ==
  /\ NoRepeats(added)
  /\ InList \subseteq ToSet(added)
  /\ \A i, j \in DOMAIN providers : i < j => Before(providers[i], providers[j])

\* A load is in the list of the provider it is at, and its state is there or
\* in a task.
PlaceInv ==
  /\ \A r \in Loads : at[r] # None => at[r] \in InList
  /\ \A p \in Providers :
       ToSet(waiting[p]) = {r \in Loads : at[r] = p} /\ NoRepeats(waiting[p])
  /\ \A r \in held : at[r] # None
  /\ \A r \in Loads : at[r] # None => r \in held \/ TasksOf(r) # {}
  /\ alive => \A r \in Loads : TasksOf(r) # {} => at[r] # None
  /\ ~alive => \A r \in Loads : at[r] = None

\* The Request an archive is about to look at has its state.
CallingInv ==
  calling # None => at[calling] # None /\ (at[calling] \in Archives => calling \in held)

\* A removed provider is kept by requests that have lost their state.
DeletingInv ==
  \A p \in deleting :
    p \in InList /\ waiting[p] # <<>> /\ \A r \in ToSet(waiting[p]) : r \notin held

\* A load has been shown to the providers before the one it is at.
AskedInv ==
  \A r \in Loads :
    /\ status[r] = "idle" => asked[r] = {}
    /\ at[r] # None => at[r] \in asked[r]
    /\ \A p \in asked[r] :
         p \in ToSet(added) /\ (at[r] # None => p = at[r] \/ Before(p, at[r]))

\* A Request that was answered or canceled has lost its state for good.
AnswerInv ==
  /\ \A r \in Loads, p \in Providers :
       <<r, p>> \in answered \cup canceled => p \in asked[r] /\ ~HasState(r, p)
  /\ CanceledIsUnanswered

ManagerInv ==
  /\ TypeOK /\ ListInv /\ PlaceInv /\ CallingInv /\ DeletingInv
  /\ CallbackRunsOnce /\ AskedInv /\ AnswerInv

\* A step in which load r goes from the provider it is at, if any, to q, or is
\* at its end if q is None.
Thinned ==
  /\ providers' \in Seq(Providers) /\ InList' \subseteq InList
  /\ \A i, j \in DOMAIN providers' :
       i < j => Precedes(providers, providers'[i], providers'[j])
FromTo(r, q) ==
  /\ q \in InList \ deleting
  /\ at[r] # None => Before(at[r], q)
  /\ ~\E p \in InList \ deleting :
       Before(p, q) /\ (at[r] # None => Before(at[r], p))
Relocates(r, q) ==
  /\ q # None => FromTo(r, q)
  /\ Thinned
  /\ deleting' = deleting \cap InList'
  /\ \A p \in InList : p \notin InList' => p \in deleting /\ waiting'[p] = <<>>
  /\ \A p \in deleting' : waiting'[p] # <<>>
  /\ waiting' \in [Providers -> Seq(Loads)]
  /\ \A p \in Providers :
       ToSet(waiting'[p]) = {s \in Loads : at'[s] = p} /\ NoRepeats(waiting'[p])
  /\ at' = [at EXCEPT ![r] = q]
  /\ held' = IF q = None THEN held \ {r} ELSE held \cup {r}
  /\ calling' = IF q = None THEN None ELSE r
  /\ calls' = IF q = None THEN [calls EXCEPT ![r] = @ + 1] ELSE calls
  /\ asked' = IF q = None THEN asked ELSE [asked EXCEPT ![r] = @ \cup {q}]

\* What AskedInOrder says of one step.
AskedNearest == \A r \in Loads : \A q \in asked'[r] \ asked[r] : Nearest(r, q)

-----------------------------------------------------------------------------
(* Sequences.                                                              *)

\* A set of positions has a lowest one.
LEMMA MinIsLeast ==
  ASSUME NEW S, S \subseteq Nat, S # {}
  PROVE  Min(S) \in S /\ \A y \in S : Min(S) <= y
<1> DEFINE R == OpToRel(<, Nat)
<1>1. IsWellFoundedOn(R, Nat)
  BY NatLessThanWellFounded, Zenon
<1>2. PICK x \in S : \A y \in S : ~ (<<y, x>> \in R)
  <2> HIDE DEF R
  <2> QED BY <1>1, WFMin, Zenon
<1>3. \A y \in S : x <= y
  <2> TAKE y \in S
  <2>1. <<y, x>> \notin R
    BY <1>2, Zenon
  <2>2. y \in Nat /\ x \in Nat
    OBVIOUS
  <2>3. <<y, x>> \in Nat \X Nat
    BY <2>2
  <2>4. ~(y < x)
    BY <2>1, <2>3 DEF OpToRel
  <2> HIDE DEF R
  <2> QED BY <2>2, <2>4
<1> HIDE DEF R
<1>4. \A y \in S : x =< y
  BY <1>3
<1> QED BY <1>4, Zenon DEF Min

LEMMA FirstOfFacts ==
  ASSUME TypeOK, NEW I, I \subseteq DOMAIN providers
  PROVE  /\ I = {} => FirstOf(I) = None
         /\ I # {} => \E i \in I : FirstOf(I) = providers[i] /\ \A j \in I : i <= j
         /\ FirstOf(I) \in InList \cup {None}
         /\ FirstOf(I) = None <=> I = {}
<1>1. providers \in Seq(Providers) /\ None \notin Providers
  BY ManagerAssumption DEF TypeOK
<1>2. DOMAIN providers = 1..Len(providers) /\ Len(providers) \in Nat
      /\ \A i \in DOMAIN providers : providers[i] \in Providers
  BY <1>1, LenProperties, ElementOfSeq
<1>3. I \subseteq Nat
  BY <1>2
<1>4. CASE I = {}
  BY <1>4 DEF FirstOf
<1>5. CASE I # {}
  <2>1. Min(I) \in I /\ \A j \in I : Min(I) <= j
    BY <1>3, <1>5, MinIsLeast
  <2>2. FirstOf(I) = providers[Min(I)]
    BY <1>5 DEF FirstOf
  <2> QED BY <1>1, <1>2, <1>5, <2>1, <2>2 DEF InList, ToSet
<1> QED BY <1>4, <1>5

\* What erasing an element does to a list without repetitions.
LEMMA RemoveFirstFacts ==
  ASSUME NEW T, NEW s \in Seq(T), NEW e \in ToSet(s), NoRepeats(s)
  PROVE  /\ RemoveFirst(s, e) \in Seq(T)
         /\ ToSet(RemoveFirst(s, e)) = ToSet(s) \ {e}
         /\ NoRepeats(RemoveFirst(s, e))
         /\ \A i, j \in DOMAIN RemoveFirst(s, e) :
              i < j => Precedes(s, RemoveFirst(s, e)[i], RemoveFirst(s, e)[j])
<1>1. DOMAIN s = 1..Len(s) /\ Len(s) \in Nat /\ \A i \in 1..Len(s) : s[i] \in T
  BY LenProperties, ElementOfSeq
<1> DEFINE K == {i \in 1..Len(s) : s[i] = e}
           k == Min(K)
<1>2. K # {} /\ K \subseteq Nat
  BY <1>1 DEF ToSet
<1>3. k \in K
  BY <1>2, MinIsLeast
<1>4. k \in 1..Len(s) /\ s[k] = e
  BY <1>3
<1>5. RemoveFirst(s, e) = SubSeq(s, 1, k - 1) \o SubSeq(s, k + 1, Len(s))
  BY <1>2, <1>4 DEF RemoveFirst, RemoveAt, SelectInSeq
<1> HIDE DEF k, K
<1>6. /\ SubSeq(s, 1, k - 1) \in Seq(T) /\ Len(SubSeq(s, 1, k - 1)) = k - 1
      /\ \A i \in 1..(k - 1) : SubSeq(s, 1, k - 1)[i] = s[i]
  <2>1. \A i \in 1..(k - 1) : s[i] \in T
    BY <1>1, <1>4
  <2>2. 1 \in Int /\ k - 1 \in Int
    BY <1>1, <1>4
  <2>3. /\ SubSeq(s, 1, k - 1) \in Seq(T)
        /\ Len(SubSeq(s, 1, k - 1)) = IF 1 <= k - 1 THEN k - 1 - 1 + 1 ELSE 0
        /\ \A i \in 1..(k - 1 - 1 + 1) : SubSeq(s, 1, k - 1)[i] = s[1 + i - 1]
    BY <2>1, <2>2, SubSeqProperties
  <2> QED BY <1>1, <1>4, <2>3
<1>7. /\ SubSeq(s, k + 1, Len(s)) \in Seq(T) /\ Len(SubSeq(s, k + 1, Len(s))) = Len(s) - k
      /\ \A i \in 1..(Len(s) - k) : SubSeq(s, k + 1, Len(s))[i] = s[k + i]
  <2>1. \A i \in (k + 1)..Len(s) : s[i] \in T
    BY <1>1, <1>4
  <2>2. k + 1 \in Int /\ Len(s) \in Int
    BY <1>1, <1>4
  <2>3. /\ SubSeq(s, k + 1, Len(s)) \in Seq(T)
        /\ Len(SubSeq(s, k + 1, Len(s))) = IF k + 1 <= Len(s) THEN Len(s) - (k + 1) + 1 ELSE 0
        /\ \A i \in 1..(Len(s) - (k + 1) + 1) : SubSeq(s, k + 1, Len(s))[i] = s[k + 1 + i - 1]
    BY <2>1, <2>2, SubSeqProperties
  <2>4. Len(s) - (k + 1) + 1 = Len(s) - k /\ (k + 1 <= Len(s) \/ Len(s) - k = 0)
    <3>1. k \in Int /\ Len(s) \in Int /\ k <= Len(s)
      BY <1>1, <1>4
    <3> QED BY <3>1
  <2>5. ASSUME NEW i \in 1..(Len(s) - k) PROVE k + 1 + i - 1 = k + i
    <3>1. k \in Int /\ i \in Int
      BY <1>1, <1>4
    <3> QED BY <3>1
  <2> QED BY <2>3, <2>4, <2>5
<1> DEFINE t == RemoveFirst(s, e)
<1>8. /\ t \in Seq(T) /\ Len(t) = Len(s) - 1
      /\ \A i \in 1..(Len(s) - 1) : t[i] = IF i < k THEN s[i] ELSE s[i + 1]
  <2>1. /\ t \in Seq(T) /\ Len(t) = (k - 1) + (Len(s) - k)
        /\ \A i \in 1..((k - 1) + (Len(s) - k)) :
             t[i] = IF i <= k - 1 THEN SubSeq(s, 1, k - 1)[i]
                    ELSE SubSeq(s, k + 1, Len(s))[i - (k - 1)]
    BY <1>5, <1>6, <1>7, ConcatProperties
  <2>2. (k - 1) + (Len(s) - k) = Len(s) - 1
    BY <1>1, <1>4
  <2>3. ASSUME NEW i \in 1..(Len(s) - 1) PROVE t[i] = IF i < k THEN s[i] ELSE s[i + 1]
    <3>1. CASE i < k
      BY <1>1, <1>4, <1>6, <2>1, <2>2, <3>1
    <3>2. CASE ~(i < k)
      <4>1. i - (k - 1) \in 1..(Len(s) - k) /\ k + (i - (k - 1)) = i + 1
        BY <1>1, <1>4, <3>2
      <4>2. t[i] = SubSeq(s, k + 1, Len(s))[i - (k - 1)]
        BY <1>1, <1>4, <2>1, <2>2, <3>2
      <4> QED BY <1>7, <3>2, <4>1, <4>2
    <3> QED BY <3>1, <3>2
  <2> QED BY <2>1, <2>2, <2>3
<1> HIDE DEF t
<1>9. DOMAIN t = 1..(Len(s) - 1)
  BY <1>8, LenProperties
<1> DEFINE old(i) == IF i < k THEN i ELSE i + 1
<1>10. \A i \in DOMAIN t : old(i) \in DOMAIN s /\ old(i) # k /\ t[i] = s[old(i)]
  BY <1>1, <1>4, <1>8, <1>9
<1>11. \A i, j \in DOMAIN t : (i < j <=> old(i) < old(j)) /\ (old(i) = old(j) => i = j)
  BY <1>1, <1>4, <1>9
<1>12. \A i \in DOMAIN s : i # k => \E j \in DOMAIN t : old(j) = i
  <2> SUFFICES ASSUME NEW i \in DOMAIN s, i # k PROVE \E j \in DOMAIN t : old(j) = i
    OBVIOUS
  <2>1. CASE i < k
    BY <1>1, <1>4, <1>9, <2>1
  <2>2. CASE ~(i < k)
    <3>1. i - 1 \in DOMAIN t /\ old(i - 1) = i
      BY <1>1, <1>4, <1>9, <2>2
    <3> QED BY <3>1
  <2> QED BY <2>1, <2>2
<1> HIDE DEF old
<1>13. ToSet(t) = ToSet(s) \ {e}
  <2>1. \A i \in DOMAIN s : s[i] = e <=> i = k
    BY <1>1, <1>4 DEF NoRepeats
  <2> QED BY <1>10, <1>12, <2>1 DEF ToSet
<1>14. NoRepeats(t)
  BY <1>10, <1>11 DEF NoRepeats
<1>15. \A i, j \in DOMAIN t : i < j => Precedes(s, t[i], t[j])
  BY <1>10, <1>11 DEF Precedes
<1> QED BY <1>8, <1>13, <1>14, <1>15 DEF t

LEMMA InsertAtFacts ==
  ASSUME NEW T, NEW s \in Seq(T), NEW k \in 1..(Len(s) + 1), NEW e \in T
  PROVE  /\ InsertAt(s, k, e) \in Seq(T)
         /\ Len(InsertAt(s, k, e)) = Len(s) + 1
         /\ \A i \in 1..(Len(s) + 1) :
              InsertAt(s, k, e)[i] = IF i < k THEN s[i] ELSE IF i = k THEN e ELSE s[i - 1]
<1>1. DOMAIN s = 1..Len(s) /\ Len(s) \in Nat /\ \A i \in 1..Len(s) : s[i] \in T
  BY LenProperties, ElementOfSeq
<1> DEFINE a == SubSeq(s, 1, k - 1)
           b == SubSeq(s, k, Len(s))
<1>2. a \in Seq(T) /\ Len(a) = k - 1 /\ \A i \in 1..(k - 1) : a[i] = s[i]
  <2>1. /\ \A i \in 1..(k - 1) : s[i] \in T
        /\ 1 \in Int /\ k - 1 \in Int
    BY <1>1
  <2>2. /\ a \in Seq(T)
        /\ Len(a) = IF 1 <= k - 1 THEN k - 1 - 1 + 1 ELSE 0
        /\ \A i \in 1..(k - 1 - 1 + 1) : a[i] = s[1 + i - 1]
    BY <2>1, SubSeqProperties
  <2>3. /\ k - 1 - 1 + 1 = k - 1 /\ (1 <= k - 1 \/ k - 1 = 0)
        /\ \A i \in 1..(k - 1) : 1 + i - 1 = i
    BY <1>1
  <2> QED BY <2>2, <2>3
<1>3. b \in Seq(T) /\ Len(b) = Len(s) - k + 1 /\ \A i \in 1..(Len(s) - k + 1) : b[i] = s[k + i - 1]
  <2>1. /\ \A i \in k..Len(s) : s[i] \in T
        /\ Len(s) \in Int /\ k \in Int
    BY <1>1
  <2>2. /\ b \in Seq(T)
        /\ Len(b) = IF k <= Len(s) THEN Len(s) - k + 1 ELSE 0
        /\ \A i \in 1..(Len(s) - k + 1) : b[i] = s[k + i - 1]
    BY <2>1, SubSeqProperties
  <2>3. k <= Len(s) \/ Len(s) - k + 1 = 0
    BY <1>1
  <2> QED BY <2>2, <2>3
<1>4. InsertAt(s, k, e) = a \o <<e>> \o b
  BY DEF InsertAt
<1> HIDE DEF a, b
<1> DEFINE c == a \o <<e>>
<1>5. c \in Seq(T) /\ Len(c) = k /\ \A i \in 1..k : c[i] = IF i < k THEN s[i] ELSE e
  <2>1. <<e>> \in Seq(T) /\ Len(<<e>>) = 1 /\ <<e>>[1] = e
    OBVIOUS
  <2>2. /\ c \in Seq(T) /\ Len(c) = (k - 1) + 1
        /\ \A i \in 1..((k - 1) + 1) : c[i] = IF i <= k - 1 THEN a[i] ELSE <<e>>[i - (k - 1)]
    BY <1>2, <2>1, ConcatProperties
  <2>3. (k - 1) + 1 = k
    BY <1>1
  <2>4. ASSUME NEW i \in 1..k PROVE c[i] = IF i < k THEN s[i] ELSE e
    <3>1. CASE i < k
      BY <1>1, <1>2, <2>2, <2>3, <3>1
    <3>2. CASE ~(i < k)
      <4>1. i - (k - 1) = 1 /\ ~(i <= k - 1)
        BY <1>1, <3>2
      <4> QED BY <2>1, <2>2, <2>3, <3>2, <4>1
    <3> QED BY <3>1, <3>2
  <2> QED BY <2>2, <2>3, <2>4
<1>6. InsertAt(s, k, e) = c \o b
  BY <1>4
<1> HIDE DEF c
<1> DEFINE t == InsertAt(s, k, e)
<1>7. /\ t \in Seq(T) /\ Len(t) = k + (Len(s) - k + 1)
      /\ \A i \in 1..(k + (Len(s) - k + 1)) : t[i] = IF i <= k THEN c[i] ELSE b[i - k]
  <2>1. /\ c \o b \in Seq(T) /\ Len(c \o b) = Len(c) + Len(b)
        /\ \A i \in 1..(Len(c) + Len(b)) : (c \o b)[i] = IF i <= Len(c) THEN c[i] ELSE b[i - Len(c)]
    BY <1>3, <1>5, ConcatProperties
  <2> QED BY <1>3, <1>5, <1>6, <2>1
<1>8. k + (Len(s) - k + 1) = Len(s) + 1
  BY <1>1
<1>9. ASSUME NEW i \in 1..(Len(s) + 1)
      PROVE  t[i] = IF i < k THEN s[i] ELSE IF i = k THEN e ELSE s[i - 1]
  <2>1. t[i] = IF i <= k THEN c[i] ELSE b[i - k]
    BY <1>7, <1>8
  <2>2. CASE i <= k
    <3>1. i \in 1..k
      BY <1>1, <2>2
    <3>2. c[i] = IF i < k THEN s[i] ELSE e
      BY <1>5, <3>1
    <3> QED BY <1>1, <2>1, <2>2, <3>2
  <2>3. CASE ~(i <= k)
    <3>1. i - k \in 1..(Len(s) - k + 1) /\ k + (i - k) - 1 = i - 1
      BY <1>1, <2>3
    <3>2. b[i - k] = s[i - 1]
      BY <1>3, <3>1
    <3> QED BY <1>1, <2>1, <2>3, <3>2
  <2> QED BY <2>2, <2>3
<1> HIDE DEF t
<1>10. t \in Seq(T) /\ Len(t) = Len(s) + 1
  BY <1>7, <1>8
<1> QED BY <1>9, <1>10 DEF t

\* A permutation of a finite set holds each of its elements once.
LEMMA PermutationFacts ==
  ASSUME NEW S, IsFiniteSet(S), NEW s \in SetToSeqs(S)
  PROVE  s \in Seq(S) /\ ToSet(s) = S /\ NoRepeats(s)
<1>1. Cardinality(S) \in Nat
  BY FS_CardinalityType
<1> DEFINE D == 1..Cardinality(S)
<1>2. s \in [D -> S] /\ \A i, j \in D : i # j => s[i] # s[j]
  BY DEF SetToSeqs
<1>3. IsFiniteSet(D) /\ Cardinality(D) = Cardinality(S)
  <2>1. IsFiniteSet(D) /\ Cardinality(D) = IF 1 > Cardinality(S) THEN 0 ELSE Cardinality(S) - 1 + 1
    BY <1>1, FS_Interval
  <2> QED BY <1>1, <2>1
<1> HIDE DEF D
<1>4. s \in Injection(D, S)
  BY <1>2 DEF Injection, IsInjective
<1>5. s \in Surjection(D, S)
  BY <1>3, <1>4, FS_Injection
<1>6. \A x \in S : \E i \in D : s[i] = x
  BY <1>5 DEF Surjection
<1>7. DOMAIN s = D /\ \A i \in D : s[i] \in S
  BY <1>2
<1>8. s \in Seq(S)
  BY <1>1, <1>2 DEF D
<1> QED BY <1>2, <1>6, <1>7, <1>8 DEF ToSet, NoRepeats

LEMMA ToSetFinite ==
  ASSUME NEW T, NEW s \in Seq(T)
  PROVE  ToSet(s) \subseteq T /\ IsFiniteSet(ToSet(s)) /\ (s = <<>> <=> ToSet(s) = {})
<1>1. DOMAIN s = 1..Len(s) /\ Len(s) \in Nat /\ \A i \in 1..Len(s) : s[i] \in T
  BY LenProperties, ElementOfSeq
<1>2. IsFiniteSet(1..Len(s))
  BY <1>1, FS_Interval
<1>3. s \in Surjection(1..Len(s), ToSet(s))
  BY <1>1, LenProperties DEF Surjection, ToSet
<1>4. IsFiniteSet(ToSet(s))
  BY <1>2, <1>3, FS_Surjection
<1>5. s # <<>> => 1 \in DOMAIN s
  BY <1>1, EmptySeq
<1>6. s = <<>> => DOMAIN s = {}
  BY <1>1, EmptySeq
<1> QED BY <1>1, <1>4, <1>5, <1>6 DEF ToSet

\* A list without repetitions is as long as its set of elements is large.
LEMMA NoRepeatsCount ==
  ASSUME NEW T, NEW s \in Seq(T), NoRepeats(s)
  PROVE  Len(s) = Cardinality(ToSet(s))
<1>1. DOMAIN s = 1..Len(s) /\ Len(s) \in Nat
  BY LenProperties
<1>2. IsFiniteSet(1..Len(s)) /\ Cardinality(1..Len(s)) = Len(s)
  <2>1. IsFiniteSet(1..Len(s)) /\ Cardinality(1..Len(s)) = IF 1 > Len(s) THEN 0 ELSE Len(s) - 1 + 1
    BY <1>1, FS_Interval
  <2> QED BY <1>1, <2>1
<1>3. s \in Surjection(1..Len(s), ToSet(s))
  BY <1>1, LenProperties DEF Surjection, ToSet
<1>4. s \in Injection(1..Len(s), ToSet(s))
  BY <1>1, <1>3 DEF Surjection, Injection, IsInjective, NoRepeats
<1> QED BY <1>2, <1>3, <1>4, FS_Surjection

LEMMA ToSetOfAppend ==
  ASSUME NEW T, NEW s \in Seq(T), NEW e \in T
  PROVE  /\ Append(s, e) \in Seq(T) /\ ToSet(Append(s, e)) = ToSet(s) \cup {e}
         /\ NoRepeats(s) /\ e \notin ToSet(s) => NoRepeats(Append(s, e))
<1>1. DOMAIN s = 1..Len(s) /\ Len(s) \in Nat
  BY LenProperties
<1>2. /\ Append(s, e) \in Seq(T) /\ Len(Append(s, e)) = Len(s) + 1
      /\ \A i \in 1..Len(s) : Append(s, e)[i] = s[i]
      /\ Append(s, e)[Len(s) + 1] = e
  BY AppendProperties
<1>3. DOMAIN Append(s, e) = 1..(Len(s) + 1)
  BY <1>2, LenProperties
<1>4. \A i \in 1..(Len(s) + 1) : i \in 1..Len(s) \/ i = Len(s) + 1
  BY <1>1
<1>5. \A i \in 1..Len(s) : i \in 1..(Len(s) + 1)
  BY <1>1
<1>6. Len(s) + 1 \in 1..(Len(s) + 1)
  BY <1>1
<1>7. ToSet(Append(s, e)) = ToSet(s) \cup {e}
  BY <1>1, <1>2, <1>3, <1>4, <1>5, <1>6 DEF ToSet
<1>8. ASSUME NoRepeats(s), e \notin ToSet(s) PROVE NoRepeats(Append(s, e))
  BY <1>1, <1>2, <1>3, <1>4, <1>8 DEF ToSet, NoRepeats
<1> QED BY <1>2, <1>7, <1>8

-----------------------------------------------------------------------------
(* The posted tasks.                                                       *)

Kinds == {"next", "handled", "stop"}
TaskSet == [load: Loads, kind: Kinds]

LEMMA CountTyped ==
  ASSUME NEW t \in Seq(TaskSet), NEW r,
         NEW I, I = {i \in DOMAIN t : t[i].load = r}
  PROVE  IsFiniteSet(I) /\ Cardinality(I) \in Nat /\ (Cardinality(I) = 0 <=> I = {})
<1>1. DOMAIN t = 1..Len(t) /\ Len(t) \in Nat
  BY LenProperties
<1>2. IsFiniteSet(DOMAIN t)
  BY <1>1, FS_Interval
<1>3. IsFiniteSet(I)
  BY <1>2, FS_Subset
<1> QED BY <1>3, FS_CardinalityType, FS_EmptySet

LEMMA TasksTyped ==
  ASSUME TypeOK
  PROVE  /\ tasks \in Seq(TaskSet)
         /\ \A r \in Loads : IsFiniteSet(TasksOf(r)) /\ Cardinality(TasksOf(r)) \in Nat
         /\ \A r \in Loads : Cardinality(TasksOf(r)) = 0 <=> TasksOf(r) = {}
<1>1. tasks \in Seq(TaskSet)
  BY DEF TypeOK, TaskSet, Kinds
<1>2. ASSUME NEW r \in Loads
      PROVE  /\ IsFiniteSet(TasksOf(r)) /\ Cardinality(TasksOf(r)) \in Nat
             /\ Cardinality(TasksOf(r)) = 0 <=> TasksOf(r) = {}
  <2>1. TasksOf(r) = {i \in DOMAIN tasks : tasks[i].load = r}
    BY DEF TasksOf
  <2> QED BY <1>1, <2>1, CountTyped
<1> QED BY <1>1, <1>2

LEMMA TasksTypedNext ==
  ASSUME tasks' \in Seq(TaskSet)
  PROVE  \A r \in Loads : /\ Cardinality(TasksOf(r)') \in Nat
                          /\ Cardinality(TasksOf(r)') = 0 <=> TasksOf(r)' = {}
<1> SUFFICES ASSUME NEW r \in Loads
             PROVE  /\ Cardinality(TasksOf(r)') \in Nat
                    /\ Cardinality(TasksOf(r)') = 0 <=> TasksOf(r)' = {}
  OBVIOUS
<1>1. TasksOf(r)' = {i \in DOMAIN tasks' : tasks'[i].load = r}
  BY DEF TasksOf
<1> QED BY <1>1, CountTyped

\* What posting does: each of the requests gets one more task.
LEMMA PostFacts ==
  ASSUME TypeOK, NEW requests \in Seq(Loads), NoRepeats(requests), NEW kind \in Kinds,
         Post(requests, kind)
  PROVE  /\ tasks' \in Seq(TaskSet)
         /\ \A r \in Loads : Cardinality(TasksOf(r)') = Cardinality(TasksOf(r))
                               + (IF r \in ToSet(requests) THEN 1 ELSE 0)
<1> DEFINE m == [i \in DOMAIN requests |-> Task(requests[i], kind)]
<1>1. DOMAIN requests = 1..Len(requests) /\ Len(requests) \in Nat
      /\ \A i \in 1..Len(requests) : requests[i] \in Loads
  BY LenProperties, ElementOfSeq
<1>2. m \in [1..Len(requests) -> TaskSet]
  BY <1>1 DEF Task, TaskSet
<1>3. m \in Seq(TaskSet) /\ Len(m) = Len(requests)
  BY <1>1, <1>2
<1>4. tasks \in Seq(TaskSet) /\ tasks' = tasks \o m
  BY TasksTyped DEF Post
<1>5. \A i \in 1..Len(requests) : m[i].load = requests[i]
  BY <1>1 DEF Task
<1> HIDE DEF m
<1> DEFINE n == Len(tasks)
<1>6. /\ tasks' \in Seq(TaskSet) /\ Len(tasks') = n + Len(requests) /\ n \in Nat
      /\ \A i \in 1..(n + Len(requests)) :
           tasks'[i] = IF i <= n THEN tasks[i] ELSE m[i - n]
  <2>1. /\ tasks \o m \in Seq(TaskSet) /\ Len(tasks \o m) = Len(tasks) + Len(m)
        /\ \A i \in 1..(Len(tasks) + Len(m)) :
             (tasks \o m)[i] = IF i <= Len(tasks) THEN tasks[i] ELSE m[i - Len(tasks)]
    BY <1>3, <1>4, ConcatProperties
  <2>2. Len(tasks) \in Nat
    BY <1>4, LenProperties
  <2> QED BY <1>3, <1>4, <2>1, <2>2
<1>7. DOMAIN tasks = 1..n /\ DOMAIN tasks' = 1..(n + Len(requests))
  BY <1>4, <1>6, LenProperties
<1> HIDE DEF n
<1>8. \A i \in 1..(n + Len(requests)) :
        IF i <= n THEN i \in 1..n /\ tasks'[i] = tasks[i]
        ELSE i - n \in 1..Len(requests) /\ tasks'[i].load = requests[i - n]
  <2> TAKE i \in 1..(n + Len(requests))
  <2>1. CASE i <= n
    BY <1>1, <1>6, <2>1
  <2>2. CASE ~(i <= n)
    <3>1. i - n \in 1..Len(requests)
      BY <1>1, <1>6, <2>2
    <3> QED BY <1>5, <1>6, <2>2, <3>1
  <2> QED BY <2>1, <2>2
<1>9. \A i \in 1..n : i \in 1..(n + Len(requests)) /\ i <= n
  BY <1>1, <1>6
<1>10. ASSUME NEW r \in Loads
       PROVE  Cardinality(TasksOf(r)') = Cardinality(TasksOf(r))
                + (IF r \in ToSet(requests) THEN 1 ELSE 0)
  <2>1. CASE r \notin ToSet(requests)
    <3>1. \A i \in 1..Len(requests) : requests[i] # r
      BY <1>1, <2>1 DEF ToSet
    <3>2. TasksOf(r)' = TasksOf(r)
      BY <1>7, <1>8, <1>9, <3>1 DEF TasksOf
    <3> QED BY <2>1, <3>2, TasksTyped
  <2>2. CASE r \in ToSet(requests)
    <3>1. PICK k \in 1..Len(requests) : requests[k] = r
      BY <1>1, <2>2 DEF ToSet
    <3>2. \A j \in 1..Len(requests) : requests[j] = r => j = k
      BY <1>1, <3>1 DEF NoRepeats
    <3>3. n + k \in 1..(n + Len(requests)) /\ ~(n + k <= n) /\ (n + k) - n = k /\ n + k \notin 1..n
      BY <1>1, <1>6
    <3>4. \A i \in 1..(n + Len(requests)) : i - n = k => i = n + k
      BY <1>1, <1>6
    <3>5. TasksOf(r)' = TasksOf(r) \cup {n + k}
      BY <1>7, <1>8, <1>9, <3>1, <3>2, <3>3, <3>4 DEF TasksOf
    <3>6. n + k \notin TasksOf(r)
      BY <1>7, <3>3 DEF TasksOf
    <3>7. Cardinality(TasksOf(r) \cup {n + k}) = Cardinality(TasksOf(r)) + 1
      BY <3>6, TasksTyped, FS_AddElement
    <3> QED BY <2>2, <3>5, <3>7
  <2> QED BY <2>1, <2>2
<1> QED BY <1>6, <1>10

\* What running a task does: its load has one task less.
LEMMA TailFacts ==
  ASSUME TypeOK, tasks # <<>>, tasks' = Tail(tasks)
  PROVE  /\ tasks' \in Seq(TaskSet) /\ Head(tasks) \in TaskSet /\ Head(tasks).load \in Loads
         /\ \A r \in Loads : Cardinality(TasksOf(r)) = Cardinality(TasksOf(r)')
                               + (IF r = Head(tasks).load THEN 1 ELSE 0)
<1>1. tasks \in Seq(TaskSet)
  BY TasksTyped
<1> DEFINE n == Len(tasks)
<1>2. n \in Nat /\ n > 0 /\ DOMAIN tasks = 1..n
  BY <1>1, LenProperties, EmptySeq
<1>3. /\ tasks' \in Seq(TaskSet) /\ Head(tasks) \in TaskSet /\ Head(tasks) = tasks[1]
      /\ Len(tasks') = n - 1 /\ \A i \in 1..Len(tasks') : tasks'[i] = tasks[i + 1]
  BY <1>1, HeadTailProperties
<1>4. DOMAIN tasks' = 1..(n - 1)
  BY <1>3, LenProperties
<1> HIDE DEF n
<1>5. Head(tasks).load \in Loads
  BY <1>3 DEF TaskSet
<1>6. ASSUME NEW r \in Loads
      PROVE  Cardinality(TasksOf(r)) = Cardinality(TasksOf(r)')
               + (IF r = Head(tasks).load THEN 1 ELSE 0)
  <2> DEFINE A == TasksOf(r) \ {1}
             B == TasksOf(r)'
  <2>1. IsFiniteSet(TasksOf(r)) /\ Cardinality(TasksOf(r)) \in Nat
    BY TasksTyped
  <2>2. IsFiniteSet(A) /\ Cardinality(A) = IF 1 \in TasksOf(r) THEN Cardinality(TasksOf(r)) - 1
                                           ELSE Cardinality(TasksOf(r))
    BY <2>1, FS_RemoveElement
  <2>3. 1 \in TasksOf(r) <=> r = Head(tasks).load
    BY <1>2, <1>3 DEF TasksOf
  <2>4. B = {i \in 1..(n - 1) : tasks[i + 1].load = r}
    BY <1>3, <1>4 DEF TasksOf
  <2>5. A = {i \in 2..n : tasks[i].load = r}
    <3>1. \A i : i \in 2..n <=> i \in 1..n /\ i # 1
      BY <1>2
    <3> QED BY <1>2, <3>1 DEF TasksOf
  <2> DEFINE f == [i \in B |-> i + 1]
  <2> HIDE DEF A, B
  <2>6. f \in [B -> A]
    <3> SUFFICES ASSUME NEW i \in B PROVE i + 1 \in A
      OBVIOUS
    <3>1. i \in 1..(n - 1) /\ tasks[i + 1].load = r
      BY <2>4
    <3>2. i + 1 \in 2..n
      BY <1>2, <3>1
    <3> QED BY <2>5, <3>1, <3>2
  <2>7. \A i, j \in B : i + 1 = j + 1 => i = j
    BY <1>2, <2>4
  <2>8. \A k \in A : k - 1 \in B /\ (k - 1) + 1 = k
    <3> TAKE k \in A
    <3>1. k \in 2..n /\ tasks[k].load = r
      BY <2>5
    <3>2. k - 1 \in 1..(n - 1) /\ (k - 1) + 1 = k
      BY <1>2, <3>1
    <3> QED BY <2>4, <3>1, <3>2
  <2>9. f \in Surjection(B, A) /\ f \in Injection(B, A)
    BY <2>6, <2>7, <2>8 DEF Surjection, Injection, IsInjective
  <2>10. IsFiniteSet(B) /\ (Cardinality(B) = Cardinality(A) <=> f \in Surjection(B, A))
    BY <2>2, <2>9, FS_Injection
  <2>11. Cardinality(B) = Cardinality(A)
    BY <2>9, <2>10
  <2>12. Cardinality(TasksOf(r)') = Cardinality(A)
    BY <2>11 DEF B
  <2> HIDE DEF f
  <2> QED BY <2>1, <2>2, <2>3, <2>12
<1> QED BY <1>3, <1>5, <1>6

-----------------------------------------------------------------------------
(* The list of providers.                                                  *)

LEMMA ListTyped ==
  ASSUME TypeOK
  PROVE  /\ providers \in Seq(Providers) /\ added \in Seq(Providers)
         /\ DOMAIN providers = 1..Len(providers) /\ Len(providers) \in Nat
         /\ DOMAIN added = 1..Len(added) /\ Len(added) \in Nat
         /\ InList \subseteq Providers /\ ToSet(added) \subseteq Providers
         /\ \A p \in InList : \E i \in DOMAIN providers : providers[i] = p
         /\ \A i \in DOMAIN providers : providers[i] \in InList
         /\ \A p \in Providers : Order[p] \in Int
         /\ None \notin Providers /\ None \notin Loads
<1>1. providers \in Seq(Providers) /\ added \in Seq(Providers)
  BY DEF TypeOK
<1>2. /\ DOMAIN providers = 1..Len(providers) /\ Len(providers) \in Nat
      /\ DOMAIN added = 1..Len(added) /\ Len(added) \in Nat
  BY <1>1, LenProperties
<1>3. InList \subseteq Providers /\ ToSet(added) \subseteq Providers
  BY <1>1, ToSetFinite DEF InList
<1>4. \A p \in Providers : Order[p] \in Int
  BY ManagerAssumption
<1> QED BY <1>1, <1>2, <1>3, <1>4, ManagerAssumption DEF InList, ToSet

\* Before is a strict order on what was added.
LEMMA BeforeIsOrder ==
  ASSUME TypeOK, ListInv
  PROVE  /\ \A p \in Providers : ~Before(p, p)
         /\ \A p, q, s \in Providers : Before(p, q) /\ Before(q, s) => Before(p, s)
         /\ \A p, q \in Providers : Before(p, q) => ~Before(q, p)
<1>1. \A p \in Providers : Order[p] \in Int
  BY ListTyped
<1>2. \A i, j \in DOMAIN added : i \in Nat /\ (added[i] = added[j] => i = j)
  BY ListTyped DEF ListInv, NoRepeats
<1>3. ASSUME NEW p \in Providers, Before(p, p) PROVE FALSE
  BY <1>1, <1>2, <1>3 DEF Before
<1>4. ASSUME NEW p \in Providers, NEW q \in Providers, NEW s \in Providers,
             Before(p, q), Before(q, s)
      PROVE  Before(p, s)
  <2>1. Order[p] <= Order[q] /\ Order[q] <= Order[s]
    BY <1>1, <1>4 DEF Before
  <2>2. CASE Order[p] = Order[q] /\ Order[q] = Order[s]
    <3>1. PICK i, j \in DOMAIN added : added[i] = p /\ added[j] = q /\ i < j
      BY <1>1, <1>4, <2>2 DEF Before
    <3>2. PICK k, l \in DOMAIN added : added[k] = q /\ added[l] = s /\ k < l
      BY <1>1, <1>4, <2>2 DEF Before
    <3>3. j = k /\ i < l
      BY <1>2, <3>1, <3>2
    <3> QED BY <2>2, <3>1, <3>2, <3>3 DEF Before
  <2>3. CASE ~(Order[p] = Order[q] /\ Order[q] = Order[s])
    <3>1. Order[p] < Order[s]
      BY <1>1, <2>1, <2>3
    <3> QED BY <3>1 DEF Before
  <2> QED BY <2>2, <2>3
<1>5. \A p, q, s \in Providers : Before(p, q) /\ Before(q, s) => Before(p, s)
  BY <1>4
<1>6. \A p, q \in Providers : Before(p, q) => ~Before(q, p)
  BY <1>3, <1>5
<1> QED BY <1>3, <1>5, <1>6

\* An entry's position in the list is its place in that order.
LEMMA ListOrder ==
  ASSUME TypeOK, ListInv, NEW i \in DOMAIN providers, NEW j \in DOMAIN providers
  PROVE  Before(providers[i], providers[j]) <=> i < j
<1>1. providers[i] \in Providers /\ providers[j] \in Providers /\ i \in Nat /\ j \in Nat
  BY ListTyped
<1>2. i < j => Before(providers[i], providers[j])
  BY DEF ListInv
<1>3. j < i => Before(providers[j], providers[i])
  BY DEF ListInv
<1>4. CASE i < j
  BY <1>2, <1>4
<1>5. CASE j < i
  BY <1>1, <1>3, <1>5, BeforeIsOrder
<1>6. CASE i = j
  BY <1>1, <1>6, BeforeIsOrder
<1> QED BY <1>1, <1>4, <1>5, <1>6

LEMMA ListNoRepeats ==
  ASSUME TypeOK, ListInv
  PROVE  NoRepeats(providers)
<1> SUFFICES ASSUME NEW i \in DOMAIN providers, NEW j \in DOMAIN providers,
                    providers[i] = providers[j], i # j
             PROVE  FALSE
  BY DEF NoRepeats
<1>1. i < j \/ j < i
  BY ListTyped
<1>2. providers[i] \in Providers /\ ~Before(providers[i], providers[i])
  BY ListTyped, BeforeIsOrder
<1>3. Before(providers[i], providers[j]) \/ Before(providers[j], providers[i])
  BY <1>1, ListOrder
<1> QED BY <1>2, <1>3

\* A list that only loses entries stays in order.
LEMMA ThinnedList ==
  ASSUME TypeOK, ListInv, Thinned, added' = added
  PROVE  ListInv'
<1>1. NoRepeats(added') /\ InList' \subseteq ToSet(added')
  BY DEF ListInv, Thinned
<1>2. ASSUME NEW i \in DOMAIN providers', NEW j \in DOMAIN providers', i < j
      PROVE  Before(providers'[i], providers'[j])
  <2>1. PICK k, l \in DOMAIN providers :
          k < l /\ providers[k] = providers'[i] /\ providers[l] = providers'[j]
    BY <1>2 DEF Thinned, Precedes
  <2> QED BY <2>1 DEF ListInv
<1>3. \A i, j \in DOMAIN providers' : i < j => Before(providers'[i], providers'[j])
  BY <1>2
<1> QED BY <1>1, <1>3 DEF ListInv, NoRepeats, Before

\* The provider a load is at, and the next one that is not being removed.
LEMMA PositionFacts ==
  ASSUME TypeOK, NEW r \in Loads, at[r] \in InList
  PROVE  Position(r) \in DOMAIN providers /\ providers[Position(r)] = at[r]
<1>1. \E i \in DOMAIN providers : providers[i] = at[r]
  BY ListTyped
<1> QED BY <1>1 DEF Position

LEMMA NextFacts ==
  ASSUME TypeOK, ListInv, NEW r \in Loads, at[r] \in InList \cup {None},
         NEW k \in Nat, k = (IF at[r] = None THEN 1 ELSE Position(r) + 1),
         NEW q, q = NextValidProvider(k), q # None
  PROVE  FromTo(r, q)
<1> DEFINE I == {j \in DOMAIN providers : j >= k /\ providers[j] \notin deleting}
<1>1. q = FirstOf(I) /\ I \subseteq DOMAIN providers
  BY DEF NextValidProvider
<1>2. PICK i \in I : q = providers[i] /\ \A j \in I : i <= j
  BY <1>1, FirstOfFacts
<1>3. q \in InList \ deleting /\ i \in DOMAIN providers /\ i >= k
  BY <1>2, ListTyped
<1>4. at[r] # None => at[r] \in InList /\ Position(r) \in DOMAIN providers
                        /\ providers[Position(r)] = at[r]
  BY PositionFacts
<1>5. at[r] # None => Before(at[r], q)
  <2> SUFFICES ASSUME at[r] # None PROVE Before(at[r], q)
    OBVIOUS
  <2>1. Position(r) < i
    BY <1>3, <1>4, ListTyped
  <2> QED BY <1>2, <1>3, <1>4, <2>1, ListOrder
<1>6. ASSUME NEW p \in InList \ deleting, Before(p, q), at[r] # None => Before(at[r], p)
      PROVE  FALSE
  <2>1. PICK j \in DOMAIN providers : providers[j] = p
    BY ListTyped
  <2>2. j < i
    BY <1>2, <1>3, <1>6, <2>1, ListOrder
  <2>3. at[r] # None => Position(r) < j
    BY <1>4, <1>6, <2>1, ListOrder
  <2>4. j >= k
    BY <1>4, <2>1, <2>3, ListTyped
  <2>5. j \in I
    BY <2>1, <2>4
  <2> QED BY <1>2, <1>3, <2>2, <2>5, ListTyped
<1> QED BY <1>3, <1>5, <1>6 DEF FromTo

-----------------------------------------------------------------------------
(* A load leaves its provider, and goes to another.                        *)

LEMMA PlaceFacts ==
  ASSUME TypeOK, PlaceInv, NEW r \in Loads, at[r] # None
  PROVE  at[r] \in InList /\ at[r] \in Providers /\ r \in ToSet(waiting[at[r]])
<1>1. at[r] \in InList /\ at[r] \in Providers
  BY ListTyped DEF PlaceInv
<1> QED BY <1>1 DEF PlaceInv

LEMMA DetachedFacts ==
  ASSUME TypeOK, PlaceInv, NEW r \in Loads, at[r] # None
  PROVE  /\ Detached(r) \in [Providers -> Seq(Loads)]
         /\ \A p \in Providers :
              /\ ToSet(Detached(r)[p]) = {s \in Loads : at[s] = p /\ s # r}
              /\ NoRepeats(Detached(r)[p])
              /\ p # at[r] => Detached(r)[p] = waiting[p]
<1>1. waiting \in [Providers -> Seq(Loads)] /\ at[r] \in Providers
      /\ r \in ToSet(waiting[at[r]])
  BY PlaceFacts DEF TypeOK
<1>2. \A p \in Providers :
        ToSet(waiting[p]) = {s \in Loads : at[s] = p} /\ NoRepeats(waiting[p])
  BY DEF PlaceInv
<1> DEFINE t == RemoveFirst(waiting[at[r]], r)
<1>3. waiting[at[r]] \in Seq(Loads) /\ NoRepeats(waiting[at[r]])
  BY <1>1, <1>2
<1>4. t \in Seq(Loads) /\ ToSet(t) = ToSet(waiting[at[r]]) \ {r} /\ NoRepeats(t)
  BY <1>1, <1>3, RemoveFirstFacts
<1>5. Detached(r) = [waiting EXCEPT ![at[r]] = t]
  BY <1>1 DEF Detached
<1> HIDE DEF t
<1>6. Detached(r) \in [Providers -> Seq(Loads)]
  BY <1>1, <1>4, <1>5
<1>7. \A p \in Providers : Detached(r)[p] = IF p = at[r] THEN t ELSE waiting[p]
  BY <1>1, <1>5
<1> QED BY <1>2, <1>4, <1>6, <1>7

LEMMA DetachFacts ==
  ASSUME TypeOK, ListInv, PlaceInv, DeletingInv, NEW r \in Loads, at[r] # None,
         DetachRequestFromProvider(r)
  PROVE  /\ Thinned
         /\ deleting' = deleting \cap InList'
         /\ \A p \in InList : p \notin InList' =>
              p = at[r] /\ p \in deleting /\ Detached(r)[p] = <<>>
         /\ \A p \in deleting' : Detached(r)[p] # <<>>
<1>1. at[r] \in InList /\ at[r] \in Providers /\ providers \in Seq(Providers)
      /\ deleting \subseteq InList
  BY PlaceFacts, ListTyped DEF DeletingInv
<1>2. \A p \in deleting : p # at[r] => Detached(r)[p] # <<>>
  <2>1. \A p \in deleting : p \in Providers /\ waiting[p] # <<>>
    BY DEF DeletingInv, TypeOK
  <2> QED BY <2>1, DetachedFacts
<1>3. CASE at[r] \in deleting /\ Detached(r)[at[r]] = <<>>
  <2>1. providers' = RemoveFirst(providers, at[r]) /\ deleting' = deleting \ {at[r]}
    BY <1>3 DEF DetachRequestFromProvider
  <2>2. at[r] \in ToSet(providers) /\ NoRepeats(providers)
    BY <1>1, ListNoRepeats DEF InList
  <2>3. /\ providers' \in Seq(Providers) /\ ToSet(providers') = ToSet(providers) \ {at[r]}
        /\ \A i, j \in DOMAIN providers' : i < j => Precedes(providers, providers'[i], providers'[j])
    BY <1>1, <2>1, <2>2, RemoveFirstFacts
  <2>4. InList' = InList \ {at[r]}
    BY <2>3 DEF InList
  <2> QED BY <1>1, <1>2, <1>3, <2>1, <2>3, <2>4 DEF Thinned
<1>4. CASE ~(at[r] \in deleting /\ Detached(r)[at[r]] = <<>>)
  <2>1. providers' = providers /\ deleting' = deleting
    BY <1>4 DEF DetachRequestFromProvider
  <2>2. InList' = InList
    BY <2>1 DEF InList
  <2>3. \A i, j \in DOMAIN providers : i < j => Precedes(providers, providers[i], providers[j])
    BY DEF Precedes
  <2>4. Thinned
    BY <1>1, <2>1, <2>2, <2>3 DEF Thinned
  <2> QED BY <1>1, <1>2, <1>4, <2>1, <2>2, <2>4
<1> QED BY <1>3, <1>4

LEMMA StopRelocates ==
  ASSUME TypeOK, ListInv, PlaceInv, DeletingInv, NEW r \in Loads, at[r] # None, StopRequest(r)
  PROVE  Relocates(r, None)
<1>1. /\ DetachRequestFromProvider(r) /\ waiting' = Detached(r)
      /\ at' = [at EXCEPT ![r] = None] /\ held' = held \ {r} /\ calling' = None
      /\ calls' = [calls EXCEPT ![r] = @ + 1] /\ asked' = asked
  BY DEF StopRequest, EndState
<1>2. \A s \in Loads : at'[s] = IF s = r THEN None ELSE at[s]
  BY <1>1 DEF TypeOK
<1>3. None \notin Providers
  BY ListTyped
<1>4. \A p \in Providers : ToSet(waiting'[p]) = {s \in Loads : at'[s] = p} /\ NoRepeats(waiting'[p])
  <2> TAKE p \in Providers
  <2>1. {s \in Loads : at'[s] = p} = {s \in Loads : at[s] = p /\ s # r}
    BY <1>2, <1>3
  <2> QED BY <1>1, <2>1, DetachedFacts
<1>5. waiting' \in [Providers -> Seq(Loads)]
  BY <1>1, DetachedFacts
<1>6. /\ Thinned /\ deleting' = deleting \cap InList'
      /\ \A p \in InList : p \notin InList' => p \in deleting /\ waiting'[p] = <<>>
      /\ \A p \in deleting' : waiting'[p] # <<>>
  BY <1>1, DetachFacts
<1> QED BY <1>1, <1>4, <1>5, <1>6 DEF Relocates

\* Going to provider q, after leaving the current one or without one.
LEMMA SendRelocates ==
  ASSUME TypeOK, ListInv, NEW r \in Loads, NEW q, FromTo(r, q),
         NEW from \in [Providers -> Seq(Loads)],
         \A p \in Providers :
           ToSet(from[p]) = {s \in Loads : at[s] = p /\ s # r} /\ NoRepeats(from[p]),
         Thinned, deleting' = deleting \cap InList',
         \A p \in InList : p \notin InList' => p \in deleting /\ from[p] = <<>>,
         \A p \in deleting' : from[p] # <<>>,
         SendRequest(r, q, from), calls' = calls
  PROVE  Relocates(r, q)
<1>1. q \in InList \ deleting /\ q \in Providers /\ q # None
  BY ListTyped DEF FromTo
<1>2. /\ waiting' = [from EXCEPT ![q] = Append(@, r)] /\ at' = [at EXCEPT ![r] = q]
      /\ held' = held \cup {r} /\ calling' = r /\ asked' = [asked EXCEPT ![r] = @ \cup {q}]
  BY DEF SendRequest
<1> DEFINE t == Append(from[q], r)
<1>3. from[q] \in Seq(Loads) /\ r \notin ToSet(from[q]) /\ NoRepeats(from[q])
  BY <1>1
<1>4. t \in Seq(Loads) /\ ToSet(t) = ToSet(from[q]) \cup {r} /\ NoRepeats(t)
  BY <1>3, ToSetOfAppend
<1>5. waiting' = [from EXCEPT ![q] = t]
  BY <1>1, <1>2
<1> HIDE DEF t
<1>6. waiting' \in [Providers -> Seq(Loads)]
      /\ \A p \in Providers : waiting'[p] = IF p = q THEN t ELSE from[p]
  BY <1>1, <1>4, <1>5
<1>7. \A s \in Loads : at'[s] = IF s = r THEN q ELSE at[s]
  BY <1>2 DEF TypeOK
<1>8. \A p \in Providers : ToSet(waiting'[p]) = {s \in Loads : at'[s] = p} /\ NoRepeats(waiting'[p])
  <2> TAKE p \in Providers
  <2>1. CASE p = q
    <3>1. {s \in Loads : at'[s] = p} = {s \in Loads : at[s] = p /\ s # r} \cup {r}
      BY <1>7, <2>1
    <3> QED BY <1>4, <1>6, <2>1, <3>1
  <2>2. CASE p # q
    <3>1. {s \in Loads : at'[s] = p} = {s \in Loads : at[s] = p /\ s # r}
      BY <1>7, <2>2
    <3> QED BY <1>6, <2>2, <3>1
  <2> QED BY <2>1, <2>2
<1>9. \A p \in InList : p \notin InList' => p \in deleting /\ waiting'[p] = <<>>
  BY <1>1, <1>6, ListTyped
<1>10. \A p \in deleting' : waiting'[p] # <<>>
  <2>1. deleting' \subseteq Providers
    BY DEF TypeOK
  <2> QED BY <1>1, <1>6, <2>1
<1> QED BY <1>1, <1>2, <1>6, <1>8, <1>9, <1>10 DEF Relocates

LEMMA MoveOnRelocates ==
  ASSUME TypeOK, ListInv, PlaceInv, DeletingInv, NEW r \in Loads, at[r] # None, MoveOn(r)
  PROVE  \E q \in Providers \cup {None} : Relocates(r, q)
<1> DEFINE q == NextValidProvider(Position(r) + 1)
<1>1. at[r] \in InList /\ Position(r) \in DOMAIN providers
  BY PlaceFacts, PositionFacts
<1>2. Position(r) + 1 \in Nat
  BY <1>1, ListTyped
<1>3. CASE q = None
  BY <1>3, StopRelocates DEF MoveOn
<1>4. CASE q # None
  <2>1. /\ DetachRequestFromProvider(r) /\ SendRequest(r, q, Detached(r)) /\ calls' = calls
    BY <1>4 DEF MoveOn
  <2>2. FromTo(r, q)
    BY <1>1, <1>2, <1>4, NextFacts
  <2> HIDE DEF q
  <2>3. Relocates(r, q)
    BY <2>1, <2>2, DetachFacts, DetachedFacts, SendRelocates
  <2>4. q \in Providers
    BY <2>2, ListTyped DEF FromTo
  <2> QED BY <2>3, <2>4
<1> QED BY <1>3, <1>4

LEMMA FirstRelocates ==
  ASSUME TypeOK, ListInv, PlaceInv, DeletingInv, NEW r \in Loads, at[r] = None,
         NEW q, q = NextValidProvider(1), q # None, SendRequest(r, q, waiting),
         UNCHANGED <<providers, deleting, calls>>
  PROVE  q \in Providers /\ Relocates(r, q)
<1>1. FromTo(r, q)
  BY NextFacts
<1>2. InList' = InList /\ providers \in Seq(Providers)
  BY ListTyped DEF InList
<1>3. \A i, j \in DOMAIN providers : i < j => Precedes(providers, providers[i], providers[j])
  BY DEF Precedes
<1>4. Thinned
  BY <1>2, <1>3 DEF Thinned
<1>5. deleting' = deleting \cap InList' /\ \A p \in deleting' : waiting[p] # <<>>
  BY <1>2 DEF DeletingInv
<1>6. waiting \in [Providers -> Seq(Loads)]
  BY DEF TypeOK
<1>7. \A p \in Providers :
        ToSet(waiting[p]) = {s \in Loads : at[s] = p /\ s # r} /\ NoRepeats(waiting[p])
  <2> TAKE p \in Providers
  <2>1. {s \in Loads : at[s] = p} = {s \in Loads : at[s] = p /\ s # r}
    BY ListTyped
  <2> QED BY <2>1 DEF PlaceInv
<1>8. Relocates(r, q)
  BY <1>1, <1>2, <1>4, <1>5, <1>6, <1>7, SendRelocates
<1> QED BY <1>1, <1>8, ListTyped DEF FromTo

-----------------------------------------------------------------------------
(* The invariant through what happens to a load.                           *)

\* What the steps that move or post a load leave alone.
Statuses == {"idle", "deciding", "continue", "async"}
OtherTyped ==
  /\ alive' \in BOOLEAN /\ hung' \in BOOLEAN
  /\ tasks' \in Seq(TaskSet)
  /\ handlers' \subseteq Loads
  /\ archive' \in [Archives -> {"idle", "loading", "done"}]
  /\ files' \in [Archives -> SUBSET Loads] /\ queue' \in [Archives -> Seq(Loads)]
  /\ status' \in [Loads -> Statuses]

StatusMoves == \A s \in Loads : status'[s] = "idle" => status[s] = "idle"

\* The load that goes on has its state here, or in the task being run, or is
\* a new one; and that state is its only one.
LEMMA OneState ==
  ASSUME TypeOK, PlaceInv, AskedInv, CallbackRunsOnce, NEW r \in Loads
  PROVE  /\ calls[r] \in Nat /\ Cardinality(TasksOf(r)) \in Nat
         /\ at[r] # None => Begun(r)
         /\ r \in held => Cardinality(TasksOf(r)) = 0 /\ calls[r] = 0
         /\ TasksOf(r) # {} => r \notin held /\ Cardinality(TasksOf(r)) = 1 /\ calls[r] = 0
         /\ ~Begun(r) => r \notin held /\ Cardinality(TasksOf(r)) = 0 /\ calls[r] = 0
<1>1. calls[r] \in Nat /\ Cardinality(TasksOf(r)) \in Nat
      /\ (Cardinality(TasksOf(r)) = 0 <=> TasksOf(r) = {})
  BY TasksTyped DEF TypeOK
<1>2. (IF r \in held THEN 1 ELSE 0) + Cardinality(TasksOf(r)) + calls[r]
        = (IF Begun(r) THEN 1 ELSE 0)
  BY DEF CallbackRunsOnce
<1>3. at[r] # None => Begun(r)
  BY DEF AskedInv, Begun
<1> DEFINE n == Cardinality(TasksOf(r))
<1> HIDE DEF n
<1>4. /\ r \in held => n = 0 /\ calls[r] = 0
      /\ n # 0 => r \notin held /\ n = 1 /\ calls[r] = 0
      /\ ~Begun(r) => r \notin held /\ n = 0 /\ calls[r] = 0
  BY <1>1, <1>2 DEF n
<1> QED BY <1>1, <1>3, <1>4 DEF n

LEMMA RelocateKeeps ==
  ASSUME ManagerInv, NEW r \in Loads, NEW q \in Providers \cup {None}, Relocates(r, q),
         NEW d \in {0, 1}, d = 1 => r \notin held,
         at[r] # None <=> r \in held \/ d = 1,
         \A s \in Loads : Cardinality(TasksOf(s))
                            = Cardinality(TasksOf(s)') + (IF s = r THEN d ELSE 0),
         at[r] = None => status[r] = "idle" /\ q # None /\ status'[r] # "idle",
         OtherTyped, StatusMoves, UNCHANGED <<alive, added, answered, canceled>>, alive
  PROVE  ManagerInv' /\ AskedNearest
<1> USE DEF ManagerInv
<1>1. /\ at' \in [Loads -> Providers \cup {None}]
      /\ \A s \in Loads : at'[s] = IF s = r THEN q ELSE at[s]
  BY DEF Relocates, TypeOK
<1>2. /\ held' \subseteq Loads
      /\ \A s \in Loads : s \in held' <=> IF s = r THEN q # None ELSE s \in held
  BY DEF Relocates, TypeOK
<1>3. /\ calls' \in [Loads -> Nat]
      /\ \A s \in Loads : calls'[s] = calls[s] + (IF s = r /\ q = None THEN 1 ELSE 0)
  BY DEF Relocates, TypeOK
<1>4. /\ asked' \in [Loads -> SUBSET Providers]
      /\ \A s \in Loads : asked'[s] = IF s = r /\ q # None THEN asked[s] \cup {q} ELSE asked[s]
  BY DEF Relocates, TypeOK
<1>5. q # None => FromTo(r, q) /\ q \in InList' /\ q \notin deleting /\ q \in ToSet(added)
  BY DEF Relocates, FromTo, ListInv
<1>6. ListInv'
  BY ThinnedList DEF Relocates
<1>7. TypeOK'
  BY <1>1, <1>2, <1>3, <1>4 DEF TypeOK, OtherTyped, TaskSet, Kinds, Statuses, Relocates, Thinned
<1>8. \A s \in Loads : /\ Cardinality(TasksOf(s)') \in Nat
                       /\ (Cardinality(TasksOf(s)') = 0 <=> TasksOf(s)' = {})
                       /\ (Cardinality(TasksOf(s)) = 0 <=> TasksOf(s) = {})
  <2>1. tasks' \in Seq(TaskSet)
    BY DEF OtherTyped
  <2> QED BY <2>1, TasksTyped, TasksTypedNext
<1>9. Cardinality(TasksOf(r)') = 0 /\ calls[r] = 0 /\ (at[r] = None => ~Begun(r))
  <2>1. at[r] = None => ~Begun(r)
    BY DEF AskedInv, Begun
  <2>2. CASE at[r] = None
    <3>1. Cardinality(TasksOf(r)) = 0 /\ calls[r] = 0 /\ d = 0
      BY <2>1, <2>2, OneState
    <3> QED BY <1>8, <2>1, <3>1
  <2>3. CASE at[r] # None /\ r \in held
    <3>1. Cardinality(TasksOf(r)) = 0 /\ calls[r] = 0 /\ d = 0
      BY <2>3, OneState
    <3> QED BY <1>8, <2>3, <3>1
  <2>4. CASE at[r] # None /\ r \notin held
    <3>1. d = 1 /\ TasksOf(r) # {}
      BY <2>4 DEF PlaceInv
    <3>2. Cardinality(TasksOf(r)) = 1 /\ calls[r] = 0
      BY <3>1, OneState
    <3>3. Cardinality(TasksOf(r)) = Cardinality(TasksOf(r)') + d
      OBVIOUS
    <3> QED BY <1>8, <2>4, <3>1, <3>2, <3>3
  <2> QED BY <2>2, <2>3, <2>4
<1>10. \A s \in Loads : s # r => Cardinality(TasksOf(s)') = Cardinality(TasksOf(s))
  BY <1>8
<1>11. CallbackRunsOnce'
  <2>1. ASSUME NEW s \in Loads
        PROVE  (IF s \in held' THEN 1 ELSE 0) + Cardinality(TasksOf(s)') + calls'[s]
                 = (IF asked'[s] # {} THEN 1 ELSE 0)
    <3>1. CASE s = r
      <4>1. asked'[r] # {}
        <5>1. at[r] # None => asked[r] # {}
          BY OneState DEF Begun
        <5> QED BY <1>4, <5>1
      <4>2. (IF r \in held' THEN 1 ELSE 0) + calls'[r] = 1
        BY <1>2, <1>3, <1>9
      <4>3. calls'[r] \in Nat /\ Cardinality(TasksOf(r)') = 0
        BY <1>3, <1>9
      <4> QED BY <3>1, <4>1, <4>2, <4>3
    <3>2. CASE s # r
      <4>1. (IF s \in held THEN 1 ELSE 0) + Cardinality(TasksOf(s)) + calls[s]
              = (IF asked[s] # {} THEN 1 ELSE 0)
        BY DEF CallbackRunsOnce, Begun
      <4>2. calls'[s] = calls[s]
        BY <1>3, <3>2, OneState
      <4>3. (s \in held' <=> s \in held) /\ asked'[s] = asked[s]
            /\ Cardinality(TasksOf(s)') = Cardinality(TasksOf(s))
        BY <1>2, <1>4, <1>10, <3>2
      <4> QED BY <4>1, <4>2, <4>3
    <3> QED BY <3>1, <3>2
  <2> QED BY <2>1 DEF CallbackRunsOnce, Begun
<1>12. PlaceInv'
  <2>1. ASSUME NEW s \in Loads, at'[s] # None PROVE at'[s] \in InList'
    <3>1. CASE s = r
      BY <1>1, <1>5, <2>1, <3>1
    <3>2. CASE s # r
      <4>1. at'[s] = at[s] /\ at[s] \in InList /\ at[s] \in Providers
        BY <1>1, <2>1, <3>2, PlaceFacts
      <4>2. s \in ToSet(waiting'[at[s]])
        BY <4>1 DEF Relocates
      <4>3. waiting'[at[s]] # <<>>
        BY <4>2 DEF ToSet
      <4> QED BY <4>1, <4>3 DEF Relocates
    <3> QED BY <3>1, <3>2
  <2>2. \A p \in Providers :
          ToSet(waiting'[p]) = {s \in Loads : at'[s] = p} /\ NoRepeats(waiting'[p])
    BY DEF Relocates
  <2>3. \A s \in held' : at'[s] # None
    BY <1>1, <1>2 DEF PlaceInv
  <2>4. \A s \in Loads : at'[s] # None => s \in held' \/ TasksOf(s)' # {}
    BY <1>1, <1>2, <1>8, <1>10 DEF PlaceInv
  <2>5. \A s \in Loads : TasksOf(s)' # {} => at'[s] # None
    BY <1>1, <1>8, <1>9, <1>10 DEF PlaceInv
  <2> QED BY <2>1, <2>2, <2>3, <2>4, <2>5 DEF PlaceInv, NoRepeats
<1>13. CallingInv'
  BY <1>1, <1>2, ListTyped DEF CallingInv, Relocates
<1>14. DeletingInv'
  <2>1. ASSUME NEW p \in deleting', NEW s \in ToSet(waiting'[p]) PROVE s \notin held'
    <3>1. p \in deleting /\ p \in Providers
      BY DEF Relocates, TypeOK
    <3>2. s \in Loads /\ at'[s] = p
      BY <3>1 DEF Relocates
    <3>3. s # r /\ at[s] = p
      BY <1>1, <1>5, <3>1, <3>2, ListTyped
    <3>4. s \in ToSet(waiting[p])
      BY <3>1, <3>2, <3>3 DEF PlaceInv
    <3> QED BY <1>2, <3>1, <3>2, <3>3, <3>4 DEF DeletingInv
  <2> QED BY <2>1 DEF DeletingInv, Relocates
<1>15. \A p \in asked[r] : p \in Providers /\ (q # None => Before(p, q))
  <2> TAKE p \in asked[r]
  <2>1. p \in Providers
    BY DEF TypeOK
  <2>2. at[r] # None
    BY <1>9 DEF Begun
  <2>3. p = at[r] \/ Before(p, at[r])
    BY <2>2 DEF AskedInv
  <2>4. at[r] \in Providers
    BY <2>2, PlaceFacts
  <2> QED BY <1>5, <2>1, <2>2, <2>3, <2>4, BeforeIsOrder DEF FromTo
<1>16. AskedInv'
  <2>1. ASSUME NEW s \in Loads
        PROVE  /\ status'[s] = "idle" => asked'[s] = {}
               /\ at'[s] # None => at'[s] \in asked'[s]
               /\ \A p \in asked'[s] :
                    p \in ToSet(added) /\ (at'[s] # None => p = at'[s] \/ Before(p, at'[s]))
    <3>1. CASE s # r
      BY <1>1, <1>4, <3>1 DEF AskedInv, StatusMoves
    <3>2. CASE s = r
      <4>1. status'[r] # "idle"
        <5>1. at[r] # None => status[r] # "idle"
          BY OneState DEF AskedInv, Begun
        <5> QED BY <5>1 DEF StatusMoves
      <4>2. \A p \in asked[r] : p \in ToSet(added)
        BY DEF AskedInv
      <4> QED BY <1>1, <1>4, <1>5, <1>15, <3>2, <4>1, <4>2
    <3> QED BY <3>1, <3>2
  <2> QED BY <2>1 DEF AskedInv, Before
<1>17. AnswerInv'
  <2>1. ASSUME NEW s \in Loads, NEW p \in Providers, <<s, p>> \in answered \cup canceled
        PROVE  p \in asked'[s] /\ ~(at'[s] = p /\ s \in held')
    <3>1. p \in asked[s] /\ ~(at[s] = p /\ s \in held)
      BY <2>1 DEF AnswerInv, HasState
    <3>2. CASE s # r
      BY <1>1, <1>2, <1>4, <3>1, <3>2
    <3>3. CASE s = r
      <4>1. q # None => q # p
        BY <1>15, <3>1, <3>3, BeforeIsOrder
      <4> QED BY <1>1, <1>4, <3>1, <3>3, <4>1, ListTyped
    <3> QED BY <3>2, <3>3
  <2> QED BY <2>1 DEF AnswerInv, HasState, CanceledIsUnanswered
<1>18. AskedNearest
  <2>1. ASSUME NEW s \in Loads, NEW p \in asked'[s] \ asked[s] PROVE Nearest(s, p)
    <3>1. s = r /\ q # None /\ p = q
      BY <1>4, <2>1
    <3> QED BY <1>5, <1>15, <3>1 DEF Nearest, FromTo
  <2> QED BY <2>1 DEF AskedNearest
<1> QED BY <1>6, <1>7, <1>11, <1>12, <1>13, <1>14, <1>16, <1>17, <1>18

\* The states of the loads of R leave their Requests for tasks; entries without
\* requests may leave the list, and others be marked.
Posted(R) ==
  /\ \A s \in Loads : Cardinality(TasksOf(s)') = Cardinality(TasksOf(s))
                        + (IF s \in R THEN 1 ELSE 0)
  /\ held' = held \ R
  /\ UNCHANGED <<alive, at, waiting, asked, calls, added>>
  /\ \/ answered' = answered \cup {<<r, at[r]>> : r \in R} /\ canceled' = canceled
     \/ canceled' = canceled \cup {<<r, at[r]>> : r \in R} /\ answered' = answered
  /\ Thinned
  /\ \A p \in InList : p \notin InList' => waiting[p] = <<>>
  /\ \A p \in deleting' :
       p \in InList' /\ waiting[p] # <<>> /\ \A s \in ToSet(waiting[p]) : s \notin held \ R
  /\ \/ calling' = None
     \/ calling' = calling /\ (calling # None => at[calling] \notin Archives)

LEMMA PostedKeeps ==
  ASSUME ManagerInv, NEW R \in SUBSET held, Posted(R), OtherTyped, StatusMoves
  PROVE  ManagerInv' /\ AskedNearest
<1> USE DEF ManagerInv
<1>1. /\ alive' = alive /\ at' = at /\ waiting' = waiting /\ asked' = asked /\ calls' = calls
      /\ added' = added /\ held' = held \ R /\ R \subseteq Loads
  BY DEF Posted, TypeOK
<1>2. \A r \in R : at[r] \in InList /\ at[r] \in Providers /\ at[r] # None
  BY <1>1, PlaceFacts DEF PlaceInv
<1>3. /\ answered' \subseteq Loads \X Providers /\ canceled' \subseteq Loads \X Providers
      /\ answered' \cup canceled' = answered \cup canceled \cup {<<r, at[r]>> : r \in R}
  BY <1>1, <1>2 DEF Posted, TypeOK
<1>4. ListInv'
  BY <1>1, ThinnedList DEF Posted
<1>5. TypeOK'
  <2>1. calling' \in Loads \cup {None} /\ providers' \in Seq(Providers)
    BY DEF Posted, Thinned, TypeOK
  <2>2. deleting' \subseteq Providers
    BY ListTyped DEF Posted, Thinned
  <2> QED BY <1>1, <1>3, <2>1, <2>2 DEF TypeOK, OtherTyped, TaskSet, Kinds, Statuses
<1>6. \A s \in Loads : /\ Cardinality(TasksOf(s)') \in Nat /\ Cardinality(TasksOf(s)) \in Nat
                       /\ (Cardinality(TasksOf(s)') = 0 <=> TasksOf(s)' = {})
                       /\ (Cardinality(TasksOf(s)) = 0 <=> TasksOf(s) = {})
  <2>1. tasks' \in Seq(TaskSet)
    BY DEF OtherTyped
  <2> QED BY <2>1, TasksTyped, TasksTypedNext
<1>7. \A s \in Loads : Cardinality(TasksOf(s)') = Cardinality(TasksOf(s))
                         + (IF s \in R THEN 1 ELSE 0)
  BY DEF Posted
<1>8. \A s \in Loads : TasksOf(s)' # {} <=> TasksOf(s) # {} \/ s \in R
  <2> TAKE s \in Loads
  <2>1. Cardinality(TasksOf(s)') = 0 <=> Cardinality(TasksOf(s)) = 0 /\ s \notin R
    BY <1>6, <1>7
  <2> QED BY <1>6, <2>1
<1>9. CallbackRunsOnce'
  <2>1. ASSUME NEW s \in Loads
        PROVE  (IF s \in held' THEN 1 ELSE 0) + Cardinality(TasksOf(s)') + calls'[s]
                 = (IF asked'[s] # {} THEN 1 ELSE 0)
    <3>1. (IF s \in held THEN 1 ELSE 0) + Cardinality(TasksOf(s)) + calls[s]
            = (IF asked[s] # {} THEN 1 ELSE 0)
      BY DEF CallbackRunsOnce, Begun
    <3>2. calls[s] \in Nat
      BY OneState
    <3>3. (IF s \in held' THEN 1 ELSE 0) + (IF s \in R THEN 1 ELSE 0) = (IF s \in held THEN 1 ELSE 0)
      BY <1>1
    <3> QED BY <1>1, <1>6, <1>7, <3>1, <3>2, <3>3
  <2> QED BY <2>1 DEF CallbackRunsOnce, Begun
<1>10. PlaceInv'
  <2>1. ASSUME NEW s \in Loads, at[s] # None PROVE at[s] \in InList'
    <3>1. at[s] \in InList /\ at[s] \in Providers /\ s \in ToSet(waiting[at[s]])
      BY <2>1, PlaceFacts
    <3>2. waiting[at[s]] # <<>>
      BY <3>1 DEF ToSet
    <3> QED BY <3>1, <3>2 DEF Posted
  <2>2. \A s \in held' : at[s] # None
    BY <1>1 DEF PlaceInv
  <2>3. \A s \in Loads : at[s] # None => s \in held' \/ TasksOf(s)' # {}
    BY <1>1, <1>8 DEF PlaceInv
  <2>4. alive => \A s \in Loads : TasksOf(s)' # {} => at[s] # None
    BY <1>2, <1>8 DEF PlaceInv
  <2> QED BY <1>1, <2>1, <2>2, <2>3, <2>4 DEF PlaceInv, NoRepeats
<1>11. CallingInv'
  BY <1>1 DEF CallingInv, Posted
<1>12. DeletingInv'
  BY <1>1 DEF DeletingInv, Posted
<1>13. AskedInv'
  BY <1>1 DEF AskedInv, StatusMoves, Before
<1>14. AnswerInv'
  <2>1. ASSUME NEW s \in Loads, NEW p \in Providers, <<s, p>> \in answered' \cup canceled'
        PROVE  p \in asked'[s] /\ ~(at'[s] = p /\ s \in held')
    <3>1. CASE <<s, p>> \in answered \cup canceled
      BY <1>1, <3>1 DEF AnswerInv, HasState
    <3>2. CASE <<s, p>> \notin answered \cup canceled
      <4>1. s \in R /\ p = at[s]
        BY <1>3, <2>1, <3>2
      <4>2. at[s] \in asked[s]
        BY <1>2, <4>1 DEF AskedInv
      <4> QED BY <1>1, <4>1, <4>2
    <3> QED BY <3>1, <3>2
  <2>2. \A r \in R : <<r, at[r]>> \notin answered \cup canceled
    BY <1>1, <1>2 DEF AnswerInv, HasState
  <2>3. answered' \cap canceled' = {}
    BY <2>2 DEF AnswerInv, CanceledIsUnanswered, Posted
  <2> QED BY <2>1, <2>3 DEF AnswerInv, HasState, CanceledIsUnanswered
<1>15. AskedNearest
  BY <1>1 DEF AskedNearest
<1> QED BY <1>4, <1>5, <1>9, <1>10, <1>11, <1>12, <1>13, <1>14, <1>15

\* Nothing happens to the list.
LEMMA UnchangedList ==
  ASSUME TypeOK, UNCHANGED providers
  PROVE  Thinned /\ InList' = InList
<1>1. InList' = InList /\ providers \in Seq(Providers)
  BY ListTyped DEF InList
<1> QED BY <1>1 DEF Thinned, Precedes

\* Nothing happens to any load or provider, except that OnRequest may return.
LEMMA QuietKeeps ==
  ASSUME ManagerInv, UNCHANGED <<alive, chain, place, asked, calls, added, answered, canceled>>,
         calling' = None \/ (calling' = calling /\ (calling # None => at[calling] \notin Archives)),
         OtherTyped, StatusMoves
  PROVE  ManagerInv' /\ AskedNearest
<1> USE DEF ManagerInv
<1>1. /\ UNCHANGED <<alive, at, waiting, asked, calls, added, answered, canceled, tasks, held>>
      /\ UNCHANGED <<providers, deleting>>
  BY DEF chain, place
<1>2. \A s \in Loads : TasksOf(s)' = TasksOf(s)
  BY <1>1 DEF TasksOf
<1>3. Thinned /\ InList' = InList
  BY <1>1, UnchangedList
<1>4. \A s \in Loads : Cardinality(TasksOf(s)') = Cardinality(TasksOf(s))
                         + (IF s \in {} THEN 1 ELSE 0)
  BY <1>2, TasksTyped
<1>5. Posted({})
  BY <1>1, <1>3, <1>4 DEF Posted, DeletingInv
<1> QED BY <1>5, PostedKeeps

-----------------------------------------------------------------------------
(* The actions.                                                            *)

LEMMA ManagerInit == Init => ManagerInv
<1> SUFFICES ASSUME Init PROVE ManagerInv
  OBVIOUS
<1> USE DEF Init
<1>1. ToSet(<<>>) = {} /\ DOMAIN <<>> = {}
  BY DEF ToSet
<1>2. TypeOK
  <2>1. \A T : <<>> \in Seq(T)
    BY EmptySeq
  <2>2. /\ alive \in BOOLEAN /\ hung \in BOOLEAN
        /\ providers \in Seq(Providers) /\ added \in Seq(Providers)
        /\ tasks \in Seq([load: Loads, kind: {"next", "handled", "stop"}])
    BY <2>1
  <2>3. waiting \in [Providers -> Seq(Loads)] /\ queue \in [Archives -> Seq(Loads)]
    BY <2>1
  <2>4. /\ deleting \subseteq Providers /\ at \in [Loads -> Providers \cup {None}]
        /\ held \subseteq Loads /\ calling \in Loads \cup {None} /\ handlers \subseteq Loads
        /\ archive \in [Archives -> {"idle", "loading", "done"}]
        /\ files \in [Archives -> SUBSET Loads]
        /\ status \in [Loads -> {"idle", "deciding", "continue", "async"}]
        /\ calls \in [Loads -> Nat] /\ asked \in [Loads -> SUBSET Providers]
        /\ answered \subseteq Loads \X Providers /\ canceled \subseteq Loads \X Providers
    OBVIOUS
  <2> QED BY <2>2, <2>3, <2>4 DEF TypeOK
<1>3. ListInv
  BY <1>1 DEF ListInv, NoRepeats, InList
<1>4. \A r \in Loads : TasksOf(r) = {} /\ Cardinality(TasksOf(r)) = 0
  <2>1. \A r \in Loads : TasksOf(r) = {}
    BY <1>1 DEF TasksOf
  <2> QED BY <2>1, FS_EmptySet
<1>5. PlaceInv
  BY <1>1, <1>4, ManagerAssumption DEF PlaceInv, NoRepeats
<1>6. CallbackRunsOnce
  BY <1>4 DEF CallbackRunsOnce, Begun
<1>7. CallingInv /\ DeletingInv /\ AskedInv /\ AnswerInv
  BY DEF CallingInv, DeletingInv, AskedInv, AnswerInv, CanceledIsUnanswered
<1> QED BY <1>2, <1>3, <1>5, <1>6, <1>7 DEF ManagerInv

LEMMA AddProviderKeeps ==
  ASSUME ManagerInv, NEW p \in Providers, AddProvider(p)
  PROVE  ManagerInv' /\ AskedNearest
<1> USE DEF ManagerInv
<1>1. /\ p \notin ToSet(added) /\ providers' = InsertAt(providers, InsertPosition(p), p)
      /\ added' = Append(added, p)
      /\ UNCHANGED <<alive, hung, deleting, waiting, at, held, tasks, calling, handlers, archive,
                     files, queue, status, calls, asked, answered, canceled>>
  BY DEF AddProvider, place, archives
<1> DEFINE k == InsertPosition(p)
           n == Len(providers)
           higher == {i \in DOMAIN providers : Order[providers[i]] > Order[p]}
<1>2. /\ n \in Nat /\ DOMAIN providers = 1..n /\ providers \in Seq(Providers)
      /\ \A i \in 1..n : providers[i] \in InList /\ providers[i] \in Providers
      /\ \A x \in Providers : Order[x] \in Int
  BY ListTyped
<1>3. /\ k \in 1..(n + 1)
      /\ \A i \in 1..n : i < k => ~(Order[providers[i]] > Order[p])
      /\ k <= n => Order[providers[k]] > Order[p]
  <2>1. higher \subseteq Nat /\ higher \subseteq 1..n
    BY <1>2
  <2>2. CASE higher = {}
    <3>1. k = n + 1
      BY <2>2 DEF InsertPosition
    <3> QED BY <1>2, <2>2, <3>1
  <2>3. CASE higher # {}
    <3>1. k = Min(higher)
      BY <2>3 DEF InsertPosition
    <3>2. k \in higher /\ \A i \in higher : k <= i
      BY <2>1, <2>3, <3>1, MinIsLeast
    <3> QED BY <1>2, <2>1, <3>2
  <2> QED BY <2>2, <2>3
<1> HIDE DEF k
<1>4. /\ providers' \in Seq(Providers) /\ Len(providers') = n + 1
      /\ \A i \in 1..(n + 1) : providers'[i] = IF i < k THEN providers[i]
                                               ELSE IF i = k THEN p ELSE providers[i - 1]
  <2>1. k \in 1..(Len(providers) + 1) /\ providers' = InsertAt(providers, k, p)
    BY <1>1, <1>3 DEF k
  <2>2. /\ providers' \in Seq(Providers) /\ Len(providers') = Len(providers) + 1
        /\ \A i \in 1..(Len(providers) + 1) :
             providers'[i] = IF i < k THEN providers[i] ELSE IF i = k THEN p ELSE providers[i - 1]
    <3>1. PICK j \in 1..(Len(providers) + 1) : j = k
      BY <2>1
    <3>3. providers \in Seq(Providers)
      BY <1>2
    <3>2. /\ InsertAt(providers, j, p) \in Seq(Providers)
          /\ Len(InsertAt(providers, j, p)) = Len(providers) + 1
          /\ \A i \in 1..(Len(providers) + 1) : InsertAt(providers, j, p)[i] =
               IF i < j THEN providers[i] ELSE IF i = j THEN p ELSE providers[i - 1]
      BY <3>3, InsertAtFacts
    <3> QED BY <2>1, <3>1, <3>2
  <2> QED BY <2>2
<1>5. DOMAIN providers' = 1..(n + 1)
  BY <1>4, LenProperties
<1> HIDE DEF n
<1>6. InList' = InList \cup {p}
  <2>1. ASSUME NEW i \in 1..(n + 1) PROVE providers'[i] \in InList \cup {p}
    BY <1>2, <1>3, <1>4
  <2>2. ASSUME NEW i \in 1..n PROVE \E j \in 1..(n + 1) : providers'[j] = providers[i]
    <3>1. CASE i < k
      BY <1>2, <1>3, <1>4, <3>1
    <3>2. CASE ~(i < k)
      <4>1. i + 1 \in 1..(n + 1) /\ ~(i + 1 < k) /\ i + 1 # k /\ (i + 1) - 1 = i
        BY <1>2, <1>3, <3>2
      <4>2. providers'[i + 1] = providers[i]
        BY <1>4, <4>1
      <4> QED BY <4>1, <4>2
    <3> QED BY <3>1, <3>2
  <2>3. providers'[k] = p
    BY <1>2, <1>3, <1>4
  <2>4. InList' = {providers'[i] : i \in 1..(n + 1)}
    BY <1>5 DEF InList, ToSet
  <2>5. InList = {providers[i] : i \in 1..n}
    BY <1>2 DEF InList, ToSet
  <2>6. k \in 1..(n + 1)
    BY <1>3
  <2> QED BY <2>1, <2>2, <2>3, <2>4, <2>5, <2>6
<1>7. ToSet(added') = ToSet(added) \cup {p} /\ NoRepeats(added') /\ added' \in Seq(Providers)
  BY <1>1, ListTyped, ToSetOfAppend DEF ListInv
<1>8. /\ \A i \in DOMAIN added : i \in DOMAIN added' /\ added'[i] = added[i]
      /\ Len(added) + 1 \in DOMAIN added' /\ added'[Len(added) + 1] = p
      /\ \A i \in DOMAIN added : i < Len(added) + 1
  <2>1. /\ Len(Append(added, p)) = Len(added) + 1 /\ Append(added, p) \in Seq(Providers)
        /\ \A i \in 1..Len(added) : Append(added, p)[i] = added[i]
        /\ Append(added, p)[Len(added) + 1] = p
    BY ListTyped, AppendProperties
  <2>2. DOMAIN added' = 1..(Len(added) + 1)
    BY <1>1, <2>1, LenProperties
  <2> QED BY <1>1, <2>1, <2>2, ListTyped
<1>9. \A x, y : Before(x, y) => Before(x, y)'
  BY <1>8 DEF Before
<1>10. \A x \in InList : Order[x] = Order[p] => Before(x, p)'
  <2> SUFFICES ASSUME NEW x \in InList, Order[x] = Order[p] PROVE Before(x, p)'
    OBVIOUS
  <2>1. PICK i \in DOMAIN added : added[i] = x
    BY DEF ListInv, ToSet
  <2> QED BY <1>8, <2>1 DEF Before
<1>11. ASSUME NEW i \in DOMAIN providers', NEW j \in DOMAIN providers', i < j
       PROVE  \E x, y \in Providers :
                x = providers'[i] /\ y = providers'[j] /\ Before(x, y)'
  <2>1. CASE j < k
    <3>1. i \in 1..n /\ j \in 1..n /\ providers'[i] = providers[i] /\ providers'[j] = providers[j]
      BY <1>2, <1>3, <1>4, <1>5, <1>11, <2>1
    <3>2. Before(providers[i], providers[j])
      BY <1>2, <1>11, <3>1 DEF ListInv
    <3> QED BY <1>2, <1>9, <3>1, <3>2
  <2>2. CASE j = k
    <3>1. i \in 1..n /\ i < k /\ providers'[i] = providers[i] /\ providers'[j] = p
      BY <1>2, <1>3, <1>4, <1>5, <1>11, <2>2
    <3>2. Order[providers[i]] <= Order[p]
      BY <1>2, <1>3, <3>1
    <3>3. CASE Order[providers[i]] < Order[p]
      <4>1. Before(providers[i], p)
        BY <3>3 DEF Before
      <4> QED BY <1>2, <1>9, <3>1, <4>1
    <3>4. CASE Order[providers[i]] = Order[p]
      BY <1>2, <1>10, <3>1, <3>4
    <3> QED BY <1>2, <3>1, <3>2, <3>3, <3>4
  <2>3. CASE j > k /\ i = k
    <3>1. j - 1 \in 1..n /\ k <= j - 1 /\ k <= n /\ providers'[i] = p
          /\ providers'[j] = providers[j - 1]
      BY <1>2, <1>3, <1>4, <1>5, <2>3
    <3>2. Order[providers[k]] > Order[p] /\ k \in 1..n
      BY <1>2, <1>3, <3>1
    <3>3. k = j - 1 \/ Before(providers[k], providers[j - 1])
      BY <1>2, <3>1, <3>2 DEF ListInv
    <3>4. Order[p] < Order[providers[j - 1]]
      BY <1>2, <3>1, <3>2, <3>3 DEF Before
    <3>5. Before(p, providers[j - 1])
      BY <3>4 DEF Before
    <3> QED BY <1>2, <1>9, <3>1, <3>5
  <2>4. CASE j > k /\ i # k
    <3> DEFINE a == IF i < k THEN i ELSE i - 1
    <3>1. a \in 1..n /\ j - 1 \in 1..n /\ a < j - 1
      BY <1>2, <1>3, <1>5, <1>11, <2>4
    <3>2. providers'[i] = providers[a] /\ providers'[j] = providers[j - 1]
      BY <1>2, <1>3, <1>4, <1>5, <2>4
    <3> HIDE DEF a
    <3>3. Before(providers[a], providers[j - 1])
      BY <1>2, <3>1 DEF ListInv
    <3> QED BY <1>2, <1>9, <3>1, <3>2, <3>3
  <2> QED BY <1>2, <1>3, <1>5, <2>1, <2>2, <2>3, <2>4
<1>12. ListInv'
  <2>1. \A i, j \in DOMAIN providers' : i < j => Before(providers[i], providers[j])'
    BY <1>11
  <2> QED BY <1>6, <1>7, <2>1 DEF ListInv, NoRepeats
<1>13. \A s \in Loads : TasksOf(s)' = TasksOf(s)
  BY <1>1 DEF TasksOf
<1>14. TypeOK'
  BY <1>1, <1>4, <1>7 DEF TypeOK
<1>15. PlaceInv'
  BY <1>1, <1>6, <1>13 DEF PlaceInv, NoRepeats
<1>16. CallingInv' /\ DeletingInv'
  BY <1>1, <1>6 DEF CallingInv, DeletingInv
<1>17. CallbackRunsOnce'
  BY <1>1, <1>13 DEF CallbackRunsOnce, Begun
<1>18. AskedInv'
  BY <1>1, <1>7, <1>9 DEF AskedInv
<1>19. AnswerInv' /\ AskedNearest
  BY <1>1 DEF AnswerInv, HasState, CanceledIsUnanswered, AskedNearest
<1> QED BY <1>12, <1>14, <1>15, <1>16, <1>17, <1>18, <1>19

LEMMA CancelFacts ==
  ASSUME ManagerInv, NEW removed \in SUBSET InList, NEW kind \in Kinds, Cancel(removed, kind),
         NEW R, R = CanceledBy(removed)
  PROVE  /\ R \in SUBSET held /\ held' = held \ R
         /\ tasks' \in Seq(TaskSet)
         /\ \A s \in Loads : Cardinality(TasksOf(s)') = Cardinality(TasksOf(s))
                               + (IF s \in R THEN 1 ELSE 0)
         /\ canceled' = canceled \cup {<<r, at[r]>> : r \in R}
         /\ \A p \in removed : \A s \in ToSet(waiting[p]) : s \notin held \ R
<1> USE DEF ManagerInv
<1>1. /\ R \in SUBSET held /\ R \subseteq Loads
      /\ \A r \in R : \E p \in removed : r \in ToSet(waiting[p])
  BY DEF CanceledBy, HasState
<1>2. \A p \in removed : p \in Providers /\ waiting[p] \in Seq(Loads)
                         /\ IsFiniteSet(ToSet(waiting[p]))
                         /\ ToSet(waiting[p]) = {s \in Loads : at[s] = p}
  <2>1. \A p \in removed : p \in Providers
    BY ListTyped
  <2> QED BY <2>1, ToSetFinite DEF TypeOK, PlaceInv
<1>3. IsFiniteSet(R)
  <2> DEFINE lists == {ToSet(waiting[p]) : p \in removed}
             f == [p \in removed |-> ToSet(waiting[p])]
  <2>1. IsFiniteSet(removed)
    BY ListTyped, ToSetFinite, FS_Subset DEF InList
  <2>2. f \in Surjection(removed, lists)
    BY DEF Surjection
  <2>3. IsFiniteSet(lists)
    BY <2>1, <2>2, FS_Surjection
  <2>4. IsFiniteSet(UNION lists)
    BY <1>2, <2>3, FS_UNION
  <2>5. R \subseteq UNION lists
    BY <1>1
  <2> QED BY <2>4, <2>5, FS_Subset
<1>4. PICK requests \in SetToSeqs(R) : Post(requests, kind)
  BY DEF Cancel
<1>6. requests \in Seq(R) /\ ToSet(requests) = R /\ NoRepeats(requests)
  BY <1>3, <1>4, PermutationFacts
<1>7. requests \in Seq(Loads)
  BY <1>1, <1>6, SeqMonotonic
<1>8. /\ tasks' \in Seq(TaskSet)
      /\ \A s \in Loads : Cardinality(TasksOf(s)') = Cardinality(TasksOf(s))
                            + (IF s \in R THEN 1 ELSE 0)
  BY <1>4, <1>6, <1>7, PostFacts
<1>9. held' = held \ R /\ canceled' = canceled \cup {<<r, at[r]>> : r \in R}
  BY DEF Cancel
<1>10. \A p \in removed : \A s \in ToSet(waiting[p]) : s \notin held \ R
  BY <1>2 DEF CanceledBy, HasState
<1> QED BY <1>1, <1>8, <1>9, <1>10

LEMMA SameStatus ==
  ASSUME TypeOK, status' = status
  PROVE  StatusMoves /\ status' \in [Loads -> Statuses]
BY DEF StatusMoves, TypeOK, Statuses

LEMMA DeleteKeeps ==
  ASSUME ManagerInv, NEW those \in SUBSET InList, NEW kind \in Kinds,
         DeleteProviders(those, kind), UNCHANGED <<alive, calling, handlers, status, calls>>,
         calling # None => at[calling] \notin Archives
  PROVE  ManagerInv' /\ AskedNearest
<1> USE DEF ManagerInv
<1> DEFINE stuck == {i \in DOMAIN providers : providers[i] \in those \cap deleting}
           removed == {p \in those \cap InList : ~\E i \in stuck : p = providers[i]
                                                    \/ Precedes(providers, providers[i], p)}
           gone == {p \in removed : waiting[p] = <<>>}
           R == CanceledBy(removed)
<1>1. /\ hung' = (stuck # {})
      /\ deleting' = deleting \cup (removed \ gone)
      /\ Cancel(removed, kind)
      /\ UNCHANGED <<waiting, at, archive, files, queue, added, asked, answered>>
  BY DEF DeleteProviders, archives
<1>2. /\ removed \subseteq InList /\ gone \subseteq removed /\ \A p \in gone : waiting[p] = <<>>
      /\ \A p \in removed \ gone : waiting[p] # <<>>
  OBVIOUS
<1>3. hung' \in BOOLEAN
  BY <1>1
<1>6. providers' \in SetToSeqs(InList \ gone)
      /\ \A i, j \in DOMAIN providers' : i < j => Precedes(providers, providers'[i], providers'[j])
  BY DEF DeleteProviders, InOrder
<1> HIDE DEF stuck, removed, gone, R
<1>13. Cancel(removed, kind) /\ removed \in SUBSET InList
  BY <1>1, <1>2
<1>4. /\ R \in SUBSET held /\ held' = held \ R /\ tasks' \in Seq(TaskSet)
      /\ \A s \in Loads : Cardinality(TasksOf(s)') = Cardinality(TasksOf(s))
                            + (IF s \in R THEN 1 ELSE 0)
      /\ canceled' = canceled \cup {<<r, at[r]>> : r \in R}
      /\ \A p \in removed : \A s \in ToSet(waiting[p]) : s \notin held \ R
  BY <1>13, CancelFacts DEF R
<1>5. IsFiniteSet(InList \ gone)
  <2>1. IsFiniteSet(InList)
    BY ListTyped, ToSetFinite DEF InList
  <2> QED BY <2>1, FS_Difference
<1>7. providers' \in Seq(InList \ gone) /\ ToSet(providers') = InList \ gone
  BY <1>5, <1>6, PermutationFacts
<1>8. providers' \in Seq(Providers) /\ InList' = InList \ gone
  BY <1>7, ListTyped, SeqMonotonic DEF InList
<1>9. Thinned
  BY <1>6, <1>8 DEF Thinned
<1>10. \A p \in deleting' :
         p \in InList' /\ waiting[p] # <<>> /\ \A s \in ToSet(waiting[p]) : s \notin held \ R
  <2> SUFFICES ASSUME NEW p \in deleting'
               PROVE  p \in InList' /\ waiting[p] # <<>>
                      /\ \A s \in ToSet(waiting[p]) : s \notin held \ R
    OBVIOUS
  <2>1. CASE p \in deleting
    <3>1. p \in InList /\ waiting[p] # <<>> /\ \A s \in ToSet(waiting[p]) : s \notin held
      BY <2>1 DEF DeletingInv
    <3> QED BY <1>2, <1>8, <3>1
  <2>2. CASE p \in removed \ gone
    <3>1. p \in InList /\ p \notin gone /\ waiting[p] # <<>>
      BY <1>2, <2>2
    <3> QED BY <1>4, <1>8, <2>2, <3>1
  <2> QED BY <1>1, <2>1, <2>2
<1>11. Posted(R)
  BY <1>1, <1>2, <1>4, <1>8, <1>9, <1>10 DEF Posted
<1>12. StatusMoves /\ OtherTyped
  BY <1>1, <1>3, <1>4, SameStatus DEF OtherTyped, TypeOK
<1> QED BY <1>4, <1>11, <1>12, PostedKeeps

LEMMA DestroyKeeps ==
  ASSUME ManagerInv, Destroy
  PROVE  ManagerInv' /\ AskedNearest
<1> USE DEF ManagerInv
<1>1. calling = None /\ "stop" \in Kinds
  BY DEF Destroy, Idle, Kinds
<1>2. CASE InList \cap deleting # {}
  <2>1. DeleteProviders(InList, "stop") /\ UNCHANGED <<alive, calling, handlers, status, calls>>
    BY <1>2 DEF Destroy
  <2> QED BY <1>1, <2>1, DeleteKeeps
<1>3. CASE InList \cap deleting = {}
  <2> DEFINE R == CanceledBy(InList)
  <2>1. /\ alive' = FALSE /\ providers' = <<>> /\ deleting' = {}
        /\ waiting' = [p \in Providers |-> <<>>] /\ at' = [r \in Loads |-> None]
        /\ Cancel(InList, "stop") /\ handlers' = {}
        /\ UNCHANGED <<hung, calling, archive, files, queue, status, calls, added, asked, answered>>
    BY <1>3 DEF Destroy, archives
  <2> HIDE DEF R
  <2>2. /\ R \in SUBSET held /\ held' = held \ R /\ tasks' \in Seq(TaskSet)
        /\ \A s \in Loads : Cardinality(TasksOf(s)') = Cardinality(TasksOf(s))
                              + (IF s \in R THEN 1 ELSE 0)
        /\ canceled' = canceled \cup {<<r, at[r]>> : r \in R}
        /\ \A p \in InList : \A s \in ToSet(waiting[p]) : s \notin held \ R
    BY <1>1, <2>1, CancelFacts DEF R
  <2>3. held' = {}
    <3> SUFFICES ASSUME NEW r \in held, r \notin R PROVE FALSE
      BY <2>2
    <3>1. r \in Loads /\ at[r] # None
      BY DEF TypeOK, PlaceInv
    <3> QED BY <2>2, <3>1, PlaceFacts
  <2>4. R = held /\ held \subseteq Loads
    BY <2>2, <2>3 DEF TypeOK
  <2>5. \A r \in held : at[r] # None /\ at[r] \in Providers /\ r \in Loads
    BY PlaceFacts DEF TypeOK, PlaceInv
  <2>6. ToSet(<<>>) = {} /\ DOMAIN <<>> = {} /\ \A T : <<>> \in Seq(T)
    BY EmptySeq DEF ToSet
  <2>7. TypeOK'
    <3>1. canceled' \subseteq Loads \X Providers
      BY <2>2, <2>4, <2>5 DEF TypeOK
    <3>2. /\ providers' \in Seq(Providers) /\ waiting' \in [Providers -> Seq(Loads)]
          /\ at' \in [Loads -> Providers \cup {None}]
      BY <2>1, <2>6
    <3> QED BY <2>1, <2>2, <2>3, <3>1, <3>2 DEF TypeOK, TaskSet, Kinds
  <2>8. ListInv'
    BY <2>1, <2>6 DEF ListInv, InList, NoRepeats
  <2>9. PlaceInv'
    BY <2>1, <2>3, <2>6, ListTyped DEF PlaceInv, NoRepeats
  <2>10. CallingInv' /\ DeletingInv'
    BY <1>1, <2>1 DEF CallingInv, DeletingInv
  <2>11. CallbackRunsOnce'
    <3>1. ASSUME NEW s \in Loads
          PROVE  (IF s \in held' THEN 1 ELSE 0) + Cardinality(TasksOf(s)') + calls'[s]
                   = (IF asked'[s] # {} THEN 1 ELSE 0)
      <4>1. (IF s \in held THEN 1 ELSE 0) + Cardinality(TasksOf(s)) + calls[s]
              = (IF asked[s] # {} THEN 1 ELSE 0)
        BY DEF CallbackRunsOnce, Begun
      <4>2. calls[s] \in Nat /\ Cardinality(TasksOf(s)) \in Nat
        BY OneState
      <4>3. Cardinality(TasksOf(s)') = Cardinality(TasksOf(s)) + (IF s \in held THEN 1 ELSE 0)
            /\ s \notin held'
        BY <2>2, <2>3, <2>4
      <4>4. calls'[s] = calls[s] /\ asked'[s] = asked[s]
        BY <2>1
      <4>5. Cardinality(TasksOf(s)') + calls'[s]
              = (IF s \in held THEN 1 ELSE 0) + Cardinality(TasksOf(s)) + calls[s]
        BY <4>2, <4>3, <4>4
      <4> QED BY <4>1, <4>2, <4>3, <4>4, <4>5
    <3> QED BY <3>1 DEF CallbackRunsOnce, Begun
  <2>12. AskedInv'
    BY <2>1 DEF AskedInv, Before
  <2>13. AnswerInv'
    <3>1. ASSUME NEW s \in Loads, NEW p \in Providers, <<s, p>> \in answered' \cup canceled'
          PROVE  p \in asked'[s]
      <4>1. CASE <<s, p>> \in answered \cup canceled
        BY <2>1, <4>1 DEF AnswerInv
      <4>2. CASE <<s, p>> \notin answered \cup canceled
        <5>1. s \in held /\ p = at[s]
          BY <2>1, <2>2, <2>4, <3>1, <4>2
        <5> QED BY <2>1, <2>5, <5>1 DEF AskedInv
      <4> QED BY <4>1, <4>2
    <3>2. \A r \in held : <<r, at[r]>> \notin answered
      BY <2>5 DEF AnswerInv, HasState
    <3>3. answered' \cap canceled' = {}
      BY <2>1, <2>2, <2>4, <3>2 DEF AnswerInv, CanceledIsUnanswered
    <3> QED BY <2>3, <3>1, <3>3 DEF AnswerInv, HasState, CanceledIsUnanswered
  <2>14. AskedNearest
    BY <2>1 DEF AskedNearest
  <2> QED BY <2>7, <2>8, <2>9, <2>10, <2>11, <2>12, <2>13, <2>14
<1> QED BY <1>2, <1>3

LEMMA RemovalKeeps ==
  ASSUME ManagerInv,
         (\E p \in Providers : RemoveProviders(Identifier[p])) \/ RemoveAllProviders
  PROVE  ManagerInv' /\ AskedNearest
<1>1. calling # None => at[calling] \notin Archives
  BY DEF RemoveProviders, RemoveAllProviders, InClient
<1>2. "next" \in Kinds /\ "stop" \in Kinds
  BY DEF Kinds
<1>3. ASSUME NEW p \in Providers, RemoveProviders(Identifier[p])
      PROVE  ManagerInv' /\ AskedNearest
  <2> DEFINE those == {x \in InList : Identifier[x] = Identifier[p]}
  <2>1. DeleteProviders(those, "next") /\ UNCHANGED <<alive, calling, handlers, status, calls>>
    BY <1>3 DEF RemoveProviders
  <2>2. those \in SUBSET InList
    OBVIOUS
  <2> HIDE DEF those
  <2> QED BY <1>1, <1>2, <2>1, <2>2, DeleteKeeps
<1>4. CASE RemoveAllProviders
  <2>1. DeleteProviders(InList, "stop") /\ UNCHANGED <<alive, calling, handlers, status, calls>>
    BY <1>4 DEF RemoveAllProviders
  <2> QED BY <1>1, <1>2, <2>1, DeleteKeeps
<1> QED BY <1>3, <1>4

-----------------------------------------------------------------------------
(* The way of a load, step by step.                                        *)

LEMMA SettledFacts ==
  ASSUME TypeOK, NEW r \in Loads, NEW result \in Statuses \ {"idle"},
         status' = Settled(r, result)
  PROVE  StatusMoves /\ status' \in [Loads -> Statuses]
BY DEF Settled, StatusMoves, TypeOK, Statuses

LEMMA BeforeResourceLoadKeeps ==
  ASSUME ManagerInv, NEW r \in Loads, OnBeforeResourceLoad(r)
  PROVE  ManagerInv' /\ AskedNearest
<1> USE DEF ManagerInv
<1> DEFINE first == NextValidProvider(1)
<1>1. /\ calling = None /\ alive /\ status[r] = "idle"
      /\ UNCHANGED <<alive, hung, providers, deleting, tasks, handlers, archive, files,
                     queue, calls, added, answered, canceled>>
  BY DEF OnBeforeResourceLoad, Idle, archives
<1>2. \A s \in Loads : TasksOf(s)' = TasksOf(s)
  BY <1>1 DEF TasksOf
<1>3. ASSUME NEW result \in Statuses \ {"idle"}, status' = [status EXCEPT ![r] = result]
      PROVE  StatusMoves /\ OtherTyped /\ status'[r] # "idle"
  BY <1>1, <1>3, TasksTyped DEF StatusMoves, OtherTyped, TypeOK, Statuses
<1>4. CASE first = None
  <2>1. /\ status' = [status EXCEPT ![r] = "continue"]
        /\ UNCHANGED <<waiting, at, held, calling, asked>>
    BY <1>4 DEF OnBeforeResourceLoad
  <2>2. StatusMoves /\ OtherTyped
    BY <1>3, <2>1 DEF Statuses
  <2>3. UNCHANGED <<chain, place>>
    BY <1>1, <2>1 DEF chain, place
  <2> QED BY <1>1, <2>1, <2>2, <2>3, QuietKeeps
<1>5. CASE first # None
  <2>1. status' = [status EXCEPT ![r] = "deciding"] /\ SendRequest(r, first, waiting)
    BY <1>5 DEF OnBeforeResourceLoad
  <2>2. StatusMoves /\ OtherTyped /\ status'[r] # "idle"
    BY <1>3, <2>1 DEF Statuses
  <2>3. ~Begun(r)
    BY <1>1 DEF AskedInv, Begun
  <2>4. at[r] = None /\ r \notin held
    BY <2>3, OneState
  <2>5. first \in Providers /\ Relocates(r, first)
    BY <1>1, <1>5, <2>1, <2>4, FirstRelocates
  <2> HIDE DEF first
  <2>6. \A s \in Loads : Cardinality(TasksOf(s))
                           = Cardinality(TasksOf(s)') + (IF s = r THEN 0 ELSE 0)
    BY <1>2, TasksTyped
  <2> QED BY <1>1, <1>5, <2>2, <2>4, <2>5, <2>6, RelocateKeeps
<1> QED BY <1>4, <1>5

\* OnRequest returned false: the load moves on, or has been taken away.
LEMMA DeclinedKeeps ==
  ASSUME ManagerInv, NEW r \in Loads, calling = r, Declined(r),
         UNCHANGED <<alive, hung, handlers, added, canceled>>
  PROVE  ManagerInv' /\ AskedNearest
<1> USE DEF ManagerInv
<1>1. UNCHANGED <<tasks, answered, archive, files, queue>>
  BY DEF Declined, archives
<1>2. at[r] # None /\ at[r] \in Providers
  BY PlaceFacts, ListTyped DEF CallingInv
<1>3. alive
  BY <1>2 DEF PlaceInv
<1>4. \A s \in Loads : Cardinality(TasksOf(s))
                         = Cardinality(TasksOf(s)') + (IF s = r THEN 0 ELSE 0)
  <2>1. \A s \in Loads : TasksOf(s)' = TasksOf(s)
    BY <1>1 DEF TasksOf
  <2> QED BY <2>1, TasksTyped
<1>5. StatusMoves /\ status' \in [Loads -> Statuses]
  <2>1. status' = status \/ status' = Settled(r, "continue") \/ status' = Settled(r, "async")
    BY DEF Declined
  <2>2. "continue" \in Statuses \ {"idle"} /\ "async" \in Statuses \ {"idle"}
    BY DEF Statuses
  <2> QED BY <2>1, <2>2, SettledFacts, SameStatus
<1>6. OtherTyped
  BY <1>1, <1>5, TasksTyped DEF OtherTyped, TypeOK
<1>7. CASE HasState(r, at[r])
  <2>1. MoveOn(r) /\ r \in held
    BY <1>7 DEF Declined, HasState
  <2>2. PICK q \in Providers \cup {None} : Relocates(r, q)
    BY <1>2, <2>1, MoveOnRelocates
  <2> QED BY <1>1, <1>2, <1>3, <1>4, <1>5, <1>6, <2>1, <2>2, RelocateKeeps
<1>8. CASE ~HasState(r, at[r])
  <2>1. calling' = None /\ UNCHANGED <<chain, place, calls, asked>>
    BY <1>1, <1>8 DEF Declined, place
  <2> QED BY <1>1, <1>5, <1>6, <2>1, QuietKeeps
<1> QED BY <1>7, <1>8

LEMMA AcceptedFacts ==
  ASSUME TypeOK, NEW r \in Loads, Accepted(r)
  PROVE  /\ calling' = None /\ UNCHANGED <<chain, at, calls, asked>>
         /\ StatusMoves /\ status' \in [Loads -> Statuses]
<1>1. calling' = None /\ status' = Settled(r, "async") /\ UNCHANGED <<chain, at, calls, asked>>
  BY DEF Accepted
<1>2. "async" \in Statuses \ {"idle"}
  BY DEF Statuses
<1> QED BY <1>1, <1>2, SettledFacts

LEMMA RequestReturnsKeeps ==
  ASSUME ManagerInv, NEW r \in Loads, NEW handles \in BOOLEAN, OnRequestReturns(r, handles)
  PROVE  ManagerInv' /\ AskedNearest
<1> USE DEF ManagerInv
<1>1. calling = r /\ UNCHANGED <<alive, hung, handlers, added, canceled>>
  BY DEF OnRequestReturns
<1>2. CASE ~handles
  <2>1. Declined(r)
    BY <1>2 DEF OnRequestReturns
  <2> QED BY <1>1, <2>1, DeclinedKeeps
<1>3. CASE handles
  <2>1. Accepted(r) /\ UNCHANGED <<held, tasks, answered, archive, files, queue>>
    BY <1>3 DEF OnRequestReturns, archives
  <2>2. /\ calling' = None /\ UNCHANGED <<chain, at, calls, asked>>
        /\ StatusMoves /\ status' \in [Loads -> Statuses]
    BY <2>1, AcceptedFacts
  <2>3. UNCHANGED place
    BY <2>1, <2>2 DEF place
  <2>4. OtherTyped
    BY <1>1, <2>1, <2>2, TasksTyped DEF OtherTyped, TypeOK
  <2> QED BY <1>1, <2>1, <2>2, <2>3, <2>4, QuietKeeps
<1> QED BY <1>2, <1>3

\* Continue and Stop on some Requests that have their states.
LEMMA AnswerKeeps ==
  ASSUME ManagerInv, NEW requests \in Seq(Loads), NoRepeats(requests),
         ToSet(requests) \subseteq held, NEW kind \in Kinds, Answer(requests, kind),
         UNCHANGED <<alive, hung, chain, at, handlers, calls, added, asked, canceled>>,
         calling' = None \/ (calling' = calling /\ (calling # None => at[calling] \notin Archives)),
         archive' \in [Archives -> {"idle", "loading", "done"}],
         files' \in [Archives -> SUBSET Loads], queue' \in [Archives -> Seq(Loads)],
         StatusMoves, status' \in [Loads -> Statuses]
  PROVE  ManagerInv' /\ AskedNearest
<1> USE DEF ManagerInv
<1> DEFINE R == ToSet(requests)
<1>1. R \in SUBSET held
  OBVIOUS
<1>2. /\ Post(requests, kind) /\ held' = held \ R
      /\ answered' = answered \cup {<<r, at[r]>> : r \in R}
  BY DEF Answer
<1>3. /\ tasks' \in Seq(TaskSet)
      /\ \A s \in Loads : Cardinality(TasksOf(s)') = Cardinality(TasksOf(s))
                            + (IF s \in R THEN 1 ELSE 0)
  BY <1>2, PostFacts
<1> HIDE DEF R
<1>4. UNCHANGED <<alive, providers, deleting, waiting, at, calls, added, asked, canceled>>
  BY DEF chain
<1>5. Thinned /\ InList' = InList
  BY <1>4, UnchangedList
<1>6. \A p \in deleting' :
        p \in InList' /\ waiting[p] # <<>> /\ \A s \in ToSet(waiting[p]) : s \notin held \ R
  BY <1>4, <1>5 DEF DeletingInv
<1>7. Posted(R)
  BY <1>2, <1>3, <1>4, <1>5, <1>6 DEF Posted
<1>8. OtherTyped
  BY <1>3 DEF OtherTyped, TypeOK
<1> QED BY <1>1, <1>7, <1>8, PostedKeeps

LEMMA SingleRequest ==
  ASSUME NEW r \in Loads
  PROVE  <<r>> \in Seq(Loads) /\ ToSet(<<r>>) = {r} /\ NoRepeats(<<r>>)
<1>1. <<r>> \in Seq(Loads) /\ DOMAIN <<r>> = {1} /\ <<r>>[1] = r
  OBVIOUS
<1> QED BY <1>1 DEF ToSet, NoRepeats

LEMMA ContinueKeeps ==
  ASSUME ManagerInv, NEW r \in Loads, NEW p \in Providers, NEW kind \in Kinds,
         Continue(r, p, kind)
  PROVE  ManagerInv' /\ AskedNearest
<1>1. /\ r \in held /\ Answer(<<r>>, kind)
      /\ (calling # None => at[calling] \notin Archives)
      /\ UNCHANGED <<alive, hung, chain, at, calling, handlers, archive, files, queue,
                     status, calls, added, asked, canceled>>
  BY DEF Continue, InClient, HasState, archives
<1>2. /\ archive' \in [Archives -> {"idle", "loading", "done"}]
      /\ files' \in [Archives -> SUBSET Loads] /\ queue' \in [Archives -> Seq(Loads)]
      /\ StatusMoves /\ status' \in [Loads -> Statuses]
  BY <1>1, SameStatus DEF ManagerInv, TypeOK
<1>3. <<r>> \in Seq(Loads) /\ ToSet(<<r>>) \subseteq held /\ NoRepeats(<<r>>)
  BY <1>1, SingleRequest
<1> QED BY <1>1, <1>2, <1>3, AnswerKeeps

LEMMA ArchiveOnRequestKeeps ==
  ASSUME ManagerInv, NEW r \in Loads, ArchiveOnRequest(r)
  PROVE  ManagerInv' /\ AskedNearest
<1> USE DEF ManagerInv
<1> DEFINE p == at[r]
<1>1. calling = r /\ p \in Archives /\ UNCHANGED <<alive, hung, handlers, added, canceled>>
  BY DEF ArchiveOnRequest
<1>2. r \in held
  BY <1>1, ListTyped DEF CallingInv
<1>3. CASE Declined(r)
  BY <1>1, <1>3, DeclinedKeeps
<1>4. CASE /\ archive' = [archive EXCEPT ![p] = "loading"]
           /\ queue' = [queue EXCEPT ![p] = Append(@, r)]
           /\ Accepted(r)
           /\ UNCHANGED <<files, held, tasks, answered>>
  <2>1. /\ calling' = None /\ UNCHANGED <<chain, at, calls, asked>>
        /\ StatusMoves /\ status' \in [Loads -> Statuses]
    BY <1>4, AcceptedFacts
  <2>2. UNCHANGED place
    BY <1>4, <2>1 DEF place
  <2>3. queue' \in [Archives -> Seq(Loads)]
    <3>1. queue[p] \in Seq(Loads)
      BY <1>1 DEF TypeOK
    <3>2. Append(queue[p], r) \in Seq(Loads)
      BY <3>1
    <3> HIDE DEF p
    <3> QED BY <1>1, <1>4, <3>2 DEF TypeOK
  <2>4. archive' \in [Archives -> {"idle", "loading", "done"}]
    BY <1>4 DEF TypeOK
  <2>5. OtherTyped
    BY <1>1, <1>4, <2>1, <2>3, <2>4, TasksTyped DEF OtherTyped, TypeOK
  <2> QED BY <1>1, <1>4, <2>1, <2>2, <2>5, QuietKeeps
<1>5. CASE Answer(<<r>>, "handled") /\ Accepted(r) /\ UNCHANGED archives
  <2>1. /\ calling' = None /\ UNCHANGED <<chain, at, calls, asked>>
        /\ StatusMoves /\ status' \in [Loads -> Statuses]
    BY <1>5, AcceptedFacts
  <2>2. /\ archive' \in [Archives -> {"idle", "loading", "done"}]
        /\ files' \in [Archives -> SUBSET Loads] /\ queue' \in [Archives -> Seq(Loads)]
    BY <1>5 DEF TypeOK, archives
  <2>3. <<r>> \in Seq(Loads) /\ ToSet(<<r>>) \subseteq held /\ NoRepeats(<<r>>)
    BY <1>2, SingleRequest
  <2>4. "handled" \in Kinds
    BY DEF Kinds
  <2> QED BY <1>1, <1>5, <2>1, <2>2, <2>3, <2>4, AnswerKeeps
<1> QED BY <1>3, <1>4, <1>5 DEF ArchiveOnRequest

LEMMA ArchiveLoadedKeeps ==
  ASSUME ManagerInv, NEW p \in Archives, NEW found \in SUBSET Loads, ArchiveLoaded(p, found)
  PROVE  ManagerInv' /\ AskedNearest
<1> USE DEF ManagerInv
<1> DEFINE ready == {r \in found \cap ToSet(queue[p]) : HasState(r, p)}
<1>1. /\ calling = None
      /\ archive' = [archive EXCEPT ![p] = "done"]
      /\ files' = [files EXCEPT ![p] = found]
      /\ queue' = [queue EXCEPT ![p] = <<>>]
      /\ UNCHANGED <<alive, hung, chain, at, calling, handlers, status, calls, added,
                     asked, canceled>>
  BY DEF ArchiveLoaded, Idle
<1>2. \E requests \in SetToSeqs(ready) : Answer(requests, "handled")
  BY DEF ArchiveLoaded, InOrder
<1>3. IsFiniteSet(ready) /\ ready \subseteq held /\ ready \subseteq Loads
  <2>1. IsFiniteSet(ToSet(queue[p]))
    BY ToSetFinite DEF TypeOK
  <2>2. IsFiniteSet(ready)
    BY <2>1, FS_Subset
  <2> QED BY <2>2 DEF HasState
<1> HIDE DEF ready
<1>4. PICK requests \in SetToSeqs(ready) : Answer(requests, "handled")
  BY <1>2
<1>5. requests \in Seq(ready) /\ ToSet(requests) = ready /\ NoRepeats(requests)
  BY <1>3, PermutationFacts
<1>6. requests \in Seq(Loads)
  BY <1>3, <1>5, SeqMonotonic
<1>7. /\ archive' \in [Archives -> {"idle", "loading", "done"}]
      /\ files' \in [Archives -> SUBSET Loads] /\ queue' \in [Archives -> Seq(Loads)]
  <2>1. <<>> \in Seq(Loads)
    BY EmptySeq
  <2> QED BY <1>1, <2>1 DEF TypeOK
<1>8. StatusMoves /\ status' \in [Loads -> Statuses]
  BY <1>1, SameStatus
<1>9. "handled" \in Kinds
  BY DEF Kinds
<1> QED BY <1>1, <1>3, <1>4, <1>5, <1>6, <1>7, <1>8, <1>9, AnswerKeeps

LEMMA RunTaskKeeps ==
  ASSUME ManagerInv, RunTask
  PROVE  ManagerInv' /\ AskedNearest
<1> USE DEF ManagerInv
<1> DEFINE kind == Head(tasks).kind
<1>1. /\ tasks # <<>> /\ tasks' = Tail(tasks) /\ calling = None
      /\ UNCHANGED <<alive, hung, archive, files, queue, status, added, answered, canceled>>
  BY DEF RunTask, Idle, archives
<1>9. PICK r \in Loads : r = Head(tasks).load
  BY <1>1, TailFacts
<1>2. /\ tasks' \in Seq(TaskSet)
      /\ \A s \in Loads : Cardinality(TasksOf(s)) = Cardinality(TasksOf(s)')
                            + (IF s = r THEN 1 ELSE 0)
  BY <1>1, <1>9, TailFacts
<1>3. StatusMoves /\ status' \in [Loads -> Statuses]
  BY <1>1, SameStatus
<1>4. Cardinality(TasksOf(r)) \in Nat /\ Cardinality(TasksOf(r)') \in Nat
  BY <1>2, TasksTyped, TasksTypedNext
<1>5. TasksOf(r) # {}
  <2>1. Cardinality(TasksOf(r)) = Cardinality(TasksOf(r)') + 1
    BY <1>2
  <2>2. Cardinality(TasksOf(r)) # 0
    BY <1>4, <2>1
  <2> QED BY <2>2, TasksTyped
<1>6. r \notin held /\ Cardinality(TasksOf(r)) = 1 /\ calls[r] = 0
  BY <1>2, <1>5, OneState
<1>7. CASE alive
  <2>1. handlers' = IF kind = "handled" THEN handlers \cup {r} ELSE handlers
    BY <1>7, <1>9 DEF RunTask
  <2>2. MoveOn(r) \/ StopRequest(r)
    BY <1>7, <1>9 DEF RunTask
  <2> HIDE DEF kind
  <2>3. at[r] # None
    BY <1>2, <1>5, <1>7 DEF PlaceInv
  <2>4. handlers' \subseteq Loads
    BY <1>2, <2>1 DEF TypeOK
  <2>5. OtherTyped
    BY <1>1, <1>2, <1>3, <2>4 DEF OtherTyped, TypeOK
  <2>6. PICK q \in Providers \cup {None} : Relocates(r, q)
    BY <1>2, <2>2, <2>3, MoveOnRelocates, StopRelocates
  <2> QED BY <1>1, <1>2, <1>3, <1>6, <1>7, <2>3, <2>5, <2>6, RelocateKeeps
<1>8. CASE ~alive
  <2>1. EndState(r) /\ UNCHANGED <<chain, at, held, calling, handlers, asked>>
    BY <1>8, <1>9 DEF RunTask
  <2> HIDE DEF kind
  <2>2. UNCHANGED <<providers, deleting, waiting, at, held, calling, handlers, asked>>
    BY <2>1 DEF chain
  <2>3. calls' \in [Loads -> Nat]
        /\ \A s \in Loads : calls'[s] = calls[s] + (IF s = r THEN 1 ELSE 0)
    BY <1>2, <2>1 DEF EndState, TypeOK
  <2>4. \A s \in Loads : at[s] = None
    BY <1>8 DEF PlaceInv
  <2>5. TypeOK'
    BY <1>1, <1>2, <2>2, <2>3 DEF TypeOK, TaskSet, Kinds
  <2>6. ListInv' /\ CallingInv' /\ DeletingInv' /\ AskedInv'
    BY <1>1, <2>2 DEF ListInv, CallingInv, DeletingInv, AskedInv, Before, InList
  <2>7. PlaceInv'
    BY <1>1, <1>8, <2>2, <2>4 DEF PlaceInv, InList
  <2>8. CallbackRunsOnce'
    <3>1. ASSUME NEW s \in Loads
          PROVE  (IF s \in held' THEN 1 ELSE 0) + Cardinality(TasksOf(s)') + calls'[s]
                   = (IF asked'[s] # {} THEN 1 ELSE 0)
      <4>1. (IF s \in held THEN 1 ELSE 0) + Cardinality(TasksOf(s)) + calls[s]
              = (IF asked[s] # {} THEN 1 ELSE 0)
        BY DEF CallbackRunsOnce, Begun
      <4>2. calls[s] \in Nat /\ Cardinality(TasksOf(s)') \in Nat
        BY <1>2, TasksTypedNext DEF TypeOK
      <4>3. Cardinality(TasksOf(s)) = Cardinality(TasksOf(s)') + (IF s = r THEN 1 ELSE 0)
            /\ calls'[s] = calls[s] + (IF s = r THEN 1 ELSE 0)
        BY <1>2, <2>3
      <4>4. (s \in held' <=> s \in held) /\ asked'[s] = asked[s]
        BY <2>2
      <4>5. Cardinality(TasksOf(s)) + calls[s] = Cardinality(TasksOf(s)') + calls'[s]
            /\ calls'[s] \in Nat /\ Cardinality(TasksOf(s)) \in Nat
        BY <4>2, <4>3
      <4> DEFINE n == Cardinality(TasksOf(s))
      <4>6. CASE s \in held
        <5>1. 1 + n + calls[s] = (IF asked[s] # {} THEN 1 ELSE 0)
          BY <4>1, <4>6
        <5>2. 1 + Cardinality(TasksOf(s)') + calls'[s] = 1 + n + calls[s]
          BY <4>2, <4>5
        <5> QED BY <4>4, <4>6, <5>1, <5>2
      <4>7. CASE s \notin held
        <5>1. 0 + n + calls[s] = (IF asked[s] # {} THEN 1 ELSE 0)
          BY <4>1, <4>7
        <5>2. 0 + Cardinality(TasksOf(s)') + calls'[s] = 0 + n + calls[s]
          BY <4>2, <4>5
        <5> QED BY <4>4, <4>7, <5>1, <5>2
      <4> QED BY <4>6, <4>7
    <3> QED BY <3>1 DEF CallbackRunsOnce, Begun
  <2>9. AnswerInv'
    BY <1>1, <2>2 DEF AnswerInv, HasState, CanceledIsUnanswered
  <2>10. AskedNearest
    BY <2>2 DEF AskedNearest
  <2> QED BY <2>5, <2>6, <2>7, <2>8, <2>9, <2>10
<1> QED BY <1>7, <1>8

LEMMA ResourceHandlerKeeps ==
  ASSUME ManagerInv, NEW r \in Loads, GetResourceHandler(r)
  PROVE  ManagerInv' /\ AskedNearest
<1> USE DEF ManagerInv
<1>1. /\ calling = None /\ handlers' = handlers \ {r}
      /\ UNCHANGED <<alive, hung, chain, place, calling, archive, files, queue, status, calls,
                     added, asked, answered, canceled>>
  BY DEF GetResourceHandler, Idle, archives, history
<1>2. UNCHANGED tasks
  BY <1>1 DEF place
<1>3. OtherTyped /\ StatusMoves
  BY <1>1, <1>2, SameStatus, TasksTyped DEF OtherTyped, TypeOK
<1> QED BY <1>1, <1>3, QuietKeeps

LEMMA ManagerStep == ManagerInv /\ [Next]_vars => ManagerInv' /\ [AskedNearest]_vars
<1> SUFFICES ASSUME ManagerInv, [Next]_vars
             PROVE  ManagerInv' /\ [AskedNearest]_vars
  OBVIOUS
<1>1. CASE UNCHANGED vars
  <2>1. UNCHANGED <<alive, hung, providers, added, deleting, waiting, at, held, calling, tasks,
                    handlers, archive, files, queue, status, calls, asked, answered, canceled>>
    BY <1>1 DEF vars, chain, place, archives, history
  <2>2. TypeOK'
    BY <2>1 DEF ManagerInv, TypeOK
  <2>3. ListInv' /\ PlaceInv' /\ CallingInv' /\ DeletingInv'
    BY <2>1 DEF ManagerInv, ListInv, PlaceInv, CallingInv, DeletingInv, InList, Before, TasksOf
  <2>4. CallbackRunsOnce'
    BY <2>1 DEF ManagerInv, CallbackRunsOnce, TasksOf, Begun
  <2>5. AskedInv' /\ AnswerInv'
    BY <2>1 DEF ManagerInv, AskedInv, AnswerInv, CanceledIsUnanswered, HasState, Before
  <2>6. ManagerInv'
    BY <2>2, <2>3, <2>4, <2>5 DEF ManagerInv
  <2> QED BY <1>1, <2>6
<1>2. CASE Next
  <2>1. \A p \in Providers : AddProvider(p) => ManagerInv' /\ AskedNearest
    BY AddProviderKeeps
  <2>2. (\E p \in Providers : RemoveProviders(Identifier[p])) \/ RemoveAllProviders
          => ManagerInv' /\ AskedNearest
    BY RemovalKeeps
  <2>3. Destroy => ManagerInv' /\ AskedNearest
    BY DestroyKeeps
  <2>4. ASSUME NEW r \in Loads
        PROVE  /\ OnBeforeResourceLoad(r) => ManagerInv' /\ AskedNearest
               /\ \A handles \in BOOLEAN :
                    OnRequestReturns(r, handles) => ManagerInv' /\ AskedNearest
               /\ \A p \in Providers, kind \in Kinds :
                    Continue(r, p, kind) => ManagerInv' /\ AskedNearest
               /\ ArchiveOnRequest(r) => ManagerInv' /\ AskedNearest
               /\ GetResourceHandler(r) => ManagerInv' /\ AskedNearest
    BY BeforeResourceLoadKeeps, RequestReturnsKeeps, ContinueKeeps, ArchiveOnRequestKeeps,
       ResourceHandlerKeeps
  <2>5. \A p \in Archives, found \in SUBSET Loads :
          ArchiveLoaded(p, found) => ManagerInv' /\ AskedNearest
    BY ArchiveLoadedKeeps
  <2>6. RunTask => ManagerInv' /\ AskedNearest
    BY RunTaskKeeps
  <2>7. ManagerInv' /\ AskedNearest
    BY <1>2, <2>1, <2>2, <2>3, <2>4, <2>5, <2>6 DEF Next, Kinds
  <2> QED BY <2>7
<1> QED BY <1>1, <1>2

-----------------------------------------------------------------------------
(* What the invariant says.                                                *)

LEMMA IteratorsFollow == ManagerInv => IteratorsAreValid
<1> SUFFICES ASSUME ManagerInv PROVE IteratorsAreValid
  OBVIOUS
<1>1. \A p \in Providers : Len(waiting[p]) = Cardinality(ToSet(waiting[p]))
  BY NoRepeatsCount DEF ManagerInv, TypeOK, PlaceInv
<1> QED BY <1>1 DEF ManagerInv, IteratorsAreValid, PlaceInv, CallingInv

LEMMA RemovedFollow == ManagerInv => RemovedProviderIsLeaving
<1> SUFFICES ASSUME ManagerInv, NEW p \in deleting
             PROVE  /\ p \in InList /\ waiting[p] # <<>>
                    /\ \A r \in ToSet(waiting[p]) : r \notin held /\ TasksOf(r) # {}
  BY DEF RemovedProviderIsLeaving
<1>1. /\ p \in InList /\ waiting[p] # <<>>
      /\ \A r \in ToSet(waiting[p]) : r \notin held
  BY DEF ManagerInv, DeletingInv
<1>2. p \in Providers /\ p # None
  BY <1>1, ListTyped DEF ManagerInv
<1>3. \A r \in ToSet(waiting[p]) : r \in Loads /\ at[r] = p
  BY <1>2 DEF ManagerInv, PlaceInv
<1>4. \A r \in ToSet(waiting[p]) : TasksOf(r) # {}
  BY <1>1, <1>2, <1>3 DEF ManagerInv, PlaceInv
<1> QED BY <1>1, <1>4

\* The inductive invariant holds in every state the manager reaches.
THEOREM ManagerInvariant == Spec => []ManagerInv
<1>1. ManagerInv /\ [Next]_vars => ManagerInv'
  BY ManagerStep
<1> QED BY ManagerInit, <1>1, PTL DEF Spec

\* Every variable of the manager, its providers and its loads holds a value of
\* its type, whatever providers and loads there are: cef_resource_manager.cc
\* never puts None where a provider or a load is expected, in the list of
\* providers or among the pending requests of an entry.
THEOREM ManagerTypeCorrect == Spec => []TypeOK
<1>1. ManagerInv => TypeOK
  BY DEF ManagerInv
<1> QED BY <1>1, ManagerInvariant, PTL

\* The state of a load that was shown to a provider is in one place or was
\* destroyed once, so CEF's callback runs at most once, however Continue, Stop,
\* RemoveProviders, RemoveAllProviders and the destructor are mixed.
THEOREM LoadsCallBackOnce == Spec => []CallbackRunsOnce
<1>1. ManagerInv => CallbackRunsOnce
  BY DEF ManagerInv
<1> QED BY <1>1, ManagerInvariant, PTL

\* current_entry_pos_ and current_request_pos_ of a state point into the lists
\* as long as the state has them: no entry is erased while a request is at it.
THEOREM IteratorsStayValid == Spec => []IteratorsAreValid
BY IteratorsFollow, ManagerInvariant, PTL

\* An entry whose deletion is pending still has requests, and for every one of
\* them a task is posted that takes it away: the entry is not left behind.
THEOREM RemovedProvidersLeave == Spec => []RemovedProviderIsLeaving
BY RemovedFollow, ManagerInvariant, PTL

\* OnRequestCanceled is not called for a Request on which Continue or Stop took
\* effect, and neither has an effect on a Request that was canceled.
THEOREM CanceledAreUnanswered == Spec => []CanceledIsUnanswered
<1>1. ManagerInv => CanceledIsUnanswered
  BY DEF ManagerInv, AnswerInv
<1> QED BY <1>1, ManagerInvariant, PTL

\* A load is shown to a provider only after all those before it in the order
\* of AddProvider, and to the nearest one that has not been removed, although
\* providers come and go while the load waits at one of them.
THEOREM ProvidersAskedInOrder == Spec => AskedInOrder
<1>1. ManagerInv /\ [Next]_vars =>
        [\A r \in Loads : \A q \in asked'[r] \ asked[r] : Nearest(r, q)]_vars
  BY ManagerStep DEF AskedNearest
<1> QED BY <1>1, ManagerInvariant, PTL DEF Spec, AskedInOrder
=============================================================================
