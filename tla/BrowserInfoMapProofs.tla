------------------------- MODULE BrowserInfoMapProofs -------------------------
(***************************************************************************)
(* Proofs about BrowserInfoMap, for any sets of ids: the map holds no      *)
(* empty inner map, FindAll visits each key once, and the map of maps      *)
(* implements a set of keys.                                               *)
(***************************************************************************)
EXTENDS BrowserInfoMap, WellFoundedInduction, TLAPS

\* A set of ids has a lowest member, so the iterators are well defined.
LEMMA LowestIsLowest ==
  ASSUME NEW S, S \subseteq Nat, S # {}
  PROVE  Lowest(S) \in S /\ \A y \in S : Lowest(S) <= y
<1> DEFINE R == OpToRel(<, Nat)
<1>1. IsWellFoundedOn(R, Nat)
  BY NatLessThanWellFounded, Zenon
<1>2. PICK x \in S : \A y \in S : ~ (<<y, x>> \in R)
  <2> HIDE DEF R
  <2> QED BY <1>1, WFMin, Zenon
<1>3. \A y \in S : x <= y
  <2> TAKE y \in S
  <2>1. <<y, x>> \notin R
    BY <1>2
  <2>2. y \in Nat /\ x \in Nat
    OBVIOUS
  <2>3. <<y, x>> \in Nat \X Nat
    BY <2>2
  <2>4. ~(y < x)
    BY <2>1, <2>3 DEF OpToRel
  <2> HIDE DEF R
  <2> QED BY <2>2, <2>4
<1> HIDE DEF R
<1> QED BY <1>3, Zenon DEF Lowest

\* A loop that is not idle is visiting a key, in one of the two scopes.
LEMMA LoopShape ==
  ASSUME TypeOK, loop # Idle
  PROVE  \E s \in Scopes, b \in Browsers, i \in Ids :
           /\ loop = Visiting(s, b, i)
           /\ loop.scope = s /\ loop.key = <<b, i>>
           /\ loop.key[1] = b /\ loop.key[2] = i
BY DEF TypeOK, Loops, Visiting

LEMMA VisitingIsNotIdle ==
  ASSUME NEW s, NEW b, NEW i
  PROVE  /\ Visiting(s, b, i) # Idle
         /\ Visiting(s, b, i).key = <<b, i>> /\ Visiting(s, b, i).scope = s
BY DEF Visiting, Idle

\* What replacing one inner map does to the whole.
LEMMA WithInnerFacts ==
  ASSUME TypeOK, NEW b \in Browsers, NEW S \in SUBSET Ids, infos' = WithInner(b, S)
  PROVE  /\ DOMAIN infos' \subseteq Browsers
         /\ \A c \in DOMAIN infos' : infos'[c] \subseteq Ids
         /\ NoEmptyInnerMap!1 => \A c \in DOMAIN infos' : infos'[c] # {}
         /\ b \in DOMAIN infos' <=> S # {}
         /\ S # {} => infos'[b] = S
         /\ \A c \in Browsers \ {b} :
              /\ c \in DOMAIN infos' <=> c \in DOMAIN infos
              /\ c \in DOMAIN infos => infos'[c] = infos[c]
         /\ Keys' = {k \in Keys : k[1] # b} \cup ({b} \X S)
<1>1. DOMAIN infos' = (DOMAIN infos \cup {b}) \ (IF S = {} THEN {b} ELSE {})
  BY DEF WithInner
<1>2. \A c \in DOMAIN infos' : infos'[c] = IF c = b THEN S ELSE infos[c]
  BY DEF WithInner
<1>3. DOMAIN infos \subseteq Browsers /\ \A c \in DOMAIN infos : infos[c] \subseteq Ids
  BY DEF TypeOK
<1>4. b \in DOMAIN infos' <=> S # {}
  BY <1>1
<1>5. \A c \in Browsers \ {b} :
        /\ c \in DOMAIN infos' <=> c \in DOMAIN infos
        /\ c \in DOMAIN infos => infos'[c] = infos[c]
  BY <1>1, <1>2
<1>6. Keys' = {k \in Keys : k[1] # b} \cup ({b} \X S)
  BY <1>2, <1>4, <1>5 DEF Keys
<1> QED BY <1>1, <1>2, <1>3, <1>4, <1>5, <1>6 DEF NoEmptyInnerMap

-----------------------------------------------------------------------------
(* The inductive invariant.                                                *)

\* The order in which the iterators pass over the keys.
Before(k, l) == k[1] < l[1] \/ (k[1] = l[1] /\ k[2] < l[2])

\* While a loop is under way: it is in its scope, everything it has visited
\* lies behind it, and of the keys that stayed it has left none behind.
LoopInv ==
  /\ ~again
  /\ stayed \subseteq Keys
  /\ loop = Idle /\ complete => stayed \subseteq visited
  /\ loop # Idle =>
       /\ loop.key[1] \in loop.scope
       /\ \A k \in visited : k = loop.key \/ Before(k, loop.key)
       /\ \A k \in stayed : k[1] \in loop.scope
       /\ \A k \in stayed : k \in visited \/ Before(loop.key, k)

IInv == TypeOK /\ NoEmptyInnerMap /\ LoopInv

LEMMA KeyIsPair ==
  ASSUME NEW k \in Browsers \X Ids
  PROVE  /\ k[1] \in Browsers /\ k[2] \in Ids /\ k[1] \in Nat /\ k[2] \in Nat
         /\ k = <<k[1], k[2]>>
<1>1. PICK x \in Browsers, y \in Ids : k = <<x, y>>
  OBVIOUS
<1>2. k[1] = x /\ k[2] = y
  BY <1>1
<1> QED BY <1>1, <1>2, InfoMapAssumption

LEMMA KeyOrder ==
  ASSUME NEW k \in Browsers \X Ids, NEW l \in Browsers \X Ids
  PROVE  /\ k = <<k[1], k[2]>> /\ k[1] \in Nat /\ k[2] \in Nat
         /\ ~Before(k, k)
         /\ Before(k, l) \/ k = l \/ Before(l, k)
         /\ \A m \in Browsers \X Ids : Before(k, l) /\ Before(l, m) => Before(k, m)
<1>1. /\ k[1] \in Nat /\ k[2] \in Nat /\ k = <<k[1], k[2]>>
      /\ l[1] \in Nat /\ l[2] \in Nat /\ l = <<l[1], l[2]>>
  BY KeyIsPair, Zenon
<1>2. ~Before(k, k)
  BY <1>1 DEF Before
<1>3. Before(k, l) \/ k = l \/ Before(l, k)
  BY <1>1 DEF Before
<1>4. ASSUME NEW m \in Browsers \X Ids, Before(k, l), Before(l, m)
      PROVE  Before(k, m)
  <2>1. m[1] \in Nat /\ m[2] \in Nat
    BY KeyIsPair
  <2> QED BY <1>1, <1>4, <2>1 DEF Before
<1> QED BY <1>1, <1>2, <1>3, <1>4

\* The key After names is in the map and the scope, and the next one there:
\* no key of the scope is passed over.
LEMMA AfterIsNext ==
  ASSUME TypeOK, NoEmptyInnerMap, loop # Idle, loop.key[1] \in loop.scope
  PROVE  /\ \A k \in After(loop.key, infos) :
              /\ k \in Keys /\ k[1] \in loop.scope /\ Before(loop.key, k)
              /\ \A l \in Keys : l[1] \in loop.scope /\ Before(loop.key, l) => ~Before(l, k)
         /\ After(loop.key, infos) = {} =>
              \A l \in Keys : l[1] \in loop.scope => ~Before(loop.key, l)
<1> DEFINE b == loop.key[1]
           ids == {i \in infos[b] : i > loop.key[2]}
           later == {c \in loop.scope \cap DOMAIN infos : c > b}
<1>1. /\ loop.key \in Keys /\ b \in Nat /\ loop.key[2] \in Nat
      /\ b \in DOMAIN infos
  BY LoopShape, InfoMapAssumption DEF NoEmptyInnerMap, Keys
<1>2. /\ DOMAIN infos \subseteq Nat /\ \A c \in DOMAIN infos : infos[c] \subseteq Nat
      /\ \A c \in DOMAIN infos : infos[c] # {}
      /\ \A l \in Keys : l[1] \in DOMAIN infos /\ l[2] \in infos[l[1]] /\ l = <<l[1], l[2]>>
      /\ \A c \in DOMAIN infos : \A i \in infos[c] : <<c, i>> \in Keys
  <2>1. DOMAIN infos \subseteq Browsers /\ \A c \in DOMAIN infos : infos[c] \subseteq Ids
    BY DEF TypeOK
  <2>2. \A c \in DOMAIN infos : infos[c] # {}
    BY DEF NoEmptyInnerMap
  <2>3. ASSUME NEW l \in Keys
        PROVE  l[1] \in DOMAIN infos /\ l[2] \in infos[l[1]] /\ l = <<l[1], l[2]>>
    <3>1. l \in Browsers \X Ids
      BY DEF Keys
    <3> QED BY <3>1, KeyIsPair DEF Keys
  <2>4. ASSUME NEW c \in DOMAIN infos, NEW i \in infos[c]
        PROVE  <<c, i>> \in Keys
    BY <2>1 DEF Keys
  <2> QED BY <2>1, <2>2, <2>3, <2>4, InfoMapAssumption
<1>3. ids \subseteq Nat /\ later \subseteq Nat
  BY <1>1, <1>2
<1>4. CASE ids # {}
  <2>1. After(loop.key, infos) = {<<b, Lowest(ids)>>}
    BY <1>4 DEF After
  <2>2. Lowest(ids) \in ids /\ \A y \in ids : Lowest(ids) <= y
    BY <1>3, <1>4, LowestIsLowest
  <2> DEFINE n == Lowest(ids)
             k == <<b, n>>
  <2> HIDE DEF n
  <2>3. n \in infos[b] /\ n > loop.key[2] /\ n \in Nat
    BY <2>2, <1>3 DEF n
  <2>4. k \in Keys /\ b \in loop.scope /\ Before(loop.key, k)
    BY <2>3, <1>1, <1>2 DEF Before
  <2>5. ASSUME NEW l \in Keys, Before(loop.key, l), Before(l, k)
        PROVE  FALSE
    <3>1. l[1] \in Nat /\ l[2] \in Nat
      BY <1>2
    <3>2. l[1] = b
      BY <2>5, <3>1, <1>1 DEF Before
    <3>3. l[2] > loop.key[2] /\ l[2] < n
      BY <2>5, <3>1, <3>2, <1>1, <2>3 DEF Before
    <3>4. l[2] \in ids
      BY <3>2, <3>3, <1>2
    <3> QED BY <3>1, <3>3, <3>4, <2>2, <2>3 DEF n
  <2> QED BY <2>1, <2>4, <2>5 DEF n
<1>5. CASE ids = {} /\ later # {}
  <2> DEFINE c == Lowest(later)
             n == Lowest(infos[c])
             k == <<c, n>>
  <2>1. After(loop.key, infos) = {k}
    BY <1>5 DEF After
  <2>2. c \in later /\ \A y \in later : c <= y
    BY <1>3, <1>5, LowestIsLowest
  <2>3. n \in infos[c] /\ \A y \in infos[c] : n <= y
    BY <2>2, <1>2, LowestIsLowest
  <2> HIDE DEF c, n
  <2>4. k \in Keys /\ c \in loop.scope /\ Before(loop.key, k) /\ c \in Nat /\ n \in Nat
    BY <2>2, <2>3, <1>2 DEF Before
  <2>5. ASSUME NEW l \in Keys, l[1] \in loop.scope, Before(loop.key, l), Before(l, k)
        PROVE  FALSE
    <3>1. l[1] \in Nat /\ l[2] \in Nat
      BY <1>2
    <3>2. CASE l[1] = b
      <4>1. l[2] \in ids
        BY <3>2, <2>5, <3>1, <1>1, <1>2 DEF Before
      <4> QED BY <4>1, <1>5
    <3>3. CASE l[1] # b
      <4>1. l[1] \in later
        BY <3>3, <2>5, <3>1, <1>1, <1>2 DEF Before
      <4>2. l[1] = c /\ l[2] < n
        BY <4>1, <2>2, <2>4, <2>5, <3>1 DEF Before
      <4> QED BY <4>2, <2>3, <2>4, <3>1, <1>2
    <3> QED BY <3>2, <3>3
  <2> QED BY <2>1, <2>4, <2>5
<1>6. CASE ids = {} /\ later = {}
  <2>1. After(loop.key, infos) = {}
    BY <1>6 DEF After
  <2>2. ASSUME NEW l \in Keys, l[1] \in loop.scope, Before(loop.key, l)
        PROVE  FALSE
    <3>1. l[2] \in ids \/ l[1] \in later
      BY <2>2, <1>1, <1>2 DEF Before
    <3> QED BY <3>1, <1>6
  <2> QED BY <2>1, <2>2
<1> QED BY <1>4, <1>5, <1>6

-----------------------------------------------------------------------------
(* The invariant is preserved: one step per action.                        *)

LEMMA InitHolds == Init => IInv
<1> SUFFICES ASSUME Init PROVE IInv
  OBVIOUS
<1>1. DOMAIN infos = {} /\ loop = Idle /\ visited = {} /\ again = FALSE
      /\ stayed = {} /\ complete = FALSE
  BY DEF Init
<1>2. TypeOK
  <2>1. loop \in Loops
    BY <1>1 DEF Loops
  <2>2. DOMAIN infos \subseteq Browsers /\ \A b \in DOMAIN infos : infos[b] \subseteq Ids
    BY <1>1
  <2> QED BY <1>1, <2>1, <2>2, Zenon DEF TypeOK
<1>3. NoEmptyInnerMap
  BY <1>1 DEF NoEmptyInnerMap
<1>4. LoopInv
  BY <1>1 DEF LoopInv
<1> QED BY <1>2, <1>3, <1>4 DEF IInv

\* Taking keys other than the loop's own out of the map, or putting keys in,
\* leaves the loop where it was.
LEMMA OutsideTheLoop ==
  ASSUME IInv, UNCHANGED <<loop, looped>>,
         DOMAIN infos' \subseteq Browsers,
         \A c \in DOMAIN infos' : infos'[c] \subseteq Ids /\ infos'[c] # {},
         loop # Idle => loop.key \in Keys',
         stayed' \subseteq stayed, stayed' \subseteq Keys'
  PROVE  IInv'
<1>1. TypeOK'
  BY DEF IInv, TypeOK, looped
<1>2. NoEmptyInnerMap'
  BY DEF NoEmptyInnerMap
<1>3. LoopInv'
  BY DEF IInv, LoopInv, looped, Before
<1> QED BY <1>1, <1>2, <1>3 DEF IInv

LEMMA AddPreserves ==
  ASSUME IInv, NEW b \in Browsers, NEW i \in Ids, Add(b, i)
  PROVE  IInv' /\ Keys' = Keys \cup {<<b, i>>}
<1> DEFINE S == (IF b \in DOMAIN infos THEN infos[b] ELSE {}) \cup {i}
<1>1. S \in SUBSET Ids /\ S # {} /\ infos' = WithInner(b, S) /\ TypeOK
  BY DEF IInv, TypeOK, Add
<1> HIDE DEF S
<1>2. Keys' = {k \in Keys : k[1] # b} \cup ({b} \X S)
  BY <1>1, WithInnerFacts
<1>3. Keys' = Keys \cup {<<b, i>>}
  <2>1. \A k \in Keys : k[1] = b => k \in {b} \X S
    <3> TAKE k \in Keys
    <3>1. k = <<k[1], k[2]>>
      BY KeyIsPair DEF Keys
    <3> QED BY <3>1 DEF Keys, S
  <2>2. \A j \in S : <<b, j>> \in Keys \cup {<<b, i>>}
    BY DEF Keys, S, IInv, TypeOK
  <2>3. <<b, i>> \in {b} \X S
    BY DEF S
  <2> QED BY <1>2, <2>1, <2>2, <2>3
<1>4. IInv'
  <2>1. DOMAIN infos' \subseteq Browsers
    BY <1>1, WithInnerFacts
  <2>2. \A c \in DOMAIN infos' : infos'[c] \subseteq Ids /\ infos'[c] # {}
    BY <1>1, WithInnerFacts DEF IInv, NoEmptyInnerMap
  <2>3. loop # Idle => loop.key \in Keys'
    BY <1>3 DEF IInv, NoEmptyInnerMap
  <2>4. stayed' \subseteq stayed /\ stayed' \subseteq Keys'
    BY <1>3 DEF Add, IInv, LoopInv
  <2> QED BY <2>1, <2>2, <2>3, <2>4, OutsideTheLoop DEF Add
<1> QED BY <1>3, <1>4

\* Taking one key out of the inner map it is in.
LEMMA WithoutKey ==
  ASSUME TypeOK, NEW b \in DOMAIN infos, NEW i \in infos[b],
         infos' = WithInner(b, infos[b] \ {i})
  PROVE  Keys' = Keys \ {<<b, i>>}
<1>1. b \in Browsers /\ infos[b] \ {i} \in SUBSET Ids
  BY DEF TypeOK
<1>2. Keys' = {k \in Keys : k[1] # b} \cup ({b} \X (infos[b] \ {i}))
  BY <1>1, WithInnerFacts
<1>3. \A k \in Keys : k = <<k[1], k[2]>> /\ (k[1] = b => k[2] \in infos[b])
  BY KeyIsPair DEF Keys
<1>4. \A j \in infos[b] : <<b, j>> \in Keys
  BY <1>1 DEF Keys, TypeOK
<1> QED BY <1>2, <1>3, <1>4

LEMMA FindAndRemovePreserves ==
  ASSUME IInv, NEW b \in Browsers, NEW i \in Ids, FindAndRemove(b, i)
  PROVE  IInv' /\ Keys' = Keys \ {<<b, i>>}
<1> DEFINE S == infos[b] \ {i}
<1>1. /\ S \in SUBSET Ids /\ infos' = WithInner(b, S) /\ TypeOK
      /\ b \in DOMAIN infos /\ i \in infos[b]
  BY DEF IInv, TypeOK, FindAndRemove
<1>2. Keys' = Keys \ {<<b, i>>}
  BY <1>1, WithoutKey
<1> HIDE DEF S
<1>3. DOMAIN infos' \subseteq Browsers
  BY <1>1, WithInnerFacts
<1>4. \A c \in DOMAIN infos' : infos'[c] \subseteq Ids /\ infos'[c] # {}
  BY <1>1, WithInnerFacts DEF IInv, NoEmptyInnerMap
<1>5. loop # Idle => loop.key \in Keys'
  BY <1>2 DEF IInv, NoEmptyInnerMap, FindAndRemove, Free
<1>6. stayed' \subseteq stayed /\ stayed' \subseteq Keys'
  BY <1>2 DEF FindAndRemove, IInv, LoopInv
<1>7. IInv'
  BY <1>3, <1>4, <1>5, <1>6, OutsideTheLoop DEF FindAndRemove
<1> QED BY <1>2, <1>7

LEMMA ClearPreserves ==
  ASSUME IInv, Clear
  PROVE  IInv' /\ Keys' = {}
<1>1. DOMAIN infos' = {} /\ Keys' = {}
  BY DEF Clear, Keys
<1> QED BY <1>1, OutsideTheLoop DEF Clear

LEMMA ClearBrowserPreserves ==
  ASSUME IInv, NEW b \in Browsers, ClearBrowser(b)
  PROVE  IInv' /\ Keys' = {k \in Keys : k[1] # b}
<1>1. infos' = WithInner(b, {}) /\ TypeOK /\ {} \in SUBSET Ids
  BY DEF ClearBrowser, IInv
<1>2. Keys' = {k \in Keys : k[1] # b} \cup ({b} \X {})
  BY <1>1, WithInnerFacts
<1>3. DOMAIN infos' \subseteq Browsers
  BY <1>1, WithInnerFacts
<1>4. \A c \in DOMAIN infos' : infos'[c] \subseteq Ids /\ infos'[c] # {}
  BY <1>1, WithInnerFacts DEF IInv, NoEmptyInnerMap
<1>5. stayed' \subseteq stayed /\ stayed' \subseteq Keys'
  BY <1>2 DEF ClearBrowser, IInv, LoopInv
<1>6. IInv'
  BY <1>3, <1>4, <1>5, OutsideTheLoop DEF ClearBrowser
<1> QED BY <1>2, <1>6

LEMMA FindAllPreserves ==
  ASSUME IInv, NEW scope \in Scopes, FindAll(scope)
  PROVE  IInv' /\ Keys' = Keys
<1> DEFINE found == scope \cap DOMAIN infos
           b == Lowest(found)
           i == Lowest(infos[b])
<1>1. /\ found # {} /\ loop = Idle /\ loop' = Visiting(scope, b, i)
      /\ visited' = {loop'.key} /\ again' = FALSE
      /\ stayed' = {k \in Keys : k[1] \in scope}
      /\ infos' = infos /\ complete' = complete
  BY DEF FindAll
<1>2. /\ DOMAIN infos \subseteq Browsers /\ DOMAIN infos \subseteq Nat
      /\ \A c \in DOMAIN infos : infos[c] \subseteq Ids /\ infos[c] \subseteq Nat
                                 /\ infos[c] # {}
  BY InfoMapAssumption DEF IInv, TypeOK, NoEmptyInnerMap
<1>3. b \in found /\ \A y \in found : b <= y
  BY <1>1, <1>2, LowestIsLowest
<1>4. i \in infos[b] /\ \A y \in infos[b] : i <= y
  BY <1>2, <1>3, LowestIsLowest
<1>5. Keys' = Keys
  BY <1>1 DEF Keys
<1> HIDE DEF b, i
<1>6. /\ loop' # Idle /\ loop'.key = <<b, i>> /\ loop'.scope = scope
      /\ loop'.key[1] = b /\ loop'.key[2] = i
  BY <1>1, VisitingIsNotIdle
<1>7. b \in Browsers /\ i \in Ids /\ b \in scope /\ b \in DOMAIN infos /\ b \in Nat /\ i \in Nat
  BY <1>2, <1>3, <1>4
<1>8. <<b, i>> \in Keys
  BY <1>4, <1>7 DEF Keys
<1>9. TypeOK'
  <2>1. loop' \in Loops'
    BY <1>1, <1>7 DEF Loops
  <2>2. visited' \subseteq Browsers \X Ids /\ stayed' \subseteq Browsers \X Ids
    BY <1>1, <1>6, <1>8 DEF Keys
  <2> QED BY <2>1, <2>2, <1>1, <1>2 DEF TypeOK, IInv
<1>10. NoEmptyInnerMap'
  BY <1>1, <1>2, <1>5, <1>6, <1>8 DEF NoEmptyInnerMap
<1>11. \A k \in stayed' : k \in visited' \/ Before(loop'.key, k)
  <2> TAKE k \in stayed'
  <2>1. /\ k \in Browsers \X Ids /\ k[1] \in found /\ k[2] \in infos[k[1]]
        /\ k = <<k[1], k[2]>> /\ k[1] \in Nat /\ k[2] \in Nat
    BY <1>1, KeyIsPair DEF Keys
  <2>2. b <= k[1] /\ (k[1] = b => i <= k[2])
    BY <2>1, <1>3, <1>4
  <2> QED BY <2>1, <2>2, <1>1, <1>6, <1>7 DEF Before
<1>12. LoopInv'
  BY <1>1, <1>5, <1>6, <1>7, <1>11 DEF LoopInv
<1> QED BY <1>5, <1>9, <1>10, <1>12 DEF IInv

LEMMA VisitorReturnsPreserves ==
  ASSUME IInv, NEW remove \in BOOLEAN, NEW keepgoing \in BOOLEAN,
         VisitorReturns(remove, keepgoing)
  PROVE  IInv' /\ Keys' = (IF remove THEN Keys \ {loop.key} ELSE Keys)
<1> DEFINE b == loop.key[1]
           i == loop.key[2]
           S == IF remove THEN infos[b] \ {i} ELSE infos[b]
           next == After(loop.key, infos)
<1>1. /\ loop # Idle /\ infos' = WithInner(b, S)
      /\ stayed' = IF remove THEN stayed \ {loop.key} ELSE stayed
      /\ IF keepgoing /\ next # {}
         THEN \E k \in next :
                /\ loop' = Visiting(loop.scope, k[1], k[2])
                /\ visited' = visited \cup {k} /\ again' = (again \/ k \in visited)
                /\ complete' = complete
         ELSE loop' = Idle /\ complete' = keepgoing /\ visited' = visited /\ again' = again
  BY DEF VisitorReturns
<1>2. TypeOK /\ NoEmptyInnerMap /\ LoopInv
  BY DEF IInv
<1>3. /\ b \in Browsers /\ i \in Ids /\ loop.key = <<b, i>> /\ loop.key \in Browsers \X Ids
      /\ loop.scope \in Scopes /\ loop.key \in Keys /\ b \in DOMAIN infos /\ i \in infos[b]
      /\ b \in loop.scope
  BY <1>1, <1>2, LoopShape DEF NoEmptyInnerMap, Keys, LoopInv
<1>4. S \in SUBSET Ids
  BY <1>2, <1>3 DEF TypeOK
<1>5. Keys' = IF remove THEN Keys \ {loop.key} ELSE Keys
  <2>1. CASE remove
    BY <2>1, <1>1, <1>2, <1>3, WithoutKey
  <2>2. CASE ~remove
    <3>1. S = infos[b] /\ infos[b] \in SUBSET Ids
      BY <2>2, <1>2, <1>3 DEF TypeOK
    <3>2. Keys' = {k \in Keys : k[1] # b} \cup ({b} \X infos[b])
      BY <3>1, <1>1, <1>2, <1>3, WithInnerFacts
    <3>3. \A k \in Keys : k = <<k[1], k[2]>> /\ (k[1] = b => k[2] \in infos[b])
      BY KeyIsPair DEF Keys
    <3>4. \A j \in infos[b] : <<b, j>> \in Keys
      BY <3>1, <1>3 DEF Keys
    <3> QED BY <3>2, <3>3, <3>4, <2>2
  <2> QED BY <2>1, <2>2
<1> HIDE DEF S
<1>6. DOMAIN infos' \subseteq Browsers
  BY <1>1, <1>2, <1>3, <1>4, WithInnerFacts
<1>7. \A c \in DOMAIN infos' : infos'[c] \subseteq Ids /\ infos'[c] # {}
  BY <1>1, <1>2, <1>3, <1>4, WithInnerFacts DEF NoEmptyInnerMap
<1>8. stayed' \subseteq stayed /\ stayed' \subseteq Keys'
  BY <1>1, <1>2, <1>5 DEF LoopInv
<1>9. stayed \subseteq Keys /\ Keys \subseteq Browsers \X Ids /\ visited \subseteq Browsers \X Ids
  BY <1>2 DEF LoopInv, Keys, TypeOK
<1>10. CASE keepgoing /\ next # {}
  <2>1. PICK k \in next :
          /\ loop' = Visiting(loop.scope, k[1], k[2])
          /\ visited' = visited \cup {k} /\ again' = (again \/ k \in visited)
          /\ complete' = complete
    BY <1>1, <1>10
  <2>2. /\ k \in Keys /\ k[1] \in loop.scope /\ Before(loop.key, k)
        /\ \A l \in Keys : l[1] \in loop.scope /\ Before(loop.key, l) => ~Before(l, k)
    BY <1>1, <1>2, <1>3, AfterIsNext
  <2>3. k \in Browsers \X Ids /\ k[1] \in Browsers /\ k[2] \in Ids /\ k = <<k[1], k[2]>>
    BY <2>2, KeyIsPair DEF Keys
  <2>4. loop' # Idle /\ loop'.key = k /\ loop'.scope = loop.scope
    BY <2>1, <2>3, VisitingIsNotIdle
  <2>5. k \in Keys'
    BY <1>3, <1>5, <2>2, <2>3, KeyOrder
  <2>6. k \notin visited
    BY <1>1, <1>2, <1>3, <1>9, <2>2, <2>3, KeyOrder DEF LoopInv
  <2>7. TypeOK'
    <3>1. loop' \in Loops'
      BY <2>1, <2>3, <1>3 DEF Loops
    <3>2. visited' \subseteq Browsers \X Ids /\ stayed' \subseteq Browsers \X Ids
      BY <2>1, <2>3, <1>8, <1>9
    <3>3. again' = FALSE /\ complete' \in BOOLEAN
      BY <2>1, <2>6, <1>2 DEF LoopInv, TypeOK
    <3> QED BY <3>1, <3>2, <3>3, <1>6, <1>7 DEF TypeOK
  <2>8. NoEmptyInnerMap'
    BY <1>7, <2>4, <2>5 DEF NoEmptyInnerMap
  <2>9. \A l \in visited' : l = k \/ Before(l, k)
    <3> SUFFICES ASSUME NEW l \in visited PROVE Before(l, k)
      BY <2>1
    <3>1. l \in Browsers \X Ids /\ (l = loop.key \/ Before(l, loop.key))
      BY <1>1, <1>2, <1>9 DEF LoopInv
    <3> QED BY <3>1, <1>3, <2>2, <2>3, KeyOrder
  <2>10. \A l \in stayed' : l \in visited' \/ Before(k, l)
    <3> TAKE l \in stayed'
    <3>1. /\ l \in Keys /\ l \in Browsers \X Ids /\ l[1] \in loop.scope
          /\ l \in visited \/ Before(loop.key, l)
      BY <1>1, <1>2, <1>8, <1>9 DEF LoopInv
    <3>2. l \in visited \/ ~Before(l, k)
      BY <3>1, <2>2
    <3> QED BY <3>1, <3>2, <2>1, <2>3, KeyOrder
  <2>11. LoopInv'
    BY <1>1, <1>2, <1>8, <2>1, <2>2, <2>4, <2>6, <2>9, <2>10 DEF LoopInv
  <2> QED BY <1>5, <2>7, <2>8, <2>11 DEF IInv
<1>11. CASE ~(keepgoing /\ next # {})
  <2>1. loop' = Idle /\ complete' = keepgoing /\ visited' = visited /\ again' = again
    BY <1>1, <1>11
  <2>2. TypeOK'
    BY <2>1, <1>2, <1>6, <1>7, <1>8 DEF TypeOK, Loops
  <2>3. NoEmptyInnerMap'
    BY <2>1, <1>7 DEF NoEmptyInnerMap
  <2>4. complete' => stayed' \subseteq visited'
    <3> SUFFICES ASSUME keepgoing, NEW l \in stayed PROVE l \in visited
      BY <2>1, <1>8
    <3>1. l \in Keys /\ l[1] \in loop.scope /\ (l \in visited \/ Before(loop.key, l))
      BY <1>1, <1>2 DEF LoopInv
    <3>2. ~Before(loop.key, l)
      BY <3>1, <1>1, <1>2, <1>3, <1>11, AfterIsNext
    <3> QED BY <3>1, <3>2
  <2>5. LoopInv'
    BY <2>1, <2>4, <1>2, <1>8 DEF LoopInv
  <2> QED BY <1>5, <2>2, <2>3, <2>5 DEF IInv
<1> QED BY <1>10, <1>11

LEMMA NextPreserves == IInv /\ [Next]_vars => IInv' /\ [Flat!Next]_Keys
<1> SUFFICES ASSUME IInv, [Next]_vars PROVE IInv' /\ [Flat!Next]_Keys
  OBVIOUS
<1>1. Keys \subseteq Browsers \X Ids
  BY DEF Keys
<1>2. ASSUME NEW b \in Browsers, NEW i \in Ids, Add(b, i)
      PROVE  IInv' /\ [Flat!Next]_Keys
  <2>1. <<b, i>> \in Browsers \X Ids
    OBVIOUS
  <2> QED BY <1>2, <2>1, AddPreserves DEF Flat!Next, Flat!Add
<1>3. ASSUME NEW b \in Browsers, NEW i \in Ids, FindAndRemove(b, i)
      PROVE  IInv' /\ [Flat!Next]_Keys
  <2>1. <<b, i>> \in Browsers \X Ids
    OBVIOUS
  <2> QED BY <1>3, <2>1, FindAndRemovePreserves DEF Flat!Next, Flat!Remove
<1>4. ASSUME NEW scope \in Scopes, FindAll(scope)
      PROVE  IInv' /\ [Flat!Next]_Keys
  BY <1>4, FindAllPreserves
<1>5. ASSUME NEW remove \in BOOLEAN, NEW keepgoing \in BOOLEAN,
             VisitorReturns(remove, keepgoing)
      PROVE  IInv' /\ [Flat!Next]_Keys
  <2>1. IInv' /\ Keys' = (IF remove THEN Keys \ {loop.key} ELSE Keys)
    BY <1>5, VisitorReturnsPreserves
  <2>2. loop.key \in Browsers \X Ids
    BY <1>5, <1>1 DEF VisitorReturns, IInv, NoEmptyInnerMap
  <2> QED BY <2>1, <2>2 DEF Flat!Next, Flat!Remove
<1>6. CASE Clear
  BY <1>6, ClearPreserves DEF Flat!Next
<1>7. ASSUME NEW b \in Browsers, ClearBrowser(b)
      PROVE  IInv' /\ [Flat!Next]_Keys
  BY <1>7, ClearBrowserPreserves DEF Flat!Next, Flat!RemoveBrowser
<1>8. CASE UNCHANGED vars
  <2>1. IInv'
    BY <1>8 DEF vars, looped, IInv, TypeOK, NoEmptyInnerMap, LoopInv, Loops, Keys, Before
  <2>2. Keys' = Keys
    BY <1>8 DEF vars, Keys
  <2> QED BY <2>1, <2>2
<1> QED BY <1>2, <1>3, <1>4, <1>5, <1>6, <1>7, <1>8 DEF Next

-----------------------------------------------------------------------------
\* The invariant, for any sets of browser and info ids.
THEOREM InfoMapInvariant == Spec => []IInv
BY InitHolds, NextPreserves, PTL DEF Spec

\* TypeOK holds in every reachable state.
THEOREM InfoMapTypeCorrect == Spec => []TypeOK
<1>1. IInv => TypeOK
  BY DEF IInv
<1> QED BY <1>1, InfoMapInvariant, PTL

\* CefBrowserInfoMap never holds an empty inner map, and FindAll's iterators
\* are on an entry of the map whenever its visitor returns.
THEOREM InnerMapsAreNotEmpty == Spec => []NoEmptyInnerMap
<1>1. IInv => NoEmptyInnerMap
  BY DEF IInv
<1> QED BY <1>1, InfoMapInvariant, PTL

\* FindAll visits no key twice and passes over none that stayed, whatever its
\* visitor adds to and removes from the map meanwhile.
THEOREM EachVisitedOnce == Spec => []VisitsEachOnce
<1>1. IInv => VisitsEachOnce
  BY DEF IInv, LoopInv, VisitsEachOnce
<1> QED BY <1>1, InfoMapInvariant, PTL

\* To its users the map of maps is a set of (browser, id) keys: it implements
\* InfoSet with Keys for the set.
THEOREM ImplementsInfoSet == Spec => IsInfoSet
<1>1. Init => Flat!Init
  BY DEF Init, Keys, Flat!Init
<1> QED BY <1>1, InitHolds, NextPreserves, PTL DEF Spec, IsInfoSet, Flat!Spec
===============================================================================
