---------------------------- MODULE BrowserInfoMap ----------------------------
(***************************************************************************)
(* CefBrowserInfoMap (libcef_dll/wrapper/cef_browser_info_map.h): a map of *)
(* maps, browser id to (info id to object), in which both routers keep     *)
(* their pending queries.  An inner map is created with its first entry    *)
(* and deleted with its last: empty() and size() look at the outer map     *)
(* first, and the routers' early returns rely on it.                       *)
(*                                                                         *)
(* FindAll calls a visitor for one object after the other.  The visitor    *)
(* runs code of the application (OnQueryCanceled), which may come back to  *)
(* the map: the steps of the loop are therefore taken one at a time.  What *)
(* a visitor must not do is take the object it is visiting out of the map, *)
(* since the loop holds its iterator: here it does not, see the README.    *)
(***************************************************************************)
EXTENDS Integers, FiniteSets

CONSTANTS
  Browsers,   \* browser ids
  Ids         \* ids of the objects within a browser, in the map's order

ASSUME InfoMapAssumption == Browsers \subseteq Nat /\ Ids \subseteq Nat

VARIABLES
  infos,     \* browser_info_map_: the ids in each inner map there is
  loop,      \* the FindAll under way: what it is visiting, and its scope
  visited,   \* history: the keys it has called its visitor for
  again,     \* history: it called the visitor twice for one key
  stayed,    \* history: the keys in its scope that have been in the map since
             \* it began
  complete   \* history: the last loop to end was not stopped by its visitor

vars == <<infos, loop, visited, again, stayed, complete>>
looped == <<visited, again, complete>>

Idle == [kind |-> "idle"]
Scopes == {{b} : b \in Browsers} \cup {Browsers}
Visiting(scope, b, i) == [kind |-> "visiting", scope |-> scope, key |-> <<b, i>>]
Loops == {Idle} \cup {Visiting(s, b, i) : s \in Scopes, b \in Browsers, i \in Ids}

Keys == {k \in Browsers \X Ids : k[1] \in DOMAIN infos /\ k[2] \in infos[k[1]]}
Lowest(S) == CHOOSE x \in S : \A y \in S : x <= y

Init ==
  /\ infos = [b \in {} |-> {}]
  /\ loop = Idle
  /\ visited = {} /\ again = FALSE /\ stayed = {} /\ complete = FALSE

\* The loop's iterator is not on the key.
Free(b, i) == loop # Idle => loop.key # <<b, i>>

\* The outer map with S for the inner map of b; an empty one is deleted.
WithInner(b, S) ==
  [c \in (DOMAIN infos \cup {b}) \ (IF S = {} THEN {b} ELSE {}) |->
     IF c = b THEN S ELSE infos[c]]

\* Mutant: an inner map is created whether or not there is one.
MutAddReplaces(b, i) ==
  /\ infos' = WithInner(b, {i})
  /\ UNCHANGED <<loop, looped, stayed>>

\* Add.  (std::map::insert leaves an object with the same id in place.)
Add(b, i) ==
  /\ infos' = WithInner(b, (IF b \in DOMAIN infos THEN infos[b] ELSE {}) \cup {i})
  /\ UNCHANGED <<loop, looped, stayed>>

\* Mutant: the inner map is not deleted with its last entry.
MutKeepsInnerMap(b, i) ==
  /\ b \in DOMAIN infos /\ i \in infos[b] /\ Free(b, i)
  /\ infos' = [infos EXCEPT ![b] = @ \ {i}]
  /\ stayed' = stayed \ {<<b, i>>}
  /\ UNCHANGED <<loop, looped>>

\* Find, with a visitor that has the object removed.
FindAndRemove(b, i) ==
  /\ b \in DOMAIN infos /\ i \in infos[b] /\ Free(b, i)
  /\ infos' = WithInner(b, infos[b] \ {i})
  /\ stayed' = stayed \ {<<b, i>>}
  /\ UNCHANGED <<loop, looped>>

\* FindAll, of one browser or of all; nothing happens where there is no entry.
FindAll(scope) ==
  LET found == scope \cap DOMAIN infos
  IN /\ loop = Idle /\ found # {}
     /\ loop' = Visiting(scope, Lowest(found), Lowest(infos[Lowest(found)]))
     /\ visited' = {loop'.key}
     /\ again' = FALSE
     /\ stayed' = {k \in Keys : k[1] \in scope}
     /\ UNCHANGED <<infos, complete>>

\* Mutant: the loop over all browsers ends with the first one's inner map.
MutOneBrowser(k, inner) ==
  {<<k[1], i>> : i \in {j \in inner[k[1]] : j > k[2] /\ \A l \in inner[k[1]] : l > k[2] => j <= l}}

\* Mutant: the two halves of the key are swapped.
MutSwappedKey(k, inner) ==
  {<<i, k[1]>> : i \in {j \in inner[k[1]] : j > k[2]}}

\* Where the iterators go from k: the next key in the scope, if there is one.
After(k, inner) ==
  LET ids == {i \in inner[k[1]] : i > k[2]}
      later == {b \in loop.scope \cap DOMAIN inner : b > k[1]}
  IN IF ids # {} THEN {<<k[1], Lowest(ids)>>}
     ELSE IF later # {} THEN {<<Lowest(later), Lowest(inner[Lowest(later)])>>}
     ELSE {}

\* The visitor returns: its object is removed if it said so, the loop goes on
\* if it said so, and an inner map the loop leaves empty is deleted.
VisitorReturns(remove, keepgoing) ==
  LET b == loop.key[1]
      next == After(loop.key, infos)
  IN /\ loop # Idle
     /\ infos' = WithInner(b, IF remove THEN infos[b] \ {loop.key[2]} ELSE infos[b])
     /\ stayed' = IF remove THEN stayed \ {loop.key} ELSE stayed
     /\ IF keepgoing /\ next # {}
        THEN \E k \in next :
               /\ loop' = Visiting(loop.scope, k[1], k[2])
               /\ visited' = visited \cup {k} /\ again' = (again \/ k \in visited)
               /\ UNCHANGED complete
        ELSE loop' = Idle /\ complete' = keepgoing /\ UNCHANGED <<visited, again>>

\* clear, of everything or of one browser.
Clear ==
  /\ loop = Idle
  /\ infos' = [b \in {} |-> {}] /\ stayed' = {}
  /\ UNCHANGED <<loop, looped>>

ClearBrowser(b) ==
  /\ loop = Idle /\ b \in DOMAIN infos
  /\ infos' = WithInner(b, {})
  /\ stayed' = {k \in stayed : k[1] # b}
  /\ UNCHANGED <<loop, looped>>

Next ==
  \/ \E b \in Browsers, i \in Ids : Add(b, i) \/ FindAndRemove(b, i)
  \/ \E scope \in Scopes : FindAll(scope)
  \/ \E remove, keepgoing \in BOOLEAN : VisitorReturns(remove, keepgoing)
  \/ Clear
  \/ \E b \in Browsers : ClearBrowser(b)

Spec == Init /\ [][Next]_vars

-----------------------------------------------------------------------------
\* The variables hold values of their types.
TypeOK ==
  /\ DOMAIN infos \subseteq Browsers
  /\ \A b \in DOMAIN infos : infos[b] \subseteq Ids
  /\ loop \in Loops
  /\ visited \subseteq Browsers \X Ids /\ stayed \subseteq Browsers \X Ids
  /\ again \in BOOLEAN /\ complete \in BOOLEAN

\* empty() may look at the outer map alone: no inner map is empty, also while
\* a loop is under way, and what the loop is at is in the map.
NoEmptyInnerMap ==
  /\ \A b \in DOMAIN infos : infos[b] # {}
  /\ loop # Idle => loop.key \in Keys

\* Whatever a visitor adds and removes meanwhile, no key is visited twice, and
\* when the visitor did not stop the loop, every key that was in the map from
\* its beginning to its end was visited.
VisitsEachOnce ==
  /\ ~again
  /\ loop = Idle /\ complete => stayed \subseteq visited

\* To its users the map of maps is a set of keys.
Flat == INSTANCE InfoSet WITH keys <- Keys
IsInfoSet == Flat!Spec
=============================================================================
