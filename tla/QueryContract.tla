---------------------------- MODULE QueryContract ----------------------------
(***************************************************************************)
(* What the message router promises about one query, to the page that      *)
(* issued it and to the handler that took it                               *)
(* (include/wrapper/cef_message_router.h).  No ids, channels, tasks,       *)
(* processes or browsers: MessageRouter implements this.                   *)
(***************************************************************************)
EXTENDS Naturals

CONSTANT Queries

VARIABLES
  page,  \* idle, open, done (its last callback ran) or left (no callback may)
  desk,  \* none, pending (the handler may answer) or closed
  said,  \* successes the handler has sent
  got,   \* successes the page has been given
  told   \* OnQueryCanceled calls

vars == <<page, desk, said, got, told>>

Init ==
  /\ page = [q \in Queries |-> "idle"]
  /\ desk = [q \in Queries |-> "none"]
  /\ said = [q \in Queries |-> 0]
  /\ got = [q \in Queries |-> 0]
  /\ told = [q \in Queries |-> 0]

\* The page asks.
Ask(q) ==
  /\ page[q] = "idle"
  /\ page' = [page EXCEPT ![q] = "open"]
  /\ UNCHANGED <<desk, said, got, told>>

\* One handler takes the query, once; never one the page has an end for.
Accept(q) ==
  /\ page[q] \in {"open", "left"} /\ desk[q] = "none"
  /\ desk' = [desk EXCEPT ![q] = "pending"]
  /\ UNCHANGED <<page, said, got, told>>

\* The handler answers: with a success, its last unless it may go on.
Say(q, last) ==
  /\ desk[q] = "pending"
  /\ said' = [said EXCEPT ![q] = @ + 1]
  /\ desk' = [desk EXCEPT ![q] = IF last THEN "closed" ELSE @]
  /\ UNCHANGED <<page, got, told>>

\* The handler answers with a failure.
GiveUp(q) ==
  /\ desk[q] = "pending"
  /\ desk' = [desk EXCEPT ![q] = "closed"]
  /\ UNCHANGED <<page, said, got, told>>

\* The router cancels queries: each one's handler is told, at most once.
Tell(Q) ==
  /\ \A q \in Q : desk[q] # "none" /\ told[q] = 0
  /\ desk' = [q \in Queries |-> IF q \in Q THEN "closed" ELSE desk[q]]
  /\ told' = [q \in Queries |-> IF q \in Q THEN 1 ELSE told[q]]
  /\ UNCHANGED said

\* onSuccess runs in the page, once for each success the handler sent.
Hear(q, last) ==
  /\ page[q] = "open" /\ got[q] < said[q]
  /\ last => desk[q] # "pending"
  /\ got' = [got EXCEPT ![q] = @ + 1]
  /\ page' = [page EXCEPT ![q] = IF last THEN "done" ELSE @]
  /\ UNCHANGED <<desk, said, told>>

\* onFailure runs in the page: no handler can answer the query any more.
Fail(q) ==
  /\ page[q] = "open" /\ desk[q] # "pending"
  /\ page' = [page EXCEPT ![q] = "done"]
  /\ UNCHANGED <<desk, said, got, told>>

\* The page cancels queries, or its context or process goes away.
Leave(Q) ==
  /\ \A q \in Q : page[q] = "open"
  /\ page' = [q \in Queries |-> IF q \in Q THEN "left" ELSE page[q]]
  /\ UNCHANGED got

Next ==
  \/ \E q \in Queries :
        \/ Ask(q) \/ Accept(q) \/ GiveUp(q) \/ Fail(q)
        \/ \E last \in BOOLEAN : Say(q, last) \/ Hear(q, last)
  \/ \E Q \in SUBSET Queries, P \in SUBSET Queries : Tell(Q) /\ Leave(P)

Spec == Init /\ [][Next]_vars
=============================================================================
