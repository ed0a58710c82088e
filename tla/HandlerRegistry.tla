--------------------------- MODULE HandlerRegistry ---------------------------
(***************************************************************************)
(* handler_set_ of the browser-side query router, and the loop that offers *)
(* a query to the handlers (cef_message_router.cc, AddHandler,             *)
(* RemoveHandler and OnProcessMessageReceived).  MessageRouter takes an    *)
(* OnQuery call as one step; here the calls are taken one by one, since a  *)
(* handler may add and remove handlers, and cancel queries, inside its own *)
(* OnQuery: the loop therefore runs over a copy.                           *)
(*                                                                         *)
(* A handler is the number its address is: handler_set_ is a std::set of   *)
(* pointers, iterated from the lowest address up.                          *)
(***************************************************************************)
EXTENDS Integers, Sequences, FiniteSets

CONSTANTS
  Handlers,    \* addresses of the Handler objects
  MaxQueries   \* bound: query messages in a behaviour

ASSUME RegistryAssumption == Handlers \subseteq Nat /\ MaxQueries \in Nat

VARIABLES
  handlers,    \* handler_set_
  nextQuery,   \* query_id_generator_
  entries,     \* browser_query_info_map_: an id and the handler that took it
  rest,        \* what the iterator over the copy has not reached
  asked,       \* the OnQuery calls for the latest query, the last one running
               \* if busy
  busy,        \* the loop is running
  verdict,     \* how the latest query's loop ended
  copy,        \* history: handler_set_ when the latest query arrived
  order,       \* history: the order AddHandler's callers asked for
  orderThen,   \* history: that order when the latest query arrived
  removedIn    \* history: the query that was being offered when a handler was
               \* removed; 0 if there was none, or while it is registered

loop == <<rest, asked, busy, verdict, copy, orderThen>>
vars == <<handlers, nextQuery, entries, order, removedIn, loop>>

Init ==
  /\ handlers = {} /\ nextQuery = 0 /\ entries = {}
  /\ rest = {} /\ asked = <<>> /\ busy = FALSE /\ verdict = "none"
  /\ copy = {} /\ order = <<>> /\ orderThen = <<>>
  /\ removedIn = [h \in Handlers |-> 0]

Without(s, h) ==
  LET i == CHOOSE i \in DOMAIN s : s[i] = h
  IN SubSeq(s, 1, i - 1) \o SubSeq(s, i + 1, Len(s))
Lowest(S) == CHOOSE h \in S : \A g \in S : h <= g

\* The insertion hint, begin or end, changes only how fast insert runs.
AddHandler(h, first) ==
  /\ h \notin handlers
  /\ handlers' = handlers \cup {h}
  /\ order' = IF first THEN <<h>> \o order ELSE Append(order, h)
  /\ removedIn' = [removedIn EXCEPT ![h] = 0]
  /\ UNCHANGED <<nextQuery, entries, loop>>

\* CancelPendingFor(NULL, h): OnQueryCanceled for each entry of h, which goes.
CancelPendingFor(h) == entries' = {e \in entries : e.handler # h}

\* The set and the history of a removal.
Remove(h) ==
  /\ h \in handlers
  /\ handlers' = handlers \ {h}
  /\ order' = Without(order, h)
  /\ removedIn' = [removedIn EXCEPT ![h] = IF busy THEN nextQuery ELSE 0]

\* Mutant: the handler leaves the set, its queries are not canceled.
MutRemoveOnly(h) ==
  /\ Remove(h)
  /\ UNCHANGED <<nextQuery, entries, loop>>

\* A handler that is not in the set is not searched for in the map.
RemoveHandler(h) ==
  /\ Remove(h)
  /\ CancelPendingFor(h)
  /\ UNCHANGED <<nextQuery, loop>>

CancelPending(h) ==
  /\ CancelPendingFor(h)
  /\ UNCHANGED <<handlers, nextQuery, order, removedIn, loop>>

\* A posted answer ends a query; tasks do not run inside OnQuery.
OnCallback(e) ==
  /\ ~busy
  /\ entries' = entries \ {e}
  /\ UNCHANGED <<handlers, nextQuery, order, removedIn, loop>>

Asked == {asked[i] : i \in DOMAIN asked}
Current == asked[Len(asked)]

\* Mutant: the query is offered before its id is drawn.
MutNoId ==
  /\ ~busy /\ handlers # {}
  /\ copy' = handlers /\ orderThen' = order
  /\ verdict' = "none" /\ busy' = TRUE
  /\ asked' = <<Lowest(handlers)>>
  /\ rest' = handlers \ {Lowest(handlers)}
  /\ UNCHANGED <<handlers, nextQuery, entries, order, removedIn>>

\* A query arrives.  With no handler it is refused before an id is drawn.
OnQueryMessage ==
  /\ ~busy /\ nextQuery < MaxQueries
  /\ copy' = handlers /\ orderThen' = order
  /\ IF handlers = {}
     THEN /\ verdict' = "refused" /\ asked' = <<>>
          /\ UNCHANGED <<nextQuery, rest, busy>>
     ELSE /\ verdict' = "none" /\ busy' = TRUE
          /\ nextQuery' = nextQuery + 1
          /\ asked' = <<Lowest(handlers)>>
          /\ rest' = handlers \ {Lowest(handlers)}
  /\ UNCHANGED <<handlers, entries, order, removedIn>>

\* OnQuery returned true: the loop ends and the entry is stored for its
\* handler, whatever became of the handler meanwhile.
QueryTaken ==
  /\ busy
  /\ busy' = FALSE /\ verdict' = "taken" /\ rest' = {}
  /\ entries' = entries \cup {[id |-> nextQuery, handler |-> Current]}
  /\ UNCHANGED <<handlers, nextQuery, order, removedIn, asked, copy, orderThen>>

\* Mutant: the loop runs over handler_set_ itself.
MutNoCopy ==
  LET later == {h \in handlers : h > Current}
  IN /\ busy
     /\ IF later = {}
        THEN busy' = FALSE /\ verdict' = "refused" /\ UNCHANGED <<rest, asked>>
        ELSE /\ asked' = Append(asked, Lowest(later))
             /\ UNCHANGED <<rest, busy, verdict>>
     /\ UNCHANGED <<handlers, nextQuery, entries, order, removedIn, copy, orderThen>>

\* OnQuery returned false: the next handler of the copy is asked, and when
\* there is none the query is refused.
QueryPassed ==
  /\ busy
  /\ IF rest = {}
     THEN busy' = FALSE /\ verdict' = "refused" /\ UNCHANGED <<rest, asked>>
     ELSE /\ asked' = Append(asked, Lowest(rest))
          /\ rest' = rest \ {Lowest(rest)}
          /\ UNCHANGED <<busy, verdict>>
  /\ UNCHANGED <<handlers, nextQuery, entries, order, removedIn, copy, orderThen>>

Next ==
  \/ \E h \in Handlers : \/ \E first \in BOOLEAN : AddHandler(h, first)
                         \/ RemoveHandler(h)
                         \/ CancelPending(h)
  \/ \E e \in entries : OnCallback(e)
  \/ OnQueryMessage
  \/ QueryTaken
  \/ QueryPassed

Spec == Init /\ [][Next]_vars

-----------------------------------------------------------------------------
\* The variables hold values of their types.
TypeOK ==
  /\ handlers \subseteq Handlers /\ nextQuery \in 0..MaxQueries
  /\ entries \subseteq [id: 1..MaxQueries, handler: Handlers]
  /\ rest \subseteq Handlers /\ copy \subseteq Handlers
  /\ asked \in Seq(Handlers)
  /\ busy \in BOOLEAN /\ busy => asked # <<>>
  /\ verdict \in {"none", "taken", "refused"}
  /\ order \in Seq(Handlers) /\ orderThen \in Seq(Handlers)
  /\ removedIn \in [Handlers -> 0..MaxQueries]

\* However OnQuery changes the set under the loop, a query is offered to each
\* handler registered when it arrived, at most once, to nobody else, and to
\* all of them before it is refused.
OfferedToEachOnce ==
  /\ Asked \subseteq copy
  /\ Len(asked) = Cardinality(Asked)
  /\ verdict = "refused" => Asked = copy

\* A removed handler owns no query, but for the one that was being offered
\* when it was removed: it may be asked for that one still, and a true from its
\* OnQuery stores the entry after RemoveHandler has run.  However removals are
\* mixed with the loop, later AddHandlers of the same handler, and answers, no
\* earlier or later query is left with it.
RemovedOwnsOnlyOffered ==
  \A e \in entries : e.handler \in handlers \/ e.id = removedIn[e.handler]

\* "If |first| is true it will be added as the first handler, otherwise it
\* will be added as the last handler" (cef_message_router.h:292-293): queries
\* are offered in that order.
OfferedInOrder ==
  \A i \in DOMAIN asked : asked[i] = orderThen[i]
=============================================================================
