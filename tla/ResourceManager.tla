--------------------------- MODULE ResourceManager ---------------------------
(***************************************************************************)
(* The chain of resource providers a load passes on the IO thread          *)
(* (cef_resource_manager.cc).  What happens to a load is kept in its       *)
(* RequestState, which moves between the Request of the provider being     *)
(* asked (held), a posted task, and the manager; it is destroyed once, and *)
(* that runs the load's callback.  A Request is the pair of its load and   *)
(* the provider it was made for, since a load is at a provider only once.  *)
(*                                                                         *)
(* Everything runs on the IO thread: a call from another thread is the     *)
(* same call at a later time.  While an OnRequest runs no task does, but   *)
(* the application's code inside it may call the manager and any Request.  *)
(***************************************************************************)
EXTENDS Integers, SequencesExt

CONSTANTS
  Loads,       \* resource loads
  Providers,   \* Provider objects; each is given to AddProvider at most once
  Archives,    \* those that are ArchiveProviders.  The others are content and
               \* directory providers and the application's own
  Order,       \* AddProvider's order, a function of the provider
  Identifier,  \* its identifier, likewise
  None

ASSUME ManagerAssumption ==
  /\ Archives \subseteq Providers
  /\ Order \in [Providers -> Int]
  /\ DOMAIN Identifier = Providers
  /\ None \notin Providers /\ None \notin Loads

VARIABLES
  alive,      \* the manager has not been destroyed
  hung,       \* the IO thread is in a loop that does not end
  providers,  \* providers_
  added,      \* history: the providers in the order of AddProvider
  deleting,   \* those with deletion_pending_
  waiting,    \* pending_requests_ of each entry
  at,         \* current_entry_pos_ of each load's state
  held,       \* loads whose Request has its state_
  calling,    \* the load whose OnRequest is running
  tasks,      \* posted ContinueOnIOThread and StopOnIOThread
  handlers,   \* loads with an entry in pending_handlers_
  archive,    \* how far each archive is loaded
  files,      \* loads that a loaded archive has a file for
  queue,      \* pending_requests_ of each ArchiveProvider
  status,     \* what OnBeforeResourceLoad has returned
  calls,      \* history: times the callback was run
  asked,      \* history: providers whose OnRequest was called for the load
  answered,   \* history: Requests on which Continue or Stop took effect
  canceled    \* history: Requests that OnRequestCanceled was called with

chain == <<providers, deleting, waiting>>
place == <<at, held, tasks>>
archives == <<archive, files, queue>>
history == <<added, asked, answered, canceled>>
vars == <<alive, hung, chain, place, calling, handlers, archives, status, calls,
          history>>

Init ==
  /\ alive = TRUE /\ hung = FALSE
  /\ providers = <<>> /\ added = <<>> /\ deleting = {}
  /\ waiting = [p \in Providers |-> <<>>]
  /\ at = [r \in Loads |-> None] /\ held = {} /\ calling = None /\ tasks = <<>>
  /\ handlers = {}
  /\ archive = [p \in Archives |-> "idle"]
  /\ files = [p \in Archives |-> {}] /\ queue = [p \in Archives |-> <<>>]
  /\ status = [r \in Loads |-> "idle"] /\ calls = [r \in Loads |-> 0]
  /\ asked = [r \in Loads |-> {}] /\ answered = {} /\ canceled = {}

InList == ToSet(providers)
Idle == ~hung /\ calling = None
\* Application code runs: in a task of its own, or inside its OnRequest.
InClient == ~hung /\ (calling # None => at[calling] \notin Archives)

-----------------------------------------------------------------------------
\* The providers.

FirstOf(I) == IF I = {} THEN None ELSE providers[Min(I)]

\* Mutant: a new provider goes before those of its own order.
MutInsertPosition(p) ==
  LET later == {i \in DOMAIN providers : Order[providers[i]] >= Order[p]}
  IN IF later = {} THEN Len(providers) + 1 ELSE Min(later)

\* Before the first entry with a higher order.
InsertPosition(p) ==
  LET higher == {i \in DOMAIN providers : Order[providers[i]] > Order[p]}
  IN IF higher = {} THEN Len(providers) + 1 ELSE Min(higher)

AddProvider(p) ==
  /\ InClient /\ alive /\ p \notin ToSet(added)
  /\ providers' = InsertAt(providers, InsertPosition(p), p)
  /\ added' = Append(added, p)
  /\ UNCHANGED <<alive, hung, deleting, waiting, place, calling, handlers,
                 archives, status, calls, asked, answered, canceled>>

\* Mutant: a Request keeps its state as long as the load is at the provider.
MutHasState(r, p) == at[r] = p

HasState(r, p) == at[r] = p /\ r \in held

\* The first provider from position i on whose deletion is not pending.
NextValidProvider(i) ==
  FirstOf({j \in DOMAIN providers : j >= i /\ providers[j] \notin deleting})

Precedes(s, x, y) == \E i, j \in DOMAIN s : i < j /\ s[i] = x /\ s[j] = y
\* The elements of S, each once, in the order of the list s.
InOrder(S, s) ==
  {t \in SetToSeqs(S) : \A i, j \in DOMAIN t : i < j => Precedes(s, t[i], t[j])}

\* The requests that the removal of these entries cancels, in the order of the
\* entries and of the requests of each.
CanceledBy(removed) ==
  {r \in Loads : \E p \in removed : r \in ToSet(waiting[p]) /\ HasState(r, p)}
Ahead(r, s) ==
  \/ Precedes(providers, at[r], at[s])
  \/ at[r] = at[s] /\ Precedes(waiting[at[r]], r, s)

Task(r, kind) == [load |-> r, kind |-> kind]
Post(requests, kind) ==
  tasks' = tasks \o [i \in DOMAIN requests |-> Task(requests[i], kind)]

\* The state leaves each Request for a task, and OnRequestCanceled is called.
Cancel(removed, kind) ==
  /\ \E requests \in SetToSeqs(CanceledBy(removed)) :
       /\ \A i, j \in DOMAIN requests : i < j => Ahead(requests[i], requests[j])
       /\ Post(requests, kind)
  /\ held' = held \ CanceledBy(removed)
  /\ canceled' = canceled \cup {<<r, at[r]>> : r \in CanceledBy(removed)}

\* DeleteProvider on each entry of a set, in list order: an entry without
\* requests goes, another when its last request has moved on.  On an entry
\* whose deletion is already pending it returns without moving the caller's
\* iterator on: the caller's loop never gets past that entry.
DeleteProviders(those, kind) ==
  LET stuck == {i \in DOMAIN providers : providers[i] \in those \cap deleting}
      removed == {p \in those \cap InList : ~\E i \in stuck : p = providers[i]
                                            \/ Precedes(providers, providers[i], p)}
      gone == {p \in removed : waiting[p] = <<>>}
  IN /\ hung' = (stuck # {})
     /\ providers' \in InOrder(InList \ gone, providers)
     /\ deleting' = deleting \cup (removed \ gone)
     /\ Cancel(removed, kind)
     /\ UNCHANGED <<waiting, at, archives, added, asked, answered>>

RemoveProviders(id) ==
  /\ InClient /\ alive
  /\ DeleteProviders({p \in InList : Identifier[p] = id}, "next")
  /\ UNCHANGED <<alive, calling, handlers, status, calls>>

RemoveAllProviders ==
  /\ InClient /\ alive
  /\ DeleteProviders(InList, "stop")
  /\ UNCHANGED <<alive, calling, handlers, status, calls>>

\* The destructor removes all providers, and then the entries that requests
\* kept.  States that are left find their weak pointer to the manager null.
Destroy ==
  /\ Idle /\ alive
  /\ IF InList \cap deleting # {}
     THEN /\ DeleteProviders(InList, "stop")
          /\ UNCHANGED <<alive, calling, handlers, status, calls>>
     ELSE /\ alive' = FALSE /\ providers' = <<>> /\ deleting' = {}
          /\ waiting' = [p \in Providers |-> <<>>]
          /\ at' = [r \in Loads |-> None]
          /\ Cancel(InList, "stop")
          /\ handlers' = {}
          /\ UNCHANGED <<hung, calling, archives, status, calls, added, asked,
                         answered>>

-----------------------------------------------------------------------------
\* The way of a load.

Position(r) == CHOOSE i \in DOMAIN providers : providers[i] = at[r]
Detached(r) == [waiting EXCEPT ![at[r]] = RemoveFirst(@, r)]

\* Mutants: the last request leaves and its removed entry stays; and the first
\* request that leaves takes the entry with it.
MutEntryStays(r) == UNCHANGED <<providers, deleting>>
MutEntryGoes(r) ==
  /\ providers' = IF at[r] \in deleting THEN RemoveFirst(providers, at[r]) ELSE providers
  /\ deleting' = deleting \ {at[r]}

\* The last request to leave a removed entry takes it out of the list.
DetachRequestFromProvider(r) ==
  LET last == at[r] \in deleting /\ Detached(r)[at[r]] = <<>>
  IN /\ providers' = IF last THEN RemoveFirst(providers, at[r]) ELSE providers
     /\ deleting' = IF last THEN deleting \ {at[r]} ELSE deleting

\* The state is destroyed, which runs the callback.
EndState(r) == calls' = [calls EXCEPT ![r] = @ + 1]

StopRequest(r) ==
  /\ DetachRequestFromProvider(r)
  /\ waiting' = Detached(r)
  /\ at' = [at EXCEPT ![r] = None]
  /\ held' = held \ {r}
  /\ calling' = None
  /\ EndState(r)
  /\ UNCHANGED asked

\* A Request is made for provider p, and p's OnRequest is called with it.
SendRequest(r, p, from) ==
  /\ waiting' = [from EXCEPT ![p] = Append(@, r)]
  /\ at' = [at EXCEPT ![r] = p]
  /\ held' = held \cup {r}
  /\ calling' = r
  /\ asked' = [asked EXCEPT ![r] = @ \cup {p}]

\* Mutant: the end of the list is not tested for.
MutMoveOn(r) ==
  /\ DetachRequestFromProvider(r)
  /\ SendRequest(r, NextValidProvider(Position(r) + 1), Detached(r))
  /\ UNCHANGED calls

\* The next provider is found before the current one is left, which may take
\* that one out of the list.
MoveOn(r) ==
  LET next == NextValidProvider(Position(r) + 1)
  IN IF next = None
     THEN StopRequest(r)
     ELSE /\ DetachRequestFromProvider(r)
          /\ SendRequest(r, next, Detached(r))
          /\ UNCHANGED calls

\* What OnBeforeResourceLoad returns is settled when its loop ends.
Settled(r, result) == [status EXCEPT ![r] = IF @ = "deciding" THEN result ELSE @]

OnBeforeResourceLoad(r) ==
  /\ Idle /\ alive /\ status[r] = "idle"
  /\ LET first == NextValidProvider(1)
     IN IF first = None
        THEN /\ status' = [status EXCEPT ![r] = "continue"]
             /\ UNCHANGED <<waiting, at, held, calling, asked>>
        ELSE /\ status' = [status EXCEPT ![r] = "deciding"]
             /\ SendRequest(r, first, waiting)
  /\ UNCHANGED <<alive, hung, providers, deleting, tasks, handlers, archives,
                 calls, added, answered, canceled>>

\* OnRequest returned false.  If the Request has lost its state meanwhile, an
\* answer or a removal is on its way, as if it had returned true.
Declined(r) ==
  /\ IF HasState(r, at[r])
     THEN /\ MoveOn(r)
          /\ status' = IF calling' = None THEN Settled(r, "continue") ELSE status
     ELSE /\ calling' = None
          /\ status' = Settled(r, "async")
          /\ UNCHANGED <<chain, at, held, calls, asked>>
  /\ UNCHANGED <<tasks, answered, archives>>

Accepted(r) ==
  /\ calling' = None
  /\ status' = Settled(r, "async")
  /\ UNCHANGED <<chain, at, calls, asked>>

\* OnRequest of an application's, content or directory provider returns.
OnRequestReturns(r, handles) ==
  /\ ~hung /\ calling = r /\ at[r] \notin Archives
  /\ IF handles THEN Accepted(r) /\ UNCHANGED <<held, tasks, answered, archives>>
     ELSE Declined(r)
  /\ UNCHANGED <<alive, hung, handlers, added, canceled>>

\* Request::Continue and Stop: the state leaves the Request for a task.
Answer(requests, kind) ==
  /\ Post(requests, kind)
  /\ held' = held \ ToSet(requests)
  /\ answered' = answered \cup {<<r, at[r]>> : r \in ToSet(requests)}

\* The application answers a Request: without a state that has no effect.
Continue(r, p, kind) ==
  /\ InClient /\ p \notin Archives /\ HasState(r, p)
  /\ Answer(<<r>>, kind)
  /\ UNCHANGED <<alive, hung, chain, at, calling, handlers, archives, status, calls,
                 added, asked, canceled>>

\* Mutant: the request that starts the loading of the archive is not queued.
MutArchiveOnRequest(r) ==
  LET p == at[r]
  IN /\ ~hung /\ calling = r /\ p \in Archives
     /\ \/ Declined(r)
        \/ /\ archive[p] # "done"
           /\ archive' = [archive EXCEPT ![p] = "loading"]
           /\ queue' = IF archive[p] = "idle" THEN queue
                       ELSE [queue EXCEPT ![p] = Append(@, r)]
           /\ Accepted(r)
           /\ UNCHANGED <<files, held, tasks, answered>>
        \/ /\ archive[p] = "done" /\ r \in files[p]
           /\ Answer(<<r>>, "handled") /\ Accepted(r) /\ UNCHANGED archives
     /\ UNCHANGED <<alive, hung, handlers, added, canceled>>

\* ArchiveProvider::OnRequest: the URL is not below the archive's, or there
\* is no file for it; or the load waits for the archive; or it is answered.
ArchiveOnRequest(r) ==
  LET p == at[r]
  IN /\ ~hung /\ calling = r /\ p \in Archives
     /\ \/ r \notin files[p] /\ Declined(r)
        \/ /\ archive[p] # "done"
           /\ archive' = [archive EXCEPT ![p] = "loading"]
           /\ queue' = [queue EXCEPT ![p] = Append(@, r)]
           /\ Accepted(r)
           /\ UNCHANGED <<files, held, tasks, answered>>
        \/ /\ r \in files[p]
           /\ Answer(<<r>>, "handled") /\ Accepted(r) /\ UNCHANGED archives
     /\ UNCHANGED <<alive, hung, handlers, added, canceled>>

\* The archive has been read on the FILE thread; a removed provider that is
\* still in the list hears of it too.  ContinueRequest answers the queued loads
\* it has a file for, and its result is ignored for the others.
ArchiveLoaded(p, found) ==
  LET ready == {r \in found \cap ToSet(queue[p]) : HasState(r, p)}
  IN /\ Idle /\ archive[p] = "loading" /\ p \in InList
     /\ archive' = [archive EXCEPT ![p] = "done"]
     /\ files' = [files EXCEPT ![p] = found]
     /\ queue' = [queue EXCEPT ![p] = <<>>]
     /\ \E requests \in InOrder(ready, queue[p]) : Answer(requests, "handled")
     /\ UNCHANGED <<alive, hung, chain, at, calling, handlers, status, calls, added,
                    asked, canceled>>

\* ContinueOnIOThread and StopOnIOThread.  Without a manager the state just
\* goes.
RunTask ==
  /\ Idle /\ tasks # <<>>
  /\ tasks' = Tail(tasks)
  /\ LET r == Head(tasks).load
         kind == Head(tasks).kind
     IN IF ~alive
        THEN EndState(r) /\ UNCHANGED <<chain, at, held, calling, handlers, asked>>
        ELSE /\ handlers' = IF kind = "handled" THEN handlers \cup {r} ELSE handlers
             /\ IF kind = "next" THEN MoveOn(r) ELSE StopRequest(r)
  /\ UNCHANGED <<alive, hung, archives, status, added, answered, canceled>>

\* CEF asks for the handler once the load goes on; it is handed out once.
GetResourceHandler(r) ==
  /\ Idle /\ r \in handlers
  /\ handlers' = handlers \ {r}
  /\ UNCHANGED <<alive, hung, chain, place, calling, archives, status, calls, history>>

Next ==
  \/ \E p \in Providers : AddProvider(p)
  \/ \E p \in Providers : RemoveProviders(Identifier[p])
  \/ RemoveAllProviders
  \/ Destroy
  \/ \E r \in Loads :
       \/ OnBeforeResourceLoad(r)
       \/ \E handles \in BOOLEAN : OnRequestReturns(r, handles)
       \/ \E p \in Providers, kind \in {"next", "handled", "stop"} :
            Continue(r, p, kind)
       \/ ArchiveOnRequest(r)
       \/ GetResourceHandler(r)
  \/ \E p \in Archives, found \in SUBSET Loads : ArchiveLoaded(p, found)
  \/ RunTask

Spec == Init /\ [][Next]_vars

\* Tasks are run, OnRequest returns, archives get read, and a provider that
\* took a Request answers it ("return true and call Request::Continue or
\* Request::Stop", cef_resource_manager.h:190-192).
Fairness ==
  /\ WF_vars(RunTask)
  /\ \A r \in Loads :
       /\ WF_vars(\E handles \in BOOLEAN : OnRequestReturns(r, handles))
       /\ WF_vars(ArchiveOnRequest(r))
       /\ WF_vars(\E p \in Providers, kind \in {"next", "handled", "stop"} :
                    Continue(r, p, kind))
  /\ \A p \in Archives : WF_vars(\E found \in SUBSET Loads : ArchiveLoaded(p, found))

FairSpec == Spec /\ Fairness

-----------------------------------------------------------------------------
\* The variables hold values of their types.
TypeOK ==
  /\ alive \in BOOLEAN /\ hung \in BOOLEAN
  /\ providers \in Seq(Providers) /\ added \in Seq(Providers)
  /\ deleting \subseteq Providers
  /\ waiting \in [Providers -> Seq(Loads)]
  /\ at \in [Loads -> Providers \cup {None}]
  /\ held \subseteq Loads /\ calling \in Loads \cup {None}
  /\ tasks \in Seq([load: Loads, kind: {"next", "handled", "stop"}])
  /\ handlers \subseteq Loads
  /\ archive \in [Archives -> {"idle", "loading", "done"}]
  /\ files \in [Archives -> SUBSET Loads] /\ queue \in [Archives -> Seq(Loads)]
  /\ status \in [Loads -> {"idle", "deciding", "continue", "async"}]
  /\ calls \in [Loads -> Nat]
  /\ asked \in [Loads -> SUBSET Providers]
  /\ answered \subseteq Loads \X Providers /\ canceled \subseteq Loads \X Providers

TasksOf(r) == {i \in DOMAIN tasks : tasks[i].load = r}
Begun(r) == asked[r] # {}

\* The state of a load that was shown to a provider is in one place, which
\* will move it on, or has been destroyed, once: the callback runs once,
\* however answers, late answers, removals and the destructor are mixed.
CallbackRunsOnce ==
  \A r \in Loads :
    (IF r \in held THEN 1 ELSE 0) + Cardinality(TasksOf(r)) + calls[r]
      = (IF Begun(r) THEN 1 ELSE 0)

\* The two iterators a state keeps across tasks, current_entry_pos_ and
\* current_request_pos_, point into live lists, and nothing else is in the
\* lists: no entry goes while a request is at it or its OnRequest runs.
IteratorsAreValid ==
  /\ \A r \in Loads : at[r] # None => at[r] \in InList
  /\ \A p \in Providers :
       /\ ToSet(waiting[p]) = {r \in Loads : at[r] = p}
       /\ Len(waiting[p]) = Cardinality(ToSet(waiting[p]))
  /\ calling # None => at[calling] # None

\* A removed provider that is still in the list has requests, and every one
\* of them has a task that takes it away: the entry is neither forgotten nor
\* given new requests ("Should not be on a deleted entry").
RemovedProviderIsLeaving ==
  \A p \in deleting :
    /\ p \in InList /\ waiting[p] # <<>>
    /\ \A r \in ToSet(waiting[p]) : r \notin held /\ TasksOf(r) # {}

\* OnRequestCanceled is not called for a Request that was already answered
\* ("Disassociate |state_| immediately", cef_resource_manager.cc:339-341),
\* and an answer after it is ignored.
CanceledIsUnanswered == answered \cap canceled = {}

Before(p, q) ==
  \/ Order[p] < Order[q]
  \/ /\ Order[p] = Order[q]
     /\ \E i, j \in DOMAIN added : added[i] = p /\ added[j] = q /\ i < j

\* Providers are asked in ascending order, and those of one order as they were
\* added, although the list changes while a load waits at one of them: a load
\* goes to the next provider after the one it is at that has not been removed.
Nearest(r, q) ==
  /\ q \in InList \ deleting
  /\ \A p \in asked[r] : Before(p, q)
  /\ ~\E p \in InList \ deleting :
       Before(p, q) /\ (at[r] # None => Before(at[r], p))
AskedInOrder ==
  [][\A r \in Loads : \A q \in asked'[r] \ asked[r] : Nearest(r, q)]_vars

\* An archive that has been read has no file for a load that waits at it.
Forgotten(r) ==
  /\ r \in held /\ calling # r /\ at[r] \in Archives
  /\ archive[at[r]] = "done" /\ r \notin files[at[r]]

\* Something is under way: a load that OnBeforeResourceLoad made asynchronous
\* has not gone on, or a removed provider ("may be deleted immediately or at a
\* later time") is still there.
Busy ==
  /\ ~hung
  /\ \/ \E r \in Loads : status[r] = "async" /\ calls[r] = 0 /\ ~Forgotten(r)
     \/ deleting # {}

\* Every asynchronous load goes on and every removed provider is deleted,
\* unless the IO thread hangs (RemovalReturns) or an archive forgets the load
\* (ArchiveAnswers).
AllSettles == Busy ~> ~Busy

\* "Otherwise, return true and call Request::Continue or Request::Stop"
\* (cef_resource_manager.h:191-193): no load waits at an archive that has been
\* read and has no file for it.
ArchiveAnswers == \A r \in Loads : ~Forgotten(r)

\* RemoveProviders and RemoveAllProviders return: "The removed providers may
\* be deleted immediately or at a later time" (cef_resource_manager.h:262-263).
RemovalReturns == ~hung
=============================================================================
