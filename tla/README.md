# A TLA+ model of cefbook's query router, resource manager, message loops and windows

This repository is the CEF 3 (Chromium Embedded Framework) binary distribution
for Windows together with a book reader built on it. These files model the part
of it that is hardest to get right and hardest to test, check the model with
TLC, and prove theorems about it with TLAPS. Modules are translated from the
source; `PROJECT.json` names, for every definition, the lines it stands for,
and lists the runs, the hazards and the theorems.

## Inventory

| Component | Where | State | Operations | Hard parts | What makes it correct |
|---|---|---|---|---|---|
| **Message router** | `libcef_dll/wrapper/cef_message_router.cc` | browser side: handlers, pending queries, callbacks, posted tasks; renderer side: contexts, requests, posted tasks; four id generators | `cefQuery`, `cefQueryCancel`, `Success`, `Failure`, `CancelPending`, `AddHandler`, `RemoveHandler`, `OnBeforeBrowse`, `OnBeforeClose`, `OnRenderProcessTerminated`, the process messages | two processes, messages, posted tasks, other threads, crashes, reused ids, cancellation from six sides | a query ends exactly once on each side, and no answer reaches another query |
| **Handler registry** | same file, `handler_set_` and the `OnQuery` loop | the set, the loop's copy and iterator | add, remove, offer a query | handlers that come back to the router inside `OnQuery` | each registered handler is asked once, in the promised order; a removed one owns at most the query under the loop |
| **Browser info map** | `libcef_dll/wrapper/cef_browser_info_map.h` | map of maps | `Add`, `Find`, `FindAll`, `clear`, `empty`, `size` | visitors that change the map under `FindAll`'s iterators | it is a set of keys; no inner map is empty; a loop neither skips nor repeats |
| **Resource manager** | `libcef_dll/wrapper/cef_resource_manager.cc` | ordered providers, the request at each, pending deletions | add and remove providers, request, continue, stop, archive loading | two threads, deferred deletion, iterators kept across calls | each request is answered once; a removed provider goes when its last request has moved on |
| **External pump** | `tests/shared/browser/main_message_loop_external_pump*.cc` | one timer, two re-entrancy flags, the posted requests | schedule work, timer, work, run, quit | requests race the timer; work re-enters the pump | requested work is done, and in time; the loop never waits for good |
| **Multi-threaded loop** | `tests/cefclient/browser/main_message_loop_multithreaded_win.cc` | queued tasks, posted messages, the message window | post, run, quit | tasks before and after the message window | no task is lost or overtaken while Run lasts |
| **cefclient windows** | `tests/cefclient/browser/root_window_*`, `browser_window*`, `client_handler.cc`, `temp_window_win.cc`, `main_context_impl.cc` | set of root windows; a window's two destroyed flags, closing flag and browser | create, allow a popup, close, destroy, exit, shut down | three threads, asynchronous close, `beforeunload`, popups on their way | no task meets a dead window; a page agrees to its closing; the application ends when, and only when, the last window has gone |
| **Book reader: windows** | `tests/books/baseWindow.cpp`, `clientHandler.cpp`, `index_Win.cpp` | browser list, full-screen flag, saved style and placement | show, full screen, close, created/closed callbacks, script messages | asynchronous browser creation, DevTools and popups in the same list | the loop quits exactly when the last browser has gone; leaving full screen restores the window |
| **Book reader: settings and scripts** | `tests/books/SqliteHelper.h`, `ClientV8ExtensionHandler.cpp`, `clientScheme.cpp`, `Utils.cpp` | settings row, recent list | get, save, script functions, resource lookup | partly initialised settings, string algorithms at their edges | what is saved is what is read |
| cefsimple, cefclient's drawing and demonstration pages, XML and zip wrappers | see `PROJECT.json` | little of their own | | | |
| `libcef_dll/cpptoc`, `ctocpp`, `libcef_dll/base`, `include`, SQLite, Google Test, resources | | | | generated or third-party | not candidates |

How they interact: an application (cefclient, the book reader) creates browsers
from its windows; CEF calls the application's client, which passes process
messages and life-cycle callbacks on to the browser-side router; the router
keeps its pending queries in a browser info map and calls the application's
handlers; a render process has a renderer-side router, which the client's
render-process handler feeds in the same way. Resource requests pass through
the resource manager on the IO thread. All of it runs inside one of the message
loops. The components in bold are modelled, down to the cefclient windows; the
book reader is not (see "Not modelled").

## Modules

| Module | What it is |
|---|---|
| `MessageRouter` | both sides of the router, for any number of browsers |
| `QueryContract` | abstract: what the header promises about one query |
| `MessageRouterProofs` | type correctness of `MessageRouter`, the key invariant, and that answers match queries |
| `MessageRouterDeskProofs` | what the two sides keep of a query: entries, callbacks, posted answers, contexts, and that they agree |
| `MessageRouterEndsProofs` | that every query ends as promised, and that the router implements `QueryContract` |
| `HandlerRegistry` | the handler set and the `OnQuery` loop, call by call |
| `BrowserInfoMap` | the map of maps, `FindAll` visit by visit |
| `InfoSet` | abstract: a set of keys |
| `BrowserInfoMapProofs` | proofs about `BrowserInfoMap`, and that it implements `InfoSet` |
| `HandlerRegistryProofs` | the registry's type correctness and its two invariants |
| `ResourceManager` | resource providers, the loads that pass them, and archives |
| `ResourceManagerProofs` | the manager's invariant, five safety properties, and that providers are asked in order |
| `ExternalPump` | the loop that pumps CEF's work with one timer |
| `ExternalPumpProofs` | its invariants, for any delays |
| `MultithreadedLoop` | the main thread's loop beside CEF's own UI thread: how tasks are posted, kept, replayed and dropped. It has no actions of its own |
| `ClientWindows` | cefclient's windows, popups and browsers; extends `MultithreadedLoop`, whose tasks are all theirs |
| `ClientWindowsProofs` | the invariant of the tasks' order, and five safety properties for any number of windows |
| `MCMessageRouter`, `MCHandlerRegistry`, `MCBrowserInfoMap`, `MCResourceManager`, `MCExternalPump`, `MCClientWindows` | instances for TLC |

### MessageRouter

State and code: `handlers` is `handler_set_`; `queries` is
`browser_query_info_map_` flattened to a set (`BrowserInfoMap` justifies that);
`callbacks` and `attached` are the `CallbackImpl` objects and whether their
`router_` is set; `uiTasks` and `rtasks` are the tasks posted to `TID_UI` and
`TID_RENDERER`; `ctx` is `context_map_` with the context id each `V8HandlerImpl`
remembers; `requests` is `browser_request_info_map_`; `nextQuery`, `nextCtx` and
`nextReq` are the id generators; `up` and `down` are the process messages, one
FIFO channel per browser and direction. `proc` and `nav` are the environment:
whether the render process runs, has died, or the browser is closed, and what
has become of the last main-frame navigation: `OnBeforeBrowse` announced it, and
then it commits (the contexts go) or aborts (`NavigationAborts`: the router is
not told, and the old document lives on).

There is one action per operation and per posted task, whole: `OnQueryMessage`
is the query branch of `OnProcessMessageReceived` with its four endings,
`OnCallback` the posted half of an answer, `CancelPendingFor` with its visitor,
`CancelQuery` and the failures sent to the renderer. A call made on another
thread is one action for the post and one for the run. The variables `issued`,
`done`, `said`, `got`, `told` and `answered`, and the field `q` of records, are
history: they record which query a thing was made for. No guard that the code
has reads them; the bounds `MaxQueries` and `MaxSuccess` do.

A render process dies at any moment (`RendererCrash`): an arbitrary tail of what
it sent never arrives, what is on its way to it is lost, and the notice of its
death is the last item of its channel. A navigation afterwards starts a process
whose generators begin at 1 again.

What is abstracted:
- Each browser has a render process of its own. (Browsers that share one share
  its generators, which makes ids more distinct, not less.)
- JavaScript argument checks, the text of requests and answers, error codes,
  frame ids and the lookup of the frame a handler is given are left out.
  `GetPendingCount` only reads.
- `OnQuery` is one step that may also answer at once; handlers that come back to
  the router are the subject of `HandlerRegistry`.
- A JavaScript callback is part of the task that runs it; what the script then
  does is another step.
- A script that runs in a context already released is not modelled.
- Ids are unbounded naturals. The code's wrap to 1 at the type's maximum; a
  repeated id needs 2^31 requests of one process with an early one still open.

### HandlerRegistry

A handler is the number its address is, since a `std::set` of pointers iterates
in address order. Between two `OnQuery` calls of a loop, handlers may be added
and removed and queries canceled (`busy` says that a loop is running; posted
answers do not run then). `asked` is the sequence of the calls for the latest
query. `copy`, `order`, `orderThen` and `removedIn` are history; the last is the
query that was being offered when a handler was removed. A handler that another
one removes inside its `OnQuery` is still asked, as the loop runs over a copy
(`cef_message_router.cc:278-288`), and may take the query, as may one that
removes itself; the entry then stays until the query ends by itself, is canceled,
or the handler is added and removed again. `RemovedOwnsOnlyOffered` says that a
removed handler owns this one query at most.

### BrowserInfoMap

`infos` is the nested map. `loop` is the `FindAll` under way and the entry its
iterators are on; `VisitorReturns` is the rest of one turn of its loop and the
step of the iterators to the next entry. Between two turns the visitor's code
adds and removes other entries and clears nothing.

A visitor that takes the entry it is itself being shown out of the map, or
starts a second loop that does, invalidates the first loop's iterator: a
handler that calls `CancelPending` or `RemoveHandler` inside `OnQueryCanceled`
makes `CancelPendingFor` do exactly that (the entry is erased only after the
visitor returns). What follows is undefined, so the model's guard `Free` and the
restriction to one loop leave it out. Handlers should not do it.

### ResourceManager

`providers` is `providers_`; `deleting` and `waiting` are `deletion_pending_` and
`pending_requests_` of its entries; `at` is the `current_entry_pos_` of a load's
`RequestState`, and `held` says that the state is in the `Request` made for that
provider. Its other places are a task in `tasks` (`Continue` and `Stop` move it
there) and the manager's own loop, which never rests. `handlers` is
`pending_handlers_`. `archive`, `files` and `queue` are the archive providers'
load flags, contents and waiting requests. `calling` is the load whose
`OnRequest` is running. `calls`, `asked`, `added`, `answered` and `canceled` are
history.

`SendRequest`'s loop is cut at the calls of `OnRequest`, because application
code may call the manager and any request from inside one: `MoveOn` is the code
from one call's return to the next call (or to the end of the load). Tasks do
not run meanwhile. `DeleteProviders` is the loop of `RemoveProviders`,
`RemoveAllProviders` or the destructor with its calls of `DeleteProvider`; if it
meets an entry whose deletion is already pending it never ends, and `hung` stays
true. A content provider answers inside `OnRequest`, a directory provider after
its file was opened on the FILE thread; both do what an application's provider
may do and are not told apart from it. Whether a URL matches and a file is found
is a choice.

Left out: `SetUrlFilter` and `SetMimeTypeResolver`; calls from inside
`OnRequestCanceled` back into the manager; and the destruction of the manager
from inside an `OnRequest`, which leaves `ContinueRequest` running in a deleted
object.

### ExternalPump

`messages` is the main thread's queue, `timer` the one pending timer, `active`
and `reentrancy` are `is_active_` and `reentrancy_detected_`; `calls` counts the
`CefDoMessageLoopWork` calls on the stack. A call of CEF's is two steps,
`BeginCall` (in `DoWork` or `DrainCall`) and `WorkReturns`, and between them the
call dispatches messages and timer events itself, so `DispatchWork` and
`TimerFires` may come in the middle and find `is_active_` set. The last ten
calls, after the loop, are made by `Run` itself and leave `is_active_` alone: a
message that one of them dispatches starts a second call inside the first.

`soon`, `due` and `started` are history: work that was asked for at once, the
time until the delayed call that CEF asked for last, and that the loop has
handled a request. CEF's own promise is that each delayed request replaces the
one before; a stream of delayed requests therefore keeps moving the timer, and
nothing is claimed of it. Work takes no time, and time passes only while
`GetMessage` waits: the properties speak of the schedule, not of how long work
takes. Windows makes `WM_TIMER` only when no posted message is there; that is
the external assumption in `TimerFires`. Nested message loops (menus, dialogs)
are left out: the header disclaims them
(`main_message_loop_external_pump.h:14-21`).

### MultithreadedLoop and ClientWindows

`phase` is where `Run` is: before its message window exists, in its loop,
between the loop and the window's destruction, over, and after CEF's shutdown.
`queued` is `queued_tasks_`, `posted` the main thread's messages. `PostTask` puts
a task into one or the other; `PostQuitMessage` sets `quitting`, and WM_QUIT is
only returned by `GetMessage` when no posted message is left, which is Windows'
rule and an assumption of `LoopEnds`.

`rootWindows` is `root_windows_`. For each window, `hwnd` is its native window,
`known`, `isClosing` and `browserDestroyed` are the flags of `BrowserWindow` and
`RootWindowWin`, and `cef` is how far the browser has come, which is CEF's to
say: allowed or waiting for its window, requested, live, closing (the close was
accepted), doomed (its window was destroyed), gone, or never created. `shown`
says that the browser's window has been moved into the RootWindow's, `temp`
that the `TempWindow`, the first parent of popups, is there. `astray` and
`notified` are history.

There is one action per callback and per task, on three threads: `OnBeforePopup`
on the IO thread; `OnOpenURLFromTab`, `OnAfterCreated`, `DoClose` and
`OnBeforeClose` on CEF's UI thread; the six tasks they post, WM_CLOSE, the Exit
command and the loop's own steps on the main thread. A task is the whole of what
the main thread does on it: `OnBrowserClosed` detaches the delegate, destroys
the native window if it is still there, runs WM_NCDESTROY inside that, and calls
`NotifyDestroyedIfDone` from both places.

What is assumed of CEF and Windows, as the headers say:
- A popup's creation fails if its opener or its parent window is gone first, and
  nobody is told (`cef_life_span_handler.h:74`).
- After `DoClose` returned false CEF sends WM_CLOSE to the browser's top-level
  window; `CloseBrowser(false)` after an accepted close does nothing.
- Destroying a parent window destroys the browsers in it; CEF then calls
  `OnBeforeClose`.
- No browser can be created in a window that has been destroyed.

`OnOpenURLFromTab` posts its two tasks in one step: only other threads' tasks
could come between them, and none of those is about the new window. A popup that
closes itself before the main thread has heard of it is still in the
`TempWindow`, and its WM_CLOSE destroys that window and every popup in it
(`CloseTempWindow`). If the popup itself was moved out before that WM_CLOSE came,
which is the order its tasks are posted in, it is left in an open window of its
own, which the next WM_CLOSE, of the user or of Exit, destroys (`LeftOpen`).
DevTools windows, Views, off-screen windows and request contexts are left
out.

## Runs

| Run | Question | Instance |
|---|---|---|
| `RouterOnePage` | Is every query ended exactly once, on both sides, and by its own answer? | 1 browser, 1 frame, 2 queries, persistent or not |
| `RouterTwoBrowsers` | Do two browsers with equal context and request ids disturb each other? Is the invariant the proofs use right? | 2 browsers, one of which navigates, crashes and closes, 2 queries |
| `RouterContract` | Does the router implement `QueryContract`? Does every query end, and is every handler released? | 2 frames, 2 handlers, calls from other threads, 1 query, fairness |
| `RegistryDispatch` | Is each query offered to every handler once, and which may a removed handler own? | 3 handlers, 3 queries |
| `RegistryOrder` | Are handlers asked in the order `AddHandler` promises? **No.** | the same |
| `InfoMap` | Is the map a set of keys, and is `FindAll` right under re-entrant changes? | 2 browsers, 3 ids each |
| `ResourceChain` | Does each load end once, with valid iterators and in order? Does every load go on, and every removed provider go? | 2 loads, 2 providers and an archive, fairness |
| `ResourceArchive` | Is every load answered that waited for an archive? **No.** | 2 loads, an archive and 1 provider |
| `ResourceRemoval` | Does every removal return? **No.** | the same |
| `Pump` | Is work done that was asked for, and no delayed call late? | delays of -1 to 4 ms and the placeholder, timer of at most 3 ms, fairness |
| `ClientWindows` | Do windows and browsers go together, at their pages' consent, does the loop end when, and only when, it should, and what is left in its queue? | 2 windows (the first and one popup or window), fairness |
| `ClientQuits` | Is Quit called after all windows have been destroyed? **No.** | the same |

What the properties say:
- `AnswerMatchesQuery`: a reply that finds a request finds the one it was made
  for, although a new render process draws the same ids again.
- `NoQueryLost`: a query a page waits for is in exactly one of four places that
  will end it (its message, a live callback, a posted answer, a reply). The one
  exception is a query that `OnBeforeBrowse` canceled: its handler was told and
  its page was not. It stays so only when the navigation aborts; the queries the
  old document issues after that are under the rule again.
- `NoEntryOrphaned`: an entry whose page has gone has a cancel message or the
  process's end coming.
- `HandledQueryEndsOnce`: for its handler a query ends by its last answer or by
  `OnQueryCanceled`, and not by both, nor twice by either.
- `LiveCallbackHasEntry`, `RequestHasContext`: the two pairs of objects that the
  code keeps in step by hand.
- `ContractHolds`: every step is one of `QueryContract`: for instance, the page
  hears no more successes than the handler sent, and hears a failure only when
  the handler can answer no more.
- `PageIsAnswered`, `HandlerIsReleased`: the liveness of the two sides. A query
  left over by an aborted navigation is excused (`Forsaken`), and no other.
- `OfferedToEachOnce`: the loop over the copy.
- `RemovedOwnsOnlyOffered`: of a removed handler's queries all are canceled, but
  for the one that was being offered when it was removed, which it may still take.
- `NoEmptyInnerMap`, `VisitsEachOnce`, `IsInfoSet`: the map.
- `CallbackRunsOnce`: the state of a load is in one place, or was destroyed once.
- `IteratorsAreValid`, `RemovedProviderIsLeaving`: the entry a load is at stays
  as long as the load does; a removed one has loads, and each of them is leaving.
- `CanceledIsUnanswered`: a provider hears of a cancellation only if it has not
  answered.
- `AskedInOrder`: every load goes through the providers by order and then by age,
  whatever is added and removed on its way, and skips none that is there.
- `AllSettles`: every load goes on and every removed provider goes, up to the two
  flaws below.
- `NoRequestLost`: work asked for at once is on record until a call begins, also
  when the request reached a `DoWork` that was re-entered and did nothing.
- `DelayedCallInTime`, `NeverLate`: the one timer, which every request kills, is
  never later than the delayed call that is due.
- `NeverStalls`, `WorkIsDone`: the loop always has a timer or a message to wake
  it, and a request is followed by a call.
- `DelegateIsAlive`: a task about a browser finds its RootWindow, which the
  handler's bare pointer names, still owned.
- `DestroyedOnce`: a window is erased once and not registered again.
- `ExitsAfterBrowsers`: when the loop is told to quit no browser exists.
- `StrandsOnlyRegistrations`: what stays in `queued_tasks_` when `Run` is over are
  registrations of popups that will have no browser, and no task of a browser.
  (Such a registration may be left there, against the assertion of
  `main_message_loop_multithreaded_win.cc:31`. One that the loop still runs after
  the last window has gone leaves its RootWindow in `root_windows_`, against
  `root_window_manager.cc:60`.)
- `PageAgrees`: a window goes under a page only when CEF has accepted the close.
- `AcceptedCloseCompletes`: an accepted close needs no help, also of a popup that
  closes before its window is its own; the one exception is `LeftOpen`.
- `EndsWhenEmpty`: when no window is registered the application ends.

### Findings

- `RegistryOrder`: `AddHandler` documents that `first` decides the order in
  which handlers are asked, but the set is ordered by address and the hint given
  to `insert` changes nothing. In the run handler 1 is added, then handler 2 as
  the first; handler 1, at the lower address, is asked first all the same.
- `ResourceArchive`: loads that waited for an archive which turns out to have no
  file for them are not continued, though the header asks every provider to
  continue or stop a request it took. (A load that comes later is declined and
  goes to the next provider.)
- `ResourceRemoval`: removing a provider a second time, while requests are still
  leaving it, never returns: `DeleteProvider` does not advance the iterator. The
  destructor meets the same loop.
- `ClientQuits`: a popup's RootWindow is registered before its browser exists.
  If CEF cancels the creation because the opener was closed first, nothing ever
  unregisters it: no window is left, and the application does not quit.

A load that every provider declines at once has its callback run and also makes
`OnBeforeResourceLoad` return `RV_CONTINUE`. That is left to the caller, which is
not part of this repository.

### Bounds

`MaxQueries` is the number of `cefQuery` calls in a behaviour. Two are enough
for the ids of a dead process to meet those of a new one, for two queries of one
context to be canceled together, and for two browsers to hold equal ids.
`MaxSuccess` bounds the `Success` calls on one callback: with one, a persistent
query is still answered, kept, and ended later. `MaxTasks` bounds the length of
`uiTasks` that calls from other threads may fill: in `RouterContract` one such
call is posted before another task runs. `MaxContexts` bounds the context ids
that a bare `cefQueryCancel` may draw. `Disturbed` limits which browsers
navigate, die or close: the other browser of `RouterTwoBrowsers` must be left
alone. Navigations, crashes and restarts are unbounded. Three handlers give a
loop a first, a middle and a last; three ids give an inner map the same. Each
provider is added once and each load begins once; two loads are enough for one
to take away what the other waits at, and three providers for a removal before,
at and behind a load. Two of them share an order and two an identifier.

`MaxMessages` bounds the pump's queue for new requests, so that three wait at
once; what the pump posts itself is not bounded. The delays are one at once, one
of zero, one below the maximum, one above it, and the placeholder's own value;
two last calls stand for ten, since nothing depends on their number (the
theorems have no such limit). Two windows are the first and one other, opened as
a popup or by a link, which is what every property relates; `MaxPosted` bounds
the queue in which Exit is chosen. With three windows (a popup of a popup, or
two of one opener) the safety invariants were checked once as well, without
error (5,727,904 states); the theorems hold for any number.

The runs of `ResourceManager`, `ExternalPump` and `ClientWindows` do not check
for deadlock: a manager that is destroyed, a thread that hangs, and a loop that
is over, stop.

`RouterOnePage` and `RouterTwoBrowsers` have no calls from other threads
(`MaxTasks = 0`) and `RouterTwoBrowsers` no persistent queries; the theorems
below have neither limit.

### Fairness

`MessageRouter`'s `FairSpec` assumes weak fairness of: the UI thread's posted
tasks; each browser's incoming messages; delivery to each render process and its
posted tasks; the outcome of an announced main-frame navigation (each context is
released, or it aborts); and each handler's final
answer to a non-persistent query, which the header demands ("a Callback method
must be executed", `cef_message_router.h:256-258`). Task runners and IPC channels
are FIFO and always drained, which justifies the first three. Nothing makes a
page act, a user close a window, a handler end a persistent query, or a process
die.

`ResourceManager`'s assumes that posted tasks run, that `OnRequest` returns, that
a read of an archive ends, and that a provider which is not an archive answers
each request it took (`cef_resource_manager.h:190-195`).

`ExternalPump`'s assumes that the loop dispatches what is posted, that a due
timer fires, that CEF's calls return and that time passes while the loop waits.
Nobody has to request anything, and a message need not be dispatched inside a
call of CEF's.

`ClientWindows`'s assumes that the main thread and the loop go on, that an
allowed popup is asked for, that CEF creates a browser or gives it up, and that
`OnBeforeClose` comes after the browser's window was destroyed. No page has to
ask or agree to anything, no `beforeunload` dialog is answered, and no user acts.

## Proofs

All theorems hold for every value of the constants that the modules' assumptions
allow.

- `TypeCorrect` (`MessageRouterProofs`): `Spec => []TypeOK`. One lemma per
  group of actions. That `queries` is finite is part of it: the failures of a
  cancellation are sequences over its entries.
- `KeysInvariant` (`MessageRouterProofs`): `Spec => []KeyInv`, inductive
  relative to `TypeOK`. `KeyInv` has three parts. `GoneIsLast`: the notice of a
  process's death is the last message in its channel, and is there exactly as
  long as the process is dead and unprocessed messages remain. `DeadIsEmpty`: a
  process that does not run has nothing in memory or on its way to it, and when
  its last message has been processed the browser side has no entry of it.
  `KeysUnique`: every request id about in a running process's half of the
  system was drawn by that process, for one query. The argument: a new id is
  greater than all that are about; every other step only moves keys from place
  to place; a process starts only when its channel is empty, and then the first
  two parts say that no key is left.
- `AnswersMatch`: `Spec => []AnswerMatchesQuery`. `AnswerMatchesQuery` is not
  inductive: it says nothing of the messages and entries from which replies are
  made, nor of the ids that a new process will draw. `KeyInv` does, and implies
  it (a process that does not run has no requests).
- `DeskInvariant` (`MessageRouterDeskProofs`): `Spec => [](SentOnce /\ DeskInv /\
  TasksInv)`, and from it `LiveCallbacks` and `HandledQueriesEnd`. `SentOnce`: a
  query is in one channel at one place, and in none once a handler has it.
  `DeskInv`: every entry has its callback, a callback that can still answer has
  its entry, and an entry that is gone either had its handler told or its last
  answer sent. `TasksInv` closes the gap that a posted answer opens: between
  `Success` or `Failure` and the task that sends it the callback is detached but
  the entry is still there, so every entry has a live callback or a task that
  will end it, never both.
- `ContextInvariant`: frames of a running process have contexts of their own, an
  open request's context is one of them, and a cancel message on its way names
  nothing that is still open. `RequestsHaveContexts` follows. Relative to
  `KeyInv`, because ids are drawn anew.
- `AgreeInvariant`: messages, entries, callbacks and replies made for an open
  request carry its ids and persistence. With it, what the browser side does to
  the entries of a key is what it does to the page's request.
- `NoQueryIsLost` (`MessageRouterEndsProofs`): `Spec => []NoQueryLost`. The proof
  counts `Ways(b, r)`: query messages, entries and last replies of request `r`.
  Each group of actions has a lemma that says what it does to the sum: one place
  gives what another takes, a cancellation for a page that is going makes it
  zero, and `cefQuery` makes it one.
- `EntriesAreCovered`: `Spec => []NoEntryOrphaned`. `OrphanInv` strengthens it to
  query messages, and speaks of positions: behind every entry or query message
  that its page has given up stands a cancel message for it, or the notice of
  the process's death, in the same channel.
- `HeardInvariant`, `DoneInvariant`: successes a page has heard, plus those on
  their way to it, plus the one that is posted, are no more than the handler
  sent; a query that has ended is not open and not on its way to a handler.
- `ContractIsKept`: `Spec => ContractHolds`, the refinement of `QueryContract`
  under `Page` and `Desk`. For each of the contract's actions there is one lemma
  that maps a step with that effect; then the router's actions are taken one by
  one, and the invariants above supply the guards: a page's query ends with the
  desk's answer because the reply's entry was its own (`AgreeInv`), it is not
  heard of twice (`HeardInv`), and no handler takes it after its end (`DoneInv`).
- `RegistryTypeCorrect`, `EachIsAskedOnce`, `RemovedKeepsOnlyOffered`
  (`HandlerRegistryProofs`): the loop's invariant says that what was asked and
  what is left are disjoint and make up the copy together, and that a handler of
  the copy that is not in the set any more was removed under this very query
  (`RemovedInv`).
- `InfoMapTypeCorrect`, `InnerMapsAreNotEmpty`, `EachVisitedOnce`
  (`BrowserInfoMapProofs`): consequences of `IInv`, which adds to the first two
  what holds in the middle of a loop: everything visited lies behind the
  iterators, and no key that stayed in the map was left behind. `AfterIsNext`
  is the heart: the iterators step to the next key of the scope, because a
  set of natural numbers has a lowest member (`LowestIsLowest`).
- `ImplementsInfoSet`: `Spec => Flat!Spec`, the refinement.
- `PumpTypeCorrect`, `RequestsAreKept`, `DelayedCallsAreInTime`,
  `LoopNeverStalls`, `NoCallIsLate` (`ExternalPumpProofs`): one inductive
  invariant for all of them. It adds `CallsInv`, which counts the calls of
  `CefDoMessageLoopWork` on the stack in each phase: one while `is_active_` is
  set and none otherwise as long as the loop runs, up to two among the last
  calls, which do not look at `is_active_`, and none at the end.
- `WindowsInvariant` (`ClientWindowsProofs`): `Spec => []WindowsInv`, and from it
  `WindowsTypeCorrect`, `DelegateLives`, `WindowsDestroyedOnce`,
  `NoBrowserAtExit`, `OnlyRegistrationsStrand` and `PageAgreesToClose`. The properties speak of one task or
  one state, and depend on the order in which three threads have posted.
  `WindowsInv` states that order, as predicates on a sequence of tasks: each task
  is backed by the state (`Backed`); nothing about a window comes after its
  "closed" (`ClosedLast`); a browser's tasks come behind its window's
  registration (`RegisteredFirst`); and while a window that may have a browser
  waits to be registered, another is registered before it and is not reported
  closed before it (`Covered`). The last is why the loop does not quit too early
  (`LastWindow`): when the last registered window is reported closed, take the
  first registration behind it of a window with a browser; the window that covers
  it would have to be registered behind the report and before that registration,
  which contradicts the choice. The lemmas first treat sequences (what appending,
  prefixing and taking a task does to them), then states, then each action.
  `OnlyRegistrationsStrand` adds `EndInv`: `Run` ends only when it was told to
  quit, so no browser is there, and after that only `OnBeforePopup` posts.

- `ManagerInvariant` (`ResourceManagerProofs`): `Spec => []ManagerInv`, and from
  it `ManagerTypeCorrect`, `LoadsCallBackOnce`, `IteratorsStayValid`,
  `RemovedProvidersLeave`, `CanceledAreUnanswered` and `ProvidersAskedInOrder`,
  the last an action property. None of the properties is inductive alone.
  `ListInv`: the list is in the order of `Before` and holds nothing that was not
  added, so "the next entry" is "the nearest provider". `PlaceInv`: a load is in
  the `pending_requests_` of the entry it is at and of no other, and its state is
  there or in a task. `CallingInv`: the load an archive is about to look at has
  its state, because no code of the application runs before. `DeletingInv`: the
  requests of a removed entry have lost their states, so they are in tasks by
  `PlaceInv`. `AskedInv`: a load was shown to the providers before the one it is
  at, also to those that are gone by now; this is what a new provider or a removed
  one must not disturb. `AnswerInv`: an answered or canceled `Request` never gets a
  state again, because a load is not shown to the same provider twice. Only two
  things happen to a load, and each has one lemma: its state leaves a `Request`
  for a task (`PostedKeeps`), or it goes to another provider or to its end
  (`RelocateKeeps`); the actions are then taken one by one.

Every safety invariant and action property that a run checks and passes is thus a
theorem, and so is the refinement of both abstract specifications. Only
model-checked, because out of the prover's reach: the liveness properties.

## Not modelled

- **Book reader.** Its windows (`tests/books/baseWindow.cpp`,
  `clientHandler.cpp`) are sequences of Win32 and CEF calls on one thread with
  state of a few flags, and nothing in the repository says what they promise; the
  two places where a sequence of calls goes wrong are listed as hazards. Its
  settings are one row read and written through SQLite. `tests/book` is an older
  copy of it.
- **cefsimple**: a browser list like the book reader's, and nothing else.
- **cefclient's drawing, dialogs and demonstration pages**: rendering and input,
  with little state of their own. Its Views and off-screen windows need CEF's
  Views framework and a renderer that the repository does not hold.
- **Zip archives, streams, XML**: sequential reading of data through the library.
- **The base library, `cpptoc` and `ctocpp`**: third-party or generated code.
- **SQLite and Google Test**, which are most of the repository's lines.
- **Wrapping of ids**: see `MessageRouter`.

## What is left

- `SetUrlFilter`, `SetMimeTypeResolver` and calls back into the manager from
  `OnRequestCanceled`.
