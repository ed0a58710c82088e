----------------------------- MODULE ClientWindows -----------------------------
(***************************************************************************)
(* cefclient's windows on Windows, with CEF's UI thread apart from the     *)
(* main thread (tests/cefclient/browser: root_window_manager.cc,           *)
(* root_window_win.cc, browser_window.cc, browser_window_std_win.cc,       *)
(* client_handler.cc, temp_window_win.cc).                                 *)
(*                                                                         *)
(* Three threads take part.  The IO thread allows popups, CEF's UI thread  *)
(* creates and closes browsers, and the main thread owns the windows; the  *)
(* first two tell the third by tasks on its loop, and CEF asks a window to *)
(* close by WM_CLOSE.  A RootWindow leaves root_windows_ when both its     *)
(* native window and its browser are destroyed, in whatever order; when    *)
(* none is left the main loop is told to quit.                             *)
(***************************************************************************)
EXTENDS MultithreadedLoop, FiniteSets, SequencesExt

CONSTANTS
  Windows,    \* the RootWindows that may be made
  First,      \* the one that RunMain creates before the loop
  NoWindow,   \* none of them
  MaxPosted   \* bound: Exit is chosen while fewer messages are posted

ASSUME WindowsAssumption ==
  First \in Windows /\ NoWindow \notin Windows /\ IsFiniteSet(Windows) /\ MaxPosted \in Nat

VARIABLES
  rootWindows,       \* root_windows_
  opener,            \* the browser that a popup belongs to, or NoWindow
  hwnd,              \* the RootWindow's native window
  known,             \* BrowserWindow::browser_ is set
  isClosing,         \* BrowserWindow::is_closing_
  browserDestroyed,  \* browser_destroyed_; the handler's delegate is detached
  temp,              \* the TempWindow is there
  cef,               \* the browser, as CEF sees it
  shown,             \* the browser's window has been parented to the RootWindow's
  closeAsked,        \* CloseBrowser(false) is on its way to the UI thread
  astray,            \* history: CEF sent WM_CLOSE to the TempWindow instead
  notified           \* history: calls of OnRootWindowDestroyed

root == <<rootWindows, opener, hwnd, known, isClosing, browserDestroyed, temp>>
browser == <<cef, shown, closeAsked, astray>>
vars == <<loop, root, browser, notified>>

IsPopup(w) == opener[w] # NoWindow
Event(what, w) == [what |-> what, window |-> w]

\* RunMain has created the first window, and asked for its browser.
Init ==
  /\ LoopInit
  /\ rootWindows = {First}
  /\ opener = [w \in Windows |-> NoWindow]
  /\ hwnd = [w \in Windows |-> IF w = First THEN "open" ELSE "none"]
  /\ known = [w \in Windows |-> FALSE]
  /\ isClosing = [w \in Windows |-> FALSE]
  /\ browserDestroyed = [w \in Windows |-> FALSE]
  /\ temp = TRUE
  /\ cef = [w \in Windows |-> IF w = First THEN "requested" ELSE "none"]
  /\ shown = [w \in Windows |-> w = First]
  /\ closeAsked = [w \in Windows |-> FALSE]
  /\ astray = {}
  /\ notified = [w \in Windows |-> 0]

-----------------------------------------------------------------------------
(* The IO thread: OnBeforePopup. *)

CefRuns == phase # "exited"

\* A page asks for a popup and CEF calls OnBeforePopup.
PopupAsked(o, w) ==
  /\ CefRuns /\ cef[o] = "live" /\ cef[w] = "none"
  /\ opener' = [opener EXCEPT ![w] = o]
  /\ cef' = [cef EXCEPT ![w] = "allowing"]
  /\ UNCHANGED <<loop, rootWindows, hwnd, known, isClosing, browserDestroyed, temp,
                 shown, closeAsked, astray, notified>>

\* CreateRootWindowAsPopup has made the RootWindow; it posts its registration
\* and allows the popup, as a child of the TempWindow.
OnBeforePopup(w) ==
  /\ CefRuns /\ cef[w] = "allowing"
  /\ cef' = [cef EXCEPT ![w] = "requested"]
  /\ Post(<<Event("register", w)>>, <<>>)
  /\ UNCHANGED <<phase, quitting, root, shown, closeAsked, astray, notified>>

-----------------------------------------------------------------------------
(* CEF's UI thread. *)

\* OnOpenURLFromTab: a new window, created and registered by tasks.
OnOpenURLFromTab(o, w) ==
  /\ CefRuns /\ cef[o] = "live" /\ cef[w] = "none"
  /\ cef' = [cef EXCEPT ![w] = "waiting"]
  /\ shown' = [shown EXCEPT ![w] = TRUE]
  /\ Post(<<Event("create", w), Event("register", w)>>, <<>>)
  /\ UNCHANGED <<phase, quitting, root, closeAsked, astray, notified>>

\* A popup needs its opener, and each browser its parent window.
CanBeCreated(w) ==
  IF IsPopup(w) THEN temp /\ cef[opener[w]] # "gone" ELSE hwnd[w] = "open"
CanBeCanceled(w) ==
  ~CanBeCreated(w) \/ (IsPopup(w) /\ cef[opener[w]] = "doomed")

OnAfterCreated(w) ==
  /\ CefRuns /\ cef[w] = "requested" /\ CanBeCreated(w)
  /\ cef' = [cef EXCEPT ![w] = "live"]
  /\ Post(<<Event("created", w)>>, <<>>)
  /\ UNCHANGED <<phase, quitting, root, shown, closeAsked, astray, notified>>

\* CEF gives the browser up and tells nobody.
CreationCanceled(w) ==
  /\ CefRuns /\ cef[w] = "requested" /\ CanBeCanceled(w)
  /\ cef' = [cef EXCEPT ![w] = "never"]
  /\ UNCHANGED <<loop, root, shown, closeAsked, astray, notified>>

\* Mutant: WM_CLOSE goes out before the main thread is told.
MutDoClose(w) ==
  /\ cef' = [cef EXCEPT ![w] = "closing"]
  /\ astray' = IF shown[w] THEN astray ELSE astray \cup {w}
  /\ LET close == IF shown[w] THEN Event("WM_CLOSE", w) ELSE Event("WM_CLOSE", NoWindow)
     IN IF HasMessageWindow THEN Post(<<close, Event("closing", w)>>, <<>>)
                            ELSE Post(<<Event("closing", w)>>, <<close>>)

\* DoClose tells the main thread and allows the close; CEF then sends WM_CLOSE
\* to the browser's top-level window.
DoClose(w) ==
  /\ cef' = [cef EXCEPT ![w] = "closing"]
  /\ astray' = IF shown[w] THEN astray ELSE astray \cup {w}
  /\ Post(<<Event("closing", w)>>, <<Event("WM_CLOSE", IF shown[w] THEN w ELSE NoWindow)>>)

\* The page calls window.close().
ScriptCloses(w) ==
  /\ CefRuns /\ cef[w] = "live"
  /\ DoClose(w)
  /\ UNCHANGED <<phase, quitting, root, shown, closeAsked, notified>>

\* CloseBrowser(false): 'onbeforeunload' allows the close, or keeps the page.
CloseBrowser(w) ==
  /\ CefRuns /\ closeAsked[w]
  /\ closeAsked' = [closeAsked EXCEPT ![w] = FALSE]
  /\ \/ cef[w] = "live" /\ DoClose(w)
     \/ UNCHANGED <<posted, queued, cef, astray>>
  /\ UNCHANGED <<phase, quitting, root, shown, notified>>

\* The browser's window has been destroyed.
OnBeforeClose(w) ==
  /\ CefRuns /\ cef[w] = "doomed"
  /\ cef' = [cef EXCEPT ![w] = "gone"]
  /\ Post(<<Event("closed", w)>>, <<>>)
  /\ UNCHANGED <<phase, quitting, root, shown, closeAsked, astray, notified>>

-----------------------------------------------------------------------------
(* The main thread: tasks and window messages, one at a time. *)

Next1 == Head(posted)
Rest == Tail(posted)
Dispatches(what) == Dispatching /\ Next1.what = what

\* DestroyWindow on |windows|: the browsers' windows in them go as well.
Doomed(windows) ==
  [w \in Windows |-> IF w \in windows /\ cef[w] \in {"live", "closing"} THEN "doomed" ELSE cef[w]]

\* RootWindowWin::CreateRootWindow of a window that is no popup.
CreateRootWindow ==
  /\ Dispatches("create") /\ posted' = Rest
  /\ hwnd' = [hwnd EXCEPT ![Next1.window] = "open"]
  /\ cef' = [cef EXCEPT ![Next1.window] = "requested"]
  /\ UNCHANGED <<phase, queued, quitting, rootWindows, opener, known, isClosing,
                 browserDestroyed, temp, shown, closeAsked, astray, notified>>

OnRootWindowCreated ==
  /\ Dispatches("register") /\ posted' = Rest
  /\ rootWindows' = rootWindows \cup {Next1.window}
  /\ UNCHANGED <<phase, queued, quitting, opener, hwnd, known, isClosing,
                 browserDestroyed, temp, browser, notified>>

\* A popup's native window is created now, and its browser moved there.
OnBrowserCreated ==
  /\ Dispatches("created") /\ posted' = Rest
  /\ LET w == Next1.window
     IN /\ known' = [known EXCEPT ![w] = TRUE]
        /\ hwnd' = IF IsPopup(w) THEN [hwnd EXCEPT ![w] = "open"] ELSE hwnd
        /\ shown' = [shown EXCEPT ![w] = @ \/ cef[w] \in {"live", "closing"}]
  /\ UNCHANGED <<phase, queued, quitting, rootWindows, opener, isClosing,
                 browserDestroyed, temp, cef, closeAsked, astray, notified>>

OnBrowserClosing ==
  /\ Dispatches("closing") /\ posted' = Rest
  /\ isClosing' = IF browserDestroyed[Next1.window] THEN isClosing
                  ELSE [isClosing EXCEPT ![Next1.window] = TRUE]
  /\ UNCHANGED <<phase, queued, quitting, rootWindows, opener, hwnd, known,
                 browserDestroyed, temp, browser, notified>>

\* Mutants: Quit is called while other windows are left; the set is tested
\* before the window is erased.
MutOnRootWindowDestroyed(w, rest) ==
  /\ rootWindows' = rootWindows \ {w}
  /\ PostAfter(rest, <<Event("quit", NoWindow)>>, <<>>)
MutOnRootWindowDestroyed2(w, rest) ==
  /\ rootWindows' = rootWindows \ {w}
  /\ PostAfter(rest, IF rootWindows = {} THEN <<Event("quit", NoWindow)>> ELSE <<>>, <<>>)

OnRootWindowDestroyed(w, rest) ==
  /\ rootWindows' = rootWindows \ {w}
  /\ PostAfter(rest, IF rootWindows' = {} THEN <<Event("quit", NoWindow)>> ELSE <<>>, <<>>)

\* NotifyDestroyedIfDone has found both destroyed |times| times in this step.
NotifyDestroyed(w, times, rest) ==
  /\ IF times > 0 THEN OnRootWindowDestroyed(w, rest)
     ELSE posted' = rest /\ UNCHANGED <<queued, rootWindows>>
  /\ notified' = [notified EXCEPT ![w] = @ + times]

\* Mutant: browser_destroyed_ is set before Close(true).
MutTimesNotified(w) == IF hwnd[w] = "open" THEN 2 ELSE IF hwnd[w] = "destroyed" THEN 1 ELSE 0

\* OnBrowserWindowDestroyed calls it up to twice: from the WM_NCDESTROY of
\* Close(true), before browser_destroyed_ is set, and at its end.
TimesNotified(w) ==
  IF hwnd[w] = "open" /\ browserDestroyed[w] THEN 2 ELSE IF hwnd[w] = "none" THEN 0 ELSE 1

\* BrowserWindow::OnBrowserClosed: the delegate is detached, and the native
\* window destroyed if the browser was first.
OnBrowserClosed ==
  /\ Dispatches("closed")
  /\ LET w == Next1.window
     IN /\ known' = [known EXCEPT ![w] = FALSE]
        /\ hwnd' = [hwnd EXCEPT ![w] = IF @ = "open" THEN "destroyed" ELSE @]
        /\ browserDestroyed' = [browserDestroyed EXCEPT ![w] = TRUE]
        /\ NotifyDestroyed(w, TimesNotified(w), Rest)
  /\ UNCHANGED <<phase, quitting, opener, isClosing, temp, browser>>

Quits ==
  /\ Dispatches("quit") /\ posted' = Rest
  /\ PostQuitMessage
  /\ UNCHANGED <<phase, queued, root, browser, notified>>

\* Mutant: a close that was only asked for counts as closing.
MutAsksBrowser(w, rest) ==
  /\ isClosing' = [isClosing EXCEPT ![w] = TRUE]
  /\ closeAsked' = [closeAsked EXCEPT ![w] = TRUE]
  /\ posted' = rest
  /\ UNCHANGED <<hwnd, cef, queued, rootWindows, notified>>

\* OnClose leaves the close to the browser...
AsksBrowser(w, rest) ==
  /\ closeAsked' = [closeAsked EXCEPT ![w] = TRUE]
  /\ posted' = rest
  /\ UNCHANGED <<hwnd, cef, isClosing, queued, rootWindows, notified>>

\* ... or allows it, and the default is DestroyWindow, so WM_NCDESTROY.
DestroysWindow(w, rest) ==
  /\ hwnd' = [hwnd EXCEPT ![w] = "destroyed"]
  /\ cef' = Doomed({w})
  /\ NotifyDestroyed(w, IF browserDestroyed[w] THEN 1 ELSE 0, rest)
  /\ UNCHANGED <<closeAsked, isClosing>>

\* RootWndProc on WM_CLOSE, with |rest| the messages that are left.
OnClose(w, rest) ==
  /\ IF known[w] /\ ~isClosing[w] THEN AsksBrowser(w, rest) ELSE DestroysWindow(w, rest)
  /\ UNCHANGED <<phase, quitting, opener, known, browserDestroyed, temp, shown, astray>>

\* WM_CLOSE for a window that is open; one for a window that is gone is dropped.
DispatchClose ==
  /\ Dispatches("WM_CLOSE") /\ Next1.window # NoWindow
  /\ IF hwnd[Next1.window] = "open" THEN OnClose(Next1.window, Rest)
     ELSE posted' = Rest /\ UNCHANGED <<phase, queued, quitting, root, browser, notified>>

\* DefWindowProc destroys the TempWindow, and the popups that are still in it.
CloseTempWindow ==
  /\ Dispatches("WM_CLOSE") /\ Next1.window = NoWindow /\ posted' = Rest
  /\ temp' = FALSE
  /\ cef' = Doomed({w \in Windows : ~shown[w]})
  /\ UNCHANGED <<phase, queued, quitting, rootWindows, opener, hwnd, known, isClosing,
                 browserDestroyed, shown, closeAsked, astray, notified>>

\* The user closes a window.
UserCloses(w) ==
  /\ phase = "running" /\ hwnd[w] = "open"
  /\ OnClose(w, posted)

\* The Exit command: CloseAllWindows(false) posts WM_CLOSE to each window.
OnExit ==
  /\ phase = "running" /\ Len(posted) < MaxPosted
  /\ \E w \in Windows : hwnd[w] = "open"
  /\ \E order \in SetToSeqs({w \in rootWindows : hwnd[w] = "open"}) :
       Post(<<>>, [i \in DOMAIN order |-> Event("WM_CLOSE", order[i])])
  /\ UNCHANGED <<phase, quitting, root, browser, notified>>

\* MainContextImpl::Shutdown, after Run.
Shutdown ==
  /\ phase = "over"
  /\ phase' = "exited"
  /\ UNCHANGED <<queued, posted, quitting, root, browser, notified>>

MainThread ==
  \/ CreateRootWindow \/ OnRootWindowCreated
  \/ OnBrowserCreated \/ OnBrowserClosing \/ OnBrowserClosed
  \/ Quits \/ DispatchClose \/ CloseTempWindow

LoopSteps == (RunBegins \/ LoopEnds \/ RunReturns) /\ UNCHANGED <<root, browser, notified>>

Next ==
  \/ \E o, w \in Windows : PopupAsked(o, w) \/ OnOpenURLFromTab(o, w)
  \/ \E w \in Windows :
       \/ OnBeforePopup(w) \/ OnAfterCreated(w) \/ CreationCanceled(w)
       \/ ScriptCloses(w) \/ CloseBrowser(w) \/ OnBeforeClose(w)
       \/ UserCloses(w)
  \/ MainThread \/ OnExit
  \/ LoopSteps \/ Shutdown

Spec == Init /\ [][Next]_vars

\* The main thread dispatches what is posted, and CEF's threads end what they
\* began.  No page, and no user, has to do anything.
Fairness ==
  /\ WF_vars(MainThread) /\ WF_vars(LoopSteps) /\ WF_vars(Shutdown)
  /\ \A w \in Windows :
       /\ WF_vars(OnBeforePopup(w)) /\ WF_vars(OnBeforeClose(w))
       /\ WF_vars(OnAfterCreated(w) \/ CreationCanceled(w))

FairSpec == Spec /\ Fairness

-----------------------------------------------------------------------------
Events == [what : {"create", "register", "created", "closing", "closed", "quit", "WM_CLOSE"},
           window : Windows \cup {NoWindow}]

\* The variables hold values of their types, and queued_tasks_ nothing while
\* there is a message window.
TypeOK ==
  /\ phase \in Phases /\ quitting \in BOOLEAN
  /\ queued \in Seq(Events) /\ posted \in Seq(Events)
  /\ HasMessageWindow => queued = <<>>
  /\ rootWindows \subseteq Windows /\ temp \in BOOLEAN /\ astray \subseteq Windows
  /\ opener \in [Windows -> Windows \cup {NoWindow}]
  /\ hwnd \in [Windows -> {"none", "open", "destroyed"}]
  /\ known \in [Windows -> BOOLEAN] /\ isClosing \in [Windows -> BOOLEAN]
  /\ browserDestroyed \in [Windows -> BOOLEAN] /\ shown \in [Windows -> BOOLEAN]
  /\ closeAsked \in [Windows -> BOOLEAN] /\ notified \in [Windows -> Nat]
  /\ cef \in [Windows -> {"none", "allowing", "waiting", "requested", "live",
                          "closing", "doomed", "gone", "never"}]

\* A task about a window's browser finds its RootWindow registered, and so
\* alive: the handler's delegate is a bare pointer into it
\* (client_handler.cc:892-917), and only root_windows_ owns it.
DelegateIsAlive ==
  Dispatching /\ Next1.what \in {"created", "closing", "closed"} /\ ~browserDestroyed[Next1.window]
    => Next1.window \in rootWindows

\* OnRootWindowDestroyed is called once for a window, when it is registered,
\* and nothing registers it again (root_window_manager.cc:206-209).
DestroyedOnce ==
  \A w \in Windows : notified[w] <= 1 /\ (notified[w] = 1 => w \notin rootWindows)

\* The loop is told to quit only when no browser exists any more, whatever
\* popups and windows were on their way when the last window went
\* (cef_life_span_handler.h:170-195 asks that of an application's exit).
ExitsAfterBrowsers ==
  quitting => \A w \in Windows : cef[w] \notin {"live", "closing", "doomed"}

\* A window does not go away under a page that has not agreed: once the main
\* thread knows the browser, the native window is destroyed only after CEF has
\* accepted the close (root_window_win.cc:797-812).
PageAgrees ==
  [][\A w \in Windows : (known[w] /\ hwnd[w] = "open" /\ hwnd'[w] # "open")
                          => cef[w] \in {"closing", "doomed", "gone"}]_vars

\* A popup that closed itself in the TempWindow and was moved out of it before
\* CEF's WM_CLOSE came there: its own window is open and, since the main thread
\* knows of the close, the next WM_CLOSE destroys it (root_window_win.cc:797-812).
LeftOpen(w) ==
  /\ w \in astray
  /\ w \in rootWindows /\ hwnd[w] = "open" /\ isClosing[w] /\ cef[w] = "closing"

\* A close that CEF has accepted is completed without any help: the browser
\* goes, and its RootWindow is forgotten.  That holds of the popups too that
\* close before their windows are theirs, but for those that are left open.
AcceptedCloseCompletes ==
  \A w \in Windows :
    cef[w] = "closing" ~> (cef[w] = "gone" /\ w \notin rootWindows) \/ LeftOpen(w)

\* When Run has destroyed the message window, queued_tasks_ keeps nothing but
\* registrations of popups that have no browser and will have none: whatever
\* was on its way, no task of a browser, and no RootWindow of one, is stranded
\* (main_message_loop_multithreaded_win.cc:28-32, 153-160).
StrandsOnlyRegistrations ==
  phase \in {"over", "exited"} =>
    \A i \in DOMAIN queued :
      queued[i].what = "register" /\ cef[queued[i].window] \in {"requested", "never"}

\* When the last RootWindow is gone, the loop ends and CEF is shut down.
EndsWhenEmpty == rootWindows = {} ~> phase = "exited"

\* Every native window is destroyed and every browser gone; what was opened
\* with a browser was closed with it, and the main thread has nothing to do.
AllWindowsGone ==
  /\ phase = "running" /\ posted = <<>>
  /\ \A w \in Windows : \/ hwnd[w] = "none" /\ cef[w] \in {"none", "never"}
                        \/ hwnd[w] = "destroyed" /\ cef[w] = "gone"

\* Run "will block until Quit() is called by the RootWindowManager after all
\* windows have been destroyed" (cefclient_win.cc:104-105): then Quit has been
\* called.
QuitsAfterAllWindows == AllWindowsGone => quitting
=============================================================================
