--------------------------- MODULE MultithreadedLoop ---------------------------
(***************************************************************************)
(* The main thread's message loop when CEF runs its UI thread itself       *)
(* (tests/cefclient/browser/main_message_loop_multithreaded_win.cc).       *)
(* Tasks come from any thread.  Run owns a message window that executes    *)
(* them; while there is none, PostTask keeps them in queued_tasks_.        *)
(*                                                                         *)
(* Windows' own messages share the main thread's queue with the tasks, but *)
(* need no message window: they are there whether Run has begun or not.    *)
(* This module has no actions of its own: who posts what is for the module *)
(* that extends it to say.                                                 *)
(***************************************************************************)
EXTENDS Naturals, Sequences

VARIABLES
  phase,     \* where Run is
  queued,    \* queued_tasks_
  posted,    \* the main thread's posted messages, tasks among them
  quitting   \* PostQuitMessage has been called

loop == <<phase, queued, posted, quitting>>

Phases == {"starting", "running", "leaving", "over", "exited"}

LoopInit == phase = "starting" /\ queued = <<>> /\ posted = <<>> /\ quitting = FALSE

\* message_hwnd_ is there: Run has created it and not destroyed it.
HasMessageWindow == phase \in {"running", "leaving"}

\* PostTask for each of |tasks|, then PostMessage for each of |messages|; |rest|
\* is what the posting step leaves of |posted|.
PostAfter(rest, tasks, messages) ==
  IF HasMessageWindow
  THEN posted' = rest \o tasks \o messages /\ queued' = queued
  ELSE posted' = rest \o messages /\ queued' = queued \o tasks

Post(tasks, messages) == PostAfter(posted, tasks, messages)

\* Mutants: the queued tasks are replayed last come, first served; they are
\* left where they are.
MutRunBegins ==
  /\ phase = "starting"
  /\ phase' = "running"
  /\ posted' = posted \o [i \in DOMAIN queued |-> queued[Len(queued) + 1 - i]]
  /\ queued' = <<>>
  /\ UNCHANGED quitting
MutRunBegins2 ==
  /\ phase = "starting"
  /\ phase' = "running"
  /\ posted' = posted \o queued
  /\ UNCHANGED <<queued, quitting>>

\* Run creates the message window and replays what was queued, holding the
\* lock that PostTask takes.
RunBegins ==
  /\ phase = "starting"
  /\ phase' = "running"
  /\ posted' = posted \o queued /\ queued' = <<>>
  /\ UNCHANGED quitting

\* Run takes the next message, to dispatch it.
Dispatching == phase = "running" /\ posted # <<>>

\* The task of Quit.  WM_QUIT waits until no posted message is left.
PostQuitMessage == quitting' = TRUE

\* GetMessage returns 0.
LoopEnds ==
  /\ phase = "running" /\ quitting /\ posted = <<>>
  /\ phase' = "leaving"
  /\ UNCHANGED <<queued, posted, quitting>>

\* Run destroys the message window: what was posted since GetMessage returned
\* is dropped with it, and what comes later stays in queued_tasks_.
RunReturns ==
  /\ phase = "leaving"
  /\ phase' = "over" /\ posted' = <<>>
  /\ UNCHANGED <<queued, quitting>>
=============================================================================
