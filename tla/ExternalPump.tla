----------------------------- MODULE ExternalPump -----------------------------
(***************************************************************************)
(* The message loop of a browser process that pumps CEF's work itself      *)
(* (tests/shared/browser/main_message_loop_external_pump.cc, _win.cc).     *)
(* CEF asks for work, now or after a delay, from any thread; each request  *)
(* is posted to the main thread, which keeps at most one timer and calls   *)
(* CefDoMessageLoopWork.  That call may dispatch messages and timer events *)
(* itself, and so re-enter the pump.                                       *)
(*                                                                         *)
(* Time passes, one millisecond at a step, only while the main thread has  *)
(* nothing to do: work takes no time, so that a late call is the fault of  *)
(* the schedule and not of the work before it.                             *)
(***************************************************************************)
EXTENDS Integers, Sequences

CONSTANTS
  Delays,         \* the delays CEF asks with
  MaxTimerDelay,  \* kMaxTimerDelay
  Placeholder,    \* kTimerDelayPlaceholder
  DrainTurns,     \* the calls that Run makes after the loop (10)
  MaxMessages     \* bound: requests and Quit are posted to a shorter queue

ASSUME PumpAssumption ==
  /\ Delays \subseteq Int /\ MaxMessages \in Nat /\ DrainTurns \in Nat
  /\ MaxTimerDelay \in Nat \ {0}
  /\ Placeholder \in Int /\ Placeholder > MaxTimerDelay

VARIABLES
  phase,       \* where Run is: in its loop, in its last calls, or over
  messages,    \* the main thread's posted messages
  timer,       \* milliseconds until the pending timer fires, or None
  active,      \* is_active_
  reentrancy,  \* reentrancy_detected_
  calls,       \* CefDoMessageLoopWork calls on the stack
  drained,     \* the last calls that have returned
  started,     \* history: the loop has handled a request
  soon,        \* history: work requested at once, no call has begun since
  due          \* history: milliseconds until the delayed call is due, or None

pump == <<timer, active, reentrancy, calls>>
asked == <<started, soon, due>>
vars == <<phase, messages, pump, drained, asked>>

None == -1
Work(delay) == [type |-> "work", delay |-> delay]
QuitMessage == [type |-> "quit", delay |-> 0]
AtMost(a, b) == IF a <= b THEN a ELSE b

Init ==
  /\ phase = "running" /\ messages = <<>> /\ timer = None
  /\ active = FALSE /\ reentrancy = FALSE /\ calls = 0 /\ drained = 0
  /\ started = FALSE /\ soon = FALSE /\ due = None

\* OnScheduleMessagePumpWork, called by CEF on any thread.
Request(delay) ==
  /\ phase # "done" /\ Len(messages) < MaxMessages
  /\ messages' = Append(messages, Work(delay))
  /\ soon' = (soon \/ delay <= 0)
  /\ UNCHANGED <<phase, pump, drained, started, due>>

\* Quit posts WM_QUIT like any message, behind those that are there.
Quit ==
  /\ phase # "done" /\ Len(messages) < MaxMessages
  /\ messages' = Append(messages, QuitMessage)
  /\ UNCHANGED <<phase, pump, drained, asked>>

-----------------------------------------------------------------------------
\* Mutant: the re-entrant call is forgotten.
MutReentered(queue) ==
  /\ messages' = Append(queue, Work(Placeholder))
  /\ UNCHANGED <<active, calls, reentrancy, soon, due>>

\* A re-entrant DoWork does nothing but ask for another, and, as its caller
\* has just killed the timer, for the longest wait.
Reentered(queue) ==
  /\ reentrancy' = TRUE
  /\ messages' = Append(queue, Work(Placeholder))
  /\ UNCHANGED <<active, calls, soon, due>>

\* CefDoMessageLoopWork begins: it serves whatever was asked for so far.
BeginCall == calls' = calls + 1 /\ soon' = FALSE /\ due' = None

\* DoWork up to the call, with |queue| the messages that are left.
DoWork(queue) ==
  \/ active /\ Reentered(queue)
  \/ /\ ~active
     /\ reentrancy' = FALSE /\ active' = TRUE
     /\ messages' = queue
     /\ BeginCall

\* Mutant: the delay is not capped.
MutSetTimer(delay, queue) ==
  /\ timer' = delay /\ due' = AtMost(delay, MaxTimerDelay) /\ messages' = queue
  /\ UNCHANGED <<active, reentrancy, calls, soon>>

\* SetTimer, after KillTimer.  A request of the pump itself takes nothing
\* back; one of CEF's with a delay replaces the call that was pending.
SetTimer(delay, queue) ==
  LET wait == AtMost(delay, MaxTimerDelay)
  IN /\ timer' = wait
     /\ due' = IF delay = Placeholder /\ due # None THEN due ELSE wait
     /\ messages' = queue
     /\ UNCHANGED <<active, reentrancy, calls, soon>>

\* Mutant: the pump's own request replaces a timer that is pending.
MutOnScheduleWork(delay, queue) ==
  \/ delay <= 0 /\ timer' = None /\ DoWork(queue)
  \/ delay > 0 /\ SetTimer(delay, queue)

OnScheduleWork(delay, queue) ==
  \/ /\ delay = Placeholder /\ timer # None
     /\ messages' = queue
     /\ UNCHANGED <<pump, soon, due>>
  \/ delay <= 0 /\ timer' = None /\ DoWork(queue)
  \/ /\ delay > 0 /\ ~(delay = Placeholder /\ timer # None)
     /\ SetTimer(delay, queue)

\* The main thread dispatches: in Run's loop, or inside a call of CEF's.
Dispatching == (phase = "running" /\ calls = 0) \/ calls > 0

DispatchWork ==
  /\ Dispatching /\ messages # <<>> /\ Head(messages).type = "work"
  /\ OnScheduleWork(Head(messages).delay, Tail(messages))
  /\ started' = TRUE
  /\ UNCHANGED <<phase, drained>>

\* OnTimerTimeout.  WM_TIMER comes when no posted message is waiting.
TimerFires ==
  /\ Dispatching /\ messages = <<>> /\ timer = 0
  /\ timer' = None
  /\ DoWork(messages)
  /\ UNCHANGED <<phase, drained, started>>

\* Mutants: the remaining work is not asked for; no timer is asked for.
MutWhatRemains == IF timer = None THEN Append(messages, Work(Placeholder)) ELSE messages
MutWhatRemains2 == IF reentrancy THEN Append(messages, Work(0)) ELSE messages

\* What DoWork posts after the call.
WhatRemains ==
  IF reentrancy THEN Append(messages, Work(0))
  ELSE IF timer = None THEN Append(messages, Work(Placeholder))
  ELSE messages

\* CefDoMessageLoopWork returns to DoWork.
WorkReturns ==
  /\ active
  /\ active' = FALSE /\ calls' = calls - 1
  /\ messages' = WhatRemains
  /\ UNCHANGED <<phase, timer, reentrancy, drained, asked>>

-----------------------------------------------------------------------------
\* GetMessage returns 0: the timer is killed and the last calls begin.
LoopEnds ==
  /\ phase = "running" /\ calls = 0
  /\ messages # <<>> /\ Head(messages).type = "quit"
  /\ messages' = Tail(messages)
  /\ timer' = None
  /\ phase' = "draining"
  /\ UNCHANGED <<active, reentrancy, calls, drained, asked>>

\* Run calls CefDoMessageLoopWork itself, without setting is_active_.
DrainCall ==
  /\ phase = "draining" /\ calls = 0 /\ drained < DrainTurns
  /\ BeginCall
  /\ UNCHANGED <<phase, messages, timer, active, reentrancy, drained, started>>

DrainReturns ==
  /\ phase = "draining" /\ calls = 1 /\ ~active
  /\ calls' = 0 /\ drained' = drained + 1
  /\ UNCHANGED <<phase, messages, timer, active, reentrancy, asked>>

RunReturns ==
  /\ phase = "draining" /\ calls = 0 /\ drained = DrainTurns
  /\ phase' = "done"
  /\ UNCHANGED <<messages, pump, drained, asked>>

\* A millisecond passes while GetMessage waits.
Tick ==
  /\ phase = "running" /\ calls = 0 /\ messages = <<>>
  /\ timer > 0 \/ (timer = None /\ due # None)
  /\ timer' = IF timer > 0 THEN timer - 1 ELSE timer
  /\ due' = IF due # None THEN due - 1 ELSE due
  /\ UNCHANGED <<phase, messages, active, reentrancy, calls, drained, started, soon>>

Next ==
  \/ \E delay \in Delays : Request(delay)
  \/ Quit
  \/ DispatchWork \/ TimerFires \/ WorkReturns
  \/ LoopEnds \/ DrainCall \/ DrainReturns \/ RunReturns
  \/ Tick

Spec == Init /\ [][Next]_vars

\* Windows runs the main thread while it has messages; CEF's call returns;
\* GetMessage waits until time has passed.  Nobody has to call Request or Quit,
\* and a message need not be dispatched inside a call of CEF's.
Fairness ==
  /\ WF_vars(calls = 0 /\ DispatchWork) /\ WF_vars(calls = 0 /\ TimerFires)
  /\ WF_vars(WorkReturns)
  /\ WF_vars(LoopEnds) /\ WF_vars(DrainCall) /\ WF_vars(DrainReturns)
  /\ WF_vars(RunReturns) /\ WF_vars(Tick)

FairSpec == Spec /\ Fairness

-----------------------------------------------------------------------------
Messages == [type : {"work"}, delay : Delays \cup {0, Placeholder}] \cup {QuitMessage}

\* The variables hold values of their types; no timer is longer than the
\* maximum.
TypeOK ==
  /\ phase \in {"running", "draining", "done"}
  /\ messages \in Seq(Messages)
  /\ timer \in {None} \cup 0..MaxTimerDelay
  /\ active \in BOOLEAN /\ reentrancy \in BOOLEAN
  /\ calls \in 0..2
  /\ drained \in 0..DrainTurns
  /\ started \in BOOLEAN /\ soon \in BOOLEAN
  /\ due \in {None} \cup 0..MaxTimerDelay

\* A call at once is on its way: a request for it is posted, or the call that
\* is running will post one.
AsksAtOnce(queue) ==
  \E i \in DOMAIN queue : queue[i].type = "work" /\ queue[i].delay <= 0
CallAtOnce == (active /\ reentrancy) \/ AsksAtOnce(messages)

\* What CEF asks for at once is never dropped, whoever handles the request and
\* wherever: between the posted message, the re-entrant DoWork that does
\* nothing (main_message_loop_external_pump.cc:80) and the call that it was
\* dropped for, some record of it is left until a call begins.
NoRequestLost == phase = "running" /\ soon => CallAtOnce

\* A call that was asked for with a delay (capped) comes no later than that,
\* although there is one timer that every request kills, the pump's own
\* requests included: the pending timer is no later, or a call comes at once.
DelayedCallInTime ==
  phase = "running" /\ due # None => (timer # None /\ timer <= due) \/ CallAtOnce

\* Once it has handled a request the loop never waits for good: a timer or a
\* message is always there to call CefDoMessageLoopWork again
\* (main_message_loop_external_pump.cc:74).
NeverStalls ==
  phase = "running" /\ started /\ calls = 0 => timer # None \/ messages # <<>>

\* No millisecond passes while a delayed call is overdue.
NeverLate == [][Tick => due # 0]_vars

\* Work asked for at once is done: a call of CefDoMessageLoopWork begins after
\* the request, in the loop or among the last ones, unless Run was over first.
WorkIsDone == soon ~> ~soon \/ phase = "done"
=============================================================================
