-------------------------- MODULE ExternalPumpProofs --------------------------
(***************************************************************************)
(* ExternalPump's invariants hold for any delays, any maximum and any      *)
(* number of posted messages.                                              *)
(***************************************************************************)
EXTENDS ExternalPump, TLAPS

\* The calls on the stack: one in the loop if is_active_, and among the last
\* ones the outer call of Run's own, and the nested one if is_active_.
CallsInv ==
  /\ phase = "running" => calls = IF active THEN 1 ELSE 0
  /\ phase = "draining" => IF active THEN calls = 2 ELSE calls \in {0, 1}
  /\ phase = "draining" /\ calls # 0 => drained < DrainTurns
  /\ phase = "done" => ~active /\ calls = 0

PumpInv == TypeOK /\ CallsInv /\ NoRequestLost /\ DelayedCallInTime /\ NeverStalls

\* Appending a message and taking one off.
LEMMA AppendType ==
  ASSUME NEW queue \in Seq(Messages), NEW m \in Messages
  PROVE  /\ Append(queue, m) \in Seq(Messages)
         /\ Append(queue, m) # <<>>
         /\ AsksAtOnce(queue) => AsksAtOnce(Append(queue, m))
         /\ m.type = "work" /\ m.delay <= 0 => AsksAtOnce(Append(queue, m))
<1> DEFINE longer == Append(queue, m)
<1>1. /\ longer \in Seq(Messages) /\ longer # <<>>
      /\ DOMAIN longer = 1..Len(queue) + 1 /\ longer[Len(queue) + 1] = m
      /\ \A i \in DOMAIN queue : i \in DOMAIN longer /\ longer[i] = queue[i]
  OBVIOUS
<1>2. Len(queue) + 1 \in DOMAIN longer
  BY <1>1
<1> QED BY <1>1, <1>2 DEF AsksAtOnce

LEMMA TailType ==
  ASSUME NEW queue \in Seq(Messages), queue # <<>>
  PROVE  /\ Head(queue) \in Messages /\ Tail(queue) \in Seq(Messages)
         /\ AsksAtOnce(queue) => \/ Head(queue).type = "work" /\ Head(queue).delay <= 0
                                 \/ AsksAtOnce(Tail(queue))
<1>1. Head(queue) \in Messages /\ Tail(queue) \in Seq(Messages)
  OBVIOUS
<1>2. ASSUME NEW i \in DOMAIN queue, queue[i].type = "work", queue[i].delay <= 0
      PROVE  \/ Head(queue).type = "work" /\ Head(queue).delay <= 0
             \/ AsksAtOnce(Tail(queue))
  <2>1. CASE i = 1
    BY <1>2, <2>1
  <2>2. CASE i # 1
    <3>1. i - 1 \in DOMAIN Tail(queue) /\ Tail(queue)[i - 1] = queue[i]
      BY <2>2
    <3> QED BY <1>2, <3>1 DEF AsksAtOnce
  <2> QED BY <2>1, <2>2
<1> QED BY <1>1, <1>2 DEF AsksAtOnce

\* The pump's own requests are messages like any other.
LEMMA PumpMessages ==
  /\ Work(0) \in Messages /\ Work(Placeholder) \in Messages /\ QuitMessage \in Messages
  /\ \A delay \in Delays : Work(delay) \in Messages
  /\ Work(0).type = "work" /\ Work(0).delay = 0 /\ Work(Placeholder).delay = Placeholder
  BY DEF Messages, Work, QuitMessage

LEMMA WorkMessage ==
  ASSUME NEW m \in Messages, m.type = "work"
  PROVE  m = Work(m.delay) /\ m.delay \in Int
<1>1. m # QuitMessage
  BY DEF QuitMessage
<1>2. m \in [type : {"work"}, delay : Delays \cup {0, Placeholder}]
  BY <1>1 DEF Messages
<1>3. m = [type |-> m.type, delay |-> m.delay]
  BY <1>2
<1>4. m.delay \in Int
  <2>1. m.delay \in Delays \cup {0, Placeholder}
    BY <1>2
  <2>2. Delays \cup {0, Placeholder} \subseteq Int
    BY PumpAssumption
  <2> QED BY <2>1, <2>2
<1> QED BY <1>3, <1>4 DEF Work

LEMMA PumpInit == Init => PumpInv
<1> SUFFICES ASSUME Init PROVE PumpInv
  OBVIOUS
<1>1. TypeOK
  <2>1. messages \in Seq(Messages)
    BY DEF Init
  <2>2. timer \in {None} \cup 0..MaxTimerDelay /\ due \in {None} \cup 0..MaxTimerDelay
    BY DEF Init
  <2>3. drained \in 0..DrainTurns
    BY PumpAssumption DEF Init
  <2>4. active \in BOOLEAN /\ reentrancy \in BOOLEAN /\ started \in BOOLEAN /\ soon \in BOOLEAN
    BY DEF Init
  <2> QED BY <2>1, <2>2, <2>3, <2>4 DEF Init, TypeOK
<1>2. CallsInv /\ NoRequestLost /\ DelayedCallInTime /\ NeverStalls
  BY DEF Init, CallsInv, NoRequestLost, DelayedCallInTime, NeverStalls, None
<1> QED BY <1>1, <1>2 DEF PumpInv

\* DoWork, with the timer killed: a re-entrant call leaves a record, and
\* another one serves whatever was asked for.
LEMMA DoWorkKeeps ==
  ASSUME PumpInv, NEW queue \in Seq(Messages), Dispatching, DoWork(queue),
         timer' = None, UNCHANGED <<phase, drained>>, started' \in BOOLEAN
  PROVE  PumpInv'
<1> USE DEF None
<1>1. CASE active /\ Reentered(queue)
  <2>1. messages' \in Seq(Messages) /\ messages' # <<>>
    BY <1>1, PumpMessages, AppendType DEF Reentered
  <2>2. CallAtOnce'
    BY <1>1 DEF Reentered, CallAtOnce
  <2>3. TypeOK' /\ CallsInv'
    BY <1>1, <2>1 DEF PumpInv, TypeOK, CallsInv, Reentered
  <2> QED BY <2>1, <2>2, <2>3 DEF PumpInv, NoRequestLost, DelayedCallInTime, NeverStalls
<1>2. CASE ~active /\ reentrancy' = FALSE /\ active' = TRUE /\ messages' = queue /\ BeginCall
  <2>0. /\ active' \in BOOLEAN /\ reentrancy' \in BOOLEAN /\ soon' \in BOOLEAN
        /\ active'
    BY <1>2 DEF BeginCall
  <2>1. TypeOK' /\ CallsInv'
    BY <1>2, <2>0 DEF PumpInv, TypeOK, CallsInv, BeginCall, Dispatching
  <2>2. (soon = FALSE /\ due = None)' /\ (phase' = "running" => calls' = 1)
    BY <1>2, <2>1 DEF BeginCall, CallsInv
  <2> QED BY <2>1, <2>2 DEF PumpInv, NoRequestLost, DelayedCallInTime, NeverStalls
<1> QED BY <1>1, <1>2 DEF DoWork

\* SetTimer, for a request with a delay.
LEMMA SetTimerKeeps ==
  ASSUME PumpInv, messages # <<>>, Dispatching,
         NEW delay, Head(messages) = Work(delay), delay > 0,
         ~(delay = Placeholder /\ timer # None),
         SetTimer(delay, Tail(messages)),
         UNCHANGED <<phase, drained>>, started' = TRUE
  PROVE  PumpInv'
<1> USE DEF None
<1>1. /\ Tail(messages) \in Seq(Messages) /\ delay \in Int
      /\ AsksAtOnce(messages) => AsksAtOnce(Tail(messages))
  <2>1. messages \in Seq(Messages)
    BY DEF PumpInv, TypeOK
  <2>2. Head(messages) \in Messages /\ Head(messages).type = "work" /\ Head(messages).delay = delay
    BY <2>1, TailType DEF Work
  <2>3. delay \in Int
    BY <2>2, WorkMessage
  <2> QED BY <2>1, <2>2, <2>3, TailType
<1>2. AtMost(delay, MaxTimerDelay) \in 1..MaxTimerDelay
  BY <1>1, PumpAssumption DEF AtMost
<1>3. TypeOK' /\ CallsInv'
  BY <1>1, <1>2 DEF PumpInv, TypeOK, CallsInv, SetTimer
<1>4. CallAtOnce => CallAtOnce'
  BY <1>1 DEF CallAtOnce, SetTimer
<1>5. NoRequestLost'
  BY <1>4 DEF PumpInv, NoRequestLost, SetTimer
<1>6. DelayedCallInTime'
  <2>1. CASE delay = Placeholder /\ due # None
    BY <1>4, <2>1 DEF PumpInv, DelayedCallInTime, SetTimer
  <2>2. CASE ~(delay = Placeholder /\ due # None)
    BY <1>2, <2>2 DEF DelayedCallInTime, SetTimer
  <2> QED BY <2>1, <2>2
<1>7. NeverStalls'
  BY <1>2 DEF NeverStalls, SetTimer
<1> QED BY <1>3, <1>5, <1>6, <1>7 DEF PumpInv

LEMMA DispatchWorkKeeps ==
  ASSUME PumpInv, DispatchWork
  PROVE  PumpInv'
<1> USE DEF None
<1> DEFINE delay == Head(messages).delay
<1>1. /\ Head(messages) \in Messages /\ Tail(messages) \in Seq(Messages)
      /\ Head(messages) = Work(delay) /\ delay \in Int
      /\ AsksAtOnce(messages) => delay <= 0 \/ AsksAtOnce(Tail(messages))
  <2>1. messages \in Seq(Messages) /\ messages # <<>> /\ Head(messages).type = "work"
    BY DEF DispatchWork, PumpInv, TypeOK
  <2>2. Head(messages) \in Messages /\ Tail(messages) \in Seq(Messages)
    BY <2>1, TailType
  <2>3. Head(messages) = Work(delay) /\ delay \in Int
    BY <2>1, <2>2, WorkMessage
  <2> QED BY <2>1, <2>2, <2>3, TailType
<1>2. Dispatching /\ messages # <<>> /\ UNCHANGED <<phase, drained>> /\ started' = TRUE
  BY DEF DispatchWork
<1>3. CASE delay = Placeholder /\ timer # None /\ messages' = Tail(messages)
           /\ UNCHANGED <<pump, soon, due>>
  <2>1. CallAtOnce => CallAtOnce'
    BY <1>1, <1>3, PumpAssumption DEF CallAtOnce, pump
  <2>2. TypeOK' /\ CallsInv'
    BY <1>1, <1>2, <1>3 DEF PumpInv, TypeOK, CallsInv, pump
  <2> QED BY <1>2, <1>3, <2>1, <2>2
          DEF PumpInv, NoRequestLost, DelayedCallInTime, NeverStalls, pump
<1>4. CASE delay <= 0 /\ timer' = None /\ DoWork(Tail(messages))
  BY <1>1, <1>2, <1>4, DoWorkKeeps
<1>5. CASE delay > 0 /\ ~(delay = Placeholder /\ timer # None) /\ SetTimer(delay, Tail(messages))
  BY <1>1, <1>2, <1>5, SetTimerKeeps
<1> QED BY <1>3, <1>4, <1>5 DEF DispatchWork, OnScheduleWork

LEMMA TimerFiresKeeps ==
  ASSUME PumpInv, TimerFires
  PROVE  PumpInv'
<1>1. messages \in Seq(Messages) /\ started' \in BOOLEAN
  BY DEF PumpInv, TypeOK, TimerFires
<1> QED BY <1>1, DoWorkKeeps DEF TimerFires

LEMMA RequestKeeps ==
  ASSUME PumpInv, NEW delay \in Delays, Request(delay)
  PROVE  PumpInv'
<1> USE DEF None
<1>1. /\ messages' \in Seq(Messages) /\ messages' # <<>>
      /\ AsksAtOnce(messages) => AsksAtOnce(messages')
      /\ delay <= 0 => AsksAtOnce(messages')
  BY AppendType, PumpMessages DEF PumpInv, TypeOK, Request, Work
<1>2. (CallAtOnce => CallAtOnce') /\ (delay <= 0 => CallAtOnce')
  BY <1>1 DEF CallAtOnce, Request, pump
<1>3. TypeOK' /\ CallsInv'
  BY <1>1 DEF PumpInv, TypeOK, CallsInv, Request, pump
<1> QED BY <1>1, <1>2, <1>3
        DEF PumpInv, NoRequestLost, DelayedCallInTime, NeverStalls, Request, pump

LEMMA QuitKeeps ==
  ASSUME PumpInv, Quit
  PROVE  PumpInv'
<1> USE DEF None
<1>1. /\ messages' \in Seq(Messages) /\ messages' # <<>>
      /\ AsksAtOnce(messages) => AsksAtOnce(messages')
  BY AppendType, PumpMessages DEF PumpInv, TypeOK, Quit
<1>2. CallAtOnce => CallAtOnce'
  BY <1>1 DEF CallAtOnce, Quit, pump
<1>3. TypeOK' /\ CallsInv'
  BY <1>1 DEF PumpInv, TypeOK, CallsInv, Quit, pump, asked
<1> QED BY <1>1, <1>2, <1>3
        DEF PumpInv, NoRequestLost, DelayedCallInTime, NeverStalls, Quit, pump, asked

LEMMA WorkReturnsKeeps ==
  ASSUME PumpInv, WorkReturns
  PROVE  PumpInv'
<1> USE DEF None
<1>1. /\ messages' \in Seq(Messages)
      /\ AsksAtOnce(messages) => AsksAtOnce(messages')
      /\ reentrancy => AsksAtOnce(messages')
      /\ timer # None \/ messages' # <<>>
  BY AppendType, PumpMessages DEF PumpInv, TypeOK, WorkReturns, WhatRemains
<1>2. CallAtOnce => CallAtOnce'
  BY <1>1 DEF CallAtOnce
<1>3. TypeOK' /\ CallsInv'
  <2>1. active' \in BOOLEAN /\ ~active'
    BY DEF WorkReturns
  <2>2. UNCHANGED <<phase, timer, reentrancy, drained, started, soon, due>> /\ calls' = calls - 1
    BY DEF WorkReturns, asked
  <2>3. active /\ phase \in {"running", "draining"} /\ calls \in {1, 2}
    BY DEF WorkReturns, PumpInv, TypeOK, CallsInv
  <2> QED BY <1>1, <2>1, <2>2, <2>3 DEF PumpInv, TypeOK, CallsInv
<1> QED BY <1>1, <1>2, <1>3
        DEF PumpInv, NoRequestLost, DelayedCallInTime, NeverStalls, WorkReturns, asked

\* The loop's end and the last calls: none of the properties is about them.
LEMMA DrainingKeeps ==
  ASSUME PumpInv, LoopEnds \/ DrainCall \/ DrainReturns \/ RunReturns
  PROVE  PumpInv'
<1> USE DEF None
<1>1. phase' # "running"
  BY DEF LoopEnds, DrainCall, DrainReturns, RunReturns
<1>2. TypeOK' /\ CallsInv'
  <2>1. CASE LoopEnds
    <3>1. messages' \in Seq(Messages)
      BY <2>1, TailType DEF LoopEnds, PumpInv, TypeOK
    <3> QED BY <2>1, <3>1 DEF LoopEnds, PumpInv, TypeOK, CallsInv, asked
  <2>2. CASE DrainCall
    <3>1. soon' \in BOOLEAN
      BY <2>2 DEF DrainCall, BeginCall
    <3> QED BY <2>2, <3>1 DEF DrainCall, BeginCall, PumpInv, TypeOK, CallsInv
  <2>3. CASE DrainReturns
    BY <2>3, PumpAssumption DEF DrainReturns, PumpInv, TypeOK, CallsInv, asked
  <2>4. CASE RunReturns
    BY <2>4 DEF RunReturns, PumpInv, TypeOK, CallsInv, pump, asked
  <2> QED BY <2>1, <2>2, <2>3, <2>4
<1> QED BY <1>1, <1>2 DEF PumpInv, NoRequestLost, DelayedCallInTime, NeverStalls

\* While the loop waits nothing is asked for at once, so the pending timer is
\* there in time: it cannot be late when a millisecond passes.
LEMMA WaitingForTimer ==
  ASSUME PumpInv, Tick
  PROVE  timer \in 1..MaxTimerDelay /\ (due # None => timer <= due)
<1> USE DEF None
<1>1. ~AsksAtOnce(messages) /\ ~active
  BY DEF Tick, AsksAtOnce, PumpInv, CallsInv
<1>2. due # None => timer # None /\ timer <= due
  BY <1>1 DEF Tick, PumpInv, DelayedCallInTime, CallAtOnce
<1> QED BY <1>2, PumpAssumption DEF Tick, PumpInv, TypeOK

LEMMA TickKeeps ==
  ASSUME PumpInv, Tick
  PROVE  PumpInv'
<1> USE DEF None
<1>1. timer \in 1..MaxTimerDelay /\ (due # None => timer <= due)
  BY WaitingForTimer
<1>2. timer' = timer - 1 /\ due' = IF due # None THEN due - 1 ELSE due
  BY <1>1, PumpAssumption DEF Tick
<1>3. TypeOK' /\ CallsInv'
  BY <1>1, <1>2, PumpAssumption DEF Tick, PumpInv, TypeOK, CallsInv
<1>4. CallAtOnce => CallAtOnce'
  BY DEF Tick, CallAtOnce
<1>5. timer' # None /\ (due' # None => timer' <= due')
  BY <1>1, <1>2, PumpAssumption DEF PumpInv, TypeOK
<1> QED BY <1>3, <1>4, <1>5
        DEF Tick, PumpInv, NoRequestLost, DelayedCallInTime, NeverStalls

LEMMA PumpStep == PumpInv /\ [Next]_vars => PumpInv'
<1> SUFFICES ASSUME PumpInv, [Next]_vars PROVE PumpInv'
  OBVIOUS
<1>1. ASSUME NEW delay \in Delays, Request(delay) PROVE PumpInv'
  BY <1>1, RequestKeeps
<1>2. CASE Quit
  BY <1>2, QuitKeeps
<1>3. CASE DispatchWork
  BY <1>3, DispatchWorkKeeps
<1>4. CASE TimerFires
  BY <1>4, TimerFiresKeeps
<1>5. CASE WorkReturns
  BY <1>5, WorkReturnsKeeps
<1>6. CASE LoopEnds \/ DrainCall \/ DrainReturns \/ RunReturns
  BY <1>6, DrainingKeeps
<1>7. CASE Tick
  BY <1>7, TickKeeps
<1>8. CASE UNCHANGED vars
  BY <1>8 DEF vars, pump, asked, PumpInv, TypeOK, CallsInv, NoRequestLost,
              DelayedCallInTime, NeverStalls, CallAtOnce
<1> QED BY <1>1, <1>2, <1>3, <1>4, <1>5, <1>6, <1>7, <1>8 DEF Next

THEOREM PumpInvariant == Spec => []PumpInv
  BY PumpInit, PumpStep, PTL DEF Spec

\* The variables of the pump always hold values of their types.
THEOREM PumpTypeCorrect == Spec => []TypeOK
  BY PumpInvariant, PTL DEF PumpInv

\* No request for work at once is ever dropped.
THEOREM RequestsAreKept == Spec => []NoRequestLost
  BY PumpInvariant, PTL DEF PumpInv

\* The one timer is never later than the delayed call that is due.
THEOREM DelayedCallsAreInTime == Spec => []DelayedCallInTime
  BY PumpInvariant, PTL DEF PumpInv

\* The loop never waits without a timer or a message.
THEOREM LoopNeverStalls == Spec => []NeverStalls
  BY PumpInvariant, PTL DEF PumpInv

\* No time passes while a delayed call is overdue.
THEOREM NoCallIsLate == Spec => NeverLate
<1>1. PumpInv /\ [Next]_vars => [Tick => due # 0]_vars
  BY WaitingForTimer DEF None
<1> QED BY <1>1, PumpInvariant, PTL DEF Spec, NeverLate
=============================================================================
