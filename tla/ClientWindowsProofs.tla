------------------------- MODULE ClientWindowsProofs -------------------------
(***************************************************************************)
(* ClientWindows' safety properties hold for any number of windows.  What  *)
(* the properties need is an invariant about the tasks that the main       *)
(* thread has still to run and the order they are in; it is stated as      *)
(* predicates on a sequence of tasks and the state, so that what a step    *)
(* does to the tasks and what it does to the state can be treated apart.   *)
(***************************************************************************)
EXTENDS ClientWindows, FiniteSetTheorems, SequenceTheorems, WellFoundedInduction, TLAPS

\* The tasks that the main thread will run while Run lasts.
Looping == phase \in {"starting", "running"}
Tasks == IF HasMessageWindow THEN posted ELSE queued

\* How far a browser has come.
Stages == {"none", "allowing", "waiting", "requested", "live",
           "closing", "doomed", "gone", "never"}

AboutBrowser == {"created", "closing", "closed"}
AboutWindow == {"create", "register"} \cup AboutBrowser
Lived == {"live", "closing", "doomed", "gone"}
Leaving == {"closing", "doomed", "gone"}

\* A browser that exists, or may come to exist.
Viable(w, c, o) ==
  \/ c[w] \in {"waiting", "live", "closing", "doomed", "gone"}
  \/ c[w] = "requested" /\ (o[w] # NoWindow => c[o[w]] # "gone")

\* No browser exists, and none will.
NoneComes(c, o) == \A w \in Windows : Viable(w, c, o) => c[w] = "gone"

\* What the task |e| says of its window's browser |c| is so, and that browser
\* has not been reported closed |d|.
Backs(e, c, d) ==
  e.what \in AboutWindow =>
    /\ e.window \in Windows /\ ~d[e.window]
    /\ e.what = "create" => c[e.window] = "waiting"
    /\ e.what = "register" => c[e.window] \notin {"none", "allowing"}
    /\ e.what = "created" => c[e.window] \in Lived
    /\ e.what = "closing" => c[e.window] \in Leaving
    /\ e.what = "closed" => c[e.window] = "gone"
Backed(s, c, d) == \A i \in DOMAIN s : Backs(s[i], c, d)

\* Nothing about a window comes after the task that says it is closed, and it
\* is created once.
ClosedLast(s) ==
  \A i, j \in DOMAIN s :
    i < j /\ s[i].what = "closed" /\ s[j].what \in AboutWindow => s[j].window # s[i].window
CreateOnce(s) ==
  \A i, j \in DOMAIN s :
    i < j /\ s[i].what = "create" /\ s[j].what = "create" => s[j].window # s[i].window

\* Before a task about a browser comes the one that registers its window,
\* unless the window is registered already.
RegisteredFirst(s, r, d) ==
  \A j \in DOMAIN s : s[j].what \in AboutBrowser =>
    \/ s[j].window \in r \/ d[s[j].window]
    \/ \E i \in 1..(j - 1) : s[i] = Event("register", s[j].window)

\* While a window that may have a browser waits to be registered, another one
\* is registered and stays so.
Covers(s, i, x, c, r) ==
  /\ c[x] \in Lived
  /\ x \in r \/ \E k \in 1..(i - 1) : s[k] = Event("register", x)
  /\ \A k \in 1..(i - 1) : s[k] # Event("closed", x)
Covered(s, c, r, o) ==
  \A i \in DOMAIN s :
    s[i].what = "register" /\ Viable(s[i].window, c, o) => \E x \in Windows : Covers(s, i, x, c, r)

TasksInv(s, c, d, r, o) ==
  /\ Backed(s, c, d) /\ ClosedLast(s) /\ CreateOnce(s)
  /\ RegisteredFirst(s, r, d) /\ Covered(s, c, r, o)

\* A window that has been allowed or opened is registered, or will be.
Enlisted(s, w, r, d) ==
  w \in r \/ d[w] \/ \E i \in DOMAIN s : s[i] = Event("register", w)
AllEnlisted(s, c, d, r) ==
  \A w \in Windows : c[w] \notin {"none", "allowing"} => Enlisted(s, w, r, d)

Quitting(s, q) == q \/ \E i \in DOMAIN s : s[i].what = "quit"

Good(s, q, c, d, r, o) ==
  /\ TasksInv(s, c, d, r, o) /\ AllEnlisted(s, c, d, r)
  /\ Quitting(s, q) => NoneComes(c, o)

LoopInv ==
  /\ Looping => Good(Tasks, quitting, cef, browserDestroyed, rootWindows, opener)
  /\ quitting => NoneComes(cef, opener)
  /\ phase = "starting" => \A i \in DOMAIN posted : posted[i].what = "WM_CLOSE"

ClosingInv == \A w \in Windows : isClosing[w] => cef[w] \in Leaving
DestroyedInv ==
  \A w \in Windows :
    /\ browserDestroyed[w] => cef[w] = "gone" /\ hwnd[w] # "open"
    /\ notified[w] > 0 => browserDestroyed[w] /\ w \notin rootWindows
    /\ notified[w] <= 1
OpenerInv ==
  \A w \in Windows :
    /\ opener[w] # NoWindow => cef[opener[w]] \in Lived
    /\ cef[w] \in {"none", "waiting"} => opener[w] = NoWindow
    /\ cef[w] = "allowing" => opener[w] # NoWindow

StateInv == ClosingInv /\ DestroyedInv /\ OpenerInv
WindowsInv == TypeOK /\ LoopInv /\ StateInv

-----------------------------------------------------------------------------
(* Events and sequences of them.                                           *)

LEMMA EventFacts ==
  ASSUME NEW what \in {"create", "register", "created", "closing", "closed", "quit", "WM_CLOSE"},
         NEW w \in Windows \cup {NoWindow}
  PROVE  /\ Event(what, w) \in Events
         /\ Event(what, w).what = what /\ Event(what, w).window = w
  BY DEF Event, Events

LEMMA EventIs ==
  ASSUME NEW e \in Events
  PROVE  e = Event(e.what, e.window) /\ e.window \in Windows \cup {NoWindow}
  BY DEF Event, Events

LEMMA AppendFacts ==
  ASSUME NEW s \in Seq(Events), NEW e \in Events
  PROVE  /\ Append(s, e) \in Seq(Events)
         /\ Len(s) \in Nat /\ DOMAIN s = 1..Len(s)
         /\ DOMAIN Append(s, e) = 1..(Len(s) + 1)
         /\ \A i \in DOMAIN s : Append(s, e)[i] = s[i]
         /\ Append(s, e)[Len(s) + 1] = e
  OBVIOUS

LEMMA TailFacts ==
  ASSUME NEW s \in Seq(Events), s # <<>>
  PROVE  /\ Tail(s) \in Seq(Events) /\ Head(s) \in Events /\ Head(s) = s[1]
         /\ Len(s) \in Nat /\ Len(s) >= 1 /\ DOMAIN s = 1..Len(s)
         /\ DOMAIN Tail(s) = 1..(Len(s) - 1)
         /\ \A i \in DOMAIN Tail(s) : Tail(s)[i] = s[i + 1]
  OBVIOUS

\* |e| may follow |s|: nothing forbids it there.
Fresh(s, e) ==
  \A i \in DOMAIN s :
    e.what \in AboutWindow /\ s[i].window = e.window =>
      s[i].what # "closed" /\ (e.what = "create" => s[i].what # "create")

\* A task that comes last keeps the tasks in order.
LEMMA AppendTask ==
  ASSUME NEW c \in [Windows -> Stages], NEW d \in [Windows -> BOOLEAN], NEW r, NEW o,
         NEW s \in Seq(Events), NEW e \in Events, TasksInv(s, c, d, r, o),
         Backs(e, c, d), Fresh(s, e),
         e.what \in AboutBrowser => Enlisted(s, e.window, r, d),
         e.what = "register" /\ Viable(e.window, c, o) =>
           \E x \in Windows : Covers(s, Len(s) + 1, x, c, r)
  PROVE  TasksInv(Append(s, e), c, d, r, o)
<1> DEFINE t == Append(s, e)
<1>1. /\ Len(s) \in Nat /\ DOMAIN s = 1..Len(s) /\ DOMAIN t = 1..(Len(s) + 1)
      /\ \A i \in DOMAIN s : t[i] = s[i]
      /\ t[Len(s) + 1] = e
  BY AppendFacts
<1>2. \A i \in DOMAIN t : i \in DOMAIN s \/ i = Len(s) + 1
  BY <1>1
<1>3. Backed(t, c, d)
  BY <1>1, <1>2 DEF TasksInv, Backed
<1> HIDE DEF t
<1>4. ClosedLast(t) /\ CreateOnce(t)
  <2> SUFFICES ASSUME NEW i \in DOMAIN t, NEW j \in DOMAIN t, i < j
               PROVE  /\ t[i].what = "closed" /\ t[j].what \in AboutWindow => t[j].window # t[i].window
                      /\ t[i].what = "create" /\ t[j].what = "create" => t[j].window # t[i].window
    BY DEF ClosedLast, CreateOnce
  <2>1. i \in DOMAIN s /\ t[i] = s[i]
    BY <1>1, <1>2
  <2>2. CASE j \in DOMAIN s
    BY <1>1, <2>1, <2>2 DEF TasksInv, ClosedLast, CreateOnce
  <2>3. CASE j = Len(s) + 1
    BY <1>1, <2>1, <2>3 DEF Fresh, AboutWindow
  <2> QED BY <1>2, <2>2, <2>3
<1>5. RegisteredFirst(t, r, d)
  <2> SUFFICES ASSUME NEW j \in DOMAIN t, t[j].what \in AboutBrowser
               PROVE  \/ t[j].window \in r \/ d[t[j].window]
                      \/ \E i \in 1..(j - 1) : t[i] = Event("register", t[j].window)
    BY DEF RegisteredFirst
  <2>1. CASE j \in DOMAIN s
    BY <1>1, <2>1 DEF TasksInv, RegisteredFirst
  <2>2. CASE j = Len(s) + 1
    BY <1>1, <2>2 DEF Enlisted
  <2> QED BY <1>2, <2>1, <2>2
<1>6. Covered(t, c, r, o)
  <2> SUFFICES ASSUME NEW i \in DOMAIN t, t[i].what = "register", Viable(t[i].window, c, o)
               PROVE  \E x \in Windows : Covers(t, i, x, c, r)
    BY DEF Covered
  <2>1. \E x \in Windows : Covers(s, i, x, c, r)
    <3>1. CASE i \in DOMAIN s
      BY <1>1, <3>1 DEF TasksInv, Covered
    <3>2. CASE i = Len(s) + 1
      BY <1>1, <3>2
    <3> QED BY <1>2, <3>1, <3>2
  <2>2. \A k \in 1..(i - 1) : t[k] = s[k]
    BY <1>1, <1>2
  <2> QED BY <2>1, <2>2 DEF Covers
<1> QED BY <1>3, <1>4, <1>5, <1>6 DEF TasksInv, t

\* What is no task about a window, a WM_CLOSE or the task of Quit, does not
\* disturb the tasks, whatever its place among them.
Neutral == {"WM_CLOSE", "quit"}

LEMMA AppendNeutral ==
  ASSUME NEW c \in [Windows -> Stages], NEW d \in [Windows -> BOOLEAN], NEW r, NEW o,
         NEW s \in Seq(Events), NEW e \in Events, TasksInv(s, c, d, r, o), e.what \in Neutral
  PROVE  TasksInv(Append(s, e), c, d, r, o)
<1>1. e.what \notin AboutWindow /\ e.what \notin AboutBrowser /\ e.what # "register"
  BY DEF Neutral, AboutWindow, AboutBrowser
<1>2. Backs(e, c, d) /\ Fresh(s, e)
  BY <1>1 DEF Backs, Fresh
<1> QED BY <1>1, <1>2, AppendTask

LEMMA ConcatNeutral ==
  ASSUME NEW c \in [Windows -> Stages], NEW d \in [Windows -> BOOLEAN], NEW r, NEW o,
         NEW s \in Seq(Events), NEW m \in Seq(Events), TasksInv(s, c, d, r, o),
         \A i \in DOMAIN m : m[i].what \in Neutral
  PROVE  TasksInv(s \o m, c, d, r, o)
<1> DEFINE t == s \o m
<1>1. /\ Len(s) \in Nat /\ DOMAIN s = 1..Len(s) /\ Len(m) \in Nat /\ DOMAIN m = 1..Len(m)
      /\ t \in Seq(Events) /\ DOMAIN t = 1..(Len(s) + Len(m))
      /\ \A i \in DOMAIN s : t[i] = s[i]
      /\ \A i \in DOMAIN t : i > Len(s) => i - Len(s) \in DOMAIN m /\ t[i] = m[i - Len(s)]
  OBVIOUS
<1> HIDE DEF t
<1>2. \A i \in DOMAIN t : (i \in DOMAIN s /\ t[i] = s[i]) \/ t[i].what \in Neutral
  BY <1>1
<1>3. \A i \in DOMAIN t : t[i].what \in AboutWindow => i \in DOMAIN s /\ t[i] = s[i]
  BY <1>2 DEF Neutral, AboutWindow, AboutBrowser
<1>4. Backed(t, c, d)
  BY <1>1, <1>3 DEF TasksInv, Backed, Backs
<1>5. ClosedLast(t) /\ CreateOnce(t)
  BY <1>1, <1>3 DEF TasksInv, ClosedLast, CreateOnce, AboutWindow, AboutBrowser
<1>6. RegisteredFirst(t, r, d)
  <2> SUFFICES ASSUME NEW j \in DOMAIN t, t[j].what \in AboutBrowser
               PROVE  \/ t[j].window \in r \/ d[t[j].window]
                      \/ \E i \in 1..(j - 1) : t[i] = Event("register", t[j].window)
    BY DEF RegisteredFirst
  <2>1. j \in DOMAIN s /\ t[j] = s[j]
    BY <1>3 DEF AboutWindow
  <2>2. \A i \in 1..(j - 1) : t[i] = s[i]
    <3>1. j \in Nat /\ j <= Len(s)
      BY <1>1, <2>1
    <3>2. \A i \in 1..(j - 1) : i \in DOMAIN s
      BY <1>1, <3>1
    <3> QED BY <1>1, <3>2
  <2> QED BY <2>1, <2>2 DEF TasksInv, RegisteredFirst
<1>7. Covered(t, c, r, o)
  <2> SUFFICES ASSUME NEW i \in DOMAIN t, t[i].what = "register", Viable(t[i].window, c, o)
               PROVE  \E x \in Windows : Covers(t, i, x, c, r)
    BY DEF Covered
  <2>1. i \in DOMAIN s /\ t[i] = s[i]
    BY <1>3 DEF AboutWindow
  <2>2. \A k \in 1..(i - 1) : t[k] = s[k]
    <3>1. i \in Nat /\ i <= Len(s)
      BY <1>1, <2>1
    <3>2. \A k \in 1..(i - 1) : k \in DOMAIN s
      BY <1>1, <3>1
    <3> QED BY <1>1, <3>2
  <2>3. \E x \in Windows : Covers(s, i, x, c, r)
    BY <2>1 DEF TasksInv, Covered
  <2> QED BY <2>2, <2>3 DEF Covers
<1> QED BY <1>4, <1>5, <1>6, <1>7 DEF TasksInv, t

\* The messages that came before Run go before the tasks that were queued.
LEMMA PrefixNeutral ==
  ASSUME NEW c \in [Windows -> Stages], NEW d \in [Windows -> BOOLEAN], NEW r, NEW o,
         NEW s \in Seq(Events), NEW m \in Seq(Events), TasksInv(s, c, d, r, o),
         \A i \in DOMAIN m : m[i].what \in Neutral
  PROVE  TasksInv(m \o s, c, d, r, o)
<1> DEFINE t == m \o s
           n == Len(m)
<1>1. /\ Len(s) \in Nat /\ DOMAIN s = 1..Len(s) /\ n \in Nat /\ DOMAIN m = 1..n
      /\ t \in Seq(Events) /\ DOMAIN t = 1..(n + Len(s))
      /\ \A i \in DOMAIN m : t[i] = m[i]
      /\ \A i \in DOMAIN t : i > n => i - n \in DOMAIN s /\ t[i] = s[i - n]
      /\ \A i \in DOMAIN s : i + n \in DOMAIN t /\ t[i + n] = s[i]
  <2>1. Len(s) \in Nat /\ DOMAIN s = 1..Len(s) /\ n \in Nat /\ DOMAIN m = 1..n
    OBVIOUS
  <2>2. t \in Seq(Events) /\ Len(t) = n + Len(s) /\ DOMAIN t = 1..(n + Len(s))
    BY <2>1
  <2>3. /\ \A i \in 1..n : t[i] = m[i]
        /\ \A i \in (n + 1)..(n + Len(s)) : t[i] = s[i - n]
    <3>1. \A i \in 1..(Len(m) + Len(s)) :
            (m \o s)[i] = IF i <= Len(m) THEN m[i] ELSE s[i - Len(m)]
      BY ConcatProperties, Zenon
    <3>2. \A i \in 1..(n + Len(s)) : t[i] = IF i <= n THEN m[i] ELSE s[i - n]
      BY <3>1, Zenon
    <3> HIDE DEF t, n
    <3>3. /\ \A i \in 1..n : i \in 1..(n + Len(s)) /\ i <= n
          /\ \A i \in (n + 1)..(n + Len(s)) : i \in 1..(n + Len(s)) /\ ~(i <= n)
      BY <2>1
    <3> QED BY <3>2, <3>3, Zenon
  <2> HIDE DEF t, n
  <2>4. \A i \in DOMAIN s : i + n \in (n + 1)..(n + Len(s)) /\ (i + n) - n = i
    BY <2>1
  <2>5. \A i \in DOMAIN t : i > n => i \in (n + 1)..(n + Len(s)) /\ i - n \in DOMAIN s
    BY <2>1, <2>2
  <2>6. \A i \in DOMAIN s : i + n \in DOMAIN t /\ t[i + n] = s[i]
    BY <2>1, <2>2, <2>3, <2>4
  <2> QED BY <2>1, <2>2, <2>3, <2>5, <2>6
<1> HIDE DEF t, n
<1>3. \A i \in DOMAIN t : t[i].what \in AboutWindow => i > n /\ i - n \in DOMAIN s /\ t[i] = s[i - n]
  <2> SUFFICES ASSUME NEW i \in DOMAIN t, t[i].what \in AboutWindow PROVE i > n
    BY <1>1
  <2>1. t[i].what \notin Neutral
    BY DEF Neutral, AboutWindow, AboutBrowser
  <2>2. i \notin DOMAIN m
    BY <1>1, <2>1
  <2> QED BY <1>1, <2>2
<1>4. Backed(t, c, d)
  BY <1>1, <1>3 DEF TasksInv, Backed, Backs
<1>5. ClosedLast(t) /\ CreateOnce(t)
  <2> SUFFICES ASSUME NEW i \in DOMAIN t, NEW j \in DOMAIN t, i < j
               PROVE  /\ t[i].what = "closed" /\ t[j].what \in AboutWindow => t[j].window # t[i].window
                      /\ t[i].what = "create" /\ t[j].what = "create" => t[j].window # t[i].window
    BY DEF ClosedLast, CreateOnce
  <2>1. i - n < j - n
    BY <1>1
  <2> QED BY <1>3, <2>1 DEF TasksInv, ClosedLast, CreateOnce, AboutWindow, AboutBrowser
<1>6. RegisteredFirst(t, r, d)
  <2> SUFFICES ASSUME NEW j \in DOMAIN t, t[j].what \in AboutBrowser
               PROVE  \/ t[j].window \in r \/ d[t[j].window]
                      \/ \E i \in 1..(j - 1) : t[i] = Event("register", t[j].window)
    BY DEF RegisteredFirst
  <2>1. j > n /\ j - n \in DOMAIN s /\ t[j] = s[j - n]
    BY <1>3 DEF AboutWindow
  <2>2. \A i \in 1..(j - n - 1) : i + n \in 1..(j - 1) /\ t[i + n] = s[i]
    <3>1. j \in Nat /\ n \in Nat /\ j - n <= Len(s)
      BY <1>1, <2>1
    <3>2. \A i \in 1..(j - n - 1) : i \in DOMAIN s /\ i + n \in 1..(j - 1)
      BY <1>1, <3>1
    <3> QED BY <1>1, <3>2
  <2> QED BY <2>1, <2>2 DEF TasksInv, RegisteredFirst
<1>7. Covered(t, c, r, o)
  <2> SUFFICES ASSUME NEW i \in DOMAIN t, t[i].what = "register", Viable(t[i].window, c, o)
               PROVE  \E x \in Windows : Covers(t, i, x, c, r)
    BY DEF Covered
  <2>1. i > n /\ i - n \in DOMAIN s /\ t[i] = s[i - n]
    BY <1>3 DEF AboutWindow
  <2>2. \A k \in 1..(i - n - 1) : k + n \in 1..(i - 1) /\ t[k + n] = s[k]
    <3>1. i \in Nat /\ n \in Nat /\ i - n <= Len(s)
      BY <1>1, <2>1
    <3>2. \A k \in 1..(i - n - 1) : k \in DOMAIN s /\ k + n \in 1..(i - 1)
      BY <1>1, <3>1
    <3> QED BY <1>1, <3>2
  <2>3. \A k \in 1..(i - 1) : t[k].what \in AboutWindow => k - n \in 1..(i - n - 1) /\ t[k] = s[k - n]
    <3>1. i \in Nat /\ n \in Nat /\ i <= n + Len(s)
      BY <1>1, <2>1
    <3>2. \A k \in 1..(i - 1) : k \in DOMAIN t /\ (k > n => k - n \in 1..(i - n - 1))
      BY <1>1, <3>1
    <3> QED BY <1>3, <3>2
  <2>4. PICK x \in Windows : Covers(s, i - n, x, c, r)
    BY <2>1 DEF TasksInv, Covered
  <2>5. \A k \in 1..(i - 1) : t[k] # Event("closed", x)
    <3>1. Event("closed", x).what \in AboutWindow
      BY EventFacts DEF AboutWindow, AboutBrowser
    <3> QED BY <2>3, <2>4, <3>1 DEF Covers
  <2>6. x \in r \/ \E k \in 1..(i - 1) : t[k] = Event("register", x)
    BY <2>2, <2>4 DEF Covers
  <2> QED BY <2>4, <2>5, <2>6 DEF Covers
<1> QED BY <1>4, <1>5, <1>6, <1>7 DEF TasksInv, t

\* How the browsers may go on, as far as the tasks can tell.
Onward(c, c2, o, o2) ==
  \A w \in Windows :
    /\ c[w] = "waiting" => c2[w] = "waiting"
    /\ c[w] \notin {"none", "allowing"} => c2[w] \notin {"none", "allowing"}
    /\ c[w] \in Lived => c2[w] \in Lived
    /\ c[w] \in Leaving => c2[w] \in Leaving
    /\ c[w] = "gone" => c2[w] = "gone"
    /\ c[w] \notin {"none", "allowing"} /\ Viable(w, c2, o2) => Viable(w, c, o)

LEMMA OnwardTasks ==
  ASSUME NEW c \in [Windows -> Stages], NEW c2 \in [Windows -> Stages],
         NEW d \in [Windows -> BOOLEAN], NEW r, NEW o, NEW o2,
         NEW s \in Seq(Events), TasksInv(s, c, d, r, o), Onward(c, c2, o, o2)
  PROVE  TasksInv(s, c2, d, r, o2)
<1>1. Backed(s, c2, d)
  BY DEF TasksInv, Backed, Backs, Onward
<1>2. Covered(s, c2, r, o2)
  <2> SUFFICES ASSUME NEW i \in DOMAIN s, s[i].what = "register", Viable(s[i].window, c2, o2)
               PROVE  \E x \in Windows : Covers(s, i, x, c2, r)
    BY DEF Covered
  <2>1. s[i].window \in Windows /\ c[s[i].window] \notin {"none", "allowing"}
    BY DEF TasksInv, Backed, Backs, AboutWindow
  <2>2. Viable(s[i].window, c, o)
    BY <2>1 DEF Onward
  <2>3. PICK x \in Windows : Covers(s, i, x, c, r)
    BY <2>2 DEF TasksInv, Covered
  <2>4. c2[x] \in Lived
    BY <2>3 DEF Covers, Onward
  <2> QED BY <2>3, <2>4 DEF Covers
<1> QED BY <1>1, <1>2 DEF TasksInv

\* The main thread takes the first task, |h|: it may register a window, or end
\* the story of one.
LEMMA TailTasks ==
  ASSUME NEW c \in [Windows -> Stages], NEW d \in [Windows -> BOOLEAN],
         NEW d2 \in [Windows -> BOOLEAN], NEW r, NEW r2, NEW o,
         NEW s \in Seq(Events), s # <<>>, TasksInv(s, c, d, r, o),
         \A w \in Windows :
           /\ d[w] => d2[w]
           /\ d2[w] => d[w] \/ Head(s) = Event("closed", w)
           /\ w \in r /\ Head(s) # Event("closed", w) => w \in r2
           /\ w \in r => w \in r2 \/ d2[w]
           /\ Head(s) = Event("register", w) => w \in r2
  PROVE  TasksInv(Tail(s), c, d2, r2, o)
<1> DEFINE t == Tail(s)
<1>1. /\ Len(s) \in Nat /\ Len(s) >= 1 /\ DOMAIN s = 1..Len(s)
      /\ t \in Seq(Events) /\ DOMAIN t = 1..(Len(s) - 1)
      /\ \A i \in DOMAIN t : t[i] = s[i + 1]
      /\ Head(s) = s[1]
  BY TailFacts
<1> HIDE DEF t
<1>2. /\ 1 \in DOMAIN s
      /\ \A i \in DOMAIN t : i \in Nat /\ i >= 1 /\ i + 1 \in DOMAIN s /\ t[i] = s[i + 1]
  BY <1>1
<1>3. \A i \in DOMAIN t : t[i].what \in AboutWindow =>
        t[i].window \in Windows /\ s[1] # Event("closed", t[i].window)
  <2> SUFFICES ASSUME NEW i \in DOMAIN t, t[i].what \in AboutWindow
               PROVE  t[i].window \in Windows /\ s[1] # Event("closed", t[i].window)
    OBVIOUS
  <2>1. i + 1 \in DOMAIN s /\ t[i] = s[i + 1] /\ 1 < i + 1
    BY <1>2
  <2>2. t[i].window \in Windows
    BY <2>1 DEF TasksInv, Backed, Backs
  <2>3. s[1].what = "closed" => t[i].window # s[1].window
    BY <2>1, <1>2 DEF TasksInv, ClosedLast
  <2>4. Event("closed", t[i].window).what = "closed" /\ Event("closed", t[i].window).window = t[i].window
    BY <2>2, EventFacts
  <2> QED BY <2>2, <2>3, <2>4
<1>4. Backed(t, c, d2)
  BY <1>1, <1>2, <1>3 DEF TasksInv, Backed, Backs
<1>5. ClosedLast(t) /\ CreateOnce(t)
  <2> SUFFICES ASSUME NEW i \in DOMAIN t, NEW j \in DOMAIN t, i < j
               PROVE  /\ t[i].what = "closed" /\ t[j].what \in AboutWindow => t[j].window # t[i].window
                      /\ t[i].what = "create" /\ t[j].what = "create" => t[j].window # t[i].window
    BY DEF ClosedLast, CreateOnce
  <2>1. i + 1 < j + 1
    BY <1>2
  <2> QED BY <1>2, <2>1 DEF TasksInv, ClosedLast, CreateOnce
<1>6. RegisteredFirst(t, r2, d2)
  <2> SUFFICES ASSUME NEW j \in DOMAIN t, t[j].what \in AboutBrowser
               PROVE  \/ t[j].window \in r2 \/ d2[t[j].window]
                      \/ \E i \in 1..(j - 1) : t[i] = Event("register", t[j].window)
    BY DEF RegisteredFirst
  <2>1. t[j].window \in Windows
    BY <1>3 DEF AboutWindow
  <2>2. j + 1 \in DOMAIN s /\ t[j] = s[j + 1] /\ j \in Nat
    BY <1>2
  <2>3. \/ t[j].window \in r \/ d[t[j].window]
        \/ \E i \in 1..j : s[i] = Event("register", t[j].window)
    <3>1. (j + 1) - 1 = j
      BY <2>2
    <3> QED BY <2>2, <3>1 DEF TasksInv, RegisteredFirst
  <2>4. CASE t[j].window \in r \/ d[t[j].window]
    BY <2>1, <2>4
  <2>5. ASSUME NEW i \in 1..j, s[i] = Event("register", t[j].window)
        PROVE  \/ t[j].window \in r2
               \/ \E k \in 1..(j - 1) : t[k] = Event("register", t[j].window)
    <3>1. CASE i = 1
      BY <1>1, <2>1, <2>5, <3>1
    <3>2. CASE i # 1
      <4>1. i - 1 \in 1..(j - 1) /\ i - 1 \in DOMAIN t /\ (i - 1) + 1 = i
        BY <1>1, <2>2, <3>2
      <4> QED BY <1>2, <2>5, <4>1
    <3> QED BY <3>1, <3>2
  <2> QED BY <2>3, <2>4, <2>5
<1>7. Covered(t, c, r2, o)
  <2> SUFFICES ASSUME NEW i \in DOMAIN t, t[i].what = "register", Viable(t[i].window, c, o)
               PROVE  \E x \in Windows : Covers(t, i, x, c, r2)
    BY DEF Covered
  <2>1. i + 1 \in DOMAIN s /\ t[i] = s[i + 1] /\ i \in Nat /\ i >= 1 /\ (i + 1) - 1 = i
    BY <1>2
  <2>2. PICK x \in Windows : Covers(s, i + 1, x, c, r)
    BY <2>1 DEF TasksInv, Covered
  <2>3. /\ c[x] \in Lived
        /\ x \in r \/ \E k \in 1..i : s[k] = Event("register", x)
        /\ \A k \in 1..i : s[k] # Event("closed", x)
    BY <2>1, <2>2 DEF Covers
  <2>4. \A k \in 1..(i - 1) : k \in DOMAIN t /\ k + 1 \in 1..i /\ t[k] = s[k + 1]
    <3>1. i <= Len(s) - 1
      BY <1>1
    <3>2. \A k \in 1..(i - 1) : k \in DOMAIN t /\ k + 1 \in 1..i
      BY <1>1, <2>1, <3>1
    <3> QED BY <1>2, <3>2
  <2>5. \A k \in 1..(i - 1) : t[k] # Event("closed", x)
    BY <2>3, <2>4
  <2>6. 1 \in 1..i /\ s[1] # Event("closed", x)
    BY <2>1, <2>3
  <2>7. x \in r2 \/ \E k \in 1..(i - 1) : t[k] = Event("register", x)
    <3>1. CASE x \in r
      BY <1>1, <2>6, <3>1
    <3>2. ASSUME NEW k \in 1..i, s[k] = Event("register", x)
          PROVE  x \in r2 \/ \E n \in 1..(i - 1) : t[n] = Event("register", x)
      <4>1. CASE k = 1
        BY <1>1, <3>2, <4>1
      <4>2. CASE k # 1
        <5>1. k - 1 \in 1..(i - 1) /\ (k - 1) + 1 = k
          BY <2>1, <4>2
        <5> QED BY <2>4, <3>2, <5>1
      <4> QED BY <4>1, <4>2
    <3> QED BY <2>3, <3>1, <3>2
  <2> QED BY <2>3, <2>5, <2>7 DEF Covers
<1> QED BY <1>4, <1>5, <1>6, <1>7 DEF TasksInv, t

-----------------------------------------------------------------------------
(* Registrations, and the task of Quit.                                    *)

LEMMA AppendEnlists ==
  ASSUME NEW d, NEW r, NEW s \in Seq(Events), NEW e \in Events, NEW w
  PROVE  /\ Enlisted(s, w, r, d) => Enlisted(Append(s, e), w, r, d)
         /\ e = Event("register", w) => Enlisted(Append(s, e), w, r, d)
<1>1. /\ \A i \in DOMAIN s : i \in DOMAIN Append(s, e) /\ Append(s, e)[i] = s[i]
      /\ Len(s) + 1 \in DOMAIN Append(s, e) /\ Append(s, e)[Len(s) + 1] = e
  BY AppendFacts
<1> QED BY <1>1 DEF Enlisted

LEMMA AppendQuits ==
  ASSUME NEW q, NEW s \in Seq(Events), NEW e \in Events
  PROVE  Quitting(Append(s, e), q) <=> Quitting(s, q) \/ e.what = "quit"
<1>1. /\ \A i \in DOMAIN s : i \in DOMAIN Append(s, e) /\ Append(s, e)[i] = s[i]
      /\ Len(s) + 1 \in DOMAIN Append(s, e) /\ Append(s, e)[Len(s) + 1] = e
      /\ \A i \in DOMAIN Append(s, e) : i \in DOMAIN s \/ i = Len(s) + 1
  BY AppendFacts
<1> QED BY <1>1 DEF Quitting

LEMMA ConcatEnlists ==
  ASSUME NEW d, NEW r, NEW s \in Seq(Events), NEW m \in Seq(Events), NEW w
  PROVE  /\ Enlisted(s, w, r, d) => Enlisted(s \o m, w, r, d)
         /\ Enlisted(s, w, r, d) => Enlisted(m \o s, w, r, d)
<1>1. /\ \A i \in DOMAIN s : i \in DOMAIN (s \o m) /\ (s \o m)[i] = s[i]
      /\ \A i \in DOMAIN s : Len(m) + i \in DOMAIN (m \o s) /\ (m \o s)[Len(m) + i] = s[i]
  OBVIOUS
<1> QED BY <1>1 DEF Enlisted

LEMMA ConcatQuits ==
  ASSUME NEW q, NEW s \in Seq(Events), NEW m \in Seq(Events),
         \A i \in DOMAIN m : m[i].what # "quit"
  PROVE  /\ Quitting(s \o m, q) => Quitting(s, q)
         /\ Quitting(m \o s, q) => Quitting(s, q)
<1>1. /\ \A i \in DOMAIN (s \o m) : \/ i \in DOMAIN s /\ (s \o m)[i] = s[i]
                                    \/ i - Len(s) \in DOMAIN m /\ (s \o m)[i] = m[i - Len(s)]
      /\ \A i \in DOMAIN (m \o s) : \/ i \in DOMAIN m /\ (m \o s)[i] = m[i]
                                    \/ i - Len(m) \in DOMAIN s /\ (m \o s)[i] = s[i - Len(m)]
  OBVIOUS
<1> QED BY <1>1 DEF Quitting

LEMMA TailEnlists ==
  ASSUME NEW d, NEW d2, NEW r, NEW r2, NEW s \in Seq(Events), s # <<>>, NEW w,
         Enlisted(s, w, r, d), d[w] => d2[w], w \in r => w \in r2 \/ d2[w],
         Head(s) = Event("register", w) => w \in r2
  PROVE  Enlisted(Tail(s), w, r2, d2)
<1>1. CASE w \in r \/ d[w]
  BY <1>1 DEF Enlisted
<1>2. ASSUME NEW i \in DOMAIN s, s[i] = Event("register", w)
      PROVE  Enlisted(Tail(s), w, r2, d2)
  <2>1. CASE i = 1
    BY <1>2, <2>1, TailFacts DEF Enlisted
  <2>2. CASE i # 1
    <3>1. i - 1 \in DOMAIN Tail(s) /\ Tail(s)[i - 1] = s[i]
      BY <1>2, <2>2, TailFacts
    <3> QED BY <1>2, <3>1 DEF Enlisted
  <2> QED BY <2>1, <2>2
<1> QED BY <1>1, <1>2 DEF Enlisted

LEMMA TailQuits ==
  ASSUME NEW q, NEW s \in Seq(Events), s # <<>>, Quitting(Tail(s), q)
  PROVE  Quitting(s, q)
<1>1. \A i \in DOMAIN Tail(s) : i + 1 \in DOMAIN s /\ Tail(s)[i] = s[i + 1]
  BY TailFacts
<1> QED BY <1>1 DEF Quitting

LEMMA HasLowest ==
  ASSUME NEW S, S \subseteq Nat, S # {}
  PROVE  \E x \in S : \A y \in S : x <= y
<1> DEFINE R == OpToRel(<, Nat)
<1>1. PICK x \in S : \A y \in S : ~(<<y, x>> \in R)
  <2>1. IsWellFoundedOn(R, Nat)
    BY NatLessThanWellFounded, Zenon
  <2> HIDE DEF R
  <2> QED BY <2>1, WFMin, Zenon
<1>2. ASSUME NEW y \in S PROVE x <= y
  <2>1. <<y, x>> \in Nat \X Nat /\ <<y, x>> \notin R
    BY <1>1
  <2>2. ~(y < x)
    BY <2>1 DEF OpToRel
  <2> HIDE DEF R
  <2> QED BY <2>2
<1> QED BY <1>2

\* When the last registered window is reported closed, no other browser is
\* there or on its way: the first window that waits to be registered with one
\* would need another that is registered and stays.
LEMMA LastWindow ==
  ASSUME NEW c \in [Windows -> Stages], NEW d \in [Windows -> BOOLEAN], NEW r, NEW o,
         NEW s \in Seq(Events), s # <<>>, TasksInv(s, c, d, r, o), AllEnlisted(s, c, d, r),
         NEW y \in Windows, Head(s) = Event("closed", y), r \subseteq {y},
         \A w \in Windows : d[w] => c[w] = "gone"
  PROVE  NoneComes(c, o)
<1>1. /\ DOMAIN s = 1..Len(s) /\ 1 \in DOMAIN s /\ s[1] = Event("closed", y)
      /\ s[1].what = "closed" /\ s[1].window = y
  <2>1. DOMAIN s = 1..Len(s) /\ 1 \in DOMAIN s /\ s[1] = Event("closed", y)
    BY TailFacts
  <2> QED BY <2>1, EventFacts
<1>2. c[y] = "gone"
  BY <1>1 DEF TasksInv, Backed, Backs, AboutWindow, AboutBrowser
<1> DEFINE S == {i \in DOMAIN s : s[i].what = "register" /\ Viable(s[i].window, c, o)}
<1>3. S = {}
  <2> SUFFICES ASSUME S # {} PROVE FALSE
    OBVIOUS
  <2>1. S \subseteq Nat
    BY <1>1
  <2>2. PICK i \in S : \A j \in S : i <= j
    BY <2>1, HasLowest
  <2>3. PICK x \in Windows : Covers(s, i, x, c, r)
    BY <2>2 DEF TasksInv, Covered
  <2>4. i \in DOMAIN s /\ i # 1 /\ i \in Nat /\ 1 \in 1..(i - 1)
    <3>1. i \in DOMAIN s /\ s[i].what = "register"
      BY <2>2
    <3>2. i # 1
      BY <1>1, <3>1
    <3> QED BY <1>1, <3>1, <3>2
  <2>5. x # y
    BY <1>1, <2>3, <2>4 DEF Covers
  <2>6. PICK k \in 1..(i - 1) : s[k] = Event("register", x)
    BY <2>3, <2>5 DEF Covers
  <2>7. s[k].what = "register" /\ s[k].window = x
    BY <2>6, EventFacts
  <2>8. Viable(x, c, o)
    BY <2>3 DEF Covers, Viable, Lived
  <2>9. k \in DOMAIN s /\ k < i
    BY <1>1, <2>4
  <2>10. k \in S
    BY <2>7, <2>8, <2>9
  <2> HIDE DEF S
  <2> QED BY <2>2, <2>4, <2>9, <2>10, <1>1
<1>4. ASSUME NEW w \in Windows, Viable(w, c, o), c[w] # "gone"
      PROVE  FALSE
  <2>1. c[w] \notin {"none", "allowing"}
    BY <1>4 DEF Viable
  <2>2. w \notin r /\ ~d[w]
    BY <1>2, <1>4
  <2>3. PICK i \in DOMAIN s : s[i] = Event("register", w)
    BY <2>1, <2>2 DEF AllEnlisted, Enlisted
  <2>4. s[i].what = "register" /\ s[i].window = w
    BY <2>3, EventFacts
  <2> QED BY <1>3, <1>4, <2>4
<1> QED BY <1>4 DEF NoneComes

-----------------------------------------------------------------------------
(* The same for all that is known of the tasks.                            *)

\* Who has not been allowed yet is not now.
NoNewcomer(c, c2) ==
  \A w \in Windows : c[w] \in {"none", "allowing"} => c2[w] \in {"none", "allowing"}

LEMMA NoneStays ==
  ASSUME NEW c, NEW c2, NEW o, NEW o2, Onward(c, c2, o, o2), NoneComes(c, o),
         \A w \in Windows : c[w] \in {"none", "allowing"} => ~Viable(w, c2, o2)
  PROVE  NoneComes(c2, o2)
  BY DEF NoneComes, Onward

LEMMA OnwardGood ==
  ASSUME NEW c \in [Windows -> Stages], NEW c2 \in [Windows -> Stages],
         NEW d \in [Windows -> BOOLEAN], NEW r, NEW o, NEW o2, NEW q,
         NEW s \in Seq(Events), Good(s, q, c, d, r, o), Onward(c, c2, o, o2), NoNewcomer(c, c2)
  PROVE  Good(s, q, c2, d, r, o2) /\ (NoneComes(c, o) => NoneComes(c2, o2))
<1>1. TasksInv(s, c2, d, r, o2)
  BY OnwardTasks DEF Good
<1>2. AllEnlisted(s, c2, d, r)
  BY DEF Good, AllEnlisted, NoNewcomer
<1>3. NoneComes(c, o) => NoneComes(c2, o2)
  <2>1. \A w \in Windows : c[w] \in {"none", "allowing"} => ~Viable(w, c2, o2)
    BY DEF NoNewcomer, Viable
  <2> QED BY <2>1, NoneStays
<1> QED BY <1>1, <1>2, <1>3 DEF Good

\* No task of a browser that has not gone says that it has.
LEMMA IsFresh ==
  ASSUME NEW c \in [Windows -> Stages], NEW d \in [Windows -> BOOLEAN], NEW r, NEW o,
         NEW s \in Seq(Events), NEW e \in Events, TasksInv(s, c, d, r, o),
         c[e.window] # "gone", e.what = "create" => c[e.window] # "waiting"
  PROVE  Fresh(s, e)
  BY DEF TasksInv, Backed, Backs, Fresh, AboutWindow, AboutBrowser

LEMMA BrowserGood ==
  ASSUME NEW c \in [Windows -> Stages], NEW d \in [Windows -> BOOLEAN], NEW r, NEW o, NEW q,
         NEW s \in Seq(Events), NEW e \in Events, Good(s, q, c, d, r, o),
         Backs(e, c, d), Fresh(s, e), e.what \in AboutBrowser
  PROVE  Good(Append(s, e), q, c, d, r, o)
<1>1. /\ e.window \in Windows /\ c[e.window] \notin {"none", "allowing"}
      /\ e.what # "register" /\ e.what # "quit"
  BY DEF Backs, AboutWindow, AboutBrowser, Lived, Leaving
<1>2. Enlisted(s, e.window, r, d)
  BY <1>1 DEF Good, AllEnlisted
<1>3. TasksInv(Append(s, e), c, d, r, o)
  BY <1>1, <1>2, AppendTask DEF Good
<1>4. AllEnlisted(Append(s, e), c, d, r)
  BY AppendEnlists DEF Good, AllEnlisted
<1>5. Quitting(Append(s, e), q) => NoneComes(c, o)
  BY <1>1, AppendQuits DEF Good
<1> QED BY <1>3, <1>4, <1>5 DEF Good

LEMMA NeutralGood ==
  ASSUME NEW c \in [Windows -> Stages], NEW d \in [Windows -> BOOLEAN], NEW r, NEW o, NEW q,
         NEW s \in Seq(Events), NEW e \in Events, Good(s, q, c, d, r, o),
         e.what \in Neutral, e.what = "quit" => NoneComes(c, o)
  PROVE  Good(Append(s, e), q, c, d, r, o)
<1>1. TasksInv(Append(s, e), c, d, r, o)
  BY AppendNeutral DEF Good
<1>2. AllEnlisted(Append(s, e), c, d, r)
  BY AppendEnlists DEF Good, AllEnlisted
<1>3. Quitting(Append(s, e), q) => NoneComes(c, o)
  BY AppendQuits DEF Good
<1> QED BY <1>1, <1>2, <1>3 DEF Good

LEMMA ClosesGood ==
  ASSUME NEW c \in [Windows -> Stages], NEW d \in [Windows -> BOOLEAN], NEW r, NEW o, NEW q,
         NEW s \in Seq(Events), NEW m \in Seq(Events), Good(s, q, c, d, r, o),
         \A i \in DOMAIN m : m[i].what = "WM_CLOSE"
  PROVE  Good(s \o m, q, c, d, r, o) /\ Good(m \o s, q, c, d, r, o)
<1>1. \A i \in DOMAIN m : m[i].what \in Neutral /\ m[i].what # "quit"
  BY DEF Neutral
<1>2. TasksInv(s \o m, c, d, r, o) /\ TasksInv(m \o s, c, d, r, o)
  BY <1>1, ConcatNeutral, PrefixNeutral DEF Good
<1>3. AllEnlisted(s \o m, c, d, r) /\ AllEnlisted(m \o s, c, d, r)
  BY ConcatEnlists DEF Good, AllEnlisted
<1>4. /\ Quitting(s \o m, q) => NoneComes(c, o)
      /\ Quitting(m \o s, q) => NoneComes(c, o)
  BY <1>1, ConcatQuits DEF Good
<1> QED BY <1>2, <1>3, <1>4 DEF Good

LEMMA TailGood ==
  ASSUME NEW c \in [Windows -> Stages], NEW d \in [Windows -> BOOLEAN],
         NEW d2 \in [Windows -> BOOLEAN], NEW r, NEW r2, NEW o, NEW q,
         NEW s \in Seq(Events), s # <<>>, Good(s, q, c, d, r, o),
         \A w \in Windows :
           /\ d[w] => d2[w]
           /\ d2[w] => d[w] \/ Head(s) = Event("closed", w)
           /\ w \in r /\ Head(s) # Event("closed", w) => w \in r2
           /\ w \in r => w \in r2 \/ d2[w]
           /\ Head(s) = Event("register", w) => w \in r2
  PROVE  Good(Tail(s), q, c, d2, r2, o)
<1>1. TasksInv(Tail(s), c, d2, r2, o)
  BY TailTasks DEF Good
<1>2. AllEnlisted(Tail(s), c, d2, r2)
  BY TailEnlists DEF Good, AllEnlisted
<1>3. Quitting(Tail(s), q) => NoneComes(c, o)
  BY TailQuits DEF Good
<1> QED BY <1>1, <1>2, <1>3 DEF Good

\* A browser that is live, or leaving, has its window registered before any
\* window that is announced now.
LEMMA OpenerCovers ==
  ASSUME NEW c \in [Windows -> Stages], NEW d \in [Windows -> BOOLEAN], NEW r,
         NEW s \in Seq(Events), Backed(s, c, d), NEW x \in Windows,
         c[x] \in Lived, c[x] # "gone", ~d[x], Enlisted(s, x, r, d)
  PROVE  Covers(s, Len(s) + 1, x, c, r)
<1>1. Len(s) \in Nat /\ DOMAIN s = 1..Len(s) /\ (Len(s) + 1) - 1 = Len(s)
  OBVIOUS
<1>2. x \in r \/ \E k \in 1..Len(s) : s[k] = Event("register", x)
  BY <1>1 DEF Enlisted
<1>3. \A k \in 1..Len(s) : s[k] # Event("closed", x)
  <2>1. Event("closed", x).what = "closed" /\ Event("closed", x).window = x
    BY EventFacts
  <2> QED BY <1>1, <2>1 DEF Backed, Backs, AboutWindow, AboutBrowser
<1> QED BY <1>1, <1>2, <1>3 DEF Covers

\* The tasks that announce the window |w| of the browser |x|: its registration,
\* after whatever else was posted for it.
LEMMA RegisterGood ==
  ASSUME NEW c \in [Windows -> Stages], NEW d \in [Windows -> BOOLEAN], NEW r, NEW o, NEW q,
         NEW s \in Seq(Events), NEW w \in Windows, TasksInv(s, c, d, r, o),
         c[w] \notin {"none", "allowing"}, c[w] # "gone", ~d[w],
         \A v \in Windows : v # w /\ c[v] \notin {"none", "allowing"} => Enlisted(s, v, r, d),
         Viable(w, c, o) =>
           \E x \in Windows : x # w /\ c[x] \in Lived /\ c[x] # "gone" /\ ~d[x],
         Quitting(s, q) => NoneComes(c, o)
  PROVE  Good(Append(s, Event("register", w)), q, c, d, r, o)
<1> DEFINE e == Event("register", w)
<1>1. e \in Events /\ e.what = "register" /\ e.window = w
  BY EventFacts
<1> HIDE DEF e
<1>2. Backs(e, c, d) /\ Fresh(s, e)
  <2>1. Backs(e, c, d)
    BY <1>1 DEF Backs, AboutWindow
  <2>2. Fresh(s, e)
    BY <1>1, IsFresh
  <2> QED BY <2>1, <2>2
<1>3. Viable(w, c, o) => \E x \in Windows : Covers(s, Len(s) + 1, x, c, r)
  <2> SUFFICES ASSUME Viable(w, c, o) PROVE \E x \in Windows : Covers(s, Len(s) + 1, x, c, r)
    OBVIOUS
  <2>1. PICK x \in Windows : x # w /\ c[x] \in Lived /\ c[x] # "gone" /\ ~d[x]
    OBVIOUS
  <2>2. Enlisted(s, x, r, d)
    BY <2>1 DEF Lived
  <2>3. Covers(s, Len(s) + 1, x, c, r)
    BY <2>1, <2>2, OpenerCovers DEF TasksInv
  <2> QED BY <2>3
<1>4. e.what \notin AboutBrowser /\ e.what # "quit"
  BY <1>1 DEF AboutBrowser
<1>5. TasksInv(Append(s, e), c, d, r, o)
  BY <1>1, <1>2, <1>3, <1>4, AppendTask
<1>6. AllEnlisted(Append(s, e), c, d, r)
  BY <1>1, AppendEnlists DEF AllEnlisted, e
<1>7. Quitting(Append(s, e), q) => NoneComes(c, o)
  BY <1>1, <1>4, AppendQuits
<1> QED BY <1>5, <1>6, <1>7 DEF Good, e

-----------------------------------------------------------------------------
(* What posting does to the tasks.                                         *)

LEMMA PostFacts ==
  ASSUME TypeOK, phase' = phase,
         NEW p \in Seq(Events), NEW m \in Seq(Events), Post(p, m)
  PROVE  /\ Tasks \in Seq(Events) /\ queued' \in Seq(Events) /\ posted' \in Seq(Events)
         /\ HasMessageWindow' => queued' = <<>>
         /\ Tasks' = IF HasMessageWindow THEN (Tasks \o p) \o m ELSE Tasks \o p
         /\ ~HasMessageWindow => posted' = posted \o m
<1>1. posted \in Seq(Events) /\ queued \in Seq(Events) /\ (HasMessageWindow => queued = <<>>)
  BY DEF TypeOK
<1>2. HasMessageWindow' = HasMessageWindow
  BY DEF HasMessageWindow
<1>3. CASE HasMessageWindow
  <2>1. posted' = (posted \o p) \o m /\ queued' = queued
    BY <1>3 DEF Post, PostAfter
  <2>2. (posted \o p) \o m \in Seq(Events)
    BY <1>1
  <2> QED BY <1>1, <1>2, <1>3, <2>1, <2>2 DEF Tasks
<1>4. CASE ~HasMessageWindow
  <2>1. posted' = posted \o m /\ queued' = queued \o p
    BY <1>4 DEF Post, PostAfter
  <2> QED BY <1>1, <1>2, <1>4, <2>1 DEF Tasks
<1> QED BY <1>3, <1>4

\* A step that posts |p| about windows, and WM_CLOSE messages |m|, leaves LoopInv
\* if |p| suits the new state.
LEMMA PostGood ==
  ASSUME WindowsInv, phase' = phase, quitting' = quitting,
         cef' \in [Windows -> Stages], browserDestroyed' \in [Windows -> BOOLEAN],
         NEW p \in Seq(Events), NEW m \in Seq(Events), Post(p, m),
         \A i \in DOMAIN m : m[i].what = "WM_CLOSE",
         Looping => Good(Tasks \o p, quitting, cef', browserDestroyed', rootWindows', opener'),
         quitting => NoneComes(cef', opener')
  PROVE  LoopInv'
<1>1. /\ Tasks \in Seq(Events)
      /\ Tasks' = IF HasMessageWindow THEN (Tasks \o p) \o m ELSE Tasks \o p
      /\ ~HasMessageWindow => posted' = posted \o m
  BY PostFacts DEF WindowsInv
<1>2. Looping => Good(Tasks', quitting, cef', browserDestroyed', rootWindows', opener')
  <2>1. Tasks \o p \in Seq(Events)
    BY <1>1
  <2>2. Looping => Good((Tasks \o p) \o m, quitting, cef', browserDestroyed', rootWindows', opener')
    BY <2>1, ClosesGood
  <2> QED BY <1>1, <2>2
<1>3. phase = "starting" => \A i \in DOMAIN posted' : posted'[i].what = "WM_CLOSE"
  <2> SUFFICES ASSUME phase = "starting"
               PROVE  \A i \in DOMAIN posted' : posted'[i].what = "WM_CLOSE"
    OBVIOUS
  <2>1. posted' = posted \o m /\ posted \in Seq(Events)
    BY <1>1 DEF HasMessageWindow, WindowsInv, TypeOK
  <2>2. \A i \in DOMAIN posted : posted[i].what = "WM_CLOSE"
    BY DEF WindowsInv, LoopInv
  <2>3. \A i \in DOMAIN (posted \o m) :
          \/ i \in DOMAIN posted /\ (posted \o m)[i] = posted[i]
          \/ i - Len(posted) \in DOMAIN m /\ (posted \o m)[i] = m[i - Len(posted)]
    BY <2>1
  <2> QED BY <2>1, <2>2, <2>3
<1>4. Looping' = Looping
  BY DEF Looping
<1> QED BY <1>2, <1>3, <1>4 DEF LoopInv

-----------------------------------------------------------------------------
(* The steps of CEF's threads.                                             *)

LEMMA Types ==
  ASSUME TypeOK
  PROVE  /\ cef \in [Windows -> Stages] /\ browserDestroyed \in [Windows -> BOOLEAN]
         /\ opener \in [Windows -> Windows \cup {NoWindow}]
         /\ Tasks \in Seq(Events)
<1>1. cef \in [Windows -> Stages] /\ browserDestroyed \in [Windows -> BOOLEAN]
  BY DEF TypeOK, Stages
<1>2. opener \in [Windows -> Windows \cup {NoWindow}] /\ Tasks \in Seq(Events)
  BY DEF TypeOK, Tasks
<1> QED BY <1>1, <1>2

\* One browser goes on, by itself.
OneStep(a, b) ==
  \/ a = "none" /\ b \in {"allowing", "waiting"}
  \/ a = "allowing" /\ b = "requested"
  \/ a = "requested" /\ b \in {"live", "never"}
  \/ a = "live" /\ b = "closing"
  \/ a = "doomed" /\ b = "gone"

LEMMA OneMoves ==
  ASSUME NEW c \in [Windows -> Stages], NEW w \in Windows, NEW b \in Stages,
         NEW o \in [Windows -> Windows \cup {NoWindow}],
         NEW o2 \in [Windows -> Windows \cup {NoWindow}],
         OneStep(c[w], b), b = "live" => Viable(w, c, o),
         \A v \in Windows : o2[v] # o[v] => v = w /\ c[w] = "none"
  PROVE  [c EXCEPT ![w] = b] \in [Windows -> Stages] /\ Onward(c, [c EXCEPT ![w] = b], o, o2)
<1> DEFINE c2 == [c EXCEPT ![w] = b]
<1>1. /\ c2 \in [Windows -> Stages] /\ c2[w] = b
      /\ \A v \in Windows : v # w => c2[v] = c[v]
  OBVIOUS
<1> HIDE DEF c2
<1>2. ASSUME NEW v \in Windows
      PROVE  /\ c[v] = "waiting" => c2[v] = "waiting"
             /\ c[v] \notin {"none", "allowing"} => c2[v] \notin {"none", "allowing"}
             /\ c[v] \in Lived => c2[v] \in Lived
             /\ c[v] \in Leaving => c2[v] \in Leaving
             /\ c[v] = "gone" => c2[v] = "gone"
  <2>1. CASE v = w
    BY <1>1, <2>1 DEF OneStep, Lived, Leaving
  <2>2. CASE v # w
    BY <1>1, <2>2
  <2> QED BY <2>1, <2>2
<1>3. ASSUME NEW v \in Windows, c[v] \notin {"none", "allowing"}, Viable(v, c2, o2)
      PROVE  Viable(v, c, o)
  <2>1. o2[v] = o[v]
    BY <1>3
  <2>2. CASE v = w
    <3>1. c[w] \in {"requested", "live", "doomed"}
      BY <1>3, <2>2 DEF OneStep
    <3>2. CASE c[w] = "requested"
      BY <1>1, <1>3, <2>2, <3>2 DEF OneStep, Viable
    <3>3. CASE c[w] # "requested"
      BY <3>1, <3>3, <2>2 DEF Viable
    <3> QED BY <3>2, <3>3
  <2>3. CASE v # w
    <3>1. c2[v] = c[v]
      BY <1>1, <2>3
    <3>2. o[v] # NoWindow => o[v] \in Windows
      OBVIOUS
    <3>3. o[v] # NoWindow /\ c[o[v]] = "gone" => c2[o[v]] = "gone"
      BY <1>2, <3>2
    <3> QED BY <1>3, <2>1, <3>1, <3>3 DEF Viable
  <2> QED BY <2>2, <2>3
<1>4. Onward(c, c2, o, o2)
  BY <1>2, <1>3 DEF Onward
<1> QED BY <1>1, <1>4 DEF c2

\* A step that leaves the tasks and the windows alone.
LEMMA BrowsersGoOn ==
  ASSUME WindowsInv, UNCHANGED <<loop, rootWindows, browserDestroyed>>,
         cef' \in [Windows -> Stages], Onward(cef, cef', opener, opener'), NoNewcomer(cef, cef')
  PROVE  LoopInv'
<1>1. Tasks' = Tasks /\ Looping' = Looping
  BY DEF Tasks, HasMessageWindow, Looping, loop
<1>2. Looping => Good(Tasks, quitting, cef', browserDestroyed, rootWindows, opener')
  BY Types, OnwardGood DEF WindowsInv, LoopInv
<1>3. NoneComes(cef, opener) => NoneComes(cef', opener')
  <2>1. \A w \in Windows : cef[w] \in {"none", "allowing"} => ~Viable(w, cef', opener')
    BY DEF NoNewcomer, Viable
  <2> QED BY <2>1, NoneStays
<1> QED BY <1>1, <1>2, <1>3 DEF WindowsInv, LoopInv, loop

LEMMA PopupAskedStep ==
  ASSUME WindowsInv, NEW o \in Windows, NEW w \in Windows, PopupAsked(o, w)
  PROVE  WindowsInv'
<1>0. o # w
  BY DEF PopupAsked
<1>1. /\ cef \in [Windows -> Stages] /\ opener \in [Windows -> Windows \cup {NoWindow}]
      /\ cef' = [cef EXCEPT ![w] = "allowing"] /\ opener' = [opener EXCEPT ![w] = o]
      /\ cef[w] = "none" /\ cef[o] = "live"
  BY Types DEF WindowsInv, PopupAsked
<1>2. LoopInv'
  <2>1. /\ opener' \in [Windows -> Windows \cup {NoWindow}]
        /\ \A v \in Windows : opener'[v] # opener[v] => v = w
    BY <1>1
  <2>2. OneStep(cef[w], "allowing")
    BY <1>1 DEF OneStep
  <2>3. cef' \in [Windows -> Stages] /\ Onward(cef, cef', opener, opener')
    <3>1. \A v \in Windows : opener'[v] # opener[v] => v = w /\ cef[w] = "none"
      BY <1>1, <2>1
    <3>2. "allowing" \in Stages
      BY DEF Stages
    <3> QED BY <1>1, <2>1, <2>2, <3>1, <3>2, OneMoves
  <2>4. NoNewcomer(cef, cef')
    BY <1>1 DEF NoNewcomer
  <2> QED BY <2>3, <2>4, BrowsersGoOn DEF PopupAsked
<1>3. TypeOK'
  BY DEF WindowsInv, PopupAsked, TypeOK, loop, HasMessageWindow
<1>4. StateInv'
  <2>1. \A v \in Windows : v # w => cef'[v] = cef[v] /\ opener'[v] = opener[v]
    BY <1>1
  <2>2. cef'[w] = "allowing" /\ opener'[w] = o /\ cef'[o] = "live" /\ opener[w] = NoWindow
    BY <1>0, <1>1 DEF WindowsInv, StateInv, OpenerInv
  <2>3. ClosingInv' /\ DestroyedInv'
    BY <1>1, <2>1, <2>2 DEF WindowsInv, StateInv, ClosingInv, DestroyedInv, PopupAsked, Leaving
  <2>4. OpenerInv'
    <3>1. ASSUME NEW v \in Windows, v # w, opener[v] # NoWindow
          PROVE  cef'[opener[v]] \in Lived
      BY <1>1, <2>1, <3>1 DEF WindowsInv, StateInv, OpenerInv, Lived
    <3>2. o # NoWindow
      BY WindowsAssumption
    <3> QED BY <2>1, <2>2, <3>1, <3>2 DEF WindowsInv, StateInv, OpenerInv, Lived
  <2> QED BY <2>3, <2>4 DEF StateInv
<1> QED BY <1>2, <1>3, <1>4 DEF WindowsInv

\* What a step has to respect for StateInv.
LEMMA StateGoesOn ==
  ASSUME WindowsInv, UNCHANGED <<opener, browserDestroyed, notified>>,
         \A v \in Windows :
           /\ cef[v] \in Lived => cef'[v] \in Lived
           /\ cef[v] \in Leaving => cef'[v] \in Leaving
           /\ cef[v] = "gone" => cef'[v] = "gone"
           /\ cef'[v] \in {"none", "waiting"} => cef[v] \in {"none", "waiting"}
           /\ cef'[v] = "allowing" => cef[v] = "allowing"
           /\ isClosing'[v] => isClosing[v] \/ cef[v] \in Leaving
           /\ browserDestroyed[v] => hwnd'[v] # "open" /\ (v \in rootWindows' => v \in rootWindows)
  PROVE  StateInv'
<1>1. ClosingInv'
  BY DEF WindowsInv, StateInv, ClosingInv
<1>2. DestroyedInv'
  BY DEF WindowsInv, StateInv, DestroyedInv
<1>3. OpenerInv'
  <2>1. opener \in [Windows -> Windows \cup {NoWindow}]
    BY Types DEF WindowsInv
  <2> QED BY <2>1 DEF WindowsInv, StateInv, OpenerInv
<1> QED BY <1>1, <1>2, <1>3 DEF StateInv

\* A browser that CEF has taken goes on and is reported to the main thread.
BrowserPosts(w, b, what, m) ==
  /\ cef[w] \in {"requested", "live", "doomed"} /\ OneStep(cef[w], b)
  /\ b = "live" => Viable(w, cef, opener)
  /\ cef' = [cef EXCEPT ![w] = b]
  /\ Post(<<Event(what, w)>>, m)
  /\ UNCHANGED <<phase, quitting, rootWindows, browserDestroyed, opener, notified, isClosing, hwnd>>

LEMMA BrowserMoves ==
  ASSUME WindowsInv, NEW w \in Windows, NEW b \in Stages,
         cef[w] \in {"requested", "live", "doomed"}, OneStep(cef[w], b),
         b = "live" => Viable(w, cef, opener),
         cef' = [cef EXCEPT ![w] = b], opener' = opener
  PROVE  /\ cef' \in [Windows -> Stages] /\ cef'[w] = b
         /\ Onward(cef, cef', opener, opener') /\ NoNewcomer(cef, cef')
         /\ \A v \in Windows :
              /\ cef'[v] \in {"none", "waiting"} => cef[v] \in {"none", "waiting"}
              /\ cef'[v] = "allowing" => cef[v] = "allowing"
<1>1. /\ cef \in [Windows -> Stages] /\ opener \in [Windows -> Windows \cup {NoWindow}]
  BY Types DEF WindowsInv
<1>2. cef' \in [Windows -> Stages] /\ Onward(cef, cef', opener, opener')
  <2>1. \A v \in Windows : opener[v] # opener[v] => v = w /\ cef[w] = "none"
    OBVIOUS
  <2> QED BY <1>1, <2>1, OneMoves
<1>3. cef'[w] = b /\ b \notin {"none", "allowing", "waiting"}
  BY <1>1 DEF OneStep
<1>4. \A v \in Windows : v # w => cef'[v] = cef[v]
  BY <1>1
<1> QED BY <1>2, <1>3, <1>4 DEF NoNewcomer

LEMMA OnwardNone ==
  ASSUME NEW c, NEW c2, NEW o, NEW o2, Onward(c, c2, o, o2), NoNewcomer(c, c2), NoneComes(c, o)
  PROVE  NoneComes(c2, o2)
<1>1. \A w \in Windows : c[w] \in {"none", "allowing"} => ~Viable(w, c2, o2)
  BY DEF NoNewcomer, Viable
<1> QED BY <1>1, NoneStays

LEMMA BrowserPostsGood ==
  ASSUME WindowsInv, NEW w \in Windows, NEW b \in Stages, NEW what \in AboutBrowser,
         NEW m \in Seq(Events), \A i \in DOMAIN m : m[i].what = "WM_CLOSE",
         BrowserPosts(w, b, what, m),
         what = "created" => b = "live", what = "closing" => b = "closing",
         what = "closed" => b = "gone"
  PROVE  LoopInv' /\ StateInv'
<1> DEFINE e == Event(what, w)
<1>1. e \in Events /\ e.what = what /\ e.window = w
  BY EventFacts DEF AboutBrowser
<1>2. /\ cef' \in [Windows -> Stages] /\ cef'[w] = b
      /\ Onward(cef, cef', opener, opener') /\ NoNewcomer(cef, cef')
      /\ \A v \in Windows :
           /\ cef'[v] \in {"none", "waiting"} => cef[v] \in {"none", "waiting"}
           /\ cef'[v] = "allowing" => cef[v] = "allowing"
  BY BrowserMoves DEF BrowserPosts
<1>3. /\ cef \in [Windows -> Stages] /\ browserDestroyed \in [Windows -> BOOLEAN]
      /\ Tasks \in Seq(Events) /\ browserDestroyed' = browserDestroyed
      /\ rootWindows' = rootWindows
  BY Types DEF WindowsInv, BrowserPosts
<1>4. cef[w] # "gone" /\ ~browserDestroyed[w]
  BY DEF BrowserPosts, WindowsInv, StateInv, DestroyedInv
<1> HIDE DEF e
<1>5. Backs(e, cef', browserDestroyed)
  BY <1>1, <1>2, <1>4 DEF Backs, AboutBrowser, Lived, Leaving
<1>6. ASSUME Looping
      PROVE  Good(Tasks \o <<e>>, quitting, cef', browserDestroyed', rootWindows', opener')
  <2>1. Good(Tasks, quitting, cef, browserDestroyed, rootWindows, opener)
    BY <1>6 DEF WindowsInv, LoopInv
  <2>2. Good(Tasks, quitting, cef', browserDestroyed, rootWindows, opener')
    BY <1>2, <1>3, <2>1, OnwardGood
  <2>3. Fresh(Tasks, e)
    <3>1. e.what # "create"
      BY <1>1 DEF AboutBrowser
    <3> QED BY <1>1, <1>3, <1>4, <2>1, <3>1, IsFresh DEF Good
  <2>4. Good(Append(Tasks, e), quitting, cef', browserDestroyed, rootWindows, opener')
    BY <1>1, <1>2, <1>3, <1>5, <2>2, <2>3, BrowserGood
  <2>5. Tasks \o <<e>> = Append(Tasks, e)
    BY <1>1, <1>3
  <2> QED BY <1>3, <2>4, <2>5
<1>7. quitting => NoneComes(cef', opener')
  BY <1>2, OnwardNone DEF WindowsInv, LoopInv
<1>8. LoopInv'
  <2>1. <<e>> \in Seq(Events)
    BY <1>1
  <2>2. Post(<<e>>, m) /\ phase' = phase /\ quitting' = quitting
    BY DEF BrowserPosts, e
  <2> QED BY <1>2, <1>3, <1>6, <1>7, <2>1, <2>2, PostGood
<1>9. StateInv'
  <2>1. UNCHANGED <<opener, browserDestroyed, notified, rootWindows, isClosing, hwnd>>
    BY DEF BrowserPosts
  <2>2. \A v \in Windows : browserDestroyed[v] => hwnd[v] # "open"
    BY DEF WindowsInv, StateInv, DestroyedInv
  <2> QED BY <1>2, <2>1, <2>2, StateGoesOn DEF Onward
<1> QED BY <1>8, <1>9

LEMMA NoMessages ==
  <<>> \in Seq(Events) /\ \A i \in DOMAIN <<>> : <<>>[i].what = "WM_CLOSE"
  OBVIOUS

LEMMA OneTask ==
  ASSUME NEW e \in Events
  PROVE  <<e>> \in Seq(Events)
  OBVIOUS

LEMMA OnAfterCreatedStep ==
  ASSUME WindowsInv, NEW w \in Windows, OnAfterCreated(w)
  PROVE  WindowsInv'
<1>1. /\ <<Event("created", w)>> \in Seq(Events)
      /\ "live" \in Stages /\ "created" \in AboutBrowser
  BY EventFacts, OneTask DEF Stages, AboutBrowser
<1>2. Viable(w, cef, opener)
  BY DEF OnAfterCreated, CanBeCreated, IsPopup, Viable
<1>3. BrowserPosts(w, "live", "created", <<>>)
  BY <1>2 DEF OnAfterCreated, BrowserPosts, OneStep, root
<1>4. LoopInv' /\ StateInv'
  BY <1>1, <1>3, NoMessages, BrowserPostsGood
<1>5. TypeOK'
  <2>1. posted' \in Seq(Events) /\ queued' \in Seq(Events) /\ (HasMessageWindow' => queued' = <<>>)
    BY <1>1, NoMessages, PostFacts DEF OnAfterCreated, WindowsInv
  <2> QED BY <2>1 DEF OnAfterCreated, WindowsInv, TypeOK, root
<1> QED BY <1>4, <1>5 DEF WindowsInv

LEMMA OnBeforeCloseStep ==
  ASSUME WindowsInv, NEW w \in Windows, OnBeforeClose(w)
  PROVE  WindowsInv'
<1>1. /\ <<Event("closed", w)>> \in Seq(Events)
      /\ "gone" \in Stages /\ "closed" \in AboutBrowser
  BY EventFacts, OneTask DEF Stages, AboutBrowser
<1>2. BrowserPosts(w, "gone", "closed", <<>>)
  BY DEF OnBeforeClose, BrowserPosts, OneStep, root
<1>3. LoopInv' /\ StateInv'
  BY <1>1, <1>2, NoMessages, BrowserPostsGood
<1>4. TypeOK'
  <2>1. posted' \in Seq(Events) /\ queued' \in Seq(Events) /\ (HasMessageWindow' => queued' = <<>>)
    BY <1>1, NoMessages, PostFacts DEF OnBeforeClose, WindowsInv
  <2> QED BY <2>1 DEF OnBeforeClose, WindowsInv, TypeOK, root
<1> QED BY <1>3, <1>4 DEF WindowsInv

LEMMA DoCloseStep ==
  ASSUME WindowsInv, NEW w \in Windows, cef[w] = "live", DoClose(w),
         UNCHANGED <<phase, quitting, root, shown, notified>>,
         closeAsked' \in [Windows -> BOOLEAN]
  PROVE  WindowsInv'
<1> DEFINE v == IF shown[w] THEN w ELSE NoWindow
           m == <<Event("WM_CLOSE", v)>>
<1>1. /\ <<Event("closing", w)>> \in Seq(Events) /\ m \in Seq(Events)
      /\ "closing" \in Stages /\ "closing" \in AboutBrowser
      /\ \A i \in DOMAIN m : m[i].what = "WM_CLOSE"
  <2>1. Event("closing", w) \in Events /\ Event("WM_CLOSE", v) \in Events
        /\ Event("WM_CLOSE", v).what = "WM_CLOSE"
    BY EventFacts
  <2> QED BY <2>1 DEF Stages, AboutBrowser
<1>2. BrowserPosts(w, "closing", "closing", m)
  BY DEF DoClose, BrowserPosts, OneStep, root
<1> HIDE DEF m
<1>3. LoopInv' /\ StateInv'
  BY <1>1, <1>2, BrowserPostsGood
<1>4. TypeOK'
  <2>1. posted' \in Seq(Events) /\ queued' \in Seq(Events) /\ (HasMessageWindow' => queued' = <<>>)
    BY <1>1, <1>2, PostFacts DEF BrowserPosts, WindowsInv
  <2>2. astray' \subseteq Windows
    BY DEF DoClose, WindowsInv, TypeOK
  <2>3. cef' \in [Windows -> {"none", "allowing", "waiting", "requested", "live",
                              "closing", "doomed", "gone", "never"}]
    BY DEF DoClose, WindowsInv, TypeOK
  <2> QED BY <2>1, <2>2, <2>3 DEF WindowsInv, TypeOK, root
<1> QED BY <1>3, <1>4 DEF WindowsInv

LEMMA CloseBrowserStep ==
  ASSUME WindowsInv, NEW w \in Windows, CloseBrowser(w)
  PROVE  WindowsInv'
<1>1. closeAsked' \in [Windows -> BOOLEAN]
  BY DEF CloseBrowser, WindowsInv, TypeOK
<1>2. CASE cef[w] = "live" /\ DoClose(w)
  BY <1>1, <1>2, DoCloseStep DEF CloseBrowser
<1>3. CASE UNCHANGED <<posted, queued, cef, astray>>
  <2>1. UNCHANGED <<phase, queued, posted, quitting, rootWindows, opener, hwnd, known, isClosing,
                    browserDestroyed, temp, cef, shown, astray, notified>>
    BY <1>3 DEF CloseBrowser, root
  <2>2. TypeOK'
    BY <1>1, <2>1 DEF WindowsInv, TypeOK, HasMessageWindow
  <2>3. LoopInv' /\ StateInv'
    BY <2>1 DEF WindowsInv, LoopInv, Looping, Tasks, HasMessageWindow,
                StateInv, ClosingInv, DestroyedInv, OpenerInv
  <2> QED BY <2>2, <2>3 DEF WindowsInv
<1> QED BY <1>2, <1>3 DEF CloseBrowser

LEMMA CreationCanceledStep ==
  ASSUME WindowsInv, NEW w \in Windows, CreationCanceled(w)
  PROVE  WindowsInv'
<1>1. "never" \in Stages /\ OneStep(cef[w], "never") /\ opener' = opener
  BY DEF Stages, OneStep, CreationCanceled, root
<1>2. /\ cef' \in [Windows -> Stages]
      /\ Onward(cef, cef', opener, opener') /\ NoNewcomer(cef, cef')
      /\ \A v \in Windows :
           /\ cef'[v] \in {"none", "waiting"} => cef[v] \in {"none", "waiting"}
           /\ cef'[v] = "allowing" => cef[v] = "allowing"
  BY <1>1, BrowserMoves DEF CreationCanceled
<1>3. LoopInv'
  BY <1>2, BrowsersGoOn DEF CreationCanceled, root
<1>4. StateInv'
  <2>1. UNCHANGED <<opener, browserDestroyed, notified, rootWindows, isClosing, hwnd>>
    BY DEF CreationCanceled, root
  <2>2. \A v \in Windows : browserDestroyed[v] => hwnd[v] # "open"
    BY DEF WindowsInv, StateInv, DestroyedInv
  <2> QED BY <1>2, <2>1, <2>2, StateGoesOn DEF Onward
<1>5. TypeOK'
  BY DEF CreationCanceled, WindowsInv, TypeOK, loop, root, HasMessageWindow
<1> QED BY <1>3, <1>4, <1>5 DEF WindowsInv

LEMMA OnBeforePopupStep ==
  ASSUME WindowsInv, NEW w \in Windows, OnBeforePopup(w)
  PROVE  WindowsInv'
<1> DEFINE e == Event("register", w)
<1>1. /\ e \in Events /\ <<e>> \in Seq(Events) /\ <<>> \in Seq(Events)
      /\ "requested" \in Stages
  BY EventFacts DEF Stages
<1>2. /\ cef \in [Windows -> Stages] /\ browserDestroyed \in [Windows -> BOOLEAN]
      /\ opener \in [Windows -> Windows \cup {NoWindow}] /\ Tasks \in Seq(Events)
      /\ browserDestroyed' = browserDestroyed /\ rootWindows' = rootWindows /\ opener' = opener
      /\ hwnd' = hwnd /\ isClosing' = isClosing /\ notified' = notified
      /\ cef' = [cef EXCEPT ![w] = "requested"] /\ cef[w] = "allowing"
      /\ Post(<<e>>, <<>>) /\ phase' = phase /\ quitting' = quitting
  BY Types DEF WindowsInv, OnBeforePopup, root
<1> HIDE DEF e
<1> DEFINE x == opener[w]
<1>3. x \in Windows /\ cef[x] \in Lived /\ x # w
  BY <1>2 DEF WindowsInv, StateInv, OpenerInv, Lived
<1>4. /\ cef' \in [Windows -> Stages] /\ cef'[w] = "requested" /\ cef'[x] = cef[x]
      /\ \A v \in Windows : v # w => cef'[v] = cef[v]
  BY <1>1, <1>2, <1>3
<1>5. Onward(cef, cef', opener, opener)
  <2>1. OneStep(cef[w], "requested")
    BY <1>2 DEF OneStep
  <2>2. \A v \in Windows : opener[v] # opener[v] => v = w /\ cef[w] = "none"
    OBVIOUS
  <2> QED BY <1>1, <1>2, <2>1, <2>2, OneMoves
<1>6. NoneComes(cef, opener) => NoneComes(cef', opener)
  <2> SUFFICES ASSUME NoneComes(cef, opener)
               PROVE  \A v \in Windows : cef[v] \in {"none", "allowing"} => ~Viable(v, cef', opener)
    BY <1>5, NoneStays
  <2>1. cef'[x] = "gone"
    BY <1>3, <1>4 DEF NoneComes, Viable, Lived
  <2>2. x # NoWindow
    BY <1>3, WindowsAssumption
  <2> QED BY <1>4, <2>1, <2>2 DEF Viable
<1>7. ASSUME Looping
      PROVE  Good(Tasks \o <<e>>, quitting, cef', browserDestroyed, rootWindows, opener)
  <2>1. Good(Tasks, quitting, cef, browserDestroyed, rootWindows, opener)
    BY <1>7 DEF WindowsInv, LoopInv
  <2>2. TasksInv(Tasks, cef', browserDestroyed, rootWindows, opener)
    BY <1>2, <1>4, <1>5, <2>1, OnwardTasks DEF Good
  <2>3. ~browserDestroyed[w] /\ (cef[x] # "gone" => ~browserDestroyed[x])
    BY <1>2, <1>3 DEF WindowsInv, StateInv, DestroyedInv
  <2>4. \A v \in Windows : v # w /\ cef'[v] \notin {"none", "allowing"} =>
          Enlisted(Tasks, v, rootWindows, browserDestroyed)
    BY <1>4, <2>1 DEF Good, AllEnlisted
  <2>5. Viable(w, cef', opener) =>
          x # w /\ cef'[x] \in Lived /\ cef'[x] # "gone" /\ ~browserDestroyed[x]
    <3>1. x # NoWindow
      BY <1>3, WindowsAssumption
    <3> QED BY <1>3, <1>4, <2>3, <3>1 DEF Viable
  <2>6. Quitting(Tasks, quitting) => NoneComes(cef', opener)
    BY <1>6, <2>1 DEF Good
  <2> HIDE DEF x
  <2>7. Good(Append(Tasks, e), quitting, cef', browserDestroyed, rootWindows, opener)
    BY <1>2, <1>3, <1>4, <2>2, <2>3, <2>4, <2>5, <2>6, RegisterGood DEF e
  <2>8. Tasks \o <<e>> = Append(Tasks, e)
    BY <1>1, <1>2
  <2> QED BY <2>7, <2>8
<1>8. LoopInv'
  <2>1. quitting => NoneComes(cef', opener)
    BY <1>6 DEF WindowsInv, LoopInv
  <2> QED BY <1>1, <1>2, <1>4, <1>7, <2>1, NoMessages, PostGood
<1>9. StateInv'
  <2>1. \A v \in Windows : browserDestroyed[v] => hwnd[v] # "open"
    BY DEF WindowsInv, StateInv, DestroyedInv
  <2>2. \A v \in Windows :
          /\ cef'[v] \in {"none", "waiting"} => cef[v] \in {"none", "waiting"}
          /\ cef'[v] = "allowing" => cef[v] = "allowing"
    BY <1>4
  <2> QED BY <1>2, <1>5, <2>1, <2>2, StateGoesOn DEF Onward
<1>10. TypeOK'
  <2>1. posted' \in Seq(Events) /\ queued' \in Seq(Events) /\ (HasMessageWindow' => queued' = <<>>)
    BY <1>1, <1>2, PostFacts DEF WindowsInv
  <2> QED BY <2>1 DEF OnBeforePopup, WindowsInv, TypeOK, root
<1> QED BY <1>8, <1>9, <1>10 DEF WindowsInv

LEMMA OnOpenURLFromTabStep ==
  ASSUME WindowsInv, NEW x \in Windows, NEW w \in Windows, OnOpenURLFromTab(x, w)
  PROVE  WindowsInv'
<1> DEFINE a == Event("create", w)
           e == Event("register", w)
<1>1. /\ a \in Events /\ e \in Events /\ a.what = "create" /\ a.window = w /\ "waiting" \in Stages
  BY EventFacts DEF Stages
<1>2. /\ cef \in [Windows -> Stages] /\ browserDestroyed \in [Windows -> BOOLEAN]
      /\ opener \in [Windows -> Windows \cup {NoWindow}] /\ Tasks \in Seq(Events)
      /\ browserDestroyed' = browserDestroyed /\ rootWindows' = rootWindows /\ opener' = opener
      /\ hwnd' = hwnd /\ isClosing' = isClosing /\ notified' = notified
      /\ cef' = [cef EXCEPT ![w] = "waiting"] /\ cef[w] = "none" /\ cef[x] = "live"
      /\ Post(<<a, e>>, <<>>) /\ phase' = phase /\ quitting' = quitting
  BY Types DEF WindowsInv, OnOpenURLFromTab, root
<1> HIDE DEF a, e
<1>3. /\ cef' \in [Windows -> Stages] /\ cef'[w] = "waiting" /\ cef'[x] = "live" /\ x # w
      /\ \A v \in Windows : v # w => cef'[v] = cef[v]
  BY <1>1, <1>2
<1>4. Onward(cef, cef', opener, opener)
  <2>1. OneStep(cef[w], "waiting")
    BY <1>2 DEF OneStep
  <2>2. \A v \in Windows : opener[v] # opener[v] => v = w /\ cef[w] = "none"
    OBVIOUS
  <2> QED BY <1>1, <1>2, <2>1, <2>2, OneMoves
<1>5. ~NoneComes(cef, opener)
  BY <1>2 DEF NoneComes, Viable
<1>6. ASSUME Looping
      PROVE  Good(Tasks \o <<a, e>>, quitting, cef', browserDestroyed, rootWindows, opener)
  <2>1. Good(Tasks, quitting, cef, browserDestroyed, rootWindows, opener)
    BY <1>6 DEF WindowsInv, LoopInv
  <2>2. TasksInv(Tasks, cef', browserDestroyed, rootWindows, opener)
    BY <1>2, <1>3, <1>4, <2>1, OnwardTasks DEF Good
  <2>3. ~browserDestroyed[w] /\ ~browserDestroyed[x]
    BY <1>2 DEF WindowsInv, StateInv, DestroyedInv
  <2>4. Backs(a, cef', browserDestroyed) /\ a.what \notin AboutBrowser /\ a.what # "register"
        /\ a.what # "quit"
    BY <1>1, <1>3, <2>3 DEF Backs, AboutBrowser
  <2>5. Fresh(Tasks, a)
    BY <1>1, <1>2, <2>1, IsFresh DEF Good
  <2> DEFINE t == Append(Tasks, a)
  <2>6. t \in Seq(Events) /\ TasksInv(t, cef', browserDestroyed, rootWindows, opener)
    <3>1. t \in Seq(Events)
      BY <1>1, <1>2
    <3>2. TasksInv(Append(Tasks, a), cef', browserDestroyed, rootWindows, opener)
      BY <1>1, <1>2, <1>3, <2>2, <2>4, <2>5, AppendTask
    <3> QED BY <3>1, <3>2
  <2>7. \A v \in Windows : v # w /\ cef'[v] \notin {"none", "allowing"} =>
          Enlisted(t, v, rootWindows, browserDestroyed)
    BY <1>1, <1>2, <1>3, <2>1, AppendEnlists DEF Good, AllEnlisted
  <2>8. ~Quitting(t, quitting)
    BY <1>1, <1>2, <1>5, <2>1, <2>4, AppendQuits DEF Good
  <2>9. x # w /\ cef'[x] \in Lived /\ cef'[x] # "gone" /\ ~browserDestroyed[x]
    BY <1>3, <2>3 DEF Lived
  <2> HIDE DEF t
  <2>10. Good(Append(t, e), quitting, cef', browserDestroyed, rootWindows, opener)
    BY <1>2, <1>3, <2>3, <2>6, <2>7, <2>8, <2>9, RegisterGood DEF e
  <2>11. Tasks \o <<a, e>> = Append(t, e)
    BY <1>1, <1>2 DEF t
  <2> QED BY <2>10, <2>11
<1>7. <<a, e>> \in Seq(Events) /\ <<>> \in Seq(Events)
  BY <1>1
<1>8. LoopInv'
  <2>1. ~quitting
    BY <1>5 DEF WindowsInv, LoopInv
  <2> QED BY <1>2, <1>3, <1>6, <1>7, <2>1, NoMessages, PostGood
<1>9. StateInv'
  <2>1. ClosingInv' /\ DestroyedInv'
    BY <1>2, <1>3 DEF WindowsInv, StateInv, ClosingInv, DestroyedInv, Leaving
  <2>2. OpenerInv'
    <3>1. \A v \in Windows : cef[v] \in Lived => cef'[v] \in Lived
      BY <1>4 DEF Onward
    <3> QED BY <1>2, <1>3, <3>1 DEF WindowsInv, StateInv, OpenerInv
  <2> QED BY <2>1, <2>2 DEF StateInv
<1>10. TypeOK'
  <2>1. posted' \in Seq(Events) /\ queued' \in Seq(Events) /\ (HasMessageWindow' => queued' = <<>>)
    BY <1>2, <1>7, PostFacts DEF WindowsInv
  <2> QED BY <2>1 DEF OnOpenURLFromTab, WindowsInv, TypeOK, root
<1> QED BY <1>8, <1>9, <1>10 DEF WindowsInv

-----------------------------------------------------------------------------
(* The steps of the main thread.                                           *)

\* The Run loop goes on: its tasks are what is posted.
LEMMA RunningGood ==
  ASSUME phase = "running", phase' = phase,
         Good(posted', quitting', cef', browserDestroyed', rootWindows', opener')
  PROVE  LoopInv'
<1>1. Tasks' = posted' /\ phase' # "starting"
  BY DEF Tasks, HasMessageWindow
<1>2. quitting' => NoneComes(cef', opener')
  BY DEF Good, Quitting
<1> QED BY <1>1, <1>2 DEF LoopInv

LEMMA RunningFacts ==
  ASSUME WindowsInv, phase = "running"
  PROVE  /\ posted \in Seq(Events) /\ queued = <<>> /\ HasMessageWindow
         /\ Good(posted, quitting, cef, browserDestroyed, rootWindows, opener)
<1>1. HasMessageWindow /\ Tasks = posted /\ Looping
  BY DEF HasMessageWindow, Tasks, Looping
<1> QED BY <1>1 DEF WindowsInv, LoopInv, TypeOK

\* The task that is dispatched, and the ones that it leaves.
LEMMA DispatchFacts ==
  ASSUME WindowsInv, Dispatching
  PROVE  /\ phase = "running" /\ posted # <<>> /\ posted \in Seq(Events)
         /\ Rest \in Seq(Events) /\ Next1 \in Events
         /\ Next1 = Event(Next1.what, Next1.window)
         /\ Good(posted, quitting, cef, browserDestroyed, rootWindows, opener)
         /\ Backs(Next1, cef, browserDestroyed)
<1>1. phase = "running" /\ posted # <<>>
  BY DEF Dispatching
<1>2. posted \in Seq(Events) /\ Good(posted, quitting, cef, browserDestroyed, rootWindows, opener)
  BY <1>1, RunningFacts
<1>3. Rest \in Seq(Events) /\ Next1 \in Events /\ Next1 = posted[1] /\ 1 \in DOMAIN posted
  BY <1>1, <1>2, TailFacts DEF Rest, Next1
<1>4. Backs(posted[1], cef, browserDestroyed)
  BY <1>2, <1>3 DEF Good, TasksInv, Backed
<1> QED BY <1>1, <1>2, <1>3, <1>4, EventIs

LEMMA RestGood ==
  ASSUME WindowsInv, Dispatching, Next1.what # "register"
  PROVE  Good(Rest, quitting, cef, browserDestroyed, rootWindows, opener)
<1>1. /\ posted # <<>> /\ posted \in Seq(Events)
      /\ Good(posted, quitting, cef, browserDestroyed, rootWindows, opener)
      /\ cef \in [Windows -> Stages] /\ browserDestroyed \in [Windows -> BOOLEAN]
  BY DispatchFacts, Types DEF WindowsInv
<1>2. \A w \in Windows : Head(posted) # Event("register", w)
  <2>1. \A w \in Windows : Event("register", w).what = "register"
    BY EventFacts
  <2> QED BY <2>1 DEF Next1
<1> QED BY <1>1, <1>2, TailGood DEF Rest

\* Before the window of CreateRootWindow is there, no browser of it is.
LEMMA WaitsNoMore ==
  ASSUME NEW c \in [Windows -> Stages], NEW d \in [Windows -> BOOLEAN], NEW r, NEW q,
         NEW o \in [Windows -> Windows \cup {NoWindow}],
         NEW s \in Seq(Events), NEW w \in Windows, NEW c2 \in [Windows -> Stages],
         Good(s, q, c, d, r, o), c[w] = "waiting", c2[w] = "requested",
         \A v \in Windows : v # w => c2[v] = c[v],
         \A i \in DOMAIN s : s[i].what = "create" => s[i].window # w
  PROVE  Good(s, q, c2, d, r, o)
<1>1. Backed(s, c2, d)
  BY DEF Good, TasksInv, Backed, Backs, Lived, Leaving
<1>2. \A v \in Windows : Viable(v, c2, o) => Viable(v, c, o)
  <2> SUFFICES ASSUME NEW v \in Windows, Viable(v, c2, o) PROVE Viable(v, c, o)
    OBVIOUS
  <2>1. CASE v = w
    BY <2>1 DEF Viable
  <2>2. CASE v # w
    <3>1. o[v] # NoWindow => o[v] \in Windows /\ (c[o[v]] = "gone" => c2[o[v]] = "gone")
      OBVIOUS
    <3> QED BY <2>2, <3>1 DEF Viable
  <2> QED BY <2>1, <2>2
<1>3. Covered(s, c2, r, o)
  <2> SUFFICES ASSUME NEW i \in DOMAIN s, s[i].what = "register", Viable(s[i].window, c2, o)
               PROVE  \E x \in Windows : Covers(s, i, x, c2, r)
    BY DEF Covered
  <2>1. s[i].window \in Windows
    BY DEF Good, TasksInv, Backed, Backs, AboutWindow
  <2>2. PICK x \in Windows : Covers(s, i, x, c, r)
    BY <1>2, <2>1 DEF Good, TasksInv, Covered
  <2>3. c2[x] \in Lived
    BY <2>2 DEF Covers, Lived
  <2> QED BY <2>2, <2>3 DEF Covers
<1>4. AllEnlisted(s, c2, d, r)
  BY DEF Good, AllEnlisted
<1>5. ~Quitting(s, q)
  BY DEF Good, NoneComes, Viable
<1> QED BY <1>1, <1>3, <1>4, <1>5 DEF Good, TasksInv

LEMMA CreateRootWindowStep ==
  ASSUME WindowsInv, CreateRootWindow
  PROVE  WindowsInv'
<1> DEFINE w == Next1.window
<1>1. Dispatching /\ Next1.what = "create"
  BY DEF CreateRootWindow, Dispatches
<1>2. /\ w \in Windows /\ cef[w] = "waiting" /\ ~browserDestroyed[w]
  BY <1>1, DispatchFacts DEF Backs, AboutWindow
<1>3. /\ cef \in [Windows -> Stages] /\ browserDestroyed \in [Windows -> BOOLEAN]
      /\ opener \in [Windows -> Windows \cup {NoWindow}]
      /\ Rest \in Seq(Events) /\ phase = "running"
  BY <1>1, DispatchFacts, Types DEF WindowsInv
<1>4. /\ cef' \in [Windows -> Stages] /\ cef'[w] = "requested"
      /\ \A v \in Windows : v # w => cef'[v] = cef[v]
  <2>1. "requested" \in Stages /\ cef' = [cef EXCEPT ![w] = "requested"]
    BY DEF Stages, CreateRootWindow
  <2> QED BY <1>2, <1>3, <2>1
<1>5. \A i \in DOMAIN Rest : Rest[i].what = "create" => Rest[i].window # w
  <2>1. /\ \A i \in DOMAIN Rest : i + 1 \in DOMAIN posted /\ 1 < i + 1 /\ Rest[i] = posted[i + 1]
        /\ 1 \in DOMAIN posted /\ Next1 = posted[1]
    BY <1>1, DispatchFacts, TailFacts DEF Rest, Next1
  <2>2. CreateOnce(posted)
    BY <1>1, DispatchFacts DEF Good, TasksInv
  <2> QED BY <1>1, <2>1, <2>2 DEF CreateOnce
<1>6. Good(Rest, quitting, cef, browserDestroyed, rootWindows, opener)
  BY <1>1, RestGood
<1> HIDE DEF w
<1>7. Good(Rest, quitting, cef', browserDestroyed, rootWindows, opener)
  BY <1>2, <1>3, <1>4, <1>5, <1>6, WaitsNoMore
<1>8. LoopInv'
  <2>1. /\ posted' = Rest /\ phase' = phase /\ quitting' = quitting /\ opener' = opener
        /\ browserDestroyed' = browserDestroyed /\ rootWindows' = rootWindows
    BY DEF CreateRootWindow
  <2> QED BY <1>3, <1>7, <2>1, RunningGood
<1>9. StateInv'
  <2>1. ClosingInv'
    BY <1>2, <1>4 DEF CreateRootWindow, WindowsInv, StateInv, ClosingInv, Leaving
  <2>2. DestroyedInv'
    BY <1>2, <1>4 DEF CreateRootWindow, WindowsInv, StateInv, DestroyedInv, TypeOK, w
  <2>3. OpenerInv'
    BY <1>2, <1>3, <1>4 DEF CreateRootWindow, WindowsInv, StateInv, OpenerInv, Lived
  <2> QED BY <2>1, <2>2, <2>3 DEF StateInv
<1>10. TypeOK'
  BY <1>3 DEF CreateRootWindow, WindowsInv, TypeOK, HasMessageWindow
<1> QED BY <1>8, <1>9, <1>10 DEF WindowsInv

LEMMA OnRootWindowCreatedStep ==
  ASSUME WindowsInv, OnRootWindowCreated
  PROVE  WindowsInv'
<1> DEFINE w == Next1.window
<1>1. Dispatching /\ Next1.what = "register"
  BY DEF OnRootWindowCreated, Dispatches
<1>2. /\ w \in Windows /\ ~browserDestroyed[w] /\ Next1 = Event("register", w)
  BY <1>1, DispatchFacts DEF Backs, AboutWindow
<1>3. /\ cef \in [Windows -> Stages] /\ browserDestroyed \in [Windows -> BOOLEAN]
      /\ posted \in Seq(Events) /\ posted # <<>> /\ Rest \in Seq(Events) /\ phase = "running"
      /\ Good(posted, quitting, cef, browserDestroyed, rootWindows, opener)
  BY <1>1, DispatchFacts, Types DEF WindowsInv
<1>4. /\ rootWindows' = rootWindows \cup {w} /\ posted' = Rest
      /\ UNCHANGED <<phase, queued, quitting, opener, hwnd, isClosing, known, temp,
                     browserDestroyed, cef, shown, closeAsked, astray, notified>>
  BY DEF OnRootWindowCreated, browser
<1>5. \A v \in Windows : Head(posted) = Event("register", v) => v = w
  BY <1>2, EventFacts DEF Next1
<1>6. Good(Rest, quitting, cef, browserDestroyed, rootWindows', opener)
  BY <1>3, <1>4, <1>5, TailGood DEF Rest
<1>7. LoopInv'
  BY <1>3, <1>4, <1>6, RunningGood
<1>8. StateInv'
  <2>1. \A v \in Windows : browserDestroyed[v] => hwnd[v] # "open"
    BY DEF WindowsInv, StateInv, DestroyedInv
  <2> QED BY <1>2, <1>4, <2>1, StateGoesOn
<1>9. TypeOK'
  BY <1>2, <1>3, <1>4 DEF WindowsInv, TypeOK, HasMessageWindow
<1> QED BY <1>7, <1>8, <1>9 DEF WindowsInv

LEMMA OnBrowserCreatedStep ==
  ASSUME WindowsInv, OnBrowserCreated
  PROVE  WindowsInv'
<1> DEFINE w == Next1.window
<1>1. Dispatching /\ Next1.what = "created"
  BY DEF OnBrowserCreated, Dispatches
<1>2. w \in Windows /\ ~browserDestroyed[w]
  BY <1>1, DispatchFacts DEF Backs, AboutWindow, AboutBrowser
<1>3. Rest \in Seq(Events) /\ phase = "running"
  BY <1>1, DispatchFacts
<1>4. /\ posted' = Rest
      /\ known' = [known EXCEPT ![w] = TRUE]
      /\ hwnd' = IF IsPopup(w) THEN [hwnd EXCEPT ![w] = "open"] ELSE hwnd
      /\ shown' = [shown EXCEPT ![w] = @ \/ cef[w] \in {"live", "closing"}]
      /\ UNCHANGED <<phase, queued, quitting, rootWindows, opener, isClosing,
                     browserDestroyed, temp, cef, closeAsked, astray, notified>>
  BY DEF OnBrowserCreated
<1>5. Good(Rest, quitting, cef, browserDestroyed, rootWindows, opener)
  BY <1>1, RestGood
<1> HIDE DEF w
<1>6. LoopInv'
  BY <1>3, <1>4, <1>5, RunningGood
<1>7. StateInv'
  <2>1. \A v \in Windows : browserDestroyed[v] => hwnd'[v] # "open"
    BY <1>2, <1>4 DEF WindowsInv, StateInv, DestroyedInv, TypeOK
  <2> QED BY <1>4, <2>1, StateGoesOn
<1>8. TypeOK'
  <2>1. known' \in [Windows -> BOOLEAN]
    BY <1>4 DEF WindowsInv, TypeOK
  <2>2. hwnd' \in [Windows -> {"none", "open", "destroyed"}]
    BY <1>4 DEF WindowsInv, TypeOK
  <2>3. shown' \in [Windows -> BOOLEAN]
    BY <1>4, Zenon DEF WindowsInv, TypeOK
  <2> QED BY <1>3, <1>4, <2>1, <2>2, <2>3 DEF WindowsInv, TypeOK, HasMessageWindow
<1> QED BY <1>6, <1>7, <1>8 DEF WindowsInv

LEMMA OnBrowserClosingStep ==
  ASSUME WindowsInv, OnBrowserClosing
  PROVE  WindowsInv'
<1> DEFINE w == Next1.window
<1>1. Dispatching /\ Next1.what = "closing"
  BY DEF OnBrowserClosing, Dispatches
<1>2. w \in Windows /\ cef[w] \in Leaving
  BY <1>1, DispatchFacts DEF Backs, AboutWindow, AboutBrowser
<1>3. Rest \in Seq(Events) /\ phase = "running"
  BY <1>1, DispatchFacts
<1>4. /\ posted' = Rest
      /\ isClosing' = IF browserDestroyed[w] THEN isClosing ELSE [isClosing EXCEPT ![w] = TRUE]
      /\ UNCHANGED <<phase, queued, quitting, rootWindows, opener, hwnd, known,
                     browserDestroyed, temp, cef, shown, closeAsked, astray, notified>>
  BY DEF OnBrowserClosing, browser
<1>5. Good(Rest, quitting, cef, browserDestroyed, rootWindows, opener)
  BY <1>1, RestGood
<1> HIDE DEF w
<1>6. LoopInv'
  BY <1>3, <1>4, <1>5, RunningGood
<1>7. isClosing' \in [Windows -> BOOLEAN]
  BY <1>4 DEF WindowsInv, TypeOK
<1>8. StateInv'
  <2>1. \A v \in Windows : browserDestroyed[v] => hwnd[v] # "open"
    BY DEF WindowsInv, StateInv, DestroyedInv
  <2>2. \A v \in Windows : v # w => isClosing'[v] = isClosing[v]
    BY <1>2, <1>4 DEF WindowsInv, TypeOK
  <2>3. \A v \in Windows : isClosing'[v] => isClosing[v] \/ cef[v] \in Leaving
    BY <1>2, <2>2
  <2> QED BY <1>4, <2>1, <2>3, StateGoesOn
<1>9. TypeOK'
  BY <1>3, <1>4, <1>7 DEF WindowsInv, TypeOK, HasMessageWindow
<1> QED BY <1>6, <1>8, <1>9 DEF WindowsInv

LEMMA OnBrowserClosedStep ==
  ASSUME WindowsInv, OnBrowserClosed
  PROVE  WindowsInv'
<1> DEFINE w == Next1.window
           times == TimesNotified(w)
           q == IF rootWindows' = {} THEN <<Event("quit", NoWindow)>> ELSE <<>>
<1>1. Dispatching /\ Next1.what = "closed"
  BY DEF OnBrowserClosed, Dispatches
<1>2. /\ w \in Windows /\ ~browserDestroyed[w] /\ cef[w] = "gone"
      /\ Next1 = Event("closed", w)
  BY <1>1, DispatchFacts DEF Backs, AboutWindow, AboutBrowser
<1>3. /\ cef \in [Windows -> Stages] /\ browserDestroyed \in [Windows -> BOOLEAN]
      /\ opener \in [Windows -> Windows \cup {NoWindow}]
      /\ posted \in Seq(Events) /\ posted # <<>> /\ Rest \in Seq(Events) /\ phase = "running"
      /\ queued = <<>>
      /\ Good(posted, quitting, cef, browserDestroyed, rootWindows, opener)
  BY <1>1, DispatchFacts, RunningFacts, Types DEF WindowsInv
<1>4. /\ known' = [known EXCEPT ![w] = FALSE]
      /\ hwnd' = [hwnd EXCEPT ![w] = IF @ = "open" THEN "destroyed" ELSE @]
      /\ browserDestroyed' = [browserDestroyed EXCEPT ![w] = TRUE]
      /\ NotifyDestroyed(w, times, Rest)
      /\ UNCHANGED <<phase, quitting, opener, isClosing, temp, cef, shown, closeAsked, astray>>
  BY DEF OnBrowserClosed, browser
<1>5. times \in {0, 1}
  BY <1>2 DEF TimesNotified
<1>6. Event("quit", NoWindow) \in Events /\ Event("quit", NoWindow).what = "quit"
  BY EventFacts
<1>7. /\ queued' = queued /\ notified' = [notified EXCEPT ![w] = @ + times]
      /\ times = 0 => posted' = Rest /\ rootWindows' = rootWindows
      /\ times = 1 => posted' = Rest \o q /\ rootWindows' = rootWindows \ {w}
  <2>1. HasMessageWindow /\ Rest \o q \o <<>> = Rest \o q
    BY <1>3, <1>6 DEF HasMessageWindow
  <2> QED BY <1>4, <2>1 DEF NotifyDestroyed, OnRootWindowDestroyed, PostAfter
<1> HIDE DEF w, times
<1>8. /\ browserDestroyed' \in [Windows -> BOOLEAN] /\ browserDestroyed'[w]
      /\ \A v \in Windows : v # w => browserDestroyed'[v] = browserDestroyed[v]
  BY <1>2, <1>3, <1>4
<1>9. Good(Rest, quitting, cef, browserDestroyed', rootWindows', opener)
  <2>1. Head(posted) = Event("closed", w)
    BY <1>2 DEF Next1
  <2>2. /\ \A v \in Windows : Event("closed", v) # Event("register", v)
        /\ \A v \in Windows : Head(posted) # Event("register", v)
    BY <2>1, <1>2, EventFacts
  <2>3. \A v \in Windows : v \in rootWindows => v \in rootWindows' \/ v = w
    BY <1>5, <1>7
  <2> QED BY <1>3, <1>8, <2>1, <2>2, <2>3, TailGood DEF Rest
<1>10. Good(posted', quitting, cef, browserDestroyed', rootWindows', opener)
  <2>1. CASE times = 1 /\ rootWindows' = {}
    <3>1. posted' = Append(Rest, Event("quit", NoWindow))
      BY <1>3, <1>6, <1>7, <2>1
    <3>2. NoneComes(cef, opener)
      <4>1. rootWindows \subseteq {w} /\ Head(posted) = Event("closed", w)
        BY <1>2, <1>7, <2>1 DEF Next1
      <4>2. \A v \in Windows : browserDestroyed[v] => cef[v] = "gone"
        BY DEF WindowsInv, StateInv, DestroyedInv
      <4> QED BY <1>2, <1>3, <4>1, <4>2, LastWindow DEF Good
    <3>3. Event("quit", NoWindow).what \in Neutral
      BY <1>6 DEF Neutral
    <3> QED BY <1>3, <1>6, <1>8, <1>9, <3>1, <3>2, <3>3, NeutralGood
  <2>2. CASE ~(times = 1 /\ rootWindows' = {})
    <3>1. CASE times = 0
      BY <1>7, <1>9, <3>1
    <3>2. CASE times = 1
      <4>1. q = <<>>
        BY <2>2, <3>2
      <4>2. Rest \o <<>> = Rest
        BY <1>3
      <4>3. posted' = Rest
        BY <1>7, <3>2, <4>1, <4>2
      <4> QED BY <1>9, <4>3
    <3> QED BY <1>5, <3>1, <3>2
  <2> QED BY <2>1, <2>2
<1>11. LoopInv'
  BY <1>3, <1>4, <1>10, RunningGood
<1>12. hwnd' \in [Windows -> {"none", "open", "destroyed"}] /\ hwnd'[w] # "open"
       /\ \A v \in Windows : v # w => hwnd'[v] = hwnd[v]
  BY <1>2, <1>4 DEF WindowsInv, TypeOK
<1>13. notified' \in [Windows -> Nat] /\ notified'[w] = notified[w] + times
       /\ \A v \in Windows : v # w => notified'[v] = notified[v]
  BY <1>2, <1>5, <1>7 DEF WindowsInv, TypeOK
<1>14. StateInv'
  <2>1. ClosingInv'
    BY <1>4 DEF WindowsInv, StateInv, ClosingInv
  <2>2. DestroyedInv'
    <3>1. notified[w] = 0
      BY <1>2 DEF WindowsInv, StateInv, DestroyedInv, TypeOK
    <3>2. ASSUME NEW v \in Windows, v # w
          PROVE  /\ browserDestroyed'[v] => cef'[v] = "gone" /\ hwnd'[v] # "open"
                 /\ notified'[v] > 0 => browserDestroyed'[v] /\ v \notin rootWindows'
                 /\ notified'[v] <= 1
      <4>1. v \in rootWindows' => v \in rootWindows
        BY <1>5, <1>7
      <4> QED BY <1>4, <1>8, <1>12, <1>13, <3>2, <4>1 DEF WindowsInv, StateInv, DestroyedInv
    <3>3. /\ browserDestroyed'[w] => cef'[w] = "gone" /\ hwnd'[w] # "open"
          /\ notified'[w] > 0 => browserDestroyed'[w] /\ w \notin rootWindows'
          /\ notified'[w] <= 1
      BY <1>2, <1>4, <1>5, <1>7, <1>8, <1>12, <1>13, <3>1
    <3> QED BY <3>2, <3>3 DEF DestroyedInv
  <2>3. OpenerInv'
    BY <1>4 DEF WindowsInv, StateInv, OpenerInv
  <2> QED BY <2>1, <2>2, <2>3 DEF StateInv
<1>15. TypeOK'
  <2>1. posted' \in Seq(Events) /\ rootWindows' \subseteq Windows
    <3>1. q \in Seq(Events)
      BY <1>6
    <3> HIDE DEF q
    <3>2. posted' \in Seq(Events)
      <4>1. posted' = Rest \/ posted' = Rest \o q
        BY <1>5, <1>7
      <4>2. Rest \o q \in Seq(Events)
        BY <1>3, <3>1
      <4> QED BY <1>3, <4>1, <4>2
    <3>3. rootWindows' \subseteq Windows
      BY <1>5, <1>7 DEF WindowsInv, TypeOK
    <3> QED BY <3>2, <3>3
  <2>2. known' \in [Windows -> BOOLEAN]
    BY <1>4 DEF WindowsInv, TypeOK
  <2> QED BY <1>3, <1>4, <1>7, <1>8, <1>12, <1>13, <2>1, <2>2 DEF WindowsInv, TypeOK, HasMessageWindow
<1> QED BY <1>11, <1>14, <1>15 DEF WindowsInv

LEMMA QuitsStep ==
  ASSUME WindowsInv, Quits
  PROVE  WindowsInv'
<1>1. Dispatching /\ Next1.what = "quit"
  BY DEF Quits, Dispatches
<1>2. /\ posted' = Rest /\ quitting' = TRUE
      /\ UNCHANGED <<phase, queued, rootWindows, opener, hwnd, known, isClosing, browserDestroyed,
                     temp, cef, shown, closeAsked, astray, notified>>
  BY DEF Quits, PostQuitMessage, root, browser
<1>3. /\ Rest \in Seq(Events) /\ phase = "running"
      /\ posted \in Seq(Events) /\ posted # <<>>
      /\ Good(posted, quitting, cef, browserDestroyed, rootWindows, opener)
  BY <1>1, DispatchFacts
<1>4. NoneComes(cef, opener)
  <2>1. 1 \in DOMAIN posted /\ posted[1].what = "quit"
    BY <1>1, <1>3, TailFacts DEF Next1
  <2> QED BY <1>3, <2>1 DEF Good, Quitting
<1>5. Good(Rest, quitting', cef, browserDestroyed, rootWindows, opener)
  BY <1>1, <1>4, RestGood DEF Good
<1>6. LoopInv'
  BY <1>2, <1>3, <1>5, RunningGood
<1>7. StateInv'
  BY <1>2 DEF WindowsInv, StateInv, ClosingInv, DestroyedInv, OpenerInv
<1>8. TypeOK'
  BY <1>2, <1>3 DEF WindowsInv, TypeOK, HasMessageWindow
<1> QED BY <1>6, <1>7, <1>8 DEF WindowsInv

\* DestroyWindow is a way onward for the browsers.
LEMMA DoomedOnward ==
  ASSUME WindowsInv, NEW S
  PROVE  /\ Doomed(S) \in [Windows -> Stages]
         /\ Onward(cef, Doomed(S), opener, opener) /\ NoNewcomer(cef, Doomed(S))
         /\ \A v \in Windows :
              /\ Doomed(S)[v] \in {"none", "waiting"} => cef[v] \in {"none", "waiting"}
              /\ Doomed(S)[v] = "allowing" => cef[v] = "allowing"
<1> DEFINE c2 == Doomed(S)
<1>1. cef \in [Windows -> Stages] /\ opener \in [Windows -> Windows \cup {NoWindow}]
  BY Types DEF WindowsInv
<1>2. \A v \in Windows :
        c2[v] = IF v \in S /\ cef[v] \in {"live", "closing"} THEN "doomed" ELSE cef[v]
  BY DEF Doomed
<1>3. c2 \in [Windows -> Stages]
  BY <1>1 DEF Doomed, Stages
<1> HIDE DEF c2
<1>4. ASSUME NEW v \in Windows
      PROVE  /\ cef[v] = "waiting" => c2[v] = "waiting"
             /\ cef[v] \notin {"none", "allowing"} => c2[v] \notin {"none", "allowing"}
             /\ cef[v] \in Lived => c2[v] \in Lived
             /\ cef[v] \in Leaving => c2[v] \in Leaving
             /\ cef[v] = "gone" => c2[v] = "gone"
             /\ Viable(v, c2, opener) => Viable(v, cef, opener)
  <2>1. /\ cef[v] = "waiting" => c2[v] = "waiting"
        /\ cef[v] \notin {"none", "allowing"} => c2[v] \notin {"none", "allowing"}
        /\ cef[v] \in Lived => c2[v] \in Lived
        /\ cef[v] \in Leaving => c2[v] \in Leaving
        /\ cef[v] = "gone" => c2[v] = "gone"
    BY <1>2 DEF Lived, Leaving
  <2>2. opener[v] # NoWindow => (cef[opener[v]] = "gone" => c2[opener[v]] = "gone")
    BY <1>1, <1>2
  <2>3. Viable(v, c2, opener) => Viable(v, cef, opener)
    BY <1>2, <2>2 DEF Viable
  <2> QED BY <2>1, <2>3
<1>5. Onward(cef, c2, opener, opener)
  BY <1>4 DEF Onward
<1>6. NoNewcomer(cef, c2)
  BY <1>2 DEF NoNewcomer
<1> QED BY <1>2, <1>3, <1>5, <1>6 DEF c2

\* WM_CLOSE for a window that is open, whoever sent it.
LEMMA OnCloseStep ==
  ASSUME WindowsInv, phase = "running", NEW w \in Windows, hwnd[w] = "open",
         NEW rest \in Seq(Events),
         Good(rest, quitting, cef, browserDestroyed, rootWindows, opener), OnClose(w, rest)
  PROVE  WindowsInv'
<1>1. UNCHANGED <<phase, quitting, opener, known, browserDestroyed, temp, shown, astray>>
  BY DEF OnClose
<1>2. /\ cef \in [Windows -> Stages] /\ browserDestroyed \in [Windows -> BOOLEAN]
      /\ notified \in [Windows -> Nat]
  BY Types DEF WindowsInv, TypeOK
<1>3. CASE AsksBrowser(w, rest)
  <2>1. /\ posted' = rest /\ closeAsked' = [closeAsked EXCEPT ![w] = TRUE]
        /\ UNCHANGED <<hwnd, cef, isClosing, queued, rootWindows, notified>>
    BY <1>3 DEF AsksBrowser
  <2>2. LoopInv'
    BY <1>1, <2>1, RunningGood
  <2>3. StateInv'
    BY <1>1, <2>1 DEF WindowsInv, StateInv, ClosingInv, DestroyedInv, OpenerInv
  <2>4. TypeOK'
    BY <1>1, <2>1 DEF WindowsInv, TypeOK, HasMessageWindow
  <2> QED BY <2>2, <2>3, <2>4 DEF WindowsInv
<1>4. CASE DestroysWindow(w, rest)
  <2>1. ~browserDestroyed[w]
    BY DEF WindowsInv, StateInv, DestroyedInv
  <2>2. /\ posted' = rest /\ hwnd' = [hwnd EXCEPT ![w] = "destroyed"] /\ cef' = Doomed({w})
        /\ notified' = [notified EXCEPT ![w] = @ + 0]
        /\ UNCHANGED <<queued, rootWindows, closeAsked, isClosing>>
    BY <1>4, <2>1 DEF DestroysWindow, NotifyDestroyed
  <2>3. notified' = notified
    BY <1>2, <2>2
  <2>4. /\ cef' \in [Windows -> Stages]
        /\ Onward(cef, cef', opener, opener') /\ NoNewcomer(cef, cef')
        /\ \A v \in Windows :
             /\ cef'[v] \in {"none", "waiting"} => cef[v] \in {"none", "waiting"}
             /\ cef'[v] = "allowing" => cef[v] = "allowing"
    BY <1>1, <2>2, DoomedOnward
  <2>5. LoopInv'
    <3>1. Good(posted', quitting', cef', browserDestroyed', rootWindows', opener')
      BY <1>1, <1>2, <2>2, <2>4, OnwardGood
    <3> QED BY <1>1, <3>1, RunningGood
  <2>6. StateInv'
    <3>1. \A v \in Windows : browserDestroyed[v] => hwnd'[v] # "open"
      BY <2>2 DEF WindowsInv, StateInv, DestroyedInv, TypeOK
    <3> QED BY <1>1, <2>2, <2>3, <2>4, <3>1, StateGoesOn DEF Onward
  <2>7. TypeOK'
    <3>1. hwnd' \in [Windows -> {"none", "open", "destroyed"}]
      BY <2>2 DEF WindowsInv, TypeOK
    <3> QED BY <1>1, <2>2, <2>3, <2>4, <3>1 DEF WindowsInv, TypeOK, Stages, HasMessageWindow
  <2> QED BY <2>5, <2>6, <2>7 DEF WindowsInv
<1> QED BY <1>3, <1>4 DEF OnClose

LEMMA DispatchCloseStep ==
  ASSUME WindowsInv, DispatchClose
  PROVE  WindowsInv'
<1>1. Dispatching /\ Next1.what = "WM_CLOSE" /\ Next1.window # NoWindow
  BY DEF DispatchClose, Dispatches
<1>2. /\ Rest \in Seq(Events) /\ phase = "running" /\ Next1 \in Events
      /\ Good(Rest, quitting, cef, browserDestroyed, rootWindows, opener)
  BY <1>1, DispatchFacts, RestGood
<1>3. Next1.window \in Windows
  BY <1>1, <1>2, EventIs
<1>4. CASE hwnd[Next1.window] = "open"
  BY <1>2, <1>3, <1>4, OnCloseStep DEF DispatchClose
<1>5. CASE hwnd[Next1.window] # "open"
  <2>1. /\ posted' = Rest
        /\ UNCHANGED <<phase, queued, quitting, rootWindows, opener, hwnd, known, isClosing,
                       browserDestroyed, temp, cef, shown, closeAsked, astray, notified>>
    BY <1>5 DEF DispatchClose, root, browser
  <2>2. LoopInv'
    BY <1>2, <2>1, RunningGood
  <2>3. StateInv'
    BY <2>1 DEF WindowsInv, StateInv, ClosingInv, DestroyedInv, OpenerInv
  <2>4. TypeOK'
    BY <1>2, <2>1 DEF WindowsInv, TypeOK, HasMessageWindow
  <2> QED BY <2>2, <2>3, <2>4 DEF WindowsInv
<1> QED BY <1>4, <1>5

LEMMA CloseTempWindowStep ==
  ASSUME WindowsInv, CloseTempWindow
  PROVE  WindowsInv'
<1>1. Dispatching /\ Next1.what = "WM_CLOSE"
  BY DEF CloseTempWindow, Dispatches
<1>2. /\ Rest \in Seq(Events) /\ phase = "running"
      /\ Good(Rest, quitting, cef, browserDestroyed, rootWindows, opener)
  BY <1>1, DispatchFacts, RestGood
<1>3. /\ posted' = Rest /\ temp' = FALSE /\ cef' = Doomed({w \in Windows : ~shown[w]})
      /\ UNCHANGED <<phase, queued, quitting, rootWindows, opener, hwnd, known, isClosing,
                     browserDestroyed, shown, closeAsked, astray, notified>>
  BY DEF CloseTempWindow
<1>4. /\ cef' \in [Windows -> Stages]
      /\ Onward(cef, cef', opener, opener') /\ NoNewcomer(cef, cef')
      /\ \A v \in Windows :
           /\ cef'[v] \in {"none", "waiting"} => cef[v] \in {"none", "waiting"}
           /\ cef'[v] = "allowing" => cef[v] = "allowing"
  BY <1>3, DoomedOnward
<1>5. LoopInv'
  <2>1. cef \in [Windows -> Stages] /\ browserDestroyed \in [Windows -> BOOLEAN]
    BY Types DEF WindowsInv
  <2>2. Good(posted', quitting', cef', browserDestroyed', rootWindows', opener')
    BY <1>2, <1>3, <1>4, <2>1, OnwardGood
  <2> QED BY <1>2, <1>3, <2>2, RunningGood
<1>6. StateInv'
  <2>1. \A v \in Windows : browserDestroyed[v] => hwnd[v] # "open"
    BY DEF WindowsInv, StateInv, DestroyedInv
  <2> QED BY <1>3, <1>4, <2>1, StateGoesOn DEF Onward
<1>7. TypeOK'
  BY <1>2, <1>3, <1>4 DEF WindowsInv, TypeOK, Stages, HasMessageWindow
<1> QED BY <1>5, <1>6, <1>7 DEF WindowsInv

LEMMA UserClosesStep ==
  ASSUME WindowsInv, NEW w \in Windows, UserCloses(w)
  PROVE  WindowsInv'
BY RunningFacts, OnCloseStep DEF UserCloses

LEMMA OnExitStep ==
  ASSUME WindowsInv, OnExit
  PROVE  WindowsInv'
<1> DEFINE S == {w \in rootWindows : hwnd[w] = "open"}
<1>1. PICK order \in SetToSeqs(S) :
        Post(<<>>, [i \in DOMAIN order |-> Event("WM_CLOSE", order[i])])
  BY DEF OnExit
<1> DEFINE m == [i \in DOMAIN order |-> Event("WM_CLOSE", order[i])]
<1>2. /\ UNCHANGED <<phase, quitting, rootWindows, opener, hwnd, known, isClosing,
                     browserDestroyed, temp, cef, shown, closeAsked, astray, notified>>
      /\ Post(<<>>, m) /\ phase = "running"
  BY <1>1 DEF OnExit, root, browser
<1>3. m \in Seq(Events) /\ \A i \in DOMAIN m : m[i].what = "WM_CLOSE"
  <2>1. rootWindows \subseteq Windows
    BY DEF WindowsInv, TypeOK
  <2>2. Cardinality(S) \in Nat
    BY <2>1, WindowsAssumption, FS_Subset, FS_CardinalityType
  <2>3. order \in [1..Cardinality(S) -> S]
    BY DEF SetToSeqs
  <2>4. \A i \in DOMAIN order : order[i] \in Windows
    BY <2>1, <2>3
  <2>5. \A i \in DOMAIN order : m[i] \in Events /\ m[i].what = "WM_CLOSE"
    BY <2>4, EventFacts
  <2> QED BY <2>2, <2>3, <2>5
<1> HIDE DEF m
<1>4. HasMessageWindow /\ queued = <<>> /\ posted \in Seq(Events)
      /\ Good(posted, quitting, cef, browserDestroyed, rootWindows, opener)
      /\ cef \in [Windows -> Stages] /\ browserDestroyed \in [Windows -> BOOLEAN]
  BY <1>2, RunningFacts, Types DEF WindowsInv
<1>5. posted' = posted \o m /\ queued' = queued
  <2>1. posted' = (posted \o <<>>) \o m /\ queued' = queued
    BY <1>2, <1>4 DEF Post, PostAfter
  <2> QED BY <1>3, <1>4, <2>1
<1>6. LoopInv'
  <2>1. Good(posted \o m, quitting, cef, browserDestroyed, rootWindows, opener)
    BY <1>3, <1>4, ClosesGood
  <2> QED BY <1>2, <1>5, <2>1, RunningGood
<1>7. StateInv'
  BY <1>2 DEF WindowsInv, StateInv, ClosingInv, DestroyedInv, OpenerInv
<1>8. TypeOK'
  <2>1. posted' \in Seq(Events)
    BY <1>3, <1>4, <1>5
  <2> QED BY <1>2, <1>5, <2>1 DEF WindowsInv, TypeOK, HasMessageWindow
<1> QED BY <1>6, <1>7, <1>8 DEF WindowsInv

LEMMA LoopStepsStep ==
  ASSUME WindowsInv, LoopSteps
  PROVE  WindowsInv'
<1>1. UNCHANGED <<rootWindows, opener, hwnd, known, isClosing, browserDestroyed,
                  temp, cef, shown, closeAsked, astray, notified>>
  BY DEF LoopSteps, root, browser
<1>2. StateInv'
  BY <1>1 DEF WindowsInv, StateInv, ClosingInv, DestroyedInv, OpenerInv
<1>3. CASE RunBegins
  <2>1. /\ phase = "starting" /\ phase' = "running" /\ quitting' = quitting
        /\ posted' = posted \o queued /\ queued' = <<>>
    BY <1>3 DEF RunBegins
  <2>2. /\ posted \in Seq(Events) /\ queued \in Seq(Events)
        /\ cef \in [Windows -> Stages] /\ browserDestroyed \in [Windows -> BOOLEAN]
        /\ \A i \in DOMAIN posted : posted[i].what = "WM_CLOSE"
    BY <2>1, Types DEF WindowsInv, TypeOK, LoopInv
  <2>3. Good(queued, quitting, cef, browserDestroyed, rootWindows, opener)
    BY <2>1 DEF WindowsInv, LoopInv, Looping, Tasks, HasMessageWindow
  <2>4. Good(posted \o queued, quitting, cef, browserDestroyed, rootWindows, opener)
    BY <2>2, <2>3, ClosesGood
  <2>5. LoopInv'
    <3>1. Tasks' = posted'
      BY <2>1 DEF Tasks, HasMessageWindow
    <3>2. phase' # "starting"
      BY <2>1
    <3> QED BY <1>1, <2>1, <2>4, <3>1, <3>2 DEF WindowsInv, LoopInv
  <2>6. TypeOK'
    <3>1. posted' \in Seq(Events)
      BY <2>1, <2>2
    <3> QED BY <1>1, <2>1, <3>1 DEF WindowsInv, TypeOK, Phases
  <2> QED BY <1>2, <2>5, <2>6 DEF WindowsInv
<1>4. CASE LoopEnds \/ RunReturns
  <2>1. /\ phase' \in {"leaving", "over"} /\ quitting' = quitting /\ queued' = queued
        /\ posted' = posted \/ posted' = <<>>
        /\ HasMessageWindow' => HasMessageWindow
    BY <1>4 DEF LoopEnds, RunReturns, HasMessageWindow
  <2>2. LoopInv'
    BY <1>1, <2>1 DEF WindowsInv, LoopInv, Looping
  <2>3. TypeOK'
    <3>1. posted' \in Seq(Events)
      BY <2>1, NoMessages DEF WindowsInv, TypeOK
    <3> QED BY <1>1, <2>1, <3>1 DEF WindowsInv, TypeOK, Phases
  <2> QED BY <1>2, <2>2, <2>3 DEF WindowsInv
<1> QED BY <1>3, <1>4 DEF LoopSteps

LEMMA ShutdownStep ==
  ASSUME WindowsInv, Shutdown
  PROVE  WindowsInv'
<1>1. /\ phase' = "exited"
      /\ UNCHANGED <<queued, posted, quitting, rootWindows, opener, hwnd, known, isClosing,
                     browserDestroyed, temp, cef, shown, closeAsked, astray, notified>>
  BY DEF Shutdown, root, browser
<1>2. TypeOK' /\ LoopInv'
  BY <1>1 DEF WindowsInv, TypeOK, LoopInv, Looping, HasMessageWindow, Phases
<1>3. StateInv'
  BY <1>1 DEF WindowsInv, StateInv, ClosingInv, DestroyedInv, OpenerInv
<1> QED BY <1>2, <1>3 DEF WindowsInv

-----------------------------------------------------------------------------
(* The theorems.                                                           *)

LEMMA InitHolds == Init => WindowsInv
<1> SUFFICES ASSUME Init PROVE WindowsInv
  OBVIOUS
<1>1. /\ phase = "starting" /\ queued = <<>> /\ posted = <<>> /\ quitting = FALSE
      /\ rootWindows = {First} /\ opener = [w \in Windows |-> NoWindow]
      /\ cef = [w \in Windows |-> IF w = First THEN "requested" ELSE "none"]
      /\ browserDestroyed = [w \in Windows |-> FALSE] /\ isClosing = [w \in Windows |-> FALSE]
      /\ notified = [w \in Windows |-> 0]
  BY DEF Init, LoopInit
<1>2. TypeOK
  <2>1. /\ phase \in Phases /\ quitting \in BOOLEAN
        /\ queued \in Seq(Events) /\ posted \in Seq(Events)
        /\ rootWindows \subseteq Windows /\ temp \in BOOLEAN /\ astray \subseteq Windows
    BY <1>1, NoMessages, WindowsAssumption DEF Init, Phases
  <2>2. /\ opener \in [Windows -> Windows \cup {NoWindow}]
        /\ hwnd \in [Windows -> {"none", "open", "destroyed"}]
        /\ notified \in [Windows -> Nat]
    BY <1>1 DEF Init
  <2>3. /\ known \in [Windows -> BOOLEAN] /\ isClosing \in [Windows -> BOOLEAN]
        /\ browserDestroyed \in [Windows -> BOOLEAN]
        /\ closeAsked \in [Windows -> BOOLEAN]
    BY <1>1 DEF Init
  <2>4. shown \in [Windows -> BOOLEAN]
    BY Zenon DEF Init
  <2>5. cef \in [Windows -> {"none", "allowing", "waiting", "requested", "live",
                            "closing", "doomed", "gone", "never"}]
    BY <1>1
  <2> QED BY <1>1, <2>1, <2>2, <2>3, <2>4, <2>5 DEF TypeOK
<1>3. LoopInv
  <2>1. Tasks = <<>> /\ DOMAIN Tasks = {}
    BY <1>1 DEF Tasks, HasMessageWindow
  <2>2. TasksInv(Tasks, cef, browserDestroyed, rootWindows, opener)
    BY <2>1 DEF TasksInv, Backed, ClosedLast, CreateOnce, RegisteredFirst, Covered
  <2>3. AllEnlisted(Tasks, cef, browserDestroyed, rootWindows)
    BY <1>1 DEF AllEnlisted, Enlisted
  <2>4. ~Quitting(Tasks, quitting)
    BY <1>1, <2>1 DEF Quitting
  <2> QED BY <1>1, <2>2, <2>3, <2>4 DEF LoopInv, Good
<1>4. StateInv
  BY <1>1 DEF StateInv, ClosingInv, DestroyedInv, OpenerInv, Lived
<1> QED BY <1>2, <1>3, <1>4 DEF WindowsInv

LEMMA StutteringStep ==
  ASSUME WindowsInv, UNCHANGED vars
  PROVE  WindowsInv'
<1>1. UNCHANGED <<phase, queued, posted, quitting, rootWindows, opener, hwnd, known, isClosing,
                  browserDestroyed, temp, cef, shown, closeAsked, astray, notified>>
  BY DEF vars, loop, root, browser
<1>2. TypeOK'
  BY <1>1 DEF WindowsInv, TypeOK, HasMessageWindow
<1>3. LoopInv' /\ StateInv'
  BY <1>1 DEF WindowsInv, LoopInv, Looping, Tasks, HasMessageWindow,
              StateInv, ClosingInv, DestroyedInv, OpenerInv
<1> QED BY <1>2, <1>3 DEF WindowsInv

LEMMA StepHolds == WindowsInv /\ [Next]_vars => WindowsInv'
<1> SUFFICES ASSUME WindowsInv, [Next]_vars PROVE WindowsInv'
  OBVIOUS
<1>1. ASSUME NEW o \in Windows, NEW w \in Windows, PopupAsked(o, w)
      PROVE  WindowsInv'
  BY <1>1, PopupAskedStep
<1>2. ASSUME NEW o \in Windows, NEW w \in Windows, OnOpenURLFromTab(o, w)
      PROVE  WindowsInv'
  BY <1>2, OnOpenURLFromTabStep
<1>3. ASSUME NEW w \in Windows,
             \/ OnBeforePopup(w) \/ OnAfterCreated(w) \/ CreationCanceled(w)
             \/ CloseBrowser(w) \/ OnBeforeClose(w) \/ UserCloses(w)
      PROVE  WindowsInv'
  BY <1>3, OnBeforePopupStep, OnAfterCreatedStep, CreationCanceledStep,
     CloseBrowserStep, OnBeforeCloseStep, UserClosesStep
<1>4. ASSUME NEW w \in Windows, ScriptCloses(w)
      PROVE  WindowsInv'
  <2>1. closeAsked' \in [Windows -> BOOLEAN]
    BY <1>4 DEF ScriptCloses, WindowsInv, TypeOK
  <2> QED BY <1>4, <2>1, DoCloseStep DEF ScriptCloses
<1>5. CASE MainThread
  BY <1>5, CreateRootWindowStep, OnRootWindowCreatedStep, OnBrowserCreatedStep,
     OnBrowserClosingStep, OnBrowserClosedStep, QuitsStep, DispatchCloseStep,
     CloseTempWindowStep DEF MainThread
<1>6. CASE OnExit \/ LoopSteps \/ Shutdown
  BY <1>6, OnExitStep, LoopStepsStep, ShutdownStep
<1>7. CASE UNCHANGED vars
  BY <1>7, StutteringStep
<1> QED BY <1>1, <1>2, <1>3, <1>4, <1>5, <1>6, <1>7 DEF Next

\* In every state the tasks are in an order that the main thread can rely on,
\* and the windows and browsers agree with each other.
THEOREM WindowsInvariant == Spec => []WindowsInv
BY InitHolds, StepHolds, PTL DEF Spec

\* The variables hold values of their types.
THEOREM WindowsTypeCorrect == Spec => []TypeOK
<1>1. WindowsInv => TypeOK
  BY DEF WindowsInv
<1> QED BY <1>1, WindowsInvariant, PTL

\* The RootWindow that a browser's handler points to lives while there are tasks
\* of that browser (client_handler.cc:892-917 has a bare pointer): its
\* registration was posted before them, and it is not erased before the last.
THEOREM DelegateLives == Spec => []DelegateIsAlive
<1>1. WindowsInv => DelegateIsAlive
  <2> SUFFICES ASSUME WindowsInv, Dispatching, Next1.what \in AboutBrowser,
                      ~browserDestroyed[Next1.window]
               PROVE  Next1.window \in rootWindows
    BY DEF DelegateIsAlive, AboutBrowser
  <2>1. RegisteredFirst(posted, rootWindows, browserDestroyed)
    BY DispatchFacts DEF Good, TasksInv
  <2>2. 1 \in DOMAIN posted /\ Next1 = posted[1]
    BY DispatchFacts, TailFacts DEF Next1
  <2> QED BY <2>1, <2>2 DEF RegisteredFirst
<1> QED BY <1>1, WindowsInvariant, PTL

\* NotifyDestroyedIfDone erases a window once, and nobody registers it again
\* (root_window_manager.cc:206-209, root_window_win.cc:1051-1056).
THEOREM WindowsDestroyedOnce == Spec => []DestroyedOnce
<1>1. WindowsInv => DestroyedOnce
  BY DEF WindowsInv, TypeOK, StateInv, DestroyedInv, DestroyedOnce
<1> QED BY <1>1, WindowsInvariant, PTL

\* When the main loop is told to quit, no browser exists and none is on its way.
THEOREM NoBrowserAtExit == Spec => []ExitsAfterBrowsers
<1>1. WindowsInv => ExitsAfterBrowsers
  BY DEF WindowsInv, LoopInv, NoneComes, Viable, ExitsAfterBrowsers
<1> QED BY <1>1, WindowsInvariant, PTL

\* The task |e| registers a popup that has no browser yet, or never will.
Strands(e, c) ==
  e.what = "register" /\ e.window \in Windows /\ c[e.window] \in {"requested", "never"}

\* Run returns only when it has been told to quit, and strands no other tasks.
EndInv ==
  /\ phase \in {"leaving", "over", "exited"} => quitting
  /\ phase \in {"over", "exited"} => \A i \in DOMAIN queued : Strands(queued[i], cef)

\* No step takes the loop back, and only its own steps take it on.
LEMMA PhaseStays ==
  ASSUME [Next]_vars
  PROVE  /\ quitting => quitting'
         /\ phase' = phase \/ RunBegins \/ LoopEnds \/ RunReturns \/ Shutdown
<1>1. ASSUME NEW o \in Windows, NEW w \in Windows, PopupAsked(o, w) \/ OnOpenURLFromTab(o, w)
      PROVE  UNCHANGED <<phase, quitting>>
  BY <1>1 DEF PopupAsked, OnOpenURLFromTab, loop
<1>2. ASSUME NEW w \in Windows,
             \/ OnBeforePopup(w) \/ OnAfterCreated(w) \/ CreationCanceled(w)
             \/ ScriptCloses(w) \/ CloseBrowser(w) \/ OnBeforeClose(w) \/ UserCloses(w)
      PROVE  UNCHANGED <<phase, quitting>>
  BY <1>2 DEF OnBeforePopup, OnAfterCreated, CreationCanceled, ScriptCloses, CloseBrowser,
              OnBeforeClose, UserCloses, OnClose, loop
<1>3. CASE MainThread \/ OnExit
  BY <1>3 DEF MainThread, CreateRootWindow, OnRootWindowCreated, OnBrowserCreated,
              OnBrowserClosing, OnBrowserClosed, Quits, PostQuitMessage, DispatchClose, OnClose,
              CloseTempWindow, OnExit
<1>4. CASE LoopSteps \/ Shutdown
  BY <1>4 DEF LoopSteps, RunBegins, LoopEnds, RunReturns, Shutdown
<1>5. CASE UNCHANGED vars
  BY <1>5 DEF vars, loop
<1> QED BY <1>1, <1>2, <1>3, <1>4, <1>5 DEF Next

\* After Run no browser is left, so that popups can be allowed or canceled, and
\* nothing else happens.
LEMMA AfterRun ==
  ASSUME WindowsInv, EndInv, [Next]_vars, phase \in {"over", "exited"}
  PROVE  \/ \E w \in Windows : OnBeforePopup(w) \/ OnAfterCreated(w) \/ CreationCanceled(w)
         \/ UNCHANGED <<queued, cef>>
<1>1. \A w \in Windows : cef[w] \notin {"live", "closing", "doomed"}
  BY DEF EndInv, WindowsInv, LoopInv, NoneComes, Viable
<1>2. ASSUME NEW o \in Windows, NEW w \in Windows, PopupAsked(o, w) \/ OnOpenURLFromTab(o, w)
      PROVE  FALSE
  BY <1>1, <1>2 DEF PopupAsked, OnOpenURLFromTab
<1>3. ASSUME NEW w \in Windows,
             ScriptCloses(w) \/ CloseBrowser(w) \/ OnBeforeClose(w) \/ UserCloses(w)
      PROVE  UNCHANGED <<queued, cef>>
  BY <1>1, <1>3 DEF ScriptCloses, CloseBrowser, OnBeforeClose, UserCloses
<1>4. CASE MainThread \/ OnExit \/ LoopSteps \/ Shutdown
  BY <1>4 DEF MainThread, CreateRootWindow, OnRootWindowCreated, OnBrowserCreated,
              OnBrowserClosing, OnBrowserClosed, Quits, DispatchClose, CloseTempWindow,
              Dispatches, Dispatching, OnExit, LoopSteps, RunBegins, LoopEnds, RunReturns,
              Shutdown, browser
<1>5. CASE UNCHANGED vars
  BY <1>5 DEF vars, loop, browser
<1> QED BY <1>2, <1>3, <1>4, <1>5 DEF Next

LEMMA EndStep ==
  ASSUME WindowsInv, WindowsInv', EndInv, [Next]_vars
  PROVE  EndInv'
<1>1. (quitting => quitting') /\ (phase' = phase \/ RunBegins \/ LoopEnds \/ RunReturns \/ Shutdown)
  BY PhaseStays
<1>2. phase' \in {"leaving", "over", "exited"} => quitting'
  BY <1>1 DEF EndInv, RunBegins, LoopEnds, RunReturns, Shutdown
<1>3. ASSUME phase' \in {"over", "exited"}, NEW i \in DOMAIN queued'
      PROVE  Strands(queued'[i], cef')
  <2>1. CASE phase \notin {"over", "exited"}
    <3>1. RunReturns
      BY <1>1, <1>3, <2>1 DEF RunBegins, LoopEnds, Shutdown
    <3>2. queued' = <<>>
      BY <3>1 DEF RunReturns, HasMessageWindow, WindowsInv, TypeOK
    <3> QED BY <1>3, <3>2
  <2>2. CASE phase \in {"over", "exited"}
    <3>1. /\ queued \in Seq(Events) /\ cef \in [Windows -> Stages]
          /\ \A j \in DOMAIN queued : Strands(queued[j], cef)
      BY <2>2, Types DEF EndInv, WindowsInv, TypeOK
    <3>2. CASE UNCHANGED <<queued, cef>>
      BY <1>3, <3>1, <3>2
    <3>3. ASSUME NEW w \in Windows, OnAfterCreated(w)
          PROVE  FALSE
      <4>1. cef'[w] = "live"
        BY <3>1, <3>3 DEF OnAfterCreated
      <4>2. cef'[w] # "live"
        BY <1>2, <1>3 DEF WindowsInv, LoopInv, NoneComes, Viable
      <4> QED BY <4>1, <4>2
    <3>4. ASSUME NEW w \in Windows, CreationCanceled(w)
          PROVE  Strands(queued'[i], cef')
      <4>1. queued' = queued /\ cef' = [cef EXCEPT ![w] = "never"]
        BY <3>4 DEF CreationCanceled, loop
      <4> QED BY <1>3, <3>1, <4>1 DEF Strands
    <3>5. ASSUME NEW w \in Windows, OnBeforePopup(w)
          PROVE  Strands(queued'[i], cef')
      <4> DEFINE e == Event("register", w)
      <4>1. e.what = "register" /\ e.window = w /\ e \in Events
        BY EventFacts
      <4>2. queued' = queued \o <<e>> /\ cef' = [cef EXCEPT ![w] = "requested"]
        BY <2>2, <3>5 DEF OnBeforePopup, Post, PostAfter, HasMessageWindow
      <4> HIDE DEF e
      <4>3. queued'[i] = e \/ (i \in DOMAIN queued /\ queued'[i] = queued[i])
        BY <1>3, <3>1, <4>1, <4>2
      <4>4. Strands(e, cef')
        BY <3>1, <4>1, <4>2 DEF Strands
      <4>5. \A j \in DOMAIN queued : Strands(queued[j], cef')
        BY <3>1, <4>2 DEF Strands
      <4> QED BY <4>3, <4>4, <4>5
    <3> QED BY <2>2, <3>2, <3>3, <3>4, <3>5, AfterRun
  <2> QED BY <2>1, <2>2
<1> QED BY <1>2, <1>3 DEF EndInv

\* No task of a browser is left in queued_tasks_ when the message window is
\* gone (main_message_loop_multithreaded_win.cc:153-160), nor a registration of
\* a window that has a browser.
THEOREM OnlyRegistrationsStrand == Spec => []StrandsOnlyRegistrations
<1>1. Init => EndInv
  BY DEF Init, LoopInit, EndInv
<1>2. WindowsInv /\ WindowsInv' /\ EndInv /\ [Next]_vars => EndInv'
  BY EndStep
<1>3. EndInv => StrandsOnlyRegistrations
  BY DEF EndInv, Strands, StrandsOnlyRegistrations
<1> QED BY <1>1, <1>2, <1>3, WindowsInvariant, PTL DEF Spec

\* A native window goes under a browser that the main thread knows only when CEF
\* has accepted the close.
THEOREM PageAgreesToClose == Spec => PageAgrees
<1> DEFINE Agrees ==
      \A w \in Windows : (known[w] /\ hwnd[w] = "open" /\ hwnd'[w] # "open")
                           => cef[w] \in {"closing", "doomed", "gone"}
<1>1. WindowsInv /\ [Next]_vars => [Agrees]_vars
  <2> SUFFICES ASSUME WindowsInv, Next, NEW w \in Windows,
                      known[w], hwnd[w] = "open", hwnd'[w] # "open"
               PROVE  cef[w] \in {"closing", "doomed", "gone"}
    OBVIOUS
  <2>1. hwnd \in [Windows -> {"none", "open", "destroyed"}]
    BY DEF WindowsInv, TypeOK
  <2>2. ASSUME NEW v \in Windows, NEW rest, OnClose(v, rest)
        PROVE  cef[w] \in {"closing", "doomed", "gone"}
    <3>1. DestroysWindow(v, rest) /\ v = w /\ ~(known[v] /\ ~isClosing[v])
      BY <2>1, <2>2 DEF OnClose, AsksBrowser, DestroysWindow
    <3> QED BY <3>1 DEF WindowsInv, StateInv, ClosingInv, Leaving
  <2>3. ASSUME NEW v \in Windows, UserCloses(v)
        PROVE  cef[w] \in {"closing", "doomed", "gone"}
    BY <2>2, <2>3 DEF UserCloses
  <2>4. CASE DispatchClose
    <3>1. Next1 \in Events /\ Next1.window # NoWindow
      BY <2>4, DispatchFacts DEF DispatchClose, Dispatches
    <3>2. Next1.window \in Windows
      BY <3>1, EventIs
    <3>3. hwnd[Next1.window] = "open"
      BY <2>4 DEF DispatchClose, root
    <3> QED BY <2>2, <2>4, <3>2, <3>3 DEF DispatchClose
  <2>5. CASE OnBrowserClosed
    <3>1. Next1.window = w
      BY <2>1, <2>5 DEF OnBrowserClosed
    <3>2. Dispatching /\ Next1.what = "closed"
      BY <2>5 DEF OnBrowserClosed, Dispatches
    <3>3. cef[w] = "gone"
      BY <3>1, <3>2, DispatchFacts DEF Backs, AboutWindow, AboutBrowser
    <3> QED BY <3>3
  <2>6. CASE CreateRootWindow \/ OnBrowserCreated
    <3>1. hwnd'[w] = "open"
      BY <2>1, <2>6 DEF CreateRootWindow, OnBrowserCreated
    <3> QED BY <3>1
  <2>7. CASE hwnd' = hwnd
    BY <2>7
  <2>8. ASSUME NEW o \in Windows, NEW v \in Windows,
               \/ PopupAsked(o, v) \/ OnOpenURLFromTab(o, v)
        PROVE  hwnd' = hwnd
    BY <2>8 DEF PopupAsked, OnOpenURLFromTab, root
  <2>9. ASSUME NEW v \in Windows,
               \/ OnBeforePopup(v) \/ OnAfterCreated(v) \/ CreationCanceled(v)
               \/ ScriptCloses(v) \/ CloseBrowser(v) \/ OnBeforeClose(v)
        PROVE  hwnd' = hwnd
    BY <2>9 DEF OnBeforePopup, OnAfterCreated, CreationCanceled, ScriptCloses,
                CloseBrowser, OnBeforeClose, root
  <2>10. ASSUME \/ OnRootWindowCreated \/ OnBrowserClosing \/ Quits \/ CloseTempWindow
                \/ OnExit \/ LoopSteps \/ Shutdown
         PROVE  hwnd' = hwnd
    BY <2>10 DEF OnRootWindowCreated, OnBrowserClosing, Quits, CloseTempWindow, OnExit,
                 LoopSteps, Shutdown, root
  <2> QED BY <2>3, <2>4, <2>5, <2>6, <2>7, <2>8, <2>9, <2>10 DEF Next, MainThread
<1> QED BY <1>1, WindowsInvariant, PTL DEF Spec, PageAgrees
=============================================================================
