----------------------------- MODULE FiberSleep -----------------------------
(***************************************************************************)
(* fiber_sleep and fiber_event_wake_sleepers of fiber_event_native.c: a    *)
(* search tree of lists, whose nodes are local variables of the sleeping   *)
(* fibers, ordered by wake time.  sleep_spinlock is held by a sleeper from *)
(* its insertion until its context is saved (one step) and by the thread   *)
(* that handles the timer for as long as it wakes sleepers.                *)
(***************************************************************************)
EXTENDS Naturals, FiniteSets

CONSTANTS Sleepers,     \* fibers that call fiber_sleep
          Nil,
          Requests,     \* calls of sleep, usleep and nanosleep
          Kilo,         \* 1000 in the code: nanoseconds in a microsecond, ...
          Word,         \* 2^32 in the code
          MaxTicks,     \* ticks one read of the timer may report (bound)
          MaxTime,      \* last tick (bound)
          Parallel      \* do fibers run while another thread polls?

ASSUME SleepAssumption ==
  /\ IsFiniteSet(Sleepers) /\ Nil \notin Sleepers
  /\ {Kilo, Word, MaxTicks, MaxTime} \subseteq Nat \ {0}
  /\ Requests \subseteq [call : {"sleep", "usleep", "nanosleep"}, sec : Nat, usec : Nat, nsec : Nat]
  /\ Parallel \in BOOLEAN

VARIABLES
  frame,                \* wake_info of each fiber
  sleepers,             \* the root of the tree
  timer_trigger_count,
  asked,                \* history: the tick before which each may not return
  at, to_wake,          \* of the thread in fiber_event_wake_sleepers
  state                 \* of each fiber: "run", "enter", "asleep" or "ready"

tvars == <<frame, sleepers, timer_trigger_count, asked, at, to_wake, state>>

Zero == [time |-> 0, next |-> Nil, left |-> Nil, right |-> Nil]

SleepInit ==
  /\ frame = [f \in Sleepers |-> Zero]
  /\ sleepers = Nil /\ timer_trigger_count = 0
  /\ asked = [f \in Sleepers |-> 0]
  /\ at = "poll" /\ to_wake = Nil
  /\ state = [f \in Sleepers |-> "run"]

\* A thread that handles the timer runs no fiber.
MayRunFibers == Parallel \/ at = "poll"

-----------------------------------------------------------------------------
\* The arguments of fiber_sleep in the three shims.
Shim(r) ==
  CASE r.call = "sleep"     -> [sec |-> r.sec, usec |-> 0]
    [] r.call = "usleep"    -> [sec |-> r.usec \div Kilo ^ 2, usec |-> r.usec % Kilo ^ 2]
    [] r.call = "nanosleep" -> [sec |-> r.sec, usec |-> r.nsec \div Kilo + 1]

\* rounding down
SleepMsShort(a) == (a.sec * Kilo + a.usec \div Kilo) % Word

\* sleep_ms, computed in 32 bits.  It is added to a count of ticks: a tick is
\* taken to be a millisecond.
SleepMs(a) == (a.sec * Kilo + a.usec \div Kilo + 1) % Word

\* The milliseconds a request asks for, rounded up.
Wanted(r) ==
  (r.sec * Kilo ^ 3 + r.usec * Kilo + r.nsec + Kilo ^ 2 - 1) \div Kilo ^ 2

Side(t, n) == IF t < frame[n].time THEN "left" ELSE "right"

\* waiter_insert: the node under which f goes, and the field that holds it.
Place(t) ==
  LET Walk[n \in Sleepers] ==
        IF t = frame[n].time THEN [node |-> n, field |-> "next"]
        ELSE LET s == Side(t, n) IN
             IF frame[n][s] = Nil THEN [node |-> n, field |-> s] ELSE Walk[frame[n][s]]
  IN Walk[sleepers]

\* a node that does not take over the list it is put in
OldNextDropped(spot) == Nil

OldNext(spot) == frame[spot.node].next

Inserted(f, t) ==
  IF sleepers = Nil
  THEN sleepers' = f /\ frame' = [frame EXCEPT ![f].time = t]
  ELSE LET spot == Place(t) IN
       /\ sleepers' = sleepers
       /\ frame' = [frame EXCEPT ![f].time = t,
                                 ![f].next = IF spot.field = "next" THEN OldNext(spot) ELSE @,
                                 ![spot.node][spot.field] = f]

\* waiter_remove_less_than looks at the leftmost node.
Leftmost ==
  LET Walk[n \in Sleepers] == IF frame[n].left = Nil THEN n ELSE Walk[frame[n].left]
  IN Walk[sleepers]

Due(n) == timer_trigger_count > frame[n].time

SomeDue == sleepers # Nil /\ Due(Leftmost)

\* *tree = (*tree)->right
Removed(n) ==
  IF n = sleepers
  THEN sleepers' = frame[n].right /\ frame' = frame
  ELSE /\ sleepers' = sleepers
       /\ frame' = [p \in Sleepers |-> IF state[p] = "asleep" /\ frame[p].left = n
                                     THEN [frame[p] EXCEPT !.left = frame[n].right]
                                     ELSE frame[p]]

-----------------------------------------------------------------------------
\* waiter_el_t wake_info = {}; the frame is where it was in the last call.
SleepEnter(f) ==
  /\ state[f] = "run" /\ MayRunFibers
  /\ frame' = [frame EXCEPT ![f] = Zero]
  /\ asked' = [asked EXCEPT ![f] = 0]
  /\ state' = [state EXCEPT ![f] = "enter"]
  /\ UNCHANGED <<sleepers, timer_trigger_count, at, to_wake>>

SleepInsert(f) ==
  /\ state[f] = "enter" /\ at = "poll"
  /\ \E r \in Requests :
       /\ Inserted(f, timer_trigger_count + SleepMs(Shim(r)))
       /\ asked' = [asked EXCEPT ![f] = timer_trigger_count + Wanted(r)]
  /\ state' = [state EXCEPT ![f] = "asleep"]
  /\ UNCHANGED <<timer_trigger_count, at, to_wake>>

SleepReturn(f) ==
  /\ state[f] = "ready" /\ MayRunFibers
  /\ state' = [state EXCEPT ![f] = "run"]
  /\ UNCHANGED <<frame, sleepers, timer_trigger_count, asked, at, to_wake>>

\* The timer is readable; sleep_spinlock is taken.
WakeStart ==
  /\ at = "poll"
  /\ \E n \in 1 .. MaxTicks :
       /\ timer_trigger_count + n <= MaxTime
       /\ timer_trigger_count' = timer_trigger_count + n
  /\ at' = "remove"
  /\ UNCHANGED <<frame, sleepers, asked, to_wake, state>>

WakeRemove ==
  /\ at = "remove"
  /\ SomeDue
  /\ Removed(Leftmost)
  /\ to_wake' = Leftmost
  /\ at' = "schedule"
  /\ UNCHANGED <<timer_trigger_count, asked, state>>

WakeDone ==
  /\ at = "remove"
  /\ ~SomeDue
  /\ at' = "poll"
  /\ UNCHANGED <<frame, sleepers, timer_trigger_count, asked, to_wake, state>>

WakeSchedule ==
  /\ at = "schedule"
  /\ state' = [state EXCEPT ![to_wake] = "ready"]
  /\ at' = "next"
  /\ UNCHANGED <<frame, sleepers, timer_trigger_count, asked, to_wake>>

\* to_wake->next is read from the frame of a fiber that may run already.
WakeNext ==
  /\ at = "next"
  /\ to_wake' = frame[to_wake].next
  /\ at' = IF to_wake' = Nil THEN "remove" ELSE "schedule"
  /\ UNCHANGED <<frame, sleepers, timer_trigger_count, asked, state>>

SleepStep(f) == SleepEnter(f) \/ SleepInsert(f) \/ SleepReturn(f)

TimerStep == WakeStart \/ WakeRemove \/ WakeDone \/ WakeSchedule \/ WakeNext

-----------------------------------------------------------------------------
\* Pointers are fibers or NULL, and only a sleeping fiber is about to be
\* scheduled.
SleepTypeOK ==
  /\ frame \in [Sleepers -> [time : Nat, next : Sleepers \cup {Nil},
                           left : Sleepers \cup {Nil}, right : Sleepers \cup {Nil}]]
  /\ sleepers \in Sleepers \cup {Nil}
  /\ timer_trigger_count \in 0 .. MaxTime
  /\ at \in {"poll", "remove", "schedule", "next"}
  /\ state \in [Sleepers -> {"run", "enter", "asleep", "ready"}]
  /\ at = "schedule" => state[to_wake] = "asleep"

\* Whichever of sleep, usleep and nanosleep it called, with a request below
\* Word ticks, and wherever it is in the tree, a fiber is scheduled only when
\* the ticks it asked for are over.  They are counted as the code does, from
\* the last tick that was handled when it called: ticks that have passed by
\* then and that no thread has read yet count as well.
NotEarly ==
  [][\A f \in Sleepers : state[f] = "asleep" /\ state'[f] = "ready"
                       => asked[f] < timer_trigger_count]_tvars

\* The tree is well formed, and once the timer has been handled nobody sleeps
\* whose time is over: no sleeper has dropped out of the tree and none is
\* hidden by a later one.  This is so on one thread, where a woken fiber does
\* not run before the waker has read the next pointer from its stack.
NoneOverdue ==
  /\ SleepTypeOK
  /\ at = "poll" =>
       \A f \in Sleepers : state[f] = "asleep" => frame[f].time >= timer_trigger_count
=============================================================================
