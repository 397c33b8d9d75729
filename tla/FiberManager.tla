---------------------------- MODULE FiberManager ----------------------------
(***************************************************************************)
(* The fiber runtime: fiber_manager.c, the work-stealing scheduler of      *)
(* fiber_scheduler_wsd.c and the flag and lock of schedule_lock.c.         *)
(*                                                                         *)
(* A kernel thread is a manager; it always executes one fiber, `cur`.  A   *)
(* fiber's position (`pc`) and locals stay with the fiber when it moves to *)
(* another manager.  fiber_manager_get() is the manager that executes the  *)
(* fiber.  Deque operations are single steps (WorkStealingDeque.tla looks  *)
(* inside them) and so is a context switch with its bookkeeping.           *)
(*                                                                         *)
(* This module has the runtime's steps and the entry points client modules *)
(* call; the clients add the application's operations and Next.            *)
(***************************************************************************)
EXTENDS Integers, Sequences, FiniteSets

CONSTANTS NumThreads,   \* the argument of fiber_manager_init
          Apps,         \* fibers that run application code
          Main,         \* the one made from the thread of fiber_manager_init
          Banned,       \* fibers whose banned_until lies in the future
          Null

Managers == 0 .. NumThreads - 1

\* The maintenance fiber of manager m is written m.
Fibers == Apps \cup Managers

ASSUME ManagerAssumption ==
  /\ NumThreads \in Nat \ {0}
  /\ Main \in Apps /\ IsFiniteSet(Apps)
  /\ Apps \cap Managers = {}
  /\ Banned \subseteq Apps
  /\ Null \notin Fibers

VARIABLES
  fib,          \* fiber_t and the fiber's saved position and locals
  mgr,          \* fiber_manager_t
  runq,         \* fiber_scheduler_thread_queues: bottom is the last element
  from,         \* each scheduler's schedule_from, an index of runq
  lock_using,   \* the flag of schedule_lock.c
  waitq,        \* one mpsc_fifo_t of waiting fibers
  join_info     \* the one-word wait location of each fiber

kvars == <<fib, mgr, runq, from, lock_using, waitq, join_info>>

States == {"none", "RUNNING", "READY", "WAITING", "SAVING", "DONE", "freed"}

\* The states that keep fiber_manager_yield looping until something runs.
Blocked == {"WAITING", "DONE", "SAVING"}

\* A manager that executes fiber f at the given place.
At(m, f, place) == mgr[m].cur = f /\ fib[f].pc = place

StoreTo(m) == IF from[m] = 2 * m THEN 2 * m + 1 ELSE 2 * m

\* fiber_manager_schedule / fiber_scheduler_schedule
Schedule(m, f) == [runq EXCEPT ![from[m]] = Append(@, f)]

\* A fiber whose assertion fails aborts the program.
Aborted == \E f \in Fibers : fib[f].pc = "abort"

\* A fiber that has to wait for the lock of the gate ends it, too.
Crashed == \E f \in Fibers : fib[f].pc = "crash"

NewFiber(state, pc, after) ==
  [state |-> state, node |-> TRUE, pc |-> pc, ret |-> "none", after |-> after,
   next |-> Null, seen |-> "none", i |-> 0, local |-> 0, count |-> 0]

\* Sequences in which each member of S occurs once.
Orders(S) ==
  {s \in [1 .. Cardinality(S) -> S] :
     \A x \in S : \E i \in DOMAIN s : \A j \in DOMAIN s : s[j] = x <=> j = i}

\* fiber_manager_init, and then fiber_create for every other application
\* fiber by Main: the state in which Main's own code starts.
KInit ==
  /\ fib = [f \in Fibers |->
              IF f = Main THEN NewFiber("RUNNING", "run", "none")
              ELSE IF f \in Apps THEN NewFiber("READY", "maint", "run")
              ELSE IF f = 0 THEN NewFiber("none", "maint", "tf")
              ELSE NewFiber("RUNNING", "tf", "none")]
  /\ mgr = [m \in Managers |->
              [cur |-> IF m = 0 THEN Main ELSE m, old |-> Null,
               to_schedule |-> Null, done_fiber |-> Null,
               set_wait_location |-> Null, set_wait_value |-> Null]]
  /\ \E created \in Orders(Apps \ {Main}) :
       runq = [q \in 0 .. 2 * NumThreads - 1 |-> IF q = 0 THEN created ELSE <<>>]
  /\ from = [m \in Managers |-> 2 * m]
  /\ lock_using = -1
  /\ waitq = <<>>
  /\ join_info = [f \in Apps |-> Null]

-----------------------------------------------------------------------------
(* fiber_scheduler_next, called from fiber_manager_yield ("next", "pop")   *)
(* and from fiber_manager_thread_func ("tf", "tfpop").                     *)

\* schedule_from and store_to change places when schedule_from is empty.
Swapped(m) == IF runq[from[m]] = <<>> THEN [from EXCEPT ![m] = StoreTo(m)] ELSE from

NextSwap(m, f) ==
  /\ At(m, f, "next")
  /\ from' = Swapped(m)
  /\ fib' = [fib EXCEPT ![f].pc = "pop", ![f].seen = fib[f].state]
  /\ UNCHANGED <<mgr, runq, lock_using, waitq, join_info>>

\* The bottom of the queue that is popped, and the queue without it.
Bottom(m) == runq[from[m]][Len(runq[from[m]])]
WithoutBottom(m) == SubSeq(runq[from[m]], 1, Len(runq[from[m]]) - 1)

Popping(m, f) == mgr[m].cur = f /\ fib[f].pc \in {"pop", "tfpop"}

\* not looking at the state of the fiber that was popped
SavingIgnored(g) == FALSE

\* A fiber that has queued itself but whose context is not saved yet ...
Saving(g) == fib[g].state = "SAVING"

PutAside(m) ==
  [runq EXCEPT ![from[m]] = WithoutBottom(m), ![StoreTo(m)] = Append(@, Bottom(m))]

\* ... is put aside.
NextSkip(m, f) ==
  /\ Popping(m, f)
  /\ runq[from[m]] # <<>>
  /\ Saving(Bottom(m))
  /\ runq' = PutAside(m)
  /\ UNCHANGED <<fib, mgr, from, lock_using, waitq, join_info>>

NextFound(m, f) ==
  /\ Popping(m, f)
  /\ runq[from[m]] # <<>>
  /\ ~Saving(Bottom(m))
  /\ runq' = [runq EXCEPT ![from[m]] = WithoutBottom(m)]
  /\ fib' = [fib EXCEPT ![f].next = Bottom(m),
                        ![f].pc = IF @ = "pop" THEN "rdlock" ELSE "tfswitch"]
  /\ UNCHANGED <<mgr, from, lock_using, waitq, join_info>>

\* Nothing to run: a blocked fiber gives the thread to the maintenance
\* fiber, a running one returns from yield; thread_func polls and loops.
NextNone(m, f) ==
  /\ Popping(m, f)
  /\ runq[from[m]] = <<>>
  /\ fib' = [fib EXCEPT ![f].pc =
               IF @ = "tfpop" THEN "tf"
               ELSE IF fib[f].seen \in Blocked THEN "tomaint" ELSE "trysteal"]
  /\ UNCHANGED <<mgr, runq, from, lock_using, waitq, join_info>>

-----------------------------------------------------------------------------
(* fiber_manager_switch_to, up to the first step of the new context.  A    *)
(* fiber that is switched out resumes in do_maintenance ("maint") and goes *)
(* on at `after`; a pending yield returns to `ret`.                        *)

Yields(f) == fib[f].state = "RUNNING"

SwitchTo(m, f, g, after, ret) ==
  /\ fib' = [fib EXCEPT ![f].state = IF Yields(f) THEN "READY" ELSE @,
                        ![f].pc = "maint",
                        ![f].after = after,
                        ![f].ret = ret,
                        ![f].next = Null,
                        ![f].seen = "none",
                        ![g].state = "RUNNING"]
  /\ mgr' = [mgr EXCEPT ![m].to_schedule = IF Yields(f) THEN f ELSE @,
                        ![m].cur = g,
                        ![m].old = f]

-----------------------------------------------------------------------------
(* fiber_manager_yield after fiber_scheduler_next: the gate.               *)
(* is_lock_using reads the flag and set_lock_status writes it under a      *)
(* fiber_rwlock_t, `lock` of schedule_lock.c.  Its word is given by who is *)
(* inside (FiberRwlock.tla).  A fiber that has to wait for it cannot:      *)
(* wait_in_mpsc_queue asserts that its state is RUNNING, which it is not   *)
(* in a yield that waits or finishes, and else it pushes to a queue that   *)
(* was never initialised, through a null pointer.  Either ends the program.*)

\* leaving out the rdunlock of is_lock_using
GateReadersStay == {f \in Fibers : fib[f].pc \in {"gate", "wrlock"}}

GateReaders == {f \in Fibers : fib[f].pc = "gate"}

GateWriters == {f \in Fibers : fib[f].pc = "switch"}

\* The word lets a fiber at this place in.
GateFree(place) == GateWriters = {} /\ (place = "wrlock" => GateReaders = {})

\* banned_until is compared before is_lock_using is called.
AtGate(m, f) ==
  \/ At(m, f, "rdlock") /\ fib[f].next \notin Banned
  \/ At(m, f, "wrlock")

\* fiber_rwlock_rdlock and fiber_rwlock_wrlock
GateEnter(m, f) ==
  /\ AtGate(m, f)
  /\ GateFree(fib[f].pc)
  /\ fib' = [fib EXCEPT ![f].pc = IF @ = "rdlock" THEN "gate" ELSE "switch"]
  /\ UNCHANGED <<mgr, runq, from, lock_using, waitq, join_info>>

GateBlocks(m, f) ==
  /\ AtGate(m, f)
  /\ ~GateFree(fib[f].pc)
  /\ fib' = [fib EXCEPT ![f].pc = "crash"]
  /\ UNCHANGED <<mgr, runq, from, lock_using, waitq, join_info>>

\* is_lock_using, with its rdunlock: the flag is clear.
GatePass(m, f) ==
  /\ At(m, f, "gate")
  /\ lock_using # 1
  /\ fib' = [fib EXCEPT ![f].pc = "wrlock"]
  /\ UNCHANGED <<mgr, runq, from, lock_using, waitq, join_info>>

\* The refusing branch schedules current_fiber; the fiber that
\* fiber_scheduler_next returned is in no queue any more.
GateRefuse(m, f) ==
  /\ \/ At(m, f, "rdlock") /\ fib[f].next \in Banned
     \/ At(m, f, "gate") /\ lock_using = 1
  /\ runq' = Schedule(m, f)
  /\ fib' = [fib EXCEPT ![f].pc = "trysteal", ![f].next = Null]
  /\ UNCHANGED <<mgr, from, lock_using, waitq, join_info>>

\* set_lock_status with its wrunlock, and fiber_manager_switch_to
YieldSwitch(m, f) ==
  /\ At(m, f, "switch")
  /\ lock_using' = 1
  /\ SwitchTo(m, f, fib[f].next, fib[f].ret, "none")
  /\ UNCHANGED <<runq, from, waitq, join_info>>

\* The maintenance fiber is made on first use; when the blocked fiber runs
\* again it goes round the loop of fiber_manager_yield once more.
SwitchToMaintenance(m, f) ==
  /\ At(m, f, "tomaint")
  /\ SwitchTo(m, f, m, "next", fib[f].ret)
  /\ UNCHANGED <<runq, from, lock_using, waitq, join_info>>

\* try_steal: the yield returns, and every 1024th one balances the load
\* first.  The counter is abstracted to either answer.
TryStealReturn(m, f) ==
  /\ At(m, f, "trysteal")
  /\ fib' = [fib EXCEPT ![f].pc = fib[f].ret, ![f].ret = "none", ![f].seen = "none"]
  /\ UNCHANGED <<mgr, runq, from, lock_using, waitq, join_info>>

TryStealBalance(m, f) ==
  /\ At(m, f, "trysteal")
  /\ fib' = [fib EXCEPT ![f].pc = "balance", ![f].seen = "none"]
  /\ UNCHANGED <<mgr, runq, from, lock_using, waitq, join_info>>

-----------------------------------------------------------------------------
(* fiber_scheduler_load_balance, called from yield ("balance") and from    *)
(* thread_func ("tf"): visit the queues of the other schedulers in order.  *)
(* A visit steals from the top until the remote queue is no longer than    *)
(* local_count; it is one step.  The limit of 50 steals per call is beyond *)
(* the number of fibers of an instance.                                    *)

Visits == 2 * (NumThreads - 1)

BalanceVisit(m, f) ==
  LET q == (2 * (m + 1) + fib[f].i) % (2 * NumThreads)
      local_count == IF fib[f].i = 0 THEN Len(runq[from[m]]) ELSE fib[f].local
      surplus == Len(runq[q]) - local_count
      k == IF surplus > 0 THEN (surplus + 1) \div 2 ELSE 0
  IN
  /\ mgr[m].cur = f
  /\ fib[f].pc \in {"balance", "tf"}
  /\ fib[f].i < Visits
  /\ runq' = [runq EXCEPT ![q] = SubSeq(@, k + 1, Len(@)),
                          ![from[m]] = @ \o SubSeq(runq[q], 1, k)]
  /\ fib' = [fib EXCEPT ![f].i = @ + 1, ![f].local = local_count + k]
  /\ UNCHANGED <<mgr, from, lock_using, waitq, join_info>>

BalanceReturn(m, f) ==
  /\ At(m, f, "balance")
  /\ fib[f].i = Visits
  /\ fib' = [fib EXCEPT ![f].i = 0, ![f].local = 0,
                        ![f].ret = "none", ![f].pc = fib[f].ret]
  /\ UNCHANGED <<mgr, runq, from, lock_using, waitq, join_info>>

-----------------------------------------------------------------------------
(* fiber_manager_thread_func, run by a maintenance fiber: balance, take a  *)
(* fiber, give it the thread.  The lock flag is not consulted here.        *)

ThreadFuncNext(m) ==
  /\ At(m, m, "tf")
  /\ fib[m].i = Visits
  /\ from' = Swapped(m)
  /\ fib' = [fib EXCEPT ![m].i = 0, ![m].local = 0, ![m].pc = "tfpop"]
  /\ UNCHANGED <<mgr, runq, lock_using, waitq, join_info>>

ThreadFuncSwitch(m) ==
  LET g == fib[m].next IN
  /\ At(m, m, "tfswitch")
  /\ fib' = [fib EXCEPT ![m].state = "SAVING", ![m].pc = "maint",
                        ![m].after = "tf", ![m].next = Null,
                        ![m].seen = "none", ![g].state = "RUNNING"]
  /\ mgr' = [mgr EXCEPT ![m].cur = g, ![m].old = m]
  /\ UNCHANGED <<runq, from, lock_using, waitq, join_info>>

-----------------------------------------------------------------------------
(* fiber_manager_do_maintenance, the first thing a resumed fiber does.     *)
(* What the previous fiber left behind is published now that its context   *)
(* is saved.  Without a refused yield at most one of the three effects on  *)
(* the old fiber is pending, so the whole is one step.                     *)

MaintenanceAsserts(m) ==
  LET k == mgr[m] IN
  /\ k.done_fiber # Null => fib[k.done_fiber].state = "DONE"
  /\ k.to_schedule # Null => fib[k.to_schedule].state = "READY"

\* fiber_t after `if (old_fiber->state == SAVING) ...` and fiber_destroy
Maintained(m) ==
  [f \in Fibers |->
     IF f = mgr[m].done_fiber THEN [fib[f] EXCEPT !.state = "freed"]
     ELSE IF f = mgr[m].old /\ fib[f].state = "SAVING"
     THEN [fib[f] EXCEPT !.state = "WAITING"] ELSE fib[f]]

Maintenance(m, f) ==
  LET k == mgr[m] IN
  /\ At(m, f, "maint")
  /\ fib' = [Maintained(m) EXCEPT
               ![f].pc = IF MaintenanceAsserts(m) THEN fib[f].after ELSE "abort",
               ![f].after = "none"]
  /\ runq' = IF k.to_schedule = Null THEN runq ELSE Schedule(m, k.to_schedule)
  /\ join_info' = IF k.set_wait_location = Null THEN join_info
                  ELSE [join_info EXCEPT ![k.set_wait_location] = k.set_wait_value]
  /\ mgr' = [mgr EXCEPT ![m].old = Null,
                        ![m].done_fiber = Null, ![m].to_schedule = Null,
                        ![m].set_wait_location = Null, ![m].set_wait_value = Null]
  /\ UNCHANGED <<from, lock_using, waitq>>

-----------------------------------------------------------------------------
(* Entry points for clients.                                               *)

\* A step of f's own code that leaves the runtime alone.
Goes(f, place) == fib' = [fib EXCEPT ![f].pc = place]

OnlyFib == UNCHANGED <<mgr, runq, from, lock_using, waitq, join_info>>

\* fiber_manager_yield(manager); then go on at `ret`.
CallYield(f, ret) == [fib EXCEPT ![f].pc = "next", ![f].ret = ret]

Abort(f) == [fib EXCEPT ![f].pc = "abort"]

\* fiber_manager_set_and_wait(manager, location, f); then go on at `ret`.
SetAndWait(m, f, location, ret) ==
  /\ UNCHANGED join_info
  /\ IF fib[f].state # "RUNNING"
     THEN fib' = Abort(f) /\ UNCHANGED mgr
     ELSE /\ fib' = [CallYield(f, ret) EXCEPT ![f].state = "WAITING"]
          /\ mgr' = [mgr EXCEPT ![m].set_wait_location = location,
                                ![m].set_wait_value = f]

\* fiber_manager_wait_in_mpsc_queue, up to the exchange of the queue's tail
WaitPush(m, f) ==
  /\ At(m, f, "wait")
  /\ IF fib[f].state = "RUNNING" /\ fib[f].node
     THEN /\ fib' = [fib EXCEPT ![f].state = "SAVING", ![f].node = FALSE,
                                ![f].pc = "waitlink"]
          /\ waitq' = Append(waitq, [fiber |-> f, linked |-> FALSE])
     ELSE fib' = Abort(f) /\ UNCHANGED waitq
  /\ UNCHANGED <<mgr, runq, from, lock_using, join_info>>

\* ... and the store that links the node, then the yield.
WaitLink(m, f) ==
  /\ At(m, f, "waitlink")
  /\ waitq' = [k \in DOMAIN waitq |->
                 IF waitq[k].fiber = f THEN [waitq[k] EXCEPT !.linked = TRUE]
                 ELSE waitq[k]]
  /\ fib' = [fib EXCEPT ![f].pc = "next"]
  /\ UNCHANGED <<mgr, runq, from, lock_using, join_info>>

\* fiber_manager_wake_from_mpsc_queue, called with fib[f].count fibers to
\* wake; goes on at "woke".  An unlinked head makes trypop return NULL.
CanPop == waitq # <<>> /\ Head(waitq).linked

\* waking a fiber without giving it back its queue node
WokenNoNode(g) == [fib[g] EXCEPT !.state = IF @ = "WAITING" THEN "READY" ELSE @]

Woken(g) == [fib[g] EXCEPT !.node = TRUE, !.state = IF @ = "WAITING" THEN "READY" ELSE @]

WakeOne(m, f) ==
  LET g == Head(waitq).fiber IN
  /\ At(m, f, "wake")
  /\ CanPop
  /\ waitq' = Tail(waitq)
  /\ IF fib[g].node
     THEN fib' = Abort(f) /\ UNCHANGED runq
     ELSE /\ fib' = [fib EXCEPT ![g] = Woken(g),
                                ![f].count = IF @ > 0 THEN @ - 1 ELSE 0,
                                ![f].pc = IF fib[f].count > 1 THEN "wake" ELSE "woke"]
          /\ runq' = Schedule(m, g)
  /\ UNCHANGED <<mgr, from, lock_using, join_info>>

WakeNone(m, f) ==
  /\ At(m, f, "wake")
  /\ ~CanPop
  /\ fib' = IF fib[f].count > 0 THEN CallYield(f, "wake")
            ELSE [fib EXCEPT ![f].pc = "woke"]
  /\ UNCHANGED <<mgr, runq, from, lock_using, waitq, join_info>>

-----------------------------------------------------------------------------
\* The application clears the flag it finds in schedule_lock.h.  Nothing in
\* the library does so once the first yield has set it.
ClearLockStatus ==
  /\ lock_using = 1
  /\ lock_using' = 0
  /\ UNCHANGED <<fib, mgr, runq, from, waitq, join_info>>

\* One step of the runtime by manager m, except for a refused yield.
RuntimeStep(m) ==
  \/ \E f \in {mgr[m].cur} :
       \/ NextSwap(m, f)
       \/ NextSkip(m, f)
       \/ NextFound(m, f)
       \/ NextNone(m, f)
       \/ GateEnter(m, f)
       \/ GateBlocks(m, f)
       \/ GatePass(m, f)
       \/ YieldSwitch(m, f)
       \/ SwitchToMaintenance(m, f)
       \/ TryStealReturn(m, f)
       \/ TryStealBalance(m, f)
       \/ BalanceVisit(m, f)
       \/ BalanceReturn(m, f)
       \/ Maintenance(m, f)
  \/ ThreadFuncNext(m)
  \/ ThreadFuncSwitch(m)

Refuse(m) == \E f \in {mgr[m].cur} : GateRefuse(m, f)

WaitWakeStep(m) ==
  \E f \in Apps \cap {mgr[m].cur} :
    \/ WaitPush(m, f)
    \/ WaitLink(m, f)
    \/ WakeOne(m, f)
    \/ WakeNone(m, f)

-----------------------------------------------------------------------------
(* Properties of the runtime, whatever the client.                         *)

KTypeOK ==
  /\ \A f \in Fibers : /\ fib[f].state \in States
                       /\ fib[f].next \in Fibers \cup {Null}
                       /\ fib[f].count \in Nat
                       /\ fib[f].i \in 0 .. Visits
  /\ \A m \in Managers : /\ mgr[m].cur \in Fibers
                         /\ {mgr[m].old, mgr[m].done_fiber} \subseteq Fibers \cup {Null}
                         /\ mgr[m].to_schedule \in Apps \cup {Null}
                         /\ from[m] \in {2 * m, 2 * m + 1}
  /\ \A q \in DOMAIN runq : runq[q] \in Seq(Apps)
  /\ lock_using \in {-1, 0, 1}
  /\ \A k \in DOMAIN waitq : waitq[k].fiber \in Apps
  /\ join_info \in [Apps -> Apps \cup {Null}]

IsCurrent(f) == \E m \in Managers : mgr[m].cur = f

\* A fiber is executed by at most one thread, and what fiber_scheduler_next
\* hands out is executed by none: no context is resumed before it is saved.
OneThreadPerFiber ==
  /\ \A m, n \in Managers : mgr[m].cur = mgr[n].cur => m = n
  /\ \A f \in Fibers : fib[f].next # Null => ~IsCurrent(fib[f].next)

\* Where a fiber waits to be run ...
QueuePlaces(f) ==
  UNION {{<<"runq", q, k>> : k \in {i \in DOMAIN runq[q] : runq[q][i] = f}} : q \in DOMAIN runq}

RunPlaces(f) ==
  QueuePlaces(f)
  \cup {<<"next", g>> : g \in {h \in Fibers : fib[h].next = f}}
  \cup {<<"to_schedule", m>> : m \in {n \in Managers : mgr[n].to_schedule = f}}

\* ... and where it waits to be woken.
WaitPlaces(f) ==
  {<<"waitq", k>> : k \in {i \in DOMAIN waitq : waitq[i].fiber = f}}
  \cup {<<"join_info", g>> : g \in {h \in Apps : join_info[h] = f}}
  \cup {<<"set_wait", m>> : m \in {n \in Managers : mgr[n].set_wait_value = f}}

\* No fiber is lost or duplicated by the run queues, stealing, the waiter
\* queue, the wait locations and maintenance: one that no thread executes is
\* in exactly one place from which it will be run, woken or destroyed.
NoFiberLost ==
  \A f \in Apps :
    LET places == RunPlaces(f) \cup WaitPlaces(f) IN
    /\ \A p, q \in places : p = q
    /\ ~IsCurrent(f) => \/ places # {}
                        \/ fib[f].state = "freed"
                        \/ \E m \in Managers : mgr[m].done_fiber = f

=============================================================================
