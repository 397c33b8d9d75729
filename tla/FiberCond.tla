------------------------------ MODULE FiberCond ------------------------------
(***************************************************************************)
(* fiber_cond.c.  The caller's mutex and cond->internal_mutex are taken at *)
(* their contract (FiberMutex.tla).  A waiter queues itself; its thread    *)
(* gives up the caller's mutex in the maintenance after the switch, so the *)
(* waiter may be woken before the mutex is unlocked for it.                *)
(***************************************************************************)
EXTENDS BlockedFibers

CONSTANT Nobody

ASSUME CondAssumption == IsFiniteSet(Fibers) /\ Nobody \notin Fibers

VARIABLES
  waiter_count, internal_mutex,         \* of fiber_cond_t
  mutex,                \* holder of the caller's mutex
  to_unlock,            \* a thread still has to unlock it (mutex_to_unlock)
  count,                \* of each fiber: how many it still has to wake
  present,              \* of each fiber: who waited when it took its count
  failed                \* an assert has failed

cond == <<waiter_count, waiters, internal_mutex>>
vars == <<cond, mutex, to_unlock, pc, count, present, failed>>

Init ==
  /\ waiter_count = 0 /\ waiters = <<>> /\ internal_mutex = Nobody
  /\ mutex = Nobody /\ to_unlock = FALSE
  /\ pc = [f \in Fibers |-> "run"]
  /\ count = [f \in Fibers |-> 0]
  /\ present = [f \in Fibers |-> {}] /\ failed = FALSE

\* Counted and not yet popped.
Sleepers == {f \in Fibers : pc[f] \in {"push", "link", "parked"}}

-----------------------------------------------------------------------------
(* The caller's mutex: f holds it in its own right.                        *)

Holds(f) == mutex = f /\ ~to_unlock

Lock(f) ==
  /\ pc[f] \in {"run", "relock"}
  /\ mutex = Nobody
  /\ mutex' = f
  /\ GoTo(f, "run")
  /\ UNCHANGED <<cond, to_unlock, count, present, failed>>

Unlock(f) ==
  /\ pc[f] = "run" /\ Holds(f)
  /\ mutex' = Nobody
  /\ UNCHANGED <<cond, to_unlock, pc, count, present, failed>>

(* fiber_cond_wait                                                         *)

\* giving the mutex up before the node is queued
WaitCountUnlocks(f) ==
  /\ pc[f] = "run" /\ Holds(f)
  /\ waiter_count' = waiter_count + 1
  /\ mutex' = Nobody
  /\ GoTo(f, "push")
  /\ UNCHANGED <<waiters, internal_mutex, to_unlock, count, present, failed>>

WaitCount(f) ==
  /\ pc[f] = "run" /\ Holds(f)
  /\ waiter_count' = waiter_count + 1
  /\ GoTo(f, "push")
  /\ UNCHANGED <<waiters, internal_mutex, mutex, to_unlock, count, present, failed>>

WaitPush(f) ==
  /\ pc[f] = "push"
  /\ waiters' = Pushed(waiters, f)
  /\ GoTo(f, "link")
  /\ UNCHANGED <<waiter_count, internal_mutex, mutex, to_unlock, count, present, failed>>

WaitLink(f) ==
  /\ pc[f] = "link"
  /\ waiters' = Linked(waiters, f)
  /\ to_unlock' = TRUE
  /\ GoTo(f, "parked")
  /\ UNCHANGED <<waiter_count, internal_mutex, mutex, count, present, failed>>

\* mutex_to_unlock in fiber_manager_do_maintenance
WaitUnlock ==
  /\ to_unlock
  /\ to_unlock' = FALSE
  /\ mutex' = Nobody
  /\ UNCHANGED <<cond, pc, count, present, failed>>

-----------------------------------------------------------------------------
(* fiber_cond_signal and fiber_cond_broadcast                              *)

InternalFree == internal_mutex = Nobody

\* f may hold the caller's mutex or not.
Enter(f) ==
  /\ pc[f] = "run"
  /\ InternalFree
  /\ internal_mutex' = f
  /\ \E place \in {"signal", "broadcast"} : GoTo(f, place)
  /\ UNCHANGED <<waiter_count, waiters, mutex, to_unlock, count, present, failed>>

\* Go on to wake n fibers.
Owes(f, n, otherwise) ==
  /\ count' = [count EXCEPT ![f] = n]
  /\ present' = [present EXCEPT ![f] = Sleepers]
  /\ GoTo(f, IF n > 0 THEN "wake" ELSE otherwise)

SignalSub(f) ==
  /\ pc[f] = "signal"
  /\ waiter_count' = waiter_count - 1
  /\ Owes(f, IF waiter_count' >= 0 THEN 1 ELSE 0, "add")
  /\ UNCHANGED <<waiters, internal_mutex, mutex, to_unlock, failed>>

\* leaving the count as it is when there was nobody to wake
RestoredNot == waiter_count

Restored == waiter_count + 1

SignalAdd(f) ==
  /\ pc[f] = "add"
  /\ waiter_count' = Restored
  /\ failed' = (failed \/ waiter_count' < 0)
  /\ GoTo(f, "leave")
  /\ UNCHANGED <<waiters, internal_mutex, mutex, to_unlock, count, present>>

\* counting a waiter too many
OriginalMore == IF waiter_count = 0 THEN 0 ELSE waiter_count + 1

Original == waiter_count

BroadcastExchange(f) ==
  /\ pc[f] = "broadcast"
  /\ waiter_count' = 0
  /\ Owes(f, Original, "leave")
  /\ UNCHANGED <<waiters, internal_mutex, mutex, to_unlock, failed>>

\* One iteration of fiber_manager_wake_from_mpsc_queue that finds a fiber.
Wake(f) ==
  LET g == Head(waiters).fiber IN
  /\ pc[f] = "wake"
  /\ CanPop(waiters)
  /\ waiters' = Rest(waiters)
  /\ count' = [count EXCEPT ![f] = @ - 1]
  /\ pc' = [pc EXCEPT ![g] = "relock", ![f] = IF count[f] = 1 THEN "leave" ELSE "wake"]
  /\ UNCHANGED <<waiter_count, internal_mutex, mutex, to_unlock, present, failed>>

Leave(f) ==
  /\ pc[f] = "leave"
  /\ internal_mutex' = Nobody
  /\ present' = [present EXCEPT ![f] = {}]
  /\ GoTo(f, "run")
  /\ UNCHANGED <<waiter_count, waiters, mutex, to_unlock, count, failed>>

-----------------------------------------------------------------------------
\* Steps that nothing but the scheduler can delay.
Proceed(f) ==
  \/ WaitPush(f) \/ WaitLink(f)
  \/ SignalSub(f) \/ SignalAdd(f) \/ BroadcastExchange(f) \/ Wake(f) \/ Leave(f)

Next ==
  \/ \E f \in Fibers : Lock(f) \/ Unlock(f) \/ WaitCount(f) \/ Enter(f) \/ Proceed(f)
  \/ WaitUnlock

Spec == Init /\ [][Next]_vars

\* A fiber inside wait, signal or broadcast goes on, and so does its thread.
FairSpec == Spec /\ WF_vars(WaitUnlock) /\ \A f \in Fibers : WF_vars(Proceed(f))

-----------------------------------------------------------------------------
\* Every variable has its type; the count is below zero only for the moment
\* in which fiber_cond_signal finds nobody.
TypeOK ==
  /\ waiter_count \in -1 .. Cardinality(Fibers)
  /\ waiters \in Seq([fiber : Fibers, linked : BOOLEAN])
  /\ {internal_mutex, mutex} \subseteq Fibers \cup {Nobody}
  /\ to_unlock \in BOOLEAN
  /\ pc \in [Fibers -> {"run", "push", "link", "parked", "relock", "signal", "add",
                        "broadcast", "wake", "leave"}]
  /\ count \in [Fibers -> 0 .. Cardinality(Fibers)]
  /\ waiter_count = -1 => \E f \in Fibers : pc[f] = "add"

\* A signal or broadcast wakes only fibers that were waiting when it took
\* its count: no later waiter overtakes them and steals the wakeup.
NoStolenWakeup ==
  [][\A f, g \in Fibers : Wake(f) /\ pc[g] = "parked" /\ pc'[g] = "relock"
                          => g \in present[f]]_vars

\* assert(new_val >= 0) in fiber_cond_signal holds, and waiter_count and what
\* the holder of internal_mutex still has to wake add up to the fibers that
\* wait; only that holder pops waiters.
CountInv ==
  LET owed == IF internal_mutex = Nobody THEN 0 ELSE count[internal_mutex] IN
  /\ TypeOK /\ ~failed
  /\ \A f \in Fibers : pc[f] = "wake" => internal_mutex = f
  /\ (\A f \in Fibers : pc[f] # "add") => waiter_count + owed = Cardinality(Sleepers)

\* signal and broadcast return: whoever they still have to wake is queued
\* in the end.
CallsReturn == \A f \in Fibers : internal_mutex = f ~> internal_mutex # f
=============================================================================
