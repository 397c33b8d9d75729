----------------------------- MODULE FiberMutex -----------------------------
(***************************************************************************)
(* The operations of fiber_mutex.c on top of the fiber runtime.  Module    *)
(* FiberProgram says when fibers call them.                                *)
(***************************************************************************)
EXTENDS FiberManager

VARIABLES counter,      \* mutex->counter
          inside        \* fibers between lock's return and unlock's call

mvars == <<counter, inside>>

MutexInit == counter = 1 /\ inside = {}

-----------------------------------------------------------------------------
\* waiting only from the second contender on
AcquiredOffByOne(c) == c >= -1

Acquired(c) == c = 0

\* fiber_mutex_lock: the decrement; a contender waits in the queue and owns
\* the mutex when it is woken.
Lock(m, f) ==
  /\ At(m, f, "run")
  /\ counter' = counter - 1
  /\ fib' = [fib EXCEPT ![f].pc = IF Acquired(counter') THEN "locked" ELSE "wait",
                        ![f].ret = IF Acquired(counter') THEN "none" ELSE "locked"]
  /\ OnlyFib /\ UNCHANGED inside

Available == counter = 1

\* fiber_mutex_trylock where the compare-and-swap succeeds; a failure
\* changes nothing.
TryLock(m, f) ==
  /\ At(m, f, "run")
  /\ Available
  /\ counter' = 0
  /\ Goes(f, "locked")
  /\ OnlyFib /\ UNCHANGED inside

LockReturns(m, f) ==
  /\ At(m, f, "locked")
  /\ inside' = inside \cup {f}
  /\ Goes(f, "run")
  /\ OnlyFib /\ UNCHANGED counter

\* forgetting the last waiter
ContendedLate(c) == c < 0

\* waking whether somebody waits or not
ContendedAlways(c) == TRUE

Contended(c) == c # 1

\* fiber_mutex_unlock_internal: the increment; if others hold a claim, one
\* of them is woken.
Unlock(m, f) ==
  /\ At(m, f, "run") /\ f \in inside
  /\ counter' = counter + 1
  /\ inside' = inside \ {f}
  /\ fib' = [fib EXCEPT ![f].pc = IF Contended(counter') THEN "wake" ELSE "run",
                        ![f].count = IF Contended(counter') THEN 1 ELSE 0]
  /\ OnlyFib

\* fiber_mutex_unlock yields after a contended unlock.
UnlockYields(m, f) ==
  /\ At(m, f, "woke")
  /\ fib' = CallYield(f, "run")
  /\ OnlyFib /\ UNCHANGED mvars

-----------------------------------------------------------------------------
MutexTypeOK ==
  /\ counter \in -Cardinality(Apps) .. 1
  /\ inside \subseteq Apps

\* fiber_mutex_lock admits one fiber at a time, however fibers yield inside
\* the section and whichever threads they run on.
MutualExclusion == \A f, g \in inside : f = g

Waking(f) == "wake" \in {fib[f].pc, fib[f].ret, fib[f].after}

\* mutex->waiters is a queue with a single consumer although every fiber
\* calls unlock: never are two fibers inside wake_from_mpsc_queue.
SingleConsumer == \A f, g \in Apps : Waking(f) /\ Waking(g) => f = g

=============================================================================
