---------------------------- MODULE FiberBarrier ----------------------------
(***************************************************************************)
(* fiber_barrier.c on top of the fiber runtime.  Module FiberProgram says  *)
(* when fibers call it.  barrier->waiters is the runtime's waitq: no       *)
(* program uses the mutex and the barrier together.                        *)
(***************************************************************************)
EXTENDS FiberManager

VARIABLES arrivals,     \* barrier->counter
          parties       \* the fibers that use the barrier, barrier->count of them

bvars == <<arrivals, parties>>

BarrierInit(users) == arrivals = 0 /\ parties = users

Count == Cardinality(parties)

-----------------------------------------------------------------------------
\* completing a round one fiber early
CompletesEarly == arrivals' % Count = Count - 1

Completes == arrivals' % Count = 0

\* fiber_barrier_wait: the increment; the fiber that completes a round wakes
\* the others, who wait in the queue.
Arrive(m, f) ==
  /\ At(m, f, "run")
  /\ arrivals' = arrivals + 1
  /\ fib' = [fib EXCEPT ![f].pc = IF Completes THEN "wake" ELSE "wait",
                        ![f].ret = IF Completes THEN "none" ELSE "left",
                        ![f].count = IF Completes THEN Count - 1 ELSE 0]
  /\ OnlyFib /\ UNCHANGED parties

\* It returns 0 to a fiber that was woken, and FIBER_BARRIER_SERIAL_FIBER to
\* the one that woke them.
Leave(m, f) ==
  /\ At(m, f, "left") \/ At(m, f, "woke")
  /\ Goes(f, "run")
  /\ OnlyFib /\ UNCHANGED bvars

-----------------------------------------------------------------------------
\* f has called fiber_barrier_wait and not returned.
AtBarrier(f) == {fib[f].pc, fib[f].ret, fib[f].after} \cap {"left", "wake", "woke"} # {}

=============================================================================
