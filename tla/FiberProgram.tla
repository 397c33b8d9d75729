---------------------------- MODULE FiberProgram ----------------------------
(***************************************************************************)
(* Programs of fibers that lock a mutex, meet at a barrier, yield, finish, *)
(* and join or detach one another: the runtime, fiber.c, fiber_mutex.c and *)
(* fiber_barrier.c put together.                                           *)
(***************************************************************************)
EXTENDS FiberMutex, FiberBarrier, FiberJoin

vars == <<kvars, mvars, bvars, jvars>>

\* The calls of fiber_barrier_wait that f still has to make or return from.
RoundsLeft(f) == Len(SelectSeq(todo[f], LAMBDA c : c[1] = "barrier"))

Init ==
  /\ KInit /\ MutexInit /\ JoinInit
  /\ BarrierInit({f \in Apps : \E k \in DOMAIN todo[f] : todo[f][k][1] = "barrier"})

\* The call of the mutex or barrier that f is making returns.
Returns(f) == taken' = taken /\ Return(f) /\ UNCHANGED <<detach_state, result>>

\* A program that does not get the mutex by trylock goes on to lock it.
TryLockFails(m, f) ==
  /\ todo' = [todo EXCEPT ![f] = <<<<"lock", Null>>>> \o Tail(@)]
  /\ UNCHANGED <<kvars, mvars, detach_state, result, taken>>

MutexStep(m) ==
  \E f \in Apps \cap {mgr[m].cur} :
    \/ Calls(m, f, "run", "lock") /\ Lock(m, f) /\ UNCHANGED jvars
    \/ Calls(m, f, "run", "trylock") /\ TryLock(m, f) /\ UNCHANGED jvars
    \/ Calls(m, f, "run", "trylock") /\ TryLockFails(m, f)
    \/ LockReturns(m, f) /\ Returns(f)
    \/ /\ Calls(m, f, "run", "unlock")
       /\ Unlock(m, f)
       /\ IF fib'[f].pc = "run" THEN Returns(f) ELSE UNCHANGED jvars
    \/ Calls(m, f, "woke", "unlock") /\ UnlockYields(m, f) /\ Returns(f)

BarrierStep(m) ==
  \E f \in Apps \cap {mgr[m].cur} :
    \/ Calls(m, f, "run", "barrier") /\ Arrive(m, f) /\ UNCHANGED jvars
    \/ /\ Calls(m, f, "left", "barrier") \/ Calls(m, f, "woke", "barrier")
       /\ Leave(m, f) /\ Returns(f)

ManagerStep(m) ==
  /\ ~Aborted /\ ~Crashed
  /\ \/ MutexStep(m) /\ UNCHANGED bvars
     \/ BarrierStep(m) /\ UNCHANGED mvars
     \/ JoinStep(m) /\ UNCHANGED <<mvars, bvars>>
     \/ (RuntimeStep(m) \/ WaitWakeStep(m)) /\ UNCHANGED <<mvars, bvars, jvars>>

RefuseStep(m) == ~Aborted /\ ~Crashed /\ Refuse(m) /\ UNCHANGED <<mvars, bvars, jvars>>

ClearStep == ~Crashed /\ ClearLockStatus /\ UNCHANGED <<mvars, bvars, jvars>>

\* The library as it is, started by an application that never touches
\* lock_using.
Next == \E m \in Managers : ManagerStep(m) \/ RefuseStep(m)

Spec == Init /\ [][Next]_vars

\* The same, with an application that clears lock_using before a yield
\* would be refused on its account.
Unrefused == ClearStep \/ \E m \in Managers : ManagerStep(m)

UnrefusedSpec == Init /\ [][Unrefused]_vars

\* Every thread keeps executing, and lock_using is cleared whenever a yield
\* needs it.
FairSpec ==
  /\ UnrefusedSpec
  /\ \A m \in Managers : WF_vars(ManagerStep(m))
  /\ \A m \in Managers, f \in Fibers :
       SF_vars(GatePass(m, f) /\ UNCHANGED <<mvars, bvars, jvars>>)
  /\ WF_vars(ClearStep)

-----------------------------------------------------------------------------
\* Every variable of the runtime, of the mutex and of fiber.c has its type.
TypeOK == KTypeOK /\ MutexTypeOK /\ JoinTypeOK

\* No assertion of the runtime fails: waits start RUNNING and with a queue
\* node, a woken fiber has no node, to_schedule is READY, only a DONE fiber is
\* destroyed, and a finished fiber never runs past its last yield.  The one
\* exception is a wait for the lock of the gate, which ends the program and
\* takes two threads.
NoAborts == ~Aborted /\ (NumThreads = 1 => ~Crashed)

\* The same, with values that have their types.
NoAssertFails == TypeOK /\ NoAborts

\* A fiber's k-th fiber_barrier_wait does not return before every party has
\* called it for the k-th time: where three fibers meet once, or two fibers
\* any number of times, so that nobody enters the queue for the next round
\* while others of this round are still being woken.
NobodyLeavesEarly ==
  \A f, g \in parties :
    RoundsLeft(g) <= RoundsLeft(f) + IF AtBarrier(g) THEN 1 ELSE 0

=============================================================================
