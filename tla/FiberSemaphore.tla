--------------------------- MODULE FiberSemaphore ---------------------------
(***************************************************************************)
(* fiber_semaphore.c: the counter goes below zero by the number of fibers  *)
(* that wait; a post that finds it negative wakes a waiter first and       *)
(* counts it afterwards.  The waiter queue is an mpmc_fifo_t (MpmcFifo.tla)*)
(* into which a fiber is pushed, by fiber_manager_do_maintenance, once its *)
(* context is saved.  Fibers use the semaphore to share `Value` units.     *)
(***************************************************************************)
EXTENDS BlockedFibers

CONSTANT Value          \* the argument of fiber_semaphore_init

ASSUME SemaphoreAssumption == IsFiniteSet(Fibers) /\ Value \in Nat

VARIABLES
  counter,              \* of fiber_semaphore_t
  seen                  \* the local counter or prev_counter

semaphore == <<counter, waiters, pc, seen>>

SemInit ==
  /\ counter = Value /\ waiters = <<>>
  /\ pc = [f \in Fibers |-> "run"]
  /\ seen = [f \in Fibers |-> 0]

-----------------------------------------------------------------------------
\* letting one fiber too many in
GrantedOffByOne(c) == c >= -1

Granted(c) == c >= 0

\* fiber_semaphore_wait up to the decrement
Wait(f) ==
  /\ pc[f] = "run"
  /\ counter' = counter - 1
  /\ GoTo(f, IF Granted(counter') THEN "has" ELSE "push")
  /\ UNCHANGED <<waiters, seen>>

\* mpmc_fifo_push takes its place in the queue ...
SemPush(f) ==
  /\ pc[f] = "push"
  /\ waiters' = Pushed(waiters, f)
  /\ GoTo(f, "link")
  /\ UNCHANGED <<counter, seen>>

\* ... and can be popped.
SemLink(f) ==
  /\ pc[f] = "link"
  /\ waiters' = Linked(waiters, f)
  /\ GoTo(f, "parked")
  /\ UNCHANGED <<counter, seen>>

\* storing without comparing
UnchangedAssumed(f) == TRUE

Unchanged(f) == counter = seen[f]

\* fiber_semaphore_trywait: the load, and the weak swap, which may fail
\* without cause.
TryWaitLoad(f) ==
  /\ pc[f] = "run"
  /\ counter > 0
  /\ seen' = [seen EXCEPT ![f] = counter]
  /\ GoTo(f, "trycas")
  /\ UNCHANGED <<counter, waiters>>

TryWaitCas(f) ==
  /\ pc[f] = "trycas"
  /\ \/ Unchanged(f) /\ counter' = seen[f] - 1 /\ GoTo(f, "has")
     \/ GoTo(f, "run") /\ UNCHANGED counter
  /\ seen' = [seen EXCEPT ![f] = 0]
  /\ UNCHANGED waiters

-----------------------------------------------------------------------------
(* fiber_semaphore_post_internal                                           *)

PostLoad(f) ==
  /\ pc[f] \in {"has", "post"}
  /\ IF counter < 0
     THEN GoTo(f, "pop") /\ seen' = [seen EXCEPT ![f] = 0]
     ELSE GoTo(f, "cas") /\ seen' = [seen EXCEPT ![f] = counter]
  /\ UNCHANGED <<counter, waiters>>

\* fiber_manager_wake_from_mpmc_queue(..., 0): one attempt
PostPop(f) ==
  /\ pc[f] = "pop"
  /\ IF CanPop(waiters)
     THEN /\ waiters' = Rest(waiters)
          /\ pc' = [pc EXCEPT ![f] = "add", ![Head(waiters).fiber] = "has"]
     ELSE GoTo(f, "post") /\ UNCHANGED waiters
  /\ UNCHANGED <<counter, seen>>

\* waking a waiter without counting it
CountedNot == counter

Counted == counter + 1

PostAdd(f) ==
  /\ pc[f] = "add"
  /\ counter' = Counted
  /\ GoTo(f, "run")
  /\ UNCHANGED <<waiters, seen>>

PostCas(f) ==
  /\ pc[f] = "cas"
  /\ \/ Unchanged(f) /\ counter' = seen[f] + 1 /\ GoTo(f, "run")
     \/ ~Unchanged(f) /\ GoTo(f, "post") /\ UNCHANGED counter
  /\ seen' = [seen EXCEPT ![f] = 0]
  /\ UNCHANGED waiters

\* ... or the weak swap fails without cause.
PostCasFails(f) ==
  /\ pc[f] = "cas"
  /\ GoTo(f, "post")
  /\ seen' = [seen EXCEPT ![f] = 0]
  /\ UNCHANGED <<counter, waiters>>

Continue(f) ==
  \/ SemPush(f) \/ SemLink(f)
  \/ PostLoad(f) \/ PostPop(f) \/ PostAdd(f) \/ PostCas(f)

SemNext ==
  \E f \in Fibers :
    \/ Wait(f) \/ TryWaitLoad(f) \/ TryWaitCas(f) \/ PostCasFails(f)
    \/ Continue(f)

SemSpec == SemInit /\ [][SemNext]_semaphore

\* A fiber that waits finishes its push, one that has a unit posts it, and
\* swaps do not fail without cause for ever.
SemFairSpec ==
  /\ SemSpec
  /\ \A f \in Fibers : WF_semaphore(Continue(f)) /\ SF_semaphore(PostCas(f))

-----------------------------------------------------------------------------
In(places) == {f \in Fibers : pc[f] \in places}

\* Fibers that have a unit: wait has returned to them, or is about to, and
\* their post has not passed the unit on.
Holders == In({"has", "post", "pop", "cas"})

\* The counter, the queue and the locals have their types.
SemTypeOK ==
  /\ counter \in Value - Cardinality(Fibers) .. Value
  /\ waiters \in Seq([fiber : Fibers, linked : BOOLEAN])
  /\ pc \in [Fibers -> {"run", "push", "link", "parked", "trycas", "has", "post", "pop",
                        "add", "cas"}]
  /\ seen \in [Fibers -> Int]

\* No more fibers are past fiber_semaphore_wait than the semaphore has units.
WithinValue == Cardinality(Holders) <= Value

\* The counter is the number of units minus all fibers that are between the
\* decrement of their wait and the increment of their post, so that
\* fiber_semaphore_getvalue and the sign tests of post and trywait mean what
\* they say even while a waiter has been woken but not counted.
CounterInv == counter = Value - Cardinality(Fibers \ In({"run", "trycas"}))

\* A fiber that waits is given a unit.
WaitIsGranted == \A f \in Fibers : pc[f] = "push" ~> pc[f] = "has"

=============================================================================
