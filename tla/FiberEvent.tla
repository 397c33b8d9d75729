----------------------------- MODULE FiberEvent -----------------------------
(***************************************************************************)
(* The event loop, fiber_poll_events_internal of fiber_event_native.c: one *)
(* epoll_wait reports descriptors and the timer, and the thread handles    *)
(* what was reported one after the other.  The load, chosen at the start,  *)
(* says who runs:                                                          *)
(*   io      readers, writers, acceptors and closers of a descriptor, on   *)
(*           as many threads as poll                                       *)
(*   connect connectors, readers and closers, on as many threads           *)
(*   sleep   fibers that sleep, on one thread                              *)
(*   both    readers and some of the sleepers, on one thread               *)
(* A thread polls when fiber_scheduler_next gave it nothing to run, in     *)
(* fiber_manager_thread_func, and runs no fiber while it polls.            *)
(***************************************************************************)
EXTENDS FiberIo, FiberSleep

CONSTANTS Thread,       \* the poller where there is one thread
          LightSleepers \* those that sleep under the load "both"

ASSUME EventAssumption == Thread \in Pollers /\ LightSleepers \subseteq Sleepers

VARIABLE load

vars == <<load, iovars, tvars>>

Init == load \in {"io", "connect", "sleep", "both"} /\ IoInit /\ SleepInit

OneThread == load \in {"sleep", "both"}

Callers ==
  CASE load = "io"      -> Fibers \ Connectors
    [] load = "connect" -> Connectors \cup Readers \cup Closers
    [] load = "both"    -> Readers
    [] load = "sleep"   -> {}

Threads == IF OneThread THEN {Thread} ELSE Pollers

\* There is a thread to run fibers besides these.
ThreadBesides(S) == (OneThread /\ Parallel) \/ Threads \ S # {}

RunsFibers == ThreadBesides(idle)

\* Fibers inside calls that could go on.
Runnable ==
  {f \in Fibers : ~Idle(f) /\ pc[f] # "parked"}
  \cup {f \in Sleepers : state[f] \in {"enter", "ready"}}

-----------------------------------------------------------------------------
(* fiber_manager_thread_func                                               *)

\* Fibers that could run are in the queues of other threads.
NothingToRun(p) == Runnable # {} => ThreadBesides(idle \cup {p})

GoesIdle(p) ==
  /\ p \in Threads \ idle
  /\ NothingToRun(p)
  /\ idle' = idle \cup {p}
  /\ UNCHANGED <<load, kernel, info, flags, got, pc, tvars>>

\* epoll_wait reports nothing more, be it after the timeout of the second
\* call.
PollReturns(p) ==
  /\ p \in idle /\ got[p] = {}
  /\ ~(Reportable /\ NothingToRun(p))
  /\ idle' = idle \ {p}
  /\ UNCHANGED <<kernel, info, flags, got, pc>>

-----------------------------------------------------------------------------
StartStep(f) ==
  /\ f \in Callers
  /\ RunsFibers
  /\ Starts(f)
  /\ UNCHANGED <<load, tvars>>

ContinueStep(f) == RunsFibers /\ Continue(f) /\ UNCHANGED <<load, tvars>>

KernelStep == load # "sleep" /\ Arrives /\ UNCHANGED <<load, tvars>>

SleeperStep(f) ==
  /\ load = "sleep" \/ (load = "both" /\ f \in LightSleepers)
  /\ RunsFibers
  /\ SleepStep(f)
  /\ UNCHANGED <<load, iovars>>

\* A descriptor is handled before or after the timer, but not during it.
DescriptorStep(p) ==
  /\ OneThread => (p = Thread /\ at = "poll")
  /\ (NothingToRun(p) /\ Poll(p)) \/ PollHandle(p) \/ PollReturns(p)
  /\ UNCHANGED <<load, tvars>>

\* With the timer handled, and no descriptor left, the thread returns.
TimedStep ==
  /\ OneThread /\ Thread \in idle
  /\ TimerStep
  /\ idle' = IF at' = "poll" /\ got[Thread] = {} THEN {} ELSE idle
  /\ UNCHANGED <<load, kernel, info, flags, got, pc>>

Next ==
  \/ KernelStep
  \/ \E f \in Fibers : StartStep(f) \/ ContinueStep(f)
  \/ \E p \in Pollers : GoesIdle(p) \/ DescriptorStep(p)
  \/ \E f \in Sleepers : SleeperStep(f)
  \/ TimedStep

Spec == Init /\ [][Next]_vars

\* A thread that polls goes on and handles what is reported.  Whether a
\* thread ever has nothing to run is up to the fibers.
FairSpec ==
  /\ Spec
  /\ \A p \in Pollers : WF_vars(DescriptorStep(p))
  /\ WF_vars(at # "poll" /\ TimedStep)

=============================================================================
