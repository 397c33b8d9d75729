----------------------------- MODULE FiberSignal -----------------------------
(***************************************************************************)
(* fiber_signal_t of fiber_signal.h (and signal.hpp): one fiber waits, any *)
(* number raise.  A waiter is parked once fiber_manager_do_maintenance has *)
(* stored READY_TO_WAKE in its scratch word, after the context switch.     *)
(***************************************************************************)
EXTENDS ChannelFibers

VARIABLE waiter         \* NO_WAITER (Null), RAISED or the receiver

svars == <<waiter, scratch>>

SignalInit == waiter = Null /\ scratch = [r \in Receivers |-> Null]

-----------------------------------------------------------------------------
(* fiber_signal_wait; the caller goes on at `ret`                          *)

\* The scratch word is nobody else's until the swap succeeds.
WaitEnter ==
  /\ pc[Receiver] = "wait"
  /\ scratch' = [scratch EXCEPT ![Receiver] = Null]
  /\ IF waiter = Null
     THEN waiter' = Receiver /\ GoTo(Receiver, "saving")
     ELSE GoTo(Receiver, "reset") /\ UNCHANGED waiter

\* The context switch, and the set_wait_location of do_maintenance.
WaitSave ==
  /\ pc[Receiver] = "saving"
  /\ scratch' = [scratch EXCEPT ![Receiver] = "READY_TO_WAKE"]
  /\ GoTo(Receiver, "parked")
  /\ UNCHANGED waiter

\* Woken, or the signal was raised already.
WaitReset(ret) ==
  /\ pc[Receiver] \in {"woken", "reset"}
  /\ scratch' = [scratch EXCEPT ![Receiver] = Null]
  /\ waiter' = Null
  /\ GoTo(Receiver, ret)

-----------------------------------------------------------------------------
(* fiber_signal_raise; the caller goes on at `ret`                         *)

\* raising only if somebody waits
RaisedIfAwaited == IF waiter = Receiver THEN "RAISED" ELSE waiter

\* what the exchange leaves in the word
Raised == "RAISED"

Raise(f, ret) ==
  /\ pc[f] = "raise"
  /\ waiter' = Raised
  /\ GoTo(f, IF waiter = Receiver THEN "raisereset" ELSE ret)
  /\ UNCHANGED scratch

RaiseReset(f) ==
  /\ pc[f] = "raisereset"
  /\ waiter' = Null
  /\ GoTo(f, "raisewake")
  /\ UNCHANGED scratch

Saved == scratch[Receiver] = "READY_TO_WAKE"

\* The spin on the scratch word ends, and the waiter is scheduled.
RaiseWake(f, ret) ==
  /\ pc[f] = "raisewake"
  /\ Saved
  /\ pc' = [pc EXCEPT ![f] = ret, ![Receiver] = "woken"]
  /\ UNCHANGED svars

WaitStep(ret) == WaitEnter \/ WaitSave \/ WaitReset(ret)

RaiseStep(f, ret) == Raise(f, ret) \/ RaiseReset(f) \/ RaiseWake(f, ret)

-----------------------------------------------------------------------------
Raisers == {f \in Senders : pc[f] \in {"raisereset", "raisewake"}}

\* fiber_signal_raise wakes a fiber once per wait and only when its context
\* is saved, though it finds it in the word before that: at most one raiser
\* is about to schedule it; then it sleeps or is on its way to; and it runs
\* again only after this wait, not an earlier one, was marked READY_TO_WAKE.
SignalWakesOnce ==
  /\ \A f, g \in Raisers : f = g
  /\ Raisers # {} => pc[Receiver] \in {"saving", "parked"}
  /\ pc[Receiver] \in {"parked", "woken"} => scratch[Receiver] = "READY_TO_WAKE"

=============================================================================
