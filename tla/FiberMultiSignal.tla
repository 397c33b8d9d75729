-------------------------- MODULE FiberMultiSignal --------------------------
(***************************************************************************)
(* fiber_multi_signal_t of fiber_signal.h: a word that is RAISED or holds  *)
(* a stack of waiting fibers, beside a counter, both changed by a double   *)
(* word swap.  Any number of fibers wait and raise.                        *)
(***************************************************************************)
EXTENDS ChannelFibers

VARIABLES
  head,                 \* fiber_multi_signal_t
  current,              \* fibers that have read the present value of its counter
  next,                 \* the next field of each receiver's mpsc_fifo_node
  snap,                 \* the head each call has read, and its next
  to_wake               \* the fiber each raiser has taken off the stack

msvars == <<head, current, next, snap, to_wake>>

Blank == [head |-> Null, next |-> Null]

MultiSignalInit ==
  /\ head = Null /\ current = {}
  /\ next = [r \in Receivers |-> Null]
  /\ snap = [f \in Fibers |-> Blank]
  /\ to_wake = [f \in Senders |-> Null]

\* The counter is read first.  It changes with every swap and is compared
\* for equality only, so it is enough to know who has read its present value.
ReadCounter(f, from, to) ==
  /\ pc[f] = from
  /\ current' = current \cup {f}
  /\ GoTo(f, to)
  /\ UNCHANGED <<head, next, snap, to_wake>>

\* comparing the pointer but not the counter
UnchangedPointer(f) == head = snap[f].head

\* compare_and_swap2 finds what the snapshot holds.
Unchanged(f) == f \in current /\ head = snap[f].head

Swaps(f, new) ==
  /\ Unchanged(f)
  /\ head' = new
  /\ current' = {}
  /\ snap' = [snap EXCEPT ![f] = Blank]

SwapFails(f, from, to) ==
  /\ pc[f] = from
  /\ ~Unchanged(f)
  /\ snap' = [snap EXCEPT ![f] = Blank]
  /\ current' = current \ {f}
  /\ GoTo(f, to)
  /\ UNCHANGED <<head, next, to_wake, scratch, fvars>>

-----------------------------------------------------------------------------
(* fiber_multi_signal_wait, from "mwait"                                   *)

\* The scratch word is nobody else's until the swap succeeds.
MWaitCounter(r) ==
  /\ left[r] > 0
  /\ ReadCounter(r, "mwait", "mwaithead")
  /\ scratch' = [scratch EXCEPT ![r] = Null]
  /\ UNCHANGED fvars

MWaitHead(r) ==
  /\ pc[r] = "mwaithead"
  /\ snap' = [snap EXCEPT ![r].head = head]
  /\ next' = IF head = "RAISED" THEN next ELSE [next EXCEPT ![r] = head]
  /\ GoTo(r, "mwaitswap")
  /\ UNCHANGED <<head, current, to_wake, scratch, fvars>>

\* The signal is raised: accept it.
MWaitAccept(r) ==
  /\ pc[r] = "mwaitswap" /\ snap[r].head = "RAISED"
  /\ Swaps(r, Null)
  /\ left' = [left EXCEPT ![r] = @ - 1]
  /\ GoTo(r, "mwait")
  /\ UNCHANGED <<next, to_wake, scratch, sent, received>>

MWaitPush(r) ==
  /\ pc[r] = "mwaitswap" /\ snap[r].head # "RAISED"
  /\ Swaps(r, r)
  /\ GoTo(r, "msaving")
  /\ UNCHANGED <<next, to_wake, scratch, fvars>>

\* The context switch, and the set_wait_location of do_maintenance.
MWaitSave(r) ==
  /\ pc[r] = "msaving"
  /\ scratch' = [scratch EXCEPT ![r] = "READY_TO_WAKE"]
  /\ GoTo(r, "mparked")
  /\ UNCHANGED <<msvars, fvars>>

MWaitReturns(r) ==
  /\ pc[r] = "mwoken"
  /\ scratch' = [scratch EXCEPT ![r] = Null]
  /\ left' = [left EXCEPT ![r] = @ - 1]
  /\ GoTo(r, "mwait")
  /\ UNCHANGED <<msvars, sent, received>>

MWaitStep(r) ==
  \/ MWaitCounter(r) \/ MWaitHead(r) \/ MWaitAccept(r) \/ MWaitPush(r)
  \/ SwapFails(r, "mwaitswap", "mwait") \/ MWaitSave(r) \/ MWaitReturns(r)

-----------------------------------------------------------------------------
(* fiber_multi_signal_raise, and with `strict` .._raise_strict, from       *)
(* "mraise"                                                                *)

MRaiseCounter(f) ==
  /\ sent[f] < MaxSends
  /\ ReadCounter(f, "mraise", "mraisehead")
  /\ UNCHANGED <<scratch, fvars>>

Sleeper(w) == w \notin {Null, "RAISED"}

MRaiseHead(f, strict) ==
  /\ pc[f] = "mraisehead"
  /\ Sleeper(head) \/ ~strict
  /\ snap' = [snap EXCEPT ![f].head = head]
  /\ GoTo(f, IF Sleeper(head) THEN "mraisenext" ELSE "mraiseswap")
  /\ UNCHANGED <<head, current, next, to_wake, scratch, fvars>>

\* Without a waiter raise_strict tries again.
MRaiseAgain(f, strict) ==
  /\ pc[f] = "mraisehead"
  /\ strict /\ ~Sleeper(head)
  /\ current' = current \ {f}
  /\ GoTo(f, "mraise")
  /\ UNCHANGED <<head, next, snap, to_wake, scratch, fvars>>

\* The head may have been woken by now, and its node be in use again.
MRaiseNext(f) ==
  /\ pc[f] = "mraisenext"
  /\ snap' = [snap EXCEPT ![f].next = next[snap[f].head]]
  /\ GoTo(f, "mraiseswap")
  /\ UNCHANGED <<head, current, next, to_wake, scratch, fvars>>

MRaiseSet(f) ==
  /\ pc[f] = "mraiseswap" /\ ~Sleeper(snap[f].head)
  /\ Swaps(f, "RAISED")
  /\ Sends(f)
  /\ GoTo(f, "mraise")
  /\ UNCHANGED <<next, to_wake, scratch>>

MRaisePop(f) ==
  /\ pc[f] = "mraiseswap" /\ Sleeper(snap[f].head)
  /\ Swaps(f, snap[f].next)
  /\ to_wake' = [to_wake EXCEPT ![f] = snap[f].head]
  /\ GoTo(f, "mraisewake")
  /\ UNCHANGED <<next, scratch, fvars>>

\* leaving out the spin on the scratch word
ReadyToWakeAlways(r) == TRUE

ReadyToWake(r) == scratch[r] = "READY_TO_WAKE"

\* The spin on the scratch word ends, and the waiter is scheduled.
MRaiseWake(f) ==
  /\ pc[f] = "mraisewake"
  /\ ReadyToWake(to_wake[f])
  /\ pc' = [pc EXCEPT ![f] = "mraise", ![to_wake[f]] = "mwoken"]
  /\ to_wake' = [to_wake EXCEPT ![f] = Null]
  /\ Sends(f)
  /\ UNCHANGED <<head, current, next, snap, scratch>>

MRaiseStep(f, strict) ==
  \/ MRaiseCounter(f) \/ MRaiseHead(f, strict) \/ MRaiseAgain(f, strict) \/ MRaiseNext(f)
  \/ MRaiseSet(f) \/ MRaisePop(f) \/ MRaiseWake(f)
  \/ SwapFails(f, "mraiseswap", "mraise")

-----------------------------------------------------------------------------
\* A fiber taken off the stack is about to be scheduled by one raiser only,
\* sleeps or is on its way to sleep, and is not on the stack any more; and it
\* is scheduled after do_maintenance has stored READY_TO_WAKE, which it does
\* once the context is saved.
MultiSignalWakesOnce ==
  /\ \A f \in Senders : to_wake[f] # Null =>
       /\ \A g \in Senders : to_wake[g] = to_wake[f] => g = f
       /\ pc[to_wake[f]] \in {"msaving", "mparked"}
       /\ head # to_wake[f]
  /\ \A r \in Receivers : pc[r] \in {"mparked", "mwoken"} => scratch[r] = "READY_TO_WAKE"

=============================================================================
