------------------------- MODULE LockfreeRingBuffer -------------------------
(***************************************************************************)
(* lockfree_ring_buffer.h: a bounded buffer that any thread may push to    *)
(* and pop from; fiber_bounded_channel_send is the same code as its push.  *)
(* A NULL slot means "not written yet", so a slot has three owners in      *)
(* turn: the pusher that moved `high` past it, nobody, and the popper that *)
(* moved `low` past it and has yet to clear it.  Each load, store and swap *)
(* is a step.                                                              *)
(***************************************************************************)
EXTENDS ChannelFibers

CONSTANT Size           \* of the buffer, a power of two

ASSUME RingAssumption == Size \in Nat \ {0, 1}

VARIABLES
  high, low, buffer,    \* lockfree_ring_buffer_t
  h, l, item            \* locals of a call, 0 and Null outside

rvars == <<high, low, buffer, h, l, item>>

Slot(i) == i % Size

RingInit ==
  /\ high = 0 /\ low = 0
  /\ buffer = [s \in 0 .. Size - 1 |-> Null]
  /\ h = [f \in Fibers |-> 0] /\ l = [f \in Fibers |-> 0]
  /\ item = [r \in Receivers |-> Null]

Forgets(f) == h' = [h EXCEPT ![f] = 0] /\ l' = [l EXCEPT ![f] = 0]

-----------------------------------------------------------------------------
(* lockfree_ring_buffer_push: trypush, from "push", until it succeeds      *)

PushLow(f) ==
  /\ pc[f] = "push" /\ sent[f] < MaxSends
  /\ l' = [l EXCEPT ![f] = low]
  /\ GoTo(f, "pushhigh")
  /\ UNCHANGED <<high, low, buffer, h, item, fvars>>

PushHigh(f) ==
  /\ pc[f] = "pushhigh"
  /\ h' = [h EXCEPT ![f] = high]
  /\ GoTo(f, "pushtest")
  /\ UNCHANGED <<high, low, buffer, l, item, fvars>>

\* testing that the slot is empty but not that the buffer has room, ...
RoomSlotOnly(f) == buffer[Slot(h[f])] = Null

\* ... and the other way round
RoomCountOnly(f) == h[f] - l[f] < Size

Room(f) == buffer[Slot(h[f])] = Null /\ h[f] - l[f] < Size

PushTest(f) ==
  /\ pc[f] = "pushtest"
  /\ IF Room(f)
     THEN GoTo(f, "pushcas") /\ UNCHANGED <<h, l>>
     ELSE GoTo(f, "push") /\ Forgets(f)
  /\ UNCHANGED <<high, low, buffer, item, fvars>>

PushCas(f) ==
  /\ pc[f] = "pushcas"
  /\ high = h[f]
  /\ high' = h[f] + 1
  /\ GoTo(f, "pushwrite")
  /\ UNCHANGED <<low, buffer, h, l, item, fvars>>

\* A weak swap may fail without cause.
PushCasFails(f) ==
  /\ pc[f] = "pushcas"
  /\ GoTo(f, "push") /\ Forgets(f)
  /\ UNCHANGED <<high, low, buffer, item, fvars>>

PushWrite(f, ret) ==
  /\ pc[f] = "pushwrite"
  /\ buffer' = [buffer EXCEPT ![Slot(h[f])] = Message(f)]
  /\ Sends(f)
  /\ GoTo(f, ret) /\ Forgets(f)
  /\ UNCHANGED <<high, low, item>>

PushStep(f, ret) ==
  PushLow(f) \/ PushHigh(f) \/ PushTest(f) \/ PushCas(f) \/ PushCasFails(f) \/ PushWrite(f, ret)

-----------------------------------------------------------------------------
(* lockfree_ring_buffer_pop: trypop, from "pop", until it succeeds         *)

PopHigh(r) ==
  /\ pc[r] = "pop" /\ left[r] > 0
  /\ h' = [h EXCEPT ![r] = high]
  /\ GoTo(r, "poplow")
  /\ UNCHANGED <<high, low, buffer, l, item, fvars>>

PopLow(r) ==
  /\ pc[r] = "poplow"
  /\ l' = [l EXCEPT ![r] = low]
  /\ GoTo(r, "popread")
  /\ UNCHANGED <<high, low, buffer, h, item, fvars>>

Filled(r) == buffer[Slot(l[r])] # Null /\ h[r] > l[r]

PopRead(r) ==
  /\ pc[r] = "popread"
  /\ IF Filled(r)
     THEN GoTo(r, "popcas") /\ item' = [item EXCEPT ![r] = buffer[Slot(l[r])]] /\ UNCHANGED <<h, l>>
     ELSE GoTo(r, "pop") /\ Forgets(r) /\ UNCHANGED item
  /\ UNCHANGED <<high, low, buffer, fvars>>

PopCas(r) ==
  /\ pc[r] = "popcas"
  /\ low = l[r]
  /\ low' = l[r] + 1
  /\ Takes(r, item[r])
  /\ item' = [item EXCEPT ![r] = Null]
  /\ GoTo(r, "popclear")
  /\ UNCHANGED <<high, buffer, h, l>>

PopCasFails(r) ==
  /\ pc[r] = "popcas"
  /\ GoTo(r, "pop") /\ Forgets(r)
  /\ item' = [item EXCEPT ![r] = Null]
  /\ UNCHANGED <<high, low, buffer, fvars>>

PopClear(r) ==
  /\ pc[r] = "popclear"
  /\ buffer' = [buffer EXCEPT ![Slot(l[r])] = Null]
  /\ GoTo(r, "pop") /\ Forgets(r)
  /\ UNCHANGED <<high, low, item, fvars>>

PopStep(r) ==
  PopHigh(r) \/ PopLow(r) \/ PopRead(r) \/ PopCas(r) \/ PopCasFails(r) \/ PopClear(r)

-----------------------------------------------------------------------------
\* The slots a fiber has claimed and is about to store to.
Owns(f) == CASE pc[f] = "pushwrite" -> {Slot(h[f])}
             [] pc[f] = "popclear" -> {Slot(l[f])}
             [] OTHER -> {}

\* The buffer never holds more than its size, although trypush decides with
\* an old value of `low`, and a slot has one owner at a time: two fibers that
\* are about to store to slots store to different ones, and a claimed slot
\* holds nobody else's message, so no store destroys one.
SlotsHaveOneOwner ==
  /\ high - low <= Size
  /\ \A f, g \in Fibers : Owns(f) \cap Owns(g) # {} => f = g
  /\ \A f \in Senders : \A s \in Owns(f) : buffer[s] = Null

=============================================================================
