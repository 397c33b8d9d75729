---------------------------- MODULE FiberChannel ----------------------------
(***************************************************************************)
(* The channels of fiber_channel.h, fiber_multi_channel.h and channel.hpp, *)
(* and the bare ring buffer, with fibers that send and receive through     *)
(* them.  The setup, chosen at the start, says which channel it is:        *)
(*   ring       lockfree_ring_buffer.h, many receivers                     *)
(*   bounded    fiber_bounded_channel_t, one receiver                      *)
(*   unbounded  one fiber_unbounded_channel_t, or one channel per sender   *)
(*              behind a ChannelSelector, one receiver                     *)
(*   single     the same with fiber_unbounded_sp_channel_t                 *)
(*   multi      fiber_multi_channel_t, many receivers                      *)
(*   raise      no channel: the senders raise a fiber_multi_signal_t, the  *)
(*              receiver waits for it once                                 *)
(*   strict     the same with raise_strict and many receivers, who wait as *)
(*              often as is raised                                         *)
(*   relaxed    mpsc_relaxed_fifo.h, one receiver                          *)
(*   work       work_queue.c: the senders and one receiver push work and   *)
(*              do it themselves                                           *)
(* and, for channels with one receiver, whether it was made with a signal. *)
(***************************************************************************)
EXTENDS FiberSignal, FiberMultiSignal, LockfreeRingBuffer, WorkQueue

VARIABLES
  setup,
  queue,                \* the mpsc_fifo_t or spsc_fifo_t of each channel
  scan,                 \* the channel the receiver tries next
  waiters               \* fiber_multi_channel_t: its list, top first

cvars == <<queue, scan, waiters>>
vars == <<setup, pc, fvars, svars, msvars, rvars, wvars, cvars>>

Setups ==
  [kind : {"ring", "multi", "raise", "strict", "work"}, ready_signal : {FALSE}, channels : {1}]
  \cup [kind : {"bounded"}, ready_signal : BOOLEAN, channels : {1}]
  \cup [kind : {"unbounded"}, ready_signal : BOOLEAN, channels : {1, Cardinality(Senders)}]
  \cup [kind : {"single"}, ready_signal : BOOLEAN, channels : {Cardinality(Senders)}]
  \cup [kind : {"relaxed"}, ready_signal : {FALSE}, channels : {Cardinality(Senders)}]

\* The channel sender f sends to.
Dest == CHOOSE d \in [Senders -> 1 .. setup.channels] :
          \A c \in 1 .. setup.channels : \E f \in Senders : d[f] = c

Total == Cardinality(Senders) * MaxSends

ASSUME ShareAssumption == Total % Cardinality(Receivers) = 0

\* All that is sent is received, in equal shares where many may receive.
Share(r) ==
  IF setup.kind \in {"ring", "multi", "strict"} THEN Total \div Cardinality(Receivers)
  ELSE IF r # Receiver \/ setup.kind = "work" THEN 0
  ELSE IF setup.kind = "raise" THEN 1 ELSE Total

SendPlace == CASE setup.kind \in {"multi", "work"} -> setup.kind
               [] setup.kind = "unbounded" -> "queue"
               [] setup.kind \in {"single", "relaxed"} -> "publish"
               [] setup.kind \in {"raise", "strict"} -> "mraise"
               [] OTHER -> "push"

ReceivePlace == CASE setup.kind \in {"multi", "work"} -> setup.kind
                  [] setup.kind = "ring" -> "pop"
                  [] setup.kind = "bounded" -> "receive"
                  [] setup.kind = "relaxed" -> "robin"
                  [] setup.kind \in {"raise", "strict"} -> "mwait"
                  [] OTHER -> "scan"

Init ==
  /\ setup \in Setups
  /\ SignalInit /\ MultiSignalInit /\ RingInit /\ WorkInit
  /\ queue = [c \in 1 .. setup.channels |-> <<>>] /\ scan = 1
  /\ waiters = <<>>
  /\ sent = [f \in Fibers |-> 0] /\ received = [f \in Fibers |-> 0]
  /\ left = [r \in Receivers |-> Share(r)]
  /\ pc = [f \in Fibers |-> IF f \in Senders THEN SendPlace ELSE ReceivePlace]

-----------------------------------------------------------------------------
(* The end of a send: raise the signal if there is one, and go on.         *)

AfterSend == IF setup.ready_signal THEN "raise" ELSE SendPlace

SendRaise(f) == RaiseStep(f, SendPlace) /\ UNCHANGED <<setup, fvars, msvars, rvars, wvars, cvars>>

(* The receiver found nothing: wait for the signal if there is one.        *)

AfterMiss == IF setup.ready_signal THEN "wait" ELSE ReceivePlace

ReceiveWait == WaitStep(ReceivePlace) /\ UNCHANGED <<setup, fvars, msvars, rvars, wvars, cvars>>

-----------------------------------------------------------------------------
(* fiber_bounded_channel_send is lockfree_ring_buffer_push and a raise.    *)

SendBounded(f) == PushStep(f, AfterSend) /\ UNCHANGED <<setup, svars, msvars, wvars, cvars>>

(* fiber_bounded_channel_receive; try_receive is the same without waiting. *)

ReceiveHigh ==
  /\ pc[Receiver] = "receive" /\ left[Receiver] > 0
  /\ h' = [h EXCEPT ![Receiver] = high]
  /\ GoTo(Receiver, "receiveread")
  /\ UNCHANGED <<setup, fvars, svars, msvars, high, low, buffer, l, item, wvars, cvars>>

\* low, and a slot that is not NULL, are the receiver's own.
ReceiveRead ==
  LET message == buffer[Slot(low)] IN
  /\ pc[Receiver] = "receiveread"
  /\ IF message # Null /\ h[Receiver] > low
     THEN /\ buffer' = [buffer EXCEPT ![Slot(low)] = Null]
          /\ Takes(Receiver, message)
          /\ GoTo(Receiver, "receivelow")
     ELSE GoTo(Receiver, AfterMiss) /\ UNCHANGED <<fvars, buffer>>
  /\ h' = [h EXCEPT ![Receiver] = 0]
  /\ UNCHANGED <<setup, svars, msvars, high, low, l, item, wvars, cvars>>

ReceiveLow ==
  /\ pc[Receiver] = "receivelow"
  /\ low' = low + 1
  /\ GoTo(Receiver, "receive")
  /\ UNCHANGED <<setup, fvars, svars, msvars, high, buffer, h, l, item, wvars, cvars>>

-----------------------------------------------------------------------------
(* fiber_unbounded_channel_send: the two stores of mpsc_fifo_push, and a   *)
(* raise.                                                                  *)

SendPush(f) ==
  /\ pc[f] = "queue" /\ sent[f] < MaxSends
  /\ queue' = [queue EXCEPT ![Dest[f]] = Pushed(@, Message(f))]
  /\ GoTo(f, "link")
  /\ Sends(f)
  /\ UNCHANGED <<setup, svars, msvars, rvars, wvars, scan, waiters>>

SendLink(f) ==
  /\ pc[f] = "link"
  /\ queue' = [queue EXCEPT ![Dest[f]] = Linked(@, [from |-> f, n |-> sent[f]])]
  /\ GoTo(f, AfterSend)
  /\ UNCHANGED <<setup, fvars, svars, msvars, rvars, wvars, scan, waiters>>

(* fiber_unbounded_sp_channel_send and mpscr_fifo_push: one store of       *)
(* spsc_fifo_push publishes the message, with no other sender to wait for. *)

SendSingle(f) ==
  /\ pc[f] = "publish" /\ sent[f] < MaxSends
  /\ queue' = [queue EXCEPT ![Dest[f]] = Linked(Pushed(@, Message(f)), Message(f))]
  /\ GoTo(f, AfterSend)
  /\ Sends(f)
  /\ UNCHANGED <<setup, svars, msvars, rvars, wvars, scan, waiters>>

(* ChannelSelector::receive: try the channels in order, and when all are   *)
(* empty wait and start over.  On one channel it is                        *)
(* fiber_unbounded_channel_receive.                                        *)

LastTried == scan = setup.channels

ReceiveScan ==
  /\ pc[Receiver] = "scan" /\ left[Receiver] > 0
  /\ IF CanPop(queue[scan])
     THEN /\ queue' = [queue EXCEPT ![scan] = Rest(@)]
          /\ Takes(Receiver, Head(queue[scan]).fiber)
          /\ scan' = 1 /\ UNCHANGED pc
     ELSE /\ IF LastTried THEN scan' = 1 /\ GoTo(Receiver, AfterMiss)
             ELSE scan' = scan + 1 /\ UNCHANGED pc
          /\ UNCHANGED <<queue, fvars>>
  /\ UNCHANGED <<setup, svars, msvars, rvars, wvars, waiters>>

(* mpscr_fifo_trypop, called until it finds something: every try moves the *)
(* counter on, so that the next call starts at another sender's fifo.      *)

Robin == IF LastTried THEN 1 ELSE scan + 1

ReceiveRobin ==
  /\ pc[Receiver] = "robin" /\ left[Receiver] > 0
  /\ scan' = Robin
  /\ IF CanPop(queue[scan])
     THEN /\ queue' = [queue EXCEPT ![scan] = Rest(@)]
          /\ Takes(Receiver, Head(queue[scan]).fiber)
     ELSE UNCHANGED <<queue, fvars>>
  /\ UNCHANGED <<setup, pc, svars, msvars, rvars, wvars, waiters>>

-----------------------------------------------------------------------------
(* fiber_multi_channel.h.  Everything happens under channel->lock, which a *)
(* waiting fiber gives up after its context is saved (mutex_to_unlock), so *)
(* a round of the loop is one step (FiberMutex.tla).  Senders and          *)
(* receivers wait in one list.                                             *)

InternalWait(f) ==
  /\ waiters' = <<f>> \o waiters
  /\ GoTo(f, "asleep")

InternalWake ==
  IF waiters = <<>> THEN UNCHANGED <<waiters, pc>>
  ELSE waiters' = Tail(waiters) /\ GoTo(Head(waiters), "multi")

MultiSend(f) ==
  /\ pc[f] = "multi" /\ sent[f] < MaxSends
  /\ IF high - low < Size
     THEN /\ buffer' = [buffer EXCEPT ![Slot(high)] = Message(f)]
          /\ high' = high + 1
          /\ Sends(f)
          /\ InternalWake
     ELSE InternalWait(f) /\ UNCHANGED <<buffer, high, fvars>>
  /\ UNCHANGED <<setup, svars, msvars, low, h, l, item, wvars, queue, scan>>

MultiReceive(r) ==
  /\ pc[r] = "multi" /\ left[r] > 0
  /\ IF high > low
     THEN /\ Takes(r, buffer[Slot(low)])
          /\ buffer' = [buffer EXCEPT ![Slot(low)] = Null]
          /\ low' = low + 1
          /\ InternalWake
     ELSE InternalWait(r) /\ UNCHANGED <<buffer, low, fvars>>
  /\ UNCHANGED <<setup, svars, msvars, high, h, l, item, wvars, queue, scan>>

-----------------------------------------------------------------------------
RaiseMulti(f) == MRaiseStep(f, setup.kind = "strict") /\ UNCHANGED <<setup, waiter, rvars, wvars, cvars>>

WaitMulti(r) == MWaitStep(r) /\ UNCHANGED <<setup, waiter, rvars, wvars, cvars>>

WorkOn(f) == WorkStep(f) /\ UNCHANGED <<setup, svars, msvars, rvars, cvars>>

SenderStep(f) ==
  \/ WorkOn(f) \/ SendBounded(f) \/ SendPush(f) \/ SendLink(f) \/ SendSingle(f) \/ SendRaise(f)
  \/ MultiSend(f) \/ RaiseMulti(f)

ReceivePop(r) == PopStep(r) /\ UNCHANGED <<setup, svars, msvars, wvars, cvars>>

ReceiverStep(r) ==
  \/ ReceivePop(r) \/ MultiReceive(r) \/ WaitMulti(r)
  \/ r = Receiver /\ (ReceiveHigh \/ ReceiveRead \/ ReceiveLow \/ ReceiveScan \/ ReceiveRobin
                        \/ ReceiveWait \/ WorkOn(r))

Next == (\E f \in Senders : SenderStep(f)) \/ (\E r \in Receivers : ReceiverStep(r))

Spec == Init /\ [][Next]_vars

\* Every fiber keeps running, and a weak swap that could succeed again and
\* again does so at last.
FairSpec ==
  /\ Spec
  /\ \A f \in Senders :
       WF_vars(SenderStep(f)) /\ SF_vars(PushCas(f) /\ UNCHANGED <<setup, svars, msvars, wvars, cvars>>)
  /\ \A r \in Receivers :
       WF_vars(ReceiverStep(r)) /\ SF_vars(PopCas(r) /\ UNCHANGED <<setup, svars, msvars, wvars, cvars>>)

-----------------------------------------------------------------------------
\* A raiser wakes a fiber once per wait, and only when its context is saved.
WokenOnce == SignalWakesOnce /\ MultiSignalWakesOnce

\* Each sender's messages are received in the order it sent them, none twice
\* and none left out, whoever receives them and through whichever channel.
InOrder ==
  [][\A f \in Fibers : received'[f] \in {received[f], received[f] + 1}
                       /\ received'[f] <= sent'[f]]_vars

\* A sender and a receiver wait in the list of a multi channel together.
Mixed == \E f \in Senders, r \in Receivers : pc[f] = "asleep" /\ pc[r] = "asleep"

\* Every send and every receive returns: nobody sleeps beside a message or
\* beside room for one, and no wake-up is lost.  The multi channel promises
\* it only as long as its list holds senders alone or receivers alone: a
\* wake-up that was meant for the other side is lost.
AllReceived ==
  []~Mixed =>
  <>(/\ \A f \in Senders : sent[f] = MaxSends
     /\ \A r \in Receivers : left[r] = 0
     /\ setup.kind = "work" => \A f \in Senders \cup {Receiver} : received[f] = MaxSends)

=============================================================================
