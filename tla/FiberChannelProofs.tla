------------------------- MODULE FiberChannelProofs -------------------------
(***************************************************************************)
(* Theorems about what the channels are made of, the signals, the ring     *)
(* buffer and the work queue, for every number of fibers and of messages   *)
(* or items and every size of the buffer.                                  *)
(***************************************************************************)
EXTENDS FiberChannel, TLAPS

(***************************************************************************)
(* Where the fibers of each kind of channel can be.  The proofs about the  *)
(* parts of a channel use this to rule out the steps of the other parts.   *)
(***************************************************************************)

PushPlaces == {"push", "pushhigh", "pushtest", "pushcas", "pushwrite"}
PopPlaces == {"pop", "poplow", "popread", "popcas", "popclear"}
ReceivePlaces == {"receive", "receiveread", "receivelow"}
SignalPlaces == {"raise", "raisereset", "raisewake", "wait", "saving", "parked", "woken", "reset"}
MultiSignalPlaces ==
  {"mraise", "mraisehead", "mraisenext", "mraiseswap", "mraisewake",
   "mwait", "mwaithead", "mwaitswap", "msaving", "mparked", "mwoken"}
WorkPlaces == {"work", "workpush", "worklink", "getwork", "compare", "reset_out", "subtract"}

Kinds == {"ring", "bounded", "unbounded", "single", "multi", "raise", "strict", "relaxed", "work"}

Allowed(kind) ==
  CASE kind = "ring"      -> PushPlaces \cup PopPlaces
    [] kind = "bounded"   -> PushPlaces \cup ReceivePlaces \cup SignalPlaces
    [] kind = "unbounded" -> {"queue", "link", "scan"} \cup SignalPlaces
    [] kind = "single"    -> {"publish", "scan"} \cup SignalPlaces
    [] kind = "relaxed"   -> {"publish", "robin"}
    [] kind = "multi"     -> {"multi", "asleep"}
    [] kind = "work"      -> WorkPlaces
    [] OTHER              -> MultiSignalPlaces

(* The kind is one of those of Setups, only some kinds have a signal, and  *)
(* every fiber is in the code of that kind.                                *)
PlacesInv ==
  /\ setup.kind \in Kinds
  /\ setup.ready_signal \in BOOLEAN
  /\ setup.ready_signal => setup.kind \in {"bounded", "unbounded", "single"}
  /\ pc \in [Fibers -> Allowed(setup.kind)]

-----------------------------------------------------------------------------
(* The places calls start from are places of the kind.                     *)
LEMMA Starts ==
  ASSUME PlacesInv
  PROVE  /\ SendPlace \in Allowed(setup.kind) /\ ReceivePlace \in Allowed(setup.kind)
         /\ AfterSend \in Allowed(setup.kind) /\ AfterMiss \in Allowed(setup.kind)
<1>. USE DEF PlacesInv, Kinds, PushPlaces, PopPlaces, ReceivePlaces, SignalPlaces,
             MultiSignalPlaces, WorkPlaces
<1>1. SendPlace \in Allowed(setup.kind)
  BY Zenon DEF SendPlace, Allowed
<1>2. ReceivePlace \in Allowed(setup.kind)
  BY Zenon DEF ReceivePlace, Allowed
<1>3. setup.ready_signal => {"raise", "wait"} \subseteq Allowed(setup.kind)
  BY Zenon DEF Allowed
<1>. QED
  BY <1>1, <1>2, <1>3, Zenon DEF AfterSend, AfterMiss

(* The setups of the channels.                                             *)
LEMMA PlacesInit == Init => PlacesInv
<1>. SUFFICES ASSUME Init PROVE PlacesInv
  BY Zenon
<1>1. /\ setup.kind \in Kinds
      /\ setup.ready_signal \in BOOLEAN
      /\ setup.ready_signal => setup.kind \in {"bounded", "unbounded", "single"}
  BY Zenon DEF Init, Setups, Kinds
<1>2. SendPlace \in Allowed(setup.kind)
  BY <1>1, Zenon DEF SendPlace, Allowed, Kinds, PushPlaces, MultiSignalPlaces, WorkPlaces
<1>3. ReceivePlace \in Allowed(setup.kind)
  BY <1>1, Zenon DEF ReceivePlace, Allowed, Kinds, PopPlaces, ReceivePlaces, MultiSignalPlaces, WorkPlaces
<1>. QED
  BY <1>1, <1>2, <1>3, Zenon DEF Init, PlacesInv

(* The place of one fiber tells the kind, and so where the others may go.  *)
LEMMA Families ==
  ASSUME PlacesInv, NEW f \in Fibers
  PROVE  /\ pc[f] \in PushPlaces => PushPlaces \subseteq Allowed(setup.kind)
         /\ pc[f] \in PopPlaces => PopPlaces \subseteq Allowed(setup.kind)
         /\ pc[f] \in ReceivePlaces => ReceivePlaces \subseteq Allowed(setup.kind)
         /\ pc[f] \in SignalPlaces => SignalPlaces \subseteq Allowed(setup.kind)
         /\ pc[f] \in MultiSignalPlaces => MultiSignalPlaces \subseteq Allowed(setup.kind)
         /\ pc[f] \in WorkPlaces => WorkPlaces \subseteq Allowed(setup.kind)
         /\ pc[f] \in {"queue", "link"} => {"queue", "link"} \subseteq Allowed(setup.kind)
         /\ pc[f] \in {"multi", "asleep"} => {"multi", "asleep"} \subseteq Allowed(setup.kind)
<1>1. pc[f] \in Allowed(setup.kind) /\ setup.kind \in Kinds
  BY Zenon DEF PlacesInv
<1>. QED
  BY <1>1 DEF Allowed, Kinds, PushPlaces, PopPlaces, ReceivePlaces, SignalPlaces,
              MultiSignalPlaces, WorkPlaces

(* A step that moves one fiber to a place of the kind.                     *)
LEMMA PlacesMove ==
  ASSUME PlacesInv, NEW f, NEW p \in Allowed(setup.kind), pc' = [pc EXCEPT ![f] = p],
         UNCHANGED setup
  PROVE  PlacesInv'
BY Zenon DEF PlacesInv

(* Every step stays in the code of the kind.                               *)
LEMMA PlacesStep ==
  ASSUME PlacesInv, [Next]_vars
  PROVE  PlacesInv'
<1>. USE DEF GoTo
<1>1. CASE UNCHANGED vars
  BY <1>1, Zenon DEF vars, PlacesInv
<1>2. ASSUME NEW f \in Fibers, SendBounded(f) PROVE PlacesInv'
  <2>. DEFINE P == PushPlaces \cup {AfterSend}
  <2>1. P \subseteq Allowed(setup.kind) /\ UNCHANGED setup
    BY <1>2, Families, Starts, Zenon DEF SendBounded, PushStep, PushPlaces, PushLow, PushHigh, PushTest,
       PushCas, PushCasFails, PushWrite
  <2>2. ASSUME NEW p \in P, pc' = [pc EXCEPT ![f] = p] PROVE PlacesInv'
    BY <2>1, <2>2, PlacesMove, Zenon
  <2>. QED
    BY <1>2, <2>2, Zenon DEF SendBounded, PushStep, PushPlaces, PushLow, PushHigh, PushTest,
       PushCas, PushCasFails, PushWrite
<1>3. ASSUME NEW f \in Fibers, ReceivePop(f) PROVE PlacesInv'
  <2>1. PopPlaces \subseteq Allowed(setup.kind) /\ UNCHANGED setup
    BY <1>3, Families, Zenon DEF ReceivePop, PopStep, PopPlaces, PopHigh, PopLow, PopRead, PopCas,
       PopCasFails, PopClear
  <2>2. ASSUME NEW p \in PopPlaces, pc' = [pc EXCEPT ![f] = p] PROVE PlacesInv'
    BY <2>1, <2>2, PlacesMove, Zenon
  <2>. QED
    BY <1>3, <2>2, Zenon DEF ReceivePop, PopStep, PopPlaces, PopHigh, PopLow, PopRead, PopCas,
       PopCasFails, PopClear
<1>4. ASSUME NEW f \in Fibers, WorkOn(f) PROVE PlacesInv'
  <2>1. WorkPlaces \subseteq Allowed(setup.kind) /\ UNCHANGED setup
    BY <1>4, Families, Zenon DEF WorkOn, WorkStep, WorkPlaces, WorkCount, WorkPush, WorkLink, WorkTake,
       WorkNone, WorkCompare, WorkReset, WorkSubtract
  <2>2. ASSUME NEW p \in WorkPlaces, pc' = [pc EXCEPT ![f] = p] PROVE PlacesInv'
    BY <2>1, <2>2, PlacesMove, Zenon
  <2>3. CASE UNCHANGED pc
    BY <2>1, <2>3, Zenon DEF PlacesInv
  <2>. QED
    BY <1>4, <2>2, <2>3, Zenon DEF WorkOn, WorkStep, WorkPlaces, WorkCount, WorkPush, WorkLink, WorkTake,
       WorkNone, WorkCompare, WorkReset, WorkSubtract
<1>5. ASSUME NEW f \in Fibers, SendPush(f) \/ SendLink(f) \/ SendSingle(f) PROVE PlacesInv'
  <2>1. CASE SendPush(f)
    <3>1. "link" \in Allowed(setup.kind)
      BY <2>1, Families, Zenon DEF SendPush
    <3>. QED
      BY <2>1, <3>1, PlacesMove, Zenon DEF SendPush
  <2>2. CASE SendLink(f) \/ SendSingle(f)
    BY <2>2, Starts, PlacesMove, Zenon DEF SendLink, SendSingle
  <2>. QED
    BY <1>5, <2>1, <2>2, Zenon
<1>6. CASE ReceiveHigh \/ ReceiveRead \/ ReceiveLow
  <2>1. /\ ReceivePlaces \cup {AfterMiss} \subseteq Allowed(setup.kind)
        /\ UNCHANGED setup
    BY <1>6, Families, Starts, FibersAssumption, Zenon
       DEF Fibers, ReceivePlaces, ReceiveHigh, ReceiveRead, ReceiveLow
  <2>2. ASSUME NEW p \in ReceivePlaces \cup {AfterMiss}, pc' = [pc EXCEPT ![Receiver] = p]
        PROVE  PlacesInv'
    BY <2>1, <2>2, PlacesMove, Zenon
  <2>. QED
    BY <1>6, <2>2, Zenon DEF ReceivePlaces, ReceiveHigh, ReceiveRead, ReceiveLow
<1>7. CASE ReceiveScan \/ ReceiveRobin
  <2>1. CASE UNCHANGED pc
    BY <1>7, <2>1, Zenon DEF PlacesInv, ReceiveScan, ReceiveRobin
  <2>2. CASE pc' = [pc EXCEPT ![Receiver] = AfterMiss]
    BY <1>7, <2>2, Starts, PlacesMove, Zenon DEF ReceiveScan, ReceiveRobin
  <2>. QED
    BY <1>7, <2>1, <2>2, Zenon DEF ReceiveScan, ReceiveRobin
<1>8. CASE ReceiveWait
  <2>1. SignalPlaces \cup {ReceivePlace} \subseteq Allowed(setup.kind) /\ UNCHANGED setup
    BY <1>8, Families, Starts, FibersAssumption, Zenon
       DEF Fibers, ReceiveWait, WaitStep, WaitEnter, WaitSave, WaitReset, SignalPlaces
  <2>2. ASSUME NEW p \in SignalPlaces \cup {ReceivePlace}, pc' = [pc EXCEPT ![Receiver] = p]
        PROVE  PlacesInv'
    BY <2>1, <2>2, PlacesMove, Zenon
  <2>. QED
    BY <1>8, <2>2, Zenon DEF ReceiveWait, WaitStep, WaitEnter, WaitSave, WaitReset, SignalPlaces
<1>9. ASSUME NEW f \in Fibers, SendRaise(f) PROVE PlacesInv'
  <2>1. SignalPlaces \cup {SendPlace} \subseteq Allowed(setup.kind) /\ UNCHANGED setup
    BY <1>9, Families, Starts, Zenon DEF SendRaise, RaiseStep, Raise, RaiseReset, RaiseWake, SignalPlaces
  <2>2. ASSUME NEW p \in SignalPlaces \cup {SendPlace}, pc' = [pc EXCEPT ![f] = p]
        PROVE  PlacesInv'
    BY <2>1, <2>2, PlacesMove, Zenon
  <2>3. CASE RaiseWake(f, SendPlace)
    BY <2>1, <2>3, Zenon DEF RaiseWake, PlacesInv, SignalPlaces
  <2>. QED
    BY <1>9, <2>2, <2>3, Zenon DEF SendRaise, RaiseStep, Raise, RaiseReset, SignalPlaces
<1>10. ASSUME NEW f \in Fibers, MultiSend(f) \/ MultiReceive(f) PROVE PlacesInv'
  <2>1. {"multi", "asleep"} \subseteq Allowed(setup.kind) /\ UNCHANGED setup
    BY <1>10, Families, Zenon DEF MultiSend, MultiReceive
  <2>2. ASSUME NEW g, NEW p \in {"multi", "asleep"}, pc' = [pc EXCEPT ![g] = p] PROVE PlacesInv'
    BY <2>1, <2>2, PlacesMove, Zenon
  <2>3. CASE UNCHANGED pc
    BY <2>1, <2>3, Zenon DEF PlacesInv
  <2>. QED
    BY <1>10, <2>2, <2>3, Zenon DEF MultiSend, MultiReceive, InternalWait, InternalWake
<1>11. ASSUME NEW f \in Fibers, WaitMulti(f) \/ RaiseMulti(f) PROVE PlacesInv'
  <2>. USE DEF WaitMulti, MWaitStep, MWaitCounter, MWaitHead, MWaitAccept, MWaitPush, MWaitSave,
               MWaitReturns, RaiseMulti, MRaiseStep, MRaiseCounter, MRaiseHead, MRaiseAgain,
               MRaiseNext, MRaiseSet, MRaisePop, ReadCounter, SwapFails, MultiSignalPlaces
  <2>1. MultiSignalPlaces \subseteq Allowed(setup.kind) /\ UNCHANGED setup
    BY <1>11, Families, Zenon DEF MRaiseWake
  <2>2. ASSUME NEW p \in MultiSignalPlaces, pc' = [pc EXCEPT ![f] = p] PROVE PlacesInv'
    BY <2>1, <2>2, PlacesMove, Zenon
  <2>3. CASE MRaiseWake(f)
    BY <2>1, <2>3, Zenon DEF MRaiseWake, PlacesInv
  <2>. QED
    BY <1>11, <2>2, <2>3, Zenon
<1>. QED
  BY <1>1, <1>2, <1>3, <1>4, <1>5, <1>6, <1>7, <1>8, <1>9, <1>10, <1>11, FibersAssumption, Zenon
     DEF Next, SenderStep, ReceiverStep, Fibers

(* PlacesInv holds throughout.                                             *)
THEOREM PlacesAreKept == Spec => []PlacesInv
<1>. QED
  BY PlacesInit, PlacesStep, PTL DEF Spec

-----------------------------------------------------------------------------
(***************************************************************************)
(* A signal and a multi-signal wake a fiber once per wait, and only when   *)
(* its context is saved: for every number of fibers.                       *)
(***************************************************************************)

(* As long as the receiver is in the word, it waits and nobody has         *)
(* claimed it.                                                             *)
SignalInv ==
  /\ scratch \in [Receivers -> {Null, "READY_TO_WAKE"}]
  /\ waiter = Receiver => pc[Receiver] \in {"saving", "parked"} /\ Raisers = {}
  /\ SignalWakesOnce

-----------------------------------------------------------------------------
(* Receivers that wait and that no raiser has taken.                       *)
Stacked ==
  {r \in Receivers : pc[r] \in {"msaving", "mparked"} /\ \A f \in Senders : to_wake[f] # r}

MultiTypes ==
  /\ next \in [Receivers -> Receivers \cup {Null}]
  /\ snap \in [Fibers -> [head : Receivers \cup {Null, "RAISED"}, next : Receivers \cup {Null}]]
  /\ to_wake \in [Senders -> Receivers \cup {Null}]

(* The pointers of the stack stay in the stack, and no fiber is pointed to *)
(* twice, the head being a pointer, too.                                   *)
StackInv ==
  /\ head \in Stacked \cup {Null, "RAISED"}
  /\ \A r \in Stacked : /\ next[r] \in Stacked \cup {Null}
                        /\ next[r] = head => head = Null
  /\ \A r, s \in Stacked : next[r] = next[s] /\ next[r] # Null => r = s

(* What a call has read is what its swap would find, as long as the        *)
(* counter has not changed.                                                *)
SnapInv ==
  /\ \A r \in Receivers :
       pc[r] = "mwaitswap" /\ snap[r].head # "RAISED" => next[r] = snap[r].head
  /\ \A f \in Senders :
       /\ pc[f] \in {"mraisenext", "mraiseswap"} /\ f \in current => snap[f].head = head
       /\ pc[f] = "mraisenext" => Sleeper(snap[f].head)
       /\ pc[f] = "mraiseswap" /\ f \in current /\ Sleeper(snap[f].head)
            => snap[f].next = next[snap[f].head]

(* A fiber that was taken off is being suspended, by one raiser only.      *)
TakenInv ==
  /\ \A f \in Senders : pc[f] # "mraisewake" => to_wake[f] = Null
  /\ \A f \in Senders : to_wake[f] # Null => pc[to_wake[f]] \in {"msaving", "mparked"}
  /\ \A f, g \in Senders : to_wake[f] = to_wake[g] /\ to_wake[f] # Null => f = g

MultiInv == MultiTypes /\ StackInv /\ SnapInv /\ TakenInv

(* The scratch word of a fiber that sleeps or was woken says so.           *)
SavedInv == \A r \in Receivers : pc[r] \in {"mparked", "mwoken"} => scratch[r] = "READY_TO_WAKE"

WaitInv == PlacesInv /\ SignalInv /\ MultiInv /\ SavedInv

-----------------------------------------------------------------------------
(* The invariant is strong enough.                                         *)
LEMMA WaitInvEnough == WaitInv => WokenOnce
<1>. SUFFICES ASSUME WaitInv PROVE MultiSignalWakesOnce
  BY Zenon DEF WaitInv, SignalInv, WokenOnce
<1>. SUFFICES ASSUME NEW f \in Senders, to_wake[f] # Null
              PROVE  /\ \A g \in Senders : to_wake[g] = to_wake[f] => g = f
                     /\ pc[to_wake[f]] \in {"msaving", "mparked"}
                     /\ head # to_wake[f]
  BY Zenon DEF WaitInv, SavedInv, MultiSignalWakesOnce
<1>1. to_wake[f] \in Receivers
  BY Zenon DEF WaitInv, MultiInv, MultiTypes
<1>2. head # to_wake[f]
  BY <1>1, FibersAssumption, Zenon DEF WaitInv, MultiInv, StackInv, Stacked, Fibers
<1>. QED
  BY <1>2, Zenon DEF WaitInv, MultiInv, TakenInv

(* At the start nobody waits and nobody raises.                            *)
LEMMA WaitInvInit == Init => WaitInv
<1>. SUFFICES ASSUME Init PROVE WaitInv
  BY Zenon
<1>1. PlacesInv
  BY PlacesInit, Zenon
<1>2. \A f \in Fibers : pc[f] \in {SendPlace, ReceivePlace}
  BY Zenon DEF Init
<1>3. \A f \in Fibers : pc[f] \notin {"raisereset", "raisewake", "saving", "parked", "woken",
                                      "msaving", "mparked", "mwoken", "mwaitswap", "mraisenext",
                                      "mraiseswap", "mraisewake"}
  BY <1>1, <1>2, ZenonT(30) DEF SendPlace, ReceivePlace, PlacesInv, Kinds
<1>4. SignalInv
  <2>1. Raisers = {} /\ pc[Receiver] \notin {"parked", "woken"}
    BY <1>3, FibersAssumption, Zenon DEF Raisers, Fibers
  <2>. QED
    BY <2>1, FibersAssumption, Zenon DEF Init, SignalInit, SignalInv, SignalWakesOnce, Fibers
<1>5. Stacked = {}
  BY <1>3, Zenon DEF Stacked, Fibers
<1>6. MultiTypes /\ StackInv
  BY <1>5, Zenon DEF Init, MultiSignalInit, MultiTypes, StackInv, Blank
<1>7. SnapInv /\ TakenInv
  BY <1>3, Zenon DEF Init, MultiSignalInit, SnapInv, TakenInv, Fibers
<1>8. SavedInv
  BY <1>3, Zenon DEF SavedInv, Fibers
<1>. QED
  BY <1>1, <1>4, <1>6, <1>7, <1>8, Zenon DEF WaitInv, MultiInv

-----------------------------------------------------------------------------
(* Steps of the rest of a channel.                                         *)

SignalInside == {"raisereset", "raisewake", "saving", "parked", "woken"}
MultiInside ==
  {"mraisehead", "mraisenext", "mraiseswap", "mraisewake",
   "mwaithead", "mwaitswap", "msaving", "mparked", "mwoken"}

(* Nothing of a signal changes, and fibers move only outside its code.     *)
Apart ==
  /\ UNCHANGED <<svars, msvars>>
  /\ \A f \in Fibers : \/ pc'[f] = pc[f]
                       \/ {pc[f], pc'[f]} \cap (SignalInside \cup MultiInside) = {}

(* Such a step disturbs nothing.                                           *)
LEMMA ApartKeeps ==
  ASSUME WaitInv, Apart
  PROVE  SignalInv' /\ MultiInv' /\ SavedInv'
<1>. USE DEF svars, msvars
<1>1. /\ \A f \in Fibers : \A p \in SignalInside \cup MultiInside : pc'[f] = p <=> pc[f] = p
      /\ UNCHANGED <<waiter, scratch, head, current, next, snap, to_wake>>
  BY Zenon DEF Apart
<1>2. Raisers' = Raisers
  BY <1>1, Zenon DEF Raisers, SignalInside, Fibers
<1>3. SignalInv'
  <2>1. Receiver \in Fibers
    BY FibersAssumption, Zenon DEF Fibers
  <2>2. \A p \in {"saving", "parked", "woken"} : pc'[Receiver] = p <=> pc[Receiver] = p
    BY <1>1, <2>1, Zenon DEF SignalInside
  <2>. QED
    BY <1>1, <1>2, <2>2, Zenon DEF WaitInv, SignalInv, SignalWakesOnce
<1>4. Stacked' = Stacked
  BY <1>1, Zenon DEF Stacked, MultiInside, Fibers
<1>5. MultiTypes' /\ StackInv'
  BY <1>1, <1>4, Zenon DEF WaitInv, MultiInv, MultiTypes, StackInv
<1>6. SnapInv'
  BY <1>1 DEF WaitInv, MultiInv, SnapInv, MultiInside, Fibers
<1>7. TakenInv'
  <2>1. \A f \in Senders : to_wake[f] # Null => to_wake[f] \in Fibers
    BY Zenon DEF WaitInv, MultiInv, MultiTypes, Fibers
  <2>. QED
    BY <1>1, <2>1, ZenonT(30) DEF WaitInv, MultiInv, TakenInv, MultiInside, Fibers
<1>8. SavedInv'
  BY <1>1, Zenon DEF WaitInv, SavedInv, MultiInside, Fibers
<1>. QED
  BY <1>3, <1>5, <1>6, <1>7, <1>8, Zenon DEF MultiInv

(* Where calls start is outside the code of a signal.                      *)
LEMMA StartsOutside ==
  ASSUME PlacesInv
  PROVE  /\ SendPlace \notin SignalInside \cup MultiInside
         /\ ReceivePlace \notin SignalInside \cup MultiInside
         /\ AfterSend \notin SignalInside \cup MultiInside
         /\ AfterMiss \notin SignalInside \cup MultiInside
<1>1. /\ SendPlace \notin SignalInside \cup MultiInside
      /\ ReceivePlace \notin SignalInside \cup MultiInside
  BY Zenon DEF PlacesInv, Kinds, SendPlace, ReceivePlace, SignalInside, MultiInside
<1>. QED
  BY <1>1, Zenon DEF AfterSend, AfterMiss, SignalInside, MultiInside

(* The steps that have nothing to do with a signal.                        *)
LEMMA ApartSteps ==
  ASSUME PlacesInv, PlacesInv'
  PROVE  /\ \A f \in Fibers : WorkOn(f) \/ SendBounded(f) \/ SendPush(f) \/ SendLink(f)
                                \/ SendSingle(f) \/ MultiSend(f) \/ ReceivePop(f)
                                \/ MultiReceive(f) => Apart
         /\ ReceiveHigh \/ ReceiveRead \/ ReceiveLow \/ ReceiveScan \/ ReceiveRobin => Apart
<1>. USE DEF GoTo, SignalInside, MultiInside
<1>0. pc \in [Fibers -> Allowed(setup.kind)] /\ Receiver \in Fibers
  BY FibersAssumption, Zenon DEF PlacesInv, Fibers
<1>1. ASSUME NEW f \in Fibers, NEW p, pc' = [pc EXCEPT ![f] = p], UNCHANGED <<svars, msvars>>,
             pc[f] \notin SignalInside \cup MultiInside, p \notin SignalInside \cup MultiInside
      PROVE  Apart
  BY <1>0, <1>1, Zenon DEF Apart
<1>2. ASSUME NEW f \in Fibers, WorkOn(f) PROVE Apart
  <2>. USE DEF WorkOn, WorkStep, WorkCount, WorkPush, WorkLink, WorkTake, WorkNone, WorkCompare,
               WorkReset, WorkSubtract
  <2>1. UNCHANGED <<svars, msvars>> /\ pc[f] \in WorkPlaces
    BY <1>2, Zenon DEF WorkPlaces
  <2>2. UNCHANGED pc \/ \E p \in WorkPlaces : pc' = [pc EXCEPT ![f] = p]
    BY <1>2, Zenon DEF WorkPlaces
  <2>. QED
    BY <1>1, <2>1, <2>2, ZenonT(30) DEF WorkPlaces, Apart
<1>3. ASSUME NEW f \in Fibers, SendBounded(f) PROVE Apart
  <2>. USE DEF SendBounded, PushStep, PushLow, PushHigh, PushTest, PushCas, PushCasFails, PushWrite
  <2>1. UNCHANGED <<svars, msvars>> /\ pc[f] \in PushPlaces
    BY <1>3, Zenon DEF PushPlaces
  <2>2. PICK p \in PushPlaces \cup {AfterSend} : pc' = [pc EXCEPT ![f] = p]
    BY <1>3, Zenon DEF PushPlaces
  <2>3. AfterSend \notin SignalInside \cup MultiInside
    BY StartsOutside, Zenon
  <2>4. pc[f] \notin SignalInside \cup MultiInside /\ p \notin SignalInside \cup MultiInside
    BY ONLY <2>1, <2>2, <2>3, Zenon DEF PushPlaces
  <2>. QED
    BY <1>1, <2>1, <2>2, <2>4, Zenon
<1>4. ASSUME NEW f \in Fibers, ReceivePop(f) PROVE Apart
  <2>. USE DEF ReceivePop, PopStep, PopHigh, PopLow, PopRead, PopCas, PopCasFails, PopClear
  <2>1. UNCHANGED <<svars, msvars>> /\ pc[f] \in PopPlaces
    BY <1>4, Zenon DEF PopPlaces
  <2>2. \E p \in PopPlaces : pc' = [pc EXCEPT ![f] = p]
    BY <1>4, Zenon DEF PopPlaces
  <2>. QED
    BY <1>1, <2>1, <2>2, Zenon DEF PopPlaces
<1>5. ASSUME NEW f \in Fibers, SendPush(f) \/ SendLink(f) \/ SendSingle(f) PROVE Apart
  BY <1>1, <1>5, StartsOutside, Zenon DEF SendPush, SendLink, SendSingle
<1>6. ASSUME NEW f \in Fibers, MultiSend(f) \/ MultiReceive(f) PROVE Apart
  <2>1. UNCHANGED <<svars, msvars, setup>> /\ pc[f] = "multi"
    BY <1>6, Zenon DEF MultiSend, MultiReceive
  <2>2. setup.kind = "multi"
    BY <1>0, <2>1, Zenon DEF PlacesInv, Allowed, Kinds, PushPlaces, PopPlaces, ReceivePlaces, SignalPlaces,
                      MultiSignalPlaces, WorkPlaces
  <2>3. \A g \in Fibers : {pc[g], pc'[g]} \subseteq {"multi", "asleep"}
    BY <2>1, <2>2, Zenon DEF PlacesInv, Allowed
  <2>. QED
    BY <2>1, <2>3, Zenon DEF Apart
<1>7. ASSUME ReceiveHigh \/ ReceiveRead \/ ReceiveLow PROVE Apart
  BY <1>0, <1>1, <1>7, StartsOutside, Zenon DEF ReceiveHigh, ReceiveRead, ReceiveLow
<1>8. ASSUME ReceiveScan \/ ReceiveRobin PROVE Apart
  <2>1. CASE UNCHANGED pc
    BY <1>8, <2>1, Zenon DEF ReceiveScan, ReceiveRobin, Apart
  <2>2. CASE pc' = [pc EXCEPT ![Receiver] = AfterMiss]
    BY <1>0, <1>1, <1>8, <2>2, StartsOutside, Zenon DEF ReceiveScan, ReceiveRobin
  <2>. QED
    BY <1>8, <2>1, <2>2, Zenon DEF ReceiveScan, ReceiveRobin
<1>. QED
  BY <1>2, <1>3, <1>4, <1>5, <1>6, <1>7, <1>8, Zenon

-----------------------------------------------------------------------------
(* A kind of channel has one sort of signal: where a fiber is in the code  *)
(* of one, nobody is in the code of the other.                             *)
LEMMA OneSort ==
  ASSUME PlacesInv, NEW f \in Fibers
  PROVE  /\ pc[f] \in SignalPlaces => \A g \in Fibers : pc[g] \notin MultiInside
         /\ pc[f] \in MultiSignalPlaces => \A g \in Fibers : pc[g] \notin SignalInside
<1>1. \A g \in Fibers : pc[g] \in Allowed(setup.kind)
  BY Zenon DEF PlacesInv
<1>2. CASE setup.kind \in {"raise", "strict"}
  BY <1>1, <1>2, Zenon DEF Allowed, SignalPlaces, SignalInside, MultiSignalPlaces
<1>3. CASE setup.kind \in Kinds \ {"raise", "strict"}
  BY <1>1, <1>3, ZenonT(30) DEF Allowed, Kinds, PushPlaces, PopPlaces, ReceivePlaces, SignalPlaces, WorkPlaces,
                    MultiInside, MultiSignalPlaces
<1>. QED
  BY <1>2, <1>3, Zenon DEF PlacesInv

(* A step of fiber_signal.                                                 *)
LEMMA SignalSteps ==
  ASSUME WaitInv, PlacesInv',
         ReceiveWait \/ \E f \in Senders : SendRaise(f)
  PROVE  SignalInv'
<1>. USE FibersAssumption DEF GoTo, Fibers
<1>0. /\ pc \in [Fibers -> Allowed(setup.kind)] /\ PlacesInv
      /\ SignalInv
      /\ scratch \in [Receivers -> {Null, "READY_TO_WAKE"}]
  BY Zenon DEF WaitInv, PlacesInv, SignalInv
<1>1. ASSUME WaitEnter PROVE SignalInv'
  <2>1. Raisers = {} /\ Raisers' = Raisers
    BY <1>0, <1>1, Zenon DEF WaitEnter, SignalInv, SignalWakesOnce, Raisers
  <2>2. pc'[Receiver] \in {"saving", "reset"} /\ (waiter' = Receiver => pc'[Receiver] = "saving")
    <3>1. waiter # Receiver
      BY <1>0, <1>1, Zenon DEF WaitEnter, SignalInv
    <3>. QED
      BY <1>0, <1>1, <3>1, Zenon DEF WaitEnter
  <2>3. scratch' \in [Receivers -> {Null, "READY_TO_WAKE"}]
    BY <1>0, <1>1, Zenon DEF WaitEnter
  <2>. QED
    BY <2>1, <2>2, <2>3, Zenon DEF SignalInv, SignalWakesOnce
<1>2. ASSUME WaitSave PROVE SignalInv'
  <2>1. Raisers' = Raisers
    BY <1>0, <1>2, Zenon DEF WaitSave, Raisers
  <2>. QED
    BY <1>0, <1>2, <2>1, Zenon DEF WaitSave, SignalInv, SignalWakesOnce
<1>3. ASSUME WaitReset(ReceivePlace) PROVE SignalInv'
  <2>1. Raisers = {} /\ Raisers' = Raisers
    BY <1>0, <1>3, ZenonT(30) DEF WaitReset, SignalInv, SignalWakesOnce, Raisers
  <2>2. pc'[Receiver] \notin {"parked", "woken"}
    BY <1>0, <1>3, StartsOutside, Zenon DEF WaitReset, SignalInside
  <2>3. scratch' \in [Receivers -> {Null, "READY_TO_WAKE"}] /\ waiter' # Receiver
    BY <1>0, <1>3, Zenon DEF WaitReset
  <2>. QED
    BY <2>1, <2>2, <2>3, Zenon DEF SignalInv, SignalWakesOnce
<1>4. ASSUME NEW f \in Senders, Raise(f, SendPlace) PROVE SignalInv'
  <2>1. UNCHANGED <<scratch, pc[Receiver]>> /\ waiter' # Receiver
    BY <1>0, <1>4, Zenon DEF Raise, Raised
  <2>2. CASE waiter = Receiver
    <3>1. Raisers = {} /\ Raisers' = {f} /\ pc[Receiver] \in {"saving", "parked"}
      BY <1>0, <1>4, <2>2, Zenon DEF Raise, SignalInv, Raisers
    <3>. QED
      BY <1>0, <2>1, <3>1, Zenon DEF SignalInv, SignalWakesOnce
  <2>3. CASE waiter # Receiver
    <3>1. Raisers' = Raisers
      BY <1>0, <1>4, <2>3, StartsOutside, Zenon DEF Raise, Raisers, SignalInside
    <3>. QED
      BY <1>0, <2>1, <3>1, Zenon DEF SignalInv, SignalWakesOnce
  <2>. QED
    BY <2>2, <2>3, Zenon
<1>5. ASSUME NEW f \in Senders, RaiseReset(f) PROVE SignalInv'
  <2>1. UNCHANGED <<scratch, pc[Receiver]>> /\ waiter' # Receiver /\ Raisers' = Raisers
    BY <1>0, <1>5, Zenon DEF RaiseReset, Raisers
  <2>. QED
    BY <1>0, <2>1, Zenon DEF SignalInv, SignalWakesOnce
<1>6. ASSUME NEW f \in Senders, RaiseWake(f, SendPlace) PROVE SignalInv'
  <2>1. Raisers = {f}
    BY <1>0, <1>6, Zenon DEF RaiseWake, SignalInv, SignalWakesOnce, Raisers
  <2>2. Raisers' = {}
    BY <1>0, <1>6, <2>1, StartsOutside, Zenon DEF RaiseWake, Raisers, SignalInside
  <2>3. /\ waiter' # Receiver /\ scratch'[Receiver] = "READY_TO_WAKE"
        /\ scratch' \in [Receivers -> {Null, "READY_TO_WAKE"}]
    BY <1>0, <1>6, <2>1, Zenon DEF RaiseWake, SignalInv, Saved, svars
  <2>. QED
    BY <2>2, <2>3, Zenon DEF SignalInv, SignalWakesOnce
<1>. QED
  BY <1>1, <1>2, <1>3, <1>4, <1>5, <1>6, Zenon DEF ReceiveWait, WaitStep, SendRaise, RaiseStep

(* It leaves the multi-signal alone.                                       *)
LEMMA SignalStepsApart ==
  ASSUME WaitInv, PlacesInv',
         ReceiveWait \/ \E f \in Senders : SendRaise(f)
  PROVE  MultiInv' /\ SavedInv'
<1>. USE FibersAssumption DEF Fibers
<1>1. PlacesInv /\ UNCHANGED <<setup, msvars>>
  BY Zenon DEF WaitInv, ReceiveWait, SendRaise
<1>2. \E f \in Fibers : pc[f] \in SignalPlaces
  BY Zenon DEF ReceiveWait, SendRaise, WaitStep, WaitEnter, WaitSave, WaitReset, RaiseStep, Raise,
         RaiseReset, RaiseWake, SignalPlaces
<1>3. \A g \in Fibers : pc[g] \notin MultiInside
  BY <1>1, <1>2, OneSort, Zenon
<1>4. \A g \in Fibers : pc'[g] \notin MultiInside
  <2>1. \A g \in Fibers : pc'[g] \in {pc[g]} \cup SignalPlaces \cup {SendPlace, ReceivePlace}
    BY <1>1, Zenon DEF ReceiveWait, SendRaise, WaitStep, WaitEnter, WaitSave, WaitReset, RaiseStep, Raise,
           RaiseReset, RaiseWake, SignalPlaces, GoTo, PlacesInv
  <2>. QED
    BY <1>1, <1>3, <2>1, StartsOutside, Zenon DEF SignalPlaces, MultiInside
<1>5. Stacked = {} /\ Stacked' = {}
  BY <1>3, <1>4, Zenon DEF Stacked, MultiInside
<1>6. \A f \in Senders : to_wake[f] = Null
  BY <1>3, Zenon DEF WaitInv, MultiInv, TakenInv, MultiInside
<1>7. MultiTypes' /\ StackInv'
  BY <1>1, <1>5, Zenon DEF WaitInv, MultiInv, MultiTypes, StackInv, msvars
<1>8. SnapInv' /\ TakenInv'
  BY <1>1, <1>4, <1>6, ZenonT(30) DEF SnapInv, TakenInv, msvars, MultiInside
<1>9. SavedInv'
  BY <1>4, Zenon DEF SavedInv, MultiInside
<1>. QED
  BY <1>7, <1>8, <1>9, Zenon DEF MultiInv

(* And a step of the multi-signal leaves the signal alone.                 *)
LEMMA MultiStepsApart ==
  ASSUME WaitInv, PlacesInv', NEW f \in Fibers, WaitMulti(f) \/ RaiseMulti(f),
         scratch' \in [Receivers -> {Null, "READY_TO_WAKE"}]
  PROVE  SignalInv'
<1>. USE FibersAssumption DEF Fibers
<1>. USE DEF WaitMulti, MWaitStep, MWaitCounter, MWaitHead, MWaitAccept, MWaitPush, MWaitSave,
             MWaitReturns, RaiseMulti, MRaiseStep, MRaiseCounter, MRaiseHead, MRaiseAgain,
             MRaiseNext, MRaiseSet, MRaisePop, MRaiseWake, ReadCounter, SwapFails, GoTo
<1>1. PlacesInv /\ UNCHANGED waiter
  BY ZenonT(30) DEF WaitInv
<1>2. pc[f] \in MultiSignalPlaces
  BY SMTT(30) DEF MultiSignalPlaces
<1>3. \A g \in Fibers : pc[g] \notin SignalInside
  BY <1>1, <1>2, OneSort, Zenon
<1>4. \A g \in Fibers : pc'[g] \notin SignalInside
  <2>1. \A g \in Fibers : pc'[g] \in {pc[g]} \cup MultiSignalPlaces
    BY <1>1, SMTT(30) DEF PlacesInv, MultiSignalPlaces
  <2>. QED
    BY ONLY <1>3, <2>1, SMTT(30) DEF MultiSignalPlaces, SignalInside
<1>5. waiter' # Receiver
  BY <1>1, <1>3, Zenon DEF WaitInv, SignalInv, SignalInside
<1>6. Raisers' = {} /\ pc'[Receiver] \notin {"parked", "woken"}
  BY <1>4, Zenon DEF Raisers, SignalInside
<1>. QED
  BY <1>5, <1>6, SMTT(30) DEF SignalInv, SignalWakesOnce

-----------------------------------------------------------------------------
(* A step that neither puts a fiber on the stack nor takes one off it.     *)
LEMMA StackKept ==
  ASSUME MultiInv, UNCHANGED <<head, to_wake>>,
         \A r \in Stacked : next'[r] = next[r],
         \A r \in Receivers : pc'[r] \in {"msaving", "mparked"} <=> pc[r] \in {"msaving", "mparked"},
         \A f \in Senders : pc'[f] = "mraisewake" <=> pc[f] = "mraisewake"
  PROVE  StackInv' /\ TakenInv'
<1>1. Stacked' = Stacked
  BY Zenon DEF Stacked
<1>2. StackInv'
  BY <1>1 DEF MultiInv, StackInv
<1>3. \A f \in Senders : to_wake[f] # Null => to_wake[f] \in Receivers
  BY Zenon DEF MultiInv, MultiTypes
<1>4. TakenInv'
  BY <1>3, Zenon DEF MultiInv, TakenInv
<1>. QED
  BY <1>2, <1>4, Zenon

(* A step of fiber_multi_signal_wait.                                      *)
LEMMA MultiWaitSteps ==
  ASSUME WaitInv, NEW r \in Receivers, WaitMulti(r)
  PROVE  MultiInv' /\ scratch' \in [Receivers -> {Null, "READY_TO_WAKE"}]
<1>. USE FibersAssumption DEF GoTo, Fibers
<1>0. /\ pc \in [Fibers -> Allowed(setup.kind)]
      /\ MultiInv /\ MultiTypes /\ StackInv /\ SnapInv /\ TakenInv
      /\ scratch \in [Receivers -> {Null, "READY_TO_WAKE"}]
      /\ r \notin Senders
  BY Zenon DEF WaitInv, PlacesInv, SignalInv, MultiInv
<1>a. head \in Receivers \cup {Null, "RAISED"}
  BY <1>0, Zenon DEF StackInv, Stacked
<1>1. ASSUME MWaitCounter(r) PROVE MultiInv' /\ scratch' \in [Receivers -> {Null, "READY_TO_WAKE"}]
  <2>. USE DEF MWaitCounter, ReadCounter
  <2>1. StackInv' /\ TakenInv'
    BY <1>0, <1>1, StackKept, Zenon
  <2>2. SnapInv'
    BY <1>0, <1>1, Zenon DEF SnapInv
  <2>. QED
    BY <1>0, <1>1, <2>1, <2>2, Zenon DEF MultiInv, MultiTypes
<1>2. ASSUME MWaitHead(r) PROVE MultiInv' /\ scratch' \in [Receivers -> {Null, "READY_TO_WAKE"}]
  <2>. USE DEF MWaitHead
  <2>1. \A s \in Stacked : next'[s] = next[s]
    BY <1>0, <1>2, Zenon DEF MultiTypes, Stacked
  <2>2. StackInv' /\ TakenInv'
    BY <1>0, <1>2, <2>1, StackKept, Zenon
  <2>3. MultiTypes'
    BY <1>0, <1>a, <1>2, SMTT(30) DEF MultiTypes
  <2>4. snap'[r].head = head /\ \A f \in Fibers \ {r} : snap'[f] = snap[f] /\ pc'[f] = pc[f]
    BY <1>0, <1>2 DEF MultiTypes
  <2>5. head # "RAISED" => next'[r] = head
    BY <1>0, <1>2, Zenon DEF MultiTypes
  <2>6. \A s \in Receivers \ {r} : next'[s] = next[s]
    BY <1>0, <1>2, Zenon DEF MultiTypes
  <2>7. ASSUME NEW f \in Senders, pc'[f] = "mraiseswap", f \in current', Sleeper(snap'[f].head)
        PROVE  snap'[f].next = next'[snap'[f].head]
    <3>1. pc[f] = "mraiseswap" /\ f \in current /\ Sleeper(snap[f].head) /\ snap'[f] = snap[f]
      BY <1>0, <1>2, <2>4, <2>7, Zenon DEF Sleeper
    <3>2. snap[f].head = head /\ snap[f].next = next[snap[f].head]
      BY <1>0, <3>1, Zenon DEF SnapInv
    <3>3. head \in Stacked
      BY <1>0, <3>1, <3>2, Zenon DEF StackInv, Sleeper
    <3>. QED
      BY <2>1, <3>1, <3>2, <3>3, Zenon
  <2>8. SnapInv'
    <3>1. \A s \in Receivers :
            pc'[s] = "mwaitswap" /\ snap'[s].head # "RAISED" => next'[s] = snap'[s].head
      BY <1>0, <2>4, <2>5, <2>6, Zenon DEF SnapInv
    <3>2. \A f \in Senders :
            /\ pc'[f] \in {"mraisenext", "mraiseswap"} /\ f \in current' => snap'[f].head = head'
            /\ pc'[f] = "mraisenext" => Sleeper(snap'[f].head)
      BY <1>0, <1>2, <2>4, ZenonT(30) DEF SnapInv, Sleeper
    <3>. QED
      BY <2>7, <3>1, <3>2, Zenon DEF SnapInv, Sleeper
  <2>. QED
    BY <1>0, <1>2, <2>2, <2>3, <2>8, Zenon DEF MultiInv
<1>3. ASSUME MWaitAccept(r) PROVE MultiInv' /\ scratch' \in [Receivers -> {Null, "READY_TO_WAKE"}]
  <2>. USE DEF MWaitAccept, Swaps, Unchanged
  <2>1. Stacked' = Stacked
    BY <1>0, <1>3, Zenon DEF Stacked
  <2>2. StackInv'
    BY <1>0, <1>3, <2>1, Zenon DEF StackInv
  <2>3. TakenInv'
    BY <1>0, <1>3, Zenon DEF TakenInv, MultiTypes
  <2>4. MultiTypes'
    BY <1>0, <1>3, Zenon DEF MultiTypes, Blank
  <2>5. \A f \in Fibers \ {r} : snap'[f] = snap[f] /\ pc'[f] = pc[f]
    BY <1>0, <1>3, Zenon DEF MultiTypes
  <2>6. SnapInv'
    BY <1>0, <1>3, <2>5 DEF SnapInv, Sleeper
  <2>. QED
    BY <1>0, <1>3, <2>2, <2>3, <2>4, <2>6, Zenon DEF MultiInv
<1>4. ASSUME MWaitPush(r) PROVE MultiInv' /\ scratch' \in [Receivers -> {Null, "READY_TO_WAKE"}]
  <2>. USE DEF MWaitPush, Swaps, Unchanged
  <2>1. \A f \in Senders : to_wake[f] # r
    BY <1>0, <1>4, Zenon DEF TakenInv
  <2>2. r \notin Stacked /\ Stacked' = Stacked \cup {r}
    BY <1>0, <1>4, <2>1, Zenon DEF Stacked
  <2>3. next[r] = head /\ head # "RAISED" /\ head' = r /\ next' = next
    BY <1>0, <1>4, Zenon DEF SnapInv
  <2>4. StackInv'
    <3>1. head \in Stacked \cup {Null} /\ r # Null
      BY <1>0, <2>3, Zenon DEF StackInv
    <3>2. \A s \in Stacked' : next[s] \in Stacked \cup {Null}
      BY <1>0, <2>2, <2>3, <3>1, Zenon DEF StackInv
    <3>3. \A s, t \in Stacked' : next[s] = next[t] /\ next[s] # Null => s = t
      BY <1>0, <2>2, <2>3, Zenon DEF StackInv
    <3>. QED
      BY <2>2, <2>3, <3>1, <3>2, <3>3, Zenon DEF StackInv
  <2>5. TakenInv'
    BY <1>0, <1>4, Zenon DEF TakenInv, MultiTypes
  <2>6. MultiTypes'
    BY <1>0, <1>4, Zenon DEF MultiTypes, Blank
  <2>7. \A f \in Fibers \ {r} : snap'[f] = snap[f] /\ pc'[f] = pc[f]
    BY <1>0, <1>4, Zenon DEF MultiTypes
  <2>8. SnapInv'
    BY <1>0, <1>4, <2>7 DEF SnapInv, Sleeper
  <2>. QED
    BY <1>0, <1>4, <2>4, <2>5, <2>6, <2>8, Zenon DEF MultiInv
<1>5. ASSUME SwapFails(r, "mwaitswap", "mwait")
      PROVE  MultiInv' /\ scratch' \in [Receivers -> {Null, "READY_TO_WAKE"}]
  <2>. USE DEF SwapFails
  <2>1. StackInv' /\ TakenInv'
    BY <1>0, <1>5, StackKept, Zenon
  <2>2. MultiTypes'
    BY <1>0, <1>5, Zenon DEF MultiTypes, Blank
  <2>3. \A f \in Fibers \ {r} : snap'[f] = snap[f] /\ pc'[f] = pc[f]
    BY <1>0, <1>5, Zenon DEF MultiTypes
  <2>4. SnapInv'
    BY <1>0, <1>5, <2>3 DEF SnapInv, Sleeper
  <2>. QED
    BY <1>0, <1>5, <2>1, <2>2, <2>4, Zenon DEF MultiInv
<1>6. ASSUME MWaitSave(r) \/ MWaitReturns(r)
      PROVE  MultiInv' /\ scratch' \in [Receivers -> {Null, "READY_TO_WAKE"}]
  <2>. USE DEF MWaitSave, MWaitReturns, msvars
  <2>1. StackInv' /\ TakenInv'
    BY <1>0, <1>6, StackKept, Zenon
  <2>2. SnapInv'
    BY <1>0, <1>6, ZenonT(30) DEF SnapInv
  <2>. QED
    BY <1>0, <1>6, <2>1, <2>2, Zenon DEF MultiInv, MultiTypes
<1>. QED
  BY <1>1, <1>2, <1>3, <1>4, <1>5, <1>6, Zenon DEF WaitMulti, MWaitStep

(* A step of fiber_multi_signal_raise or .._raise_strict.                  *)
LEMMA MultiRaiseSteps ==
  ASSUME WaitInv, NEW f \in Senders, RaiseMulti(f)
  PROVE  MultiInv' /\ UNCHANGED scratch
<1>. USE FibersAssumption DEF GoTo, Fibers
<1>0. /\ pc \in [Fibers -> Allowed(setup.kind)]
      /\ MultiInv /\ MultiTypes /\ StackInv /\ SnapInv /\ TakenInv
      /\ f \notin Receivers
  BY Zenon DEF WaitInv, PlacesInv, MultiInv
<1>a. head \in Receivers \cup {Null, "RAISED"}
  BY <1>0, Zenon DEF StackInv, Stacked
<1>1. ASSUME MRaiseCounter(f) \/ MRaiseAgain(f, setup.kind = "strict")
      PROVE  MultiInv' /\ UNCHANGED scratch
  <2>. USE DEF MRaiseCounter, MRaiseAgain, ReadCounter
  <2>1. StackInv' /\ TakenInv'
    BY <1>0, <1>1, StackKept, Zenon
  <2>2. SnapInv'
    BY <1>0, <1>1, ZenonT(30) DEF SnapInv
  <2>. QED
    BY <1>0, <1>1, <2>1, <2>2, Zenon DEF MultiInv, MultiTypes
<1>2. ASSUME MRaiseHead(f, setup.kind = "strict") PROVE MultiInv' /\ UNCHANGED scratch
  <2>. USE DEF MRaiseHead
  <2>1. StackInv' /\ TakenInv'
    BY <1>0, <1>2, StackKept, Zenon
  <2>2. MultiTypes'
    BY <1>0, <1>a, <1>2 DEF MultiTypes
  <2>3. snap'[f].head = head /\ \A g \in Fibers \ {f} : snap'[g] = snap[g] /\ pc'[g] = pc[g]
    BY <1>0, <1>2 DEF MultiTypes
  <2>4. pc'[f] = IF Sleeper(head) THEN "mraisenext" ELSE "mraiseswap"
    BY <1>0, <1>2, Zenon
  <2>5. SnapInv'
    BY <1>0, <1>2, <2>3, <2>4, SMTT(30) DEF SnapInv, Sleeper
  <2>. QED
    BY <1>0, <1>2, <2>1, <2>2, <2>5, Zenon DEF MultiInv
<1>3. ASSUME MRaiseNext(f) PROVE MultiInv' /\ UNCHANGED scratch
  <2>. USE DEF MRaiseNext
  <2>1. StackInv' /\ TakenInv'
    BY <1>0, <1>3, StackKept, Zenon
  <2>2. snap[f].head \in Receivers
    BY <1>0, <1>3, Zenon DEF SnapInv, Sleeper, MultiTypes
  <2>3. MultiTypes'
    BY <1>0, <1>3, <2>2 DEF MultiTypes
  <2>4. /\ snap'[f].head = snap[f].head /\ snap'[f].next = next[snap[f].head]
        /\ \A g \in Fibers \ {f} : snap'[g] = snap[g] /\ pc'[g] = pc[g]
    BY <1>0, <1>3, SMTT(30) DEF MultiTypes
  <2>5. SnapInv'
    BY <1>0, <1>3, <2>4 DEF SnapInv, Sleeper
  <2>. QED
    BY <1>0, <1>3, <2>1, <2>3, <2>5, Zenon DEF MultiInv
<1>4. ASSUME MRaiseSet(f) PROVE MultiInv' /\ UNCHANGED scratch
  <2>. USE DEF MRaiseSet, Swaps, Unchanged
  <2>1. Stacked' = Stacked
    BY <1>0, <1>4, Zenon DEF Stacked
  <2>2. StackInv'
    <3>1. \A r \in Stacked : next[r] # "RAISED"
      BY <1>0 DEF MultiTypes, Stacked
    <3>. QED
      BY <1>0, <1>4, <2>1, <3>1, Zenon DEF StackInv
  <2>3. TakenInv'
    BY <1>0, <1>4, Zenon DEF TakenInv, MultiTypes
  <2>4. MultiTypes'
    BY <1>0, <1>4, Zenon DEF MultiTypes, Blank
  <2>5. \A g \in Fibers \ {f} : snap'[g] = snap[g] /\ pc'[g] = pc[g]
    BY <1>0, <1>4, Zenon DEF MultiTypes
  <2>6. SnapInv'
    BY <1>0, <1>4, <2>5 DEF SnapInv, Sleeper
  <2>. QED
    BY <1>0, <1>4, <2>2, <2>3, <2>4, <2>6, Zenon DEF MultiInv
<1>5. ASSUME MRaisePop(f) PROVE MultiInv' /\ UNCHANGED scratch
  <2>. USE DEF MRaisePop, Swaps, Unchanged
  <2>1. head \in Stacked /\ head \in Receivers
    BY <1>0, <1>5, Zenon DEF StackInv, Stacked, Sleeper
  <2>2. snap[f].head = head /\ head' = next[head] /\ next' = next
    BY <1>0, <1>5, Zenon DEF SnapInv
  <2>3. to_wake[f] = Null
    BY <1>0, <1>5, Zenon DEF TakenInv
  <2>4. to_wake'[f] = head /\ \A g \in Senders \ {f} : to_wake'[g] = to_wake[g]
    BY <1>0, <1>5, <2>2, Zenon DEF MultiTypes
  <2>5. Stacked' = Stacked \ {head}
    BY <1>0, <1>5, <2>1, <2>3, <2>4 DEF Stacked
  <2>6. StackInv'
    <3>1. next[head] \in Stacked \cup {Null} /\ next[head] # head /\ head # Null
      BY <1>0, <2>1, Zenon DEF StackInv
    <3>2. \A r \in Stacked \ {head} : next[r] \in (Stacked \ {head}) \cup {Null}
      BY <1>0, <2>1, <3>1, Zenon DEF StackInv
    <3>3. \A r \in Stacked \ {head} : next[r] = next[head] => next[head] = Null
      BY <1>0, <2>1, Zenon DEF StackInv
    <3>4. \A r, s \in Stacked \ {head} : next[r] = next[s] /\ next[r] # Null => r = s
      BY <1>0, Zenon DEF StackInv
    <3>. QED
      BY <2>2, <2>5, <3>1, <3>2, <3>3, <3>4, Zenon DEF StackInv
  <2>7. TakenInv'
    <3>1. \A g \in Senders : to_wake[g] # head
      BY <2>1, Zenon DEF Stacked
    <3>2. pc'[head] \in {"msaving", "mparked"}
      BY <1>0, <1>5, <2>1, Zenon DEF Stacked
    <3>3. \A g \in Senders : to_wake[g] # Null => to_wake[g] \in Receivers
      BY <1>0, Zenon DEF MultiTypes
    <3>. QED
      BY <1>0, <1>5, <2>4, <3>1, <3>2, <3>3 DEF TakenInv
  <2>8. MultiTypes'
    BY <1>0, <1>5, <2>1, Zenon DEF MultiTypes, Blank
  <2>9. \A g \in Fibers \ {f} : snap'[g] = snap[g] /\ pc'[g] = pc[g]
    BY <1>0, <1>5, Zenon DEF MultiTypes
  <2>10. SnapInv'
    BY <1>0, <1>5, <2>9 DEF SnapInv, Sleeper
  <2>. QED
    BY <1>0, <1>5, <2>6, <2>7, <2>8, <2>10, Zenon DEF MultiInv
<1>6. ASSUME MRaiseWake(f) PROVE MultiInv' /\ UNCHANGED scratch
  <2>. USE DEF MRaiseWake
  <2>. DEFINE t == to_wake[f]
  <2>1. UNCHANGED <<head, next, snap, current>> /\ pc[f] = "mraisewake"
    BY <1>6, Zenon
  <2>2. to_wake'[f] = Null /\ \A g \in Senders \ {f} : to_wake'[g] = to_wake[g]
    BY <1>0, <1>6, Zenon DEF MultiTypes
  <2>3. \A g \in Fibers \ {f, t} : pc'[g] = pc[g]
    BY <1>0, <1>6, Zenon
  <2>4. t \in Receivers => pc'[t] = "mwoken"
    BY <1>0, <1>6, Zenon
  <2>5. pc'[f] \in {"mraise", "mwoken"}
    BY <1>0, <1>6, Zenon
  <2>6. t \in Receivers \cup {Null} /\ \A g \in Senders : to_wake[g] \in Receivers \cup {Null}
    BY <1>0, Zenon DEF MultiTypes
  <2>7. Stacked' = Stacked
    BY <1>0, <2>2, <2>3, <2>4, <2>6 DEF Stacked
  <2>8. StackInv'
    BY <1>0, <2>1, <2>7, Zenon DEF StackInv
  <2>9. TakenInv'
    BY <1>0, <2>2, <2>3, <2>5, <2>6, SMTT(30) DEF TakenInv
  <2>10. SnapInv'
    BY <1>0, <2>1, <2>3, <2>4, <2>5, <2>6 DEF SnapInv
  <2>11. MultiTypes'
    BY <1>0, <1>6, Zenon DEF MultiTypes
  <2>. QED
    BY <1>6, <2>8, <2>9, <2>10, <2>11, Zenon DEF MultiInv
<1>7. ASSUME SwapFails(f, "mraiseswap", "mraise") PROVE MultiInv' /\ UNCHANGED scratch
  <2>. USE DEF SwapFails
  <2>1. StackInv' /\ TakenInv'
    BY <1>0, <1>7, StackKept, Zenon
  <2>2. MultiTypes'
    BY <1>0, <1>7, Zenon DEF MultiTypes, Blank
  <2>3. \A g \in Fibers \ {f} : snap'[g] = snap[g] /\ pc'[g] = pc[g]
    BY <1>0, <1>7, Zenon DEF MultiTypes
  <2>4. SnapInv'
    BY <1>0, <1>7, <2>3 DEF SnapInv, Sleeper
  <2>. QED
    BY <1>0, <1>7, <2>1, <2>2, <2>4, Zenon DEF MultiInv
<1>. QED
  BY <1>1, <1>2, <1>3, <1>4, <1>5, <1>6, <1>7, Zenon DEF RaiseMulti, MRaiseStep

(* A fiber sleeps with READY_TO_WAKE in its scratch word, and nobody wakes *)
(* it without.                                                             *)
LEMMA SavedSteps ==
  ASSUME WaitInv, (\E r \in Receivers : WaitMulti(r)) \/ \E f \in Senders : RaiseMulti(f)
  PROVE  SavedInv'
<1>. USE FibersAssumption DEF GoTo, Fibers
<1>0. /\ pc \in [Fibers -> Allowed(setup.kind)] /\ SavedInv
      /\ scratch \in [Receivers -> {Null, "READY_TO_WAKE"}]
      /\ Senders \cap Receivers = {}
  BY Zenon DEF WaitInv, PlacesInv, SignalInv
<1>1. ASSUME NEW r \in Receivers, WaitMulti(r) PROVE SavedInv'
  <2>1. \A s \in Receivers \ {r} : pc'[s] = pc[s] /\ scratch'[s] = scratch[s]
    BY <1>0, <1>1, ZenonT(30) DEF WaitMulti, MWaitStep, MWaitCounter, MWaitHead, MWaitAccept, MWaitPush,
           MWaitSave, MWaitReturns, SwapFails, ReadCounter
  <2>2. pc'[r] \in {"mwait", "mwaithead", "mwaitswap", "msaving"} \/ scratch'[r] = "READY_TO_WAKE"
    BY <1>0, <1>1, ZenonT(30) DEF WaitMulti, MWaitStep, MWaitCounter, MWaitHead, MWaitAccept, MWaitPush,
           MWaitSave, MWaitReturns, SwapFails, ReadCounter
  <2>. QED
    BY <1>0, <2>1, <2>2, Zenon DEF SavedInv
<1>2. ASSUME NEW f \in Senders, RaiseMulti(f) PROVE SavedInv'
  <2>1. UNCHANGED scratch
    BY <1>2, MultiRaiseSteps, Zenon
  <2>2. CASE MRaiseWake(f)
    <3>1. \A s \in Receivers : s # to_wake[f] => pc'[s] = pc[s]
      BY <1>0, <2>2, Zenon DEF MRaiseWake
    <3>2. scratch[to_wake[f]] = "READY_TO_WAKE"
      BY <2>2, Zenon DEF MRaiseWake, ReadyToWake
    <3>. QED
      BY <1>0, <2>1, <3>1, <3>2, Zenon DEF SavedInv
  <2>3. CASE ~MRaiseWake(f)
    <3>1. \A s \in Receivers : pc'[s] = pc[s]
      BY <1>0, <1>2, <2>3, ZenonT(30) DEF RaiseMulti, MRaiseStep, MRaiseCounter, MRaiseHead, MRaiseAgain,
             MRaiseNext, MRaiseSet, MRaisePop, ReadCounter, SwapFails
    <3>. QED
      BY <1>0, <2>1, <3>1, Zenon DEF SavedInv
  <2>. QED
    BY <2>2, <2>3, Zenon
<1>. QED
  BY <1>1, <1>2, Zenon

-----------------------------------------------------------------------------
(* Every step keeps the invariant.                                         *)
LEMMA WaitInvStep ==
  ASSUME WaitInv, [Next]_vars
  PROVE  WaitInv'
<1>1. PlacesInv /\ PlacesInv'
  BY PlacesStep, Zenon DEF WaitInv
<1>2. CASE UNCHANGED vars
  BY <1>1, <1>2, ApartKeeps, Zenon DEF vars, Apart, WaitInv
<1>3. CASE ReceiveWait \/ \E f \in Senders : SendRaise(f)
  BY <1>1, <1>3, SignalSteps, SignalStepsApart, Zenon DEF WaitInv
<1>4. ASSUME NEW r \in Receivers, WaitMulti(r) PROVE WaitInv'
  BY <1>1, <1>4, MultiWaitSteps, SavedSteps, MultiStepsApart, Zenon DEF WaitInv, Fibers
<1>5. ASSUME NEW f \in Senders, RaiseMulti(f) PROVE WaitInv'
  <2>1. MultiInv' /\ scratch' \in [Receivers -> {Null, "READY_TO_WAKE"}]
    BY <1>5, MultiRaiseSteps, Zenon DEF WaitInv, SignalInv
  <2>. QED
    BY <1>1, <1>5, <2>1, SavedSteps, MultiStepsApart, Zenon DEF WaitInv, Fibers
<1>6. CASE Apart
  BY <1>1, <1>6, ApartKeeps, Zenon DEF WaitInv
<1>. QED
  BY <1>1, <1>2, <1>3, <1>4, <1>5, <1>6, ApartSteps, FibersAssumption, Zenon
     DEF Next, SenderStep, ReceiverStep, Fibers

(* fiber_signal_raise and fiber_multi_signal_raise wake a fiber once per   *)
(* wait and only when its context is saved, whatever channel they serve,   *)
(* for every number of fibers and of calls.                                *)
THEOREM SignalsWakeOnce == Spec => []WokenOnce
<1>. QED
  BY WaitInvInit, WaitInvStep, WaitInvEnough, PTL DEF Spec

-----------------------------------------------------------------------------
(***************************************************************************)
(* Every slot of the ring buffer has one owner at a time, for every size   *)
(* of the buffer and every number of fibers and of messages.               *)
(***************************************************************************)

Messages == [from : Fibers, n : Nat]

RingTypes ==
  /\ high \in Nat /\ low \in Nat
  /\ buffer \in [0 .. Size - 1 -> Messages \cup {Null}]
  /\ h \in [Fibers -> Nat] /\ l \in [Fibers -> Nat]
  /\ sent \in [Fibers -> Nat]

(* Senders push; receivers pop; the Receiver alone receives.               *)
RolesInv ==
  /\ \A f \in Senders : pc[f] \notin PopPlaces \cup ReceivePlaces
  /\ \A f \in Receivers : pc[f] \notin PushPlaces
  /\ \A f \in Receivers : pc[f] \in {"receiveread", "receivelow"} => f = Receiver

(* Places inside a call, where something was read or claimed.              *)
Inside == {"pushhigh", "pushtest", "pushcas", "pushwrite", "poplow", "popread", "popcas",
           "popclear", "receiveread", "receivelow"}

(* What the calls have read is not newer than what is there.               *)
ReadInv ==
  /\ low <= high /\ high <= low + Size
  /\ \A f \in Fibers :
       /\ pc[f] = "pushhigh" => l[f] <= low
       /\ pc[f] = "pushtest" => l[f] <= low /\ h[f] <= high
       /\ pc[f] \in {"poplow", "receiveread"} => h[f] <= high
       /\ pc[f] = "popread" => l[f] <= low /\ h[f] <= high

(* A swap that will succeed claims a position whose slot is empty (push)   *)
(* or filled (pop).                                                        *)
SwapInv ==
  \A f \in Fibers :
    /\ pc[f] = "pushcas" /\ h[f] = high => buffer[Slot(high)] = Null /\ high < low + Size
    /\ pc[f] = "pushcas" => h[f] <= high
    /\ pc[f] = "popcas" /\ l[f] = low => buffer[Slot(low)] # Null /\ low < high
    /\ pc[f] = "popcas" => l[f] <= low

(* A claimed position is within the window in which its slot is not used   *)
(* for another one, it was claimed once, and its slot is still empty       *)
(* (push) or still filled (pop).                                           *)
ClaimInv ==
  /\ \A f \in Fibers : pc[f] = "pushwrite" =>
       low <= h[f] /\ h[f] < high /\ buffer[Slot(h[f])] = Null
  /\ \A f \in Fibers : pc[f] = "popclear" =>
       l[f] < low /\ high <= l[f] + Size /\ buffer[Slot(l[f])] # Null
  /\ \A f, g \in Fibers : pc[f] = "pushwrite" /\ pc[g] = "pushwrite" /\ h[f] = h[g] => f = g
  /\ \A f, g \in Fibers : pc[f] = "popclear" /\ pc[g] = "popclear" /\ l[f] = l[g] => f = g
  /\ pc[Receiver] = "receivelow" =>
       low < high /\ \A f \in Fibers : pc[f] = "pushwrite" => h[f] # low

RingInv == PlacesInv /\ RingTypes /\ RolesInv /\ ReadInv /\ SwapInv /\ ClaimInv

-----------------------------------------------------------------------------
(* Division by the size.                                                   *)
LEMMA SlotRange ==
  ASSUME NEW i \in Nat
  PROVE  /\ Slot(i) \in 0 .. Size - 1
         /\ i = Size * (i \div Size) + Slot(i) /\ i \div Size \in Nat
BY RingAssumption, Z3, Zenon DEF Slot

(* Multiples of the size.                                                  *)
LEMMA Multiples ==
  ASSUME NEW d \in Int
  PROVE  (d >= 1 => Size * d >= Size) /\ (d <= 0 => Size * d <= 0)
BY RingAssumption

(* Positions less than a turn apart have different slots.                  *)
LEMMA SlotsDiffer ==
  ASSUME NEW i \in Nat, NEW j \in Nat, i < j, j < i + Size
  PROVE  Slot(i) # Slot(j)
<1>. SUFFICES ASSUME Slot(i) = Slot(j) PROVE FALSE
  BY Zenon
<1>1. PICK a \in Nat, b \in Nat, m \in Int : i = Size * a + m /\ j = Size * b + m
  <2>1. Slot(i) \in 0 .. Size - 1 /\ i = Size * (i \div Size) + Slot(i) /\ i \div Size \in Nat
    BY SlotRange, Zenon
  <2>2. j = Size * (j \div Size) + Slot(j) /\ j \div Size \in Nat
    BY SlotRange, Zenon
  <2>3. Slot(i) \in Int
    BY <2>1, RingAssumption
  <2>. QED
    BY <2>1, <2>2, <2>3, Zenon
<1>2. j - i = Size * (b - a)
  BY <1>1, RingAssumption
<1>3. (b - a >= 1 => Size * (b - a) >= Size) /\ (b - a <= 0 => Size * (b - a) <= 0)
  BY Multiples
<1>. QED
  BY <1>1, <1>2, <1>3, RingAssumption

(* Positions a turn apart have the same slot.                              *)
LEMMA SlotTurn ==
  ASSUME NEW i \in Nat, NEW j \in Nat, j = i + Size
  PROVE  Slot(j) = Slot(i)
<1>1. PICK a \in Nat, m \in 0 .. Size - 1 : i = Size * a + m /\ Slot(i) = m
  BY SlotRange, Zenon
<1>2. PICK b \in Nat, n \in 0 .. Size - 1 : j = Size * b + n /\ Slot(j) = n
  BY SlotRange, Zenon
<1>3. m - n = Size * (b - a - 1)
  BY <1>1, <1>2, RingAssumption
<1>4. /\ b - a - 1 >= 1 => Size * (b - a - 1) >= Size
      /\ b - a - 1 <= 0 => Size * (b - a - 1) <= 0
      /\ a + 1 - b >= 1 => Size * (a + 1 - b) >= Size
  BY Multiples
<1>5. Size * (a + 1 - b) = -(Size * (b - a - 1))
  BY RingAssumption
<1>6. b - a - 1 = 0
  BY <1>3, <1>4, <1>5, RingAssumption
<1>. QED
  BY <1>1, <1>2, <1>3, <1>6, RingAssumption

-----------------------------------------------------------------------------
(* The invariant gives the property.                                       *)
LEMMA RingInvEnough == RingInv => SlotsHaveOneOwner
<1>. SUFFICES ASSUME RingInv PROVE SlotsHaveOneOwner
  BY Zenon
<1>. USE RingAssumption DEF RingInv, RingTypes, ReadInv
<1>1. high - low <= Size
  OBVIOUS
<1>2. ASSUME NEW f \in Senders, NEW s \in Owns(f) PROVE buffer[s] = Null
  <2>1. pc[f] # "popclear" /\ f \in Fibers
    BY Zenon DEF RolesInv, PopPlaces, Fibers
  <2>. QED
    BY <1>2, <2>1, Zenon DEF Owns, ClaimInv
<1>3. ASSUME NEW f \in Fibers, NEW g \in Fibers, pc[f] = "pushwrite", pc[g] = "pushwrite",
             Slot(h[f]) = Slot(h[g])
      PROVE  f = g
  <2>1. /\ h[f] \in Nat /\ low <= h[f] /\ h[f] < high
        /\ h[g] \in Nat /\ low <= h[g] /\ h[g] < high
    BY <1>3, Zenon DEF ClaimInv
  <2>2. ~(h[f] < h[g]) /\ ~(h[g] < h[f])
    BY <1>3, <2>1, SlotsDiffer
  <2>3. h[f] = h[g]
    BY <2>1, <2>2
  <2>. QED
    BY <1>3, <2>3, Zenon DEF ClaimInv
<1>4. ASSUME NEW f \in Fibers, NEW g \in Fibers, pc[f] = "popclear", pc[g] = "popclear",
             Slot(l[f]) = Slot(l[g])
      PROVE  f = g
  <2>1. /\ l[f] \in Nat /\ l[f] < low /\ high <= l[f] + Size
        /\ l[g] \in Nat /\ l[g] < low /\ high <= l[g] + Size
    BY <1>4, Zenon DEF ClaimInv
  <2>2. ~(l[f] < l[g]) /\ ~(l[g] < l[f])
    BY <1>4, <2>1, SlotsDiffer, SMTT(30)
  <2>3. l[f] = l[g]
    BY <2>1, <2>2
  <2>. QED
    BY <1>4, <2>3, Zenon DEF ClaimInv
<1>5. ASSUME NEW f \in Fibers, NEW g \in Fibers, pc[f] = "pushwrite", pc[g] = "popclear"
      PROVE  Slot(h[f]) # Slot(l[g])
  <2>1. buffer[Slot(h[f])] = Null /\ buffer[Slot(l[g])] # Null
    BY <1>5, Zenon DEF ClaimInv
  <2>. QED
    BY <2>1, Zenon
<1>6. ASSUME NEW f \in Fibers, NEW g \in Fibers, Owns(f) \cap Owns(g) # {} PROVE f = g
  BY <1>3, <1>4, <1>5, <1>6, Zenon DEF Owns
<1>. QED
  BY <1>1, <1>2, <1>6, Zenon DEF SlotsHaveOneOwner

(* An empty buffer, and nobody inside a call.                              *)
LEMMA RingInvInit == Init => RingInv
<1>. SUFFICES ASSUME Init PROVE RingInv
  BY Zenon
<1>1. PlacesInv
  BY PlacesInit, Zenon
<1>2. /\ SendPlace \in {"multi", "work", "queue", "publish", "mraise", "push"}
      /\ ReceivePlace \in {"multi", "work", "pop", "receive", "robin", "mwait", "scan"}
  BY <1>1, Zenon DEF PlacesInv, SendPlace, ReceivePlace
<1>3. /\ \A f \in Senders : pc[f] \in {"multi", "work", "queue", "publish", "mraise", "push"}
      /\ \A f \in Receivers : pc[f] \in {"multi", "work", "pop", "receive", "robin", "mwait", "scan"}
  BY <1>2, FibersAssumption, Zenon DEF Init, Fibers
<1>4. RolesInv
  BY <1>3, Zenon DEF RolesInv, PopPlaces, PushPlaces, ReceivePlaces
<1>5. RingTypes
  BY RingAssumption, Zenon DEF Init, RingInit, RingTypes
<1>6. ReadInv /\ SwapInv /\ ClaimInv
  <2>1. high = 0 /\ low = 0
    BY Zenon DEF Init, RingInit
  <2>2. \A f \in Fibers : pc[f] \notin Inside
    BY <1>3, Zenon DEF Fibers, Inside
  <2>3. Receiver \in Fibers
    BY FibersAssumption, Zenon DEF Fibers
  <2>. QED
    BY <2>1, <2>2, <2>3, RingAssumption DEF ReadInv, SwapInv, ClaimInv, Inside
<1>. QED
  BY <1>1, <1>4, <1>5, <1>6, Zenon DEF RingInv

-----------------------------------------------------------------------------
(* A step of another part leaves the buffer alone, and moves nobody into   *)
(* a call.                                                                 *)
Aside ==
  /\ UNCHANGED <<high, low, buffer, h, l>>
  /\ sent' \in {sent} \cup {[sent EXCEPT ![f] = @ + 1] : f \in Fibers}
  /\ \A f \in Fibers : pc'[f] # pc[f] =>
       /\ pc'[f] \notin Inside
       /\ f \in Senders => pc'[f] \notin PopPlaces \cup ReceivePlaces
       /\ f \in Receivers => pc'[f] \notin PushPlaces

(* Such a step keeps the invariant.                                        *)
LEMMA AsideKeeps ==
  ASSUME RingInv, Aside, PlacesInv'
  PROVE  RingInv'
<1>1. RingTypes'
  BY DEF RingInv, RingTypes, Aside
<1>2. RolesInv'
  BY Zenon DEF RingInv, RolesInv, Aside, Inside, Fibers
<1>3. \A f \in Fibers : pc'[f] = pc[f] \/ pc'[f] \notin Inside
  BY Zenon DEF Aside
<1>4. Receiver \in Fibers
  BY FibersAssumption, Zenon DEF Fibers
<1>5. ReadInv'
  BY <1>3, Zenon DEF RingInv, ReadInv, Aside, Inside
<1>6. SwapInv'
  BY <1>3, Zenon DEF RingInv, SwapInv, Aside, Inside
<1>7. ClaimInv'
  BY <1>3, <1>4 DEF RingInv, ClaimInv, Aside, Inside
<1>. QED
  BY <1>1, <1>2, <1>5, <1>6, <1>7, Zenon DEF RingInv

(* The places where calls start are outside of them.                       *)
LEMMA CallsStart ==
  ASSUME PlacesInv
  PROVE  /\ {SendPlace, AfterSend} \cap (Inside \cup PopPlaces \cup ReceivePlaces) = {}
         /\ {ReceivePlace, AfterMiss} \cap (Inside \cup PushPlaces) = {}
<1>1. /\ SendPlace \in {"multi", "work", "queue", "publish", "mraise", "push"}
      /\ ReceivePlace \in {"multi", "work", "pop", "receive", "robin", "mwait", "scan"}
  BY Zenon DEF PlacesInv, SendPlace, ReceivePlace
<1>. QED
  BY <1>1, Zenon DEF AfterSend, AfterMiss, Inside, PopPlaces, PushPlaces, ReceivePlaces

(* The steps of the signals, the queues and the work queue.                *)
LEMMA AsideSteps ==
  ASSUME RingInv
  PROVE  /\ \A f \in Senders : SendPush(f) \/ SendLink(f) \/ SendSingle(f) \/ SendRaise(f)
                                \/ RaiseMulti(f) => Aside
         /\ \A f \in Receivers : WaitMulti(f) => Aside
         /\ \A f \in Fibers : WorkOn(f) => Aside
         /\ ReceiveScan \/ ReceiveRobin \/ ReceiveWait => Aside
<1>. pc \in [Fibers -> Allowed(setup.kind)] /\ PlacesInv
  BY Zenon DEF RingInv, PlacesInv
<1>. USE FibersAssumption DEF Fibers, GoTo, fvars, rvars, Sends, Takes
<1>1. ASSUME NEW f \in Senders, SendPush(f) \/ SendLink(f) \/ SendSingle(f) PROVE Aside
  <2>1. PICK p : pc' = [pc EXCEPT ![f] = p] /\ p \in {"link", AfterSend}
    BY <1>1, Zenon DEF SendPush, SendLink, SendSingle
  <2>2. p \notin Inside \cup PopPlaces \cup ReceivePlaces
    BY <2>1, CallsStart, Zenon DEF Inside, PopPlaces, ReceivePlaces
  <2>. QED
    BY <1>1, <2>1, <2>2, Zenon DEF Aside, SendPush, SendLink, SendSingle
<1>2. ASSUME NEW f \in Senders, SendRaise(f) PROVE Aside
  <2>1. UNCHANGED <<high, low, buffer, h, l, sent>>
    BY <1>2, Zenon DEF SendRaise
  <2>2. \A g \in Fibers : pc'[g] \in {pc[g], "raisereset", "raisewake", "woken"}
                                      \cup (IF g = f THEN {SendPlace} ELSE {})
    BY <1>2, Zenon DEF SendRaise, RaiseStep, Raise, RaiseReset, RaiseWake
  <2>. QED
    BY <2>1, <2>2, CallsStart, ZenonT(30) DEF Aside, Inside, PopPlaces, ReceivePlaces, PushPlaces
<1>3. ASSUME NEW f \in Senders, RaiseMulti(f) PROVE Aside
  <2>1. UNCHANGED <<high, low, buffer, h, l>>
    BY <1>3, Zenon DEF RaiseMulti
  <2>. USE DEF RaiseMulti, MRaiseStep, MRaiseCounter, MRaiseHead, MRaiseAgain, MRaiseNext, MRaiseSet,
               MRaisePop, MRaiseWake, ReadCounter, SwapFails
  <2>2. \A g \in Fibers : pc'[g] \in {pc[g]} \cup MultiSignalPlaces
    BY <1>3, Zenon DEF MultiSignalPlaces
  <2>3. sent' \in {sent} \cup {[sent EXCEPT ![g] = @ + 1] : g \in Fibers}
    BY <1>3, Zenon
  <2>. QED
    BY <2>1, <2>2, <2>3, ZenonT(30) DEF Aside, Inside, PopPlaces, ReceivePlaces, PushPlaces, MultiSignalPlaces
<1>4. ASSUME NEW f \in Receivers, WaitMulti(f) PROVE Aside
  <2>1. UNCHANGED <<high, low, buffer, h, l>>
    BY <1>4, Zenon DEF WaitMulti
  <2>. USE DEF WaitMulti, MWaitStep, MWaitCounter, MWaitHead, MWaitAccept, MWaitPush, MWaitSave,
               MWaitReturns, ReadCounter, SwapFails
  <2>2. \A g \in Fibers : pc'[g] \in {pc[g]} \cup MultiSignalPlaces
    BY <1>4, Zenon DEF MultiSignalPlaces
  <2>3. sent' = sent
    BY <1>4, Zenon DEF msvars
  <2>. QED
    BY <2>1, <2>2, <2>3, ZenonT(30) DEF Aside, Inside, PopPlaces, ReceivePlaces, PushPlaces, MultiSignalPlaces
<1>5. ASSUME NEW f \in Fibers, WorkOn(f) PROVE Aside
  <2>1. UNCHANGED <<high, low, buffer, h, l>>
    BY <1>5, Zenon DEF WorkOn
  <2>. USE DEF WorkOn, WorkStep, WorkCount, WorkPush, WorkLink, WorkTake, WorkNone, WorkCompare,
               WorkReset, WorkSubtract
  <2>2. \A g \in Fibers : pc'[g] \in {pc[g]} \cup WorkPlaces
    BY <1>5, Zenon DEF WorkPlaces
  <2>3. sent' \in {sent} \cup {[sent EXCEPT ![g] = @ + 1] : g \in Fibers}
    BY <1>5, Zenon
  <2>. QED
    BY <2>1, <2>2, <2>3, Zenon DEF Aside, Inside, PopPlaces, ReceivePlaces, PushPlaces, WorkPlaces
<1>6. ASSUME ReceiveScan \/ ReceiveRobin PROVE Aside
  <2>1. \A g \in Fibers : pc'[g] = pc[g] \/ (g = Receiver /\ pc'[g] = AfterMiss)
    BY <1>6, Zenon DEF ReceiveScan, ReceiveRobin
  <2>2. UNCHANGED <<high, low, buffer, h, l, sent>>
    BY <1>6, Zenon DEF ReceiveScan, ReceiveRobin
  <2>. QED
    BY <2>1, <2>2, CallsStart, ZenonT(30) DEF Aside, Inside, PopPlaces, ReceivePlaces, PushPlaces
<1>7. ASSUME ReceiveWait PROVE Aside
  <2>1. \A g \in Fibers : pc'[g] \in {pc[g]} \cup
          (IF g = Receiver THEN {"saving", "reset", "parked", ReceivePlace} ELSE {})
    BY <1>7, Zenon DEF ReceiveWait, WaitStep, WaitEnter, WaitSave, WaitReset
  <2>2. UNCHANGED <<high, low, buffer, h, l, sent>>
    BY <1>7, Zenon DEF ReceiveWait
  <2>. QED
    BY <2>1, <2>2, CallsStart, Zenon DEF Aside, Inside, PopPlaces, ReceivePlaces, PushPlaces
<1>. QED
  BY <1>1, <1>2, <1>3, <1>4, <1>5, <1>6, <1>7, Zenon

-----------------------------------------------------------------------------
(* A step in which fiber f reads: only its own place and locals change.    *)
Reads(f, p) ==
  /\ pc' = [pc EXCEPT ![f] = p]
  /\ h' \in [Fibers -> Nat] /\ l' \in [Fibers -> Nat]
  /\ \A g \in Fibers : g # f => h'[g] = h[g] /\ l'[g] = l[g]
  /\ UNCHANGED <<high, low, buffer, sent>>

(* What has to hold of what f has read when it comes to p.                 *)
ReadWell(f, p) ==
  /\ p \notin {"pushwrite", "popclear", "receivelow"}
  /\ p = "pushhigh" => l'[f] <= low
  /\ p = "pushtest" => l'[f] <= low /\ h'[f] <= high
  /\ p \in {"poplow", "receiveread"} => h'[f] <= high
  /\ p = "popread" => l'[f] <= low /\ h'[f] <= high
  /\ p = "pushcas" => /\ h'[f] <= high
                      /\ h'[f] = high => buffer[Slot(high)] = Null /\ high < low + Size
  /\ p = "popcas" => /\ l'[f] <= low
                     /\ l'[f] = low => buffer[Slot(low)] # Null /\ low < high

(* The place suits the fiber's role.                                       *)
Suits(f, p) ==
  /\ f \in Senders => p \notin PopPlaces \cup ReceivePlaces
  /\ f \in Receivers => p \notin PushPlaces
  /\ p \in {"receiveread", "receivelow"} => f = Receiver

(* A fiber that moves to a place that suits it keeps the roles.            *)
LEMMA RolesMove ==
  ASSUME RingInv, NEW f \in Fibers, NEW p, pc' = [pc EXCEPT ![f] = p], Suits(f, p)
  PROVE  RolesInv'
<1>. pc \in [Fibers -> Allowed(setup.kind)]
  BY Zenon DEF RingInv, PlacesInv
<1>. QED
  BY Zenon DEF RingInv, RolesInv, Suits, Fibers

(* A step that gives nobody a claim keeps the claims apart, as long as     *)
(* what it does to the slots is right.                                     *)
LEMMA ClaimsShrink ==
  ASSUME RingInv, UNCHANGED <<high, low>>,
         \A g \in Fibers : pc'[g] \in {"pushwrite", "popclear", "receivelow"} =>
           pc[g] = pc'[g] /\ h'[g] = h[g] /\ l'[g] = l[g],
         \A g \in Fibers : pc'[g] = "pushwrite" => buffer'[Slot(h[g])] = Null,
         \A g \in Fibers : pc'[g] = "popclear" => buffer'[Slot(l[g])] # Null
  PROVE  ClaimInv'
<1>. Receiver \in Fibers
  BY FibersAssumption, Zenon DEF Fibers
<1>1. \A g \in Fibers : pc'[g] = "pushwrite" =>
        low' <= h'[g] /\ h'[g] < high' /\ buffer'[Slot(h'[g])] = Null
  BY Zenon DEF RingInv, ClaimInv
<1>2. \A g \in Fibers : pc'[g] = "popclear" =>
        l'[g] < low' /\ high' <= l'[g] + Size /\ buffer'[Slot(l'[g])] # Null
  BY Zenon DEF RingInv, ClaimInv
<1>3. \A g, i \in Fibers : pc'[g] = "pushwrite" /\ pc'[i] = "pushwrite" /\ h'[g] = h'[i] => g = i
  BY DEF RingInv, ClaimInv
<1>4. \A g, i \in Fibers : pc'[g] = "popclear" /\ pc'[i] = "popclear" /\ l'[g] = l'[i] => g = i
  BY DEF RingInv, ClaimInv
<1>5. pc'[Receiver] = "receivelow" =>
        low' < high' /\ \A g \in Fibers : pc'[g] = "pushwrite" => h'[g] # low'
  BY Zenon DEF RingInv, ClaimInv
<1>. QED
  BY <1>1, <1>2, <1>3, <1>4, <1>5, Zenon DEF ClaimInv, Slot

(* So a step that reads well keeps the invariant.                          *)
LEMMA ReadsKeep ==
  ASSUME RingInv, NEW f \in Fibers, NEW p, Reads(f, p), ReadWell(f, p), Suits(f, p), PlacesInv'
  PROVE  RingInv'
<1>1. pc \in [Fibers -> Allowed(setup.kind)] /\ Receiver \in Fibers
  BY FibersAssumption, Zenon DEF RingInv, PlacesInv, Fibers
<1>2. pc'[f] = p /\ \A g \in Fibers : g # f => pc'[g] = pc[g]
  BY <1>1, Zenon DEF Reads
<1>3. RingTypes'
  BY Zenon DEF RingInv, RingTypes, Reads
<1>4. RolesInv'
  BY RolesMove, Zenon DEF Reads
<1>5. ReadInv'
  BY <1>2, Zenon DEF RingInv, ReadInv, Reads, ReadWell
<1>6. SwapInv'
  BY <1>2, Zenon DEF RingInv, SwapInv, Reads, ReadWell
<1>7. ClaimInv'
  <2>1. \A g \in Fibers : pc'[g] \in {"pushwrite", "popclear", "receivelow"} =>
          pc[g] = pc'[g] /\ h'[g] = h[g] /\ l'[g] = l[g]
    BY <1>2, Zenon DEF Reads, ReadWell
  <2>. QED
    BY <2>1, ClaimsShrink DEF Reads, RingInv, ClaimInv
<1>. QED
  BY <1>3, <1>4, <1>5, <1>6, <1>7, Zenon DEF RingInv

(* The loads of trypush, its test and its failed swap.                     *)
LEMMA PushReads ==
  ASSUME RingInv, PlacesInv', NEW f \in Senders,
         PushLow(f) \/ PushHigh(f) \/ PushTest(f) \/ PushCasFails(f)
  PROVE  RingInv'
<1>. f \in Fibers /\ f \notin Receivers
  BY FibersAssumption, Zenon DEF Fibers
<1>. USE RingAssumption DEF GoTo, Forgets, fvars, Suits, PushPlaces, PopPlaces, ReceivePlaces
<1>. high \in Nat /\ low \in Nat /\ h \in [Fibers -> Nat] /\ l \in [Fibers -> Nat]
  BY Zenon DEF RingInv, RingTypes
<1>1. CASE PushLow(f)
  <2>1. Reads(f, "pushhigh") /\ ReadWell(f, "pushhigh") /\ Suits(f, "pushhigh")
    BY <1>1 DEF PushLow, Reads, ReadWell
  <2>. QED
    BY <2>1, ReadsKeep, Zenon
<1>2. CASE PushHigh(f)
  <2>1. Reads(f, "pushtest") /\ ReadWell(f, "pushtest") /\ Suits(f, "pushtest")
    BY <1>2 DEF PushHigh, Reads, ReadWell, RingInv, ReadInv
  <2>. QED
    BY <2>1, ReadsKeep, Zenon
<1>3. CASE PushTest(f) /\ Room(f)
  <2>1. Reads(f, "pushcas") /\ Suits(f, "pushcas")
    BY <1>3, Zenon DEF PushTest, Reads
  <2>2. ReadWell(f, "pushcas")
    BY <1>3 DEF PushTest, Room, ReadWell, RingInv, ReadInv
  <2>. QED
    BY <2>1, <2>2, ReadsKeep, Zenon
<1>4. CASE (PushTest(f) /\ ~Room(f)) \/ PushCasFails(f)
  <2>1. Reads(f, "push") /\ ReadWell(f, "push") /\ Suits(f, "push")
    BY <1>4 DEF PushTest, PushCasFails, Reads, ReadWell
  <2>. QED
    BY <2>1, ReadsKeep, Zenon
<1>. QED
  BY <1>1, <1>2, <1>3, <1>4, Zenon

(* The loads of trypop, its test and its failed swap.                      *)
LEMMA PopReads ==
  ASSUME RingInv, PlacesInv', NEW f \in Receivers,
         PopHigh(f) \/ PopLow(f) \/ PopRead(f) \/ PopCasFails(f)
  PROVE  RingInv'
<1>. f \in Fibers /\ f \notin Senders
  BY FibersAssumption, Zenon DEF Fibers
<1>. USE RingAssumption DEF GoTo, Forgets, fvars, Suits, PushPlaces, PopPlaces, ReceivePlaces
<1>. high \in Nat /\ low \in Nat /\ h \in [Fibers -> Nat] /\ l \in [Fibers -> Nat]
  BY Zenon DEF RingInv, RingTypes
<1>1. CASE PopHigh(f)
  <2>1. Reads(f, "poplow") /\ ReadWell(f, "poplow") /\ Suits(f, "poplow")
    BY <1>1 DEF PopHigh, Reads, ReadWell
  <2>. QED
    BY <2>1, ReadsKeep, Zenon
<1>2. CASE PopLow(f)
  <2>1. Reads(f, "popread") /\ ReadWell(f, "popread") /\ Suits(f, "popread")
    BY <1>2 DEF PopLow, Reads, ReadWell, RingInv, ReadInv
  <2>. QED
    BY <2>1, ReadsKeep, Zenon
<1>3. CASE PopRead(f) /\ Filled(f)
  <2>1. Reads(f, "popcas") /\ Suits(f, "popcas")
    BY <1>3, Zenon DEF PopRead, Reads
  <2>2. ReadWell(f, "popcas")
    BY <1>3 DEF PopRead, Filled, ReadWell, RingInv, ReadInv
  <2>. QED
    BY <2>1, <2>2, ReadsKeep, Zenon
<1>4. CASE (PopRead(f) /\ ~Filled(f)) \/ PopCasFails(f)
  <2>1. Reads(f, "pop") /\ ReadWell(f, "pop") /\ Suits(f, "pop")
    BY <1>4 DEF PopRead, PopCasFails, Reads, ReadWell
  <2>. QED
    BY <2>1, ReadsKeep, Zenon
<1>. QED
  BY <1>1, <1>2, <1>3, <1>4, Zenon

-----------------------------------------------------------------------------
(* A push claims the position at high.  It was found empty, so that no     *)
(* pop has yet to clear it.                                                *)
LEMMA PushClaims ==
  ASSUME RingInv, PlacesInv', NEW f \in Senders, PushCas(f)
  PROVE  RingInv'
<1>0. f \in Fibers /\ f \notin Receivers /\ Receiver \in Fibers /\ f # Receiver
  BY FibersAssumption, Zenon DEF Fibers
<1>1. /\ high \in Nat /\ low \in Nat /\ h \in [Fibers -> Nat] /\ l \in [Fibers -> Nat]
      /\ pc \in [Fibers -> Allowed(setup.kind)]
  BY Zenon DEF RingInv, RingTypes, PlacesInv
<1>2. /\ pc[f] = "pushcas" /\ h[f] = high /\ high' = high + 1
      /\ pc'[f] = "pushwrite" /\ \A g \in Fibers : g # f => pc'[g] = pc[g]
      /\ UNCHANGED <<low, buffer, h, l, sent>>
  BY <1>0, <1>1, Zenon DEF PushCas, GoTo, fvars
<1>3. buffer[Slot(high)] = Null /\ high < low + Size /\ low <= high
  BY <1>0, <1>2, Zenon DEF RingInv, SwapInv, ReadInv
<1>4. RingTypes'
  BY <1>2 DEF RingInv, RingTypes
<1>5. RolesInv'
  BY <1>0, RolesMove, ZenonT(30) DEF PushCas, GoTo, Suits, PopPlaces, ReceivePlaces
<1>6. ReadInv'
  BY <1>1, <1>2, <1>3, RingAssumption, SMTT(30) DEF RingInv, ReadInv
<1>7. SwapInv'
  BY <1>1, <1>2, <1>3, RingAssumption DEF RingInv, SwapInv
<1>8. \A g \in Fibers : pc[g] = "popclear" => high + 1 <= l[g] + Size
  <2>1. ASSUME NEW g \in Fibers, pc[g] = "popclear", high = l[g] + Size PROVE FALSE
    <3>1. Slot(high) = Slot(l[g])
      BY <1>1, <2>1, SlotTurn, Zenon
    <3>. QED
      BY <1>3, <2>1, <3>1, Zenon DEF RingInv, ClaimInv
  <2>. QED
    BY <1>1, <2>1, RingAssumption DEF RingInv, ClaimInv
<1>9. ClaimInv'
  <2>1. \A g \in Fibers : pc'[g] = "pushwrite" =>
          low' <= h'[g] /\ h'[g] < high' /\ buffer'[Slot(h'[g])] = Null
    BY <1>0, <1>1, <1>2, <1>3 DEF RingInv, ClaimInv
  <2>2. \A g \in Fibers : pc'[g] = "popclear" =>
          l'[g] < low' /\ high' <= l'[g] + Size /\ buffer'[Slot(l'[g])] # Null
    BY <1>1, <1>2, <1>8, Zenon DEF RingInv, ClaimInv
  <2>3. \A g \in Fibers : g # f /\ pc[g] = "pushwrite" => h[g] # high
    BY <1>1 DEF RingInv, ClaimInv
  <2>4. \A a, b \in Fibers :
          pc'[a] = "pushwrite" /\ pc'[b] = "pushwrite" /\ h'[a] = h'[b] => a = b
    BY <1>2, <2>3, ZenonT(30) DEF RingInv, ClaimInv
  <2>5. \A a, b \in Fibers :
          pc'[a] = "popclear" /\ pc'[b] = "popclear" /\ l'[a] = l'[b] => a = b
    BY <1>2, ZenonT(30) DEF RingInv, ClaimInv
  <2>6. pc'[Receiver] = "receivelow" =>
          low' < high' /\ \A g \in Fibers : pc'[g] = "pushwrite" => h'[g] # low'
    BY <1>0, <1>1, <1>2 DEF RingInv, ClaimInv
  <2>. QED
    BY <2>1, <2>2, <2>4, <2>5, <2>6, Zenon DEF ClaimInv
<1>. QED
  BY <1>4, <1>5, <1>6, <1>7, <1>9, Zenon DEF RingInv

(* The push stores its message into a slot that is nobody else's.          *)
LEMMA PushStores ==
  ASSUME RingInv, PlacesInv', NEW f \in Senders, PushWrite(f, AfterSend)
  PROVE  RingInv'
<1>0. f \in Fibers /\ f \notin Receivers /\ Receiver \in Fibers /\ f # Receiver
  BY FibersAssumption, Zenon DEF Fibers
<1>1. /\ high \in Nat /\ low \in Nat /\ h \in [Fibers -> Nat] /\ l \in [Fibers -> Nat]
      /\ pc \in [Fibers -> Allowed(setup.kind)] /\ sent \in [Fibers -> Nat]
      /\ buffer \in [0 .. Size - 1 -> Messages \cup {Null}]
  BY Zenon DEF RingInv, RingTypes, PlacesInv
<1>2. /\ pc[f] = "pushwrite"
      /\ pc'[f] = AfterSend /\ \A g \in Fibers : g # f => pc'[g] = pc[g]
      /\ \A g \in Fibers : g # f => h'[g] = h[g] /\ l'[g] = l[g]
      /\ h' \in [Fibers -> Nat] /\ l' \in [Fibers -> Nat]
      /\ buffer' = [buffer EXCEPT ![Slot(h[f])] = Message(f)]
      /\ UNCHANGED <<high, low>>
  BY <1>0, <1>1, Zenon DEF PushWrite, GoTo, Forgets
<1>3. AfterSend \notin Inside \cup PopPlaces \cup ReceivePlaces
  BY CallsStart, Zenon DEF RingInv
<1>4. Message(f) \in Messages /\ Message(f) # Null
  BY <1>0, <1>1, FibersAssumption DEF Message, Messages
<1>5. Slot(h[f]) \in 0 .. Size - 1 /\ low <= h[f] /\ h[f] < high /\ high <= low + Size
  BY <1>0, <1>1, <1>2, SlotRange, Zenon DEF RingInv, ClaimInv, ReadInv
<1>6. RingTypes'
  <2>1. sent' \in [Fibers -> Nat]
    BY <1>0, <1>1 DEF PushWrite, Sends
  <2>2. buffer' \in [0 .. Size - 1 -> Messages \cup {Null}]
    BY <1>1, <1>2, <1>4, Zenon
  <2>. QED
    BY <1>1, <1>2, <2>1, <2>2, Zenon DEF RingTypes
<1>7. RolesInv'
  BY <1>0, <1>3, RolesMove, Zenon DEF PushWrite, GoTo, Suits, Inside
<1>8. ReadInv'
  BY <1>2, <1>3, Zenon DEF RingInv, ReadInv, Inside
<1>9. /\ buffer'[Slot(h[f])] # Null
      /\ \A s \in 0 .. Size - 1 : s # Slot(h[f]) => buffer'[s] = buffer[s]
  BY <1>1, <1>2, <1>4, <1>5, Zenon
<1>10. SwapInv'
  <2>1. high < low + Size => Slot(high) # Slot(h[f])
    BY <1>0, <1>1, <1>5, SlotsDiffer, RingAssumption, SMTT(30)
  <2>2. high < low + Size => buffer'[Slot(high)] = buffer[Slot(high)]
    BY <1>1, <1>9, <2>1, SlotRange, Zenon
  <2>3. buffer[Slot(low)] # Null => buffer'[Slot(low)] # Null
    BY <1>1, <1>9, SlotRange, ZenonT(30)
  <2>. QED
    BY <1>2, <1>3, <2>2, <2>3, Zenon DEF RingInv, SwapInv, Inside
<1>11. ClaimInv'
  <2>1. \A g \in Fibers : pc'[g] \in {"pushwrite", "popclear", "receivelow"} =>
          g # f /\ pc[g] = pc'[g] /\ h'[g] = h[g] /\ l'[g] = l[g]
    BY <1>2, <1>3, Zenon DEF Inside
  <2>2. ASSUME NEW g \in Fibers, pc'[g] = "pushwrite"
        PROVE  buffer'[Slot(h[g])] = Null
    <3>1. Slot(h[g]) # Slot(h[f])
      BY <1>0, <1>2, <2>1, <2>2, RingInvEnough, Zenon DEF SlotsHaveOneOwner, Owns
    <3>2. buffer[Slot(h[g])] = Null
      BY <2>1, <2>2, Zenon DEF RingInv, ClaimInv
    <3>. QED
      BY <1>1, <1>9, <3>1, <3>2, SlotRange, ZenonT(30)
  <2>3. ASSUME NEW g \in Fibers, pc'[g] = "popclear"
        PROVE  buffer'[Slot(l[g])] # Null
    <3>1. buffer[Slot(l[g])] # Null
      BY <2>1, <2>3, Zenon DEF RingInv, ClaimInv
    <3>. QED
      BY <1>1, <1>9, <3>1, SlotRange, Zenon
  <2>. QED
    BY <1>2, <2>1, <2>2, <2>3, ClaimsShrink, Zenon
<1>. QED
  BY <1>6, <1>7, <1>8, <1>10, <1>11, Zenon DEF RingInv

(* A pop claims the position at low, which was found filled, so that no    *)
(* push has yet to store there.                                            *)
LEMMA PopClaims ==
  ASSUME RingInv, PlacesInv', NEW f \in Receivers, PopCas(f)
  PROVE  RingInv'
<1>0. f \in Fibers /\ f \notin Senders /\ Receiver \in Fibers
  BY FibersAssumption, Zenon DEF Fibers
<1>1. /\ high \in Nat /\ low \in Nat /\ h \in [Fibers -> Nat] /\ l \in [Fibers -> Nat]
      /\ pc \in [Fibers -> Allowed(setup.kind)]
  BY Zenon DEF RingInv, RingTypes, PlacesInv
<1>2. /\ pc[f] = "popcas" /\ l[f] = low /\ low' = low + 1
      /\ pc'[f] = "popclear" /\ \A g \in Fibers : g # f => pc'[g] = pc[g]
      /\ UNCHANGED <<high, buffer, h, l, sent>>
  BY <1>0, <1>1, SMTT(30) DEF PopCas, GoTo, Takes
<1>3. buffer[Slot(low)] # Null /\ low < high /\ high <= low + Size
  BY <1>0, <1>2, Zenon DEF RingInv, SwapInv, ReadInv
<1>4. RingTypes'
  <2>1. low' \in Nat
    BY <1>1, <1>2
  <2>. QED
    BY <1>2, <2>1, Zenon DEF RingInv, RingTypes
<1>5. RolesInv'
  BY <1>0, RolesMove, Zenon DEF PopCas, GoTo, Suits, PushPlaces
<1>6. ReadInv'
  BY <1>1, <1>2, <1>3, RingAssumption, SMTT(30) DEF RingInv, ReadInv
<1>7. SwapInv'
  BY <1>1, <1>2, <1>3, RingAssumption, SMTT(30) DEF RingInv, SwapInv
<1>8. \A g \in Fibers : pc[g] = "pushwrite" => low + 1 <= h[g]
  BY <1>1, <1>3 DEF RingInv, ClaimInv
<1>9. pc'[Receiver] # "receivelow"
  BY <1>0, <1>1, <1>2, Zenon DEF RingInv, PlacesInv, Kinds, Allowed, PushPlaces, PopPlaces, ReceivePlaces,
     SignalPlaces, MultiSignalPlaces, WorkPlaces
<1>10. ClaimInv'
  <2>1. \A g \in Fibers : pc'[g] = "pushwrite" =>
          low' <= h'[g] /\ h'[g] < high' /\ buffer'[Slot(h'[g])] = Null
    BY <1>0, <1>1, <1>2, <1>8, Zenon DEF RingInv, ClaimInv
  <2>2. \A g \in Fibers : pc'[g] = "popclear" =>
          l'[g] < low' /\ high' <= l'[g] + Size /\ buffer'[Slot(l'[g])] # Null
    BY <1>1, <1>2, <1>3, SMTT(30) DEF RingInv, ClaimInv
  <2>3. \A g \in Fibers : g # f /\ pc[g] = "popclear" => l[g] # low
    BY <1>1 DEF RingInv, ClaimInv
  <2>4. \A a, b \in Fibers :
          pc'[a] = "popclear" /\ pc'[b] = "popclear" /\ l'[a] = l'[b] => a = b
    BY <1>2, <2>3, ZenonT(30) DEF RingInv, ClaimInv
  <2>5. \A a, b \in Fibers :
          pc'[a] = "pushwrite" /\ pc'[b] = "pushwrite" /\ h'[a] = h'[b] => a = b
    BY <1>2, ZenonT(30) DEF RingInv, ClaimInv
  <2>. QED
    BY <1>9, <2>1, <2>2, <2>4, <2>5, Zenon DEF ClaimInv
<1>. QED
  BY <1>4, <1>5, <1>6, <1>7, <1>10, Zenon DEF RingInv

(* The pop clears the slot it has claimed.                                 *)
LEMMA PopClears ==
  ASSUME RingInv, PlacesInv', NEW f \in Receivers, PopClear(f)
  PROVE  RingInv'
<1>0. f \in Fibers /\ f \notin Senders /\ Receiver \in Fibers
  BY FibersAssumption, Zenon DEF Fibers
<1>1. /\ high \in Nat /\ low \in Nat /\ h \in [Fibers -> Nat] /\ l \in [Fibers -> Nat]
      /\ pc \in [Fibers -> Allowed(setup.kind)]
      /\ buffer \in [0 .. Size - 1 -> Messages \cup {Null}]
  BY Zenon DEF RingInv, RingTypes, PlacesInv
<1>2. /\ pc[f] = "popclear"
      /\ pc'[f] = "pop" /\ \A g \in Fibers : g # f => pc'[g] = pc[g]
      /\ \A g \in Fibers : g # f => h'[g] = h[g] /\ l'[g] = l[g]
      /\ h' \in [Fibers -> Nat] /\ l' \in [Fibers -> Nat]
      /\ buffer' = [buffer EXCEPT ![Slot(l[f])] = Null]
      /\ UNCHANGED <<high, low, sent>>
  BY <1>0, <1>1, Zenon DEF PopClear, GoTo, Forgets, fvars
<1>3. /\ Slot(l[f]) \in 0 .. Size - 1 /\ l[f] < low /\ high <= l[f] + Size
      /\ low <= high /\ high <= low + Size
  BY <1>0, <1>1, <1>2, SlotRange, Zenon DEF RingInv, ClaimInv, ReadInv
<1>4. RingTypes'
  BY <1>1, <1>2, Zenon DEF RingInv, RingTypes
<1>5. RolesInv'
  BY <1>0, RolesMove, Zenon DEF PopClear, GoTo, Suits, PushPlaces
<1>6. ReadInv'
  BY <1>2, Zenon DEF RingInv, ReadInv
<1>7. \A s \in 0 .. Size - 1 : buffer'[s] = IF s = Slot(l[f]) THEN Null ELSE buffer[s]
  BY <1>1, <1>2, <1>3, SMTT(30)
<1>8. SwapInv'
  <2>1. low < high => Slot(low) # Slot(l[f])
    BY <1>0, <1>1, <1>3, SlotsDiffer, RingAssumption
  <2>2. low < high => buffer'[Slot(low)] = buffer[Slot(low)]
    BY <1>1, <1>7, <2>1, SlotRange, Zenon
  <2>3. buffer[Slot(high)] = Null => buffer'[Slot(high)] = Null
    BY <1>1, <1>7, SlotRange, ZenonT(30)
  <2>. QED
    BY <1>2, <2>2, <2>3, Zenon DEF RingInv, SwapInv
<1>9. ClaimInv'
  <2>1. \A g \in Fibers : pc'[g] \in {"pushwrite", "popclear", "receivelow"} =>
          g # f /\ pc[g] = pc'[g] /\ h'[g] = h[g] /\ l'[g] = l[g]
    BY <1>2, Zenon
  <2>2. ASSUME NEW g \in Fibers, pc'[g] = "pushwrite"
        PROVE  buffer'[Slot(h[g])] = Null
    <3>1. buffer[Slot(h[g])] = Null
      BY <2>1, <2>2, Zenon DEF RingInv, ClaimInv
    <3>. QED
      BY <1>1, <1>7, <3>1, SlotRange, ZenonT(30)
  <2>3. ASSUME NEW g \in Fibers, pc'[g] = "popclear"
        PROVE  buffer'[Slot(l[g])] # Null
    <3>1. Slot(l[g]) # Slot(l[f])
      BY <1>0, <1>2, <2>1, <2>3, RingInvEnough, ZenonT(30) DEF SlotsHaveOneOwner, Owns
    <3>2. buffer[Slot(l[g])] # Null
      BY <2>1, <2>3, Zenon DEF RingInv, ClaimInv
    <3>. QED
      BY <1>1, <1>7, <3>1, <3>2, SlotRange, Zenon
  <2>. QED
    BY <1>2, <2>1, <2>2, <2>3, ClaimsShrink, Zenon
<1>. QED
  BY <1>4, <1>5, <1>6, <1>8, <1>9, Zenon DEF RingInv

-----------------------------------------------------------------------------
(* fiber_bounded_channel_receive clears the slot before it moves low.      *)
LEMMA ReceiveSteps ==
  ASSUME RingInv, PlacesInv', ReceiveHigh \/ ReceiveRead \/ ReceiveLow
  PROVE  RingInv'
<1>0. Receiver \in Fibers /\ Receiver \notin Senders /\ Receiver \in Receivers
  BY FibersAssumption, Zenon DEF Fibers
<1>1. /\ high \in Nat /\ low \in Nat /\ h \in [Fibers -> Nat] /\ l \in [Fibers -> Nat]
      /\ pc \in [Fibers -> Allowed(setup.kind)]
      /\ buffer \in [0 .. Size - 1 -> Messages \cup {Null}]
  BY Zenon DEF RingInv, RingTypes, PlacesInv
<1>2. setup.kind = "bounded" /\ \A g \in Fibers : pc[g] \notin PopPlaces
  BY <1>0, <1>1, ZenonT(30) DEF RingInv, PlacesInv, Kinds, Allowed, PushPlaces, PopPlaces,
     ReceivePlaces, SignalPlaces, MultiSignalPlaces, WorkPlaces, ReceiveHigh, ReceiveRead, ReceiveLow
<1>3. CASE ReceiveHigh
  <2>1. Reads(Receiver, "receiveread") /\ ReadWell(Receiver, "receiveread")
    BY <1>0, <1>1, <1>3 DEF ReceiveHigh, GoTo, Reads, ReadWell, fvars
  <2>2. Suits(Receiver, "receiveread")
    BY <1>0, Zenon DEF Suits, PushPlaces
  <2>. QED
    BY <1>0, <2>1, <2>2, ReadsKeep, Zenon
<1>4. CASE ReceiveRead /\ ~(buffer[Slot(low)] # Null /\ h[Receiver] > low)
  <2>1. Reads(Receiver, AfterMiss)
    BY <1>0, <1>1, <1>4, Zenon DEF ReceiveRead, GoTo, Reads, fvars
  <2>2. AfterMiss \notin Inside \cup PushPlaces
    BY CallsStart, Zenon DEF RingInv
  <2>3. ReadWell(Receiver, AfterMiss) /\ Suits(Receiver, AfterMiss)
    BY <1>0, <2>2, Zenon DEF ReadWell, Suits, Inside
  <2>. QED
    BY <1>0, <2>1, <2>3, ReadsKeep, Zenon
<1>5. CASE ReceiveRead /\ buffer[Slot(low)] # Null /\ h[Receiver] > low
  <2>1. /\ pc[Receiver] = "receiveread"
        /\ pc'[Receiver] = "receivelow" /\ \A g \in Fibers : g # Receiver => pc'[g] = pc[g]
        /\ \A g \in Fibers : g # Receiver => h'[g] = h[g]
        /\ h' \in [Fibers -> Nat]
        /\ buffer' = [buffer EXCEPT ![Slot(low)] = Null]
        /\ UNCHANGED <<high, low, l, sent>>
    BY <1>0, <1>1, <1>5, Zenon DEF ReceiveRead, GoTo, Takes
  <2>2. Slot(low) \in 0 .. Size - 1 /\ low < high
    BY <1>0, <1>1, <1>5, <2>1, SlotRange, SMTT(30) DEF RingInv, ReadInv
  <2>3. RingTypes'
    BY <1>1, <2>1, ZenonT(30) DEF RingInv, RingTypes
  <2>4. RolesInv'
    BY <1>0, <1>5, RolesMove, SMTT(30) DEF ReceiveRead, GoTo, Suits, PushPlaces
  <2>5. ReadInv'
    BY <2>1, Zenon DEF RingInv, ReadInv
  <2>6. \A i \in Nat : buffer[Slot(i)] = Null => buffer'[Slot(i)] = Null
    BY <1>1, <2>1, <2>2, SlotRange, ZenonT(30)
  <2>7. SwapInv'
    BY <1>1, <1>2, <2>1, <2>6, Zenon DEF RingInv, SwapInv, PopPlaces
  <2>8. \A g \in Fibers : pc[g] = "pushwrite" => h[g] # low
    BY <1>5, Zenon DEF RingInv, ClaimInv
  <2>9. ClaimInv'
    <3>1. \A g \in Fibers : pc'[g] # "popclear"
      BY <1>2, <2>1, Zenon DEF PopPlaces
    <3>2. \A g \in Fibers : pc'[g] = "pushwrite" => pc[g] = "pushwrite" /\ h'[g] = h[g]
      BY <2>1, Zenon
    <3>3. \A g \in Fibers : pc'[g] = "pushwrite" =>
            low' <= h'[g] /\ h'[g] < high' /\ buffer'[Slot(h'[g])] = Null
      BY <1>1, <2>1, <2>6, <3>2, SMTT(30) DEF RingInv, ClaimInv
    <3>4. \A a, b \in Fibers :
            pc'[a] = "pushwrite" /\ pc'[b] = "pushwrite" /\ h'[a] = h'[b] => a = b
      BY <3>2, ZenonT(30) DEF RingInv, ClaimInv
    <3>. QED
      BY <2>1, <2>2, <2>8, <3>1, <3>2, <3>3, <3>4, Zenon DEF ClaimInv
  <2>. QED
    BY <2>3, <2>4, <2>5, <2>7, <2>9, SMTT(30) DEF RingInv
<1>6. CASE ReceiveLow
  <2>1. /\ pc[Receiver] = "receivelow" /\ low' = low + 1
        /\ pc'[Receiver] = "receive" /\ \A g \in Fibers : g # Receiver => pc'[g] = pc[g]
        /\ UNCHANGED <<high, h, l, buffer, sent>>
    BY <1>0, <1>1, <1>6, SMTT(30) DEF ReceiveLow, GoTo, fvars
  <2>2. low < high /\ \A g \in Fibers : pc[g] = "pushwrite" => h[g] # low
    BY <2>1, Zenon DEF RingInv, ClaimInv
  <2>3. RingTypes'
    BY <1>1, <2>1, SMTT(30) DEF RingInv, RingTypes
  <2>4. RolesInv'
    BY <1>0, <1>6, RolesMove, Zenon DEF ReceiveLow, GoTo, Suits, PushPlaces
  <2>5. ReadInv'
    BY <1>1, <1>2, <2>1, <2>2, RingAssumption, SMTT(30) DEF RingInv, ReadInv
  <2>6. SwapInv'
    <3>1. \A g \in Fibers : pc'[g] # "popcas" /\ (pc'[g] = "pushcas" => pc[g] = "pushcas")
      BY <1>2, <2>1, Zenon DEF PopPlaces
    <3>2. high < low + Size => high' < low' + Size
      BY <1>1, <2>1, RingAssumption
    <3>3. Slot(high') = Slot(high) /\ high' = high /\ h' = h /\ buffer' = buffer
      BY <2>1, Zenon
    <3>. QED
      BY <3>1, <3>2, <3>3, Zenon DEF RingInv, SwapInv
  <2>7. ClaimInv'
    <3>1. \A g \in Fibers : pc'[g] # "popclear" /\ (pc'[g] = "pushwrite" => pc[g] = "pushwrite")
      BY <1>2, <2>1, Zenon DEF PopPlaces
    <3>2. \A g \in Fibers : pc'[g] = "pushwrite" =>
            low' <= h'[g] /\ h'[g] < high' /\ buffer'[Slot(h'[g])] = Null
      BY <1>1, <2>1, <2>2, <3>1, SMTT(30) DEF RingInv, ClaimInv
    <3>3. \A a, b \in Fibers :
            pc'[a] = "pushwrite" /\ pc'[b] = "pushwrite" /\ h'[a] = h'[b] => a = b
      BY <2>1, <3>1, Zenon DEF RingInv, ClaimInv
    <3>. QED
      BY <2>1, <3>1, <3>2, <3>3, Zenon DEF ClaimInv
  <2>. QED
    BY <2>3, <2>4, <2>5, <2>6, <2>7, Zenon DEF RingInv
<1>. QED
  BY <1>3, <1>4, <1>5, <1>6, Zenon

(* In a multi channel nobody is ever inside a call, since a round of its   *)
(* loops is one step.                                                      *)
LEMMA MultiSteps ==
  ASSUME RingInv, PlacesInv', NEW f \in Fibers,
         (f \in Senders /\ MultiSend(f)) \/ (f \in Receivers /\ MultiReceive(f))
  PROVE  RingInv'
<1>1. /\ high \in Nat /\ low \in Nat /\ h \in [Fibers -> Nat] /\ l \in [Fibers -> Nat]
      /\ pc \in [Fibers -> Allowed(setup.kind)] /\ sent \in [Fibers -> Nat]
      /\ buffer \in [0 .. Size - 1 -> Messages \cup {Null}]
      /\ low <= high /\ high <= low + Size
  BY Zenon DEF RingInv, RingTypes, PlacesInv, ReadInv
<1>2. setup.kind = "multi" /\ setup' = setup
  BY <1>1, Zenon DEF RingInv, PlacesInv, Kinds, Allowed, PushPlaces, PopPlaces, ReceivePlaces,
     SignalPlaces, MultiSignalPlaces, WorkPlaces, MultiSend, MultiReceive
<1>3. \A g \in Fibers : pc'[g] \in {"multi", "asleep"}
  BY <1>2, Zenon DEF PlacesInv, Allowed
<1>4. Receiver \in Fibers
  BY FibersAssumption, Zenon DEF Fibers
<1>5. RolesInv'
  BY <1>3, Zenon DEF RolesInv, PushPlaces, PopPlaces, ReceivePlaces, Fibers
<1>6. high' \in Nat /\ low' \in Nat /\ low' <= high' /\ high' <= low' + Size
  BY <1>1, RingAssumption, SMTT(30) DEF MultiSend, MultiReceive
<1>7. RingTypes'
  <2>1. Message(f) \in Messages
    BY <1>1 DEF Message, Messages
  <2>2. buffer' \in [0 .. Size - 1 -> Messages \cup {Null}]
    BY <1>1, <2>1, SMTT(30) DEF MultiSend, MultiReceive
  <2>3. sent' \in [Fibers -> Nat]
    <3>1. sent' = sent \/ sent' = [sent EXCEPT ![f] = @ + 1]
      BY ZenonT(30) DEF MultiSend, MultiReceive, Sends, Takes, fvars
    <3>2. sent \in [Fibers -> Nat]
      BY <1>1, Zenon
    <3>. QED
      BY ONLY <3>1, <3>2, f \in Fibers
  <2>4. h' = h /\ l' = l
    BY ZenonT(30) DEF MultiSend, MultiReceive
  <2>. QED
    BY <1>1, <1>6, <2>2, <2>3, <2>4, Zenon DEF RingTypes
<1>8. ReadInv' /\ SwapInv' /\ ClaimInv'
  BY <1>3, <1>4, <1>6, Zenon DEF ReadInv, SwapInv, ClaimInv
<1>. QED
  BY <1>5, <1>7, <1>8, Zenon DEF RingInv

-----------------------------------------------------------------------------
(* The ring buffer never holds more than its size, two fibers never own    *)
(* the same slot, and no push stores over a message: for every size and    *)
(* every number of fibers and of messages, also where one fiber receives   *)
(* with the shorter code of the bounded channel.                           *)
THEOREM RingSlotsHaveOneOwner == Spec => []SlotsHaveOneOwner
<1>1. RingInv /\ [Next]_vars => RingInv'
  <2>. SUFFICES ASSUME RingInv, [Next]_vars PROVE RingInv'
    BY Zenon
  <2>1. PlacesInv'
    BY PlacesStep, Zenon DEF RingInv
  <2>2. CASE UNCHANGED vars
    BY <2>1, <2>2, ZenonT(30)
    DEF vars, fvars, rvars, RingInv, RingTypes, RolesInv, ReadInv, SwapInv, ClaimInv
  <2>3. ASSUME NEW f \in Senders, SendBounded(f) PROVE RingInv'
    BY <2>1, <2>3, PushReads, PushClaims, PushStores, Zenon DEF SendBounded, PushStep
  <2>4. ASSUME NEW f \in Receivers, ReceivePop(f) PROVE RingInv'
    BY <2>1, <2>4, PopReads, PopClaims, PopClears, Zenon DEF ReceivePop, PopStep
  <2>5. CASE ReceiveHigh \/ ReceiveRead \/ ReceiveLow
    BY <2>1, <2>5, ReceiveSteps, Zenon
  <2>6. ASSUME NEW f \in Senders, MultiSend(f) PROVE RingInv'
    BY <2>1, <2>6, MultiSteps, Zenon DEF Fibers
  <2>7. ASSUME NEW f \in Receivers, MultiReceive(f) PROVE RingInv'
    BY <2>1, <2>7, MultiSteps, Zenon DEF Fibers
  <2>8. CASE Aside
    BY <2>1, <2>8, AsideKeeps, Zenon
  <2>9. CASE \E f \in Senders : SenderStep(f)
    BY <2>3, <2>6, <2>8, <2>9, AsideSteps, Zenon DEF SenderStep, Fibers
  <2>10. CASE \E r \in Receivers : ReceiverStep(r)
    BY <2>4, <2>5, <2>7, <2>8, <2>10, AsideSteps, Zenon DEF ReceiverStep, Fibers
  <2>. QED
    BY <2>2, <2>9, <2>10, Zenon DEF Next
<1>. QED
  BY <1>1, RingInvInit, RingInvEnough, PTL DEF Spec

-----------------------------------------------------------------------------
(* The work queue has one worker at a time, and has one as long as an item *)
(* is counted.                                                             *)
INSTANCE FiniteSetTheorems

(* Fibers whose item is counted and not yet in the fifo.                   *)
Pushing == {f \in Fibers : pc[f] = "workpush"}

Item == [fiber : [from : Fibers, n : Int], linked : BOOLEAN]

WorkTypes ==
  /\ in_count \in Nat /\ out_count \in Nat /\ old \in Nat
  /\ ret \in [Fibers -> {"START_WORKING", "QUEUED"}]
  /\ fifo \in Seq(Item)
  /\ sent \in [Fibers -> Int]

(* Every counted item is on its way into the fifo, in it, or was taken.    *)
(* What old_out_count holds was taken off out_count but not off in_count.  *)
CountsInv ==
  /\ in_count = Cardinality(Pushing) + Len(fifo) + out_count + old
  /\ (\A f \in Fibers : pc[f] # "subtract") => old = 0

WorkerInv ==
  /\ \A f, g \in Workers : f = g
  /\ in_count > 0 <=> Workers # {}

WorkInv == PlacesInv /\ WorkTypes /\ CountsInv /\ WorkerInv

-----------------------------------------------------------------------------
(* Sizes of the set of pushing fibers.                                     *)
LEMMA PushingFinite ==
  /\ IsFiniteSet(Pushing) /\ Cardinality(Pushing) \in Nat
  /\ \A f \in Fibers : IsFiniteSet(Pushing \cup {f}) /\ IsFiniteSet(Pushing \ {f})
  /\ \A f \in Fibers : f \notin Pushing => Cardinality(Pushing \cup {f}) = Cardinality(Pushing) + 1
  /\ \A f \in Fibers : f \in Pushing => Cardinality(Pushing \ {f}) = Cardinality(Pushing) - 1
<1>1. IsFiniteSet(Pushing)
  BY FibersAssumption, FS_Subset, Zenon DEF Pushing
<1>. QED
  BY <1>1, FS_CardinalityType, FS_AddElement, FS_RemoveElement, ZenonT(30)

(* What the operations of the queue do to its length.                      *)
LEMMA QueueLengths ==
  ASSUME NEW q \in Seq(Item), NEW m \in [from : Fibers, n : Int]
  PROVE  /\ Pushed(q, m) \in Seq(Item) /\ Len(Pushed(q, m)) = Len(q) + 1
         /\ Linked(q, m) \in Seq(Item) /\ Len(Linked(q, m)) = Len(q)
<1>1. [fiber |-> m, linked |-> FALSE] \in Item
  BY Zenon DEF Item
<1>2. Pushed(q, m) \in Seq(Item) /\ Len(Pushed(q, m)) = Len(q) + 1
  BY <1>1 DEF Pushed
<1>3. Len(q) \in Nat /\ DOMAIN q = 1 .. Len(q) /\ \A k \in 1 .. Len(q) : q[k] \in Item
  OBVIOUS
<1>4. \A k \in 1 .. Len(q) : [q[k] EXCEPT !.linked = @ \/ q[k].fiber = m] \in Item
  BY <1>3, Zenon DEF Item
<1>5. Linked(q, m) \in [1 .. Len(q) -> Item]
  BY <1>3, <1>4, Zenon DEF Linked
<1>. QED
  BY <1>2, <1>3, <1>5, SMTT(30)

(* The items that push and link are about.                                 *)
LEMMA MessageType ==
  ASSUME WorkTypes, NEW f \in Fibers
  PROVE  /\ Message(f) \in [from : Fibers, n : Int]
         /\ [from |-> f, n |-> sent[f]] \in [from : Fibers, n : Int]
<1>1. sent[f] \in Int
  BY Zenon DEF WorkTypes
<1>. QED
  BY <1>1 DEF Message

(* The invariant gives the property.                                       *)
LEMMA WorkInvEnough == WorkInv => OneWorker
<1>. SUFFICES ASSUME WorkInv, Workers = {} PROVE fifo = <<>> /\ out_count = 0
  BY Zenon DEF WorkInv, WorkerInv, OneWorker
<1>1. in_count = 0
  BY DEF WorkInv, WorkerInv, WorkTypes
<1>2. Len(fifo) \in Nat
  BY DEF WorkInv, WorkTypes
<1>3. Len(fifo) = 0 /\ out_count = 0
  BY <1>1, <1>2, PushingFinite, SMTT(30) DEF WorkInv, CountsInv, WorkTypes
<1>. QED
  BY <1>3 DEF WorkInv, WorkTypes

(* A queue starts without items and without a worker.                      *)
LEMMA WorkInvInit == Init => WorkInv
<1>. SUFFICES ASSUME Init PROVE WorkInv
  BY Zenon
<1>1. PlacesInv
  BY PlacesInit, Zenon
<1>2. \A f \in Fibers : pc[f] \in {SendPlace, ReceivePlace}
  BY Zenon DEF Init
<1>3. \A f \in Fibers : pc[f] \notin WorkPlaces \ {"work"}
  BY <1>1, <1>2, ZenonT(30) DEF PlacesInv, Kinds, SendPlace, ReceivePlace, WorkPlaces
<1>4. Workers = {} /\ Pushing = {}
  BY <1>3, Zenon DEF Workers, Pushing, WorkPlaces
<1>5. WorkTypes
  BY DEF Init, WorkInit, WorkTypes
<1>6. CountsInv
  BY <1>4, FS_EmptySet, SMTT(30) DEF Init, WorkInit, CountsInv
<1>7. WorkerInv
  BY <1>4, SMTT(30) DEF Init, WorkInit, WorkerInv
<1>. QED
  BY <1>1, <1>5, <1>6, <1>7, Zenon DEF WorkInv

-----------------------------------------------------------------------------
(* What the work queue sees of a step of another part: nothing.            *)
Elsewhere ==
  /\ UNCHANGED <<setup, in_count, out_count, old, ret, fifo>>
  /\ sent' \in {sent} \cup {[sent EXCEPT ![f] = @ + 1] : f \in Fibers}
  /\ \E f \in Fibers : pc[f] \notin WorkPlaces

(* The steps of the other parts.                                           *)
LEMMA OtherSteps ==
  ASSUME Next, \A f \in Fibers : ~WorkOn(f)
  PROVE  Elsewhere
<1>. USE DEF Elsewhere, WorkPlaces, wvars, fvars, Takes, Sends
<1>1. ASSUME NEW f \in Fibers, SendBounded(f) PROVE Elsewhere
  BY <1>1, ZenonT(30) DEF SendBounded, PushStep, PushLow, PushHigh, PushTest, PushCas, PushCasFails, PushWrite
<1>2. ASSUME NEW f \in Fibers, ReceivePop(f) PROVE Elsewhere
  BY <1>2, ZenonT(30) DEF ReceivePop, PopStep, PopHigh, PopLow, PopRead, PopCas, PopCasFails, PopClear
<1>3. ASSUME NEW f \in Fibers, SendPush(f) \/ SendLink(f) \/ SendSingle(f) PROVE Elsewhere
  BY <1>3, SMTT(30) DEF SendPush, SendLink, SendSingle
<1>4. CASE ReceiveHigh \/ ReceiveRead \/ ReceiveLow \/ ReceiveScan \/ ReceiveRobin
  BY <1>4, FibersAssumption, ZenonT(30)
     DEF Fibers, ReceiveHigh, ReceiveRead, ReceiveLow, ReceiveScan, ReceiveRobin
<1>5. CASE ReceiveWait
  BY <1>5, FibersAssumption, ZenonT(30) DEF Fibers, ReceiveWait, WaitStep, WaitEnter, WaitSave, WaitReset
<1>6. ASSUME NEW f \in Fibers, SendRaise(f) PROVE Elsewhere
  BY <1>6, ZenonT(30) DEF SendRaise, RaiseStep, Raise, RaiseReset, RaiseWake
<1>7. ASSUME NEW f \in Fibers, MultiSend(f) \/ MultiReceive(f) PROVE Elsewhere
  BY <1>7, Zenon DEF MultiSend, MultiReceive
<1>8. ASSUME NEW f \in Fibers, WaitMulti(f) PROVE Elsewhere
  BY <1>8, ZenonT(30) DEF WaitMulti, MWaitStep, MWaitCounter, MWaitHead, MWaitAccept, MWaitPush, MWaitSave,
     MWaitReturns, ReadCounter, SwapFails
<1>9. ASSUME NEW f \in Fibers, RaiseMulti(f) PROVE Elsewhere
  BY <1>9, ZenonT(30) DEF RaiseMulti, MRaiseStep, MRaiseCounter, MRaiseHead, MRaiseAgain, MRaiseNext, MRaiseSet,
     MRaisePop, MRaiseWake, ReadCounter, SwapFails
<1>. HIDE DEF Elsewhere, WorkPlaces, wvars, fvars, Takes, Sends
<1>10. ASSUME NEW f \in Senders, SenderStep(f) PROVE Elsewhere
  <2>1. f \in Fibers
    BY Zenon DEF Fibers
  <2>. QED
    BY <1>1, <1>3, <1>6, <1>7, <1>9, <1>10, <2>1, Zenon DEF SenderStep
<1>11. ASSUME NEW r \in Receivers, ReceiverStep(r) PROVE Elsewhere
  <2>1. r \in Fibers
    BY Zenon DEF Fibers
  <2>. QED
    BY <1>2, <1>4, <1>5, <1>7, <1>8, <1>11, <2>1, Zenon DEF ReceiverStep
<1>. QED
  BY <1>10, <1>11, Zenon DEF Next

(* A queue that is not a work queue stays without a worker.                *)
LEMMA ElsewhereKeeps ==
  ASSUME WorkInv, Elsewhere, PlacesInv'
  PROVE  WorkInv'
<1>1. WorkTypes'
  BY DEF Elsewhere, WorkInv, WorkTypes
<1>2. setup.kind # "work"
  BY Zenon DEF WorkInv, PlacesInv, Elsewhere, Allowed
<1>3. Allowed(setup.kind) \cap WorkPlaces = {}
  BY <1>2 DEF WorkInv, PlacesInv, Kinds, Allowed, WorkPlaces, PushPlaces, PopPlaces,
     ReceivePlaces, SignalPlaces, MultiSignalPlaces
<1>4. \A f \in Fibers : pc[f] \notin WorkPlaces /\ pc'[f] \notin WorkPlaces
  BY <1>3, Zenon DEF Elsewhere, WorkInv, PlacesInv
<1>5. Workers' = Workers /\ Pushing' = Pushing
  BY <1>4, Zenon DEF Workers, Pushing, WorkPlaces
<1>6. CountsInv'
  BY <1>4, <1>5, Zenon DEF Elsewhere, WorkInv, CountsInv, WorkPlaces
<1>7. WorkerInv'
  BY <1>5, Zenon DEF Elsewhere, WorkInv, WorkerInv
<1>. QED
  BY <1>1, <1>6, <1>7, ZenonT(30) DEF WorkInv

-----------------------------------------------------------------------------
(* The steps of work_queue.c keep the types.                               *)
LEMMA WorkTypesStep ==
  ASSUME WorkInv, NEW f \in Fibers, WorkStep(f)
  PROVE  WorkTypes'
<1>. USE DEF WorkInv, WorkTypes, fvars, wvars
<1>1. CASE WorkCount(f)
  BY <1>1, SMTT(30) DEF WorkCount
<1>2. CASE WorkPush(f)
  <2>1. fifo' \in Seq(Item)
    BY <1>2, MessageType, QueueLengths, Zenon DEF WorkPush
  <2>. QED
    BY <1>2, <2>1, SMTT(30) DEF WorkPush, Sends
<1>3. CASE WorkLink(f)
  <2>1. fifo' \in Seq(Item)
    BY <1>3, MessageType, QueueLengths, ZenonT(30) DEF WorkLink
  <2>. QED
    BY <1>3, <2>1, Zenon DEF WorkLink
<1>4. CASE WorkTake(f)
  BY <1>4 DEF WorkTake, Rest, CanPop
<1>5. CASE WorkNone(f) \/ WorkCompare(f)
  BY <1>5, Zenon DEF WorkNone, WorkCompare
<1>6. CASE WorkReset(f)
  BY <1>6, Zenon DEF WorkReset
<1>7. CASE WorkSubtract(f)
  <2>1. in_count - old \in Nat
    BY PushingFinite, SMTT(30) DEF CountsInv
  <2>. QED
    BY <1>7, <2>1, ZenonT(30) DEF WorkSubtract, Remaining
<1>. QED
  BY <1>1, <1>2, <1>3, <1>4, <1>5, <1>6, <1>7, ZenonT(30) DEF WorkStep

(* Each step moves an item from one of the places where it is counted to   *)
(* the next.                                                               *)
LEMMA CountsStep ==
  ASSUME WorkInv, NEW f \in Fibers, WorkStep(f), WorkTypes'
  PROVE  CountsInv'
<1>. USE DEF WorkInv, fvars, wvars, GoTo
<1>. pc \in [Fibers -> Allowed(setup.kind)]
  BY Zenon DEF PlacesInv
<1>1. CASE WorkCount(f)
  <2>1. Pushing' = Pushing \cup {f} /\ f \notin Pushing
    BY <1>1, Zenon DEF WorkCount, Pushing
  <2>2. Cardinality(Pushing') = Cardinality(Pushing) + 1 /\ Cardinality(Pushing) \in Nat
    BY <2>1, PushingFinite, ZenonT(30)
  <2>3. Len(fifo) \in Nat
    BY DEF WorkTypes
  <2>4. (\A g \in Fibers : pc'[g] # "subtract") => old' = 0
    BY <1>1, Zenon DEF WorkCount, CountsInv
  <2>5. in_count' = Cardinality(Pushing') + Len(fifo') + out_count' + old'
    BY <1>1, <2>2, <2>3, SMTT(30) DEF WorkCount, CountsInv, WorkTypes
  <2>. QED
    BY <2>4, <2>5, ZenonT(30) DEF CountsInv
<1>2. CASE WorkPush(f)
  <2>1. Pushing' = Pushing \ {f} /\ f \in Pushing
    BY <1>2, Zenon DEF WorkPush, Pushing
  <2>2. Len(fifo') = Len(fifo) + 1
    <3>1. fifo \in Seq(Item) /\ Message(f) \in [from : Fibers, n : Int]
      BY MessageType, Zenon DEF WorkTypes
    <3>2. fifo' = Pushed(fifo, Message(f))
      BY <1>2, Zenon DEF WorkPush
    <3>. QED
      BY <3>1, <3>2, QueueLengths, ZenonT(30)
  <2>. QED
    <3>1. Cardinality(Pushing') = Cardinality(Pushing) - 1 /\ Cardinality(Pushing) \in Nat
      BY <2>1, PushingFinite, ZenonT(30)
    <3>2. Len(fifo) \in Nat
      BY DEF WorkTypes
    <3>. QED
      BY <1>2, <2>2, <3>1, <3>2, SMTT(30) DEF WorkPush, CountsInv, WorkTypes
<1>3. CASE WorkLink(f)
  <2>1. Pushing' = Pushing
    BY <1>3, Zenon DEF WorkLink, Pushing
  <2>2. Len(fifo') = Len(fifo)
    <3>1. fifo \in Seq(Item) /\ [from |-> f, n |-> sent[f]] \in [from : Fibers, n : Int]
      BY MessageType, Zenon DEF WorkTypes
    <3>2. fifo' = Linked(fifo, [from |-> f, n |-> sent[f]])
      BY <1>3, Zenon DEF WorkLink
    <3>. QED
      BY <3>1, <3>2, QueueLengths, ZenonT(30)
  <2>. QED
    BY <1>3, <2>1, <2>2, ZenonT(30) DEF WorkLink, CountsInv
<1>4. CASE WorkTake(f)
  <2>1. Pushing' = Pushing
    BY <1>4, Zenon DEF WorkTake, Pushing
  <2>2. Len(fifo') = Len(fifo) - 1
    BY <1>4 DEF WorkTake, Rest, CanPop, WorkTypes
  <2>. QED
    BY <1>4, <2>1, <2>2, PushingFinite, SMTT(30) DEF WorkTake, CountsInv, WorkTypes
<1>5. CASE WorkNone(f) \/ WorkCompare(f)
  <2>1. Pushing' = Pushing
    BY <1>5, Zenon DEF WorkNone, WorkCompare, Pushing
  <2>. QED
    BY <1>5, <2>1, ZenonT(30) DEF WorkNone, WorkCompare, CountsInv
<1>6. CASE WorkReset(f)
  <2>1. Pushing' = Pushing
    BY <1>6, Zenon DEF WorkReset, Pushing
  <2>2. f \in Workers /\ \A g \in Fibers : pc[g] = "subtract" => g \in Workers
    BY <1>6, Zenon DEF WorkReset, Workers
  <2>3. old = 0
    BY <1>6, <2>2, Zenon DEF WorkReset, WorkerInv, CountsInv
  <2>. QED
    BY <1>6, <2>1, <2>3, PushingFinite, SMTT(30) DEF WorkReset, CountsInv, WorkTypes
<1>7. CASE WorkSubtract(f)
  <2>1. Pushing' = Pushing
    BY <1>7, Zenon DEF WorkSubtract, Pushing
  <2>. QED
    BY <1>7, <2>1, PushingFinite, SMTT(30) DEF WorkSubtract, Remaining, CountsInv, WorkTypes
<1>. QED
  BY <1>1, <1>2, <1>3, <1>4, <1>5, <1>6, <1>7, Zenon DEF WorkStep

(* The count that a push finds at zero makes its fiber the worker, and     *)
(* only the worker can bring it back to zero.                              *)
LEMMA WorkerStep ==
  ASSUME WorkInv, NEW f \in Fibers, WorkStep(f), WorkTypes'
  PROVE  WorkerInv'
<1>. USE DEF WorkInv, WorkTypes, GoTo, wvars
<1>. pc \in [Fibers -> Allowed(setup.kind)]
  BY Zenon DEF PlacesInv
<1>1. CASE WorkCount(f)
  <2>1. CASE in_count = 0
    <3>1. Workers = {}
      BY <2>1, SMTT(30) DEF WorkerInv
    <3>2. Workers' = {f}
      BY <1>1, <2>1, <3>1, SMTT(30) DEF WorkCount, First, Workers
    <3>. QED
      BY <1>1, <3>2, SMTT(30) DEF WorkCount, WorkerInv
  <2>2. CASE in_count # 0
    <3>1. Workers' = Workers
      BY <1>1, <2>2, SMTT(30) DEF WorkCount, First, Workers
    <3>. QED
      BY <1>1, <2>2, <3>1, SMTT(30) DEF WorkCount, WorkerInv
  <2>. QED
    BY <2>1, <2>2, Zenon
<1>2. CASE WorkPush(f) \/ WorkLink(f)
  <2>1. Workers' = Workers
    BY <1>2, Zenon DEF WorkPush, WorkLink, Workers
  <2>. QED
    BY <1>2, <2>1, Zenon DEF WorkPush, WorkLink, WorkerInv
<1>3. CASE WorkTake(f) \/ WorkNone(f) \/ WorkCompare(f) \/ WorkReset(f)
  <2>1. Workers' = Workers
    BY <1>3, ZenonT(30) DEF WorkTake, WorkNone, WorkCompare, WorkReset, Workers
  <2>. QED
    BY <1>3, <2>1, ZenonT(30) DEF WorkTake, WorkNone, WorkCompare, WorkReset, WorkerInv
<1>4. CASE WorkSubtract(f)
  <2>1. Workers = {f}
    BY <1>4, Zenon DEF WorkSubtract, WorkerInv, Workers
  <2>2. Workers' = IF in_count' = 0 THEN {} ELSE {f}
    BY <1>4, <2>1, Zenon DEF WorkSubtract, Workers
  <2>. QED
    BY <1>4, <2>2, SMTT(30) DEF WorkSubtract, WorkerInv
<1>. QED
  BY <1>1, <1>2, <1>3, <1>4, Zenon DEF WorkStep

-----------------------------------------------------------------------------
(* work_queue_push answers START_WORKING to one fiber at a time, and no    *)
(* item is left behind when get_work answers EMPTY, for every number of    *)
(* fibers and of items.                                                    *)
THEOREM WorkQueueHasOneWorker == Spec => []OneWorker
<1>1. WorkInv /\ [Next]_vars => WorkInv'
  <2>. SUFFICES ASSUME WorkInv, [Next]_vars PROVE WorkInv'
    BY Zenon
  <2>1. PlacesInv'
    BY PlacesStep, Zenon DEF WorkInv
  <2>2. CASE UNCHANGED vars
    BY <2>1, <2>2, SMTT(30) DEF vars, fvars, wvars, WorkInv, WorkTypes, CountsInv, WorkerInv, Workers, Pushing
  <2>3. ASSUME NEW f \in Fibers, WorkOn(f) PROVE WorkInv'
    BY <2>1, <2>3, WorkTypesStep, CountsStep, WorkerStep, Zenon DEF WorkInv, WorkOn
  <2>4. CASE Next /\ \A f \in Fibers : ~WorkOn(f)
    BY <2>1, <2>4, OtherSteps, ElsewhereKeeps, ZenonT(30)
  <2>. QED
    BY <2>2, <2>3, <2>4, ZenonT(30)
<1>. QED
  BY <1>1, WorkInvInit, WorkInvEnough, PTL DEF Spec

============================================================================
