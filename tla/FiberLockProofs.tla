--------------------------- MODULE FiberLockProofs ---------------------------
(***************************************************************************)
(* The condition variable, the semaphore and the ticket spin lock, each    *)
(* for every finite set of fibers or threads: the count of the condition   *)
(* variable and that no later waiter steals a wakeup, the counter of the   *)
(* semaphore and the number of its holders for every initial value, and    *)
(* mutual exclusion of the spin lock as long as the threads do not exceed  *)
(* the number of counter values.                                           *)
(***************************************************************************)
EXTENDS FiberCond, FiberSemaphore, FiberSpinlock, FiniteSetTheorems, TLAPS

-----------------------------------------------------------------------------
(* The condition variable, FiberCond.tla.                                  *)

Places == {"run", "push", "link", "parked", "relock", "signal", "add", "broadcast", "wake", "leave"}
Entry == [fiber : Fibers, linked : BOOLEAN]

(* Fibers inside signal or broadcast.                                      *)
Inner == {"signal", "add", "broadcast", "wake", "leave"}

LocalsInv ==
  /\ waiter_count \in Int
  /\ pc \in [Fibers -> Places]
  /\ count \in [Fibers -> Nat]
  /\ present \in [Fibers -> SUBSET Fibers]
  /\ internal_mutex \in Fibers \cup {Nobody} /\ mutex \in Fibers \cup {Nobody}
  /\ to_unlock \in BOOLEAN

(* The fibers that have taken their place in the queue.                    *)
Queued == {f \in Fibers : pc[f] \in {"link", "parked"}}

(* The queue holds each of them once, and an entry can be popped exactly   *)
(* when its fiber is parked.                                               *)
QueueInv ==
  /\ waiters \in Seq(Entry)
  /\ \A k \in 1 .. Len(waiters) :
       pc[waiters[k].fiber] = IF waiters[k].linked THEN "parked" ELSE "link"
  /\ \A j, k \in 1 .. Len(waiters) : waiters[j].fiber = waiters[k].fiber => j = k
  /\ Len(waiters) = Cardinality(Queued)

(* Who queues itself has the caller's mutex, and who is inside signal or   *)
(* broadcast has the internal one; only a waker has a count.               *)
MutexInv ==
  /\ \A f \in Fibers : pc[f] \in {"push", "link"} => mutex = f /\ ~to_unlock
  /\ \A f \in Fibers : pc[f] \in Inner <=> internal_mutex = f
  /\ \A f \in Fibers : count[f] > 0 <=> pc[f] = "wake"

Owed == IF internal_mutex = Nobody THEN 0 ELSE count[internal_mutex]

(* A signal has taken from the count what it did not find.                 *)
Short == IF internal_mutex # Nobody /\ pc[internal_mutex] = "add" THEN 1 ELSE 0

BalanceInv ==
  /\ waiter_count + Short >= 0
  /\ waiter_count + Short + Owed = Cardinality(Sleepers)
  /\ ~failed

(* The fibers a waker still has to wake were there when it took its count: *)
(* they are the first of the queue, and the one that queues itself after   *)
(* them if the queue is shorter than that.                                 *)
PresentInv ==
  \A f \in Fibers :
    /\ \A k \in 1 .. Len(waiters) : k <= count[f] => waiters[k].fiber \in present[f]
    /\ \A g \in Fibers : pc[g] = "push" /\ Len(waiters) < count[f] => g \in present[f]

CondInv == LocalsInv /\ QueueInv /\ MutexInv /\ BalanceInv /\ PresentInv

-----------------------------------------------------------------------------
(* The sets of fibers that are counted are finite.                         *)
LEMMA Sizes ==
  /\ IsFiniteSet(Sleepers) /\ Cardinality(Sleepers) \in Nat
  /\ IsFiniteSet(Queued) /\ Cardinality(Queued) \in Nat
  /\ Cardinality(Sleepers) <= Cardinality(Fibers) /\ Cardinality(Fibers) \in Nat
<1>1. Sleepers \subseteq Fibers /\ Queued \subseteq Fibers
  BY Zenon DEF Sleepers, Queued
<1>2. IsFiniteSet(Sleepers) /\ IsFiniteSet(Queued)
  BY <1>1, CondAssumption, FS_Subset, Zenon
<1>3. Cardinality(Sleepers) <= Cardinality(Fibers)
  BY <1>1, CondAssumption, FS_Subset, Zenon
<1>. QED
  BY <1>2, <1>3, CondAssumption, FS_CardinalityType, Zenon

(* A fiber that is neither linking nor parked has no entry in the queue.   *)
LEMMA NotQueued ==
  ASSUME QueueInv
  PROVE  /\ \A k \in 1 .. Len(waiters) : waiters[k].fiber \in Fibers
         /\ \A f \in Fibers : pc[f] \notin {"link", "parked"}
              => \A k \in 1 .. Len(waiters) : waiters[k].fiber # f
<1>1. \A k \in 1 .. Len(waiters) : waiters[k] \in Entry
  BY DEF QueueInv
<1>2. \A k \in 1 .. Len(waiters) : pc[waiters[k].fiber] \in {"link", "parked"}
  BY Zenon DEF QueueInv
<1>. QED
  BY <1>1, <1>2, Zenon DEF Entry

(* What a waker pops: the first entry, whose fiber is parked.              *)
LEMMA HeadIsParked ==
  ASSUME QueueInv, CanPop(waiters)
  PROVE  /\ Len(waiters) \in Nat \ {0}
         /\ Head(waiters) = waiters[1]
         /\ Head(waiters).fiber \in Fibers
         /\ pc[Head(waiters).fiber] = "parked"
<1>1. waiters \in Seq(Entry) /\ waiters # <<>> /\ Head(waiters).linked
  BY Zenon DEF QueueInv, CanPop
<1>2. Len(waiters) \in Nat \ {0} /\ Head(waiters) = waiters[1] /\ waiters[1] \in Entry
  BY <1>1
<1>. QED
  BY <1>1, <1>2 DEF QueueInv, Entry

(* fiber_cond_init establishes the invariant.                              *)
LEMMA CondInit == Init => CondInv
<1>. SUFFICES ASSUME Init PROVE CondInv
  BY Zenon
<1>1. Sleepers = {} /\ Queued = {}
  BY Zenon DEF Init, Sleepers, Queued
<1>2. Cardinality(Sleepers) = 0 /\ Cardinality(Queued) = 0
  BY <1>1, FS_EmptySet, Zenon
<1>8. present \in [Fibers -> SUBSET Fibers]
  BY Zenon DEF Init
<1>9. pc \in [Fibers -> Places]
  BY Zenon DEF Init, Places
<1>10. waiter_count \in Int /\ count \in [Fibers -> Nat]
  BY DEF Init
<1>3. LocalsInv
  BY <1>8, <1>9, <1>10, Zenon DEF Init, LocalsInv
<1>4. QueueInv
  BY <1>2 DEF Init, QueueInv
<1>5. MutexInv
  BY CondAssumption DEF Init, MutexInv, Inner
<1>6. BalanceInv
  BY <1>2 DEF Init, BalanceInv, Short, Owed
<1>7. PresentInv
  BY DEF Init, PresentInv
<1>. QED
  BY <1>3, <1>4, <1>5, <1>6, <1>7, Zenon DEF CondInv

-----------------------------------------------------------------------------
(* Every step keeps the types: a waker that counts down has something to   *)
(* count.                                                                  *)
LEMMA LocalsStep ==
  ASSUME CondInv, [Next]_vars
  PROVE  LocalsInv'
<1>. USE DEF CondInv, LocalsInv, Places, GoTo, cond
<1>1. CASE UNCHANGED vars
  BY <1>1, Zenon DEF vars
<1>2. ASSUME NEW f \in Fibers, Lock(f) \/ Unlock(f) \/ WaitCount(f) PROVE LocalsInv'
  BY <1>2 DEF Lock, Unlock, WaitCount
<1>3. ASSUME NEW f \in Fibers, WaitPush(f) \/ WaitLink(f) \/ Enter(f) \/ Leave(f)
      PROVE  LocalsInv'
  BY <1>3, ZenonT(30) DEF WaitPush, WaitLink, Enter, Leave
<1>4. CASE WaitUnlock
  BY <1>4, Zenon DEF WaitUnlock
<1>5. Sleepers \in SUBSET Fibers
  BY Zenon DEF Sleepers
<1>6. ASSUME NEW f \in Fibers, SignalSub(f) PROVE LocalsInv'
  BY <1>5, <1>6 DEF SignalSub, Owes
<1>7. ASSUME NEW f \in Fibers, SignalAdd(f) PROVE LocalsInv'
  BY <1>7 DEF SignalAdd, Restored
<1>8. ASSUME NEW f \in Fibers, BroadcastExchange(f) PROVE LocalsInv'
  <2>1. waiter_count \in Nat
    <3>1. internal_mutex = f /\ Short = 0
      BY <1>8, Zenon DEF BroadcastExchange, MutexInv, Inner, Short
    <3>. QED
      BY <3>1 DEF BalanceInv
  <2>. QED
    BY <1>5, <1>8, <2>1 DEF BroadcastExchange, Owes, Original
<1>9. ASSUME NEW f \in Fibers, Wake(f) PROVE LocalsInv'
  <2>1. Head(waiters).fiber \in Fibers
    BY <1>9, HeadIsParked, Zenon DEF Wake
  <2>2. count[f] - 1 \in Nat
    BY <1>9 DEF Wake, MutexInv
  <2>. QED
    BY <1>9, <2>1, <2>2, Zenon DEF Wake
<1>. QED
  BY <1>1, <1>2, <1>3, <1>4, <1>6, <1>7, <1>8, <1>9, Zenon DEF Next, Proceed

(* Every step keeps the two mutexes with their holders.                    *)
LEMMA MutexStep ==
  ASSUME CondInv, [Next]_vars
  PROVE  MutexInv'
<1>. USE CondAssumption DEF CondInv, LocalsInv, MutexInv, Inner, GoTo, cond
<1>1. CASE UNCHANGED vars
  BY <1>1, Zenon DEF vars
<1>2. ASSUME NEW f \in Fibers, Lock(f) PROVE MutexInv'
  BY <1>2, Zenon DEF Lock
<1>3. ASSUME NEW f \in Fibers, Unlock(f) PROVE MutexInv'
  BY <1>3, Zenon DEF Unlock, Holds
<1>4. ASSUME NEW f \in Fibers, WaitCount(f) PROVE MutexInv'
  BY <1>4, Zenon DEF WaitCount, Holds
<1>5. ASSUME NEW f \in Fibers, WaitPush(f) PROVE MutexInv'
  BY <1>5, Zenon DEF WaitPush
<1>6. ASSUME NEW f \in Fibers, WaitLink(f) PROVE MutexInv'
  BY <1>6, Zenon DEF WaitLink
<1>7. CASE WaitUnlock
  BY <1>7, Zenon DEF WaitUnlock
<1>8. ASSUME NEW f \in Fibers, Enter(f) PROVE MutexInv'
  BY <1>8, Zenon DEF Enter, InternalFree
<1>9. ASSUME NEW f \in Fibers, SignalSub(f) PROVE MutexInv'
  BY <1>9, Zenon DEF SignalSub, Owes
<1>10. ASSUME NEW f \in Fibers, SignalAdd(f) PROVE MutexInv'
  BY <1>10, Zenon DEF SignalAdd
<1>11. ASSUME NEW f \in Fibers, BroadcastExchange(f) PROVE MutexInv'
  BY <1>11, Zenon DEF BroadcastExchange, Owes, Original
<1>12. ASSUME NEW f \in Fibers, Wake(f) PROVE MutexInv'
  <2>. DEFINE g == Head(waiters).fiber
  <2>1. g \in Fibers /\ pc[g] = "parked"
    BY <1>12, HeadIsParked, Zenon DEF Wake
  <2>. HIDE DEF g
  <2>2. /\ pc[f] = "wake" /\ count' = [count EXCEPT ![f] = @ - 1]
        /\ pc' = [pc EXCEPT ![g] = "relock", ![f] = IF count[f] = 1 THEN "leave" ELSE "wake"]
        /\ UNCHANGED <<internal_mutex, mutex, to_unlock>>
    BY <1>12, Zenon DEF Wake, g
  <2>. QED
    BY <2>1, <2>2
<1>13. ASSUME NEW f \in Fibers, Leave(f) PROVE MutexInv'
  BY <1>13, Zenon DEF Leave
<1>. QED
  BY <1>1, <1>2, <1>3, <1>4, <1>5, <1>6, <1>7, <1>8, <1>9, <1>10, <1>11, <1>12, <1>13, Zenon
     DEF Next, Proceed


-----------------------------------------------------------------------------
(* A step that leaves the queue, and who is linking or parked, alone.      *)
LEMMA QueueUntouched ==
  ASSUME CondInv, NEW f \in Fibers, pc[f] \notin {"link", "parked"},
         NEW p, p \notin {"link", "parked"}, pc' = [pc EXCEPT ![f] = p], UNCHANGED waiters
  PROVE  QueueInv'
<1>1. \A k \in 1 .. Len(waiters) : waiters[k].fiber \in Fibers /\ waiters[k].fiber # f
  BY NotQueued, Zenon DEF CondInv
<1>2. Queued' = Queued
  BY Zenon DEF CondInv, LocalsInv, Queued
<1>. QED
  BY <1>1, <1>2, Zenon DEF CondInv, QueueInv, LocalsInv

(* mpsc_fifo_push takes the last place of the queue.                       *)
LEMMA QueuePushed ==
  ASSUME CondInv, NEW f \in Fibers, WaitPush(f)
  PROVE  /\ QueueInv' /\ Len(waiters') = Len(waiters) + 1 /\ Len(waiters) \in Nat
         /\ \A k \in 1 .. Len(waiters) : waiters'[k] = waiters[k]
         /\ waiters'[Len(waiters) + 1].fiber = f
<1>. USE DEF CondInv
<1>1. /\ pc[f] = "push" /\ pc' = [pc EXCEPT ![f] = "link"]
      /\ waiters' = Append(waiters, [fiber |-> f, linked |-> FALSE])
  BY Zenon DEF WaitPush, GoTo, Pushed
<1>2. /\ waiters' \in Seq(Entry) /\ Len(waiters') = Len(waiters) + 1
      /\ \A k \in 1 .. Len(waiters) : waiters'[k] = waiters[k]
      /\ waiters'[Len(waiters) + 1] = [fiber |-> f, linked |-> FALSE]
      /\ Len(waiters) \in Nat
  BY <1>1 DEF QueueInv, Entry
<1>3. \A k \in 1 .. Len(waiters) : waiters[k].fiber \in Fibers \ {f}
  BY <1>1, NotQueued, Zenon
<1>4. \A k \in 1 .. Len(waiters') :
        pc'[waiters'[k].fiber] = IF waiters'[k].linked THEN "parked" ELSE "link"
  BY <1>1, <1>2, <1>3 DEF QueueInv, LocalsInv
<1>5. \A j, k \in 1 .. Len(waiters') : waiters'[j].fiber = waiters'[k].fiber => j = k
  BY <1>2, <1>3, SMTT(30) DEF QueueInv
<1>6. f \notin Queued /\ Queued' = Queued \cup {f}
  BY <1>1, Zenon DEF Queued, LocalsInv
<1>7. Cardinality(Queued') = Cardinality(Queued) + 1
  BY <1>6, Sizes, FS_AddElement, Zenon
<1>. QED
  BY <1>2, <1>4, <1>5, <1>7 DEF QueueInv

(* The store to prev_tail->next makes the entry poppable and moves none.   *)
LEMMA QueueLinked ==
  ASSUME CondInv, NEW f \in Fibers, WaitLink(f)
  PROVE  /\ QueueInv' /\ Len(waiters') = Len(waiters)
         /\ \A k \in 1 .. Len(waiters) : waiters'[k].fiber = waiters[k].fiber
<1>. USE DEF CondInv
<1>1. pc[f] = "link" /\ pc' = [pc EXCEPT ![f] = "parked"] /\ waiters' = Linked(waiters, f)
  BY Zenon DEF WaitLink, GoTo
<1>2. /\ Len(waiters) \in Nat /\ DOMAIN waiters = 1 .. Len(waiters)
      /\ \A k \in 1 .. Len(waiters) : waiters[k] \in Entry
  BY DEF QueueInv
<1>3. \A k \in 1 .. Len(waiters) :
        /\ waiters'[k] \in Entry /\ waiters'[k].fiber = waiters[k].fiber
        /\ waiters'[k].linked = (waiters[k].linked \/ waiters[k].fiber = f)
  BY <1>1, <1>2, Zenon DEF Linked, Entry
<1>4. waiters' \in [1 .. Len(waiters) -> Entry]
  BY <1>1, <1>2, <1>3, Zenon DEF Linked
<1>5. waiters' \in Seq(Entry) /\ Len(waiters') = Len(waiters)
  BY <1>2, <1>4
<1>6. \A k \in 1 .. Len(waiters') :
        pc'[waiters'[k].fiber] = IF waiters'[k].linked THEN "parked" ELSE "link"
  BY <1>1, <1>2, <1>3, <1>5 DEF QueueInv, LocalsInv, Entry
<1>7. Queued' = Queued
  BY <1>1, Zenon DEF Queued, LocalsInv
<1>. QED
  BY <1>3, <1>5, <1>6, <1>7, Zenon DEF QueueInv

(* mpsc_fifo_trypop removes the first entry and moves the others up.       *)
LEMMA QueuePopped ==
  ASSUME CondInv, NEW f \in Fibers, Wake(f)
  PROVE  /\ QueueInv' /\ Len(waiters') = Len(waiters) - 1 /\ Len(waiters) \in Nat \ {0}
         /\ \A k \in 1 .. Len(waiters') : waiters'[k] = waiters[k + 1]
<1>. USE DEF CondInv
<1>. DEFINE g == Head(waiters).fiber
<1>1. /\ pc[f] = "wake" /\ waiters' = Tail(waiters)
      /\ pc' = [pc EXCEPT ![g] = "relock", ![f] = IF count[f] = 1 THEN "leave" ELSE "wake"]
  BY Zenon DEF Wake, Rest
<1>2. Len(waiters) \in Nat \ {0} /\ g = waiters[1].fiber /\ g \in Fibers /\ pc[g] = "parked"
  BY HeadIsParked, Zenon DEF Wake
<1>. HIDE DEF g
<1>3. /\ waiters' \in Seq(Entry) /\ Len(waiters') = Len(waiters) - 1
      /\ \A k \in 1 .. Len(waiters') : waiters'[k] = waiters[k + 1]
  BY <1>1, <1>2 DEF QueueInv
<1>4. \A k \in 1 .. Len(waiters') : waiters'[k].fiber \in Fibers \ {f, g}
  <2>1. SUFFICES ASSUME NEW k \in 1 .. Len(waiters')
                 PROVE  waiters[k + 1].fiber \in Fibers \ {f, g}
    BY <1>3, Zenon
  <2>2. k + 1 \in 1 .. Len(waiters) /\ 1 \in 1 .. Len(waiters) /\ k + 1 # 1
    BY <1>2, <1>3
  <2>3. waiters[k + 1].fiber \in Fibers \ {f}
    BY <1>1, <2>2, NotQueued, Zenon
  <2>. QED
    BY <1>2, <2>2, <2>3, Zenon DEF QueueInv
<1>5. \A k \in 1 .. Len(waiters') :
        pc'[waiters'[k].fiber] = IF waiters'[k].linked THEN "parked" ELSE "link"
  BY <1>1, <1>2, <1>3, <1>4 DEF QueueInv, LocalsInv
<1>6. \A j, k \in 1 .. Len(waiters') : waiters'[j].fiber = waiters'[k].fiber => j = k
  <2>1. SUFFICES ASSUME NEW j \in 1 .. Len(waiters'), NEW k \in 1 .. Len(waiters'),
                        waiters'[j].fiber = waiters'[k].fiber
                 PROVE  j = k
    BY Zenon
  <2>2. j \in Int /\ k \in Int /\ j + 1 \in 1 .. Len(waiters) /\ k + 1 \in 1 .. Len(waiters)
    BY <1>2, <1>3
  <2>3. waiters[j + 1].fiber = waiters[k + 1].fiber
    BY <1>3, <2>1, Zenon
  <2>4. j + 1 = k + 1
    BY <2>2, <2>3, Zenon DEF QueueInv
  <2>. QED
    BY ONLY <2>2, <2>4
<1>7. g \in Queued /\ Queued' = Queued \ {g}
  BY <1>1, <1>2, Zenon DEF Queued, LocalsInv
<1>8. Cardinality(Queued') = Cardinality(Queued) - 1
  BY <1>7, Sizes, FS_RemoveElement, Zenon
<1>. QED
  BY <1>2, <1>3, <1>5, <1>6, <1>8, Zenon DEF QueueInv

(* Push, link and pop keep the queue in agreement with the fibers' places. *)
LEMMA QueueStep ==
  ASSUME CondInv, [Next]_vars
  PROVE  QueueInv'
<1>1. CASE UNCHANGED vars
  BY <1>1, Zenon DEF CondInv, vars, cond, QueueInv, Queued
<1>2. ASSUME NEW f \in Fibers, Lock(f) \/ WaitCount(f) \/ Enter(f) PROVE QueueInv'
  BY <1>2, QueueUntouched, Zenon DEF Lock, WaitCount, Enter, GoTo, cond
<1>3. ASSUME NEW f \in Fibers, SignalSub(f) \/ SignalAdd(f) \/ BroadcastExchange(f) \/ Leave(f)
      PROVE  QueueInv'
  <2>. DEFINE p == pc'[f]
  <2>1. /\ pc[f] \notin {"link", "parked"} /\ pc' = [pc EXCEPT ![f] = p]
        /\ p \notin {"link", "parked"} /\ UNCHANGED waiters
    BY <1>3, Zenon DEF CondInv, LocalsInv, SignalSub, SignalAdd, BroadcastExchange, Leave, Owes, GoTo
  <2>. QED
    BY <2>1, QueueUntouched, Zenon
<1>4. ASSUME WaitUnlock \/ \E f \in Fibers : Unlock(f) PROVE QueueInv'
  BY <1>4, Zenon DEF CondInv, WaitUnlock, Unlock, cond, QueueInv, Queued
<1>. QED
  BY <1>1, <1>2, <1>3, <1>4, QueuePushed, QueueLinked, QueuePopped, Zenon DEF Next, Proceed

-----------------------------------------------------------------------------
(* A step that changes neither count nor who holds internal_mutex keeps    *)
(* the balance.                                                            *)
LEMMA BalanceKept ==
  ASSUME CondInv, UNCHANGED <<waiter_count, failed>>, Sleepers' = Sleepers,
         Owed' = Owed, Short' = Short
  PROVE  BalanceInv'
BY Zenon DEF CondInv, BalanceInv

(* Every step keeps the balance of waiter_count with the fibers that wait. *)
LEMMA BalanceStep ==
  ASSUME CondInv, [Next]_vars
  PROVE  BalanceInv'
<1>. USE CondAssumption DEF CondInv, LocalsInv
<1>0. Cardinality(Sleepers) \in Nat /\ IsFiniteSet(Sleepers)
  BY Sizes, Zenon
<1>1. CASE UNCHANGED vars
  BY <1>1, BalanceKept, Zenon DEF vars, cond, Sleepers, Owed, Short
<1>2. ASSUME NEW f \in Fibers, Lock(f) \/ Unlock(f) PROVE BalanceInv'
  <2>1. Sleepers' = Sleepers
    BY <1>2, Zenon DEF Lock, Unlock, Sleepers, GoTo
  <2>2. Owed' = Owed /\ Short' = Short /\ UNCHANGED <<waiter_count, failed>>
    BY <1>2 DEF Lock, Unlock, Owed, Short, GoTo, cond, MutexInv, Inner
  <2>. QED
    BY <2>1, <2>2, BalanceKept, Zenon
<1>3. CASE WaitUnlock
  BY <1>3, BalanceKept, Zenon DEF WaitUnlock, cond, Sleepers, Owed, Short
<1>4. ASSUME NEW f \in Fibers, WaitCount(f) PROVE BalanceInv'
  <2>1. f \notin Sleepers /\ Sleepers' = Sleepers \cup {f}
    BY <1>4, Zenon DEF WaitCount, Sleepers, GoTo
  <2>2. Cardinality(Sleepers') = Cardinality(Sleepers) + 1
    BY <1>0, <2>1, FS_AddElement, Zenon
  <2>3. Owed' = Owed /\ Short' = Short /\ waiter_count' = waiter_count + 1 /\ failed' = failed
    BY <1>4, Zenon DEF WaitCount, Owed, Short, GoTo, MutexInv, Inner
  <2>4. Owed \in Nat /\ Short \in Nat
    BY Zenon DEF Owed, Short
  <2>. QED
    BY <1>0, <2>2, <2>3, <2>4 DEF BalanceInv
<1>5. ASSUME NEW f \in Fibers, WaitPush(f) \/ WaitLink(f) PROVE BalanceInv'
  <2>1. Sleepers' = Sleepers
    BY <1>5, Zenon DEF WaitPush, WaitLink, Sleepers, GoTo
  <2>2. Owed' = Owed /\ Short' = Short /\ UNCHANGED <<waiter_count, failed>>
    BY <1>5, ZenonT(30) DEF WaitPush, WaitLink, Owed, Short, GoTo, MutexInv, Inner
  <2>. QED
    BY <2>1, <2>2, BalanceKept, Zenon
<1>6. ASSUME NEW f \in Fibers, Enter(f) PROVE BalanceInv'
  <2>1. Sleepers' = Sleepers
    BY <1>6, Zenon DEF Enter, Sleepers, GoTo
  <2>2. Owed' = Owed /\ Short' = Short /\ UNCHANGED <<waiter_count, failed>>
    BY <1>6 DEF Enter, InternalFree, Owed, Short, GoTo, MutexInv, Inner
  <2>. QED
    BY <2>1, <2>2, BalanceKept, Zenon
<1>7. ASSUME NEW f \in Fibers, SignalSub(f) PROVE BalanceInv'
  <2>1. Sleepers' = Sleepers
    BY <1>7, Zenon DEF SignalSub, Owes, Sleepers, GoTo
  <2>2. internal_mutex = f /\ Owed = 0 /\ Short = 0
    BY <1>7 DEF SignalSub, Owed, Short, MutexInv, Inner
  <2>3. /\ waiter_count' = waiter_count - 1 /\ failed' = failed
        /\ Owed' = IF waiter_count' >= 0 THEN 1 ELSE 0
        /\ Short' = IF waiter_count' >= 0 THEN 0 ELSE 1
    BY <1>7, <2>2 DEF SignalSub, Owes, Owed, Short, GoTo
  <2>. QED
    BY <1>0, <2>1, <2>2, <2>3 DEF BalanceInv
<1>8. ASSUME NEW f \in Fibers, SignalAdd(f) PROVE BalanceInv'
  <2>1. Sleepers' = Sleepers
    BY <1>8, Zenon DEF SignalAdd, Sleepers, GoTo
  <2>2. internal_mutex = f /\ Owed = 0 /\ Short = 1
    BY <1>8 DEF SignalAdd, Owed, Short, MutexInv, Inner
  <2>3. waiter_count' = waiter_count + 1 /\ Owed' = 0 /\ Short' = 0
    BY <1>8, <2>2, Zenon DEF SignalAdd, Restored, Owed, Short, GoTo
  <2>4. ~(waiter_count' < 0)
    BY <2>2, <2>3 DEF BalanceInv
  <2>5. ~failed'
    BY <1>8, <2>4, Zenon DEF SignalAdd, BalanceInv
  <2>. QED
    BY <1>0, <2>1, <2>2, <2>3, <2>5 DEF BalanceInv
<1>9. ASSUME NEW f \in Fibers, BroadcastExchange(f) PROVE BalanceInv'
  <2>1. Sleepers' = Sleepers
    BY <1>9, Zenon DEF BroadcastExchange, Owes, Sleepers, GoTo
  <2>2. internal_mutex = f /\ Owed = 0 /\ Short = 0
    BY <1>9 DEF BroadcastExchange, Owed, Short, MutexInv, Inner
  <2>3. waiter_count' = 0 /\ failed' = failed /\ Owed' = waiter_count /\ Short' = 0
    BY <1>9, <2>2, Zenon DEF BroadcastExchange, Original, Owes, Owed, Short, GoTo
  <2>. QED
    BY <1>0, <2>1, <2>2, <2>3 DEF BalanceInv
<1>10. ASSUME NEW f \in Fibers, Wake(f) PROVE BalanceInv'
  <2>. DEFINE g == Head(waiters).fiber
  <2>1. g \in Fibers /\ pc[g] = "parked"
    BY <1>10, HeadIsParked, Zenon DEF Wake
  <2>. HIDE DEF g
  <2>2. /\ pc[f] = "wake" /\ count' = [count EXCEPT ![f] = @ - 1]
        /\ pc' = [pc EXCEPT ![g] = "relock", ![f] = IF count[f] = 1 THEN "leave" ELSE "wake"]
        /\ UNCHANGED <<waiter_count, internal_mutex, failed>>
    BY <1>10, Zenon DEF Wake, g
  <2>3. g \in Sleepers /\ Sleepers' = Sleepers \ {g}
    BY <2>1, <2>2, Zenon DEF Sleepers
  <2>4. Cardinality(Sleepers') = Cardinality(Sleepers) - 1
    BY <1>0, <2>3, FS_RemoveElement, Zenon
  <2>5. internal_mutex = f /\ Owed' = Owed - 1 /\ Owed \in Nat /\ Short = 0 /\ Short' = 0
    BY <2>1, <2>2, Zenon DEF Owed, Short, MutexInv, Inner
  <2>. QED
    BY <1>0, <2>2, <2>4, <2>5 DEF BalanceInv
<1>11. ASSUME NEW f \in Fibers, Leave(f) PROVE BalanceInv'
  <2>1. Sleepers' = Sleepers
    BY <1>11, Zenon DEF Leave, Sleepers, GoTo
  <2>2. Owed' = Owed /\ Short' = Short /\ UNCHANGED <<waiter_count, failed>>
    BY <1>11 DEF Leave, Owed, Short, GoTo, MutexInv, Inner
  <2>. QED
    BY <2>1, <2>2, BalanceKept, Zenon
<1>. QED
  BY <1>1, <1>2, <1>3, <1>4, <1>5, <1>6, <1>7, <1>8, <1>9, <1>10, <1>11, Zenon DEF Next, Proceed


-----------------------------------------------------------------------------
(* At most one fiber queues itself, and the fibers that wait are the ones  *)
(* in the queue unless somebody does.                                      *)
LEMMA NobodyQueues ==
  ASSUME CondInv, \A g \in Fibers : pc[g] # "push"
  PROVE  Cardinality(Sleepers) = Len(waiters)
<1>1. Sleepers = Queued
  BY Zenon DEF CondInv, LocalsInv, Sleepers, Queued
<1>. QED
  BY <1>1, Zenon DEF CondInv, QueueInv

(* Nobody owes more wakeups than there are fibers that wait.               *)
LEMMA OwesNoMore ==
  ASSUME CondInv, NEW f \in Fibers
  PROVE  count[f] \in Nat /\ count[f] <= Cardinality(Sleepers)
<1>1. Cardinality(Sleepers) \in Nat
  BY Sizes, Zenon
<1>2. CASE count[f] > 0
  <2>1. internal_mutex = f
    BY <1>2, Zenon DEF CondInv, MutexInv, Inner
  <2>2. Owed = count[f] /\ Short \in Nat
    BY <2>1, CondAssumption, Zenon DEF CondInv, LocalsInv, Owed, Short
  <2>. QED
    BY <1>1, <2>2 DEF CondInv, LocalsInv, BalanceInv
<1>. QED
  BY <1>1, <1>2 DEF CondInv, LocalsInv

(* A step that changes neither the queue, nor a count, nor who queues      *)
(* itself.                                                                 *)
LEMMA PresentUntouched ==
  ASSUME CondInv, UNCHANGED <<waiters, count>>,
         \A f \in Fibers : count[f] > 0 => present'[f] = present[f],
         \A g \in Fibers : pc'[g] = "push" => pc[g] = "push"
  PROVE  PresentInv'
<1>1. \A f \in Fibers : count[f] \in Nat
  BY Zenon DEF CondInv, LocalsInv
<1>2. Len(waiters) \in Nat
  BY DEF CondInv, QueueInv
<1>. QED
  BY <1>1, <1>2 DEF CondInv, PresentInv

(* A signal or broadcast that takes its count finds everybody it owes a    *)
(* wakeup to among the fibers that wait.                                   *)
LEMMA PresentTaken ==
  ASSUME CondInv, NEW f \in Fibers, UNCHANGED waiters, NEW n,
         count' = [count EXCEPT ![f] = n], present' = [present EXCEPT ![f] = Sleepers],
         \A g \in Fibers : pc'[g] = "push" => pc[g] = "push"
  PROVE  PresentInv'
<1>1. \A k \in 1 .. Len(waiters) : waiters[k].fiber \in Sleepers
  <2>1. \A k \in 1 .. Len(waiters) : waiters[k].fiber \in Fibers
    BY NotQueued, Zenon DEF CondInv
  <2>2. \A k \in 1 .. Len(waiters) : pc[waiters[k].fiber] \in {"link", "parked"}
    BY Zenon DEF CondInv, QueueInv
  <2>. QED
    BY <2>1, <2>2, Zenon DEF Sleepers
<1>2. \A g \in Fibers : pc[g] = "push" => g \in Sleepers
  BY Zenon DEF Sleepers
<1>3. /\ count'[f] = n /\ present'[f] = Sleepers
      /\ \A h \in Fibers \ {f} : count'[h] = count[h] /\ present'[h] = present[h]
  BY Zenon DEF CondInv, LocalsInv
<1>4. \A k \in 1 .. Len(waiters') : k <= count'[f] => waiters'[k].fiber \in present'[f]
  BY <1>1, <1>3, Zenon
<1>5. \A g \in Fibers : pc'[g] = "push" /\ Len(waiters') < count'[f] => g \in present'[f]
  BY <1>2, <1>3, Zenon
<1>6. ASSUME NEW h \in Fibers \ {f}
      PROVE /\ \A k \in 1 .. Len(waiters') : k <= count'[h] => waiters'[k].fiber \in present'[h]
            /\ \A g \in Fibers : pc'[g] = "push" /\ Len(waiters') < count'[h] => g \in present'[h]
  BY <1>3, Zenon DEF CondInv, PresentInv
<1>. QED
  BY <1>4, <1>5, <1>6, Zenon DEF PresentInv

(* Every step keeps the wakeups with the fibers they are owed to: a new    *)
(* waiter comes behind all of them.                                        *)
LEMMA PresentStep ==
  ASSUME CondInv, [Next]_vars
  PROVE  PresentInv'
<1>. USE DEF CondInv
<1>0. Len(waiters) \in Nat
  BY DEF QueueInv
<1>1. CASE UNCHANGED vars
  BY <1>1, PresentUntouched, Zenon DEF vars, cond
<1>2. ASSUME NEW f \in Fibers, Lock(f) \/ Unlock(f) \/ Enter(f) \/ SignalAdd(f)
      PROVE  PresentInv'
  BY <1>2, PresentUntouched, Zenon DEF Lock, Unlock, Enter, SignalAdd, GoTo, cond, LocalsInv
<1>3. CASE WaitUnlock
  BY <1>3, PresentUntouched, Zenon DEF WaitUnlock, cond
<1>4. ASSUME NEW f \in Fibers, Leave(f) PROVE PresentInv'
  <2>1. ~(count[f] > 0)
    BY <1>4, Zenon DEF Leave, MutexInv
  <2>. QED
    BY <1>4, <2>1, PresentUntouched, Zenon DEF Leave, GoTo, LocalsInv
<1>5. ASSUME NEW f \in Fibers, WaitCount(f) PROVE PresentInv'
  <2>1. mutex = f /\ pc[f] = "run" /\ pc' = [pc EXCEPT ![f] = "push"]
        /\ UNCHANGED <<waiters, count, present>>
    BY <1>5, Zenon DEF WaitCount, Holds, GoTo
  <2>2. \A g \in Fibers : pc[g] # "push"
    BY <2>1, Zenon DEF MutexInv
  <2>3. \A h \in Fibers : count[h] \in Nat /\ count[h] <= Len(waiters)
    BY <2>2, NobodyQueues, OwesNoMore, Zenon
  <2>. QED
    BY <1>0, <2>1, <2>3 DEF PresentInv
<1>6. ASSUME NEW f \in Fibers, WaitPush(f) PROVE PresentInv'
  <2>1. pc[f] = "push" /\ pc' = [pc EXCEPT ![f] = "link"] /\ UNCHANGED <<count, present>>
    BY <1>6, Zenon DEF WaitPush, GoTo
  <2>2. /\ Len(waiters') = Len(waiters) + 1
        /\ \A k \in 1 .. Len(waiters) : waiters'[k] = waiters[k]
        /\ waiters'[Len(waiters) + 1].fiber = f
    BY <1>6, QueuePushed, Zenon
  <2>3. \A g \in Fibers : pc'[g] # "push"
    BY <2>1, Zenon DEF MutexInv, LocalsInv
  <2>4. \A h \in Fibers : count[h] \in Nat
    BY Zenon DEF LocalsInv
  <2>5. ASSUME NEW h \in Fibers, NEW k \in 1 .. Len(waiters'), k <= count[h]
        PROVE  waiters'[k].fiber \in present[h]
    <3>1. CASE k \in 1 .. Len(waiters)
      BY <2>2, <2>5, <3>1, Zenon DEF PresentInv
    <3>2. CASE k = Len(waiters) + 1
      BY <1>0, <2>1, <2>2, <2>4, <2>5, <3>2, SMTT(30) DEF PresentInv
    <3>. QED
      BY <1>0, <2>2, <3>1, <3>2
  <2>. QED
    BY <2>1, <2>3, <2>5, Zenon DEF PresentInv
<1>7. ASSUME NEW f \in Fibers, WaitLink(f) PROVE PresentInv'
  <2>1. pc[f] = "link" /\ pc' = [pc EXCEPT ![f] = "parked"] /\ UNCHANGED <<count, present>>
    BY <1>7, Zenon DEF WaitLink, GoTo
  <2>2. /\ Len(waiters') = Len(waiters)
        /\ \A k \in 1 .. Len(waiters) : waiters'[k].fiber = waiters[k].fiber
    BY <1>7, QueueLinked, Zenon
  <2>3. \A g \in Fibers : pc'[g] = "push" => pc[g] = "push"
    BY <2>1, Zenon DEF LocalsInv
  <2>. QED
    BY <2>1, <2>2, <2>3, Zenon DEF PresentInv
<1>8. ASSUME NEW f \in Fibers, SignalSub(f) \/ BroadcastExchange(f) PROVE PresentInv'
  <2>1. \A g \in Fibers : pc'[g] = "push" => pc[g] = "push"
    BY <1>8, Zenon DEF SignalSub, BroadcastExchange, Owes, GoTo, LocalsInv
  <2>. QED
    BY <1>8, <2>1, PresentTaken, Zenon DEF SignalSub, BroadcastExchange, Owes
<1>9. ASSUME NEW f \in Fibers, Wake(f) PROVE PresentInv'
  <2>1. /\ Len(waiters') = Len(waiters) - 1 /\ Len(waiters) \in Nat \ {0}
        /\ \A k \in 1 .. Len(waiters') : waiters'[k] = waiters[k + 1]
    BY <1>9, QueuePopped, Zenon
  <2>2. pc[f] = "wake" /\ count' = [count EXCEPT ![f] = @ - 1] /\ UNCHANGED present
    BY <1>9, Zenon DEF Wake
  <2>3. \A h \in Fibers \ {f} : count[h] = 0
    <3>1. internal_mutex = f
      BY <2>2, Zenon DEF MutexInv, Inner
    <3>2. \A h \in Fibers \ {f} : pc[h] # "wake"
      BY <3>1, Zenon DEF MutexInv, Inner
    <3>. QED
      BY <3>2 DEF MutexInv, LocalsInv
  <2>4. count'[f] = count[f] - 1 /\ count[f] \in Nat /\ \A h \in Fibers \ {f} : count'[h] = 0
    BY <2>2, <2>3, Zenon DEF LocalsInv
  <2>5. \A g \in Fibers : pc'[g] = "push" => pc[g] = "push"
    BY <1>9, HeadIsParked, Zenon DEF Wake, LocalsInv
  <2>6. ASSUME NEW k \in 1 .. Len(waiters'), k <= count'[f]
        PROVE  waiters'[k].fiber \in present'[f]
    <3>1. k + 1 \in 1 .. Len(waiters) /\ k + 1 <= count[f]
      BY <2>1, <2>4, <2>6
    <3>. QED
      BY <2>1, <2>2, <3>1, Zenon DEF PresentInv
  <2>7. ASSUME NEW g \in Fibers, pc'[g] = "push", Len(waiters') < count'[f]
        PROVE  g \in present'[f]
    BY <2>1, <2>2, <2>4, <2>5, <2>7, SMTT(30) DEF PresentInv
  <2>8. ASSUME NEW h \in Fibers \ {f}
        PROVE /\ \A k \in 1 .. Len(waiters') : ~(k <= count'[h])
              /\ ~(Len(waiters') < count'[h])
    BY <2>1, <2>4
  <2>. QED
    BY <2>6, <2>7, <2>8, Zenon DEF PresentInv
<1>. QED
  BY <1>1, <1>2, <1>3, <1>4, <1>5, <1>6, <1>7, <1>8, <1>9, ZenonT(30) DEF Next, Proceed

-----------------------------------------------------------------------------
(* The counter, the queue, the two mutexes and the places of the fibers    *)
(* agree in every reachable state.                                         *)
THEOREM CondInvariant == Spec => []CondInv
<1>1. CondInv /\ [Next]_vars => CondInv'
  BY LocalsStep, QueueStep, MutexStep, BalanceStep, PresentStep, Zenon DEF CondInv
<1>. QED
  BY CondInit, <1>1, PTL DEF Spec

(* assert(new_val >= 0) in fiber_cond_signal holds whatever the            *)
(* interleaving, and waiter_count and what the holder of internal_mutex    *)
(* still has to wake add up to the fibers that wait.                       *)
THEOREM CondCount == Spec => []CountInv
<1>1. CondInv => CountInv
  <2>. SUFFICES ASSUME CondInv PROVE CountInv
    BY Zenon
  <2>. USE CondAssumption DEF CondInv, LocalsInv
  <2>1. \A f \in Fibers : pc[f] = "wake" => internal_mutex = f
    BY Zenon DEF MutexInv, Inner
  <2>2. (\A f \in Fibers : pc[f] # "add") => Short = 0
    BY Zenon DEF Short
  <2>3. Owed \in Nat /\ Short \in 0 .. 1 /\ (Short = 1 => \E f \in Fibers : pc[f] = "add")
    BY DEF Owed, Short
  <2>4. waiter_count \in -1 .. Cardinality(Fibers)
    BY <2>3, Sizes DEF BalanceInv
  <2>5. count \in [Fibers -> 0 .. Cardinality(Fibers)]
    <3>1. \A f \in Fibers : count[f] \in 0 .. Cardinality(Fibers)
      BY OwesNoMore, Sizes
    <3>. QED
      BY <3>1, Zenon
  <2>6. waiter_count = -1 => \E f \in Fibers : pc[f] = "add"
    BY <2>3 DEF BalanceInv
  <2>7. TypeOK
    BY <2>4, <2>5, <2>6, Zenon DEF TypeOK, QueueInv, Entry, Places
  <2>8. (\A f \in Fibers : pc[f] # "add") => waiter_count + Owed = Cardinality(Sleepers)
    BY <2>2, <2>3 DEF BalanceInv
  <2>. QED
    BY <2>1, <2>7, <2>8, Zenon DEF CountInv, BalanceInv, Owed
<1>. QED
  BY CondInvariant, <1>1, PTL

(* A signal or broadcast wakes only fibers that were waiting when it took  *)
(* its count: fibers that start to wait while it pops cannot overtake them *)
(* in the queue and steal a wakeup.                                        *)
THEOREM CondNoStolenWakeup == Spec => NoStolenWakeup
<1>1. ASSUME CondInv, NEW f \in Fibers, NEW g \in Fibers, Wake(f),
             pc[g] = "parked", pc'[g] = "relock"
      PROVE  g \in present[f]
  <2>1. /\ Len(waiters) \in Nat \ {0} /\ Head(waiters) = waiters[1]
        /\ Head(waiters).fiber \in Fibers
    BY <1>1, HeadIsParked, Zenon DEF CondInv, Wake
  <2>2. g = waiters[1].fiber
    BY <1>1, <2>1, Zenon DEF CondInv, LocalsInv, Wake
  <2>3. 1 <= count[f]
    BY <1>1 DEF CondInv, LocalsInv, MutexInv, Wake
  <2>4. 1 \in 1 .. Len(waiters)
    BY <2>1
  <2>. QED
    BY <1>1, <2>2, <2>3, <2>4, Zenon DEF CondInv, PresentInv
<1>2. CondInv /\ [Next]_vars
        => [\A f, g \in Fibers : Wake(f) /\ pc[g] = "parked" /\ pc'[g] = "relock"
                                 => g \in present[f]]_vars
  BY <1>1, Zenon
<1>. QED
  BY CondInvariant, <1>2, PTL DEF Spec, NoStolenWakeup

-----------------------------------------------------------------------------
(* The semaphore, FiberSemaphore.tla.                                      *)

SemPlaces == {"run", "push", "link", "parked", "trycas", "has", "post", "pop", "add", "cas"}

(* Fibers between the decrement of their wait and the increment of their   *)
(* post.                                                                   *)
Busy == Fibers \ In({"run", "trycas"})

(* trywait swaps only a counter that it has seen positive.                 *)
SemLocalsInv ==
  /\ counter \in Int
  /\ pc \in [Fibers -> SemPlaces]
  /\ seen \in [Fibers -> Int]
  /\ \A f \in Fibers : pc[f] = "trycas" => seen[f] > 0

(* The queue holds every fiber that is being suspended at most once, and   *)
(* an entry can be popped exactly when its fiber is parked.                *)
SemQueueInv ==
  /\ waiters \in Seq(Entry)
  /\ \A k \in 1 .. Len(waiters) :
       pc[waiters[k].fiber] = IF waiters[k].linked THEN "parked" ELSE "link"
  /\ \A j, k \in 1 .. Len(waiters) : waiters[j].fiber = waiters[k].fiber => j = k

SemaphoreInv == SemLocalsInv /\ SemQueueInv /\ CounterInv /\ WithinValue

-----------------------------------------------------------------------------
(* Holders are busy, and both sets are finite.                             *)
LEMMA SemSizes ==
  ASSUME pc \in [Fibers -> SemPlaces]
  PROVE  /\ IsFiniteSet(Busy) /\ IsFiniteSet(Holders)
         /\ Cardinality(Busy) \in Nat /\ Cardinality(Holders) \in Nat
         /\ Cardinality(Holders) <= Cardinality(Busy)
<1>1. Busy \subseteq Fibers /\ Holders \subseteq Busy
  BY Zenon DEF Busy, Holders, In
<1>2. IsFiniteSet(Busy)
  BY <1>1, SemaphoreAssumption, FS_Subset, Zenon
<1>3. IsFiniteSet(Holders) /\ Cardinality(Holders) <= Cardinality(Busy)
  BY <1>1, <1>2, FS_Subset, Zenon
<1>. QED
  BY <1>2, <1>3, FS_CardinalityType, Zenon

(* A fiber that is neither linking nor parked has no entry in the queue.   *)
LEMMA SemNotQueued ==
  ASSUME SemQueueInv
  PROVE  /\ \A k \in 1 .. Len(waiters) : waiters[k].fiber \in Fibers
         /\ \A f \in Fibers : pc[f] \notin {"link", "parked"}
              => \A k \in 1 .. Len(waiters) : waiters[k].fiber # f
<1>1. \A k \in 1 .. Len(waiters) : waiters[k] \in Entry
  BY DEF SemQueueInv
<1>2. \A k \in 1 .. Len(waiters) : pc[waiters[k].fiber] \in {"link", "parked"}
  BY Zenon DEF SemQueueInv
<1>. QED
  BY <1>1, <1>2, Zenon DEF Entry

(* The fiber at the head of a queue that can be popped is parked.          *)
LEMMA SemHeadIsParked ==
  ASSUME SemQueueInv, CanPop(waiters)
  PROVE  /\ Len(waiters) \in Nat \ {0}
         /\ Head(waiters) = waiters[1]
         /\ Head(waiters).fiber \in Fibers
         /\ pc[Head(waiters).fiber] = "parked"
<1>1. waiters \in Seq(Entry) /\ waiters # <<>> /\ Head(waiters).linked
  BY Zenon DEF SemQueueInv, CanPop
<1>2. Len(waiters) \in Nat \ {0} /\ Head(waiters) = waiters[1] /\ waiters[1] \in Entry
  BY <1>1
<1>. QED
  BY <1>1, <1>2 DEF SemQueueInv, Entry

(* fiber_semaphore_init establishes the invariant.                         *)
LEMMA SemaphoreInit == SemInit => SemaphoreInv
<1>. SUFFICES ASSUME SemInit PROVE SemaphoreInv
  BY Zenon
<1>1. Busy = {} /\ Holders = {}
  BY Zenon DEF SemInit, Busy, Holders, In
<1>2. Cardinality(Busy) = 0 /\ Cardinality(Holders) = 0
  BY <1>1, FS_EmptySet, Zenon
<1>5. CounterInv /\ WithinValue
  BY <1>2, SemaphoreAssumption DEF SemInit, Busy, CounterInv, WithinValue
<1>3. SemLocalsInv
  BY SemaphoreAssumption DEF SemInit, SemLocalsInv, SemPlaces
<1>4. SemQueueInv
  BY DEF SemInit, SemQueueInv
<1>. QED
  BY <1>3, <1>4, <1>5, Zenon DEF SemaphoreInv

-----------------------------------------------------------------------------
(* Every step keeps the types, and a trywait's load sees a positive        *)
(* counter.                                                                *)
LEMMA SemLocalsStep ==
  ASSUME SemaphoreInv, [SemNext]_semaphore
  PROVE  SemLocalsInv'
<1>. USE DEF SemaphoreInv, SemLocalsInv, SemPlaces, GoTo
<1>1. CASE UNCHANGED semaphore
  BY <1>1, Zenon DEF semaphore
<1>2. ASSUME NEW f \in Fibers, Wait(f) PROVE SemLocalsInv'
  BY <1>2 DEF Wait, Granted
<1>3. ASSUME NEW f \in Fibers, SemPush(f) \/ SemLink(f) PROVE SemLocalsInv'
  BY <1>3, Zenon DEF SemPush, SemLink
<1>4. ASSUME NEW f \in Fibers, TryWaitLoad(f) PROVE SemLocalsInv'
  BY <1>4, Zenon DEF TryWaitLoad
<1>5. ASSUME NEW f \in Fibers, TryWaitCas(f) PROVE SemLocalsInv'
  BY <1>5 DEF TryWaitCas
<1>6. ASSUME NEW f \in Fibers, PostLoad(f) PROVE SemLocalsInv'
  BY <1>6 DEF PostLoad
<1>7. ASSUME NEW f \in Fibers, PostPop(f) PROVE SemLocalsInv'
  <2>1. CASE CanPop(waiters)
    BY <1>7, <2>1, SemHeadIsParked, Zenon DEF PostPop
  <2>2. CASE ~CanPop(waiters)
    BY <1>7, <2>2, Zenon DEF PostPop
  <2>. QED
    BY <2>1, <2>2, Zenon
<1>8. ASSUME NEW f \in Fibers, PostAdd(f) PROVE SemLocalsInv'
  BY <1>8 DEF PostAdd, Counted
<1>9. ASSUME NEW f \in Fibers, PostCas(f) \/ PostCasFails(f) PROVE SemLocalsInv'
  BY <1>9 DEF PostCas, PostCasFails
<1>. QED
  BY <1>1, <1>2, <1>3, <1>4, <1>5, <1>6, <1>7, <1>8, <1>9, Zenon DEF SemNext, Continue

-----------------------------------------------------------------------------
(* A step of a fiber that is neither queued nor queueing itself leaves the *)
(* queue invariant alone.                                                  *)
LEMMA SemQueueUntouched ==
  ASSUME SemaphoreInv, NEW f \in Fibers, pc[f] \notin {"link", "parked"},
         NEW p, pc' = [pc EXCEPT ![f] = p], UNCHANGED waiters
  PROVE  SemQueueInv'
<1>1. \A k \in 1 .. Len(waiters) : waiters[k].fiber \in Fibers /\ waiters[k].fiber # f
  BY SemNotQueued, Zenon DEF SemaphoreInv
<1>. QED
  BY <1>1, Zenon DEF SemaphoreInv, SemQueueInv, SemLocalsInv

(* Push, link and pop keep the queue in agreement with the fibers' places. *)
LEMMA SemQueueStep ==
  ASSUME SemaphoreInv, [SemNext]_semaphore
  PROVE  SemQueueInv'
<1>. USE DEF SemaphoreInv
<1>1. CASE UNCHANGED semaphore
  BY <1>1, Zenon DEF semaphore, SemQueueInv
<1>2. ASSUME NEW f \in Fibers, SemPush(f) PROVE SemQueueInv'
  <2>1. /\ pc[f] = "push" /\ pc' = [pc EXCEPT ![f] = "link"]
        /\ waiters' = Append(waiters, [fiber |-> f, linked |-> FALSE])
    BY <1>2, Zenon DEF SemPush, GoTo, Pushed
  <2>2. /\ waiters' \in Seq(Entry) /\ Len(waiters') = Len(waiters) + 1
        /\ \A k \in 1 .. Len(waiters) : waiters'[k] = waiters[k]
        /\ waiters'[Len(waiters) + 1] = [fiber |-> f, linked |-> FALSE]
        /\ Len(waiters) \in Nat
    BY <2>1 DEF SemQueueInv, Entry
  <2>3. \A k \in 1 .. Len(waiters) : waiters[k].fiber \in Fibers \ {f}
    BY <2>1, SemNotQueued, Zenon
  <2>7. \A k \in 1 .. Len(waiters') : k \in 1 .. Len(waiters) \/ k = Len(waiters) + 1
    BY ONLY <2>2
  <2>8. waiters'[Len(waiters) + 1].fiber = f /\ waiters'[Len(waiters) + 1].linked = FALSE
    BY ONLY <2>2
  <2>9. pc'[f] = "link" /\ \A g \in Fibers \ {f} : pc'[g] = pc[g]
    BY <2>1, Zenon DEF SemLocalsInv
  <2>4. \A k \in 1 .. Len(waiters') :
          pc'[waiters'[k].fiber] = IF waiters'[k].linked THEN "parked" ELSE "link"
    <3>1. \A k \in 1 .. Len(waiters) :
            pc[waiters[k].fiber] = IF waiters[k].linked THEN "parked" ELSE "link"
      BY Zenon DEF SemQueueInv
    <3>. QED
      BY ONLY <2>2, <2>3, <2>7, <2>8, <2>9, <3>1, SMTT(30)
  <2>5. \A j, k \in 1 .. Len(waiters') : waiters'[j].fiber = waiters'[k].fiber => j = k
    BY <2>2, <2>3, <2>7, <2>8, ZenonT(30) DEF SemQueueInv
  <2>. QED
    BY <2>2, <2>4, <2>5, Zenon DEF SemQueueInv
<1>3. ASSUME NEW f \in Fibers, SemLink(f) PROVE SemQueueInv'
  <2>1. pc[f] = "link" /\ pc' = [pc EXCEPT ![f] = "parked"] /\ waiters' = Linked(waiters, f)
    BY <1>3, Zenon DEF SemLink, GoTo
  <2>2. /\ Len(waiters) \in Nat /\ DOMAIN waiters = 1 .. Len(waiters)
        /\ \A k \in 1 .. Len(waiters) : waiters[k] \in Entry
    BY DEF SemQueueInv
  <2>3. \A k \in 1 .. Len(waiters) :
          /\ waiters'[k] \in Entry /\ waiters'[k].fiber = waiters[k].fiber
          /\ waiters'[k].linked = (waiters[k].linked \/ waiters[k].fiber = f)
    BY <2>1, <2>2, Zenon DEF Linked, Entry
  <2>6. waiters' \in [1 .. Len(waiters) -> Entry]
    BY <2>1, <2>2, <2>3, Zenon DEF Linked
  <2>4. waiters' \in Seq(Entry) /\ Len(waiters') = Len(waiters)
    BY ONLY <2>2, <2>6
  <2>7. \A k \in 1 .. Len(waiters') : waiters[k].fiber \in Fibers /\ waiters[k].linked \in BOOLEAN
    BY <2>2, <2>4, Zenon DEF Entry
  <2>8. pc'[f] = "parked" /\ \A g \in Fibers \ {f} : pc'[g] = pc[g]
    BY <2>1, Zenon DEF SemLocalsInv
  <2>5. \A k \in 1 .. Len(waiters') :
          pc'[waiters'[k].fiber] = IF waiters'[k].linked THEN "parked" ELSE "link"
    <3>1. \A k \in 1 .. Len(waiters) :
            pc[waiters[k].fiber] = IF waiters[k].linked THEN "parked" ELSE "link"
      BY Zenon DEF SemQueueInv
    <3>2. SUFFICES ASSUME NEW k \in 1 .. Len(waiters)
                   PROVE  pc'[waiters[k].fiber] = IF waiters'[k].linked THEN "parked" ELSE "link"
      BY <2>3, <2>4, Zenon
    <3>3. CASE waiters[k].fiber = f
      <4>1. waiters'[k].linked = TRUE
        BY <2>3, <3>3, Zenon
      <4>. QED
        BY <2>8, <3>3, <4>1, Zenon
    <3>4. CASE waiters[k].fiber # f
      <4>1. waiters'[k].linked = waiters[k].linked
        BY <2>3, <2>4, <2>7, <3>4, Zenon
      <4>2. pc'[waiters[k].fiber] = pc[waiters[k].fiber]
        BY <2>4, <2>7, <2>8, <3>4, Zenon
      <4>. QED
        BY <3>1, <4>1, <4>2, Zenon
    <3>. QED
      BY <3>3, <3>4, Zenon
  <2>. QED
    BY <2>3, <2>4, <2>5, Zenon DEF SemQueueInv
<1>4. ASSUME NEW f \in Fibers, PostPop(f), CanPop(waiters) PROVE SemQueueInv'
  <2>. DEFINE g == Head(waiters).fiber
  <2>1. /\ pc[f] = "pop" /\ waiters' = Tail(waiters)
        /\ pc' = [pc EXCEPT ![f] = "add", ![g] = "has"]
    BY <1>4, Zenon DEF PostPop, Rest
  <2>2. Len(waiters) \in Nat \ {0} /\ g = waiters[1].fiber /\ g \in Fibers
    BY <1>4, SemHeadIsParked, Zenon
  <2>3. /\ waiters' \in Seq(Entry) /\ Len(waiters') = Len(waiters) - 1
        /\ \A k \in 1 .. Len(waiters') : waiters'[k] = waiters[k + 1]
    BY <2>1, <2>2 DEF SemQueueInv
  <2>4. \A k \in 1 .. Len(waiters') : waiters'[k].fiber \in Fibers \ {f, g}
    <3>1. SUFFICES ASSUME NEW k \in 1 .. Len(waiters')
                   PROVE  waiters[k + 1].fiber \in Fibers \ {f, g}
      BY <2>3, Zenon
    <3>2. k + 1 \in 1 .. Len(waiters) /\ 1 \in 1 .. Len(waiters) /\ k + 1 # 1
      BY <2>2, <2>3
    <3>3. waiters[k + 1].fiber \in Fibers \ {f}
      BY <2>1, <3>2, SemNotQueued, Zenon
    <3>. QED
      BY <2>2, <3>2, <3>3, Zenon DEF SemQueueInv
  <2>5. \A k \in 1 .. Len(waiters') :
          pc'[waiters'[k].fiber] = IF waiters'[k].linked THEN "parked" ELSE "link"
    BY <2>1, <2>2, <2>3, <2>4, SMTT(30) DEF SemQueueInv, SemLocalsInv
  <2>6. \A j, k \in 1 .. Len(waiters') : waiters'[j].fiber = waiters'[k].fiber => j = k
    <3>1. SUFFICES ASSUME NEW j \in 1 .. Len(waiters'), NEW k \in 1 .. Len(waiters'),
                          waiters'[j].fiber = waiters'[k].fiber
                   PROVE  j = k
      BY Zenon
    <3>2. j \in Int /\ k \in Int /\ j + 1 \in 1 .. Len(waiters) /\ k + 1 \in 1 .. Len(waiters)
      BY <2>2, <2>3
    <3>3. waiters[j + 1].fiber = waiters[k + 1].fiber
      BY <2>3, <3>1, Zenon
    <3>4. j + 1 = k + 1
      BY <3>2, <3>3, Zenon DEF SemQueueInv
    <3>. QED
      BY ONLY <3>2, <3>4
  <2>. QED
    BY <2>3, <2>5, <2>6, Zenon DEF SemQueueInv
<1>5. ASSUME NEW f \in Fibers, PostPop(f), ~CanPop(waiters) PROVE SemQueueInv'
  BY <1>5, SemQueueUntouched, Zenon DEF PostPop, GoTo
<1>6. ASSUME NEW f \in Fibers, Wait(f) \/ TryWaitLoad(f) \/ TryWaitCas(f) PROVE SemQueueInv'
  BY <1>6, SemQueueUntouched, Zenon DEF Wait, TryWaitLoad, TryWaitCas, GoTo
<1>7. ASSUME NEW f \in Fibers, PostLoad(f) \/ PostAdd(f) \/ PostCas(f) \/ PostCasFails(f)
      PROVE  SemQueueInv'
  BY <1>7, SemQueueUntouched, Zenon DEF PostLoad, PostAdd, PostCas, PostCasFails, GoTo
<1>. QED
  BY <1>1, <1>2, <1>3, <1>4, <1>5, <1>6, <1>7, Zenon DEF SemNext, Continue

-----------------------------------------------------------------------------
(* A step that starts or ends nobody's turn keeps both counts.             *)
LEMMA CountsKept ==
  ASSUME SemaphoreInv, UNCHANGED counter, Busy' = Busy, Holders' = Holders
  PROVE  CounterInv' /\ WithinValue'
BY Zenon DEF SemaphoreInv, CounterInv, WithinValue, Busy

(* A decrement that leaves the counter non-negative admits one holder more *)
(* and one that makes it negative admits none.                             *)
LEMMA CountsTaken ==
  ASSUME SemaphoreInv, SemLocalsInv', NEW f \in Fibers, f \notin Busy,
         counter' = counter - 1, Busy' = Busy \cup {f},
         counter' >= 0 \/ Holders' = Holders
  PROVE  CounterInv' /\ WithinValue'
<1>1. IsFiniteSet(Busy) /\ Cardinality(Busy) \in Nat
  BY SemSizes, Zenon DEF SemaphoreInv, SemLocalsInv
<1>2. Cardinality(Busy') = Cardinality(Busy) + 1
  BY <1>1, FS_AddElement, Zenon
<1>3. counter' = Value - Cardinality(Busy')
  BY <1>1, <1>2, SemaphoreAssumption, SMTT(30) DEF SemaphoreInv, CounterInv, Busy
<1>4. (Cardinality(Holders) \in Nat /\ Cardinality(Holders) <= Cardinality(Busy))'
  <2>1. (pc \in [Fibers -> SemPlaces])'
    BY Zenon DEF SemLocalsInv
  <2>. QED
    BY <2>1, SemaphoreAssumption, FS_Subset, FS_CardinalityType, Zenon DEF Busy, Holders, In
<1>5. WithinValue'
  BY <1>1, <1>2, <1>3, <1>4, SemaphoreAssumption, SMTT(30) DEF SemaphoreInv, WithinValue
<1>. QED
  BY <1>3, <1>5, Zenon DEF CounterInv, Busy

(* An increment ends one turn.                                             *)
LEMMA CountsReturned ==
  ASSUME SemaphoreInv, NEW f \in Busy, counter' = counter + 1,
         Busy' = Busy \ {f}, Holders' \subseteq Holders
  PROVE  CounterInv' /\ WithinValue'
<1>1. /\ IsFiniteSet(Busy) /\ Cardinality(Busy) \in Nat
      /\ IsFiniteSet(Holders) /\ Cardinality(Holders) \in Nat
  BY SemSizes, Zenon DEF SemaphoreInv, SemLocalsInv
<1>2. Cardinality(Busy') = Cardinality(Busy) - 1
  BY <1>1, FS_RemoveElement, Zenon
<1>3. Cardinality(Holders') <= Cardinality(Holders) /\ Cardinality(Holders') \in Nat
  BY <1>1, FS_Subset, FS_CardinalityType, Zenon
<1>4. CounterInv'
  BY <1>1, <1>2, SemaphoreAssumption DEF SemaphoreInv, CounterInv, Busy
<1>. QED
  BY <1>1, <1>3, <1>4, SemaphoreAssumption DEF SemaphoreInv, WithinValue

(* A post that pops a waiter hands its turn over.                          *)
LEMMA CountsHanded ==
  ASSUME SemaphoreInv, NEW f \in Holders, NEW g, g \notin Holders, UNCHANGED counter,
         Busy' = Busy, Holders' = (Holders \ {f}) \cup {g}
  PROVE  CounterInv' /\ WithinValue'
<1>1. IsFiniteSet(Holders) /\ Cardinality(Holders) \in Nat
  BY SemSizes, Zenon DEF SemaphoreInv, SemLocalsInv
<1>2. IsFiniteSet(Holders \ {f}) /\ Cardinality(Holders \ {f}) = Cardinality(Holders) - 1
  BY <1>1, FS_RemoveElement, Zenon
<1>3. Cardinality(Holders') = Cardinality(Holders \ {f}) + 1
  BY <1>2, FS_AddElement, Zenon
<1>4. Cardinality(Holders') = Cardinality(Holders)
  BY <1>1, <1>2, <1>3
<1>. QED
  BY <1>4, Zenon DEF SemaphoreInv, CounterInv, WithinValue, Busy

(* Every step keeps the counter in agreement with the turns taken.         *)
LEMMA CountsStep ==
  ASSUME SemaphoreInv, SemLocalsInv', [SemNext]_semaphore
  PROVE  CounterInv' /\ WithinValue'
<1>. DEFINE Goal == CounterInv' /\ WithinValue'
<1>0. pc \in [Fibers -> SemPlaces] /\ counter \in Int /\ seen \in [Fibers -> Int]
  BY Zenon DEF SemaphoreInv, SemLocalsInv
<1>1. CASE UNCHANGED semaphore
  BY <1>1, CountsKept, Zenon DEF semaphore, Busy, Holders, In
<1>2. ASSUME NEW f \in Fibers, Wait(f) PROVE Goal
  <2>1. f \notin Busy /\ counter' = counter - 1 /\ Busy' = Busy \cup {f}
    BY <1>0, <1>2, Zenon DEF Wait, GoTo, Busy, In
  <2>2. counter' >= 0 \/ Holders' = Holders
    BY <1>0, <1>2, Zenon DEF Wait, GoTo, Granted, Holders, In
  <2>. QED
    BY <2>1, <2>2, CountsTaken, Zenon
<1>3. ASSUME NEW f \in Fibers, SemPush(f) \/ SemLink(f) \/ TryWaitLoad(f) PROVE Goal
  <2>1. Busy' = Busy /\ Holders' = Holders /\ UNCHANGED counter
    BY <1>0, <1>3, Zenon DEF SemPush, SemLink, TryWaitLoad, GoTo, Busy, Holders, In
  <2>. QED
    BY <2>1, CountsKept, Zenon
<1>4. ASSUME NEW f \in Fibers, pc[f] = "trycas", GoTo(f, "run"), UNCHANGED counter
      PROVE  Goal
  <2>1. Busy' = Busy /\ Holders' = Holders
    BY <1>0, <1>4, Zenon DEF GoTo, Busy, Holders, In
  <2>. QED
    BY <1>4, <2>1, CountsKept, Zenon
<1>5. ASSUME NEW f \in Fibers, pc[f] = "trycas", Unchanged(f), counter' = seen[f] - 1,
             GoTo(f, "has")
      PROVE  Goal
  <2>1. f \notin Busy /\ counter' = counter - 1 /\ Busy' = Busy \cup {f}
    BY <1>0, <1>5, Zenon DEF GoTo, Busy, In, Unchanged
  <2>2. counter' >= 0
    BY <1>0, <1>5, SMTT(30) DEF SemaphoreInv, SemLocalsInv
  <2>. QED
    BY <2>1, <2>2, CountsTaken, Zenon
<1>6. ASSUME NEW f \in Fibers, PostLoad(f) \/ PostCasFails(f) PROVE Goal
  <2>1. Busy' = Busy /\ Holders' = Holders /\ UNCHANGED counter
    BY <1>0, <1>6, Zenon DEF PostLoad, PostCasFails, GoTo, Busy, Holders, In
  <2>. QED
    BY <2>1, CountsKept, Zenon
<1>7. ASSUME NEW f \in Fibers, PostPop(f), ~CanPop(waiters) PROVE Goal
  <2>1. Busy' = Busy /\ Holders' = Holders /\ UNCHANGED counter
    BY <1>0, <1>7, Zenon DEF PostPop, GoTo, Busy, Holders, In
  <2>. QED
    BY <2>1, CountsKept, Zenon
<1>8. ASSUME NEW f \in Fibers, PostPop(f), CanPop(waiters) PROVE Goal
  <2>. DEFINE g == Head(waiters).fiber
  <2>1. g \in Fibers /\ pc[g] = "parked"
    BY <1>8, SemHeadIsParked, Zenon DEF SemaphoreInv
  <2>. HIDE DEF g
  <2>2. pc[f] = "pop" /\ pc' = [pc EXCEPT ![f] = "add", ![g] = "has"] /\ UNCHANGED counter
    BY <1>8, Zenon DEF PostPop, g
  <2>3. f \in Holders /\ g \notin Holders /\ Busy' = Busy
    BY <1>0, <2>1, <2>2, Zenon DEF Busy, Holders, In
  <2>4. Holders' = (Holders \ {f}) \cup {g}
    BY <1>0, <2>1, <2>2, Zenon DEF Holders, In
  <2>. QED
    BY <2>2, <2>3, <2>4, CountsHanded, Zenon
<1>9. ASSUME NEW f \in Fibers, PostAdd(f) PROVE Goal
  <2>1. f \in Busy /\ counter' = counter + 1 /\ Busy' = Busy \ {f} /\ Holders' \subseteq Holders
    BY <1>0, <1>9, Zenon DEF PostAdd, Counted, GoTo, Busy, Holders, In
  <2>. QED
    BY <2>1, CountsReturned, Zenon
<1>10. ASSUME NEW f \in Fibers, PostCas(f) PROVE Goal
  <2>1. CASE Unchanged(f)
    <3>1. f \in Busy /\ counter' = counter + 1 /\ Busy' = Busy \ {f} /\ Holders' \subseteq Holders
      BY <1>0, <1>10, <2>1, Zenon DEF PostCas, Counted, GoTo, Busy, Holders, In, Unchanged
    <3>. QED
      BY <3>1, CountsReturned, Zenon
  <2>2. CASE ~Unchanged(f)
    <3>1. Busy' = Busy /\ Holders' = Holders /\ UNCHANGED counter
      BY <1>0, <1>10, <2>2, Zenon DEF PostCas, GoTo, Busy, Holders, In
    <3>. QED
      BY <3>1, CountsKept, Zenon
  <2>. QED
    BY <2>1, <2>2, Zenon
<1>. QED
  BY <1>1, <1>2, <1>3, <1>4, <1>5, <1>6, <1>7, <1>8, <1>9, <1>10, ZenonT(30)
     DEF SemNext, Continue, TryWaitCas

-----------------------------------------------------------------------------
(* The counter, the queue and the places of the fibers agree in every      *)
(* reachable state.                                                        *)
THEOREM SemaphoreInvariant == SemSpec => []SemaphoreInv
<1>1. SemaphoreInv /\ [SemNext]_semaphore => SemaphoreInv'
  BY SemLocalsStep, SemQueueStep, CountsStep, Zenon DEF SemaphoreInv
<1>. QED
  BY SemaphoreInit, <1>1, PTL DEF SemSpec

(* Never more fibers are past fiber_semaphore_wait or a successful         *)
(* fiber_semaphore_trywait, and not yet through with their                 *)
(* fiber_semaphore_post, than the semaphore was initialised with.          *)
THEOREM SemaphoreWithinValue == SemSpec => []WithinValue
<1>1. SemaphoreInv => WithinValue
  BY Zenon DEF SemaphoreInv
<1>. QED
  BY SemaphoreInvariant, <1>1, PTL

(* The counter is the initial value less the turns taken and not given     *)
(* back: no interleaving of wait, trywait and post loses a count.          *)
THEOREM SemaphoreCounter == SemSpec => []CounterInv
<1>1. SemaphoreInv => CounterInv
  BY Zenon DEF SemaphoreInv
<1>. QED
  BY SemaphoreInvariant, <1>1, PTL

(* Type correctness: the counter stays between the value less one for each *)
(* fiber and the value, so it cannot leave an int.                         *)
THEOREM SemaphoreTypeOK == SemSpec => []SemTypeOK
<1>1. SemaphoreInv => SemTypeOK
  <2>. SUFFICES ASSUME SemaphoreInv PROVE SemTypeOK
    BY Zenon
  <2>1. Busy \subseteq Fibers
    BY Zenon DEF Busy
  <2>2. Cardinality(Busy) \in Nat /\ Cardinality(Fibers) \in Nat
    BY SemSizes, SemaphoreAssumption, FS_CardinalityType, Zenon DEF SemaphoreInv, SemLocalsInv
  <2>3. Cardinality(Busy) <= Cardinality(Fibers)
    BY <2>1, SemaphoreAssumption, FS_Subset, Zenon
  <2>4. counter \in Value - Cardinality(Fibers) .. Value
    BY <2>2, <2>3, SemaphoreAssumption DEF SemaphoreInv, CounterInv, Busy
  <2>. QED
    BY <2>4, Zenon DEF SemTypeOK, SemaphoreInv, SemLocalsInv, SemQueueInv, SemPlaces, Entry
<1>. QED
  BY SemaphoreInvariant, <1>1, PTL

-----------------------------------------------------------------------------
(* The ticket spin lock, FiberSpinlock.tla.                                *)

(* Arithmetic around the counter: the distance from b up to a is a counter *)
(* value, is zero only when a = b, and determines a.                       *)
LEMMA AheadFacts ==
  ASSUME NEW a \in Counter, NEW b \in Counter, NEW c \in Counter
  PROVE  /\ Ahead(a, b) \in Counter
         /\ Ahead(a, b) = 0 <=> a = b
         /\ Ahead(a, c) = Ahead(b, c) => a = b
  BY SpinAssumption DEF Counter, Ahead

(* What the uint32_t increment does to a distance, on either side.         *)
LEMMA AheadInc ==
  ASSUME NEW a \in Counter, NEW b \in Counter
  PROVE  /\ Inc(a) \in Counter
         /\ Ahead(a, b) = Modulus - 1 => Inc(a) = b
         /\ Ahead(a, b) # Modulus - 1 => Ahead(Inc(a), b) = Ahead(a, b) + 1
         /\ a # b => Ahead(a, Inc(b)) = Ahead(a, b) - 1
         /\ a = b => Ahead(a, Inc(b)) = Modulus - 1
  BY SpinAssumption, SMTT(30) DEF Counter, Ahead, Inc

(* The queue is finite, and a thread outside it leaves room for a ticket.  *)
LEMMA QueueSize ==
  /\ IsFiniteSet(Queue)
  /\ Cardinality(Queue) \in Nat
  /\ Cardinality(Queue) <= Modulus
  /\ \A t \in Threads \ Queue : Cardinality(Queue) < Modulus
<1>1. IsFiniteSet(Queue) /\ Cardinality(Queue) \in Nat
  <2>1. Queue \subseteq Threads
    BY Zenon DEF Queue
  <2>. QED
    BY <2>1, SpinAssumption, FS_Subset, FS_CardinalityType, Zenon
<1>2. Cardinality(Queue) <= Cardinality(Threads)
  BY SpinAssumption, FS_Subset, Zenon DEF Queue
<1>3. Cardinality(Threads) \in Nat
  BY SpinAssumption, FS_CardinalityType, Zenon
<1>4. ASSUME NEW t \in Threads \ Queue
      PROVE  Cardinality(Queue) < Modulus
  <2>1. Queue \subseteq Threads \ {t}
    BY Zenon DEF Queue
  <2>2. /\ IsFiniteSet(Threads \ {t})
        /\ Cardinality(Threads \ {t}) = Cardinality(Threads) - 1
    BY SpinAssumption, FS_RemoveElement, Zenon
  <2>3. Cardinality(Queue) <= Cardinality(Threads \ {t})
    BY <2>1, <2>2, FS_Subset, Zenon
  <2>. QED
    BY <2>2, <2>3, <1>1, <1>3, SpinAssumption, SMTT(30)
<1>. QED
  BY <1>1, <1>2, <1>3, <1>4, SpinAssumption, SMTT(30)

(* fiber_spinlock_init establishes the invariant.                          *)
LEMMA TicketInit == SpinInit => TicketInv
<1>. SUFFICES ASSUME SpinInit PROVE TicketInv
  BY Zenon
<1>1. Queue = {}
  BY Zenon DEF SpinInit, Queue, HasTicket
<1>2. Cardinality(Queue) = 0
  BY <1>1, FS_EmptySet, Zenon
<1>3. SpinTypeOK
  BY SpinAssumption DEF SpinInit, SpinTypeOK, Counter, PCs
<1>. QED
  BY <1>1, <1>2, <1>3, SpinAssumption, SMTT(30) DEF SpinInit, TicketInv, HasLock, Ahead

(* A thread joins the queue with the ticket `users`, and `users` moves on: *)
(* what fiber_spinlock_lock and a successful trylock have in common.       *)
LEMMA JoinQueue ==
  ASSUME TicketInv, NEW t \in Threads, ~HasTicket(t),
         NEW place \in {"spinning", "locked"},
         place = "locked" => ticket = users,
         at' = [at EXCEPT ![t] = place],
         my_ticket' = [my_ticket EXCEPT ![t] = users],
         users' = Inc(users), UNCHANGED <<ticket, loaded>>
  PROVE  TicketInv'
<1>. USE DEF TicketInv
<1>1. SpinTypeOK'
  BY AheadInc, Zenon DEF SpinTypeOK, PCs
<1>2. t \notin Queue /\ Queue' = Queue \cup {t}
  BY Zenon DEF Queue, HasTicket, SpinTypeOK
<1>3. Cardinality(Queue') = Cardinality(Queue) + 1
  BY <1>2, QueueSize, FS_AddElement, Zenon
<1>4. Cardinality(Queue) \in Nat /\ Cardinality(Queue) < Modulus
  BY <1>2, QueueSize, Zenon
<1>5. Ahead(users, ticket) = Cardinality(Queue)
  BY <1>4, SpinAssumption, SMTT(30)
<1>6. \A u \in Queue : my_ticket[u] # users
  BY <1>4, <1>5, SpinAssumption DEF SpinTypeOK, Counter
<1>7. (\A u, w \in Queue : my_ticket[u] = my_ticket[w] => u = w)'
  BY <1>2, <1>6, Zenon DEF SpinTypeOK, Queue
<1>8. (\A u \in Queue : Ahead(my_ticket[u], ticket) < Cardinality(Queue))'
  <2>1. ASSUME NEW u \in Queue
        PROVE  Ahead(my_ticket[u], ticket) < Cardinality(Queue) + 1
    <3>1. my_ticket[u] \in Counter /\ ticket \in Counter
      BY Zenon DEF SpinTypeOK, Queue
    <3>2. Ahead(my_ticket[u], ticket) \in Counter
      BY <3>1, AheadFacts, Zenon
    <3>. QED
      BY <3>2, <1>4, SpinAssumption DEF Counter
  <2>2. \A u \in Queue : my_ticket'[u] = my_ticket[u] /\ u # t
    BY <1>2, Zenon DEF SpinTypeOK, Queue
  <2>3. my_ticket'[t] = users
    BY Zenon DEF SpinTypeOK
  <2>4. Ahead(users, ticket) < Cardinality(Queue) + 1
    BY <1>4, <1>5
  <2>5. \A u \in Queue' : Ahead(my_ticket'[u], ticket) < Cardinality(Queue')
    BY <1>2, <1>3, <2>1, <2>2, <2>3, <2>4, Zenon
  <2>. QED
    BY <2>5, Zenon DEF Ahead
<1>9. (\/ Ahead(users, ticket) = Cardinality(Queue)
       \/ users = ticket /\ Cardinality(Queue) = Modulus)'
  <2>1. users \in Counter /\ ticket \in Counter
    BY Zenon DEF SpinTypeOK
  <2>2. CASE Ahead(users, ticket) = Modulus - 1
    BY <2>1, <2>2, <1>3, <1>4, <1>5, AheadInc, SpinAssumption, SMTT(30)
  <2>3. CASE Ahead(users, ticket) # Modulus - 1
    <3>1. Ahead(Inc(users), ticket) = Cardinality(Queue')
      BY <2>1, <2>3, <1>3, <1>5, AheadInc, SMTT(30)
    <3>. QED
      BY <3>1, Zenon DEF Ahead
  <2>. QED
    BY <2>2, <2>3, Zenon
<1>10. (\A u \in Threads : /\ HasLock(u) => my_ticket[u] = ticket
                           /\ at[u] = "unlocking" => loaded[u] = ticket)'
  <2>1. ASSUME NEW u \in Threads, u # t
        PROVE  at'[u] = at[u] /\ my_ticket'[u] = my_ticket[u]
    BY <2>1, Zenon DEF SpinTypeOK
  <2>2. my_ticket'[t] = users /\ at'[t] = place
    BY Zenon DEF SpinTypeOK
  <2>. QED
    BY <2>1, <2>2, Zenon DEF HasLock
<1>. QED
  BY <1>1, <1>7, <1>8, <1>9, <1>10, Zenon

(* fiber_spinlock_unlock's store takes the holder out of the queue and     *)
(* brings everyone else one place nearer.                                  *)
LEMMA LeaveQueue ==
  ASSUME TicketInv, NEW t \in Threads, UnlockStore(t)
  PROVE  TicketInv'
<1>. USE DEF TicketInv, UnlockStore, Moves
<1>0. /\ ticket \in Counter /\ users \in Counter
      /\ \A u \in Threads : my_ticket[u] \in Counter
      /\ loaded[t] = ticket /\ my_ticket[t] = ticket
  BY Zenon DEF SpinTypeOK, HasLock
<1>1. SpinTypeOK'
  BY <1>0, AheadInc, Zenon DEF SpinTypeOK, PCs
<1>2. t \in Queue /\ Queue' = Queue \ {t}
  BY Zenon DEF Queue, HasTicket, SpinTypeOK
<1>3. /\ Cardinality(Queue) \in Nat
      /\ Cardinality(Queue') = Cardinality(Queue) - 1
  BY <1>2, QueueSize, FS_RemoveElement, Zenon
<1>4. \A u \in Queue' : u \in Queue /\ my_ticket[u] # ticket
  BY <1>0, <1>2, Zenon
<1>5. (\A u \in Queue : Ahead(my_ticket[u], ticket) < Cardinality(Queue))'
  <2>1. ASSUME NEW u \in Queue'
        PROVE  Ahead(my_ticket[u], Inc(ticket)) < Cardinality(Queue')
    <3>1. /\ my_ticket[u] \in Counter
          /\ Ahead(my_ticket[u], ticket) < Cardinality(Queue)
      BY <1>0, <1>4, <2>1, Zenon DEF Queue
    <3>2. Ahead(my_ticket[u], Inc(ticket)) = Ahead(my_ticket[u], ticket) - 1
      BY <3>1, <1>0, <1>4, AheadInc, Zenon
    <3>3. Ahead(my_ticket[u], ticket) \in Int
      BY <3>1, <1>0, AheadFacts DEF Counter
    <3>. QED
      BY <3>1, <3>2, <3>3, <1>3, SMTT(30)
  <2>. QED
    BY <2>1, <1>0, Zenon DEF Ahead
<1>6. (\/ Ahead(users, ticket) = Cardinality(Queue)
       \/ users = ticket /\ Cardinality(Queue) = Modulus)'
  <2>1. Ahead(users, Inc(ticket)) = Cardinality(Queue')
    <3>1. CASE users = ticket
      <4>1. Ahead(users, ticket) = 0
        BY <1>0, <3>1, AheadFacts, Zenon
      <4>2. Cardinality(Queue) # 0
        BY <1>2, QueueSize, FS_EmptySet, Zenon
      <4>. QED
        BY <1>0, <1>3, <3>1, <4>1, <4>2, AheadInc, SMTT(30)
    <3>2. CASE users # ticket
      BY <1>0, <1>3, <3>2, AheadInc, SMTT(30)
    <3>. QED
      BY <3>1, <3>2, Zenon
  <2>. QED
    BY <2>1, <1>0, Zenon DEF Ahead
<1>7. (\A u \in Threads : /\ HasLock(u) => my_ticket[u] = ticket
                          /\ at[u] = "unlocking" => loaded[u] = ticket)'
  <2>1. \A u \in Threads \ {t} : at'[u] = at[u] /\ ~HasLock(u)
    BY <1>0, <1>2, Zenon DEF SpinTypeOK, HasLock, Queue, HasTicket
  <2>2. at'[t] = "idle"
    BY Zenon DEF SpinTypeOK
  <2>. QED
    BY <2>1, <2>2, Zenon DEF HasLock
<1>. QED
  BY <1>1, <1>2, <1>5, <1>6, <1>7, Zenon

(* The steps that leave the counters and the queue alone.                  *)
LEMMA SameQueue ==
  ASSUME TicketInv, NEW t \in Threads, UNCHANGED <<ticket, users, my_ticket>>,
         Served(t) \/ TryRead(t) \/ TryFail(t) \/ UnlockRead(t)
  PROVE  TicketInv'
<1>. USE DEF TicketInv, Served, TryRead, TryFail, UnlockRead, Moves
<1>1. SpinTypeOK'
  BY ZenonT(30) DEF SpinTypeOK, PCs
<1>2. Queue' = Queue
  BY Zenon DEF SpinTypeOK, Queue, HasTicket
<1>3. \A u \in Threads : u # t => at'[u] = at[u] /\ loaded'[u] = loaded[u]
  BY Zenon DEF SpinTypeOK
<1>4. (\A u \in Threads : /\ HasLock(u) => my_ticket[u] = ticket
                          /\ at[u] = "unlocking" => loaded[u] = ticket)'
  BY <1>3, Zenon DEF SpinTypeOK, HasLock
<1>. QED
  BY <1>1, <1>2, <1>4, Zenon DEF Ahead

(* Every step of the lock preserves the invariant.                         *)
LEMMA TicketStep == TicketInv /\ [SpinNext]_spinlock => TicketInv'
<1>. SUFFICES ASSUME TicketInv, [SpinNext]_spinlock PROVE TicketInv'
  BY Zenon
<1>1. ASSUME NEW t \in Threads, TakeTicket(t) PROVE TicketInv'
  BY <1>1, JoinQueue, Zenon DEF TakeTicket, Moves, HasTicket
<1>2. ASSUME NEW t \in Threads, TrySwap(t) PROVE TicketInv'
  BY <1>2, JoinQueue, Zenon DEF TrySwap, Moves, HasTicket
<1>3. ASSUME NEW t \in Threads,
             Served(t) \/ TryRead(t) \/ TryFail(t) \/ UnlockRead(t)
      PROVE  TicketInv'
  BY <1>3, SameQueue, Zenon DEF Served, TryRead, TryFail, UnlockRead
<1>4. ASSUME NEW t \in Threads, UnlockStore(t) PROVE TicketInv'
  BY <1>4, LeaveQueue, Zenon
<1>5. CASE UNCHANGED spinlock
  BY <1>5, Zenon DEF spinlock, TicketInv, SpinTypeOK, Queue, HasTicket, HasLock, Ahead
<1>. QED
  BY <1>1, <1>2, <1>3, <1>4, <1>5, Zenon DEF SpinNext

(* The counters and locals keep their types, and the tickets that are out  *)
(* are always the run of counter values from `ticket` to `users`.          *)
THEOREM TicketInvariant == SpinSpec => []TicketInv
  BY TicketInit, TicketStep, PTL DEF SpinSpec

(* fiber_spinlock_lock and fiber_spinlock_trylock exclude each other for   *)
(* any set of threads no larger than the range of the counters.            *)
THEOREM SpinlockMutualExclusion == SpinSpec => []MutualExclusion
<1>1. TicketInv => MutualExclusion
  BY Zenon DEF TicketInv, MutualExclusion, Queue, HasTicket, HasLock
<1>. QED
  BY <1>1, TicketInvariant, PTL

=============================================================================
