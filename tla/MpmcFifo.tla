------------------------------ MODULE MpmcFifo ------------------------------
(***************************************************************************)
(* mpmc_fifo.h with the hazard pointers of hazard_pointer.{h,c} that keep  *)
(* its nodes from being reclaimed under a thread's feet.  Reclaimed nodes  *)
(* are reused by later pushes (fiber_manager_get_mpmc_node and             *)
(* fiber_manager_return_mpmc_node).  Each load, store and swap of shared   *)
(* memory is a step.                                                       *)
(*                                                                         *)
(* As in fiber_semaphore.c, what thread x pushes is the fiber it is about  *)
(* to suspend: x is not pushed again before it is popped.                  *)
(***************************************************************************)
EXTENDS Integers, FiniteSets, Sequences, SequencesExt

CONSTANTS Threads, Nodes, Null,
          RetireAt      \* retire_threshold of a hazard pointer record

ASSUME MpmcAssumption ==
  /\ IsFiniteSet(Threads) /\ IsFiniteSet(Nodes) /\ Nodes # {}
  /\ Null \notin Nodes \cup Threads
  /\ RetireAt \in Nat

VARIABLES
  head, tail,           \* mpmc_fifo_t
  prev, value,          \* mpmc_fifo_node_t; `next` is written but never read
  free,                 \* nodes that are not allocated
  hp,                   \* hazard_pointers[0] and [1] of each thread's record
  retired,              \* the retired_list of each record, newest first
  pc,
  ptr,                  \* the local `head` or `tail` of each call
  item,                 \* the local new_node or `prev`
  val,                  \* the local `ret`
  plist, todo,          \* of a scan: hazard pointers found, slots to look at
  got                   \* what the last successful trypop took

hvars == <<hp, retired, plist, todo>>
vars == <<head, tail, prev, value, free, hvars, pc, ptr, item, val, got>>

Slots == Threads \X {0, 1}

\* mpmc_fifo_init with some node
Init ==
  \E stub \in Nodes :
    /\ head = stub /\ tail = stub
    /\ prev = [n \in Nodes |-> Null] /\ value = [n \in Nodes |-> Null]
    /\ free = Nodes \ {stub}
    /\ hp = [s \in Slots |-> Null]
    /\ retired = [x \in Threads |-> <<>>]
    /\ pc = [x \in Threads |-> "idle"]
    /\ ptr = [x \in Threads |-> Null] /\ item = [x \in Threads |-> Null]
    /\ val = [x \in Threads |-> Null]
    /\ plist = [x \in Threads |-> {}] /\ todo = [x \in Threads |-> <<>>]
    /\ got = Null

GoTo(x, place) == pc' = [pc EXCEPT ![x] = place]

\* hazard_pointer_using and hazard_pointer_done_using
Using(x, n, k) == hp' = [hp EXCEPT ![<<x, k>>] = n]

DoneUsing(x, k) == Using(x, Null, k)

\* A call returns and its locals are gone.
Returns(x) ==
  /\ GoTo(x, "idle")
  /\ ptr' = [ptr EXCEPT ![x] = Null]
  /\ item' = [item EXCEPT ![x] = Null]
  /\ val' = [val EXCEPT ![x] = Null]

Fifo == <<head, tail, prev, value, free, got>>
Scanning == <<retired, plist, todo>>
Locals == <<ptr, item, val>>

-----------------------------------------------------------------------------
(* The list as a sequence, as in LinkedList.tla.                           *)

Unlinked(n) == {x \in Threads : pc[x] = "pushlink" /\ ptr[x] = n}

Follow(n) ==
  IF prev[n] # Null THEN prev[n]
  ELSE IF Unlinked(n) # {} THEN item[CHOOSE x \in Unlinked(n) : TRUE] ELSE Null

Path[k \in 0 .. Cardinality(Threads)] ==
  IF k = 0 THEN head
  ELSE IF Path[k - 1] = Null THEN Null ELSE Follow(Path[k - 1])

Length == Cardinality({k \in 1 .. Cardinality(Threads) : Path[k] # Null})

Queue == [k \in 1 .. Length |-> [fiber |-> value[Path[k]],
                                 linked |-> prev[Path[k - 1]] # Null]]

IsQueued(x) == \E k \in DOMAIN Queue : Queue[k].fiber = x

-----------------------------------------------------------------------------
(* mpmc_fifo_push of a node from fiber_manager_get_mpmc_node               *)

PushStart(x) ==
  /\ pc[x] = "idle"
  /\ ~IsQueued(x)
  /\ \E n \in free :
       /\ free' = free \ {n}
       /\ value' = [value EXCEPT ![n] = x]
       /\ prev' = [prev EXCEPT ![n] = Null]
       /\ item' = [item EXCEPT ![x] = n]
  /\ GoTo(x, "pushload")
  /\ UNCHANGED <<head, tail, hvars, ptr, val, got>>

PushLoad(x) ==
  /\ pc[x] = "pushload"
  /\ ptr' = [ptr EXCEPT ![x] = tail]
  /\ GoTo(x, "pushusing")
  /\ UNCHANGED <<Fifo, hvars, item, val>>

PushUsing(x) ==
  /\ pc[x] = "pushusing"
  /\ Using(x, ptr[x], 0)
  /\ GoTo(x, "pushcheck")
  /\ UNCHANGED <<Fifo, Scanning, Locals>>

StillTail(x) == tail = ptr[x]

PushCheck(x) ==
  /\ pc[x] = "pushcheck"
  /\ GoTo(x, IF StillTail(x) THEN "pushcas" ELSE "pushload")
  /\ UNCHANGED <<Fifo, hvars, Locals>>

\* A weak swap may fail without cause.
PushCas(x) ==
  /\ pc[x] = "pushcas"
  /\ \/ tail = ptr[x] /\ tail' = item[x] /\ GoTo(x, "pushlink")
     \/ GoTo(x, "pushload") /\ UNCHANGED tail
  /\ UNCHANGED <<head, prev, value, free, got, hvars, Locals>>

PushLink(x) ==
  /\ pc[x] = "pushlink"
  /\ prev' = [prev EXCEPT ![ptr[x]] = item[x]]
  /\ GoTo(x, "pushdone")
  /\ UNCHANGED <<head, tail, value, free, got, hvars, Locals>>

PushDone(x) ==
  /\ pc[x] = "pushdone"
  /\ DoneUsing(x, 0)
  /\ Returns(x)
  /\ UNCHANGED <<Fifo, Scanning>>

-----------------------------------------------------------------------------
(* mpmc_fifo_trypop                                                        *)

PopLoad(x) ==
  /\ pc[x] \in {"idle", "popload"}
  /\ ptr' = [ptr EXCEPT ![x] = head]
  /\ GoTo(x, "popusing")
  /\ UNCHANGED <<Fifo, hvars, item, val>>

PopUsing(x) ==
  /\ pc[x] = "popusing"
  /\ Using(x, ptr[x], 0)
  /\ GoTo(x, "popcheck")
  /\ UNCHANGED <<Fifo, Scanning, Locals>>

\* trusting the first load of head
StillHeadAssumed(x) == TRUE

StillHead(x) == head = ptr[x]

PopCheck(x) ==
  /\ pc[x] = "popcheck"
  /\ GoTo(x, IF StillHead(x) THEN "popprev" ELSE "popload")
  /\ UNCHANGED <<Fifo, hvars, Locals>>

\* head->prev; NULL is the end of the call.
PopPrev(x) ==
  /\ pc[x] = "popprev"
  /\ IF prev[ptr[x]] = Null
     THEN DoneUsing(x, 0) /\ Returns(x)
     ELSE /\ item' = [item EXCEPT ![x] = prev[ptr[x]]]
          /\ GoTo(x, "popusing1")
          /\ UNCHANGED <<hp, ptr, val>>
  /\ UNCHANGED <<Fifo, Scanning>>

PopUsing1(x) ==
  /\ pc[x] = "popusing1"
  /\ Using(x, item[x], 1)
  /\ GoTo(x, "popcheck1")
  /\ UNCHANGED <<Fifo, Scanning, Locals>>

PopCheck1(x) ==
  /\ pc[x] = "popcheck1"
  /\ IF StillHead(x)
     THEN GoTo(x, "popvalue") /\ UNCHANGED item
     ELSE GoTo(x, "popload") /\ item' = [item EXCEPT ![x] = Null]
  /\ UNCHANGED <<Fifo, hvars, ptr, val>>

PopValue(x) ==
  /\ pc[x] = "popvalue"
  /\ val' = [val EXCEPT ![x] = value[item[x]]]
  /\ GoTo(x, "popcas")
  /\ UNCHANGED <<Fifo, hvars, ptr, item>>

PopCas(x) ==
  /\ pc[x] = "popcas"
  /\ \/ /\ head = ptr[x]
        /\ head' = item[x]
        /\ got' = val[x]
        /\ GoTo(x, "popdone")
        /\ UNCHANGED Locals
     \/ /\ GoTo(x, "popload")
        /\ item' = [item EXCEPT ![x] = Null] /\ val' = [val EXCEPT ![x] = Null]
        /\ UNCHANGED <<head, got, ptr>>
  /\ UNCHANGED <<tail, prev, value, free, hvars>>

\* Both hazard pointers are cleared, one after the other.
PopDone(x) ==
  /\ pc[x] = "popdone"
  /\ IF hp[<<x, 0>>] # Null
     THEN DoneUsing(x, 0) /\ UNCHANGED pc
     ELSE DoneUsing(x, 1) /\ GoTo(x, "popfree")
  /\ UNCHANGED <<Fifo, Scanning, Locals>>

-----------------------------------------------------------------------------
(* hazard_pointer_free and hazard_pointer_scan                             *)

\* The scan goes through the records in the order of their list, whatever
\* that is.  The caller's own slots are empty and are left out.
Free(x) ==
  /\ pc[x] = "popfree"
  /\ retired' = [retired EXCEPT ![x] = <<ptr[x]>> \o @]
  /\ IF Len(retired'[x]) >= RetireAt
     THEN /\ \E order \in SetToSeqs(Threads \ {x}) :
               todo' = [todo EXCEPT ![x] =
                          FlattenSeq([i \in DOMAIN order |-> <<<<order[i], 0>>, <<order[i], 1>>>>])]
          /\ GoTo(x, "scan")
          /\ ptr' = [ptr EXCEPT ![x] = Null] /\ item' = [item EXCEPT ![x] = Null]
          /\ val' = [val EXCEPT ![x] = Null]
     ELSE Returns(x) /\ UNCHANGED todo
  /\ UNCHANGED <<Fifo, hp, plist>>

\* One slot of one record is read.
Scan(x) ==
  /\ pc[x] = "scan"
  /\ todo[x] # <<>>
  /\ plist' = [plist EXCEPT ![x] = @ \cup ({hp[Head(todo[x])]} \ {Null})]
  /\ todo' = [todo EXCEPT ![x] = Tail(@)]
  /\ UNCHANGED <<Fifo, hp, retired, pc, Locals>>

\* reclaiming whatever is retired
HazardsNone(x) == {}

Hazards(x) == plist[x]

\* Retired nodes that no slot held are given to gc_function, the others are
\* retired again, in reverse order.  What a reclaimed node contains is of no
\* interest; it is cleared.
ScanEnd(x) ==
  LET hazardous(n) == n \in Hazards(x)
      reclaimed == ToSet(retired[x]) \ Hazards(x)
      Clear(field) == [n \in Nodes |-> IF n \in reclaimed THEN Null ELSE field[n]]
  IN
  /\ pc[x] = "scan"
  /\ todo[x] = <<>>
  /\ retired' = [retired EXCEPT ![x] = Reverse(SelectSeq(@, hazardous))]
  /\ free' = free \cup reclaimed
  /\ prev' = Clear(prev) /\ value' = Clear(value)
  /\ plist' = [plist EXCEPT ![x] = {}]
  /\ GoTo(x, "idle")
  /\ UNCHANGED <<head, tail, got, hp, todo, Locals>>

Next ==
  \E x \in Threads :
    \/ PushStart(x) \/ PushLoad(x) \/ PushUsing(x) \/ PushCheck(x)
    \/ PushCas(x) \/ PushLink(x) \/ PushDone(x)
    \/ PopLoad(x) \/ PopUsing(x) \/ PopCheck(x) \/ PopPrev(x) \/ PopUsing1(x)
    \/ PopCheck1(x) \/ PopValue(x) \/ PopCas(x) \/ PopDone(x)
    \/ Free(x) \/ Scan(x) \/ ScanEnd(x)

Spec == Init /\ [][Next]_vars

-----------------------------------------------------------------------------
Abstract == INSTANCE ConcurrentQueue WITH kind <- "mpmc", q <- Queue, Fibers <- Threads

\* With any number of pushers and poppers, and nodes reclaimed and reused
\* all the time, the list is a first-in first-out queue in the order of the
\* swaps of the tail.
ImplementsQueue == Abstract!Spec

\* The node whose memory the next step of x touches, if any.
Touches(x) ==
  CASE pc[x] \in {"pushlink", "popprev"} -> {ptr[x]}
    [] pc[x] = "popvalue" -> {item[x]}
    [] OTHER -> {}

RetiredNodes == UNION {ToSet(retired[x]) : x \in Threads}

\* No thread touches a node that has been reclaimed, whenever it read the
\* pointer.  A node is retired once, by the one thread that moved head past
\* it, and what is retired or reclaimed is not reachable from the queue.
NoUseAfterFree ==
  /\ \A x \in Threads : Touches(x) \cap free = {}
  /\ \A x \in Threads : Cardinality(ToSet(retired[x])) = Len(retired[x])
  /\ \A x, y \in Threads : ToSet(retired[x]) \cap ToSet(retired[y]) # {} => x = y
  /\ {Path[k] : k \in 0 .. Length} \cap (RetiredNodes \cup free) = {}
  /\ RetiredNodes \cap free = {}

=============================================================================
