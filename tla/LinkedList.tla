----------------------------- MODULE LinkedList -----------------------------
(***************************************************************************)
(* The lists of nodes with one word, or one tagged word, at each end.      *)
(* Which one it is, is chosen at the start:                                *)
(*   mpsc    mpsc_fifo.h, behind every queue of waiting fibers             *)
(*   spsc    spsc_fifo.h                                                   *)
(*   dist    dist_fifo.h: one pusher, many poppers                         *)
(*   many    lockfree_fifo.hpp, many pushers and many poppers; its other   *)
(*           traits are the three fifos above                              *)
(*   lifo    mpmc_lifo.h                                                   *)
(*   stack   mpmc_stack.h                                                  *)
(* A fifo always has a stub node at its head.  A pop returns the old stub  *)
(* with the data moved into it, so nodes travel: as in the runtime, the    *)
(* popped fiber takes the returned node as the one it pushes next time     *)
(* (lockfree_fifo.hpp frees it, and the next allocation may return it).    *)
(* A reader that was overtaken therefore reads nodes in another use.       *)
(***************************************************************************)
EXTENDS Integers, FiniteSets, SequencesExt

CONSTANTS Fibers, Poppers,
          TaggedFibers, \* those that are pushed where the head has a counter
          Consumer,     \* the popper where there may be only one
          Stub, Null

Nodes == Fibers \cup {Stub}     \* the node a fiber is born with, and the stub
Threads == Fibers \cup Poppers  \* a push is named by the fiber it pushes

ASSUME ListAssumption ==
  /\ IsFiniteSet(Threads) /\ Fibers \cap Poppers = {} /\ Consumer \in Poppers
  /\ TaggedFibers \subseteq Fibers
  /\ Stub \notin Fibers /\ Null \notin Nodes

VARIABLES
  kind,
  head, tail,           \* the ends; lists with a lifo order have no tail
  next, data,           \* mpsc_fifo_node_t, spsc_node_t, fifo_node, mpmc_stack_node_t
  own,                  \* the node of each fiber (fiber_t.mpsc_fifo_node)
  pc,
  node,                 \* the node of each pushing fiber
  snap,                 \* the end each thread has read
  first, item,          \* of each popper: what it has read behind its snapshot
  current,              \* threads that have read the present value of the counter
  got                   \* what the last pop, peek or flush returned

popvars == <<first, item>>
vars == <<kind, head, tail, next, data, own, pc, node, snap, first, item, current, got>>

IsLifo == kind \in {"lifo", "stack"}
OnePusher == kind \in {"spsc", "dist"}
OnePopper == kind \in {"spsc", "mpsc"}
Tagged == kind \in {"dist", "many", "lifo"}

Init ==
  /\ kind \in {"mpsc", "spsc", "dist", "many", "lifo", "stack"}
  /\ head = IF IsLifo THEN Null ELSE Stub
  /\ tail = Stub
  /\ next = [n \in Nodes |-> Null]
  /\ data = [n \in Nodes |-> Null]
  /\ own = [f \in Fibers |-> f]
  /\ pc = [t \in Threads |-> "idle"]
  /\ node = [f \in Fibers |-> Null]
  /\ snap = [t \in Threads |-> Null]
  /\ first = [p \in Poppers |-> Null] /\ item = [p \in Poppers |-> Null]
  /\ current = {}
  /\ got = Null

GoTo(t, place) == pc' = [pc EXCEPT ![t] = place]
Snap(t, n) == snap' = [snap EXCEPT ![t] = n]

-----------------------------------------------------------------------------
(* Pushes.  A fifo's node is terminated before it is visible.              *)

\* not terminating the node
TerminatedNot(n) == next

Terminated(n) == IF IsLifo THEN next ELSE [next EXCEPT ![n] = Null]

PushPlace == CASE kind = "lifo" -> "counter" [] kind = "stack" -> "load"
               [] OnePusher -> "publish" [] OTHER -> "exchange"

PushInit(f) ==
  /\ pc[f] = "idle" /\ own[f] # Null
  /\ Tagged => f \in TaggedFibers
  /\ OnePusher => \A g \in Fibers : pc[g] = "idle"
  /\ node' = [node EXCEPT ![f] = own[f]]
  /\ own' = [own EXCEPT ![f] = Null]
  /\ data' = [data EXCEPT ![own[f]] = f]
  /\ next' = Terminated(own[f])
  /\ GoTo(f, PushPlace)
  /\ UNCHANGED <<kind, head, tail, snap, popvars, current, got>>

\* mpsc_fifo_push, and push_impl for many pushers
PushExchange(f) ==
  /\ pc[f] = "exchange"
  /\ Snap(f, tail)
  /\ tail' = node[f]
  /\ GoTo(f, "link")
  /\ UNCHANGED <<kind, head, next, data, own, node, popvars, current, got>>

PushLink(f) ==
  /\ pc[f] = "link"
  /\ next' = [next EXCEPT ![snap[f]] = node[f]]
  /\ GoTo(f, "idle") /\ Snap(f, Null)
  /\ node' = [node EXCEPT ![f] = Null]
  /\ UNCHANGED <<kind, head, tail, data, own, popvars, current, got>>

\* spsc_fifo_push, dist_fifo_push, and push_impl for one pusher, to whom the
\* tail is private: the store to its next publishes the node.
PushPublish(f) ==
  /\ pc[f] = "publish"
  /\ next' = [next EXCEPT ![tail] = node[f]]
  /\ tail' = node[f]
  /\ GoTo(f, "idle")
  /\ node' = [node EXCEPT ![f] = Null]
  /\ UNCHANGED <<kind, head, data, own, snap, popvars, current, got>>

-----------------------------------------------------------------------------
(* The tagged head.  Its counter changes with every swap and is compared   *)
(* for equality only, so it is enough to know who has read its present     *)
(* value.                                                                  *)

ReadCounter(t) ==
  /\ pc[t] = "counter"
  /\ current' = current \cup {t}
  /\ GoTo(t, "head")
  /\ UNCHANGED <<kind, head, tail, next, data, own, node, snap, popvars, got>>

\* comparing the pointer without the counter
UnchangedPointer(t) == snap[t] = head

Unchanged(t) == t \in current /\ snap[t] = head

-----------------------------------------------------------------------------
(* mpmc_lifo_push; its failed swap starts over                             *)

PushHead(f) ==
  /\ pc[f] = "head" /\ f \in Fibers
  /\ Snap(f, head)
  /\ GoTo(f, "swap")
  /\ UNCHANGED <<kind, head, tail, next, data, own, node, popvars, current, got>>

\* Setting the next of the node, which is private, and the swap.
PushSwap(f) ==
  /\ pc[f] = "swap" /\ f \in Fibers
  /\ next' = [next EXCEPT ![node[f]] = snap[f]]
  /\ IF Unchanged(f)
     THEN /\ head' = node[f]
          /\ current' = {}
          /\ node' = [node EXCEPT ![f] = Null]
          /\ GoTo(f, "idle")
     ELSE /\ current' = current \ {f}
          /\ GoTo(f, "counter")
          /\ UNCHANGED <<head, node>>
  /\ Snap(f, Null)
  /\ UNCHANGED <<kind, tail, data, own, popvars, got>>

-----------------------------------------------------------------------------
(* mpmc_stack_push                                                         *)

StackLoad(f) ==
  /\ pc[f] = "load"
  /\ Snap(f, head)
  /\ GoTo(f, "stackswap")
  /\ UNCHANGED <<kind, head, tail, next, data, own, node, popvars, current, got>>

StackSwap(f) ==
  /\ pc[f] = "stackswap"
  /\ head = snap[f]
  /\ next' = [next EXCEPT ![node[f]] = snap[f]]
  /\ head' = node[f]
  /\ node' = [node EXCEPT ![f] = Null]
  /\ GoTo(f, "idle") /\ Snap(f, Null)
  /\ UNCHANGED <<kind, tail, data, own, popvars, current, got>>

\* A weak swap that fails, with reason or without, loads the head anew.
StackSwapFails(f) ==
  /\ pc[f] = "stackswap"
  /\ next' = [next EXCEPT ![node[f]] = snap[f]]
  /\ Snap(f, head)
  /\ UNCHANGED <<kind, head, tail, data, own, pc, node, popvars, current, got>>

\* mpmc_stack_push_timeout after its last try: the node stays the caller's.
StackGiveUp(f) ==
  /\ pc[f] = "stackswap"
  /\ next' = [next EXCEPT ![node[f]] = snap[f]]
  /\ own' = [own EXCEPT ![f] = node[f]]
  /\ node' = [node EXCEPT ![f] = Null]
  /\ GoTo(f, "idle") /\ Snap(f, Null)
  /\ UNCHANGED <<kind, head, tail, data, popvars, current, got>>

-----------------------------------------------------------------------------
(* The list as a sequence: from the head along `next`, and, where a push   *)
(* has yet to link its node, along that push.                              *)

Unlinked(n) == {f \in Fibers : pc[f] = "link" /\ snap[f] = n}

Follow(n) ==
  IF next[n] # Null THEN next[n]
  ELSE IF Unlinked(n) # {} THEN node[CHOOSE f \in Unlinked(n) : TRUE] ELSE Null

Path[k \in 0 .. Cardinality(Fibers)] ==
  IF k = 0 THEN head
  ELSE IF Path[k - 1] = Null THEN Null ELSE Follow(Path[k - 1])

InList == {Path[k] : k \in 0 .. Cardinality(Fibers)} \ {Null}

Queue ==
  IF IsLifo
  THEN [k \in 1 .. Cardinality(InList) |-> [fiber |-> data[Path[k - 1]], linked |-> TRUE]]
  ELSE [k \in 1 .. Cardinality(InList) - 1 |->
          [fiber |-> data[Path[k]], linked |-> next[Path[k - 1]] # Null]]

-----------------------------------------------------------------------------
(* mpsc_fifo_peek, mpsc_fifo_trypop, spsc_fifo_trypop, and pop_impl for    *)
(* one popper, to whom the head is private                                 *)

PopEmpty ==
  /\ OnePopper /\ pc[Consumer] = "idle"
  /\ next[head] = Null
  /\ got' = Null
  /\ UNCHANGED <<kind, head, tail, next, data, own, pc, node, snap, popvars, current>>

Peek ==
  /\ kind = "mpsc" /\ pc[Consumer] = "idle"
  /\ next[head] # Null
  /\ got' = data[next[head]]
  /\ UNCHANGED <<kind, head, tail, next, data, own, pc, node, snap, popvars, current>>

PopRead ==
  /\ OnePopper /\ pc[Consumer] = "idle"
  /\ next[head] # Null
  /\ first' = [first EXCEPT ![Consumer] = next[head]]
  /\ GoTo(Consumer, "take")
  /\ UNCHANGED <<kind, head, tail, next, data, own, node, snap, item, current, got>>

\* n returns to fiber f with the item it was popped for.
GiveBack(n, f) ==
  /\ data' = [data EXCEPT ![n] = f]
  /\ own' = [own EXCEPT ![f] = n]
  /\ got' = f

\* The stores of trypop, and the user's to_schedule->mpsc_fifo_node = out.
PopTake ==
  /\ pc[Consumer] = "take"
  /\ GiveBack(head, data[first[Consumer]])
  /\ head' = first[Consumer]
  /\ first' = [first EXCEPT ![Consumer] = Null]
  /\ GoTo(Consumer, "idle")
  /\ UNCHANGED <<kind, tail, next, node, snap, item, current>>

-----------------------------------------------------------------------------
(* dist_fifo_trypop, pop_impl for many poppers, and mpmc_lifo_pop          *)

PopStart(p) ==
  /\ Tagged /\ pc[p] = "idle"
  /\ GoTo(p, "counter")
  /\ UNCHANGED <<kind, head, tail, next, data, own, node, snap, popvars, current, got>>

\* The call returns NULL, or fails and is made again.
PopEnds(p) ==
  /\ first' = [first EXCEPT ![p] = Null] /\ item' = [item EXCEPT ![p] = Null]
  /\ Snap(p, Null)
  /\ GoTo(p, "idle")

PopHead(p) ==
  /\ pc[p] = "head" /\ p \in Poppers
  /\ IF head = Null
     THEN PopEnds(p) /\ got' = Null /\ current' = current \ {p}
     ELSE Snap(p, head) /\ GoTo(p, "next") /\ UNCHANGED <<popvars, current, got>>
  /\ UNCHANGED <<kind, head, tail, next, data, own, node>>

PopNext(p) ==
  /\ pc[p] = "next"
  /\ IF next[snap[p]] = Null /\ ~IsLifo
     THEN PopEnds(p) /\ got' = Null /\ current' = current \ {p}
     ELSE /\ first' = [first EXCEPT ![p] = next[snap[p]]]
          /\ GoTo(p, IF IsLifo THEN "swap" ELSE "data")
          /\ UNCHANGED <<snap, item, current, got>>
  /\ UNCHANGED <<kind, head, tail, next, data, own, node>>

PopData(p) ==
  /\ pc[p] = "data"
  /\ item' = [item EXCEPT ![p] = data[first[p]]]
  /\ GoTo(p, "swap")
  /\ UNCHANGED <<kind, head, tail, next, data, own, node, snap, first, current, got>>

PopSwap(p) ==
  /\ pc[p] = "swap" /\ p \in Poppers
  /\ IF Unchanged(p)
     THEN /\ head' = first[p]
          /\ current' = {}
          /\ GiveBack(snap[p], IF IsLifo THEN data[snap[p]] ELSE item[p])
     ELSE current' = current \ {p} /\ UNCHANGED <<head, data, own, got>>
  /\ PopEnds(p)
  /\ UNCHANGED <<kind, tail, next, node>>

-----------------------------------------------------------------------------
(* mpmc_stack_lifo_flush and mpmc_stack_fifo_flush.  What the exchange     *)
(* returns is private, so reversing it and giving the nodes back are one   *)
(* step with it.                                                           *)

Flushed == [k \in DOMAIN Queue |-> Queue[k].fiber]

Flush(answer) ==
  /\ kind = "stack"
  /\ got' = answer
  /\ own' = [f \in Fibers |->
               IF \E k \in DOMAIN Queue : Queue[k].fiber = f
               THEN CHOOSE n \in InList : data[n] = f ELSE own[f]]
  /\ head' = Null
  /\ UNCHANGED <<kind, tail, next, data, pc, node, snap, popvars, current>>

LifoFlush == Flush(Flushed)
FifoFlush == Flush(Reverse(Flushed))

-----------------------------------------------------------------------------
Next ==
  \/ \E f \in Fibers :
       \/ PushInit(f) \/ PushExchange(f) \/ PushLink(f) \/ PushPublish(f)
       \/ PushHead(f) \/ PushSwap(f)
       \/ StackLoad(f) \/ StackSwap(f) \/ StackSwapFails(f) \/ StackGiveUp(f)
  \/ PopEmpty \/ Peek \/ PopRead \/ PopTake \/ LifoFlush \/ FifoFlush
  \/ \E t \in Threads : ReadCounter(t)
  \/ \E p \in Poppers : PopStart(p) \/ PopHead(p) \/ PopNext(p) \/ PopData(p) \/ PopSwap(p)

Spec == Init /\ [][Next]_vars

-----------------------------------------------------------------------------
Abstract == INSTANCE ConcurrentQueue WITH q <- Queue

\* Each list is the queue its users take it for: a fifo in the order of the
\* exchanges or stores at the tail, or a lifo in the order of the swaps,
\* from which nothing is lost, taken twice or reordered, although readers
\* follow pointers of nodes that were taken and pushed again meanwhile.
ImplementsQueue == Abstract!Spec

\* The pointers have their types.
TypeOK ==
  /\ head \in Nodes \cup {Null} /\ tail \in Nodes
  /\ next \in [Nodes -> Nodes \cup {Null}]
  /\ data \in [Nodes -> Fibers \cup {Null}]
  /\ own \in [Fibers -> Nodes \cup {Null}]
  /\ node \in [Fibers -> Nodes \cup {Null}]
  /\ snap \in [Threads -> Nodes \cup {Null}]
  /\ first \in [Poppers -> Nodes \cup {Null}]
  /\ item \in [Poppers -> Fibers \cup {Null}]
  /\ current \subseteq Threads

Owned == {own[f] : f \in Fibers} \ {Null}
Pushing == {node[f] : f \in {g \in Fibers : pc[g] # "link"}} \ {Null}

\* Every node has one owner: a fiber that can push it, a push that has not
\* published it, or the list.  A fiber gets a node back with every pop, so
\* the assertions on mpsc_fifo_node in the runtime hold, no node is freed
\* twice, and the chain is never cut or closed to a ring.
NodesAreConserved ==
  /\ TypeOK
  /\ InList \cup Owned \cup Pushing = IF IsLifo THEN Fibers ELSE Nodes
  /\ Cardinality(InList) + Cardinality(Owned) + Cardinality(Pushing)
       = Cardinality(InList \cup Owned \cup Pushing)
  /\ \A f, g \in Fibers : own[f] = own[g] /\ own[f] # Null => f = g

=============================================================================
