------------------------------ MODULE WaitQueue ------------------------------
(***************************************************************************)
(* What the blocking primitives see of an mpsc_fifo_t of waiting fibers.   *)
(* mpsc_fifo_push takes its place in the queue with the exchange of the    *)
(* tail and becomes poppable with the store that links the node; an entry  *)
(* that is not linked hides every later one from mpsc_fifo_trypop.         *)
(* LinkedList.tla shows that the linked list implements this.              *)
(***************************************************************************)
EXTENDS Naturals, Sequences

\* The exchange of the tail in mpsc_fifo_push.
Pushed(q, f) == Append(q, [fiber |-> f, linked |-> FALSE])

\* The store to prev_tail->next.
Linked(q, f) ==
  [k \in DOMAIN q |-> [q[k] EXCEPT !.linked = @ \/ q[k].fiber = f]]

\* mpsc_fifo_trypop finds an item.
CanPop(q) == q # <<>> /\ Head(q).linked

\* What mpsc_fifo_trypop leaves.
Rest(q) == Tail(q)

Waiting(q) == {q[k].fiber : k \in DOMAIN q}

=============================================================================
