--------------------------- MODULE StealableDeque ---------------------------
(***************************************************************************)
(* What work_stealing_deque.h promises its users: the owner pushes and     *)
(* pops at the bottom, thieves take from the top, every item comes out     *)
(* once.  Calls that answer WSD_EMPTY or WSD_ABORT change nothing.         *)
(***************************************************************************)
EXTENDS Naturals, Sequences

CONSTANTS Owner, Thieves, Items, Null

VARIABLES deque,        \* bottom is the last element
          out           \* what the last successful call of each thread took

vars == <<deque, out>>

Init == deque = <<>> /\ out = [t \in Thieves \cup {Owner} |-> Null]

PushBottom(i) == deque' = Append(deque, i) /\ UNCHANGED out

PopBottom ==
  /\ deque # <<>>
  /\ deque' = SubSeq(deque, 1, Len(deque) - 1)
  /\ out' = [out EXCEPT ![Owner] = deque[Len(deque)]]

Steal(t) ==
  /\ deque # <<>>
  /\ deque' = Tail(deque)
  /\ out' = [out EXCEPT ![t] = Head(deque)]

Next == (\E i \in Items : PushBottom(i)) \/ PopBottom \/ (\E t \in Thieves : Steal(t))

Spec == Init /\ [][Next]_vars

=============================================================================
