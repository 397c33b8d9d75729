--------------------------- MODULE ConcurrentQueue ---------------------------
(***************************************************************************)
(* What the lists of nodes promise their users.  A fifo gives its items in *)
(* the order in which they took their places at the tail, a lifo the       *)
(* youngest first, each of them once.  A pop answers NULL only if there is *)
(* nothing to pop or the push of the first item is still under way; the    *)
(* fifos with a tagged head ("dist" and "many") promise less: a pop that   *)
(* was overtaken may answer NULL beside items.                             *)
(***************************************************************************)
EXTENDS WaitQueue, SequencesExt

CONSTANTS Fibers, Null

VARIABLES kind,         \* which list it is
          q,            \* the items, the next to pop first
          got           \* the answer of the last pop, peek or flush

vars == <<kind, q, got>>

IsLifo == kind \in {"lifo", "stack"}

Init == q = <<>> /\ got = Null

Push(f) ==
  /\ f \notin Waiting(q)
  /\ q' = IF IsLifo THEN Linked(<<[fiber |-> f, linked |-> FALSE]>> \o q, f) ELSE Pushed(q, f)
  /\ UNCHANGED <<kind, got>>

Link(f) == f \in Waiting(q) /\ q' = Linked(q, f) /\ UNCHANGED <<kind, got>>

\* A push with no other pusher to wait for.
PushLinked(f) == f \notin Waiting(q) /\ q' = Linked(Pushed(q, f), f) /\ UNCHANGED <<kind, got>>

Pop == CanPop(q) /\ got' = Head(q).fiber /\ q' = Rest(q) /\ UNCHANGED kind

Peek == CanPop(q) /\ got' = Head(q).fiber /\ UNCHANGED <<kind, q>>

Nothing ==
  /\ CanPop(q) => kind \in {"dist", "many"}
  /\ got' = Null
  /\ UNCHANGED <<kind, q>>

\* All items at once, youngest or oldest first.
Flush ==
  LET items == [k \in DOMAIN q |-> q[k].fiber] IN
  /\ kind = "stack"
  /\ got' \in {items, Reverse(items)}
  /\ q' = <<>>
  /\ UNCHANGED kind

Next == (\E f \in Fibers : Push(f) \/ Link(f) \/ PushLinked(f)) \/ Pop \/ Peek \/ Nothing \/ Flush

Spec == Init /\ [][Next]_vars

=============================================================================
