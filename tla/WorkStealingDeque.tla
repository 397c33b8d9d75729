-------------------------- MODULE WorkStealingDeque --------------------------
(***************************************************************************)
(* work_stealing_deque.c: each load, store and compare-and-swap of `top`,  *)
(* `bottom`, the array pointer and the array's slots is a step.  The owner *)
(* pushes and pops; thieves steal.  Old arrays stay readable: a thief may  *)
(* hold a pointer to one.  The n-th push pushes the item n.                *)
(***************************************************************************)
EXTENDS Integers, Sequences

CONSTANTS Owner, Thieves, Null,
          LogSize,      \* of the first array (8 in the code)
          MaxItems      \* bounds the pushes

ASSUME DequeAssumption ==
  /\ LogSize \in Nat /\ MaxItems \in Nat
  /\ Owner \notin Thieves

Threads == Thieves \cup {Owner}
Items == 1 .. MaxItems

VARIABLES
  top, bottom,
  arrays,               \* every wsd_circular_array_t made; underlying_array is the last
  pc, b, t, a, ret,     \* locals of the calls under way, 0 outside
  pushed,               \* number of pushes begun
  out                   \* what each thread's last successful call returned

vars == <<top, bottom, arrays, pc, b, t, a, ret, pushed, out>>

Size(k) == 2 ^ (LogSize + k - 1)

\* Each array is larger than the one before it; at most one is made a push.
ASSUME SizeAssumption ==
  \A k \in 1 .. MaxItems + 1 : Size(k) \in Nat \ {0} /\ Size(k) < Size(k + 1)

\* wsd_circular_array_create: malloc leaves the slots unset.
NewArray(k) == [s \in 0 .. Size(k) - 1 |-> Null]

\* wsd_circular_array_get and _put on the k-th array
Get(k, i) == arrays[k][i % Size(k)]

\* wsd_circular_array_grow: a larger array with the items from start up to,
\* not including, end.
Grown(start, end) ==
  LET k == Len(arrays) IN
  Append(arrays, [s \in 0 .. Size(k + 1) - 1 |->
                    IF \E i \in start .. end - 1 : i % Size(k + 1) = s
                    THEN Get(k, CHOOSE i \in start .. end - 1 : i % Size(k + 1) = s)
                    ELSE NewArray(k + 1)[s]])

\* wsd_work_stealing_deque_create
Init ==
  /\ top = 0 /\ bottom = 0
  /\ arrays = <<NewArray(1)>>
  /\ pc = [x \in Threads |-> "idle"]
  /\ b = [x \in Threads |-> 0] /\ t = [x \in Threads |-> 0]
  /\ a = [x \in Threads |-> 0] /\ ret = [x \in Threads |-> Null]
  /\ pushed = 0
  /\ out = [x \in Threads |-> Null]

GoTo(x, place) == pc' = [pc EXCEPT ![x] = place]

\* A call returns, and its locals are gone.
Returns(x) ==
  /\ GoTo(x, "idle")
  /\ b' = [b EXCEPT ![x] = 0] /\ t' = [t EXCEPT ![x] = 0]
  /\ a' = [a EXCEPT ![x] = 0] /\ ret' = [ret EXCEPT ![x] = Null]

Locals == <<b, t, a, ret>>

-----------------------------------------------------------------------------
(* wsd_work_stealing_deque_push_bottom                                     *)

\* bottom has no other writer, so the two loads are the load of top.
PushLoad ==
  /\ pc[Owner] = "idle"
  /\ pushed < MaxItems
  /\ pushed' = pushed + 1
  /\ b' = [b EXCEPT ![Owner] = bottom]
  /\ t' = [t EXCEPT ![Owner] = top]
  /\ GoTo(Owner, "put")
  /\ UNCHANGED <<top, bottom, arrays, a, ret, out>>

\* growing one item too late
FullLate == b[Owner] - t[Owner] > Size(Len(arrays))

Full == b[Owner] - t[Owner] >= Size(Len(arrays)) - 1

\* Grow if need be, publish the new array, and fill the slot.  Thieves look
\* at neither the new array nor the slot b before bottom is stored.
PushPut ==
  LET as == IF Full THEN Grown(t[Owner], b[Owner]) ELSE arrays
      k == Len(as)
  IN
  /\ pc[Owner] = "put"
  /\ arrays' = [as EXCEPT ![k][b[Owner] % Size(k)] = pushed]
  /\ GoTo(Owner, "publish")
  /\ UNCHANGED <<top, bottom, Locals, pushed, out>>

PushPublish ==
  /\ pc[Owner] = "publish"
  /\ bottom' = b[Owner] + 1
  /\ Returns(Owner)
  /\ UNCHANGED <<top, arrays, pushed, out>>

-----------------------------------------------------------------------------
(* wsd_work_stealing_deque_pop_bottom                                      *)

PopStore ==
  /\ pc[Owner] = "idle"
  /\ bottom' = bottom - 1
  /\ b' = [b EXCEPT ![Owner] = bottom - 1]
  /\ GoTo(Owner, "poptop")
  /\ UNCHANGED <<top, arrays, t, a, ret, pushed, out>>

\* The load of top, and the return with the item if it is not the last one.
PopLoad ==
  LET size == b[Owner] - top IN
  /\ pc[Owner] = "poptop"
  /\ \/ /\ size < 0
        /\ t' = [t EXCEPT ![Owner] = top]
        /\ GoTo(Owner, "popempty")
        /\ UNCHANGED <<b, a, ret, out>>
     \/ /\ size = 0
        /\ t' = [t EXCEPT ![Owner] = top]
        /\ ret' = [ret EXCEPT ![Owner] = Get(Len(arrays), b[Owner])]
        /\ GoTo(Owner, "popcas")
        /\ UNCHANGED <<b, a, out>>
     \/ /\ size > 0
        /\ out' = [out EXCEPT ![Owner] = Get(Len(arrays), b[Owner])]
        /\ Returns(Owner)
  /\ UNCHANGED <<top, bottom, arrays, pushed>>

\* WSD_EMPTY
PopEmpty ==
  /\ pc[Owner] = "popempty"
  /\ bottom' = t[Owner]
  /\ Returns(Owner)
  /\ UNCHANGED <<top, arrays, pushed, out>>

\* storing top + 1 without comparing
WinsAlways(x) == TRUE

Wins(x) == top = t[x]

\* The last item: compete with the thieves.  The weak compare-and-swap may
\* fail without cause; then, and if a thief was faster, WSD_ABORT.
PopCas ==
  /\ pc[Owner] = "popcas"
  /\ \/ /\ Wins(Owner)
        /\ top' = t[Owner] + 1
        /\ out' = [out EXCEPT ![Owner] = ret[Owner]]
     \/ UNCHANGED <<top, out>>
  /\ GoTo(Owner, "poplast")
  /\ UNCHANGED <<bottom, arrays, Locals, pushed>>

\* Either way bottom goes back up.
PopLast ==
  /\ pc[Owner] = "poplast"
  /\ bottom' = t[Owner] + 1
  /\ Returns(Owner)
  /\ UNCHANGED <<top, arrays, pushed, out>>

-----------------------------------------------------------------------------
(* wsd_work_stealing_deque_steal                                           *)

StealTop(x) ==
  /\ pc[x] = "idle"
  /\ t' = [t EXCEPT ![x] = top]
  /\ GoTo(x, "bottom")
  /\ UNCHANGED <<top, bottom, arrays, b, a, ret, pushed, out>>

StealBottom(x) ==
  /\ pc[x] = "bottom"
  /\ IF bottom - t[x] <= 0
     THEN Returns(x)
     ELSE GoTo(x, "array") /\ UNCHANGED Locals
  /\ UNCHANGED <<top, bottom, arrays, pushed, out>>

StealArray(x) ==
  /\ pc[x] = "array"
  /\ a' = [a EXCEPT ![x] = Len(arrays)]
  /\ GoTo(x, "get")
  /\ UNCHANGED <<top, bottom, arrays, b, t, ret, pushed, out>>

StealGet(x) ==
  /\ pc[x] = "get"
  /\ ret' = [ret EXCEPT ![x] = Get(a[x], t[x])]
  /\ GoTo(x, "cas")
  /\ UNCHANGED <<top, bottom, arrays, b, t, a, pushed, out>>

StealCas(x) ==
  /\ pc[x] = "cas"
  /\ \/ /\ Wins(x)
        /\ top' = t[x] + 1
        /\ out' = [out EXCEPT ![x] = ret[x]]
     \/ UNCHANGED <<top, out>>
  /\ Returns(x)
  /\ UNCHANGED <<bottom, arrays, pushed>>

OwnerStep ==
  \/ PushLoad \/ PushPut \/ PushPublish
  \/ PopStore \/ PopLoad \/ PopEmpty \/ PopCas \/ PopLast

ThiefStep(x) ==
  \/ StealTop(x) \/ StealBottom(x) \/ StealArray(x) \/ StealGet(x) \/ StealCas(x)

Next == OwnerStep \/ \E x \in Thieves : ThiefStep(x)

Spec == Init /\ [][Next]_vars

-----------------------------------------------------------------------------
\* The item the owner is about to pop is still in the deque until its load
\* of top, or a swap of top, decides.
End == IF pc[Owner] \in {"poptop", "popcas", "poplast"} THEN bottom + 1 ELSE bottom

Contents == [k \in 1 .. End - top |-> Get(Len(arrays), top + k - 1)]

Abstract == INSTANCE StealableDeque WITH deque <- Contents

\* Every call of the deque takes effect at one instant, as if owner and
\* thieves took turns: an item goes to one of them, the owner gets the
\* newest and a thief the oldest, growing the array included.
ImplementsDeque == Abstract!Spec

\* Indices, slots and locals have their types; top and bottom are never more
\* than one step apart the wrong way.
TypeOK ==
  /\ top \in Nat /\ bottom \in top - 1 .. top + MaxItems
  /\ \A k \in DOMAIN arrays : arrays[k] \in [0 .. Size(k) - 1 -> Items \cup {Null}]
  /\ \A x \in Threads : b[x] \in -1 .. MaxItems /\ t[x] \in Nat /\ a[x] \in 0 .. Len(arrays)
  /\ out \in [Threads -> Items \cup {Null}]

\* Indices stay in range, and no call hands out a slot that was never filled,
\* or one that an old array kept after its item had been taken: a thief that
\* read a slot which has been reused since then fails its swap.
NoStaleSlot ==
  /\ TypeOK
  /\ \A x \in Thieves : pc[x] = "cas" /\ t[x] = top => ret[x] = Contents[1]

=============================================================================
