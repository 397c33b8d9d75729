----------------------- MODULE WorkStealingDequeProofs -----------------------
(***************************************************************************)
(* The work-stealing deque implements the abstract deque, for every size   *)
(* of the first array and every number of thieves and of pushes.           *)
(***************************************************************************)
EXTENDS WorkStealingDeque, TLAPS

OwnerPlaces ==
  {"idle", "put", "publish", "poptop", "popempty", "popcas", "poplast"}
ThiefPlaces == {"idle", "bottom", "array", "get", "cas"}

Slots == Items \cup {Null}
Space == UNION {[0 .. Size(k) - 1 -> Slots] : k \in Nat}

(* The array that underlying_array points to, and its slot for position i. *)
Current == Len(arrays)
At(i) == Get(Current, i)

LocalsInv ==
  /\ top \in Nat /\ bottom \in Int /\ pushed \in 0 .. MaxItems
  /\ pc \in [Threads -> OwnerPlaces \cup ThiefPlaces]
  /\ pc[Owner] \in OwnerPlaces /\ \A x \in Thieves : pc[x] \in ThiefPlaces
  /\ b \in [Threads -> Int] /\ t \in [Threads -> Int] /\ a \in [Threads -> Nat]
  /\ ret \in [Threads -> Slots] /\ out \in [Threads -> Slots]

(* A push makes at most one array.                                         *)
ArraysInv ==
  /\ arrays \in Seq(Space)
  /\ \A k \in 1 .. Current : arrays[k] \in [0 .. Size(k) - 1 -> Slots]
  /\ Current \in 1 .. pushed + 1 /\ (pc[Owner] = "put" => Current <= pushed)

TypesInv == LocalsInv /\ ArraysInv

(* Where the owner stands between the steps of a push or a pop.            *)
OwnerInv ==
  LET p == pc[Owner] IN
  /\ p = "idle" => top <= bottom /\ bottom <= pushed
  /\ p \in {"put", "publish"} =>
       /\ b[Owner] = bottom /\ t[Owner] >= 0 /\ t[Owner] <= top /\ top <= bottom
       /\ bottom < pushed
  /\ p = "put" => bottom - t[Owner] < Size(Current)
  /\ p = "publish" => bottom + 1 - t[Owner] < Size(Current) /\ At(bottom) = pushed
  /\ p = "poptop" => b[Owner] = bottom /\ top <= bottom + 1 /\ bottom < pushed
  /\ p = "popempty" => t[Owner] = top /\ top = bottom + 1 /\ bottom < pushed
  /\ p \in {"popcas", "poplast"} =>
       t[Owner] = bottom /\ top \in bottom .. bottom + 1 /\ bottom < pushed
  /\ p = "popcas" /\ top = bottom => ret[Owner] = At(top)

(* The items take fewer positions than the array has slots.                *)
WindowInv == End - top < Size(Current)

(* What a thief has read is good as long as top has not moved.             *)
ReadWell(x) ==
  /\ pc[x] # "idle" => t[x] \in Nat /\ t[x] <= top
  /\ pc[x] \in {"array", "get", "cas"} /\ t[x] = top => top < End
  /\ pc[x] = "get" => a[x] \in 1 .. Current /\ (t[x] = top => Get(a[x], top) = At(top))
  /\ pc[x] = "cas" /\ t[x] = top => ret[x] = At(top)

ThiefInv == \A x \in Thieves : ReadWell(x)

DequeInv == TypesInv /\ OwnerInv /\ WindowInv /\ ThiefInv

-----------------------------------------------------------------------------
(* Sizes of the arrays made.                                               *)
LEMMA Sizes ==
  ASSUME NEW k \in 1 .. MaxItems + 1
  PROVE  /\ Size(k) \in Nat \ {0}
         /\ k <= MaxItems => Size(k + 1) \in Nat \ {0} /\ Size(k) < Size(k + 1)
<1>1. Size(k) \in Nat \ {0} /\ Size(k) < Size(k + 1)
  BY SizeAssumption, Zenon
<1>2. k <= MaxItems => k + 1 \in 1 .. MaxItems + 1
  BY DequeAssumption
<1>. QED
  BY <1>1, <1>2, SizeAssumption, Zenon

(* The slot of a position.                                                 *)
LEMMA SlotRange ==
  ASSUME NEW n \in Nat \ {0}, NEW i \in Nat
  PROVE  i % n \in 0 .. n - 1
BY Z3, Zenon

(* Division with remainder.                                                *)
LEMMA Remainder ==
  ASSUME NEW n \in Nat \ {0}, NEW i \in Nat
  PROVE  i \div n \in Nat /\ i % n = i - n * (i \div n)
<1>1. i \div n \in Nat
  BY Z3, Zenon
<1>2. i % n = i - n * (i \div n)
  BY Z3, Zenon
<1>. QED
  BY <1>1, <1>2, Zenon

LEMMA Multiples ==
  ASSUME NEW n \in Nat \ {0}, NEW d \in Int
  PROVE  (d >= 1 => n * d >= n) /\ (d <= 0 => n * d <= 0)
OBVIOUS

(* Positions less than a turn apart have different slots.                  *)
LEMMA SlotsDiffer ==
  ASSUME NEW n \in Nat \ {0}, NEW i \in Nat, NEW j \in Nat, i < j, j < i + n
  PROVE  i % n # j % n
<1>. SUFFICES ASSUME i % n = j % n PROVE FALSE
  BY Zenon
<1>1. PICK c \in Nat, d \in Nat : i - n * c = j - n * d
  <2>1. i \div n \in Nat /\ i % n = i - n * (i \div n)
    BY Remainder, Zenon
  <2>2. j \div n \in Nat /\ j % n = j - n * (j \div n)
    BY Remainder, Zenon
  <2>. QED
    BY <2>1, <2>2, Zenon
<1>2. j - i = n * (d - c)
  BY <1>1
<1>3. (d - c >= 1 => n * (d - c) >= n) /\ (d - c <= 0 => n * (d - c) <= 0)
  BY Multiples
<1>. QED
  BY <1>1, <1>2, <1>3

(* A read of an array that was made finds an item or an unset slot.        *)
LEMMA Reads ==
  ASSUME TypesInv, NEW k \in 1 .. Current, NEW i \in Nat
  PROVE  Get(k, i) \in Slots /\ Size(k) \in Nat \ {0} /\ i % Size(k) \in 0 .. Size(k) - 1
<1>1. k \in 1 .. MaxItems + 1
  BY DequeAssumption DEF TypesInv, LocalsInv, ArraysInv
<1>2. Size(k) \in Nat \ {0}
  BY <1>1, Sizes, Zenon
<1>3. i % Size(k) \in 0 .. Size(k) - 1
  BY <1>2, SlotRange, Zenon
<1>4. arrays[k] \in [0 .. Size(k) - 1 -> Slots]
  BY Zenon DEF TypesInv, LocalsInv, ArraysInv
<1>. QED
  BY <1>2, <1>3, <1>4, Zenon DEF Get

-----------------------------------------------------------------------------
(* What PushPut writes to: the array, grown if it is full.                 *)
Target == IF Full THEN Grown(t[Owner], b[Owner]) ELSE arrays

(* Growing keeps the old arrays, copies what is between the owner's top    *)
(* and bottom, and makes room for one item more.                           *)
LEMMA TargetHolds ==
  ASSUME DequeInv, pc[Owner] = "put"
  PROVE  /\ Target \in Seq(Space) /\ Len(Target) \in Current .. pushed + 1
         /\ \A k \in 1 .. Len(Target) : Target[k] \in [0 .. Size(k) - 1 -> Slots]
         /\ \A k \in 1 .. Current : Target[k] = arrays[k]
         /\ \A i \in t[Owner] .. bottom - 1 :
              Target[Len(Target)][i % Size(Len(Target))] = At(i)
         /\ bottom + 1 - t[Owner] < Size(Len(Target))
<1>. DEFINE K == Current
            lo == t[Owner]
<1>1. /\ b[Owner] = bottom /\ lo \in Nat /\ bottom \in Nat /\ lo <= bottom
      /\ bottom - lo < Size(K) /\ K \in 1 .. MaxItems /\ K <= pushed /\ pushed \in Nat
  BY DequeAssumption DEF DequeInv, OwnerInv, TypesInv, LocalsInv, ArraysInv, Threads
<1>2. Size(K) \in Nat \ {0} /\ Size(K + 1) \in Nat \ {0} /\ Size(K) < Size(K + 1)
  BY <1>1, Sizes, DequeAssumption
<1>3. arrays \in Seq(Space) /\ \A k \in 1 .. K : arrays[k] \in [0 .. Size(k) - 1 -> Slots]
  BY Zenon DEF DequeInv, TypesInv, LocalsInv, ArraysInv
<1>4. CASE ~Full
  <2>1. Target = arrays /\ Len(Target) = K
    BY <1>4, Zenon DEF Target, Current
  <2>2. bottom - lo < Size(K) - 1
    BY <1>1, <1>2, <1>4, SMTT(30) DEF Full, Current
  <2>. QED
    BY <1>1, <1>2, <1>3, <2>1, <2>2, SMTT(30) DEF At, Get
<1>5. CASE Full
  <2>. DEFINE n == Size(K + 1)
              new == [s \in 0 .. n - 1 |->
                        IF \E i \in lo .. bottom - 1 : i % n = s
                        THEN Get(K, CHOOSE i \in lo .. bottom - 1 : i % n = s)
                        ELSE NewArray(K + 1)[s]]
  <2>1. Target = Append(arrays, new)
    BY <1>1, <1>5, Zenon DEF Target, Grown, Current
  <2>2. ASSUME NEW i \in lo .. bottom - 1
        PROVE  i % n \in 0 .. n - 1 /\ new[i % n] = At(i)
    <3>4. i \in Nat /\ n \in Nat \ {0}
      BY <1>1, <1>2
    <3>1. i \in Nat /\ i % n \in 0 .. n - 1
      BY <3>4, SlotRange, Zenon
    <3>2. ASSUME NEW j \in lo .. bottom - 1, j % n = i % n PROVE j = i
      <4>1. j \in Nat /\ i < j + n /\ j < i + n
        BY <1>1, <1>2
      <4>. QED
        BY <1>2, <3>1, <3>2, <4>1, SlotsDiffer
    <3>3. (CHOOSE j \in lo .. bottom - 1 : j % n = i % n) = i
      BY <3>2, Zenon
    <3>. QED
      BY <3>1, <3>3, Zenon DEF At
  <2>8. DOMAIN new = 0 .. n - 1 /\ new = [s \in 0 .. n - 1 |-> new[s]]
    BY Zenon
  <2>9. \A s \in 0 .. n - 1 :
          (~ \E i \in lo .. bottom - 1 : i % n = s) => new[s] \in Slots
    BY Zenon DEF NewArray, Slots
  <2>. HIDE DEF new, n
  <2>3. new \in [0 .. n - 1 -> Slots]
    <3>1. ASSUME NEW s \in 0 .. n - 1 PROVE new[s] \in Slots
      <4>1. CASE \E i \in lo .. bottom - 1 : i % n = s
        <5>1. PICK i \in lo .. bottom - 1 : i % n = s
          BY <4>1, Zenon
        <5>2. new[s] = At(i) /\ i \in Nat /\ K \in 1 .. Current
          BY <1>1, <2>2, <5>1
        <5>. QED
          BY <5>2, Reads, Zenon DEF DequeInv, At
      <4>2. CASE ~ \E i \in lo .. bottom - 1 : i % n = s
        BY <2>9, <4>2, Zenon
      <4>. QED
        BY <4>1, <4>2, Zenon
    <3>. QED
      BY <2>8, <3>1, Zenon
  <2>4. new \in Space
    BY <1>1, <2>3 DEF Space, n
  <2>5. /\ Target \in Seq(Space) /\ Len(Target) = K + 1
        /\ \A k \in 1 .. K : Target[k] = arrays[k]
        /\ Target[K + 1] = new
    BY <1>1, <1>3, <2>1, <2>4 DEF Current
  <2>6. ASSUME NEW k \in 1 .. K + 1 PROVE Target[k] \in [0 .. Size(k) - 1 -> Slots]
    <3>1. CASE k \in 1 .. K
      BY <1>3, <2>5, <3>1, Zenon
    <3>2. CASE k = K + 1
      BY <2>3, <2>5, <3>2, Zenon DEF n
    <3>. QED
      BY <1>1, <3>1, <3>2
  <2>7. \A i \in lo .. bottom - 1 : Target[Len(Target)][i % Size(Len(Target))] = At(i)
    BY <2>2, <2>5, Zenon DEF n
  <2>. QED
    BY <1>1, <1>2, <2>5, <2>6, <2>7, SMTT(30)
<1>. QED
  BY <1>4, <1>5, Zenon

(* The owner's put keeps every slot that a thief may still take, in the    *)
(* array it was read from and in the current one.                          *)
LEMMA PutKeeps ==
  ASSUME DequeInv, PushPut
  PROVE  /\ arrays' \in Seq(Space) /\ Current' \in Current .. pushed + 1
         /\ \A k \in 1 .. Current' : arrays'[k] \in [0 .. Size(k) - 1 -> Slots]
         /\ \A i \in t[Owner] .. bottom - 1 :
              At(i)' = At(i) /\ \A k \in 1 .. Current : Get(k, i)' = Get(k, i)
         /\ At(bottom)' = pushed
         /\ bottom + 1 - t[Owner] < Size(Current')
<1>. DEFINE lo == t[Owner]
            k0 == Len(Target)
            s0 == bottom % Size(k0)
<1>0. pc[Owner] = "put"
  BY Zenon DEF PushPut
<1>1. /\ b[Owner] = bottom /\ lo \in Nat /\ bottom \in Nat /\ lo <= bottom
      /\ pushed \in Nat /\ pushed \in Items /\ Current \in Nat \ {0} /\ pushed <= MaxItems
  <2>1. OwnerInv /\ LocalsInv /\ Current \in Nat \ {0}
    BY DEF DequeInv, TypesInv, ArraysInv, LocalsInv
  <2>. QED
    BY <1>0, <2>1, DequeAssumption DEF OwnerInv, LocalsInv, Threads, Items
<1>2. /\ Target \in Seq(Space) /\ k0 \in Current .. pushed + 1
      /\ \A k \in 1 .. k0 : Target[k] \in [0 .. Size(k) - 1 -> Slots]
      /\ \A k \in 1 .. Current : Target[k] = arrays[k]
      /\ \A i \in lo .. bottom - 1 : Target[k0][i % Size(k0)] = At(i)
      /\ bottom + 1 - lo < Size(k0)
  BY <1>0, TargetHolds, Zenon
<1>3. arrays' = [Target EXCEPT ![k0] = [Target[k0] EXCEPT ![s0] = pushed]]
  BY <1>1, Zenon DEF PushPut, Target
<1>4. k0 \in Nat \ {0} /\ k0 \in 1 .. MaxItems + 1
  BY <1>1, <1>2, DequeAssumption
<1>5. Size(k0) \in Nat \ {0} /\ s0 \in 0 .. Size(k0) - 1
  BY <1>1, <1>4, Sizes, SlotRange, Zenon
<1>. HIDE DEF k0, s0
<1>6. /\ [Target[k0] EXCEPT ![s0] = pushed] \in [0 .. Size(k0) - 1 -> Slots]
      /\ [Target[k0] EXCEPT ![s0] = pushed] \in Space
  BY <1>1, <1>2, <1>4, <1>5, SMTT(30) DEF Slots, Space
<1>7. /\ arrays' \in Seq(Space) /\ Len(arrays') = k0
      /\ \A k \in 1 .. k0 : arrays'[k] = IF k = k0 THEN [Target[k0] EXCEPT ![s0] = pushed]
                                                   ELSE Target[k]
  BY <1>2, <1>3, <1>4, <1>6 DEF k0
<1>8. \A k \in 1 .. k0 : arrays'[k] \in [0 .. Size(k) - 1 -> Slots]
  BY <1>2, <1>6, <1>7, Zenon
<1>9. At(bottom)' = pushed
  <2>1. At(bottom)' = arrays'[k0][s0]
    BY <1>7, Zenon DEF At, Get, Current, s0, PushPut
  <2>. QED
    BY <1>2, <1>4, <1>5, <1>7, <2>1
<1>10. ASSUME NEW i \in lo .. bottom - 1
       PROVE  At(i)' = At(i) /\ \A k \in 1 .. Current : Get(k, i)' = Get(k, i)
  <2>1. i \in Nat /\ i % Size(k0) \in 0 .. Size(k0) - 1 /\ i % Size(k0) # s0
    <3>2. lo \in Nat /\ bottom \in Nat /\ Size(k0) \in Nat /\ bottom + 1 - lo < Size(k0)
      BY <1>1, <1>2, <1>5, Zenon
    <3>. HIDE DEF lo
    <3>1. i \in Nat /\ i < bottom /\ bottom < i + Size(k0)
      BY ONLY <3>2, i \in lo .. bottom - 1
    <3>. QED
      BY <1>1, <1>5, <3>1, SlotsDiffer, SlotRange, Zenon DEF s0
  <2>2. arrays'[k0][i % Size(k0)] = Target[k0][i % Size(k0)]
    BY <1>2, <1>4, <1>5, <1>7, <2>1
  <2>3. At(i)' = At(i)
    BY <1>2, <1>7, <2>2, Zenon DEF At, Get, Current
  <2>4. ASSUME NEW k \in 1 .. Current PROVE Get(k, i)' = Get(k, i)
    <3>1. CASE k = k0
      BY <1>2, <2>2, <2>4, <3>1, Zenon DEF Get
    <3>2. CASE k # k0
      <4>1. k \in 1 .. k0
        BY <1>1, <1>2, <1>4
      <4>2. arrays'[k] = arrays[k]
        BY <1>2, <1>7, <3>2, <4>1, Zenon
      <4>. QED
        BY <4>2, Zenon DEF Get
    <3>. QED
      BY <3>1, <3>2, Zenon
  <2>. QED
    BY <2>3, <2>4, Zenon
<1>. QED
  BY <1>2, <1>7, <1>8, <1>9, <1>10, Zenon DEF Current

-----------------------------------------------------------------------------
(* wsd_work_stealing_deque_create establishes the invariant.               *)
LEMMA DequeInit == Init => DequeInv
<1>. SUFFICES ASSUME Init PROVE DequeInv
  BY Zenon
<1>0. Owner \in Threads /\ 1 \in 1 .. MaxItems + 1
  BY DequeAssumption DEF Threads
<1>1. Size(1) \in Nat \ {0}
  BY <1>0, Sizes, Zenon
<1>2. NewArray(1) \in [0 .. Size(1) - 1 -> Slots] /\ NewArray(1) \in Space
  BY DEF NewArray, Slots, Space
<1>3. arrays \in Seq(Space) /\ Current = 1 /\ arrays[1] = NewArray(1)
  BY <1>2 DEF Init, Current
<1>4. \A k \in 1 .. Current : arrays[k] \in [0 .. Size(k) - 1 -> Slots]
  BY <1>2, <1>3
<1>5. ret \in [Threads -> Slots] /\ out \in [Threads -> Slots]
  BY Zenon DEF Init, Slots
<1>6. TypesInv
  BY <1>0, <1>3, <1>4, <1>5, DequeAssumption
     DEF Init, TypesInv, LocalsInv, ArraysInv, OwnerPlaces, ThiefPlaces, Threads
<1>7. OwnerInv
  BY <1>0, DequeAssumption DEF Init, OwnerInv
<1>8. WindowInv
  BY <1>0, <1>1, <1>3 DEF Init, WindowInv, End
<1>9. ThiefInv
  BY Zenon DEF Init, ThiefInv, ReadWell, Threads
<1>. QED
  BY <1>6, <1>7, <1>8, <1>9, Zenon DEF DequeInv

-----------------------------------------------------------------------------
(* A call that returns leaves the types of the locals.                     *)
LEMMA ReturnTypes ==
  ASSUME LocalsInv, NEW x \in Threads, Returns(x), UNCHANGED pushed,
         top' \in Nat, bottom' \in Int, out' \in [Threads -> Slots]
  PROVE  LocalsInv' /\ (pc'[Owner] = "put" => pc[Owner] = "put")
<1>. USE DequeAssumption DEF LocalsInv, Returns, GoTo, OwnerPlaces, ThiefPlaces
<1>0. Owner \in Threads /\ Thieves \subseteq Threads /\ Null \in Slots
  BY Zenon DEF Threads, Slots
<1>1. /\ pc' \in [Threads -> OwnerPlaces \cup ThiefPlaces] /\ pc'[Owner] \in OwnerPlaces
      /\ \A y \in Thieves : pc'[y] \in ThiefPlaces
      /\ pc'[Owner] = "put" => pc[Owner] = "put"
  BY <1>0, Zenon
<1>2. b' \in [Threads -> Int] /\ t' \in [Threads -> Int] /\ a' \in [Threads -> Nat]
  BY <1>0
<1>3. ret' \in [Threads -> Slots]
  BY <1>0, Zenon
<1>. QED
  BY <1>1, <1>2, <1>3, Zenon

(* Every step keeps the types of the locals.                               *)
LEMMA LocalsStep ==
  ASSUME DequeInv, [Next]_vars
  PROVE  /\ LocalsInv'
         /\ UNCHANGED <<arrays, pushed>> =>
              (pc'[Owner] = "put" => pc[Owner] = "put")
<1>. DEFINE Goal == /\ LocalsInv'
                    /\ UNCHANGED <<arrays, pushed>> =>
                         (pc'[Owner] = "put" => pc[Owner] = "put")
<1>. USE DequeAssumption DEF GoTo, OwnerPlaces, ThiefPlaces
<1>0. /\ Owner \in Threads /\ Thieves \subseteq Threads /\ Threads = Thieves \cup {Owner}
      /\ LocalsInv
  BY Zenon DEF Threads, DequeInv, TypesInv
<1>1. CASE UNCHANGED vars
  BY <1>0, <1>1, Zenon DEF vars, LocalsInv
<1>3. CASE PushLoad
  BY <1>0, <1>3 DEF PushLoad, LocalsInv
<1>4. CASE PushPut
  BY <1>0, <1>4, Zenon DEF PushPut, Locals, LocalsInv
<1>5. CASE PushPublish \/ PopEmpty \/ PopLast
  <2>1. /\ Returns(Owner) /\ UNCHANGED <<top, out, pushed>>
        /\ bottom' = b[Owner] + 1 \/ bottom' = t[Owner] \/ bottom' = t[Owner] + 1
    BY <1>5, Zenon DEF PushPublish, PopEmpty, PopLast
  <2>2. bottom' \in Int
    BY <1>0, <2>1 DEF LocalsInv
  <2>3. top' \in Nat /\ out' \in [Threads -> Slots]
    BY <1>0, <2>1, Zenon DEF LocalsInv
  <2>. QED
    BY <1>0, <2>1, <2>2, <2>3, ReturnTypes, Zenon
<1>6. CASE PopStore
  BY <1>0, <1>6 DEF PopStore, LocalsInv
<1>7. CASE PopLoad
  <2>1. /\ pc[Owner] = "poptop" /\ UNCHANGED <<top, bottom, pushed>>
        /\ b[Owner] = bottom
    BY <1>7, Zenon DEF PopLoad, DequeInv, OwnerInv
  <2>2. bottom - top >= 0 => Get(Len(arrays), b[Owner]) \in Slots
    <3>1. Current \in 1 .. Current
      BY DEF DequeInv, TypesInv, ArraysInv
    <3>2. bottom - top >= 0 => b[Owner] \in Nat
      BY <1>0, <2>1 DEF LocalsInv
    <3>. QED
      BY <3>1, <3>2, Reads, Zenon DEF Current, DequeInv
  <2>3. CASE /\ b[Owner] - top < 0
             /\ t' = [t EXCEPT ![Owner] = top]
             /\ GoTo(Owner, "popempty")
             /\ UNCHANGED <<b, a, ret, out>>
    BY <1>0, <2>1, <2>3 DEF LocalsInv
  <2>4. CASE /\ b[Owner] - top = 0
             /\ t' = [t EXCEPT ![Owner] = top]
             /\ ret' = [ret EXCEPT ![Owner] = Get(Len(arrays), b[Owner])]
             /\ GoTo(Owner, "popcas")
             /\ UNCHANGED <<b, a, out>>
    BY <1>0, <2>1, <2>2, <2>4 DEF LocalsInv
  <2>5. CASE /\ b[Owner] - top > 0
             /\ out' = [out EXCEPT ![Owner] = Get(Len(arrays), b[Owner])]
             /\ Returns(Owner)
    <3>1. out' \in [Threads -> Slots] /\ top' \in Nat /\ bottom' \in Int
      BY <1>0, <2>1, <2>2, <2>5 DEF LocalsInv
    <3>. QED
      BY <1>0, <2>1, <2>5, <3>1, ReturnTypes, Zenon
  <2>. QED
    BY <1>7, <2>3, <2>4, <2>5, Zenon DEF PopLoad
<1>8. CASE PopCas
  BY <1>0, <1>8 DEF PopCas, LocalsInv, Wins, Locals
<1>9. ASSUME NEW x \in Thieves, StealTop(x) PROVE Goal
  BY <1>0, <1>9 DEF StealTop, LocalsInv
<1>10. ASSUME NEW x \in Thieves, StealBottom(x) PROVE Goal
  <2>1. CASE Returns(x)
    BY <1>0, <1>10, <2>1, ReturnTypes, Zenon DEF StealBottom, LocalsInv
  <2>2. CASE GoTo(x, "array") /\ UNCHANGED Locals
    BY <1>0, <1>10, <2>2, Zenon DEF StealBottom, LocalsInv, Locals
  <2>. QED
    BY <1>10, <2>1, <2>2, Zenon DEF StealBottom
<1>11. ASSUME NEW x \in Thieves, StealArray(x) PROVE Goal
  <2>1. Len(arrays) \in Nat
    BY DEF DequeInv, TypesInv, ArraysInv
  <2>. QED
    BY <1>0, <1>11, <2>1, Zenon DEF StealArray, LocalsInv
<1>12. ASSUME NEW x \in Thieves, StealGet(x) PROVE Goal
  <2>1. Get(a[x], t[x]) \in Slots
    BY <1>12, Reads, Zenon DEF StealGet, DequeInv, ThiefInv, ReadWell
  <2>. QED
    BY <1>0, <1>12, <2>1, Zenon DEF StealGet, LocalsInv
<1>13. ASSUME NEW x \in Thieves, StealCas(x) PROVE Goal
  <2>1. ret[x] \in Slots /\ t[x] + 1 \in Nat /\ top \in Nat /\ out \in [Threads -> Slots]
    <3>1. t[x] \in Nat
      BY <1>13, Zenon DEF StealCas, DequeInv, ThiefInv, ReadWell
    <3>. QED
      BY <1>0, <3>1 DEF LocalsInv
  <2>2. top' \in Nat /\ out' \in [Threads -> Slots]
    BY <1>0, <1>13, <2>1, Zenon DEF StealCas
  <2>. QED
    BY <1>0, <1>13, <2>2, ReturnTypes, Zenon DEF StealCas, LocalsInv
<1>. QED
  BY <1>1, <1>3, <1>4, <1>5, <1>6, <1>7, <1>8, <1>9, <1>10, <1>11, <1>12, <1>13, Zenon
     DEF Next, OwnerStep, ThiefStep

(* Only a push makes or fills an array.                                    *)
LEMMA ArraysStep ==
  ASSUME DequeInv, [Next]_vars
  PROVE  ArraysInv'
<1>1. CASE UNCHANGED <<arrays, pushed>>
  BY <1>1, LocalsStep, Zenon DEF DequeInv, TypesInv, ArraysInv, Current
<1>2. CASE PushLoad
  BY <1>2 DEF PushLoad, DequeInv, TypesInv, LocalsInv, ArraysInv, Current, GoTo
<1>3. CASE PushPut
  <2>1. /\ arrays' \in Seq(Space) /\ Current' \in Current .. pushed + 1
        /\ \A k \in 1 .. Current' : arrays'[k] \in [0 .. Size(k) - 1 -> Slots]
    BY <1>3, PutKeeps, Zenon
  <2>2. pc'[Owner] = "publish" /\ UNCHANGED pushed
    BY <1>3, Zenon DEF PushPut, GoTo, DequeInv, TypesInv, LocalsInv, Threads
  <2>3. Current' \in 1 .. pushed' + 1
    BY <2>1, <2>2 DEF DequeInv, TypesInv, LocalsInv, ArraysInv
  <2>. QED
    BY <2>1, <2>2, <2>3, Zenon DEF ArraysInv
<1>. QED
  BY <1>1, <1>2, <1>3, Zenon DEF Next, OwnerStep, ThiefStep, PushPublish, PopStore, PopLoad, PopEmpty,
     PopCas, PopLast, StealTop, StealBottom, StealArray, StealGet, StealCas, vars

-----------------------------------------------------------------------------
(* What a thief has read stays good through the steps of the others: top   *)
(* moves on, or the item at top and its slots stay.                        *)
LEMMA OthersRead ==
  ASSUME DequeInv, NEW y \in Thieves,
         pc'[y] = pc[y] /\ t'[y] = t[y] /\ a'[y] = a[y] /\ ret'[y] = ret[y],
         top' = top \/ top' = top + 1, Current' \in Nat, Current <= Current',
         top' = top /\ top < End =>
           top < End' /\ At(top)' = At(top) /\ \A k \in 1 .. Current : Get(k, top)' = Get(k, top)
  PROVE  ReadWell(y)'
<1>1. ReadWell(y) /\ top \in Nat /\ Current \in Nat
  BY DEF DequeInv, ThiefInv, TypesInv, LocalsInv, ArraysInv
<1>2. CASE pc[y] = "idle"
  BY <1>2, Zenon DEF ReadWell
<1>3. CASE pc[y] # "idle"
  <2>1. t[y] \in Nat /\ t[y] <= top /\ (t[y] = top' => top' = top)
    BY <1>1, <1>3 DEF ReadWell
  <2>2. pc[y] = "get" => a[y] \in 1 .. Current /\ a[y] \in 1 .. Current'
    BY <1>1 DEF ReadWell
  <2>3. CASE t[y] # top'
    BY <1>1, <2>1, <2>2, <2>3 DEF ReadWell
  <2>4. CASE t[y] = top'
    <3>1. top' = top /\ t[y] = top
      BY <2>1, <2>4, Zenon
    <3>2. pc[y] \in {"array", "get", "cas"} =>
            /\ top < End /\ top < End' /\ At(top)' = At(top)
            /\ \A k \in 1 .. Current : Get(k, top)' = Get(k, top)
      BY <1>1, <3>1, Zenon DEF ReadWell
    <3>3. pc[y] = "get" => Get(a[y], top)' = At(top)'
      BY <1>1, <2>2, <3>1, <3>2, Zenon DEF ReadWell
    <3>4. pc[y] = "get" => (Get(a[y], top) = At(top))'
      BY <3>3, Zenon
    <3>. QED
      BY <1>1, <2>1, <2>2, <3>1, <3>2, <3>4, Zenon DEF ReadWell
  <2>. QED
    BY <2>3, <2>4, Zenon
<1>. QED
  BY <1>2, <1>3, Zenon

(* Where the owner stands is not changed by a thief, nor by one that takes *)
(* the item at top.                                                        *)
LEMMA OwnerStays ==
  ASSUME DequeInv, UNCHANGED <<bottom, arrays, pushed>>, pc'[Owner] = pc[Owner],
         b'[Owner] = b[Owner], t'[Owner] = t[Owner], ret'[Owner] = ret[Owner],
         top' = top \/ (top < End /\ top' = top + 1)
  PROVE  OwnerInv' /\ WindowInv' /\ End' = End
<1>1. End' = End /\ Current' = Current
  BY Zenon DEF End, Current
<1>2. At(bottom)' = At(bottom) /\ (top' = top => At(top)' = At(top))
  BY Zenon DEF At, Get, Current
<1>3. top \in Nat /\ bottom \in Int /\ t[Owner] \in Int /\ pushed \in Int
  BY DEF DequeInv, TypesInv, LocalsInv, Threads
<1>4. Size(Current) \in Int
  <2>1. Current \in 1 .. MaxItems + 1
    BY DequeAssumption DEF DequeInv, TypesInv, LocalsInv, ArraysInv
  <2>. QED
    BY <2>1, Sizes
<1>5. WindowInv'
  BY <1>1, <1>3, <1>4 DEF DequeInv, WindowInv, End
<1>6. OwnerInv'
  <2>1. CASE top' = top
    BY <1>1, <1>2, <2>1, Zenon DEF DequeInv, OwnerInv
  <2>2. CASE top < End /\ top' = top + 1
    BY <1>1, <1>2, <1>3, <2>2 DEF DequeInv, OwnerInv, End
  <2>. QED
    BY <2>1, <2>2, Zenon
<1>. QED
  BY <1>1, <1>5, <1>6, Zenon

(* Steps of a thief that leave top alone.                                  *)
LEMMA ThiefReads ==
  ASSUME DequeInv, TypesInv', NEW x \in Thieves,
         StealTop(x) \/ StealBottom(x) \/ StealArray(x) \/ StealGet(x)
         \/ (StealCas(x) /\ UNCHANGED <<top, out>>)
  PROVE  DequeInv'
<1>0. x \in Threads /\ Owner \in Threads /\ x # Owner
  BY DequeAssumption, Zenon DEF Threads
<1>1. UNCHANGED <<top, bottom, arrays, pushed, out>>
  BY Zenon DEF StealTop, StealBottom, StealArray, StealGet, StealCas
<1>2. \A y \in Threads \ {x} :
        pc'[y] = pc[y] /\ b'[y] = b[y] /\ t'[y] = t[y] /\ a'[y] = a[y] /\ ret'[y] = ret[y]
  <2>1. LocalsInv
    BY Zenon DEF DequeInv, TypesInv
  <2>. QED
    BY <2>1, ZenonT(30) DEF StealTop, StealBottom, StealArray, StealGet, StealCas, Returns, Locals, GoTo,
       LocalsInv
<1>3. OwnerInv' /\ WindowInv' /\ End' = End /\ Current' = Current
  BY <1>0, <1>1, <1>2, OwnerStays, Zenon DEF Current
<1>4. At(top)' = At(top) /\ \A k \in 1 .. Current : Get(k, top)' = Get(k, top)
  BY <1>1, Zenon DEF At, Get, Current
<1>5. Current \in Nat \ {0} /\ top \in Nat /\ bottom \in Int
  <2>1. LocalsInv /\ ArraysInv
    BY Zenon DEF DequeInv, TypesInv
  <2>2. top \in Nat /\ bottom \in Int /\ pushed \in Nat
    BY <2>1 DEF LocalsInv
  <2>3. Current \in 1 .. pushed + 1
    BY <2>1, Zenon DEF ArraysInv
  <2>. QED
    BY ONLY <2>2, <2>3
<1>6. ASSUME NEW y \in Thieves \ {x} PROVE ReadWell(y)'
  <2>1. y \in Threads \ {x}
    BY Zenon DEF Threads
  <2>. QED
    BY <1>1, <1>2, <1>3, <1>4, <1>5, <2>1, OthersRead
<1>7. ReadWell(x)'
  <2>0. LocalsInv /\ ReadWell(x)
    BY Zenon DEF DequeInv, TypesInv, ThiefInv
  <2>1. CASE StealTop(x)
    <3>1. pc'[x] = "bottom" /\ t'[x] = top
      BY <1>0, <2>0, <2>1, Zenon DEF StealTop, GoTo, LocalsInv
    <3>. QED
      BY <1>1, <1>5, <3>1 DEF ReadWell
  <2>2. CASE StealBottom(x)
    <3>1. CASE Returns(x)
      <4>1. pc'[x] = "idle"
        BY <1>0, <2>0, <3>1, Zenon DEF Returns, GoTo, LocalsInv
      <4>. QED
        BY <4>1, Zenon DEF ReadWell
    <3>2. CASE ~(bottom - t[x] <= 0) /\ GoTo(x, "array") /\ UNCHANGED Locals
      <4>1. pc[x] = "bottom" /\ pc'[x] = "array" /\ t'[x] = t[x]
        BY <1>0, <2>0, <2>2, <3>2, Zenon DEF StealBottom, GoTo, LocalsInv, Locals
      <4>2. t[x] \in Nat /\ t[x] <= top
        BY <2>0, <4>1, Zenon DEF ReadWell
      <4>3. t[x] = top => top < End
        BY <1>5, <3>2, <4>2 DEF End
      <4>. QED
        BY <1>1, <1>3, <4>1, <4>2, <4>3, Zenon DEF ReadWell
    <3>. QED
      BY <2>2, <3>1, <3>2, Zenon DEF StealBottom
  <2>3. CASE StealArray(x)
    <3>1. pc[x] = "array" /\ pc'[x] = "get" /\ t'[x] = t[x] /\ a'[x] = Current
      BY <1>0, <2>0, <2>3, Zenon DEF StealArray, GoTo, LocalsInv, Current
    <3>2. t[x] \in Nat /\ t[x] <= top /\ (t[x] = top => top < End)
      BY <2>0, <3>1, Zenon DEF ReadWell
    <3>3. (Get(a[x], top) = At(top))'
      BY <1>3, <3>1, Zenon DEF At
    <3>4. a'[x] \in 1 .. Current'
      BY <1>3, <1>5, <3>1
    <3>. QED
      BY <1>1, <1>3, <3>1, <3>2, <3>3, <3>4, Zenon DEF ReadWell
  <2>4. CASE StealGet(x)
    <3>1. /\ pc[x] = "get" /\ pc'[x] = "cas" /\ t'[x] = t[x]
          /\ ret'[x] = Get(a[x], t[x])
      BY <1>0, <2>0, <2>4, Zenon DEF StealGet, GoTo, LocalsInv
    <3>2. /\ t[x] \in Nat /\ t[x] <= top
          /\ t[x] = top => top < End /\ ret'[x] = At(top)
      BY <2>0, <3>1, Zenon DEF ReadWell
    <3>. QED
      BY <1>1, <1>3, <1>4, <3>1, <3>2, Zenon DEF ReadWell
  <2>5. CASE StealCas(x)
    <3>1. pc'[x] = "idle"
      BY <1>0, <2>0, <2>5, Zenon DEF StealCas, Returns, GoTo, LocalsInv
    <3>. QED
      BY <3>1, Zenon DEF ReadWell
  <2>. QED
    BY <2>1, <2>2, <2>3, <2>4, <2>5, Zenon
<1>. QED
  BY <1>3, <1>6, <1>7, Zenon DEF DequeInv, ThiefInv

(* A thief whose swap of top succeeds.                                     *)
LEMMA ThiefTakes ==
  ASSUME DequeInv, TypesInv', NEW x \in Thieves, StealCas(x), Wins(x), top' = t[x] + 1
  PROVE  DequeInv' /\ top < End /\ ret[x] = At(top) /\ End' = End
<1>0. x \in Threads /\ Owner \in Threads /\ x # Owner /\ t[x] = top /\ pc[x] = "cas"
  BY DequeAssumption, Zenon DEF Threads, Wins, StealCas
<1>1. UNCHANGED <<bottom, arrays, pushed>>
  BY Zenon DEF StealCas
<1>2. /\ \A y \in Threads \ {x} :
           pc'[y] = pc[y] /\ b'[y] = b[y] /\ t'[y] = t[y] /\ a'[y] = a[y] /\ ret'[y] = ret[y]
      /\ pc'[x] = "idle"
  <2>1. LocalsInv
    BY Zenon DEF DequeInv, TypesInv
  <2>. QED
    BY <1>0, <2>1, Zenon DEF StealCas, Returns, GoTo, LocalsInv
<1>3. top < End /\ ret[x] = At(top)
  BY <1>0, Zenon DEF DequeInv, ThiefInv, ReadWell
<1>4. OwnerInv' /\ WindowInv' /\ End' = End
  BY <1>0, <1>1, <1>2, <1>3, OwnerStays, Zenon
<1>5. Current' = Current /\ Current \in Nat /\ top \in Nat /\ top' # top
  BY <1>0, <1>1 DEF Current, DequeInv, TypesInv, ArraysInv, LocalsInv
<1>6. ASSUME NEW y \in Thieves \ {x} PROVE ReadWell(y)'
  <2>1. y \in Threads \ {x}
    BY Zenon DEF Threads
  <2>. QED
    BY <1>0, <1>2, <1>5, <2>1, OthersRead
<1>7. ReadWell(x)'
  BY <1>2, Zenon DEF ReadWell
<1>. QED
  BY <1>3, <1>4, <1>6, <1>7, Zenon DEF DequeInv, ThiefInv

-----------------------------------------------------------------------------
(* What a step of the owner leaves to the thieves.                         *)
Undisturbed ==
  /\ top' = top \/ top' = top + 1
  /\ Current' \in Nat /\ Current <= Current'
  /\ top' = top /\ top < End =>
       top < End' /\ At(top)' = At(top) /\ \A k \in 1 .. Current : Get(k, top)' = Get(k, top)

LEMMA OwnerUndisturbing ==
  ASSUME DequeInv, OwnerStep, Undisturbed
  PROVE  ThiefInv'
<1>1. LocalsInv /\ Owner \notin Thieves /\ Thieves \subseteq Threads
  BY DequeAssumption, Zenon DEF DequeInv, TypesInv, Threads
<1>2. ASSUME NEW y \in Thieves
      PROVE  pc'[y] = pc[y] /\ t'[y] = t[y] /\ a'[y] = a[y] /\ ret'[y] = ret[y]
  BY <1>1, Zenon DEF OwnerStep, PushLoad, PushPut, PushPublish, PopStore, PopLoad, PopEmpty, PopCas,
     PopLast, Returns, GoTo, Locals, LocalsInv
<1>. QED
  BY <1>2, OthersRead, Zenon DEF Undisturbed, ThiefInv

(* Steps that leave the arrays alone read what they read before.           *)
LEMMA SameArrays ==
  ASSUME DequeInv, UNCHANGED arrays
  PROVE  /\ Current' = Current /\ Current' \in Nat /\ Current <= Current'
         /\ \A i : At(i)' = Get(Current, i)'
         /\ UNCHANGED top => At(top)' = At(top)
         /\ UNCHANGED top => \A k \in 1 .. Current : Get(k, top)' = Get(k, top)
         /\ UNCHANGED bottom => At(bottom)' = At(bottom)
<1>1. Current' = Current /\ Current \in Nat
  BY DEF Current, DequeInv, TypesInv, ArraysInv
<1>. QED
  BY <1>1 DEF At, Get

(* Numbers.                                                                *)
LEMMA Numbers ==
  ASSUME DequeInv
  PROVE  /\ top \in Nat /\ bottom \in Int /\ pushed \in Nat /\ pushed <= MaxItems
         /\ b[Owner] \in Int /\ t[Owner] \in Int /\ Owner \in Threads
         /\ Current \in Nat \ {0} /\ Size(Current) \in Nat \ {0}
<1>1. /\ top \in Nat /\ bottom \in Int /\ pushed \in Nat /\ pushed <= MaxItems
      /\ b[Owner] \in Int /\ t[Owner] \in Int /\ Owner \in Threads
  BY DequeAssumption DEF DequeInv, TypesInv, LocalsInv, Threads
<1>2. Current \in Nat \ {0} /\ Current <= pushed + 1
  BY <1>1 DEF DequeInv, TypesInv, ArraysInv
<1>3. Current \in 1 .. MaxItems + 1
  BY <1>1, <1>2, DequeAssumption
<1>. QED
  BY <1>1, <1>2, <1>3, Sizes, Zenon

(* The owner's push.                                                       *)
LEMMA PushLoadKeeps ==
  ASSUME DequeInv, TypesInv', PushLoad
  PROVE  DequeInv' /\ End' = End /\ UNCHANGED <<top, arrays>>
<1>. USE Numbers
<1>1. /\ pc[Owner] = "idle" /\ pc'[Owner] = "put" /\ b'[Owner] = bottom /\ t'[Owner] = top
      /\ UNCHANGED <<top, bottom, arrays>> /\ pushed' = pushed + 1
  BY Zenon DEF PushLoad, GoTo, DequeInv, TypesInv, LocalsInv
<1>2. Current' = Current
  BY <1>1, Zenon DEF Current
<1>3. End' = End /\ End = bottom
  BY <1>1, Zenon DEF End
<1>4. OwnerInv'
  BY <1>1, <1>2, <1>3 DEF DequeInv, OwnerInv, WindowInv
<1>5. WindowInv'
  BY <1>1, <1>2, <1>3, Zenon DEF DequeInv, WindowInv
<1>6. Undisturbed
  BY <1>1, <1>3, SameArrays, Zenon DEF Undisturbed
<1>7. ThiefInv'
  BY <1>6, OwnerUndisturbing, Zenon DEF OwnerStep
<1>. QED
  BY <1>1, <1>3, <1>4, <1>5, <1>7, Zenon DEF DequeInv

LEMMA PushPutKeeps ==
  ASSUME DequeInv, TypesInv', PushPut
  PROVE  DequeInv' /\ End' = End /\ UNCHANGED top
         /\ \A i \in top .. End - 1 : At(i)' = At(i)
<1>. USE Numbers
<1>1. /\ pc[Owner] = "put" /\ pc'[Owner] = "publish"
      /\ UNCHANGED <<top, bottom, b, t, pushed>>
  BY Zenon DEF PushPut, GoTo, DequeInv, TypesInv, LocalsInv, Locals
<1>2. /\ b[Owner] = bottom /\ t[Owner] >= 0 /\ t[Owner] <= top /\ top <= bottom
      /\ bottom < pushed
  BY <1>1, Zenon DEF DequeInv, OwnerInv
<1>3. End' = End /\ End = bottom
  BY <1>1, Zenon DEF End
<1>4. /\ Current' \in Current .. pushed + 1
      /\ \A i \in t[Owner] .. bottom - 1 :
           At(i)' = At(i) /\ \A k \in 1 .. Current : Get(k, i)' = Get(k, i)
      /\ At(bottom)' = pushed
      /\ bottom + 1 - t[Owner] < Size(Current')
  BY PutKeeps, Zenon
<1>5. Size(Current') \in Nat
  <2>1. Current' \in 1 .. MaxItems + 1
    BY <1>4, DequeAssumption
  <2>. QED
    BY <2>1, Sizes, Zenon
<1>6. OwnerInv'
  BY <1>1, <1>2, <1>4, Zenon DEF OwnerInv
<1>7. WindowInv'
  BY <1>1, <1>2, <1>3, <1>4, <1>5 DEF WindowInv
<1>8. \A i \in top .. End - 1 : At(i)' = At(i) /\ \A k \in 1 .. Current : Get(k, i)' = Get(k, i)
  <2>1. \A i \in top .. End - 1 : i \in t[Owner] .. bottom - 1
    BY <1>2, <1>3
  <2>. QED
    BY <1>4, <2>1, Zenon
<1>9. top < End => At(top)' = At(top) /\ \A k \in 1 .. Current : Get(k, top)' = Get(k, top)
  <2>1. top < End => top \in top .. End - 1
    BY <1>3
  <2>. QED
    BY <1>1, <1>8, <2>1, Zenon DEF At, Get
<1>10. Undisturbed
  BY <1>1, <1>3, <1>4, <1>9 DEF Undisturbed
<1>11. ThiefInv'
  BY <1>10, OwnerUndisturbing, Zenon DEF OwnerStep
<1>. QED
  BY <1>1, <1>3, <1>6, <1>7, <1>8, <1>11, Zenon DEF DequeInv

LEMMA PushPublishKeeps ==
  ASSUME DequeInv, TypesInv', PushPublish
  PROVE  /\ DequeInv' /\ End' = End + 1 /\ UNCHANGED <<top, arrays>>
         /\ top <= End /\ At(End) = pushed /\ pushed \in Items
<1>. USE Numbers
<1>1. /\ pc[Owner] = "publish" /\ pc'[Owner] = "idle" /\ bottom' = b[Owner] + 1
      /\ UNCHANGED <<top, arrays, pushed>>
  BY Zenon DEF PushPublish, Returns, GoTo, DequeInv, TypesInv, LocalsInv
<1>2. /\ b[Owner] = bottom /\ t[Owner] >= 0 /\ t[Owner] <= top /\ top <= bottom
      /\ bottom < pushed /\ bottom + 1 - t[Owner] < Size(Current) /\ At(bottom) = pushed
  BY <1>1, Zenon DEF DequeInv, OwnerInv
<1>3. End' = End + 1 /\ End = bottom
  BY <1>1, <1>2, Zenon DEF End
<1>4. Current' = Current
  BY <1>1, Zenon DEF Current
<1>5. OwnerInv'
  BY <1>1, <1>2 DEF OwnerInv
<1>6. WindowInv'
  BY <1>1, <1>2, <1>3, <1>4, SMTT(30) DEF WindowInv
<1>7. Undisturbed
  BY <1>1, <1>3, SameArrays DEF Undisturbed
<1>8. ThiefInv'
  BY <1>7, OwnerUndisturbing, Zenon DEF OwnerStep
<1>9. pushed \in Items
  BY <1>2, DequeAssumption DEF Items
<1>. QED
  BY <1>1, <1>2, <1>3, <1>5, <1>6, <1>8, <1>9, Zenon DEF DequeInv

-----------------------------------------------------------------------------
(* The owner's pop.                                                        *)
LEMMA PopStoreKeeps ==
  ASSUME DequeInv, TypesInv', PopStore
  PROVE  DequeInv' /\ End' = End /\ UNCHANGED <<top, arrays>>
<1>. USE Numbers
<1>1. /\ pc[Owner] = "idle" /\ pc'[Owner] = "poptop" /\ b'[Owner] = bottom - 1
      /\ bottom' = bottom - 1 /\ UNCHANGED <<top, arrays, pushed>>
  BY Zenon DEF PopStore, GoTo, DequeInv, TypesInv, LocalsInv
<1>2. Current' = Current
  BY <1>1, Zenon DEF Current
<1>3. End' = End
  BY <1>1, SMTT(30) DEF End
<1>4. OwnerInv'
  BY <1>1 DEF DequeInv, OwnerInv
<1>5. WindowInv'
  BY <1>1, <1>2, <1>3, Zenon DEF DequeInv, WindowInv
<1>6. Undisturbed
  BY <1>1, <1>3, SameArrays, Zenon DEF Undisturbed
<1>7. ThiefInv'
  BY <1>6, OwnerUndisturbing, Zenon DEF OwnerStep
<1>. QED
  BY <1>1, <1>3, <1>4, <1>5, <1>7, Zenon DEF DequeInv

LEMMA PopLoadKeeps ==
  ASSUME DequeInv, TypesInv', PopLoad
  PROVE  /\ DequeInv' /\ UNCHANGED <<top, arrays>>
         /\ \/ End - top <= 0 /\ End' - top <= 0 /\ UNCHANGED out
            \/ End' = End /\ UNCHANGED out
            \/ /\ top < End /\ End' = End - 1
               /\ out' = [out EXCEPT ![Owner] = At(End - 1)]
<1>. USE Numbers
<1>1. pc[Owner] = "poptop" /\ UNCHANGED <<top, bottom, arrays, pushed>>
  BY Zenon DEF PopLoad
<1>2. b[Owner] = bottom /\ top <= bottom + 1 /\ bottom < pushed /\ End = bottom + 1
  BY <1>1, Zenon DEF DequeInv, OwnerInv, End
<1>3. Current' = Current /\ LocalsInv
  BY <1>1, Zenon DEF Current, DequeInv, TypesInv
<1>. DEFINE Kept == /\ OwnerInv' /\ WindowInv' /\ (top < End => top < End')
                    /\ \/ End - top <= 0 /\ End' - top <= 0 /\ UNCHANGED out
                       \/ End' = End /\ UNCHANGED out
                       \/ /\ top < End /\ End' = End - 1
                          /\ out' = [out EXCEPT ![Owner] = At(End - 1)]
<1>4. ASSUME b[Owner] - top < 0, t' = [t EXCEPT ![Owner] = top],
             GoTo(Owner, "popempty"), UNCHANGED <<b, a, ret, out>>
      PROVE  Kept
  <2>1. pc'[Owner] = "popempty" /\ t'[Owner] = top /\ End' = bottom
    BY <1>1, <1>3, <1>4, Zenon DEF GoTo, End, LocalsInv
  <2>2. OwnerInv'
    BY <1>1, <1>2, <1>4, <2>1, SMTT(30) DEF OwnerInv
  <2>3. WindowInv'
    BY <1>1, <1>2, <1>3, <1>4, <2>1, SMTT(30) DEF WindowInv
  <2>4. End - top <= 0 /\ End' - top <= 0 /\ ~(top < End)
    BY <1>2, <1>4, <2>1
  <2>. QED
    BY <1>4, <2>2, <2>3, <2>4, Zenon
<1>5. ASSUME b[Owner] - top = 0, t' = [t EXCEPT ![Owner] = top],
             ret' = [ret EXCEPT ![Owner] = Get(Len(arrays), b[Owner])],
             GoTo(Owner, "popcas"), UNCHANGED <<b, a, out>>
      PROVE  Kept
  <2>1. /\ pc'[Owner] = "popcas" /\ t'[Owner] = top /\ End' = End /\ top = bottom
        /\ ret'[Owner] = At(top)
    BY <1>1, <1>2, <1>3, <1>5 DEF GoTo, End, LocalsInv, At, Current
  <2>2. At(top)' = At(top)
    BY <1>1, SameArrays, Zenon
  <2>3. OwnerInv'
    BY <1>1, <1>2, <2>1, <2>2 DEF OwnerInv
  <2>4. WindowInv'
    BY <1>1, <1>3, <2>1, Zenon DEF DequeInv, WindowInv
  <2>. QED
    BY <1>5, <2>1, <2>3, <2>4, Zenon
<1>6. ASSUME b[Owner] - top > 0,
             out' = [out EXCEPT ![Owner] = Get(Len(arrays), b[Owner])], Returns(Owner)
      PROVE  Kept
  <2>1. pc'[Owner] = "idle" /\ End' = bottom /\ top < bottom
    BY <1>1, <1>2, <1>3, <1>6 DEF Returns, GoTo, End, LocalsInv
  <2>2. out' = [out EXCEPT ![Owner] = At(End - 1)]
    <3>1. End - 1 = b[Owner]
      BY <1>2
    <3>. QED
      BY <1>6, <3>1, Zenon DEF At, Current
  <2>3. OwnerInv'
    BY <1>1, <1>2, <2>1 DEF OwnerInv
  <2>4. WindowInv'
    BY <1>1, <1>2, <1>3, <2>1 DEF DequeInv, WindowInv
  <2>5. top < End /\ End' = End - 1 /\ top < End'
    BY <1>2, <2>1
  <2>. QED
    BY <2>2, <2>3, <2>4, <2>5, Zenon
<1>. HIDE DEF Kept
<1>10. Kept
  BY <1>4, <1>5, <1>6, Zenon DEF PopLoad
<1>. USE DEF Kept
<1>7. Kept
  BY <1>10, Zenon
<1>8. Undisturbed
  BY <1>1, <1>7, SameArrays, Zenon DEF Undisturbed
<1>9. ThiefInv'
  BY <1>8, OwnerUndisturbing, Zenon DEF OwnerStep
<1>. QED
  BY <1>1, <1>7, <1>9, Zenon DEF DequeInv

LEMMA PopEmptyKeeps ==
  ASSUME DequeInv, TypesInv', PopEmpty
  PROVE  DequeInv' /\ End - top <= 0 /\ End' - top <= 0 /\ UNCHANGED <<top, arrays>>
<1>. USE Numbers
<1>1. /\ pc[Owner] = "popempty" /\ pc'[Owner] = "idle" /\ bottom' = t[Owner]
      /\ UNCHANGED <<top, arrays, pushed>>
  BY Zenon DEF PopEmpty, Returns, GoTo, DequeInv, TypesInv, LocalsInv
<1>2. t[Owner] = top /\ top = bottom + 1 /\ bottom < pushed
  BY <1>1, Zenon DEF DequeInv, OwnerInv
<1>3. End = bottom /\ End' = top /\ Current' = Current
  BY <1>1, <1>2, Zenon DEF End, Current
<1>4. OwnerInv'
  BY <1>1, <1>2 DEF OwnerInv
<1>5. WindowInv'
  BY <1>1, <1>3 DEF WindowInv
<1>6. Undisturbed
  BY <1>1, <1>2, <1>3, SameArrays DEF Undisturbed
<1>7. ThiefInv'
  BY <1>6, OwnerUndisturbing, Zenon DEF OwnerStep
<1>. QED
  BY <1>1, <1>2, <1>3, <1>4, <1>5, <1>7 DEF DequeInv

LEMMA PopCasKeeps ==
  ASSUME DequeInv, TypesInv', PopCas
  PROVE  /\ DequeInv' /\ End' = End /\ UNCHANGED arrays
         /\ \/ UNCHANGED <<top, out>>
            \/ /\ top' = top + 1 /\ End = top + 1
               /\ out' = [out EXCEPT ![Owner] = At(top)]
<1>. USE Numbers
<1>1. /\ pc[Owner] = "popcas" /\ pc'[Owner] = "poplast"
      /\ UNCHANGED <<bottom, arrays, pushed, t>>
  BY Zenon DEF PopCas, GoTo, DequeInv, TypesInv, LocalsInv, Locals
<1>2. /\ t[Owner] = bottom /\ top \in bottom .. bottom + 1 /\ bottom < pushed
      /\ top = bottom => ret[Owner] = At(top)
  BY <1>1, Zenon DEF DequeInv, OwnerInv
<1>3. End' = End /\ End = bottom + 1 /\ Current' = Current
  BY <1>1, Zenon DEF End, Current
<1>4. \/ UNCHANGED <<top, out>>
      \/ /\ top = bottom /\ top' = top + 1 /\ out' = [out EXCEPT ![Owner] = At(top)]
  BY <1>2, Zenon DEF PopCas, Wins
<1>5. top' \in bottom .. bottom + 1 /\ (top' = top \/ top' = top + 1)
  BY <1>2, <1>4
<1>6. OwnerInv'
  BY <1>1, <1>2, <1>5, Zenon DEF OwnerInv
<1>7. WindowInv'
  BY <1>3, <1>5 DEF DequeInv, WindowInv
<1>8. Undisturbed
  BY <1>1, <1>3, <1>5, SameArrays, Zenon DEF Undisturbed
<1>9. ThiefInv'
  BY <1>8, OwnerUndisturbing, Zenon DEF OwnerStep
<1>. QED
  BY <1>1, <1>3, <1>4, <1>6, <1>7, <1>9, Zenon DEF DequeInv

LEMMA PopLastKeeps ==
  ASSUME DequeInv, TypesInv', PopLast
  PROVE  DequeInv' /\ End' = End /\ UNCHANGED <<top, arrays>>
<1>. USE Numbers
<1>1. /\ pc[Owner] = "poplast" /\ pc'[Owner] = "idle" /\ bottom' = t[Owner] + 1
      /\ UNCHANGED <<top, arrays, pushed>>
  BY Zenon DEF PopLast, Returns, GoTo, DequeInv, TypesInv, LocalsInv
<1>2. t[Owner] = bottom /\ top \in bottom .. bottom + 1 /\ bottom < pushed
  BY <1>1, Zenon DEF DequeInv, OwnerInv
<1>3. End' = End /\ Current' = Current
  BY <1>1, <1>2, Zenon DEF End, Current
<1>4. OwnerInv'
  BY <1>1, <1>2 DEF OwnerInv
<1>5. WindowInv'
  BY <1>1, <1>3, Zenon DEF DequeInv, WindowInv
<1>6. Undisturbed
  BY <1>1, <1>3, SameArrays, Zenon DEF Undisturbed
<1>7. ThiefInv'
  BY <1>6, OwnerUndisturbing, Zenon DEF OwnerStep
<1>. QED
  BY <1>1, <1>3, <1>4, <1>5, <1>7, Zenon DEF DequeInv

-----------------------------------------------------------------------------
(* The deque as its users see it.                                          *)
LEMMA ContentsSeq ==
  ASSUME DequeInv, top <= End
  PROVE  /\ Contents \in Seq({At(i) : i \in Nat}) /\ Len(Contents) = End - top
         /\ \A k \in 1 .. End - top : Contents[k] = At(top + k - 1)
<1>1. End - top \in Nat /\ top \in Nat
  BY Numbers DEF End
<1>2. \A k \in 1 .. End - top : Contents[k] = At(top + k - 1) /\ top + k - 1 \in Nat
  BY <1>1 DEF Contents, At, Current
<1>3. Contents \in [1 .. End - top -> {At(i) : i \in Nat}]
  BY <1>2, Zenon DEF Contents
<1>4. Contents \in Seq({At(i) : i \in Nat}) /\ Len(Contents) = End - top
  <2>. DEFINE V == {At(i) : i \in Nat}
  <2>. HIDE DEF V
  <2>1. Contents \in [1 .. End - top -> V]
    BY <1>3, Zenon DEF V
  <2>2. Contents \in Seq(V) /\ Len(Contents) = End - top
    BY ONLY <1>1, <2>1
  <2>. QED
    BY <2>2, Zenon DEF V
<1>. QED
  BY <1>2, <1>4, Zenon

(* A step that neither adds nor takes an item.                             *)
LEMMA ContentsKept ==
  ASSUME DequeInv, DequeInv', UNCHANGED top,
         End' = End \/ (End - top <= 0 /\ End' - top <= 0),
         \A i \in top .. End - 1 : At(i)' = At(i)
  PROVE  UNCHANGED Contents
<1>1. top \in Nat /\ End \in Int /\ End' \in Int
  BY Numbers DEF End, DequeInv, TypesInv, LocalsInv
<1>2. 1 .. End' - top' = 1 .. End - top
  <2>1. ASSUME NEW m \in Int, NEW n \in Int, m <= 0, n <= 0 PROVE 1 .. m = 1 .. n
    BY ONLY <2>1
  <2>2. CASE End - top <= 0 /\ End' - top <= 0
    <3>1. End - top \in Int /\ End' - top \in Int
      BY ONLY <1>1
    <3>. QED
      BY <2>1, <2>2, <3>1, Zenon
  <2>. QED
    BY <2>2, Zenon
<1>3. \A k \in 1 .. End - top : Get(Len(arrays), top + k - 1)' = Get(Len(arrays), top + k - 1)
  <2>1. \A k \in 1 .. End - top : top + k - 1 \in top .. End - 1
    BY <1>1
  <2>. QED
    BY <2>1, Zenon DEF At, Get, Current
<1>. QED
  BY <1>2, <1>3, Zenon DEF Contents

LEMMA AtKept ==
  ASSUME UNCHANGED arrays
  PROVE  \A i : At(i)' = At(i)
BY Zenon DEF At, Get, Current

(* The contents after a step that leaves the arrays alone.                 *)
LEMMA ContentsAfter ==
  ASSUME UNCHANGED arrays
  PROVE  Contents' = [k \in 1 .. End' - top' |-> At(top' + k - 1)]
BY Zenon DEF Contents, At, Get, Current

(* A sequence is a function on the numbers up to its length.               *)
LEMMA SequenceIsFunction ==
  ASSUME NEW S, NEW s \in Seq(S)
  PROVE  s \in [1 .. Len(s) -> S]
OBVIOUS

(* Storing bottom after a push adds the item at the bottom.                *)
LEMMA PushRefines ==
  ASSUME DequeInv, TypesInv', PushPublish
  PROVE  \E i \in Items : Abstract!PushBottom(i)
<1>1. /\ DequeInv' /\ End' = End + 1 /\ UNCHANGED <<top, arrays>>
      /\ top <= End /\ At(End) = pushed /\ pushed \in Items
  BY PushPublishKeeps, Zenon
<1>2. top \in Nat /\ End \in Int
  BY Numbers DEF End
<1>. DEFINE n == End - top
            S == {At(i) : i \in Nat}
<1>3. n \in Nat /\ End' - top' = n + 1 /\ top + (n + 1) - 1 = End
  BY <1>1, <1>2
<1>4. /\ Contents \in Seq(S) /\ Len(Contents) = n
      /\ \A k \in 1 .. n : Contents[k] = At(top + k - 1)
  BY <1>1, ContentsSeq, Zenon
<1>5. pushed \in S
  BY <1>1, <1>2, <1>3
<1>. HIDE DEF n, S
<1>6. Contents' = [k \in 1 .. n + 1 |-> At(top + k - 1)]
  BY <1>1, <1>3, ContentsAfter, Zenon
<1>7. /\ Append(Contents, pushed) \in Seq(S) /\ Len(Append(Contents, pushed)) = n + 1
      /\ \A k \in 1 .. n : Append(Contents, pushed)[k] = Contents[k]
      /\ Append(Contents, pushed)[n + 1] = pushed
  BY <1>3, <1>4, <1>5
<1>8. \A k \in 1 .. n + 1 : Append(Contents, pushed)[k] = At(top + k - 1)
  BY <1>1, <1>3, <1>4, <1>7
<1>9. Append(Contents, pushed) \in [1 .. n + 1 -> S]
  BY <1>7, SequenceIsFunction, Zenon
<1>10. Contents' = Append(Contents, pushed)
  BY <1>6, <1>8, <1>9, Zenon
<1>11. UNCHANGED out
  BY Zenon DEF PushPublish
<1>. QED
  BY <1>1, <1>10, <1>11, Zenon DEF Abstract!PushBottom

(* A pop that takes the last item but does not empty the deque, or wins    *)
(* the race for the only one.                                              *)
LEMMA PopRefines ==
  ASSUME DequeInv, UNCHANGED arrays, top < End, End' - top' = End - top - 1,
         top' = top \/ (top' = top + 1 /\ End = top + 1),
         out' = [out EXCEPT ![Owner] = At(End - 1)]
  PROVE  Abstract!PopBottom
<1>1. top \in Nat /\ End \in Int
  BY Numbers DEF End
<1>. DEFINE n == End - top
            S == {At(i) : i \in Nat}
<1>2. n \in Nat \ {0} /\ top <= End /\ top + n - 1 = End - 1 /\ End' - top' = n - 1
  BY <1>1
<1>3. /\ Contents \in Seq(S) /\ Len(Contents) = n
      /\ \A k \in 1 .. n : Contents[k] = At(top + k - 1)
  BY <1>2, ContentsSeq, Zenon
<1>4. n = 1 \/ top' = top
  BY <1>1
<1>. HIDE DEF n, S
<1>5. Contents' = [k \in 1 .. n - 1 |-> At(top' + k - 1)]
  BY <1>2, ContentsAfter, Zenon
<1>6. Contents[n] = At(End - 1) /\ Contents # <<>>
  BY <1>2, <1>3
<1>10. /\ SubSeq(Contents, 1, n - 1) \in Seq(S) /\ Len(SubSeq(Contents, 1, n - 1)) = n - 1
       /\ \A k \in 1 .. n - 1 : SubSeq(Contents, 1, n - 1)[k] = Contents[k]
  BY <1>2, <1>3
<1>7. /\ SubSeq(Contents, 1, n - 1) \in [1 .. n - 1 -> S]
      /\ \A k \in 1 .. n - 1 : SubSeq(Contents, 1, n - 1)[k] = Contents[k]
  BY <1>10, SequenceIsFunction, Zenon
<1>8. \A k \in 1 .. n - 1 : SubSeq(Contents, 1, n - 1)[k] = At(top' + k - 1)
  BY <1>2, <1>3, <1>4, <1>7
<1>9. Contents' = SubSeq(Contents, 1, n - 1)
  BY <1>5, <1>7, <1>8, Zenon
<1>. QED
  BY <1>3, <1>6, <1>9, Zenon DEF Abstract!PopBottom

(* A thief's swap of top takes the item at the top.                        *)
LEMMA StealRefines ==
  ASSUME DequeInv, NEW x \in Thieves, UNCHANGED arrays, top < End, End' = End, top' = top + 1,
         out' = [out EXCEPT ![x] = At(top)]
  PROVE  Abstract!Steal(x)
<1>1. top \in Nat /\ End \in Int
  BY Numbers DEF End
<1>. DEFINE n == End - top
            S == {At(i) : i \in Nat}
<1>2. n \in Nat \ {0} /\ top <= End /\ End' - top' = n - 1
  BY <1>1
<1>3. /\ Contents \in Seq(S) /\ Len(Contents) = n
      /\ \A k \in 1 .. n : Contents[k] = At(top + k - 1)
  BY <1>2, ContentsSeq, Zenon
<1>. HIDE DEF n, S
<1>4. Contents' = [k \in 1 .. n - 1 |-> At(top' + k - 1)]
  BY <1>2, ContentsAfter, Zenon
<1>5. Contents # <<>> /\ Head(Contents) = Contents[1] /\ Contents[1] = At(top)
  <2>1. top + 1 - 1 = top /\ 1 \in 1 .. n
    BY <1>1, <1>2
  <2>. QED
    BY <1>2, <1>3, <2>1
<1>10. /\ Tail(Contents) \in Seq(S) /\ Len(Tail(Contents)) = n - 1
       /\ \A k \in 1 .. n - 1 : Tail(Contents)[k] = Contents[k + 1]
  BY <1>2, <1>3, <1>5
<1>6. /\ Tail(Contents) \in [1 .. n - 1 -> S]
      /\ \A k \in 1 .. n - 1 : Tail(Contents)[k] = Contents[k + 1]
  BY <1>10, SequenceIsFunction, Zenon
<1>7. \A k \in 1 .. n - 1 : k + 1 \in 1 .. n /\ top + (k + 1) - 1 = top' + k - 1
  BY <1>1, <1>2
<1>8. \A k \in 1 .. n - 1 : Tail(Contents)[k] = At(top' + k - 1)
  BY <1>3, <1>6, <1>7, Zenon
<1>9. Contents' = Tail(Contents)
  BY <1>4, <1>6, <1>8, Zenon
<1>. QED
  BY <1>5, <1>9, Zenon DEF Abstract!Steal

-----------------------------------------------------------------------------
(* Every step keeps the invariant, and is a step of the abstract deque or  *)
(* none at all.                                                            *)
LEMMA DequeStep ==
  ASSUME DequeInv, [Next]_vars
  PROVE  DequeInv' /\ [Abstract!Next]_(Abstract!vars)
<1>. DEFINE Same == Contents' = Contents /\ out' = out
            Goal == DequeInv' /\ (Abstract!Next \/ Same)
<1>0. TypesInv'
  BY LocalsStep, ArraysStep, Zenon DEF TypesInv
<1>1. ASSUME DequeInv', UNCHANGED <<top, arrays, out>>,
             End' = End \/ (End - top <= 0 /\ End' - top <= 0)
      PROVE  Goal
  BY <1>1, AtKept, ContentsKept, Zenon
<1>2. ASSUME UNCHANGED vars PROVE Goal
  <2>1. DequeInv'
    BY <1>2, ZenonT(30) DEF vars, DequeInv, TypesInv, LocalsInv, ArraysInv, OwnerInv, WindowInv, ThiefInv,
       ReadWell, Current, At, Get, End
  <2>. QED
    BY <1>1, <1>2, <2>1, Zenon DEF vars, End
<1>3. ASSUME PushLoad \/ PopStore \/ PopLast PROVE Goal
  <2>1. UNCHANGED out
    BY <1>3, Zenon DEF PushLoad, PopStore, PopLast
  <2>. QED
    BY <1>0, <1>1, <1>3, <2>1, PushLoadKeeps, PopStoreKeeps, PopLastKeeps, Zenon
<1>4. ASSUME PushPut PROVE Goal
  <2>1. UNCHANGED out
    BY <1>4, Zenon DEF PushPut
  <2>. QED
    BY <1>0, <1>4, <2>1, PushPutKeeps, ContentsKept, Zenon
<1>5. ASSUME PushPublish PROVE Goal
  BY <1>0, <1>5, PushPublishKeeps, PushRefines, Zenon DEF Abstract!Next
<1>6. ASSUME PopLoad PROVE Goal
  <2>1. /\ DequeInv' /\ UNCHANGED <<top, arrays>>
        /\ \/ End - top <= 0 /\ End' - top <= 0 /\ UNCHANGED out
           \/ End' = End /\ UNCHANGED out
           \/ /\ top < End /\ End' = End - 1
              /\ out' = [out EXCEPT ![Owner] = At(End - 1)]
    BY <1>0, <1>6, PopLoadKeeps, Zenon
  <2>2. CASE /\ top < End /\ End' = End - 1
             /\ out' = [out EXCEPT ![Owner] = At(End - 1)]
    <3>1. End' - top' = End - top - 1
      BY <2>1, <2>2, Numbers DEF End
    <3>. QED
      BY <2>1, <2>2, <3>1, PopRefines, Zenon DEF Abstract!Next
  <2>. QED
    BY <1>1, <2>1, <2>2, Zenon
<1>7. ASSUME PopEmpty PROVE Goal
  <2>1. UNCHANGED out
    BY <1>7, Zenon DEF PopEmpty
  <2>. QED
    BY <1>0, <1>1, <1>7, <2>1, PopEmptyKeeps, Zenon
<1>8. ASSUME PopCas PROVE Goal
  <2>1. /\ DequeInv' /\ End' = End /\ UNCHANGED arrays
        /\ \/ UNCHANGED <<top, out>>
           \/ /\ top' = top + 1 /\ End = top + 1
              /\ out' = [out EXCEPT ![Owner] = At(top)]
    BY <1>0, <1>8, PopCasKeeps, Zenon
  <2>2. CASE top' = top + 1 /\ End = top + 1 /\ out' = [out EXCEPT ![Owner] = At(top)]
    <3>1. top < End /\ End' - top' = End - top - 1 /\ End - 1 = top
      BY <2>1, <2>2, Numbers
    <3>. QED
      BY <2>1, <2>2, <3>1, PopRefines, Zenon DEF Abstract!Next
  <2>. QED
    BY <1>1, <2>1, <2>2, Zenon
<1>9. ASSUME NEW x \in Thieves, StealTop(x) \/ StealBottom(x) \/ StealArray(x) \/ StealGet(x)
                                \/ (StealCas(x) /\ UNCHANGED <<top, out>>)
      PROVE  Goal
  <2>1. DequeInv' /\ UNCHANGED <<top, bottom, arrays, out>>
    BY <1>0, <1>9, ThiefReads, Zenon DEF StealTop, StealBottom, StealArray, StealGet, StealCas
  <2>2. pc'[Owner] = pc[Owner]
    BY <1>9, DequeAssumption, Zenon DEF StealTop, StealBottom, StealArray, StealGet, StealCas, Returns,
       GoTo, DequeInv, TypesInv, LocalsInv, Threads
  <2>. QED
    BY <1>1, <2>1, <2>2, Zenon DEF End
<1>10. ASSUME NEW x \in Thieves, StealCas(x), Wins(x), top' = t[x] + 1,
              out' = [out EXCEPT ![x] = ret[x]]
       PROVE  Goal
  <2>1. DequeInv' /\ top < End /\ ret[x] = At(top) /\ End' = End
    BY <1>0, <1>10, ThiefTakes, Zenon
  <2>2. top' = top + 1 /\ UNCHANGED arrays
    BY <1>10, Zenon DEF StealCas, Wins
  <2>. QED
    BY <1>10, <2>1, <2>2, StealRefines, Zenon DEF Abstract!Next
<1>11. ASSUME NEW x \in Thieves, StealCas(x) PROVE Goal
  BY <1>9, <1>10, <1>11, Zenon DEF StealCas
<1>. HIDE DEF Goal
<1>12. Goal
  BY <1>2, <1>3, <1>4, <1>5, <1>6, <1>7, <1>8, <1>9, <1>11, Zenon DEF Next, OwnerStep, ThiefStep
<1>. QED
  BY <1>12, Zenon DEF Goal, Abstract!vars

(* The work-stealing deque is linearizable: every push, pop and steal      *)
(* takes effect at one instant, an item goes to one thread, the owner gets *)
(* the newest and a thief the oldest, growing the array included.          *)
THEOREM DequeImplements == Spec => ImplementsDeque
<1>1. Init => Abstract!Init
  <2>. SUFFICES ASSUME Init PROVE Abstract!Init
    BY Zenon
  <2>1. End = 0 /\ top = 0
    BY Zenon DEF Init, End, Threads
  <2>2. Contents = <<>>
    BY <2>1 DEF Contents
  <2>3. out = [x \in Thieves \cup {Owner} |-> Null]
    BY Zenon DEF Init, Threads
  <2>. QED
    BY <2>2, <2>3, Zenon DEF Abstract!Init
<1>2. DequeInv /\ [Next]_vars => DequeInv' /\ [Abstract!Next]_(Abstract!vars)
  BY DequeStep, Zenon
<1>. QED
  BY DequeInit, <1>1, <1>2, PTL DEF Spec, ImplementsDeque, Abstract!Spec

-----------------------------------------------------------------------------
(* The locals of every call are in range.                                  *)
RangesInv ==
  \A x \in Threads : b[x] \in -1 .. MaxItems /\ t[x] \in Nat /\ a[x] \in 0 .. Current

LEMMA RangesStep ==
  ASSUME DequeInv, RangesInv, [Next]_vars
  PROVE  RangesInv'
<1>0. /\ b \in [Threads -> Int] /\ t \in [Threads -> Int] /\ a \in [Threads -> Nat]
      /\ Owner \in Threads /\ Thieves \subseteq Threads /\ MaxItems \in Nat
      /\ top \in Nat /\ Current \in Nat
  BY Numbers, DequeAssumption, Zenon DEF DequeInv, TypesInv, LocalsInv, Threads
<1>1. Current' \in Nat /\ Current <= Current'
  <2>1. CASE PushPut
    <3>1. Current' \in Current .. pushed + 1
      BY <2>1, PutKeeps, Zenon
    <3>. QED
      BY <1>0, <3>1, Numbers
  <2>2. CASE UNCHANGED arrays
    BY <1>0, <2>2 DEF Current
  <2>. QED
    BY <2>1, <2>2, Zenon DEF Next, OwnerStep, ThiefStep, PushLoad, PushPublish, PopStore, PopLoad,
       PopEmpty, PopCas, PopLast, StealTop, StealBottom, StealArray, StealGet, StealCas, vars
<1>2. ASSUME NEW x \in Threads, NEW i \in -1 .. MaxItems, NEW j \in Nat, NEW k \in 0 .. Current,
             b' = b \/ b' = [b EXCEPT ![x] = i],
             t' = t \/ t' = [t EXCEPT ![x] = j],
             a' = a \/ a' = [a EXCEPT ![x] = k]
      PROVE  RangesInv'
  BY <1>0, <1>1, <1>2 DEF RangesInv
<1>3. 0 \in -1 .. MaxItems /\ 0 \in Nat /\ 0 \in 0 .. Current /\ Current \in 0 .. Current
  BY <1>0
<1>4. ASSUME NEW x \in Threads, Returns(x) PROVE RangesInv'
  BY <1>2, <1>3, <1>4, Zenon DEF Returns
<1>5. ASSUME NEW x \in Threads, UNCHANGED <<b, t, a>> PROVE RangesInv'
  BY <1>2, <1>3, <1>5, Zenon
<1>6. CASE PushLoad
  <2>1. bottom \in -1 .. MaxItems
    BY <1>0, <1>6, Numbers DEF PushLoad, DequeInv, OwnerInv
  <2>. QED
    BY <1>0, <1>2, <1>3, <1>6, <2>1, Zenon DEF PushLoad
<1>7. CASE PopStore
  <2>1. bottom - 1 \in -1 .. MaxItems
    BY <1>0, <1>7, Numbers DEF PopStore, DequeInv, OwnerInv
  <2>. QED
    BY <1>0, <1>2, <1>3, <1>7, <2>1, Zenon DEF PopStore
<1>8. CASE PopLoad
  <2>1. Returns(Owner) \/ (t' = [t EXCEPT ![Owner] = top] /\ UNCHANGED <<b, a>>)
    BY <1>8, Zenon DEF PopLoad
  <2>. QED
    BY <1>0, <1>2, <1>3, <1>4, <2>1, Zenon
<1>9. ASSUME NEW x \in Thieves, StealTop(x) PROVE RangesInv'
  BY <1>0, <1>2, <1>3, <1>9, Zenon DEF StealTop
<1>10. ASSUME NEW x \in Thieves, StealArray(x) PROVE RangesInv'
  BY <1>0, <1>2, <1>3, <1>10, Zenon DEF StealArray, Current
<1>11. ASSUME NEW x \in Thieves, StealBottom(x) \/ StealGet(x) \/ StealCas(x) PROVE RangesInv'
  BY <1>0, <1>4, <1>5, <1>11, Zenon DEF StealBottom, StealGet, StealCas, Locals
<1>12. CASE PushPut \/ PushPublish \/ PopEmpty \/ PopCas \/ PopLast
  BY <1>0, <1>4, <1>5, <1>12, Zenon DEF PushPut, PushPublish, PopEmpty, PopCas, PopLast, Locals
<1>13. CASE UNCHANGED vars
  BY <1>0, <1>5, <1>13, Zenon DEF vars
<1>. QED
  BY <1>6, <1>7, <1>8, <1>9, <1>10, <1>11, <1>12, <1>13, Zenon DEF Next, OwnerStep, ThiefStep

(* No call hands out a slot that was never filled, or one that an old      *)
(* array kept: what a thief has read is the oldest item if its swap of top *)
(* can still succeed.  Indices stay in range.                              *)
THEOREM DequeNoStaleSlot == Spec => []NoStaleSlot
<1>1. Init => RangesInv
  BY DequeAssumption DEF Init, RangesInv, Current
<1>2. DequeInv /\ RangesInv /\ [Next]_vars => DequeInv' /\ RangesInv'
  BY DequeStep, RangesStep, Zenon
<1>3. DequeInv /\ RangesInv => NoStaleSlot
  <2>. SUFFICES ASSUME DequeInv, RangesInv PROVE NoStaleSlot
    BY Zenon
  <2>1. bottom \in top - 1 .. top + MaxItems
    <3>1. pc[Owner] \in OwnerPlaces
      BY Zenon DEF DequeInv, TypesInv, LocalsInv
    <3>2. bottom <= pushed /\ top - 1 <= bottom
      BY <3>1, Numbers, SMTT(30) DEF DequeInv, OwnerInv, OwnerPlaces
    <3>. QED
      BY <3>2, Numbers, DequeAssumption
  <2>2. \A k \in DOMAIN arrays : arrays[k] \in [0 .. Size(k) - 1 -> Items \cup {Null}]
    BY DEF DequeInv, TypesInv, ArraysInv, Current, Slots
  <2>3. TypeOK
    BY <2>1, <2>2, Numbers, Zenon DEF TypeOK, RangesInv, Current, DequeInv, TypesInv, LocalsInv, Slots
  <2>4. ASSUME NEW x \in Thieves, pc[x] = "cas", t[x] = top PROVE ret[x] = Contents[1]
    <3>1. top < End /\ ret[x] = At(top)
      BY <2>4, Zenon DEF DequeInv, ThiefInv, ReadWell
    <3>2. top \in Nat /\ End \in Int
      BY Numbers DEF End
    <3>3. top <= End /\ 1 \in 1 .. End - top /\ top + 1 - 1 = top
      BY <3>1, <3>2
    <3>. QED
      BY <3>1, <3>3, ContentsSeq, Zenon
  <2>. QED
    BY <2>3, <2>4, Zenon DEF NoStaleSlot
<1>. QED
  BY DequeInit, <1>1, <1>2, <1>3, PTL DEF Spec

=============================================================================
