-------------------------- MODULE FiberRwlockProofs --------------------------
(***************************************************************************)
(* The word of the read/write lock, the exclusion of writers and the       *)
(* hand-over, for every number of fibers the counters can count.           *)
(***************************************************************************)
EXTENDS FiberRwlock, FiniteSetTheorems, TLAPS

Places == {"run", "reading", "writing", "rpush", "rlink", "rparked", "wpush", "wlink", "wparked",
           "rwake", "wwake"}
Entry == [fiber : Fibers, linked : BOOLEAN]

WR == {"rpush", "rlink", "rparked"}
WW == {"wpush", "wlink", "wparked"}

(* A queue holds every fiber that is being suspended in it once, and an    *)
(* entry can be popped exactly when its fiber is parked.                   *)
Agrees(q, p, link, parked) ==
  /\ q \in Seq(Entry)
  /\ \A k \in 1 .. Len(q) : p[q[k].fiber] = IF q[k].linked THEN parked ELSE link
  /\ \A j, k \in 1 .. Len(q) : q[j].fiber = q[k].fiber => j = k

QueuesInv ==
  /\ Agrees(read_waiters, pc, "rlink", "rparked")
  /\ Agrees(write_waiters, pc, "wlink", "wparked")

(* A fiber that hands the lock over has somebody to wake, and a single one *)
(* if it is a writer.                                                      *)
WakersInv ==
  \A f \in Fibers : /\ pc[f] = "rwake" => count[f] > 0
                    /\ pc[f] = "wwake" => count[f] = 1

RwlockInv == QueuesInv /\ WakersInv /\ WordInv /\ NobodyWaitsForFreeLock

-----------------------------------------------------------------------------
(* Counting fibers.                                                        *)

Num(p, S) == Cardinality({f \in Fibers : p[f] \in S})

One(place, S) == IF place \in S THEN 1 ELSE 0

(* The counts are numbers, and a fiber elsewhere is not counted.           *)
LEMMA NumType ==
  ASSUME NEW p, NEW S
  PROVE  /\ Num(p, S) \in Nat /\ IsFiniteSet({f \in Fibers : p[f] \in S})
         /\ Cardinality(Fibers) \in Nat
         /\ \A f \in Fibers : p[f] \notin S => Num(p, S) + 1 <= Cardinality(Fibers)
<1>. DEFINE A == {f \in Fibers : p[f] \in S}
<1>1. IsFiniteSet(Fibers) /\ Cardinality(Fibers) \in Nat
  BY RwlockAssumption, FS_CardinalityType, Zenon
<1>2. IsFiniteSet(A) /\ Cardinality(A) \in Nat
  BY <1>1, FS_Subset, FS_CardinalityType, Zenon
<1>3. ASSUME NEW f \in Fibers, f \notin A PROVE Cardinality(A) + 1 <= Cardinality(Fibers)
  <2>1. IsFiniteSet(A \cup {f}) /\ Cardinality(A \cup {f}) = Cardinality(A) + 1
    BY <1>2, <1>3, FS_AddElement, Zenon
  <2>2. A \cup {f} \subseteq Fibers
    BY Zenon
  <2>. QED
    BY <1>1, <2>1, <2>2, FS_Subset
<1>. QED
  BY <1>1, <1>2, <1>3, Zenon DEF Num

(* Nobody is counted exactly when nobody is there.                         *)
LEMMA NumZero ==
  ASSUME NEW p, NEW S
  PROVE  Num(p, S) = 0 <=> \A f \in Fibers : p[f] \notin S
<1>. DEFINE A == {f \in Fibers : p[f] \in S}
<1>1. IsFiniteSet(A)
  BY NumType, Zenon
<1>2. Cardinality(A) = 0 <=> A = {}
  BY <1>1, FS_EmptySet, Zenon
<1>. QED
  BY <1>2, Zenon DEF Num

(* p and np differ at most in where f is.                                  *)
OnlyAt(p, np, f) == \A g \in Fibers \ {f} : np[g] = p[g]

(* A fiber that moves leaves the count of its old place and enters that of *)
(* its new one.                                                            *)
LEMMA NumMove ==
  ASSUME NEW p, NEW np, NEW f \in Fibers, NEW S, OnlyAt(p, np, f)
  PROVE  Num(np, S) = Num(p, S) + One(np[f], S) - One(p[f], S)
<1>. DEFINE A == {g \in Fibers : p[g] \in S}
            B == {g \in Fibers : np[g] \in S}
            m == Num(p, S)
            n == Num(np, S)
<1>1. /\ IsFiniteSet(A) /\ Cardinality(A) \in Nat
      /\ m = Cardinality(A) /\ n = Cardinality(B)
  BY NumType, Zenon DEF Num
<1>2. /\ np[f] \in S /\ p[f] \notin S => B = A \cup {f} /\ f \notin A
      /\ np[f] \notin S /\ p[f] \in S => B = A \ {f} /\ f \in A
      /\ (np[f] \in S <=> p[f] \in S) => B = A
  BY DEF OnlyAt
<1>. SUFFICES n = m + (IF np[f] \in S THEN 1 ELSE 0) - (IF p[f] \in S THEN 1 ELSE 0)
  BY Zenon DEF One
<1>. HIDE DEF A, B, m, n
<1>3. CASE np[f] \in S /\ p[f] \notin S
  <2>1. Cardinality(A \cup {f}) = Cardinality(A) + 1
    BY <1>1, <1>2, <1>3, FS_AddElement, Zenon
  <2>2. n = m + 1
    BY <1>1, <1>2, <1>3, <2>1, Zenon
  <2>. QED
    BY ONLY <1>1, <1>3, <2>2
<1>4. CASE np[f] \notin S /\ p[f] \in S
  <2>1. Cardinality(A \ {f}) = Cardinality(A) - 1
    BY <1>1, <1>2, <1>4, FS_RemoveElement, Zenon
  <2>2. n = m - 1
    BY <1>1, <1>2, <1>4, <2>1, Zenon
  <2>. QED
    BY ONLY <1>1, <1>4, <2>2
<1>5. CASE np[f] \in S <=> p[f] \in S
  BY <1>1, <1>2, <1>5
<1>. QED
  BY <1>3, <1>4, <1>5, Zenon

(* Fibers in two groups of places.                                         *)
LEMMA NumTwo ==
  ASSUME NEW p, NEW S, NEW T, S \cap T = {}, NEW f \in Fibers, p[f] \notin S \cup T
  PROVE  Num(p, S) + Num(p, T) + 1 <= Cardinality(Fibers)
<1>. DEFINE A == {g \in Fibers : p[g] \in S}
            B == {g \in Fibers : p[g] \in T}
            C == {g \in Fibers : p[g] \in S \cup T}
<1>1. IsFiniteSet(A) /\ IsFiniteSet(B) /\ C = A \cup B /\ A \cap B = {}
  BY NumType, Zenon
<1>2. Cardinality(C) = Cardinality(A) + Cardinality(B) - Cardinality(A \cap B)
  BY <1>1, FS_Union, Zenon
<1>3. Cardinality(A \cap B) = 0 /\ Cardinality(A) \in Nat /\ Cardinality(B) \in Nat
  BY <1>1, FS_EmptySet, FS_CardinalityType, Zenon
<1>4. Num(p, S \cup T) + 1 <= Cardinality(Fibers)
  BY NumType, Zenon
<1>. QED
  BY <1>2, <1>3, <1>4 DEF Num

(* One fiber only.                                                         *)
LEMMA NumOne ==
  ASSUME NEW p, NEW S, NEW f \in Fibers, p[f] \in S, Num(p, S) = 1
  PROVE  \A g \in Fibers : p[g] \in S => g = f
<1>. DEFINE A == {g \in Fibers : p[g] \in S}
<1>1. IsFiniteSet(A) /\ Cardinality(A) = 1 /\ f \in A
  BY NumType, Zenon DEF Num
<1>. HIDE DEF A
<1>2. IsFiniteSet(A \ {f}) /\ Cardinality(A \ {f}) = 0
  BY <1>1, FS_RemoveElement, SMTT(30)
<1>3. A \ {f} = {}
  BY <1>2, FS_EmptySet, Zenon
<1>. QED
  BY <1>3, Zenon DEF A

-----------------------------------------------------------------------------
(* What a waker still owes.                                                *)

Owe(p, c, place) == IF \E f \in Fibers : p[f] = place
                    THEN c[CHOOSE f \in Fibers : p[f] = place] ELSE 0

(* With one fiber at the place at most, it is that fiber's count.          *)
LEMMA OweIs ==
  ASSUME NEW p, NEW c, NEW place
  PROVE  /\ (\A f \in Fibers : p[f] # place) => Owe(p, c, place) = 0
         /\ \A f \in Fibers : p[f] = place /\ (\A g \in Fibers : p[g] = place => g = f)
              => Owe(p, c, place) = c[f]
<1>1. ASSUME NEW f \in Fibers, p[f] = place, \A g \in Fibers : p[g] = place => g = f
      PROVE  Owe(p, c, place) = c[f]
  <2>1. (CHOOSE g \in Fibers : p[g] = place) = f
    BY <1>1, Zenon
  <2>. QED
    BY <1>1, <2>1, Zenon DEF Owe
<1>. QED
  BY <1>1, Zenon DEF Owe

(* A step that leaves the wakers alone leaves what they owe.               *)
LEMMA OweKept ==
  ASSUME NEW p, NEW c, NEW p2, NEW c2, NEW place,
         \A f \in Fibers : p[f] = place <=> p2[f] = place,
         \A f, g \in Fibers : p[f] = place /\ p[g] = place => f = g,
         \A f \in Fibers : p[f] = place => c2[f] = c[f]
  PROVE  Owe(p2, c2, place) = Owe(p, c, place)
<1>1. CASE \A f \in Fibers : p[f] # place
  BY <1>1, OweIs
<1>2. ASSUME NEW f \in Fibers, p[f] = place PROVE Owe(p2, c2, place) = Owe(p, c, place)
  <2>1. Owe(p, c, place) = c[f]
    BY <1>2, OweIs
  <2>2. Owe(p2, c2, place) = c2[f]
    BY <1>2, OweIs
  <2>. QED
    BY <1>2, <2>1, <2>2, Zenon
<1>. QED
  BY <1>1, <1>2, Zenon

-----------------------------------------------------------------------------
(* The queues.                                                             *)

(* Entries belong to fibers.                                               *)
LEMMA AgreesTypes ==
  ASSUME NEW q, NEW p, NEW link, NEW parked, Agrees(q, p, link, parked)
  PROVE  \A k \in 1 .. Len(q) : /\ q[k].fiber \in Fibers
                               /\ p[q[k].fiber] \in {link, parked}
<1>1. \A k \in 1 .. Len(q) : q[k] \in Entry
  BY DEF Agrees
<1>2. \A k \in 1 .. Len(q) : p[q[k].fiber] \in {link, parked}
  BY Zenon DEF Agrees
<1>. QED
  BY <1>1, <1>2, Zenon DEF Entry

(* Fibers that are not in a queue may move.                                *)
LEMMA AgreesAside ==
  ASSUME NEW q, NEW p, NEW p2, NEW link, NEW parked, Agrees(q, p, link, parked),
         \A f \in Fibers : p[f] \in {link, parked} => p2[f] = p[f]
  PROVE  Agrees(q, p2, link, parked)
<1>1. \A k \in 1 .. Len(q) : p2[q[k].fiber] = p[q[k].fiber]
  BY AgreesTypes, Zenon
<1>2. \A k \in 1 .. Len(q) : p2[q[k].fiber] = IF q[k].linked THEN parked ELSE link
  BY <1>1, Zenon DEF Agrees
<1>. QED
  BY <1>2, Zenon DEF Agrees

(* mpsc_fifo_push takes its place.                                         *)
LEMMA AgreesPush ==
  ASSUME NEW q, NEW p \in [Fibers -> Places], NEW link \in Places, NEW parked,
         Agrees(q, p, link, parked), NEW f \in Fibers, p[f] \notin {link, parked}
  PROVE  Agrees(Pushed(q, f), [p EXCEPT ![f] = link], link, parked)
<1>. DEFINE q2 == Pushed(q, f)
            p2 == [p EXCEPT ![f] = link]
<1>1. /\ q2 \in Seq(Entry) /\ Len(q2) = Len(q) + 1 /\ Len(q) \in Nat
      /\ \A k \in 1 .. Len(q) : q2[k] = q[k]
      /\ q2[Len(q) + 1] = [fiber |-> f, linked |-> FALSE]
  BY DEF Pushed, Agrees, Entry
<1>2. \A k \in 1 .. Len(q) : q[k].fiber # f /\ p2[q[k].fiber] = p[q[k].fiber]
  BY AgreesTypes
<1>3. p2[f] = link
  BY Zenon
<1>. HIDE DEF q2, p2
<1>4. \A k \in 1 .. Len(q2) : p2[q2[k].fiber] = IF q2[k].linked THEN parked ELSE link
  <2>1. \A k \in 1 .. Len(q) : p2[q2[k].fiber] = IF q2[k].linked THEN parked ELSE link
    BY <1>1, <1>2, ZenonT(30) DEF Agrees
  <2>2. q2[Len(q2)].fiber = f /\ ~q2[Len(q2)].linked
    BY <1>1
  <2>. QED
    BY <1>1, <1>3, <2>1, <2>2
<1>5. \A j, k \in 1 .. Len(q2) : q2[j].fiber = q2[k].fiber => j = k
  BY <1>1, <1>2 DEF Agrees
<1>6. Agrees(q2, p2, link, parked)
  BY <1>1, <1>4, <1>5, Zenon DEF Agrees
<1>. QED
  BY <1>6, Zenon DEF q2, p2

(* It links its node.                                                      *)
LEMMA AgreesLink ==
  ASSUME NEW q, NEW p \in [Fibers -> Places], NEW link, NEW parked \in Places, link # parked,
         Agrees(q, p, link, parked), NEW f \in Fibers, p[f] = link
  PROVE  Agrees(Linked(q, f), [p EXCEPT ![f] = parked], link, parked)
<1>. DEFINE q2 == Linked(q, f)
            p2 == [p EXCEPT ![f] = parked]
<1>1. /\ Len(q) \in Nat /\ DOMAIN q = 1 .. Len(q)
      /\ \A k \in 1 .. Len(q) : q[k] \in Entry
  BY DEF Agrees
<1>2. \A k \in 1 .. Len(q) :
        /\ q2[k] \in Entry /\ q2[k].fiber = q[k].fiber
        /\ q2[k].linked = (q[k].linked \/ q[k].fiber = f)
  BY <1>1, Zenon DEF Linked, Entry
<1>3. q2 \in [1 .. Len(q) -> Entry]
  BY <1>1, <1>2, Zenon DEF Linked
<1>4. q2 \in Seq(Entry) /\ Len(q2) = Len(q)
  BY <1>1, <1>3
<1>5. \A k \in 1 .. Len(q2) : p2[q2[k].fiber] = IF q2[k].linked THEN parked ELSE link
  BY <1>1, <1>2, <1>4, Zenon DEF Agrees, Entry
<1>. HIDE DEF q2, p2
<1>6. Agrees(q2, p2, link, parked)
  BY <1>2, <1>4, <1>5, Zenon DEF Agrees
<1>. QED
  BY <1>6, Zenon DEF q2, p2

(* mpsc_fifo_trypop takes a fiber that is parked, and the queue agrees     *)
(* with any places given to it and to fibers that are not queued.          *)
LEMMA AgreesPop ==
  ASSUME NEW q, NEW p \in [Fibers -> Places], NEW link, NEW parked,
         Agrees(q, p, link, parked), CanPop(q)
  PROVE  /\ Head(q).fiber \in Fibers /\ p[Head(q).fiber] = parked
         /\ \A p2 : (\A f \in Fibers \ {Head(q).fiber} : p[f] \in {link, parked} => p2[f] = p[f])
                    => Agrees(Rest(q), p2, link, parked)
<1>1. /\ q \in Seq(Entry) /\ Len(q) \in Nat \ {0} /\ Head(q) = q[1] /\ q[1] \in Entry
      /\ q[1].linked
  BY DEF Agrees, CanPop
<1>2. Head(q).fiber \in Fibers /\ p[Head(q).fiber] = parked
  BY <1>1 DEF Agrees, Entry
<1>3. ASSUME NEW p2, \A f \in Fibers \ {Head(q).fiber} : p[f] \in {link, parked} => p2[f] = p[f]
      PROVE  Agrees(Rest(q), p2, link, parked)
  <2>. DEFINE q2 == Rest(q)
  <2>1. /\ q2 \in Seq(Entry) /\ Len(q2) = Len(q) - 1
        /\ \A k \in 1 .. Len(q2) : q2[k] = q[k + 1]
    BY <1>1 DEF Rest
  <2>. HIDE DEF q2
  <2>2. \A k \in 1 .. Len(q2) : k + 1 \in 1 .. Len(q) /\ 1 \in 1 .. Len(q) /\ k + 1 # 1
    BY <1>1, <2>1
  <2>3. \A k \in 1 .. Len(q2) : q[k + 1] \in Entry /\ q[k + 1].fiber # q[1].fiber
    BY <1>1, <2>2 DEF Agrees
  <2>4. \A k \in 1 .. Len(q2) : p2[q2[k].fiber] = IF q2[k].linked THEN parked ELSE link
    BY <1>1, <1>3, <2>1, <2>2, <2>3 DEF Agrees, Entry
  <2>5. \A j, k \in 1 .. Len(q2) : q2[j].fiber = q2[k].fiber => j = k
    BY <1>1, <2>1, <2>2, SMTT(30) DEF Agrees
  <2>6. Agrees(q2, p2, link, parked)
    BY <2>1, <2>4, <2>5, Zenon DEF Agrees
  <2>. QED
    BY <2>6, Zenon DEF q2
<1>. QED
  BY <1>2, <1>3, Zenon

-----------------------------------------------------------------------------
(* The word.                                                               *)

WordType == [write_locked : 0 .. 1, reader_count : 0 .. Counters - 1,
             waiting_readers : 0 .. Counters - 1, waiting_writers : 0 .. Counters - 1]

(* WordInv, without types, and NobodyWaitsForFreeLock, of a word s and     *)
(* fibers at the places p with the counts c.                               *)
Word(s, p, c) ==
  /\ \A f, g \in Fibers : p[f] \in {"rwake", "wwake"} /\ p[g] \in {"rwake", "wwake"} => f = g
  /\ s.reader_count = Num(p, {"reading"}) + Owe(p, c, "rwake")
  /\ s.write_locked = Num(p, {"writing"}) + Owe(p, c, "wwake")
  /\ s.waiting_readers + Owe(p, c, "rwake") = Num(p, WR)
  /\ s.waiting_writers + Owe(p, c, "wwake") = Num(p, WW)
  /\ s.write_locked # 0 => s.reader_count = 0
  /\ Num(p, WR) # 0 \/ Num(p, WW) # 0 => s.write_locked # 0 \/ s.reader_count # 0

Types ==
  /\ state \in WordType
  /\ pc \in [Fibers -> Places]
  /\ count \in [Fibers -> Nat]

(* The two forms of the invariant.                                         *)
LEMMA Forms ==
  /\ RwlockInv => Types /\ QueuesInv /\ WakersInv /\ Word(state, pc, count)
  /\ Types /\ QueuesInv /\ WakersInv /\ Word(state, pc, count) => RwlockInv
<1>1. WordInv <=> /\ TypeOK
                  /\ \A f, g \in Wakers : f = g
                  /\ state.reader_count = Num(pc, {"reading"}) + Owe(pc, count, "rwake")
                  /\ state.write_locked = Num(pc, {"writing"}) + Owe(pc, count, "wwake")
                  /\ state.waiting_readers + Owe(pc, count, "rwake") = Num(pc, WR)
                  /\ state.waiting_writers + Owe(pc, count, "wwake") = Num(pc, WW)
                  /\ state.write_locked # 0 => state.reader_count = 0
  BY Zenon DEF WordInv, Readers, Writers, WaitingReaders, WaitingWriters, In, Num, Owed, Owe, WR, WW
<1>2. NobodyWaitsForFreeLock <=>
        (Num(pc, WR) # 0 \/ Num(pc, WW) # 0 => state.write_locked # 0 \/ state.reader_count # 0)
  <2>1. Num(pc, WR) = 0 <=> WaitingReaders = {}
    BY NumZero, Zenon DEF WaitingReaders, In, WR
  <2>2. Num(pc, WW) = 0 <=> WaitingWriters = {}
    BY NumZero, Zenon DEF WaitingWriters, In, WW
  <2>. QED
    BY <2>1, <2>2, Zenon DEF NobodyWaitsForFreeLock
<1>3. (\A f, g \in Wakers : f = g) <=>
      \A f, g \in Fibers : pc[f] \in {"rwake", "wwake"} /\ pc[g] \in {"rwake", "wwake"} => f = g
  BY Zenon DEF Wakers, In
<1>4. TypeOK => Types
  BY Zenon DEF TypeOK, Types, WordType, Places
<1>5. Types /\ QueuesInv => TypeOK
  <2>1. QueuesInv => \A q \in {read_waiters, write_waiters} : q \in Seq(Entry)
    BY Zenon DEF QueuesInv, Agrees
  <2>. QED
    BY <2>1, Zenon DEF TypeOK, Types, WordType, Places, Entry
<1>. QED
  BY <1>1, <1>2, <1>3, <1>4, <1>5, Zenon DEF RwlockInv, Word

(* What is owed is owed by somebody.                                       *)
LEMMA Owing ==
  ASSUME Types, WakersInv, Word(state, pc, count)
  PROVE  /\ Owe(pc, count, "rwake") \in Nat
         /\ Owe(pc, count, "rwake") = 0 <=> \A f \in Fibers : pc[f] # "rwake"
         /\ Owe(pc, count, "wwake") \in 0 .. 1
         /\ Owe(pc, count, "wwake") = 0 <=> \A f \in Fibers : pc[f] # "wwake"
<1>1. \A place \in {"rwake", "wwake"} : \A f \in Fibers :
        pc[f] = place => Owe(pc, count, place) = count[f]
  BY OweIs DEF Word
<1>2. \A place \in {"rwake", "wwake"} :
        (\A f \in Fibers : pc[f] # place) => Owe(pc, count, place) = 0
  BY OweIs, Zenon
<1>3. \A f \in Fibers : /\ count[f] \in Nat
                        /\ pc[f] = "rwake" => count[f] > 0
                        /\ pc[f] = "wwake" => count[f] = 1
  BY Zenon DEF Types, WakersInv
<1>. QED
  BY <1>1, <1>2, <1>3

(* A step that moves one fiber.                                            *)
LEMMA Moved ==
  ASSUME Types, NEW f \in Fibers, NEW b \in Places, pc' = [pc EXCEPT ![f] = b]
  PROVE  /\ pc' \in [Fibers -> Places] /\ pc'[f] = b
         /\ \A g \in Fibers \ {f} : pc'[g] = pc[g]
BY Zenon DEF Types

(* It shifts each count the word keeps.                                    *)
Shift(p, np, f) ==
  /\ Num(np, {"reading"}) = Num(p, {"reading"}) +
       (IF np[f] = "reading" THEN 1 ELSE 0) - (IF p[f] = "reading" THEN 1 ELSE 0)
  /\ Num(np, {"writing"}) = Num(p, {"writing"}) +
       (IF np[f] = "writing" THEN 1 ELSE 0) - (IF p[f] = "writing" THEN 1 ELSE 0)
  /\ Num(np, WR) = Num(p, WR) +
       (IF np[f] \in {"rpush", "rlink", "rparked"} THEN 1 ELSE 0) -
       (IF p[f] \in {"rpush", "rlink", "rparked"} THEN 1 ELSE 0)
  /\ Num(np, WW) = Num(p, WW) +
       (IF np[f] \in {"wpush", "wlink", "wparked"} THEN 1 ELSE 0) -
       (IF p[f] \in {"wpush", "wlink", "wparked"} THEN 1 ELSE 0)
  /\ Num(p, {"reading"}) \in Nat /\ Num(p, {"writing"}) \in Nat
  /\ Num(p, WR) \in Nat /\ Num(p, WW) \in Nat

LEMMA Counted ==
  ASSUME NEW p, NEW np, NEW f \in Fibers, \A g \in Fibers \ {f} : np[g] = p[g]
  PROVE  Shift(p, np, f)
<1>1. \A x : /\ One(x, {"reading"}) = IF x = "reading" THEN 1 ELSE 0
             /\ One(x, {"writing"}) = IF x = "writing" THEN 1 ELSE 0
             /\ One(x, WR) = IF x \in {"rpush", "rlink", "rparked"} THEN 1 ELSE 0
             /\ One(x, WW) = IF x \in {"wpush", "wlink", "wparked"} THEN 1 ELSE 0
  BY Zenon DEF One, WR, WW
<1>2. ASSUME NEW S
      PROVE  Num(p, S) \in Nat /\ Num(np, S) = Num(p, S) + One(np[f], S) - One(p[f], S)
  <2>1. Num(p, S) \in Nat
    BY NumType, Zenon
  <2>2. Num(np, S) = Num(p, S) + One(np[f], S) - One(p[f], S)
    <3>1. OnlyAt(p, np, f)
      BY Zenon DEF OnlyAt
    <3>. QED
      BY ONLY <3>1, f \in Fibers, NumMove, ZenonT(30)
  <2>. QED
    BY <2>1, <2>2, Zenon
<1>3. /\ Num(np, {"reading"}) = Num(p, {"reading"}) + One(np[f], {"reading"}) - One(p[f], {"reading"})
      /\ Num(np, {"writing"}) = Num(p, {"writing"}) + One(np[f], {"writing"}) - One(p[f], {"writing"})
      /\ Num(np, WR) = Num(p, WR) + One(np[f], WR) - One(p[f], WR)
      /\ Num(np, WW) = Num(p, WW) + One(np[f], WW) - One(p[f], WW)
  BY <1>2, Zenon
<1>4. /\ Num(p, {"reading"}) \in Nat /\ Num(p, {"writing"}) \in Nat
      /\ Num(p, WR) \in Nat /\ Num(p, WW) \in Nat
  BY <1>2, Zenon
<1>. QED
  BY <1>1, <1>3, <1>4, Zenon DEF Shift

(* A step of a fiber that does not wake others, before or after it.        *)
LEMMA QuietStep ==
  ASSUME Types, WakersInv, Word(state, pc, count),
         NEW f \in Fibers, NEW b \in Places \ {"rwake", "wwake"},
         pc' = [pc EXCEPT ![f] = b], pc[f] \notin {"rwake", "wwake"}, UNCHANGED count
  PROVE  /\ WakersInv'
         /\ \A h, g \in Fibers :
              pc'[h] \in {"rwake", "wwake"} /\ pc'[g] \in {"rwake", "wwake"} => h = g
         /\ Owe(pc', count', "rwake") = Owe(pc, count, "rwake")
         /\ Owe(pc', count', "wwake") = Owe(pc, count, "wwake")
<1>1. \A g \in Fibers : \A place \in {"rwake", "wwake"} : pc[g] = place <=> pc'[g] = place
  BY Moved, Zenon
<1>2. WakersInv'
  BY <1>1, Zenon DEF WakersInv
<1>3. \A place \in {"rwake", "wwake"} :
        /\ \A h, g \in Fibers : pc[h] = place /\ pc[g] = place => h = g
        /\ \A g \in Fibers : count'[g] = count[g]
  BY Zenon DEF Word
<1>4. ASSUME NEW place \in {"rwake", "wwake"}
      PROVE  Owe(pc', count', place) = Owe(pc, count, place)
  <2>1. \A g \in Fibers : pc[g] = place <=> pc'[g] = place
    BY <1>1, Zenon
  <2>2. /\ \A h, g \in Fibers : pc[h] = place /\ pc[g] = place => h = g
        /\ \A g \in Fibers : pc[g] = place => count'[g] = count[g]
    BY <1>3, Zenon
  <2>. QED
    BY ONLY <2>1, <2>2, OweKept
<1>. QED
  BY <1>1, <1>2, <1>4, Zenon DEF Word

-----------------------------------------------------------------------------
(* One lemma for each group of actions.                                    *)

Good == Types /\ WakersInv /\ Word(state, pc, count)

(* The counters are below the number of fibers, and a fiber that enters    *)
(* does not make one overflow.                                             *)
LEMMA NoOverflow ==
  ASSUME Good, NEW f \in Fibers, pc[f] = "run"
  PROVE  /\ Plus(state.reader_count) = state.reader_count + 1
         /\ Plus(state.waiting_readers) = state.waiting_readers + 1
         /\ Plus(state.waiting_writers) = state.waiting_writers + 1
         /\ state.reader_count + 1 \in 0 .. Counters - 1
         /\ state.waiting_readers + 1 \in 0 .. Counters - 1
         /\ state.waiting_writers + 1 \in 0 .. Counters - 1
<1>1. /\ Num(pc, {"reading"}) + Num(pc, WR) + 1 <= Cardinality(Fibers)
      /\ Num(pc, WW) + 1 <= Cardinality(Fibers)
  <2>1. {"reading"} \cap WR = {} /\ pc[f] \notin {"reading"} \cup WR /\ pc[f] \notin WW
    BY Zenon DEF WR, WW
  <2>. QED
    BY <2>1, NumTwo, NumType, Zenon
<1>2. /\ Num(pc, {"reading"}) \in Nat /\ Num(pc, WR) \in Nat /\ Num(pc, WW) \in Nat
      /\ Cardinality(Fibers) \in Nat
  BY NumType, Zenon
<1>3. Owe(pc, count, "rwake") \in Nat /\ Owe(pc, count, "wwake") \in Nat
  BY Owing DEF Good
<1>4. /\ state.reader_count \in Nat /\ state.waiting_readers \in Nat
      /\ state.waiting_writers \in Nat
  BY RwlockAssumption DEF Good, Types, WordType
<1>5. /\ state.reader_count = Num(pc, {"reading"}) + Owe(pc, count, "rwake")
      /\ state.waiting_readers + Owe(pc, count, "rwake") = Num(pc, WR)
      /\ state.waiting_writers + Owe(pc, count, "wwake") = Num(pc, WW)
  BY Zenon DEF Good, Word
<1>6. /\ state.reader_count + 1 < Counters /\ state.waiting_readers + 1 < Counters
      /\ state.waiting_writers + 1 < Counters
  BY <1>1, <1>2, <1>3, <1>4, <1>5, RwlockAssumption
<1>7. ASSUME NEW n \in Nat, n + 1 < Counters
      PROVE  Plus(n) = n + 1 /\ n + 1 \in 0 .. Counters - 1
  BY <1>7, RwlockAssumption DEF Plus
<1>. QED
  BY <1>4, <1>6, <1>7, Zenon

(* A fiber enters as a reader.                                             *)
LEMMA ReaderEnters ==
  ASSUME Good, NEW f \in Fibers, pc[f] = "run", UNCHANGED count, ~Crowded,
         state' = [state EXCEPT !.reader_count = Plus(@)], pc' = [pc EXCEPT ![f] = "reading"]
  PROVE  Good'
<1>. USE DEF Good
<1>1. /\ state' \in WordType /\ state'.reader_count = state.reader_count + 1
      /\ state'.write_locked = state.write_locked
      /\ state'.waiting_readers = state.waiting_readers
      /\ state'.waiting_writers = state.waiting_writers
      /\ state.write_locked = 0 /\ state.reader_count \in Nat
  BY NoOverflow, SMTT(30) DEF Types, WordType, Crowded
<1>b. pc'[f] = "reading" /\ \A g \in Fibers \ {f} : pc'[g] = pc[g]
  BY Moved, Zenon DEF Places
<1>c. Shift(pc, pc', f)
  BY <1>b, Counted, Zenon
<1>2. /\ Num(pc', {"reading"}) = Num(pc, {"reading"}) + 1
      /\ Num(pc', {"writing"}) = Num(pc, {"writing"})
      /\ Num(pc', WR) = Num(pc, WR) /\ Num(pc', WW) = Num(pc, WW)
      /\ Num(pc, {"reading"}) \in Nat
  BY ONLY <1>b, <1>c, pc[f] = "run" DEF Shift
<1>3. /\ WakersInv' /\ \A h, g \in Fibers :
           pc'[h] \in {"rwake", "wwake"} /\ pc'[g] \in {"rwake", "wwake"} => h = g
      /\ Owe(pc', count', "rwake") = Owe(pc, count, "rwake")
      /\ Owe(pc', count', "wwake") = Owe(pc, count, "wwake")
  BY QuietStep, ZenonT(30) DEF Places
<1>4. Owe(pc, count, "rwake") \in Nat
  BY Owing, Zenon
<1>5. Word(state', pc', count')
  BY <1>1, <1>2, <1>3, <1>4, SMTT(30) DEF Word
<1>6. Types'
  BY <1>1, Moved, Zenon DEF Types, Places
<1>. QED
  BY <1>3, <1>5, <1>6, Zenon

(* A fiber enters as the writer.                                           *)
LEMMA WriterEnters ==
  ASSUME Good, NEW f \in Fibers, pc[f] = "run", UNCHANGED count, ~Taken,
         state' = [state EXCEPT !.write_locked = 1], pc' = [pc EXCEPT ![f] = "writing"]
  PROVE  Good'
<1>. USE DEF Good
<1>1. /\ state' \in WordType /\ state'.write_locked = 1
      /\ state'.reader_count = 0 /\ state'.waiting_readers = 0 /\ state'.waiting_writers = 0
      /\ state.write_locked = 0
      /\ state.reader_count = 0 /\ state.waiting_readers = 0 /\ state.waiting_writers = 0
  BY SMTT(30) DEF Types, WordType, Taken, Free
<1>b. pc'[f] = "writing" /\ \A g \in Fibers \ {f} : pc'[g] = pc[g]
  BY Moved, Zenon DEF Places
<1>c. Shift(pc, pc', f)
  BY <1>b, Counted, Zenon
<1>2. /\ Num(pc', {"writing"}) = Num(pc, {"writing"}) + 1
      /\ Num(pc', {"reading"}) = Num(pc, {"reading"})
      /\ Num(pc', WR) = Num(pc, WR) /\ Num(pc', WW) = Num(pc, WW)
      /\ Num(pc, {"writing"}) \in Nat
  BY ONLY <1>b, <1>c, pc[f] = "run" DEF Shift
<1>3. /\ WakersInv' /\ \A h, g \in Fibers :
           pc'[h] \in {"rwake", "wwake"} /\ pc'[g] \in {"rwake", "wwake"} => h = g
      /\ Owe(pc', count', "rwake") = Owe(pc, count, "rwake")
      /\ Owe(pc', count', "wwake") = Owe(pc, count, "wwake")
  BY QuietStep, Zenon DEF Places
<1>4. Owe(pc, count, "wwake") \in Nat
  BY Owing
<1>5. Word(state', pc', count')
  <2>1. /\ 0 = Num(pc, {"reading"}) + Owe(pc, count, "rwake")
        /\ 0 = Num(pc, {"writing"}) + Owe(pc, count, "wwake")
        /\ 0 + Owe(pc, count, "rwake") = Num(pc, WR)
        /\ 0 + Owe(pc, count, "wwake") = Num(pc, WW)
    BY <1>1, Zenon DEF Word
  <2>2. 1 = Num(pc', {"writing"}) + Owe(pc', count', "wwake")
    BY <2>1, <1>2, <1>3, <1>4, SMTT(30)
  <2>. QED
    BY <1>1, <1>2, <1>3, <2>1, <2>2, Zenon DEF Word
<1>6. Types'
  BY <1>1, Moved, Zenon DEF Types, Places
<1>. QED
  BY <1>3, <1>5, <1>6, Zenon

(* Whoever finds the lock crowded or taken finds it held.                  *)
LEMMA HeldWhenCrowded ==
  ASSUME Good, Crowded \/ Taken
  PROVE  state.write_locked # 0 \/ state.reader_count # 0
<1>. USE DEF Good
<1>1. state.write_locked # 0 \/ state.reader_count # 0 \/ state.waiting_readers # 0
        \/ state.waiting_writers # 0
  BY Zenon DEF Crowded, Taken, Free, Types, WordType
<1>2. /\ Owe(pc, count, "rwake") \in Nat /\ Owe(pc, count, "wwake") \in Nat
      /\ state.waiting_readers \in Nat /\ state.waiting_writers \in Nat
  BY Owing, RwlockAssumption DEF Types, WordType
<1>3. /\ state.waiting_readers # 0 => Num(pc, WR) # 0
      /\ state.waiting_writers # 0 => Num(pc, WW) # 0
  BY <1>2 DEF Word
<1>. QED
  BY <1>1, <1>3, Zenon DEF Word

(* A fiber announces that it waits.                                        *)
LEMMA WaiterEnters ==
  ASSUME Good, NEW f \in Fibers, pc[f] = "run", UNCHANGED count,
         \/ /\ Crowded /\ state' = [state EXCEPT !.waiting_readers = Plus(@)]
            /\ pc' = [pc EXCEPT ![f] = "rpush"]
         \/ /\ Taken /\ state' = [state EXCEPT !.waiting_writers = Plus(@)]
            /\ pc' = [pc EXCEPT ![f] = "wpush"]
  PROVE  Good'
<1>. USE DEF Good
<1>0. state.write_locked # 0 \/ state.reader_count # 0
  BY HeldWhenCrowded, Zenon
<1>3. /\ WakersInv' /\ \A h, g \in Fibers :
           pc'[h] \in {"rwake", "wwake"} /\ pc'[g] \in {"rwake", "wwake"} => h = g
      /\ Owe(pc', count', "rwake") = Owe(pc, count, "rwake")
      /\ Owe(pc', count', "wwake") = Owe(pc, count, "wwake")
  BY QuietStep, ZenonT(30) DEF Places
<1>4. /\ Owe(pc, count, "rwake") \in Nat /\ Owe(pc, count, "wwake") \in Nat
      /\ state.waiting_readers \in Nat /\ state.waiting_writers \in Nat
  BY Owing, RwlockAssumption, SMTT(30) DEF Types, WordType
<1>1. CASE Crowded /\ state' = [state EXCEPT !.waiting_readers = Plus(@)]
           /\ pc' = [pc EXCEPT ![f] = "rpush"]
  <2>1. /\ state' \in WordType /\ state'.waiting_readers = state.waiting_readers + 1
        /\ state'.reader_count = state.reader_count /\ state'.write_locked = state.write_locked
        /\ state'.waiting_writers = state.waiting_writers
    BY <1>1, NoOverflow, SMTT(30) DEF Types, WordType
  <2>b. pc'[f] = "rpush" /\ \A g \in Fibers \ {f} : pc'[g] = pc[g]
    BY <1>1, Moved, Zenon DEF Places
  <2>c. Shift(pc, pc', f)
    BY <2>b, Counted, Zenon
  <2>2. /\ Num(pc', WR) = Num(pc, WR) + 1 /\ Num(pc, WR) \in Nat
        /\ Num(pc', {"reading"}) = Num(pc, {"reading"})
        /\ Num(pc', {"writing"}) = Num(pc, {"writing"}) /\ Num(pc', WW) = Num(pc, WW)
    BY ONLY <2>b, <2>c, pc[f] = "run" DEF Shift
  <2>3. Word(state', pc', count')
    BY <1>0, <1>3, <1>4, <2>1, <2>2, SMTT(30) DEF Word
  <2>. QED
    BY <1>1, <1>3, <2>1, <2>3, Moved, Zenon DEF Types, Places
<1>2. CASE Taken /\ state' = [state EXCEPT !.waiting_writers = Plus(@)]
           /\ pc' = [pc EXCEPT ![f] = "wpush"]
  <2>1. /\ state' \in WordType /\ state'.waiting_writers = state.waiting_writers + 1
        /\ state'.reader_count = state.reader_count /\ state'.write_locked = state.write_locked
        /\ state'.waiting_readers = state.waiting_readers
    BY <1>2, NoOverflow, SMTT(30) DEF Types, WordType
  <2>b. pc'[f] = "wpush" /\ \A g \in Fibers \ {f} : pc'[g] = pc[g]
    BY <1>2, Moved, Zenon DEF Places
  <2>c. Shift(pc, pc', f)
    BY <2>b, Counted, Zenon
  <2>2. /\ Num(pc', WW) = Num(pc, WW) + 1 /\ Num(pc, WW) \in Nat
        /\ Num(pc', {"reading"}) = Num(pc, {"reading"})
        /\ Num(pc', {"writing"}) = Num(pc, {"writing"}) /\ Num(pc', WR) = Num(pc, WR)
    BY ONLY <2>b, <2>c, pc[f] = "run", SMTT(30) DEF Shift
  <2>3. Word(state', pc', count')
    BY <1>0, <1>3, <1>4, <2>1, <2>2 DEF Word
  <2>. QED
    BY <1>2, <1>3, <2>1, <2>3, Moved, Zenon DEF Types, Places
<1>. QED
  BY <1>1, <1>2, Zenon

(* A fiber that waits gets on with it.                                     *)
LEMMA WaiterMoves ==
  ASSUME Good, NEW f \in Fibers, NEW b \in Places, UNCHANGED <<state, count>>,
         pc' = [pc EXCEPT ![f] = b],
         \/ pc[f] \in {"rpush", "rlink", "rparked"} /\ b \in {"rpush", "rlink", "rparked"}
         \/ pc[f] \in {"wpush", "wlink", "wparked"} /\ b \in {"wpush", "wlink", "wparked"}
  PROVE  Good'
<1>. USE DEF Good
<1>1. pc'[f] = b /\ \A g \in Fibers \ {f} : pc'[g] = pc[g]
  BY Moved, Zenon
<1>2. /\ Num(pc', {"reading"}) = Num(pc, {"reading"}) /\ Num(pc', {"writing"}) = Num(pc, {"writing"})
      /\ Num(pc', WR) = Num(pc, WR) /\ Num(pc', WW) = Num(pc, WW)
  <2>1. \/ pc[f] \in {"rpush", "rlink", "rparked"} /\ pc'[f] \in {"rpush", "rlink", "rparked"}
        \/ pc[f] \in {"wpush", "wlink", "wparked"} /\ pc'[f] \in {"wpush", "wlink", "wparked"}
    BY <1>1, Zenon
  <2>2. Shift(pc, pc', f)
    BY <1>1, Counted, Zenon
  <2>. QED
    BY ONLY <2>1, <2>2 DEF Shift
<1>3. /\ WakersInv' /\ \A h, g \in Fibers :
           pc'[h] \in {"rwake", "wwake"} /\ pc'[g] \in {"rwake", "wwake"} => h = g
      /\ Owe(pc', count', "rwake") = Owe(pc, count, "rwake")
      /\ Owe(pc', count', "wwake") = Owe(pc, count, "wwake")
  BY QuietStep, Zenon
<1>4. Word(state', pc', count')
  BY <1>2, <1>3, Zenon DEF Word
<1>. QED
  BY <1>3, <1>4, Moved, Zenon DEF Types

(* A reader that is not the last one leaves.                               *)
LEMMA ReaderLeaves ==
  ASSUME Good, NEW f \in Fibers, pc[f] = "reading", UNCHANGED count,
         state.reader_count > 0, state.reader_count - 1 # 0, state.write_locked = 0,
         state' = [state EXCEPT !.reader_count = @ - 1], pc' = [pc EXCEPT ![f] = "run"]
  PROVE  Good'
<1>. USE DEF Good
<1>1. /\ state' \in WordType /\ state'.reader_count = state.reader_count - 1
      /\ state'.write_locked = 0 /\ state'.waiting_readers = state.waiting_readers
      /\ state'.waiting_writers = state.waiting_writers /\ state.reader_count \in Nat
  BY RwlockAssumption, SMTT(30) DEF Types, WordType
<1>b. pc'[f] = "run" /\ \A g \in Fibers \ {f} : pc'[g] = pc[g]
  BY Moved, Zenon DEF Places
<1>c. Shift(pc, pc', f)
  BY <1>b, Counted, Zenon
<1>2. /\ Num(pc', {"reading"}) = Num(pc, {"reading"}) - 1 /\ Num(pc, {"reading"}) \in Nat
      /\ Num(pc', {"writing"}) = Num(pc, {"writing"})
      /\ Num(pc', WR) = Num(pc, WR) /\ Num(pc', WW) = Num(pc, WW)
  BY ONLY <1>b, <1>c, pc[f] = "reading" DEF Shift
<1>3. /\ WakersInv' /\ \A h, g \in Fibers :
           pc'[h] \in {"rwake", "wwake"} /\ pc'[g] \in {"rwake", "wwake"} => h = g
      /\ Owe(pc', count', "rwake") = Owe(pc, count, "rwake")
      /\ Owe(pc', count', "wwake") = Owe(pc, count, "wwake")
  BY QuietStep, Zenon DEF Places
<1>4. Owe(pc, count, "rwake") \in Nat
  BY Owing, Zenon
<1>5. state'.reader_count = Num(pc', {"reading"}) + Owe(pc', count', "rwake")
  BY <1>1, <1>2, <1>3, <1>4 DEF Word
<1>6. Word(state', pc', count')
  BY <1>1, <1>2, <1>3, <1>5, Zenon DEF Word
<1>. QED
  BY <1>1, <1>3, <1>6, Moved, Zenon DEF Types, Places

(* The last one out hands the lock over.                                   *)
LEMMA HandOverKeeps ==
  ASSUME Good, NEW f \in Fibers, NEW s \in WordType, HandOver(f, s),
         s.write_locked = 0, s.reader_count = 0,
         s.waiting_readers = state.waiting_readers, s.waiting_writers = state.waiting_writers,
         \/ pc[f] = "reading" /\ Num(pc, {"reading"}) = 1 /\ Num(pc, {"writing"}) = 0
         \/ pc[f] = "writing" /\ Num(pc, {"reading"}) = 0 /\ Num(pc, {"writing"}) = 1,
         Owe(pc, count, "rwake") = 0, Owe(pc, count, "wwake") = 0
  PROVE  Good'
<1>. USE DEF Good
<1>1. \A g \in Fibers : pc[g] \notin {"rwake", "wwake"}
  BY Owing, Zenon
<1>2. PICK b \in {"run", "rwake", "wwake"} : pc' = [pc EXCEPT ![f] = b]
  BY SMTT(30) DEF HandOver, GoTo
<1>3. /\ pc' \in [Fibers -> Places] /\ pc'[f] = b
      /\ \A g \in Fibers \ {f} : pc'[g] = pc[g]
  BY <1>2, Moved, Zenon DEF Places
<1>4. /\ Num(pc', {"reading"}) = 0 /\ Num(pc', {"writing"}) = 0
      /\ Num(pc', WR) = s.waiting_readers /\ Num(pc', WW) = s.waiting_writers
  <2>. pc'[f] \in {"run", "rwake", "wwake"}
    BY <1>3, Zenon
  <2>. pc[f] \in {"reading", "writing"}
    BY Zenon
  <2>0. Shift(pc, pc', f)
    BY <1>3, Counted, Zenon
  <2>1. Num(pc', WR) = Num(pc, WR) /\ Num(pc', WW) = Num(pc, WW)
    BY ONLY SMTT(30), <2>0, pc'[f] \in {"run", "rwake", "wwake"},
            pc[f] \in {"reading", "writing"} DEF Shift
  <2>2. /\ Num(pc', {"reading"}) = Num(pc, {"reading"}) - (IF pc[f] = "reading" THEN 1 ELSE 0)
        /\ Num(pc', {"writing"}) = Num(pc, {"writing"}) - (IF pc[f] = "writing" THEN 1 ELSE 0)
    BY ONLY <2>0, pc'[f] \in {"run", "rwake", "wwake"} DEF Shift
  <2>3. /\ s.waiting_readers + 0 = Num(pc, WR) /\ s.waiting_writers + 0 = Num(pc, WW)
        /\ s.waiting_readers \in Nat /\ s.waiting_writers \in Nat
    BY RwlockAssumption DEF Word, WordType
  <2>4. Num(pc', {"reading"}) = 0 /\ Num(pc', {"writing"}) = 0
    BY <2>2
  <2>. QED
    BY <2>1, <2>3, <2>4
<1>5. \A h, g \in Fibers :
        pc'[h] \in {"rwake", "wwake"} /\ pc'[g] \in {"rwake", "wwake"} => h = g
  BY <1>1, <1>3, Zenon
<1>6. /\ s.waiting_readers \in Nat /\ s.waiting_writers \in Nat
      /\ count \in [Fibers -> Nat]
  BY RwlockAssumption DEF WordType, Types
<1>7. CASE WriterNext(s)
  <2>0. state' = ToWriter(s) /\ count' = [count EXCEPT ![f] = 1] /\ GoTo(f, "wwake")
    BY <1>7, Zenon DEF HandOver, ReadersNext
  <2>1. state' = ToWriter(s) /\ count' = [count EXCEPT ![f] = 1] /\ pc'[f] = "wwake"
    BY <2>0, Zenon DEF GoTo, Types
  <2>2. /\ state' \in WordType /\ state'.write_locked = 1 /\ state'.reader_count = 0
        /\ state'.waiting_readers = s.waiting_readers
        /\ state'.waiting_writers = s.waiting_writers - 1
    <3>1. s.waiting_writers - 1 \in 0 .. Counters - 1
      BY <1>6, <1>7, RwlockAssumption DEF WordType, WriterNext
    <3>2. state' = [write_locked |-> 1, reader_count |-> 0,
                    waiting_readers |-> s.waiting_readers,
                    waiting_writers |-> s.waiting_writers - 1]
      BY <2>1, Zenon DEF ToWriter, WordType
    <3>. QED
      BY <3>1, <3>2 DEF WordType
  <2>3. /\ count' \in [Fibers -> Nat] /\ count'[f] = 1
    BY <1>6, <2>1, Zenon
  <2>4. Owe(pc', count', "wwake") = 1 /\ Owe(pc', count', "rwake") = 0
    <3>1. \A g \in Fibers : pc'[g] # "rwake" /\ (pc'[g] = "wwake" => g = f)
      BY <1>1, <1>3, <2>1, Zenon
    <3>2. Owe(pc', count', "rwake") = 0
      BY ONLY <3>1, OweIs, ZenonT(30)
    <3>3. Owe(pc', count', "wwake") = count'[f]
      <4>1. pc'[f] = "wwake" /\ \A g \in Fibers : pc'[g] = "wwake" => g = f
        BY <2>1, <3>1, Zenon
      <4>. QED
        BY ONLY <4>1, f \in Fibers, OweIs
    <3>. QED
      BY <2>3, <3>2, <3>3, Zenon
  <2>5. WakersInv'
    BY <1>1, <1>3, <2>1, <2>3, Zenon DEF WakersInv
  <2>6. Word(state', pc', count')
    BY <1>4, <1>5, <1>6, <2>2, <2>4, SMTT(30) DEF Word
  <2>. QED
    BY <1>3, <2>2, <2>3, <2>5, <2>6, Zenon DEF Types
<1>8. CASE ~WriterNext(s) /\ ReadersNext(s)
  <2>1. /\ state' = ToReaders(s) /\ count' = [count EXCEPT ![f] = s.waiting_readers]
        /\ pc'[f] = "rwake"
    BY <1>2, <1>3, <1>8, Moved, Zenon DEF HandOver, GoTo, Places, Types
  <2>2. /\ state' \in WordType /\ state'.write_locked = 0
        /\ state'.reader_count = s.waiting_readers
        /\ state'.waiting_readers = 0 /\ state'.waiting_writers = 0
        /\ s.waiting_writers = 0 /\ s.waiting_readers # 0
    BY <1>6, <1>8, <2>1, RwlockAssumption, Zenon DEF ToReaders, WordType, WriterNext, ReadersNext
  <2>3. /\ count' \in [Fibers -> Nat] /\ count'[f] = s.waiting_readers
    BY <1>6, <2>1, Zenon
  <2>4. Owe(pc', count', "rwake") = s.waiting_readers /\ Owe(pc', count', "wwake") = 0
    <3>1. \A g \in Fibers : pc'[g] # "wwake" /\ (pc'[g] = "rwake" => g = f)
      BY <1>1, <1>3, <2>1, Zenon
    <3>2. Owe(pc', count', "wwake") = 0
      BY ONLY <3>1, OweIs, ZenonT(30)
    <3>3. Owe(pc', count', "rwake") = count'[f]
      <4>1. pc'[f] = "rwake" /\ \A g \in Fibers : pc'[g] = "rwake" => g = f
        BY <2>1, <3>1, Zenon
      <4>. QED
        BY ONLY <4>1, f \in Fibers, OweIs
    <3>. QED
      BY <2>3, <3>2, <3>3, Zenon
  <2>5. WakersInv'
    BY <1>1, <1>3, <1>6, <2>1, <2>2, <2>3, SMTT(30) DEF WakersInv
  <2>6. Word(state', pc', count')
    BY <1>4, <1>5, <1>6, <2>2, <2>4, SMTT(30) DEF Word
  <2>. QED
    BY <1>3, <2>2, <2>3, <2>5, <2>6, SMTT(30) DEF Types
<1>9. CASE ~WriterNext(s) /\ ~ReadersNext(s)
  <2>1. state' = s /\ count' = count /\ pc'[f] = "run"
    BY <1>2, <1>3, <1>9, Moved, ZenonT(30) DEF HandOver, GoTo, Places, Types
  <2>2. s.waiting_writers = 0 /\ s.waiting_readers = 0
    BY <1>9, Zenon DEF WriterNext, ReadersNext
  <2>3. Owe(pc', count', "rwake") = 0 /\ Owe(pc', count', "wwake") = 0
    BY <1>1, <1>3, <2>1, OweIs, SMTT(30)
  <2>4. WakersInv'
    BY <1>1, <1>3, <2>1, Zenon DEF WakersInv
  <2>5. Word(state', pc', count')
    BY <1>4, <1>5, <2>1, <2>2, <2>3, SMTT(30) DEF Word
  <2>. QED
    BY <1>3, <1>6, <2>1, <2>4, <2>5, SMTT(30) DEF Types
<1>. QED
  BY <1>7, <1>8, <1>9, Zenon

(* A round of the loop that wakes readers.                                 *)
LEMMA ReaderWoken ==
  ASSUME Good, NEW f \in Fibers, NEW h \in Fibers, pc[f] = "rwake", pc[h] = "rparked",
         pc' = [pc EXCEPT ![f] = IF count[f] = 1 THEN "run" ELSE @, ![h] = "reading"],
         count' = [count EXCEPT ![f] = @ - 1], UNCHANGED state
  PROVE  Good'
<1>. USE DEF Good
<1>. DEFINE p == [pc EXCEPT ![h] = "reading"]
<1>1. f # h /\ pc \in [Fibers -> Places] /\ count \in [Fibers -> Nat]
  BY Zenon DEF Types
<1>2. /\ pc' \in [Fibers -> Places] /\ pc'[f] = IF count[f] = 1 THEN "run" ELSE "rwake"
      /\ pc'[h] = "reading" /\ \A g \in Fibers \ {f, h} : pc'[g] = pc[g]
  BY <1>1, Zenon DEF Places
<1>3. /\ p[h] = "reading" /\ \A g \in Fibers \ {h} : p[g] = pc[g]
  BY <1>1, Zenon
<1>4. p[f] = "rwake" /\ \A g \in Fibers \ {f} : pc'[g] = p[g]
  BY <1>1, <1>2, <1>3, Zenon
<1>. HIDE DEF p
<1>c. Shift(pc, p, h) /\ Shift(p, pc', f)
  <2>1. Shift(pc, p, h)
    BY ONLY <1>3, h \in Fibers, Counted, Zenon
  <2>2. Shift(p, pc', f)
    BY ONLY <1>4, f \in Fibers, Counted, Zenon
  <2>. QED
    BY <2>1, <2>2, Zenon
<1>5. /\ Num(p, {"reading"}) = Num(pc, {"reading"}) + 1 /\ Num(p, WR) = Num(pc, WR) - 1
      /\ Num(p, {"writing"}) = Num(pc, {"writing"}) /\ Num(p, WW) = Num(pc, WW)
      /\ Num(pc, {"reading"}) \in Nat /\ Num(pc, WR) \in Nat
  BY ONLY <1>3, <1>c, pc[h] = "rparked" DEF Shift
<1>6. pc'[f] \in {"run", "rwake"}
  BY <1>2, Zenon
<1>7. /\ Num(pc', {"reading"}) = Num(p, {"reading"}) /\ Num(pc', {"writing"}) = Num(p, {"writing"})
      /\ Num(pc', WR) = Num(p, WR) /\ Num(pc', WW) = Num(p, WW)
  BY ONLY <1>4, <1>6, <1>c, SMTT(30) DEF Shift
<1>8. \A g \in Fibers : pc[g] \in {"rwake", "wwake"} => g = f
  BY Zenon DEF Word
<1>9. \A g \in Fibers : pc'[g] \in {"rwake", "wwake"} => g = f
  BY <1>2, <1>8, Zenon
<1>10. Owe(pc, count, "rwake") = count[f] /\ Owe(pc, count, "wwake") = 0
  <2>1. /\ \A g \in Fibers : pc[g] = "rwake" => g = f
        /\ \A g \in Fibers : pc[g] # "wwake"
    BY <1>8, Zenon
  <2>2. Owe(pc, count, "rwake") = count[f]
    BY ONLY <2>1, f \in Fibers, pc[f] = "rwake", OweIs, SMTT(30)
  <2>. QED
    BY <2>1, <2>2, OweIs
<1>11. count' \in [Fibers -> Nat] /\ count'[f] = count[f] - 1 /\ count[f] \in Nat \ {0}
  <2>1. count[f] \in Nat \ {0}
    BY <1>1 DEF WakersInv
  <2>. QED
    BY <1>1, <2>1
<1>12. Owe(pc', count', "rwake") = count[f] - 1 /\ Owe(pc', count', "wwake") = 0
  <2>1. /\ \A g \in Fibers : pc'[g] = "rwake" => g = f
        /\ \A g \in Fibers : pc'[g] # "wwake"
    BY <1>2, <1>9, Zenon
  <2>a. Owe(pc', count', "wwake") = 0
    BY ONLY <2>1, OweIs, Zenon
  <2>2. CASE count[f] = 1
    <3>1. \A g \in Fibers : pc'[g] # "rwake"
      BY <1>2, <2>1, <2>2, Zenon
    <3>2. Owe(pc', count', "rwake") = 0
      BY ONLY <3>1, OweIs, Zenon
    <3>. QED
      BY <2>2, <2>a, <3>2, SMTT(30)
  <2>3. CASE count[f] # 1
    <3>1. pc'[f] = "rwake"
      BY <1>2, <2>3, Zenon
    <3>2. Owe(pc', count', "rwake") = count'[f]
      BY ONLY <2>1, <3>1, f \in Fibers, OweIs, SMTT(30)
    <3>. QED
      BY <1>11, <2>a, <3>2, Zenon
  <2>. QED
    BY <2>2, <2>3, Zenon
<1>13. WakersInv'
  BY <1>2, <1>9, <1>11 DEF WakersInv
<1>14. state.waiting_readers \in Nat /\ state.reader_count \in Nat
  BY RwlockAssumption, SMTT(30) DEF Types, WordType
<1>15. /\ state.reader_count = Num(pc', {"reading"}) + Owe(pc', count', "rwake")
       /\ state.waiting_readers + Owe(pc', count', "rwake") = Num(pc', WR)
  BY <1>5, <1>7, <1>10, <1>11, <1>12, <1>14, SMTT(30) DEF Word
<1>16. Num(pc', WR) # 0 \/ Num(pc', WW) # 0 => state.write_locked # 0 \/ state.reader_count # 0
  <2>1. Num(pc, WR) # 0
    BY <1>10, <1>11, <1>14, SMTT(30) DEF Word
  <2>. QED
    BY <2>1, Zenon DEF Word
<1>17. Word(state', pc', count')
  BY <1>5, <1>7, <1>9, <1>10, <1>12, <1>15, <1>16, ZenonT(30) DEF Word
<1>. QED
  BY <1>2, <1>11, <1>13, <1>17, Zenon DEF Types

(* The writer is woken.                                                    *)
LEMMA WriterWoken ==
  ASSUME Good, NEW f \in Fibers, NEW h \in Fibers, pc[f] = "wwake", pc[h] = "wparked",
         pc' = [pc EXCEPT ![f] = "run", ![h] = "writing"],
         count' = [count EXCEPT ![f] = @ - 1], UNCHANGED state
  PROVE  Good'
<1>. USE DEF Good
<1>. DEFINE p == [pc EXCEPT ![h] = "writing"]
<1>1. f # h /\ pc \in [Fibers -> Places] /\ count \in [Fibers -> Nat]
  BY Zenon DEF Types
<1>2. /\ pc' \in [Fibers -> Places] /\ pc'[f] = "run"
      /\ pc'[h] = "writing" /\ \A g \in Fibers \ {f, h} : pc'[g] = pc[g]
  BY <1>1, Zenon DEF Places
<1>3. /\ p[h] = "writing" /\ \A g \in Fibers \ {h} : p[g] = pc[g]
  BY <1>1, Zenon
<1>4. p[f] = "wwake" /\ \A g \in Fibers \ {f} : pc'[g] = p[g]
  BY <1>1, <1>2, <1>3, Zenon
<1>. HIDE DEF p
<1>c. Shift(pc, p, h) /\ Shift(p, pc', f)
  <2>1. Shift(pc, p, h)
    BY ONLY <1>3, h \in Fibers, Counted, Zenon
  <2>2. Shift(p, pc', f)
    BY ONLY <1>4, f \in Fibers, Counted, Zenon
  <2>. QED
    BY <2>1, <2>2, Zenon
<1>5. /\ Num(p, {"writing"}) = Num(pc, {"writing"}) + 1 /\ Num(p, WW) = Num(pc, WW) - 1
      /\ Num(p, {"reading"}) = Num(pc, {"reading"}) /\ Num(p, WR) = Num(pc, WR)
      /\ Num(pc, {"writing"}) \in Nat /\ Num(pc, WW) \in Nat
  BY ONLY <1>3, <1>c, pc[h] = "wparked" DEF Shift
<1>6. pc'[f] \in {"run", "wwake"}
  BY <1>2, Zenon
<1>7. /\ Num(pc', {"reading"}) = Num(p, {"reading"}) /\ Num(pc', {"writing"}) = Num(p, {"writing"})
      /\ Num(pc', WR) = Num(p, WR) /\ Num(pc', WW) = Num(p, WW)
  BY ONLY <1>4, <1>6, <1>c, SMTT(30) DEF Shift
<1>8. \A g \in Fibers : pc[g] \in {"rwake", "wwake"} => g = f
  BY Zenon DEF Word
<1>9. \A g \in Fibers : pc'[g] \in {"rwake", "wwake"} => g = f
  BY <1>2, <1>8, Zenon
<1>10. Owe(pc, count, "wwake") = 1 /\ Owe(pc, count, "rwake") = 0 /\ count[f] = 1
  <2>1. /\ \A g \in Fibers : pc[g] = "wwake" => g = f
        /\ \A g \in Fibers : pc[g] # "rwake"
    BY <1>8, Zenon
  <2>2. Owe(pc, count, "wwake") = count[f]
    BY ONLY <2>1, f \in Fibers, pc[f] = "wwake", OweIs, SMTT(30)
  <2>. QED
    BY <2>1, <2>2, OweIs DEF WakersInv
<1>11. count' \in [Fibers -> Nat]
  BY <1>1, <1>10
<1>12. /\ \A g \in Fibers : pc'[g] \notin {"rwake", "wwake"}
       /\ Owe(pc', count', "rwake") = 0 /\ Owe(pc', count', "wwake") = 0
  <2>1. \A g \in Fibers : pc'[g] # "rwake" /\ pc'[g] # "wwake"
    BY <1>2, <1>9, Zenon
  <2>2. Owe(pc', count', "rwake") = 0
    BY ONLY <2>1, OweIs, ZenonT(30)
  <2>3. Owe(pc', count', "wwake") = 0
    BY ONLY <2>1, OweIs, ZenonT(30)
  <2>. QED
    BY <2>1, <2>2, <2>3, Zenon
<1>13. WakersInv'
  BY <1>12, Zenon DEF WakersInv
<1>14. state.waiting_writers \in Nat
  BY RwlockAssumption DEF Types, WordType
<1>15. /\ state.write_locked = Num(pc', {"writing"}) + Owe(pc', count', "wwake")
       /\ state.waiting_writers + Owe(pc', count', "wwake") = Num(pc', WW)
       /\ state.write_locked # 0
  BY <1>5, <1>7, <1>10, <1>12, <1>14, SMTT(30) DEF Word
<1>16. Word(state', pc', count')
  BY <1>5, <1>7, <1>9, <1>10, <1>12, <1>15, ZenonT(30) DEF Word
<1>. QED
  BY <1>2, <1>11, <1>13, <1>16, Zenon DEF Types

-----------------------------------------------------------------------------
(* The actions.                                                            *)

LEMMA InitKeeps == Init => Good /\ QueuesInv
<1>. SUFFICES ASSUME Init PROVE Good /\ QueuesInv
  BY Zenon
<1>1. /\ state = Free /\ pc \in [Fibers -> Places] /\ count \in [Fibers -> Nat]
      /\ \A f \in Fibers : pc[f] = "run"
  BY Zenon DEF Init, Places
<1>2. \A f \in Fibers : /\ pc[f] \notin {"reading"} /\ pc[f] \notin {"writing"}
                        /\ pc[f] \notin WR /\ pc[f] \notin WW
                        /\ pc[f] # "rwake" /\ pc[f] # "wwake"
  BY <1>1, Zenon DEF WR, WW
<1>3. /\ Num(pc, {"reading"}) = 0 /\ Num(pc, {"writing"}) = 0
      /\ Num(pc, WR) = 0 /\ Num(pc, WW) = 0
  BY <1>2, NumZero, Zenon
<1>4. Owe(pc, count, "rwake") = 0 /\ Owe(pc, count, "wwake") = 0
  <2>1. Owe(pc, count, "rwake") = 0
    BY ONLY <1>2, OweIs
  <2>2. Owe(pc, count, "wwake") = 0
    BY ONLY <1>2, OweIs
  <2>. QED
    BY <2>1, <2>2, Zenon
<1>5. Cardinality(Fibers) \in Nat
  BY NumType, Zenon
<1>6. state \in WordType
  BY <1>1, <1>5, RwlockAssumption, SMTT(30) DEF Free, WordType
<1>7. Word(state, pc, count)
  BY <1>1, <1>2, <1>3, <1>4, SMTT(30) DEF Word, Free
<1>8. QueuesInv
  BY DEF Init, QueuesInv, Agrees
<1>. QED
  BY <1>1, <1>2, <1>6, <1>7, <1>8, Zenon DEF Good, Types, WakersInv

(* A fiber that holds the lock is in the word; if the word shows no other, *)
(* nobody is handing the lock over.                                        *)
LEMMA Holding ==
  ASSUME Good, NEW f \in Fibers
  PROVE  /\ pc[f] = "reading" => state.reader_count > 0 /\ state.write_locked = 0
         /\ pc[f] = "writing" => state.reader_count = 0 /\ state.write_locked # 0
         /\ pc[f] = "reading" /\ state.reader_count = 1 =>
              /\ Num(pc, {"reading"}) = 1 /\ Num(pc, {"writing"}) = 0
              /\ Owe(pc, count, "rwake") = 0 /\ Owe(pc, count, "wwake") = 0
         /\ pc[f] = "writing" =>
              /\ Num(pc, {"reading"}) = 0 /\ Num(pc, {"writing"}) = 1
              /\ Owe(pc, count, "rwake") = 0 /\ Owe(pc, count, "wwake") = 0
<1>. USE DEF Good
<1>1. /\ Num(pc, {"reading"}) \in Nat /\ Num(pc, {"writing"}) \in Nat
      /\ pc[f] = "reading" => Num(pc, {"reading"}) # 0
      /\ pc[f] = "writing" => Num(pc, {"writing"}) # 0
  <2>1. /\ Num(pc, {"reading"}) = 0 <=> \A g \in Fibers : pc[g] \notin {"reading"}
        /\ Num(pc, {"writing"}) = 0 <=> \A g \in Fibers : pc[g] \notin {"writing"}
    BY ONLY NumZero, Zenon
  <2>2. Num(pc, {"reading"}) \in Nat /\ Num(pc, {"writing"}) \in Nat
    BY ONLY NumType, ZenonT(30)
  <2>. QED
    BY <2>1, <2>2, Zenon
<1>2. /\ Owe(pc, count, "rwake") \in Nat /\ Owe(pc, count, "wwake") \in Nat
  BY Owing, SMTT(30)
<1>3. /\ state.write_locked \in 0 .. 1 /\ state.reader_count \in Nat
  BY RwlockAssumption DEF Types, WordType
<1>4. /\ state.reader_count = Num(pc, {"reading"}) + Owe(pc, count, "rwake")
      /\ state.write_locked = Num(pc, {"writing"}) + Owe(pc, count, "wwake")
      /\ state.write_locked # 0 => state.reader_count = 0
  BY Zenon DEF Word
<1>. QED
  BY <1>1, <1>2, <1>3, <1>4

LEMMA UnlockKeeps ==
  ASSUME Good, NEW f \in Fibers, Unlock(f)
  PROVE  Good'
<1>1. state \in WordType
  BY Zenon DEF Good, Types
<1>2. CASE RdUnlock(f)
  <2>. DEFINE s == [state EXCEPT !.reader_count = @ - 1]
  <2>1. pc[f] = "reading" /\ state.reader_count > 0 /\ state.write_locked = 0
    BY <1>2, Holding, Zenon DEF RdUnlock
  <2>2. /\ s \in WordType /\ s.reader_count = state.reader_count - 1 /\ s.write_locked = 0
        /\ s.waiting_readers = state.waiting_readers
        /\ s.waiting_writers = state.waiting_writers /\ state.reader_count \in Nat
    BY <1>1, <2>1, RwlockAssumption DEF WordType
  <2>3. CASE s.reader_count = 0
    <3>1. HandOver(f, s)
      BY <1>2, <2>1, <2>3, Zenon DEF RdUnlock, LastReader
    <3>2. state.reader_count = 1
      BY <2>2, <2>3
    <3>3. /\ Num(pc, {"reading"}) = 1 /\ Num(pc, {"writing"}) = 0
          /\ Owe(pc, count, "rwake") = 0 /\ Owe(pc, count, "wwake") = 0
      BY <2>1, <3>2, Holding, Zenon
    <3>. HIDE DEF s
    <3>. QED
      BY <2>1, <2>2, <2>3, <3>1, <3>3, HandOverKeeps, Zenon
  <2>4. CASE s.reader_count # 0
    <3>1. state' = s /\ GoTo(f, "run") /\ UNCHANGED count
      BY <1>2, <2>1, <2>4, Zenon DEF RdUnlock, LastReader
    <3>. QED
      BY <2>1, <2>2, <2>4, <3>1, ReaderLeaves, Zenon DEF GoTo
  <2>. QED
    BY <2>3, <2>4, Zenon
<1>3. CASE WrUnlock(f)
  <2>. DEFINE s == [state EXCEPT !.write_locked = 0]
  <2>1. pc[f] = "writing" /\ state.reader_count = 0 /\ state.write_locked # 0
    BY <1>3, Holding, Zenon DEF WrUnlock
  <2>2. /\ s \in WordType /\ s.reader_count = 0 /\ s.write_locked = 0
        /\ s.waiting_readers = state.waiting_readers
        /\ s.waiting_writers = state.waiting_writers
    BY <1>1, <2>1, SMTT(30) DEF WordType
  <2>3. HandOver(f, s)
    BY <1>3, <2>1, Zenon DEF WrUnlock
  <2>4. /\ Num(pc, {"reading"}) = 0 /\ Num(pc, {"writing"}) = 1
        /\ Owe(pc, count, "rwake") = 0 /\ Owe(pc, count, "wwake") = 0
    BY <2>1, Holding, Zenon
  <2>. HIDE DEF s
  <2>. QED
    BY <2>1, <2>2, <2>3, <2>4, HandOverKeeps, Zenon
<1>. QED
  BY <1>2, <1>3, Zenon DEF Unlock

LEMMA CallKeeps ==
  ASSUME Good, NEW f \in Fibers, Call(f)
  PROVE  Good'
<1>1. CASE RdLock(f)
  <2>1. CASE Crowded
    BY <1>1, <2>1, WaiterEnters, Zenon DEF RdLock, GoTo, OnlyWord
  <2>2. CASE ~Crowded
    BY <1>1, <2>2, ReaderEnters, Zenon DEF RdLock, GoTo, OnlyWord
  <2>. QED
    BY <2>1, <2>2, Zenon
<1>2. CASE WrLock(f)
  <2>1. CASE Taken
    BY <1>2, <2>1, WaiterEnters, Zenon DEF WrLock, GoTo, OnlyWord
  <2>2. CASE ~Taken
    BY <1>2, <2>2, WriterEnters, ZenonT(30) DEF WrLock, GoTo, OnlyWord
  <2>. QED
    BY <2>1, <2>2, Zenon
<1>3. CASE TryRdLock(f)
  BY <1>3, ReaderEnters, Zenon DEF TryRdLock, GoTo, OnlyWord
<1>4. CASE TryWrLock(f)
  BY <1>4, WriterEnters, Zenon DEF TryWrLock, GoTo, OnlyWord
<1>. QED
  BY <1>1, <1>2, <1>3, <1>4, Zenon DEF Call

LEMMA WaitKeeps ==
  ASSUME Good, NEW f \in Fibers, WaitPush(f) \/ WaitLink(f)
  PROVE  Good'
<1>1. PICK b \in Places :
        /\ pc' = [pc EXCEPT ![f] = b]
        /\ \/ pc[f] \in {"rpush", "rlink", "rparked"} /\ b \in {"rpush", "rlink", "rparked"}
           \/ pc[f] \in {"wpush", "wlink", "wparked"} /\ b \in {"wpush", "wlink", "wparked"}
  BY Zenon DEF WaitPush, WaitLink, GoTo, Places
<1>2. UNCHANGED <<state, count>>
  BY Zenon DEF WaitPush, WaitLink
<1>. QED
  BY <1>1, <1>2, WaiterMoves, ZenonT(30)

LEMMA WakeKeeps ==
  ASSUME Good, QueuesInv, NEW f \in Fibers, Wake(f)
  PROVE  Good' /\ QueuesInv'
<1>1. /\ pc \in [Fibers -> Places]
      /\ Agrees(read_waiters, pc, "rlink", "rparked")
      /\ Agrees(write_waiters, pc, "wlink", "wparked")
  BY Zenon DEF Good, Types, QueuesInv
<1>2. CASE pc[f] = "rwake"
  <2>. DEFINE h == Head(read_waiters).fiber
  <2>1. /\ CanPop(read_waiters) /\ read_waiters' = Rest(read_waiters)
        /\ pc' = [pc EXCEPT ![f] = IF count[f] = 1 THEN "run" ELSE @, ![h] = "reading"]
        /\ count' = [count EXCEPT ![f] = @ - 1] /\ UNCHANGED <<state, write_waiters>>
    BY <1>2, Zenon DEF Wake
  <2>2. h \in Fibers /\ pc[h] = "rparked"
    BY <1>1, <2>1, AgreesPop, Zenon
  <2>3. \A p2 : (\A g \in Fibers \ {h} : pc[g] \in {"rlink", "rparked"} => p2[g] = pc[g])
                => Agrees(Rest(read_waiters), p2, "rlink", "rparked")
    BY <1>1, <2>1, AgreesPop, Zenon
  <2>. HIDE DEF h
  <2>4. Good'
    BY <1>2, <2>1, <2>2, ReaderWoken, Zenon
  <2>5. \A g \in Fibers \ {f, h} : pc'[g] = pc[g]
    BY <1>1, <2>1, Zenon
  <2>6. Agrees(read_waiters, pc, "rlink", "rparked")'
    <3>1. \A g \in Fibers \ {h} : pc[g] \in {"rlink", "rparked"} => pc'[g] = pc[g]
      BY <1>2, <2>5, Zenon
    <3>. QED
      BY <2>1, <2>3, <3>1, Zenon
  <2>7. Agrees(write_waiters, pc, "wlink", "wparked")'
    <3>1. \A g \in Fibers : pc[g] \in {"wlink", "wparked"} => pc'[g] = pc[g]
      BY <1>2, <2>2, <2>5, Zenon
    <3>2. Agrees(write_waiters, pc', "wlink", "wparked")
      BY ONLY <1>1, <3>1, AgreesAside, Zenon
    <3>. QED
      BY <2>1, <3>2, Zenon
  <2>. QED
    BY <2>4, <2>6, <2>7, Zenon DEF QueuesInv
<1>3. CASE pc[f] # "rwake"
  <2>. DEFINE h == Head(write_waiters).fiber
  <2>1. /\ CanPop(write_waiters) /\ write_waiters' = Rest(write_waiters) /\ pc[f] = "wwake"
        /\ pc' = [pc EXCEPT ![f] = "run", ![h] = "writing"]
        /\ count' = [count EXCEPT ![f] = @ - 1] /\ UNCHANGED <<state, read_waiters>>
    BY <1>3, Zenon DEF Wake
  <2>2. h \in Fibers /\ pc[h] = "wparked"
    BY <1>1, <2>1, AgreesPop, Zenon
  <2>3. \A p2 : (\A g \in Fibers \ {h} : pc[g] \in {"wlink", "wparked"} => p2[g] = pc[g])
                => Agrees(Rest(write_waiters), p2, "wlink", "wparked")
    BY <1>1, <2>1, AgreesPop, Zenon
  <2>. HIDE DEF h
  <2>4. Good'
    BY <2>1, <2>2, WriterWoken, Zenon
  <2>5. \A g \in Fibers \ {f, h} : pc'[g] = pc[g]
    BY <1>1, <2>1, Zenon
  <2>6. Agrees(write_waiters, pc, "wlink", "wparked")'
    <3>1. \A g \in Fibers \ {h} : pc[g] \in {"wlink", "wparked"} => pc'[g] = pc[g]
      BY <2>1, <2>5, Zenon
    <3>. QED
      BY <2>1, <2>3, <3>1, Zenon
  <2>7. Agrees(read_waiters, pc, "rlink", "rparked")'
    <3>1. \A g \in Fibers : pc[g] \in {"rlink", "rparked"} => pc'[g] = pc[g]
      BY <2>1, <2>2, <2>5, Zenon
    <3>2. Agrees(read_waiters, pc', "rlink", "rparked")
      BY ONLY <1>1, <3>1, AgreesAside, Zenon
    <3>. QED
      BY <2>1, <3>2, Zenon
  <2>. QED
    BY <2>4, <2>6, <2>7, Zenon DEF QueuesInv
<1>. QED
  BY <1>2, <1>3, Zenon

(* A fiber that enters or leaves is in no queue.                           *)
LEMMA QueuesAside ==
  ASSUME Good, QueuesInv, NEW f \in Fibers, Call(f) \/ Unlock(f)
  PROVE  QueuesInv'
<1>1. /\ pc \in [Fibers -> Places]
      /\ Agrees(read_waiters, pc, "rlink", "rparked")
      /\ Agrees(write_waiters, pc, "wlink", "wparked")
  BY Zenon DEF Good, Types, QueuesInv
<1>2. /\ pc[f] \in {"run", "reading", "writing"} /\ UNCHANGED <<read_waiters, write_waiters>>
      /\ \E b : pc' = [pc EXCEPT ![f] = b]
  <2>1. CASE Call(f)
    BY <2>1, Zenon DEF Call, RdLock, WrLock, TryRdLock, TryWrLock, GoTo, OnlyWord
  <2>2. CASE Unlock(f)
    BY <2>2, Zenon DEF Unlock, RdUnlock, WrUnlock, HandOver, GoTo
  <2>. QED
    BY <2>1, <2>2, Zenon
<1>3. \A g \in Fibers : pc[g] \in {"rlink", "rparked", "wlink", "wparked"} => pc'[g] = pc[g]
  BY <1>1, <1>2, Zenon
<1>4. Agrees(read_waiters, pc', "rlink", "rparked")
  BY <1>1, <1>3, AgreesAside, Zenon
<1>5. Agrees(write_waiters, pc', "wlink", "wparked")
  BY <1>1, <1>3, AgreesAside, Zenon
<1>. QED
  BY <1>2, <1>4, <1>5, Zenon DEF QueuesInv

LEMMA QueuesGrow ==
  ASSUME Good, QueuesInv, NEW f \in Fibers, WaitPush(f) \/ WaitLink(f)
  PROVE  QueuesInv'
<1>1. /\ pc \in [Fibers -> Places]
      /\ Agrees(read_waiters, pc, "rlink", "rparked")
      /\ Agrees(write_waiters, pc, "wlink", "wparked")
      /\ "rlink" \in Places /\ "rparked" \in Places /\ "wlink" \in Places /\ "wparked" \in Places
  BY Zenon DEF Good, Types, QueuesInv, Places
<1>2. CASE pc[f] \in {"rpush", "rlink"}
  <2>1. UNCHANGED write_waiters /\ \E b : pc' = [pc EXCEPT ![f] = b]
    BY <1>2, Zenon DEF WaitPush, WaitLink, GoTo
  <2>2. \A g \in Fibers : pc[g] \in {"wlink", "wparked"} => pc'[g] = pc[g]
    BY <1>1, <1>2, <2>1, Zenon
  <2>3. Agrees(write_waiters, pc', "wlink", "wparked")
    BY ONLY <1>1, <2>2, AgreesAside, Zenon
  <2>4. Agrees(read_waiters', pc', "rlink", "rparked")
    <3>1. CASE pc[f] = "rpush"
      <4>1. read_waiters' = Pushed(read_waiters, f) /\ pc' = [pc EXCEPT ![f] = "rlink"]
        BY <3>1, Zenon DEF WaitPush, WaitLink, GoTo
      <4>. QED
        BY <1>1, <3>1, <4>1, AgreesPush, Zenon
    <3>2. CASE pc[f] = "rlink"
      <4>1. read_waiters' = Linked(read_waiters, f) /\ pc' = [pc EXCEPT ![f] = "rparked"]
        BY <3>2, Zenon DEF WaitPush, WaitLink, GoTo
      <4>. QED
        BY <1>1, <3>2, <4>1, AgreesLink, ZenonT(30)
    <3>. QED
      BY <1>2, <3>1, <3>2, Zenon
  <2>. QED
    BY <2>1, <2>3, <2>4, Zenon DEF QueuesInv
<1>3. CASE pc[f] \notin {"rpush", "rlink"}
  <2>1. /\ UNCHANGED read_waiters /\ pc[f] \in {"wpush", "wlink"}
        /\ \E b : pc' = [pc EXCEPT ![f] = b]
    BY <1>3, Zenon DEF WaitPush, WaitLink, GoTo
  <2>2. \A g \in Fibers : pc[g] \in {"rlink", "rparked"} => pc'[g] = pc[g]
    BY <1>1, <2>1, Zenon
  <2>3. Agrees(read_waiters, pc', "rlink", "rparked")
    BY ONLY <1>1, <2>2, AgreesAside, Zenon
  <2>4. Agrees(write_waiters', pc', "wlink", "wparked")
    <3>1. CASE pc[f] = "wpush"
      <4>1. write_waiters' = Pushed(write_waiters, f) /\ pc' = [pc EXCEPT ![f] = "wlink"]
        BY <3>1, Zenon DEF WaitPush, WaitLink, GoTo
      <4>. QED
        BY <1>1, <3>1, <4>1, AgreesPush, Zenon
    <3>2. CASE pc[f] = "wlink"
      <4>1. write_waiters' = Linked(write_waiters, f) /\ pc' = [pc EXCEPT ![f] = "wparked"]
        BY <3>2, Zenon DEF WaitPush, WaitLink, GoTo
      <4>. QED
        BY <1>1, <3>2, <4>1, AgreesLink, Zenon
    <3>. QED
      BY <2>1, <3>1, <3>2, Zenon
  <2>. QED
    BY <2>1, <2>3, <2>4, Zenon DEF QueuesInv
<1>. QED
  BY <1>2, <1>3, Zenon

-----------------------------------------------------------------------------
(* RwlockInv is inductive: the whole of fiber_rwlock.c, from any state in  *)
(* which the word, the queues and the fibers agree, leads to such a state. *)
THEOREM RwlockInvariant == Spec => []RwlockInv
<1>1. Init => Good /\ QueuesInv
  BY InitKeeps, Zenon
<1>2. Good /\ QueuesInv /\ [Next]_vars => (Good /\ QueuesInv)'
  <2>. SUFFICES ASSUME Good, QueuesInv, [Next]_vars PROVE (Good /\ QueuesInv)'
    BY Zenon
  <2>1. CASE UNCHANGED vars
    BY <2>1, ZenonT(30) DEF vars, Good, Types, WakersInv, Word, QueuesInv, Num, Owe, Agrees
  <2>2. ASSUME NEW f \in Fibers, Call(f) \/ Continue(f) PROVE (Good /\ QueuesInv)'
    <3>1. CASE Call(f)
      BY <3>1, CallKeeps, QueuesAside, Zenon
    <3>2. CASE Unlock(f)
      BY <3>2, UnlockKeeps, QueuesAside, Zenon
    <3>3. CASE WaitPush(f) \/ WaitLink(f)
      BY <3>3, WaitKeeps, QueuesGrow, Zenon
    <3>4. CASE Wake(f)
      BY <3>4, WakeKeeps, Zenon
    <3>. QED
      BY <2>2, <3>1, <3>2, <3>3, <3>4, Zenon DEF Continue
  <2>. QED
    BY <2>1, <2>2, Zenon DEF Next
<1>3. Good /\ QueuesInv => RwlockInv
  BY Forms, Zenon DEF Good
<1>. QED
  BY <1>1, <1>2, <1>3, PTL DEF Spec

(* However the lock is handed over, the word of fiber_rwlock_t counts the  *)
(* fibers that read, write and wait, no counter overflows and no assertion *)
(* of rdunlock or wrunlock fails.                                          *)
THEOREM RwlockWord == Spec => []WordInv
<1>1. RwlockInv => WordInv
  BY Zenon DEF RwlockInv
<1>. QED
  BY <1>1, RwlockInvariant, PTL

(* A fiber that waits in fiber_rwlock_rdlock or wrlock waits for somebody. *)
THEOREM RwlockNobodyWaitsForFreeLock == Spec => []NobodyWaitsForFreeLock
<1>1. RwlockInv => NobodyWaitsForFreeLock
  BY Zenon DEF RwlockInv
<1>. QED
  BY <1>1, RwlockInvariant, PTL

(* Between fiber_rwlock_wrlock's return and wrunlock a writer is alone.    *)
THEOREM RwlockExclusion == Spec => []Exclusion
<1>1. RwlockInv => Exclusion
  <2>. SUFFICES ASSUME RwlockInv, NEW f \in Fibers, pc[f] = "writing"
                PROVE  Readers = {} /\ Writers = {f}
    BY Zenon DEF Exclusion, Writers, In
  <2>1. Good
    BY Forms, Zenon DEF Good
  <2>2. Num(pc, {"reading"}) = 0 /\ Num(pc, {"writing"}) = 1
    BY <2>1, Holding, Zenon
  <2>3. \A g \in Fibers : pc[g] \notin {"reading"}
    BY <2>2, NumZero, Zenon
  <2>4. \A g \in Fibers : pc[g] \in {"writing"} => g = f
    BY <2>2, NumOne, Zenon
  <2>. QED
    BY <2>3, <2>4, Zenon DEF Readers, Writers, In
<1>. QED
  BY <1>1, RwlockInvariant, PTL

=============================================================================
