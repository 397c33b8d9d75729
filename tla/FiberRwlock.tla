---------------------------- MODULE FiberRwlock ----------------------------
(***************************************************************************)
(* fiber_rwlock.c: a readers-writer lock whose whole state is one 64-bit   *)
(* word changed by compare-and-swap.  Reading the word and swapping it     *)
(* successfully is one step, because what is decided depends on nothing    *)
(* but the word that the swap finds unchanged; a failed swap tries again.  *)
(* A fiber that waits is parked from the link of its queue node until it   *)
(* is popped (FiberManager.tla).                                           *)
(***************************************************************************)
EXTENDS Integers, FiniteSets, WaitQueue

CONSTANTS Fibers,
          Counters      \* how many values a counter of the word has (2^21)

ASSUME RwlockAssumption ==
  /\ IsFiniteSet(Fibers)
  /\ Counters \in Nat
  /\ Cardinality(Fibers) < Counters

VARIABLES
  state,                \* fiber_rwlock_state_t
  read_waiters, write_waiters,
  pc, count             \* of each fiber; count: fibers it still has to wake

vars == <<state, read_waiters, write_waiters, pc, count>>

Free == [write_locked |-> 0, reader_count |-> 0,
         waiting_readers |-> 0, waiting_writers |-> 0]

Init ==
  /\ state = Free
  /\ read_waiters = <<>> /\ write_waiters = <<>>
  /\ pc = [f \in Fibers |-> "run"]
  /\ count = [f \in Fibers |-> 0]

\* Arithmetic of a bit-field.
Plus(n) == (n + 1) % Counters

GoTo(f, place) == pc' = [pc EXCEPT ![f] = place]

OnlyWord == UNCHANGED <<read_waiters, write_waiters, count>>

\* readers that overtake waiting writers
CrowdedByWriter == state.write_locked # 0

\* rdlock and tryrdlock see a writer, or anybody in the queues.
Crowded ==
  \/ state.waiting_writers # 0
  \/ state.write_locked # 0
  \/ state.waiting_readers # 0

-----------------------------------------------------------------------------
RdLock(f) ==
  /\ pc[f] = "run"
  /\ IF Crowded
     THEN /\ state' = [state EXCEPT !.waiting_readers = Plus(@)]
          /\ GoTo(f, "rpush")
     ELSE /\ state' = [state EXCEPT !.reader_count = Plus(@)]
          /\ GoTo(f, "reading")
  /\ OnlyWord

\* a writer that looks at other writers only
TakenByWriter == state.write_locked # 0 \/ state.waiting_writers # 0

Taken == state # Free

WrLock(f) ==
  /\ pc[f] = "run"
  /\ IF Taken
     THEN /\ state' = [state EXCEPT !.waiting_writers = Plus(@)]
          /\ GoTo(f, "wpush")
     ELSE /\ state' = [state EXCEPT !.write_locked = 1]
          /\ GoTo(f, "writing")
  /\ OnlyWord

\* A try that fails changes nothing.
TryRdLock(f) ==
  /\ pc[f] = "run"
  /\ ~Crowded
  /\ state' = [state EXCEPT !.reader_count = Plus(@)]
  /\ GoTo(f, "reading")
  /\ OnlyWord

TryWrLock(f) ==
  /\ pc[f] = "run"
  /\ ~Taken
  /\ state' = [state EXCEPT !.write_locked = 1]
  /\ GoTo(f, "writing")
  /\ OnlyWord

-----------------------------------------------------------------------------
(* The last one out hands the lock over: to one writer, or to every reader *)
(* that waits, and then wakes as many fibers from that queue.              *)

ToWriter(s) == [s EXCEPT !.write_locked = 1, !.waiting_writers = @ - 1]

ToReaders(s) == [s EXCEPT !.reader_count = s.waiting_readers, !.waiting_readers = 0]

\* handing the lock to a writer whether one waits or not
WriterNextAssumed(s) == TRUE

WriterNext(s) == s.waiting_writers # 0

\* an unlock that looks for waiting writers only
ReadersNever(s) == FALSE

ReadersNext(s) == ~WriterNext(s) /\ s.waiting_readers # 0

\* What both unlocks do with the word s, in which the caller's own claim is
\* already dropped.
HandOver(f, s) ==
  CASE WriterNext(s) ->
         /\ state' = ToWriter(s)
         /\ count' = [count EXCEPT ![f] = 1]
         /\ GoTo(f, "wwake")
    [] ReadersNext(s) ->
         /\ state' = ToReaders(s)
         /\ count' = [count EXCEPT ![f] = s.waiting_readers]
         /\ GoTo(f, "rwake")
    [] OTHER ->
         /\ state' = s
         /\ GoTo(f, "run")
         /\ UNCHANGED count

LastReader(s) == s.reader_count = 0

RdUnlock(f) ==
  LET s == [state EXCEPT !.reader_count = @ - 1] IN
  /\ pc[f] = "reading"
  /\ IF ~(state.reader_count > 0 /\ state.write_locked = 0)
     THEN GoTo(f, "abort") /\ UNCHANGED <<state, count>>
     ELSE IF LastReader(s)
     THEN HandOver(f, s)
     ELSE state' = s /\ GoTo(f, "run") /\ UNCHANGED count
  /\ UNCHANGED <<read_waiters, write_waiters>>

WrUnlock(f) ==
  /\ pc[f] = "writing"
  /\ IF state.reader_count = 0 /\ state.write_locked # 0
     THEN HandOver(f, [state EXCEPT !.write_locked = 0])
     ELSE GoTo(f, "abort") /\ UNCHANGED <<state, count>>
  /\ UNCHANGED <<read_waiters, write_waiters>>

-----------------------------------------------------------------------------
(* fiber_manager_wait_in_mpsc_queue and fiber_manager_wake_from_mpsc_queue *)

WaitPush(f) ==
  /\ \/ /\ pc[f] = "rpush"
        /\ read_waiters' = Pushed(read_waiters, f)
        /\ GoTo(f, "rlink")
        /\ UNCHANGED write_waiters
     \/ /\ pc[f] = "wpush"
        /\ write_waiters' = Pushed(write_waiters, f)
        /\ GoTo(f, "wlink")
        /\ UNCHANGED read_waiters
  /\ UNCHANGED <<state, count>>

WaitLink(f) ==
  /\ \/ /\ pc[f] = "rlink"
        /\ read_waiters' = Linked(read_waiters, f)
        /\ GoTo(f, "rparked")
        /\ UNCHANGED write_waiters
     \/ /\ pc[f] = "wlink"
        /\ write_waiters' = Linked(write_waiters, f)
        /\ GoTo(f, "wparked")
        /\ UNCHANGED read_waiters
  /\ UNCHANGED <<state, count>>

\* One round of the loop that finds a fiber; a round that finds none yields
\* and tries again.
Wake(f) ==
  LET last == count[f] = 1 IN
  /\ \/ /\ pc[f] = "rwake"
        /\ CanPop(read_waiters)
        /\ read_waiters' = Rest(read_waiters)
        /\ pc' = [pc EXCEPT ![f] = IF last THEN "run" ELSE @,
                            ![Head(read_waiters).fiber] = "reading"]
        /\ UNCHANGED write_waiters
     \/ /\ pc[f] = "wwake"
        /\ CanPop(write_waiters)
        /\ write_waiters' = Rest(write_waiters)
        /\ pc' = [pc EXCEPT ![f] = "run",
                            ![Head(write_waiters).fiber] = "writing"]
        /\ UNCHANGED read_waiters
  /\ count' = [count EXCEPT ![f] = @ - 1]
  /\ UNCHANGED state

Call(f) == RdLock(f) \/ WrLock(f) \/ TryRdLock(f) \/ TryWrLock(f)

Unlock(f) == RdUnlock(f) \/ WrUnlock(f)

Continue(f) == Unlock(f) \/ WaitPush(f) \/ WaitLink(f) \/ Wake(f)

Next == \E f \in Fibers : Call(f) \/ Continue(f)

Spec == Init /\ [][Next]_vars

\* A fiber that has called one of the operations goes on, and one that has
\* the lock gives it back.
FairSpec == Spec /\ \A f \in Fibers : WF_vars(Continue(f))

-----------------------------------------------------------------------------
In(places) == {f \in Fibers : pc[f] \in places}

Readers == In({"reading"})
Writers == In({"writing"})
WaitingReaders == In({"rpush", "rlink", "rparked"})
WaitingWriters == In({"wpush", "wlink", "wparked"})
Wakers == In({"rwake", "wwake"})

\* The word, the queues and the places of the fibers have their types: no
\* counter leaves its bit-field and no assertion of rdunlock or wrunlock
\* fails.
TypeOK ==
  /\ state \in [write_locked : 0 .. 1, reader_count : 0 .. Counters - 1,
                waiting_readers : 0 .. Counters - 1, waiting_writers : 0 .. Counters - 1]
  /\ \A q \in {read_waiters, write_waiters} :
       q \in Seq([fiber : Fibers, linked : BOOLEAN])
  /\ pc \in [Fibers -> {"run", "reading", "writing", "rpush", "rlink", "rparked", "wpush",
                        "wlink", "wparked", "rwake", "wwake"}]
  /\ count \in [Fibers -> Nat]

\* A writer is alone: between wrlock's return and wrunlock no other fiber
\* reads or writes, however the lock was handed over.
Exclusion ==
  \A f \in Writers : Readers = {} /\ Writers = {f}

\* How many fibers own the lock already but have not been woken yet.
Owed(place) == IF \E f \in Fibers : pc[f] = place
               THEN count[CHOOSE f \in Fibers : pc[f] = place] ELSE 0

\* The word has its type and says what the fibers do: its counters are the
\* fibers that read, write and wait, where a fiber that was handed the lock
\* and is yet to be popped from the queue counts as an owner and no longer
\* as a waiter.  One fiber at a time hands the lock on, so that each waiter
\* queue has a single consumer, as mpsc_fifo_t demands.
WordInv ==
  /\ TypeOK
  /\ \A f, g \in Wakers : f = g
  /\ state.reader_count = Cardinality(Readers) + Owed("rwake")
  /\ state.write_locked = Cardinality(Writers) + Owed("wwake")
  /\ state.waiting_readers + Owed("rwake") = Cardinality(WaitingReaders)
  /\ state.waiting_writers + Owed("wwake") = Cardinality(WaitingWriters)
  /\ state.write_locked # 0 => state.reader_count = 0

\* Nobody waits for a lock that nobody has: no release is lost between a
\* waiter's announcement in the word and its arrival in the queue.
NobodyWaitsForFreeLock ==
  WaitingReaders \cup WaitingWriters # {} =>
    state.write_locked # 0 \/ state.reader_count # 0

\* A fiber that waits to write gets to write: neither new readers nor later
\* writers overtake it for ever.
WriterIsServed == \A f \in Fibers : f \in WaitingWriters ~> f \in Writers

=============================================================================
