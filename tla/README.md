# A TLA+ model of libfiber

libfiber runs user-space threads (fibers) on a few kernel threads. This project models
its scheduler, the main synchronisation primitives built on it, the lock-free structures
below it and the event loop beside it. TLC checks the models on small instances, and TLAPS proves
some of the properties for every value of the constants. Paths are relative to the
repository (`src/` in front of them in `PROJECT.json`).

## 1. The system

| Part | State | Operations | What is hard about it |
|---|---|---|---|
| Spinlock (`src/fiber_spinlock.c`) | two 32-bit counters in one word | lock, trylock, unlock | trylock swaps the whole word; wrap-around |
| Work-stealing deque (`src/work_stealing_deque.c`) | top, bottom, circular array | push_bottom, pop_bottom, steal | last item; growth under a thief |
| Lists (`include/mpsc_fifo.h`, `spsc_fifo.h`, `dist_fifo.h`, `mpmc_lifo.h`, `mpmc_stack.h`, `cpp/lockfree_fifo.hpp`) | one word, or one tagged word, at each end; a stub | push, trypop, peek, flush | exchange and link are two stores; nodes travel |
| Mpmc queue, hazard pointers (`include/mpmc_fifo.h`, `hazard_pointer.[ch]`) | linked list, published pointers, retired lists | push, trypop, free, scan | reuse of nodes |
| Ring buffer (`include/lockfree_ring_buffer.h`) | high, low, slots | trypush, trypop | slots claimed before they are written |
| Work queue (`src/work_queue.c`) | in_count, out_count, queue | push, get_work | hand-over of the worker role |
| Scheduler (`src/fiber_scheduler_wsd.c`) | two deques per thread | schedule, next, load_balance | fibers not yet saved; stealing |
| Manager (`src/fiber_manager.c`, `src/schedule_lock.c`) | current, maintenance and finished fiber, deferred work, lock gate | yield, switch, maintenance, wait and wake | everything is deferred to the other side of a switch |
| Fibers (`src/fiber.c`) | state, detach_state, join_info, result | create, join, tryjoin, detach, completion | four parties exchange one word |
| Mutex, cond, semaphore, rwlock, barrier (`src/fiber_*.c`) | a counter or packed word, queues | lock/unlock, wait/signal, ... | counted before queued |
| Signals, channels (`include/fiber_signal.h`, `fiber_channel.h`, `fiber_multi_channel.h`, `mpsc_relaxed_fifo.h`, `cpp/signal.hpp`, `cpp/channel.hpp`) | waiter word, buffers | send, receive, select, wait, raise | empty test against raise; a waiter found before it is saved |
| I/O shims (`src/fiber_io.c`) | flags of each descriptor | read, write, accept, connect, close, sleep, ... | several fibers on one descriptor; close |
| Events (`src/fiber_event_native.c`) | wait_info, tree of sleepers | wait_for_event, poll, sleep | one-shot registration; nodes on fiber stacks |
| Contexts (`src/fiber_context.c`), libev backend, dist scheduler | | | not modelled, see section 8 |

Threads run the manager's loop; the manager takes fibers from the scheduler's deques; a
primitive suspends a fiber by putting it into a queue and yielding, and wakes it by popping
the queue and scheduling the fiber. The events do the same with their own lists.

`PROJECT.json` lists the hazards of the code, each at its line, with the properties that
would catch it.

## 2. Modules

Memory is sequentially consistent: the build is for x86, and every shared word is accessed
with atomics or is `volatile`. A step is one access to shared memory, or several when only
one of them can be seen by others; the header of each module says what was merged. Weak
compare-and-swaps may fail without cause.

| Module | Models | Layer |
|---|---|---|
| `FiberSpinlock` | the ticket lock | structures |
| `WorkStealingDeque`, `StealableDeque` | the deque; what it promises | structures |
| `LinkedList`, `ConcurrentQueue`, `WaitQueue` | six lists with one text; what they promise; the mpsc queue as operators | structures |
| `MpmcFifo`, `MCMpmcFifo` | the queue with hazard pointers and node reuse; symmetry | structures |
| `FiberManager` | manager and scheduler of all threads, as operators and actions | kernel |
| `FiberMutex`, `FiberBarrier`, `FiberJoin` | `fiber_mutex.c`, `fiber_barrier.c` and `fiber.c` on `FiberManager`, as actions | fibers |
| `FiberProgram`, `MCFiberProgram` | the four put together: programs of calls; the programs explored | fibers |
| `FiberRwlock`, `FiberSemaphore`, `FiberCond` | over the contract of the kernel | fibers |
| `BlockedFibers` | what the semaphore and the condition variable share: the place of each fiber, one queue of waiters | fibers |
| `ChannelFibers` | what the next modules share: fibers that send and receive | channels |
| `FiberSignal`, `FiberMultiSignal`, `LockfreeRingBuffer`, `WorkQueue` | one structure each, as actions | channels |
| `FiberChannel` | the channels over them, and each structure alone: nine kinds | channels |
| `FiberIo`, `FiberSleep` | descriptors and their shims; sleepers and their shims | events |
| `FiberEvent`, `MCFiberEvent` | the event loop that serves both; the requests explored | events |

The proofs about a module `X` are in `XProofs`, with three exceptions. Those about the spinlock, the
semaphore and the condition variable share `FiberLockProofs`. Those about the signals, the ring buffer and
the work queue are about the composition `FiberChannel` (`FiberChannelProofs`). Those about the kernel are
about the composition `FiberProgram`, in four modules: `FiberKernelProofs` (the invariant, the queues, steps that leave a fiber where it
is, switch or take one off a queue), `FiberPlacesProofs` (how a fiber leaves its thread or comes back, and
what the invariant says about places), `FiberYieldProofs` (the actions of a yield and of a fiber's own
code) and `FiberProgramProofs`, which extends the others: initial states, maintenance, waits and wakes,
and the theorems.

**How the layers meet.** `FiberProgram` composes mutex, barrier, fibers and the full kernel:
threads, deques, saving of contexts, stealing, maintenance. Its runs show, and `FiberProgramProofs`
proves, that a fiber in a queue is in no other place and that a fiber runs on one thread. The other primitives take this as a contract: from
the link of its queue entry (`WaitQueue`) until it is popped a fiber is parked. In `FiberManager` an
operation on a deque is one step; `WorkStealingDeque` shows that the code's deque implements
one whose operations are. `WaitQueue` likewise stands on `LinkedList` of kind `mpsc`. The signals do not
use a queue: they find a fiber before its context is saved, so `FiberSignal` and
`FiberMultiSignal` have the states "saving" and "parked" and the scratch word that tells a raiser which.

**One text, several kinds.** Structures with the same outline share a module, and a variable
that is chosen at the start and never changes says which one it is (`kind` in `LinkedList`, `setup.kind`
in `FiberChannel`, `load` in `FiberEvent`, the program in `FiberProgram`). One run then explores all of them.

**State and actions.** Variables carry the names of the fields they model. `pc` (`at` in
`FiberSpinlock`) holds the place in the code of each fiber or thread, and an action is named after the function and
the access it performs (`PostLoad`, `PostCas`). Operators that are followed by a near copy in the
file, such as `Contended` and `ContendedLate`, are decisions of the code and a wrong form of
them: replacing one by the other shows that the property depends on it.

### Merged steps in the kernel

- Maintenance after a switch is one step: its parts touch state of the own thread, the deque
  and one queue.
- A waker's test of the fiber's state and its scheduling are one step, and so are the two
  reads of `detach_state` at the start of tryjoin.
- Load balancing visits one remote deque per step. The limit of 50 steals is beyond the instances.
- `yield_count & 1023` is a free choice.
- `fiber_manager_yield` is gated by `lock_using`, which `set_lock_status` sets and nothing in
  the library clears. The flag is read and written under a read/write lock: taking it is a step of its
  own, giving it back is one step with the access or, for the writer, with the access and the switch that follows.

### Merged steps elsewhere

- In `FiberRwlock` the read of the word and the swap that succeeds are one step, because the decision
  depends on nothing but the word; everywhere else they are two.
- The counter beside a tagged word is compared for equality only. The set `current` of those who
  have read its present value stands for it, which assumes that it does not come round to an old
  value while somebody holds that value: 64 bits.
- What a spinlock covers is one step: a round of the multi channel's loop, an update of
  `wait_info`, an insertion into the tree of sleepers.
- `trypop` on the queues of the channels is one step, and so is the push of a single producer, which
  publishes with one store; their own steps are in `LinkedList`.

### The yield gate

As shipped, the first gated switch sets `lock_using`, and from then on every yield that finds
another fiber is refused: `fiber_manager_yield` schedules the *current* fiber, drops the one it has
popped, and returns. The model has this branch exactly (`GateRefuse`, part of `Next`). The run
`entered_by_refusal` shows what it does to a mutex. To say something about the rest of the manager, the
other runs of `FiberProgram` use `UnrefusedSpec`: the behaviours in which an application clears
the exported `lock_using` in time, so that no yield is refused.

The gate has a second defect, and `UnrefusedSpec` keeps it. `is_lock_using` and `set_lock_status` take
`lock`, a `fiber_rwlock_t` that nobody initialises. As long as no two threads are there at once that does no harm: the
word is 0, a free lock. A fiber that finds it taken calls `fiber_manager_wait_in_mpsc_queue`, where
`assert(this_fiber->state == FIBER_STATE_RUNNING)` (`src/fiber_manager.c:431`) fails if the fiber was
about to wait or has finished, and where else the push goes to a queue whose tail is a null pointer
(`include/mpsc_fifo.h:54`). Either ends the program, so the model has a step to the place
"crash" (`GateBlocks`) after which nobody takes a step. On one thread the step is impossible: `NoAborts` says so,
`program_live` checks it and `KernelNeverAborts` proves it. On two threads it is possible (section 6), and what
`program` shows about two threads is about behaviours up to that step. `FiberRwlock` is about locks that are
initialised and used outside of a yield.

## 3. Runs

Passing runs:

| Run | Instance | Distinct states | Shows |
|---|---|---|---|
| `spinlock` | 3 threads, counters modulo 3 | 32,687 | mutual exclusion, order of arrival, every lock granted, ticket invariant |
| `program` | 2 threads, 3 fibers, 5 programs | 939,962 | up to a crash at the yield gate's lock: the mutex excludes, one consumer of its queue, nobody leaves the barrier early, results handed over, hand-shakes answered, no failed assertion, one thread per fiber, no lost fiber, nothing freed in use |
| `program_live` | 1 thread, 3 fibers, 5 programs | 1,258 | no failed assertion and nobody waits for the yield gate's lock; every fiber finishes its calls, locks and barriers included, and is reclaimed |
| `rwlock` | 4 fibers | 8,350 | exclusion, the word, hand-over, writers served |
| `semaphore` | 4 fibers on 2 units | 7,878 | at most `Value` holders, the counter, waits granted |
| `cond` | 4 fibers | 11,451 | no stolen wakeup, the count with its one consumer, calls return |
| `lists` | 6 kinds, 3 fibers (2 where the head is tagged), 2 poppers | 325,995 | refines `ConcurrentQueue`; every node has one owner |
| `mpmc_fifo` | 2 threads, 4 nodes | 739,342 | no use after free, retired once, refines `ConcurrentQueue` |
| `work_stealing_deque` | 2 thieves, 2 slots that grow, 4 items | 212,902 | refines `StealableDeque`; no stale slot |
| `channel` | 9 kinds with and without a signal, 2 senders of 2 messages, 2 receivers, 2 slots | 241,619 | a wait is answered once and after the save, a slot has one owner, one worker while there is work, messages in order, all of them received (multi channel: while senders and receivers do not wait at once, which at this size they never do) |
| `events` | descriptors: reader, writer, closer, 2 pollers, or connect, reader, closer; sleepers: 3 fibers, 6 requests; both on one thread | 175,308 | armed or about to be woken, readiness noticed if threads find time to poll, never early, nobody overdue on one thread |

Violated on purpose, a disagreement between the code and a sentence of the repository (quoted
under "findings" in `PROJECT.json`): `entered_by_refusal`, see "The yield gate".

**Bounds.** Every property needs only a few actors to fail: one to act, one to interfere, and
one to be overtaken. The instances have at least that many, and each property fails in
the same instance under a plausible slip in the code ("mutants" in `PROJECT.json`). Named bounds:
`Modulus` (spinlock counters: as small as the number of threads, so that they wrap),
`Counters` (rwlock: one more than the fibers), `MaxItems`, `RetireAt`, `Size` and `MaxSends` (channels:
the ring is full after one sender's messages and wraps after both), `Kilo` (1000 in the code),
`Word` (2^32), `MaxTicks`, `MaxTime` and `Requests` (sleepers: for each shim a request that rounding
down would cut short, and several with the same wake time), and the lengths of the programs in
`MCFiberProgram`. Runs that stop at such a bound or crash at the gate (`program`), or in which everybody may wait for a
signal nobody owes them, do not check deadlock; all others do. Symmetry is used only by `MpmcFifo`, for
safety.

Where a run has no `TypeOK` of its own, its main invariant contains it.

## 4. Fairness

A thread that can take a step takes it in the end (the kernel schedules it), and a fiber inside
an operation goes on. Nothing makes a fiber *start* an operation, except where it
holds something: a holder releases. A weak swap does not fail without cause for ever (strong
fairness of the swap). Three cases need more than that, and the runs say so:

- *Two threads and a mutex*: two threads can steal one fiber from each other for ever, each time
  before it runs, so `program_live` uses one thread.
- *Events*: only a thread that `fiber_scheduler_next` gave nothing polls (`src/fiber_manager.c:192`), and
  fibers that never wait can keep every thread from it. No fairness of `GoesIdle` is assumed; `ReadyIsNoticed` has the
  premise that again and again some thread is idle. A thread that polls handles what it was given,
  and returns to the scheduler when there is nothing left.
- *Channels*: senders and receivers are in a loop of calls, so each of them keeps running. A swap
  of the ring buffer that could succeed again and again does so in the end (strong fairness of
  `PushCas` and `PopCas`), which is what a weak swap promises. Being overtaken is not excluded by
  that; it ends because the others have finitely many messages to pass.

## 5. Proofs

`FiberLockProofs`, the spinlock, from the assumption that there are finitely many threads, at most
`Modulus`:

- `TicketInvariant`: `SpinSpec => []TicketInv`. The outstanding tickets, as offsets from the ticket
  being served, are distinct and below the number of tickets given out. Mutual exclusion is
  not inductive by itself: it holds after an unlock only because no other thread has
  the next ticket. A trylock succeeds only on a word with equal counters, which the
  invariant turns into "nobody is inside".
- `SpinlockMutualExclusion`: `SpinSpec => []MutualExclusion`, from it.

`FiberLockProofs`, the semaphore, for every finite set of fibers and every initial value:

- `SemaphoreInvariant`: the inductive invariant. `CounterInv` says how many fibers are between
  the decrement of their wait and the increment of their post; the queue holds each waiting fiber at most once,
  and a linked entry belongs to a parked fiber; a trywait swaps only a positive counter.
- `SemaphoreWithinValue`: `SemSpec => []WithinValue`. A wait that returns at once leaves the counter
  non-negative, so at most `Value` fibers are counted, holders among them; a post that wakes
  passes its own unit on.
- `SemaphoreCounter`: `SemSpec => []CounterInv`, and `SemaphoreTypeOK`: `SemSpec => []SemTypeOK`.

`FiberRwlockProofs`, for every finite set of fibers smaller than the range of a counter of the word:

- `RwlockInvariant`: `Spec => []RwlockInv`, the inductive invariant. `WordInv` alone does not
  survive a wake-up: that the popped fiber waits, that it waits once, and that a reader in the
  write queue is impossible, are facts about the queues (`QueuesInv`), and that the waker stops
  at the right count is one about the wakers (`WakersInv`). `WordInv` also needs
  `NobodyWaitsForFreeLock`, since a fiber that finds somebody waiting queues up behind them
  without looking at who holds the lock. The proof counts fibers by place and shows how each step shifts the
  counts (`Shift`); no counter overflows because the fiber that enters is not among the counted ones.
- `RwlockWord`, `RwlockExclusion`, `RwlockNobodyWaitsForFreeLock`, from it. The first
  includes that the assertions of the two unlocks hold.

`FiberChannelProofs`, for all finite sets of senders and receivers, every
`MaxSends` and every `Size` above 1. `PlacesInv` says that every fiber is in the code of the
kind of channel chosen at the start, so each theorem below has to look at a few actions only:

- `WorkQueueHasOneWorker`: `Spec => []OneWorker`. The invariant `WorkInv` adds
  the balance of the counters: every counted item is on its way into the fifo, in it, taken, or
  in `old_out_count`. Without it nothing says that `in_count` reaches 0 only when the
  worker has taken everything.
- `RingSlotsHaveOneOwner`: `Spec => []SlotsHaveOneOwner`. `RingInv` bounds what the
  calls have read by what is there (`ReadInv`), says what a swap that is going to succeed claims
  (`SwapInv`), and that the claimed positions lie in one window of `Size` positions and are distinct
  (`ClaimInv`); positions of one window have different slots.
- `SignalsWakeOnce`: `Spec => []WokenOnce`. `WaitInv` describes the stack of
  the multi-signal without following it: its pointers stay among the fibers that wait and that no
  raiser has taken, no fiber is pointed to twice, the head being a pointer too, and what
  a call has read is current as long as the counter is. This excludes that a fiber which was
  taken, woken, and waits again is taken a second time by a raiser with an old snapshot. `SavedInv`, a part of
  it, is about the context: the scratch word of every fiber that sleeps or was woken has been set by its
  maintenance, so a raiser did not schedule it before its context was saved.

`FiberLockProofs`, the condition variable, for every finite set of fibers:

- `CondInvariant`: `Spec => []CondInv`. `BalanceInv` is the sum that `CountInv` states, with the one
  that a signal takes off before it looks (`Short`). It needs to know that the holder of
  `internal_mutex` is the only one with a count to work off (`MutexInv`), that the queue holds each
  waiting fiber once (`QueueInv`), and `PresentInv`: the first entries of the queue, as many as a
  waker still owes, were there when it took its count.
- `CondCount`: `Spec => []CountInv`, and the action property `CondNoStolenWakeup`:
  `Spec => NoStolenWakeup`, from it.

`WorkStealingDequeProofs`, for every initial size, every number of thieves and every `MaxItems`:

- `DequeImplements`: `Spec => ImplementsDeque`, the refinement of `StealableDeque`. The invariant
  `DequeInv` says where the owner stands between the steps of a push or pop (`OwnerInv`), that the
  items take fewer positions than the array has slots (`WindowInv`), and that what a thief has
  read is good as long as `top` has not moved (`ThiefInv`), which is why an old array may be read. Each
  step is then shown to be a step of the abstract deque or to leave it as it is; the items are the
  positions from `top` to `End`, where `End` is `bottom`, or one more while a pop has lowered it and
  not yet decided.
- `DequeNoStaleSlot`: `Spec => []NoStaleSlot`, from the same invariant.
- `SizeAssumption` (arrays double) is an assumption of `WorkStealingDeque`, because
  it is about `2^k` for every `k`, which takes an induction over data. TLC evaluates it.

`FiberProgramProofs` and the three modules it extends, for every number of threads, every finite set of fibers, and whatever sequences
of calls the fibers make, about `UnrefusedSpec` (section 2, "The yield gate"; under `Spec` the last two
are false, section 6):

- `KernelOneThreadPerFiber`: `UnrefusedSpec => []OneThreadPerFiber`.
- `KernelNoFiberLost`: `UnrefusedSpec => []NoFiberLost`.
- `KernelNeverAborts`: `UnrefusedSpec => []NoAborts`: no assertion of the runtime fails in a step of any thread,
  and with one thread no fiber ever has to wait for the lock of the yield gate. With more threads that wait is
  possible and ends the program (section 6); the theorems are about the steps up to it. The invariant has
  `Alone => r.pc # "crash"` for each fiber's record `r`: a fiber that finds the lock taken is not the one inside, and both are
  current, each in a thread of its own.

They follow from `KernelInvariant`, the inductive invariant `KernelInv`. What each part is for:

| Part | Says | Needed because |
|---|---|---|
| `KernelTypes`, `QueuesInv` | types; no fiber is twice in the run queues, or twice in the wait queue | a push must not duplicate, a pop takes away the only copy |
| `RecordInv`, `CallsInv` | how `pc`, `ret`, `after`, `seen` and `next` of one fiber agree | a fiber that returns from a yield goes on at a place of its own code |
| `ThreadsInv` | a fiber is current in one thread, its context is saved in one, and never both | the test of a fiber's state and the switch to it are apart |
| `LeavingInv` | why a fiber that is not `RUNNING` is leaving its thread: the field of the thread's maintenance that names it | maintenance acts after the switch, on what was noted before it |
| `PlacesInv` | wait queue, run queues, `next` of a yield and `join_info` exclude each other, and which states a fiber in each of them may have | "exactly one place"; a `SAVING` fiber may be queued before its context is saved |
| `FoundInv` | a fiber in a given state is in one of the places for this state | "at least one place" |
| `LocationsInv` | a wait location is empty until maintenance fills it, and is used once | `set_and_wait` writes it on the other side of a switch |

The barrier adds `PartiesInv`: a fiber that still has a barrier call to make is a party, so the count of the barrier is not 0 when it divides.
The proof has one lemma per action, and lemmas for what a switch, a wait or a wake does to the
record of a fiber (`SwitchToUpdate`, `StopUpdate`, `ReadyUpdate`), since an update of many fields of a
record has to be taken apart for the provers. Assumptions: `ManagerAssumption` (at least one thread, finitely many fibers)
and `ProgramsAssumption` (programs are sequences of calls of the modelled functions).

Each inductive invariant was checked by TLC on the instance of the corresponding run before it was proved.

Checked by TLC only:

- all liveness (fairness and ENABLED are out of the prover's reach);
- `ImplementsQueue`, and the owner of each node of the lists (`NodesAreConserved`): their mapping follows a linked
  list, which is a recursive definition, and to reason about it takes an induction over data; `NoUseAfterFree` of the
  mpmc queue stands on the same list;
- `InOrder`, which is about sequences of unbounded length;
- of the programs of fibers: `MutualExclusion` and `SingleConsumer`, which hold for programs that keep mutex and
  barrier apart, `JoinGetsResult`, `ClearIsAnswered` and `FreedIsUnused`, which hold for programs in
  which one fiber disposes of another (section 6), and `NobodyLeavesEarly`, which holds for barriers used once or by two fibers. As
  theorems they would be about those programs only;
- `NobodyForgotten` and `NoneOverdue` of the events.

## 6. Known limits of the passing runs

The passing runs describe uses in which the code works. The same models, with other constants,
have counterexamples in uses that the code does not exclude:

| Module, change to the configuration | Property | What happens |
|---|---|---|
| `MCFiberProgram`, `Spec` in place of `UnrefusedSpec` | `NoFiberLost`, `NoAssertFails` | a refused yield drops the fiber it has popped; a finished fiber whose last yield is refused runs into `assert(0)` |
| `MCFiberProgram`, two threads | `~Crashed` | two threads yield at the same time and meet at the lock of the gate, which makes one of them wait: the assertion at `src/fiber_manager.c:431` or the null pointer at `include/mpsc_fifo.h:54` ends the program (section 2) |
| `MCFiberProgram`, program `<<join(a)>>`, `<<>>`, `<<tryjoin(a)>>` | `JoinGetsResult` | a finishing fiber leaves WAIT_FOR_JOINER although its joiner waits; tryjoin wakes that joiner, which returns without the result |
| `MCFiberProgram`, program `<<join(a)>>`, `<<>>`, `<<detach(a)>>` | `ClearIsAnswered` | detach and the finished fiber both take the joiner out of `join_info`; one of them waits for ever |
| `MCFiberEvent`, `Acceptors = {x1, x2}`, no other fibers | `BlockingCallsBlock` | accept waits once and tries once more; the loser reports EAGAIN |
| `MCFiberEvent`, no change | `BlockingCallsBlock` | a write, connect or accept whose number is closed while it waits returns -1 without setting errno, which still is EAGAIN or EINPROGRESS from the attempt before the wait (`src/fiber_io.c:411`, `496`) |
| `MCFiberEvent`, `Acceptors = {x1}`, no readers or writers | `BlockingCallsBlock` | also: the number is closed and given out again; a poller still holds an event of the old descriptor, wakes the accept on the new one, and its second attempt reports EAGAIN |
| `MCFiberEvent`, `Racing = TRUE` | `NobodyForgotten` | a wait that begins between `fiber_fd_closed` and the system's close is never ended |
| `MCFiberEvent`, `Parallel = TRUE` | `NoneOverdue` | the waker follows `next` on the stack of a fiber that already runs and may have cleared it by sleeping again |
| `MCFiberEvent`, no change | `ConnectMeansConnected` | as with accept: an event of the old descriptor ends the wait of a connect on the reused number, SO_ERROR is 0, and connect reports success before the connection is made |
| `MCFiberEvent`, a request of `Word` or more ticks | `NotEarly` | `seconds * 1000` is computed in 32 bits; a sleep of more than about 49 days ends early |
| `MCFiberProgram`, `Programs <- ReusePrograms` | `NobodyLeavesEarly` | three fibers meet twice in a row on two threads: a fiber of the second round enters the queue while the last of the first round still wakes, is woken in place of one of the first, and leaves early (the second use in `test/test_barrier.c:55`, "the barrier should be reusable", comes after a join of all fibers and is not affected; nor are two fibers) |
| `FiberChannel`, three senders, three receivers, `Size = 2` | `AllReceived` without its premise `[]~Mixed` | senders and receivers of the multi channel wait in one list and a wake-up takes whoever is on top: it may wake a fiber that cannot go on, and somebody who could sleeps on |

The passing run `events` has no acceptor for this reason, and checks neither `BlockingCallsBlock` nor
`ConnectMeansConnected`. With one acceptor and one writer in place of
its reader, `NobodyForgotten` and `ReadyIsNoticed` hold. `BlockingCallsBlock` holds for the run's
fibers without the closer, and for an acceptor alone.

Two differences between the ticks of the sleepers and real time are outside of the model, which
counts ticks as the code does: a wake time is computed from `timer_trigger_count`, which lags
while no thread polls (`src/fiber_event_native.c:385`), so such a sleep may end early by the lag; and a tick lasts
`FIBER_TIME_RESOLUTION_MS` = 5 ms (`include/fiber_event.h:15`), whereas the sum at line 380
is in milliseconds, so sleeps last about five times as long as asked.

Families of functions with the same body (`read`, `readv`; `recv`, `recvfrom`, `recvmsg`; `write`,
`writev`, `send`, `sendto`, `sendmsg`) are one action, and the map names one of them.

## 7. Plan

Done: spinlock, lists, mpmc queue, deque, ring buffer, work queue, the kernel with mutex, barrier and
fibers, rwlock, semaphore, condition variable, signals, channels, events, and the proofs above. Next, in this order:

1. Maintenance that unlocks a mutex on the full kernel: `fiber_manager_do_maintenance` keeps its
   `manager` across `fiber_mutex_unlock_internal`, which may yield and come back on another thread.
2. Proofs: mutual exclusion of the mutex and the hand-shakes of fiber.c on the full kernel, from `KernelInv`.
3. Registration of hazard pointer records, which happens at the first use on each thread, beside a scan.
4. `pipe` and `socketpair`, which set up two numbers the way `socket` sets up one; `poll` and `select`.

## 8. Not modelled

- What the plan lists and no module covers.
- `fiber_context.c`, `machine_specific.h`: stacks, assembly, intrinsics. A switch is atomic.
- `fiber_event_ev.c`: libev is outside of the repository. Solaris branches: not the build.
- `fiber_scheduler_dist.c`: not compiled by the Makefile; the fifo it uses is modelled.
- `fiber_io_lock_thread`, which makes the shims call the system directly; error and hang-up events of epoll.
- `fiber_shutdown` and the destroy functions: they free what nobody may use any more.
- The cache of mpmc nodes: a ring buffer of free nodes, behind an allocation.
- Failing allocations and statistics.
- `add_lock` of `schedule_lock.c`: no caller.
- Weaker memory orders than x86 provides.
