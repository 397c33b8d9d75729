--------------------------- MODULE FiberSpinlock ---------------------------
(***************************************************************************)
(* The ticket spin lock of src/src/fiber_spinlock.c.  The lock is two      *)
(* 32-bit counters in one 64-bit word: `users`, the next ticket to hand    *)
(* out, and `ticket`, the one being served.  Both wrap.                    *)
(***************************************************************************)
EXTENDS Integers, FiniteSets

CONSTANTS Threads,      \* the threads that use the lock
          Modulus       \* 2^32 in the code: number of values of a counter

\* A thread holds at most one ticket, so tickets are unambiguous as long as
\* there are no more threads than counter values.
ASSUME SpinAssumption ==
  /\ Modulus \in Nat \ {0, 1}
  /\ IsFiniteSet(Threads)
  /\ Cardinality(Threads) <= Modulus

VARIABLES ticket,       \* spinlock->state.counters.ticket
          users,        \* spinlock->state.counters.users
          at,           \* where each thread is
          my_ticket,    \* the local my_ticket of fiber_spinlock_lock
          loaded        \* the local old.counters.users / old_ticket

spinlock == <<ticket, users, at, my_ticket, loaded>>

Counter == 0 .. Modulus - 1

\* uint32_t increment
Inc(c) == IF c = Modulus - 1 THEN 0 ELSE c + 1

SpinInit ==
  /\ ticket = 0
  /\ users = 0
  /\ at = [t \in Threads |-> "idle"]
  /\ my_ticket = [t \in Threads |-> 0]
  /\ loaded = [t \in Threads |-> 0]

Moves(t, from, to) ==
  /\ at[t] = from
  /\ at' = [at EXCEPT ![t] = to]

-----------------------------------------------------------------------------
(* fiber_spinlock_lock: take a ticket, then spin until it is served.       *)

TakeTicket(t) ==
  /\ Moves(t, "idle", "spinning")
  /\ my_ticket' = [my_ticket EXCEPT ![t] = users]
  /\ users' = Inc(users)
  /\ UNCHANGED <<ticket, loaded>>

Served(t) ==
  /\ ticket = my_ticket[t]
  /\ Moves(t, "spinning", "locked")
  /\ UNCHANGED <<ticket, users, my_ticket, loaded>>

(* fiber_spinlock_trylock: read the word, force `ticket` to equal `users`  *)
(* in the expected value, and compare-and-swap in `users` + 1.             *)

TryRead(t) ==
  /\ Moves(t, "idle", "trying")
  /\ loaded' = [loaded EXCEPT ![t] = users]
  /\ UNCHANGED <<ticket, users, my_ticket>>

\* Without `old.counters.ticket = old.counters.users` the swap only asks
\* that the word has not changed.
TrySwapAnyTicket(t) ==
  /\ users = loaded[t]
  /\ Moves(t, "trying", "locked")
  /\ my_ticket' = [my_ticket EXCEPT ![t] = loaded[t]]
  /\ users' = Inc(loaded[t])
  /\ UNCHANGED <<ticket, loaded>>

TrySwap(t) ==
  /\ ticket = loaded[t]
  /\ users = loaded[t]
  /\ Moves(t, "trying", "locked")
  /\ my_ticket' = [my_ticket EXCEPT ![t] = loaded[t]]
  /\ users' = Inc(loaded[t])
  /\ UNCHANGED <<ticket, loaded>>

\* The word differs, or the weak compare-and-swap fails spuriously.
TryFail(t) ==
  /\ Moves(t, "trying", "idle")
  /\ UNCHANGED <<ticket, users, my_ticket, loaded>>

(* fiber_spinlock_unlock: a load and a store, not one atomic increment.    *)

UnlockRead(t) ==
  /\ Moves(t, "locked", "unlocking")
  /\ loaded' = [loaded EXCEPT ![t] = ticket]
  /\ UNCHANGED <<ticket, users, my_ticket>>

UnlockNoStore(t) ==
  /\ Moves(t, "unlocking", "idle")
  /\ ticket' = loaded[t]
  /\ UNCHANGED <<users, my_ticket, loaded>>

UnlockStore(t) ==
  /\ Moves(t, "unlocking", "idle")
  /\ ticket' = Inc(loaded[t])
  /\ UNCHANGED <<users, my_ticket, loaded>>

-----------------------------------------------------------------------------
SpinNext ==
  \E t \in Threads :
    \/ TakeTicket(t)
    \/ Served(t)
    \/ TryRead(t)
    \/ TrySwap(t)
    \/ TryFail(t)
    \/ UnlockRead(t)
    \/ UnlockStore(t)

\* A spinning thread keeps looping and a holder eventually unlocks; nobody
\* is obliged to ask for the lock.
SpinSpec ==
  /\ SpinInit /\ [][SpinNext]_spinlock
  /\ \A t \in Threads : WF_spinlock(Served(t) \/ UnlockRead(t) \/ UnlockStore(t))

-----------------------------------------------------------------------------
PCs == {"idle", "spinning", "trying", "locked", "unlocking"}

\* Every counter and local is a 32-bit value and every thread is at a known
\* place of the three functions.
SpinTypeOK ==
  /\ ticket \in Counter
  /\ users \in Counter
  /\ at \in [Threads -> PCs]
  /\ my_ticket \in [Threads -> Counter]
  /\ loaded \in [Threads -> Counter]

HasLock(t) == at[t] \in {"locked", "unlocking"}

\* fiber_spinlock_lock and fiber_spinlock_trylock never let two threads past
\* at once, across the wrap of both counters and with unlock's separate load
\* and store of `ticket`.
MutualExclusion ==
  \A t, u \in Threads : HasLock(t) /\ HasLock(u) => t = u

HasTicket(t) == at[t] \in {"spinning", "locked", "unlocking"}

\* Distance from b up to a around the counter.
Ahead(a, b) == IF a >= b THEN a - b ELSE a - b + Modulus

\* fiber_spinlock_lock serves its callers in the order in which they took
\* their tickets: whoever becomes the holder was nearest to `ticket` of all
\* that were waiting.
FirstComeFirstServed ==
  [][\A t, u \in Threads :
       /\ ~HasLock(t) /\ HasLock(t)'
       /\ u # t /\ at[u] = "spinning"
       => Ahead(my_ticket'[t], ticket) < Ahead(my_ticket[u], ticket)]_spinlock

\* The inductive invariant behind MutualExclusion: the tickets that are out
\* are distinct, they are the `Cardinality(Queue)` counter values that start
\* at `ticket`, `users` is the first value after them, and a holder's ticket,
\* like the value unlock has loaded, is `ticket` itself.
Queue == {t \in Threads : HasTicket(t)}

TicketInv ==
  /\ SpinTypeOK
  /\ \A t, u \in Queue : my_ticket[t] = my_ticket[u] => t = u
  /\ \A t \in Queue : Ahead(my_ticket[t], ticket) < Cardinality(Queue)
  /\ \/ Ahead(users, ticket) = Cardinality(Queue)
     \/ users = ticket /\ Cardinality(Queue) = Modulus
  /\ \A t \in Threads :
       /\ HasLock(t) => my_ticket[t] = ticket
       /\ at[t] = "unlocking" => loaded[t] = ticket

\* A thread that called fiber_spinlock_lock gets the lock, whatever lockers
\* and trylockers do meanwhile.
LockIsGranted ==
  \A t \in Threads : at[t] = "spinning" ~> at[t] = "locked"

=============================================================================
