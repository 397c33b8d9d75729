----------------------------- MODULE MCFiberProgram -----------------------------
(* Programs: who locks the mutex, who meets at the barrier, and who joins  *)
(* or detaches whom.                                                       *)
EXTENDS FiberProgram

CONSTANTS a, b

Prog(forMain, forA, forB) ==
  [f \in Apps |-> CASE f = Main -> forMain [] f = a -> forA [] OTHER -> forB]

join(f) == <<"join", f>>
tryjoin(f) == <<"tryjoin", f>>
detach(f) == <<"detach", f>>
yield == <<"yield", Null>>
lock == <<"lock", Null>>
trylock == <<"trylock", Null>>
unlock == <<"unlock", Null>>
barrier == <<"barrier", Null>>

\* Every fiber is disposed of once: joined, joined by polling, or detached,
\* before or after it finishes.
DisciplinedPrograms ==
  { Prog(<<tryjoin(a), join(a)>>, <<join(b)>>, <<>>),
    Prog(<<tryjoin(a), detach(a)>>, <<detach(b)>>, <<>>) }

\* Two fibers contend for the mutex, one of them twice and the other yielding
\* with it, while Main waits for one of them.
MutexPrograms ==
  { Prog(<<join(a)>>, <<lock, unlock, lock, unlock>>, <<trylock, yield, unlock>>) }

\* Three fibers meet once, or two of them twice in a row while Main
\* waits for one.
BarrierPrograms ==
  { Prog(<<barrier>>, <<barrier>>, <<barrier>>),
    Prog(<<join(a)>>, <<barrier, barrier>>, <<barrier, barrier>>) }

SafePrograms == DisciplinedPrograms \cup MutexPrograms \cup BarrierPrograms

\* Three fibers contend for the mutex.
ContendedPrograms ==
  { Prog(<<lock, yield, unlock, join(a), join(b)>>, <<lock, yield, unlock, lock, unlock>>,
         <<trylock, yield, unlock>>) }

\* Three fibers contend, or meet twice in a row, and Main waits for the others.
LivePrograms ==
  DisciplinedPrograms \cup ContendedPrograms \cup
  { Prog(<<join(a), join(b)>>, <<>>, <<yield>>),
    Prog(<<barrier, barrier, join(a), join(b)>>, <<barrier, yield, barrier>>, <<yield, barrier, barrier>>) }

\* Three fibers meet twice in a row on several threads, which the barrier
\* does not bear.
ReusePrograms ==
  { Prog(<<barrier, barrier>>, <<barrier, barrier>>, <<barrier, barrier>>) }
=============================================================================
