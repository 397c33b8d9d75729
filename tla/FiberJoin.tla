------------------------------ MODULE FiberJoin ------------------------------
(***************************************************************************)
(* The life of a fiber, fiber.c: fibers that yield, finish, and join,      *)
(* try to join or detach one another, on top of the fiber runtime.  Each   *)
(* fiber runs a short program, a sequence of calls, and then returns from  *)
(* its run function; Main yields forever instead.  Module FiberProgram     *)
(* adds calls on a mutex and the specification.                            *)
(***************************************************************************)
EXTENDS FiberManager

CONSTANT Programs       \* the programs explored: functions from Apps

\* What a fiber may call.
CallSet ==
  ({"join", "tryjoin", "detach"} \X Apps)
  \cup ({"yield", "lock", "trylock", "unlock", "barrier"} \X {Null})

ASSUME ProgramsAssumption == \A p \in Programs : p \in [Apps -> Seq(CallSet)]

\* A fiber is joined or detached by one fiber only, which is another one.
ASSUME DisposerAssumption ==
  \A p \in Programs : \A f, g \in Apps :
    \A i \in DOMAIN p[f], j \in DOMAIN p[g] :
      /\ p[f][i][2] # f
      /\ p[f][i][2] = p[g][j][2] /\ p[f][i][2] \in Apps => f = g

VARIABLES
  detach_state,         \* the_fiber->detach_state
  result,               \* the_fiber->result; a fiber's result is its name
  todo,                 \* the calls each fiber still has to make
  taken                 \* {<<f, g, v>>}: f joined g successfully and got v

jvars == <<detach_state, result, todo, taken>>

JoinInit ==
  /\ detach_state = [f \in Apps |-> IF f = Main THEN "DETACHED" ELSE "NONE"]
  /\ result = [f \in Apps |-> Null]
  /\ todo \in Programs
  /\ taken = {}

\* The call fiber f is making, and its argument.
Calls(m, f, place, op) ==
  /\ At(m, f, place)
  /\ todo[f] # <<>>
  /\ Head(todo[f])[1] = op

Arg(f) == Head(todo[f])[2]

\* The call returns; f does not make the next calls if they are on a fiber
\* it has joined.
Return(f) ==
  \E k \in 1 .. Len(todo[f]) :
    LET joined(i) == \E t \in taken' : t[1] = f /\ t[2] = todo[f][i][2] IN
    /\ \A i \in 2 .. k : joined(i)
    /\ k < Len(todo[f]) => ~joined(k + 1)
    /\ todo' = [todo EXCEPT ![f] = SubSeq(@, k + 1, Len(@))]

-----------------------------------------------------------------------------
(* fiber_join                                                              *)

\* The plain read of detach_state comes first ...
JoinCheck(m, f) ==
  /\ Calls(m, f, "run", "join")
  /\ IF detach_state[Arg(f)] = "DETACHED"
     THEN taken' = taken /\ Return(f) /\ UNCHANGED fib
     ELSE Goes(f, "join") /\ UNCHANGED <<todo, taken>>
  /\ OnlyFib /\ UNCHANGED <<detach_state, result>>

\* ... and the exchange later.
JoinExchange(m, f) ==
  LET g == Arg(f) IN
  /\ Calls(m, f, "join", "join")
  /\ detach_state' = [detach_state EXCEPT ![g] = "WAIT_TO_JOIN"]
  /\ CASE detach_state[g] = "NONE" ->
            SetAndWait(m, f, g, "joined") /\ UNCHANGED <<todo, taken>>
       [] detach_state[g] = "WAIT_FOR_JOINER" ->
            /\ taken' = taken \cup {<<f, g, result[g]>>}
            /\ Goes(f, "clear") /\ UNCHANGED <<mgr, join_info, todo>>
       [] OTHER ->
            /\ taken' = taken /\ Return(f)
            /\ Goes(f, "run") /\ UNCHANGED <<mgr, join_info>>
  /\ UNCHANGED <<runq, from, lock_using, waitq, result>>

\* The joiner runs again: its own result field holds the answer.
JoinReturns(m, f) ==
  /\ At(m, f, "joined")
  /\ taken' = taken \cup {<<f, Arg(f), result[f]>>}
  /\ result' = [result EXCEPT ![f] = Null]
  /\ Return(f)
  /\ Goes(f, "run")
  /\ OnlyFib /\ UNCHANGED detach_state

(* fiber_tryjoin: its two reads of detach_state are one step, since both   *)
(* other answers return FIBER_ERROR.                                       *)

TryJoinCheck(m, f) ==
  /\ Calls(m, f, "run", "tryjoin")
  /\ IF detach_state[Arg(f)] = "WAIT_FOR_JOINER"
     THEN Goes(f, "tryjoin") /\ UNCHANGED <<todo, taken>>
     ELSE taken' = taken /\ Return(f) /\ UNCHANGED fib
  /\ OnlyFib /\ UNCHANGED <<detach_state, result>>

TryJoinExchange(m, f) ==
  LET g == Arg(f) IN
  /\ Calls(m, f, "tryjoin", "tryjoin")
  /\ detach_state' = [detach_state EXCEPT ![g] = "WAIT_TO_JOIN"]
  /\ IF detach_state[g] = "WAIT_FOR_JOINER"
     THEN /\ taken' = taken \cup {<<f, g, result[g]>>}
          /\ Goes(f, "clear") /\ UNCHANGED todo
     ELSE taken' = taken /\ Return(f) /\ Goes(f, "run")
  /\ OnlyFib /\ UNCHANGED result

(* fiber_detach                                                            *)

Detach(m, f) ==
  LET g == Arg(f) IN
  /\ Calls(m, f, "run", "detach")
  /\ detach_state' = [detach_state EXCEPT ![g] = "DETACHED"]
  /\ taken' = taken
  /\ IF detach_state[g] \in {"WAIT_FOR_JOINER", "WAIT_TO_JOIN"}
     THEN Goes(f, "clear") /\ UNCHANGED todo
     ELSE Return(f) /\ UNCHANGED fib
  /\ OnlyFib /\ UNCHANGED result

(* fiber_manager_clear_or_wait on the location of fiber g, and then making *)
(* the fiber found there ready: the tail of join, tryjoin and detach.      *)

\* making the fiber READY without scheduling it
ReadiedOnly(m, f, g, place) ==
  /\ join_info' = [join_info EXCEPT ![g] = Null]
  /\ fib' = [fib EXCEPT ![join_info[g]].state = "READY", ![f].pc = place]
  /\ UNCHANGED runq

Readied(m, f, g, place) ==
  LET to_schedule == join_info[g] IN
  /\ join_info' = [join_info EXCEPT ![g] = Null]
  /\ fib' = [fib EXCEPT ![to_schedule].state = "READY", ![f].pc = place]
  /\ runq' = Schedule(m, to_schedule)

Clear(m, f) ==
  LET g == Arg(f) IN
  /\ At(m, f, "clear")
  /\ join_info[g] # Null
  /\ Readied(m, f, g, "run")
  /\ taken' = taken
  /\ Return(f)
  /\ UNCHANGED <<mgr, from, lock_using, waitq, detach_state, result>>

ClearWaits(m, f) ==
  /\ At(m, f, "clear")
  /\ join_info[Arg(f)] = Null
  /\ fib' = CallYield(f, "clear")
  /\ OnlyFib /\ UNCHANGED jvars

(* fiber_yield                                                             *)

Yield(m, f) ==
  /\ Calls(m, f, "run", "yield")
  /\ taken' = taken
  /\ Return(f)
  /\ fib' = CallYield(f, "run")
  /\ OnlyFib /\ UNCHANGED <<detach_state, result>>

MainYields(m) ==
  /\ At(m, Main, "run")
  /\ todo[Main] = <<>>
  /\ fib' = CallYield(Main, "run")
  /\ OnlyFib /\ UNCHANGED jvars

-----------------------------------------------------------------------------
(* fiber_mark_completed and fiber_join_routine                             *)

Finish(m, f) ==
  /\ At(m, f, "run") /\ f # Main
  /\ todo[f] = <<>>
  /\ result' = [result EXCEPT ![f] = f]
  /\ Goes(f, IF detach_state[f] # "DETACHED" THEN "finish" ELSE "done")
  /\ OnlyFib /\ UNCHANGED <<detach_state, todo, taken>>

\* a fiber that does not wait for its joiner
FinishNotWaiting(m, f) ==
  /\ At(m, f, "finish")
  /\ detach_state' = [detach_state EXCEPT ![f] = "WAIT_FOR_JOINER"]
  /\ Goes(f, IF detach_state[f] = "WAIT_TO_JOIN" THEN "answer" ELSE "done")
  /\ OnlyFib /\ UNCHANGED <<result, todo, taken>>

FinishExchange(m, f) ==
  /\ At(m, f, "finish")
  /\ detach_state' = [detach_state EXCEPT ![f] = "WAIT_FOR_JOINER"]
  /\ CASE detach_state[f] = "NONE" -> SetAndWait(m, f, f, "done")
       [] detach_state[f] = "WAIT_TO_JOIN" ->
            Goes(f, "answer") /\ UNCHANGED <<mgr, join_info>>
       [] OTHER -> Goes(f, "done") /\ UNCHANGED <<mgr, join_info>>
  /\ UNCHANGED <<runq, from, lock_using, waitq, result, todo, taken>>

\* waking the joiner without handing it the result
AnswerNoResult(m, f) ==
  /\ At(m, f, "answer")
  /\ join_info[f] # Null
  /\ Readied(m, f, f, "done")
  /\ UNCHANGED <<mgr, from, lock_using, waitq, jvars>>

\* The joining fiber is waiting for us, or about to be.
Answer(m, f) ==
  /\ At(m, f, "answer")
  /\ join_info[f] # Null
  /\ result' = [result EXCEPT ![join_info[f]] = result[f]]
  /\ Readied(m, f, f, "done")
  /\ UNCHANGED <<mgr, from, lock_using, waitq, detach_state, todo, taken>>

AnswerWaits(m, f) ==
  /\ At(m, f, "answer")
  /\ join_info[f] = Null
  /\ fib' = CallYield(f, "answer")
  /\ OnlyFib /\ UNCHANGED jvars

\* A fiber that runs past its last yield fails assert(0 && "should never
\* get here").
Done(m, f) ==
  /\ At(m, f, "done")
  /\ fib' = [CallYield(f, "abort") EXCEPT ![f].state = "DONE"]
  /\ mgr' = [mgr EXCEPT ![m].done_fiber = f]
  /\ UNCHANGED <<runq, from, lock_using, waitq, join_info>>
  /\ UNCHANGED jvars

-----------------------------------------------------------------------------
JoinStep(m) ==
  \/ \E f \in Apps \cap {mgr[m].cur} :
       \/ JoinCheck(m, f)
       \/ JoinExchange(m, f)
       \/ JoinReturns(m, f)
       \/ TryJoinCheck(m, f)
       \/ TryJoinExchange(m, f)
       \/ Detach(m, f)
       \/ Clear(m, f)
       \/ ClearWaits(m, f)
       \/ Yield(m, f)
       \/ Finish(m, f)
       \/ FinishExchange(m, f)
       \/ Answer(m, f)
       \/ AnswerWaits(m, f)
       \/ Done(m, f)
  \/ MainYields(m)

-----------------------------------------------------------------------------
JoinTypeOK ==
  /\ detach_state \in [Apps -> {"NONE", "WAIT_FOR_JOINER", "WAIT_TO_JOIN", "DETACHED"}]
  /\ result \in [Apps -> Apps \cup {Null}]
  /\ taken \subseteq Apps \X Apps \X (Apps \cup {Null})

\* A successful fiber_join or fiber_tryjoin returns what the joined fiber's
\* run function returned, whichever of the two came first.
JoinGetsResult == \A t \in taken : t[3] = t[2]

\* A fiber that spins in fiber_manager_clear_or_wait has a partner: someone
\* is at the location, or will be as soon as its thread has switched.
ClearIsAnswered ==
  \A f \in Apps :
    LET place == {fib[f].pc, fib[f].ret, fib[f].after}
        Answered(g) == join_info[g] # Null \/ \E m \in Managers : mgr[m].set_wait_location = g
    IN /\ "clear" \in place => Answered(Arg(f))
       /\ "answer" \in place => Answered(f)

\* What fiber_destroy has freed is not used again: no thread executes it, it
\* is in no queue or wait location, and no call in progress is about to
\* touch it.
FreedIsUnused ==
  \A g \in Apps : fib[g].state = "freed" =>
    /\ ~IsCurrent(g)
    /\ RunPlaces(g) \cup WaitPlaces(g) = {}
    /\ \A f \in Apps : fib[f].pc \in {"join", "tryjoin", "clear"} => Arg(f) # g

\* A fiber that is joined or detached once is run to its end and freed:
\* nobody is left waiting in fiber_mark_completed or fiber_join.
EveryFiberReclaimed == \A f \in Apps \ {Main} : <>(fib[f].state = "freed")

=============================================================================
