------------------------- MODULE FiberKernelProofs --------------------------
(***************************************************************************)
(* The inductive invariant of the fiber runtime, and how the steps keep it *)
(* that leave every fiber where it is, switch to another or take one off   *)
(* its queue: for every number of threads and fibers and whatever the      *)
(* fibers' programs.                                                       *)
(***************************************************************************)
EXTENDS FiberProgram, TLAPS

(* Places in fiber_manager_yield, in the code of the fibers that calls it, *)
(* and in fiber_manager_thread_func.                                       *)
Yielding == {"next", "pop", "rdlock", "gate", "wrlock", "switch", "crash", "tomaint", "trysteal",
             "balance"}
Calling ==
  {"run", "wait", "waitlink", "wake", "woke", "locked", "left", "join", "joined",
   "tryjoin", "clear", "finish", "answer", "done"}
Threading == {"tf", "tfpop", "tfswitch"}

PcSet == Yielding \cup Calling \cup Threading \cup {"maint"}
RetSet == Calling \cup {"none", "abort"}
AppOrNull == Apps \cup {Null}
FiberOrNull == Fibers \cup {Null}
AfterSet == Calling \cup {"none", "abort", "next", "tf"}

FiberRecord ==
  [state : States, node : BOOLEAN, pc : PcSet, ret : RetSet, after : AfterSet,
   next : AppOrNull, seen : States, i : 0 .. Visits, local : Nat, count : Nat]

ManagerRecord ==
  [cur : Fibers, old : FiberOrNull, to_schedule : AppOrNull, done_fiber : AppOrNull,
   set_wait_location : AppOrNull, set_wait_value : AppOrNull]

RunqTypes == runq \in [0 .. 2 * NumThreads - 1 -> Seq(Apps)]

WaiterRecord == [fiber : Apps, linked : BOOLEAN]

WaitqTypes == waitq \in Seq(WaiterRecord)

DetachStates == {"NONE", "WAIT_FOR_JOINER", "WAIT_TO_JOIN", "DETACHED"}

KernelTypes ==
  /\ fib \in [Fibers -> FiberRecord]
  /\ mgr \in [Managers -> ManagerRecord]
  /\ RunqTypes /\ WaitqTypes
  /\ from \in [Managers -> Int] /\ \A m \in Managers : from[m] \in {2 * m, 2 * m + 1}
  /\ lock_using \in {-1, 0, 1}
  /\ join_info \in [Apps -> Apps \cup {Null}]
  /\ detach_state \in [Apps -> DetachStates]
  /\ todo \in [Apps -> Seq(CallSet)]

(* No fiber is twice in the run queues or in the queue of waiters.         *)
RunqInv ==
  \A q, r \in DOMAIN runq : \A i \in DOMAIN runq[q], j \in DOMAIN runq[r] :
    runq[q][i] = runq[r][j] => q = r /\ i = j

WaitqInv == \A i, j \in DOMAIN waitq : waitq[i].fiber = waitq[j].fiber => i = j

QueuesInv == RunqInv /\ WaitqInv

Queued == {f \in Apps : \E q \in DOMAIN runq : \E i \in DOMAIN runq[q] : runq[q][i] = f}
Waiters == {f \in Apps : \E i \in DOMAIN waitq : waitq[i].fiber = f}

(* What a fiber's own record says.  A fiber that yields goes on at ret, one *)
(* that was switched out at after, or in the yield if after is "next".     *)
Targets == Calling \ {"wait", "waitlink"}

(* One thread has nobody to meet at the gate.                              *)
Alone == NumThreads = 1

RecordOK(f, r) ==
  /\ f \in Apps => /\ r.pc \notin Threading
                   /\ r.state # "none"
                   /\ r.pc = "maint" => r.after \in Targets \cup {"next", "abort"}
  /\ f \in Managers => /\ r.pc \in Threading \cup {"maint"}
                       /\ r.ret = "none"
                       /\ r.pc = "maint" => r.after = "tf"
  /\ r.pc # "maint" => r.after = "none"
  /\ r.pc \in {"wait", "waitlink"} => r.ret \in {"locked", "left"}
  /\ r.pc \in Yielding \/ (r.pc = "maint" /\ r.after = "next") => r.ret \in Targets \cup {"abort"}
  /\ r.pc \in Targets \/ (r.pc = "maint" /\ r.after # "next") => r.ret = "none"
  /\ r.pc = "pop" => r.seen = r.state
  /\ r.pc \in {"rdlock", "gate", "wrlock", "switch", "crash", "tfswitch"} <=> r.next # Null
  /\ "abort" \in {r.ret, r.after} => r.state \in {"DONE", "freed"}
  /\ Alone => r.pc # "crash"

RecordInv == \A f \in Fibers : RecordOK(f, fib[f])

(* Where the fiber is in its own code, or goes on after the yield.         *)
Place(f) ==
  IF fib[f].pc \in Calling THEN fib[f].pc
  ELSE IF fib[f].ret # "none" THEN fib[f].ret ELSE fib[f].after

(* Within fiber_join and the like there is a fiber they are about.         *)
CallOK(f) ==
  Place(f) \in {"join", "joined", "tryjoin", "clear"} => todo[f] # <<>> /\ Head(todo[f])[2] \in Apps

CallsInv == \A f \in Apps : CallOK(f)

(* Whom the threads execute, and whose context they have just saved.       *)
ThreadsInv ==
  /\ \A m \in Managers :
       /\ {mgr[m].cur, mgr[m].old} \cap Managers \subseteq {m}
       /\ mgr[m].old # Null <=> fib[mgr[m].cur].pc = "maint"
  /\ \A m, n \in Managers :
       /\ mgr[m].cur = mgr[n].cur => m = n
       /\ mgr[m].old = mgr[n].old /\ mgr[m].old # Null => m = n
       /\ mgr[m].old # mgr[n].cur
  /\ \A f \in Fibers : fib[f].pc # "maint" => \E m \in Managers : mgr[m].cur = f

(* The fiber's context is saved and no maintenance for it is pending.      *)
Saved(f) == fib[f].pc = "maint" /\ \A m \in Managers : mgr[m].cur # f /\ mgr[m].old # f

(* A fiber that a thread executes is RUNNING or on its way out of the      *)
(* thread, for the reason that its state tells; and so is the fiber whose  *)
(* context has just been saved.                                            *)
LeavingInv ==
  \A m \in Managers, f \in Apps :
    /\ mgr[m].cur = f =>
         /\ fib[f].state \in {"RUNNING", "WAITING", "SAVING", "DONE"}
         /\ fib[f].state # "RUNNING" =>
              fib[f].pc \in {"waitlink", "next", "pop", "rdlock", "gate", "wrlock", "switch", "crash", "tomaint"}
         /\ fib[f].state = "WAITING" => mgr[m].set_wait_value = f
         /\ fib[f].state = "DONE" => mgr[m].done_fiber = f
    /\ mgr[m].old = f =>
         /\ fib[f].state \in {"READY", "WAITING", "SAVING", "DONE"}
         /\ fib[f].state = "READY" => mgr[m].to_schedule = f
         /\ fib[f].state = "WAITING" => mgr[m].set_wait_value = f
         /\ fib[f].state = "DONE" => mgr[m].done_fiber = f
    /\ mgr[m].to_schedule = f => mgr[m].old = f /\ fib[f].state = "READY"
    /\ mgr[m].done_fiber = f => f \in {mgr[m].cur, mgr[m].old} /\ fib[f].state = "DONE"
    /\ mgr[m].set_wait_value = f => f \in {mgr[m].cur, mgr[m].old} /\ fib[f].state = "WAITING"

(* The places where a fiber waits to be run or woken exclude each other.   *)
PlacesInv ==
  \A f \in Apps :
    /\ fib[f].node = (f \notin Waiters)
    /\ f \in Waiters =>
         \/ fib[f].state = "SAVING"
         \/ fib[f].state = "WAITING" /\ Saved(f)
    /\ f \in Queued =>
         /\ f \notin Waiters
         /\ \/ fib[f].state = "SAVING"
            \/ fib[f].state \in {"READY", "WAITING"} /\ Saved(f)
    /\ \A g \in Fibers : fib[g].next = f =>
         /\ f \notin Waiters \cup Queued
         /\ fib[f].state \in {"READY", "WAITING"} /\ Saved(f)
         /\ \A h \in Fibers : fib[h].next = f => h = g
    /\ \A g \in Apps : join_info[g] = f =>
         /\ f \notin Waiters \cup Queued
         /\ fib[f].state = "WAITING" /\ Saved(f)
         /\ \A h \in Apps : join_info[h] = f => h = g
         /\ \A h \in Fibers : fib[h].next # f

(* A fiber that no thread executes is somewhere.                           *)
FoundInv ==
  \A f \in Apps :
    /\ fib[f].state = "RUNNING" => \E m \in Managers : mgr[m].cur = f
    /\ fib[f].state = "DONE" => \E m \in Managers : mgr[m].done_fiber = f
    /\ fib[f].state = "SAVING" =>
         /\ f \in Queued \cup Waiters
         /\ \E m \in Managers : f \in {mgr[m].cur, mgr[m].old}
    /\ fib[f].state = "READY" =>
         \/ f \in Queued
         \/ \E g \in Fibers : fib[g].next = f
         \/ \E m \in Managers : mgr[m].to_schedule = f
    /\ fib[f].state = "WAITING" =>
         \/ f \in Queued \cup Waiters
         \/ \E g \in Fibers : fib[g].next = f
         \/ \E g \in Apps : join_info[g] = f
         \/ \E m \in Managers : mgr[m].set_wait_value = f

(* A wait location is used once: only the first exchange of detach_state   *)
(* finds NONE.                                                             *)
LocationsInv ==
  /\ \A m \in Managers :
       /\ mgr[m].set_wait_location = Null <=> mgr[m].set_wait_value = Null
       /\ \A g \in Apps : mgr[m].set_wait_location = g =>
            /\ join_info[g] = Null
            /\ detach_state[g] # "NONE"
            /\ \A n \in Managers : mgr[n].set_wait_location = g => n = m
  /\ \A g \in Apps : join_info[g] # Null => detach_state[g] # "NONE"

KernelInv ==
  /\ KernelTypes
  /\ QueuesInv
  /\ RecordInv
  /\ CallsInv
  /\ ThreadsInv
  /\ LeavingInv
  /\ PlacesInv
  /\ FoundInv
  /\ LocationsInv

CallsBarrier(f) == \E k \in DOMAIN todo[f] : todo[f][k][1] = "barrier"

PartiesInv == Count \in Nat /\ \A f \in Apps : CallsBarrier(f) => f \in parties /\ Count > 0

-----------------------------------------------------------------------------
(* What the invariant gives at once.                                       *)
LEMMA FibTypes ==
  ASSUME KernelInv
  PROVE  fib \in [Fibers -> FiberRecord]
  BY Zenon DEF KernelInv, KernelTypes

(* What the invariant says of the types of the variables.                  *)
LEMMA Types ==
  ASSUME KernelInv
  PROVE  /\ fib \in [Fibers -> FiberRecord] /\ mgr \in [Managers -> ManagerRecord]
         /\ \A m \in Managers : mgr[m].cur \in Fibers
         /\ RunqTypes /\ WaitqTypes /\ RunqInv /\ WaitqInv
         /\ from \in [Managers -> Int] /\ \A m \in Managers : from[m] \in {2 * m, 2 * m + 1}
         /\ lock_using \in {-1, 0, 1}
         /\ todo \in [Apps -> Seq(CallSet)]
         /\ detach_state \in [Apps -> DetachStates]
         /\ join_info \in [Apps -> Apps \cup {Null}]
  BY ZenonT(30) DEF KernelInv, KernelTypes, ManagerRecord, QueuesInv

Leaving == {"waitlink", "next", "pop", "rdlock", "gate", "wrlock", "switch", "crash", "tomaint"}

(* A maintenance fiber is executed by its own thread only, and only in     *)
(* thread_func; an application fiber that is not leaving is RUNNING.       *)
LEMMA Executes ==
  ASSUME KernelInv, NEW m \in Managers, NEW f \in Fibers, mgr[m].cur = f
  PROVE  /\ RecordOK(f, fib[f])
         /\ fib[f].pc \in Threading => f \in Managers
         /\ fib[f].pc \in Yielding \cup Calling => f \in Apps
         /\ f \in Apps /\ fib[f].pc \notin Leaving => fib[f].state = "RUNNING"
         /\ f \in Apps => fib[f].state \in {"RUNNING", "WAITING", "SAVING", "DONE"}
<1>1. RecordOK(f, fib[f])
  BY Zenon DEF KernelInv, RecordInv
<1>2. f \in Apps => /\ fib[f].pc \notin Leaving => fib[f].state = "RUNNING"
                    /\ fib[f].state \in {"RUNNING", "WAITING", "SAVING", "DONE"}
  BY ZenonT(40) DEF KernelInv, LeavingInv, Leaving
<1>. QED
  BY <1>1, <1>2, ZenonT(30) DEF RecordOK, Fibers, Threading, Yielding, Calling

-----------------------------------------------------------------------------
(* A step of the fiber f that thread m executes which leaves f in the      *)
(* thread, in the same state, and everybody else where they are.           *)
JoinSame(f) ==
  /\ detach_state' \in [Apps -> DetachStates]
  /\ \A g \in Apps : detach_state'[g] = "NONE" => detach_state[g] = "NONE"
  /\ todo' \in [Apps -> Seq(CallSet)]
  /\ \A g \in Apps : g # f => todo'[g] = todo[g]

QueuesSame ==
  /\ RunqTypes' /\ WaitqTypes' /\ QueuesInv'
  /\ Queued' = Queued /\ Waiters' = Waiters

OthersSame(f) ==
  /\ from' \in [Managers -> Int] /\ \A m \in Managers : from'[m] \in {2 * m, 2 * m + 1}
  /\ lock_using' \in {-1, 0, 1}
  /\ detach_state' \in [Apps -> DetachStates]
  /\ \A g \in Apps : detach_state'[g] = "NONE" => detach_state[g] = "NONE"
  /\ todo' \in [Apps -> Seq(CallSet)]
  /\ \A g \in Apps : g # f => todo'[g] = todo[g]
  /\ fib' \in [Fibers -> FiberRecord]
  /\ \A g \in Fibers : g # f => fib'[g] = fib[g]

Stays(m, f) ==
  /\ mgr[m].cur = f /\ fib[f].pc # "maint"
  /\ QueuesSame /\ OthersSame(f) /\ UNCHANGED <<mgr, join_info>>
  /\ fib'[f].state = fib[f].state
  /\ fib'[f].node = fib[f].node
  /\ fib'[f].next = fib[f].next
  /\ fib'[f].pc # "maint" /\ RecordOK(f, fib'[f])
  /\ f \in Apps => CallOK(f)'
  /\ f \in Apps /\ fib[f].state # "RUNNING" => fib'[f].pc \in Leaving

(* A step after which the thread still executes the fiber it did, with the *)
(* queues of the same contents, keeps the invariant.                       *)
LEMMA StaysKeeps ==
  ASSUME KernelInv, NEW m \in Managers, NEW f \in Fibers, Stays(m, f)
  PROVE  KernelInv'
<1>1. KernelTypes'
  BY Zenon DEF KernelInv, KernelTypes, RunqTypes, WaitqTypes, Stays, QueuesSame, OthersSame
<1>2. /\ \A g \in Fibers : g # f => fib'[g] = fib[g]
      /\ \A g \in Fibers : /\ fib'[g].state = fib[g].state
                            /\ fib'[g].node = fib[g].node
                            /\ fib'[g].next = fib[g].next
                            /\ fib'[g].pc = "maint" <=> fib[g].pc = "maint"
  BY Zenon DEF Stays, OthersSame
<1>3. RecordInv'
  BY <1>2, ZenonT(30) DEF KernelInv, RecordInv, Stays
<1>4. ThreadsInv'
  <2>1. \A n \in Managers : mgr[n].cur \in Fibers
    BY Zenon DEF KernelInv, KernelTypes, ManagerRecord
  <2>. QED
    BY <1>2, <2>1, ZenonT(40) DEF KernelInv, ThreadsInv, Stays
<1>5. LeavingInv'
  BY <1>2, SMTT(30) DEF KernelInv, LeavingInv, Stays, Leaving, Fibers
<1>6. PlacesInv'
  <2>1. \A g \in Fibers : Saved(g)' <=> Saved(g)
    BY <1>2, Zenon DEF Saved, Stays
  <2>. QED
    BY <1>2, <2>1, SMTT(30) DEF KernelInv, PlacesInv, Stays, QueuesSame, Fibers
<1>7. FoundInv'
  BY <1>2, SMTT(30) DEF KernelInv, FoundInv, Stays, QueuesSame, Fibers
<1>8. LocationsInv'
  <2>1. mgr' = mgr /\ join_info' = join_info
        /\ \A g \in Apps : detach_state'[g] = "NONE" => detach_state[g] = "NONE"
    BY Zenon DEF Stays, OthersSame
  <2>. QED
    BY <2>1, ZenonT(40) DEF KernelInv, LocationsInv
<1>9. CallsInv'
  <2>1. \A g \in Apps : g # f => Place(g)' = Place(g) /\ todo'[g] = todo[g]
    BY <1>2, SMTT(30) DEF Place, Stays, OthersSame, Fibers
  <2>. QED
    BY <2>1, ZenonT(30) DEF KernelInv, CallsInv, CallOK, Stays
<1>. QED
  BY <1>1, <1>3, <1>4, <1>5, <1>6, <1>7, <1>8, <1>9, Zenon DEF KernelInv, Stays, QueuesSame

-----------------------------------------------------------------------------
(* A context switch: thread m leaves f and resumes g.                      *)
QueuesKept ==
  /\ RunqTypes' /\ WaitqTypes' /\ QueuesInv'
  /\ Queued' = Queued /\ Waiters' = Waiters

FromOK ==
  from' \in [Managers -> Int] /\ \A m \in Managers : from'[m] \in {2 * m, 2 * m + 1}

RestKept ==
  /\ FromOK /\ lock_using' \in {-1, 0, 1}
  /\ join_info' = join_info /\ detach_state' = detach_state /\ todo' = todo

Switches(m, f, g) ==
  /\ mgr[m].cur = f /\ fib[f].pc # "maint" /\ f # g
  /\ QueuesKept /\ RestKept
  /\ fib' \in [Fibers -> FiberRecord] /\ mgr' \in [Managers -> ManagerRecord]
  /\ \A h \in Fibers : h \notin {f, g} => fib'[h] = fib[h]
  /\ \A n \in Managers : n # m => mgr'[n] = mgr[n]
  /\ fib'[f].pc = "maint" /\ fib'[f].next = Null /\ fib'[f].node = fib[f].node
  /\ RecordOK(f, fib'[f])
  /\ f \in Apps => CallOK(f)'
  /\ f \in Apps => fib'[f].state = IF fib[f].state = "RUNNING" THEN "READY" ELSE fib[f].state
  /\ fib'[g].pc = fib[g].pc /\ fib'[g].ret = fib[g].ret /\ fib'[g].after = fib[g].after
  /\ fib'[g].next = fib[g].next /\ fib'[g].node = fib[g].node
  /\ fib'[g].state = "RUNNING" /\ RecordOK(g, fib'[g])
  /\ fib[f].next \in {g, Null}
  /\ Saved(g)
  /\ g \in Apps => fib[f].next = g
  /\ g \in Managers => g = m
  /\ mgr'[m].cur = g /\ mgr'[m].old = f
  /\ mgr'[m].to_schedule = IF f \in Apps /\ fib[f].state = "RUNNING" THEN f ELSE mgr[m].to_schedule
  /\ mgr'[m].done_fiber = mgr[m].done_fiber
  /\ mgr'[m].set_wait_location = mgr[m].set_wait_location
  /\ mgr'[m].set_wait_value = mgr[m].set_wait_value

(* A switch of contexts, fiber_manager_switch_to, keeps the invariant.     *)
LEMMA SwitchesKeeps ==
  ASSUME KernelInv, NEW m \in Managers, NEW f \in Fibers, NEW g \in Fibers, Switches(m, f, g)
  PROVE  KernelInv'
<1>0. /\ Null \notin Fibers /\ Apps \cap Managers = {} /\ Fibers = Apps \cup Managers
  BY ManagerAssumption, ZenonT(30) DEF Fibers
<1>1. KernelTypes'
  BY ZenonT(30) DEF KernelInv, KernelTypes, RunqTypes, WaitqTypes, Switches, QueuesKept, RestKept, FromOK
<1>2. RecordInv'
  BY ZenonT(30) DEF KernelInv, RecordInv, Switches
<1>3. mgr[m].old = Null
  BY SMTT(30) DEF KernelInv, ThreadsInv, Switches
<1>4. \A n \in Managers : n # m =>
        mgr[n].cur \notin {f, g} /\ mgr[n].old \notin {f, g} /\ mgr'[n] = mgr[n]
  BY SMTT(30) DEF KernelInv, ThreadsInv, Switches, Saved
<1>5. \A n \in Managers : mgr[n].cur \in Fibers
  BY Types, ZenonT(30)
<1>6. ThreadsInv'
  <2>1. ASSUME NEW n \in Managers
        PROVE  /\ {mgr'[n].cur, mgr'[n].old} \cap Managers \subseteq {n}
               /\ mgr'[n].old # Null <=> fib'[mgr'[n].cur].pc = "maint"
    <3>1. CASE n = m
      BY <1>0, <3>1, SMTT(30) DEF KernelInv, ThreadsInv, Switches, Saved
    <3>2. CASE n # m
      <4>1. fib'[mgr[n].cur] = fib[mgr[n].cur] /\ mgr'[n] = mgr[n]
        BY <1>4, <1>5, <3>2, ZenonT(30) DEF Switches
      <4>. QED
        BY <4>1, SMTT(30) DEF KernelInv, ThreadsInv
    <3>. QED
      BY <3>1, <3>2, ZenonT(30)
  <2>2. ASSUME NEW k \in Managers, NEW n \in Managers
        PROVE  /\ mgr'[k].cur = mgr'[n].cur => k = n
               /\ mgr'[k].old = mgr'[n].old /\ mgr'[k].old # Null => k = n
               /\ mgr'[k].old # mgr'[n].cur
    BY <1>4, SMTT(30) DEF KernelInv, ThreadsInv, Switches
  <2>3. ASSUME NEW h \in Fibers, fib'[h].pc # "maint"
        PROVE  \E n \in Managers : mgr'[n].cur = h
    <3>1. h # f /\ h # g /\ fib[h].pc # "maint"
      BY <2>3, ZenonT(30) DEF Switches, Saved
    <3>2. PICK n \in Managers : mgr[n].cur = h
      BY <3>1, ZenonT(30) DEF KernelInv, ThreadsInv
    <3>. QED
      BY <1>4, <3>1, <3>2, Zenon DEF Switches
  <2>. QED
    BY <2>1, <2>2, <2>3, ZenonT(30) DEF ThreadsInv
<1>7. LeavingInv'
  <2>1. ASSUME NEW h \in Apps, NEW n \in Managers, n # m
        PROVE  /\ mgr'[n] = mgr[n]
               /\ h \in {mgr[n].cur, mgr[n].old, mgr[n].to_schedule, mgr[n].done_fiber,
                         mgr[n].set_wait_value} => fib'[h] = fib[h]
    <3>1. h \in {f, g} => h \notin {mgr[n].cur, mgr[n].old}
      BY <1>4, <2>1, ZenonT(30)
    <3>2. h \in {mgr[n].to_schedule, mgr[n].done_fiber, mgr[n].set_wait_value}
            => h \in {mgr[n].cur, mgr[n].old}
      BY ZenonT(30) DEF KernelInv, LeavingInv
    <3>. QED
      BY <1>0, <1>4, <2>1, <3>1, <3>2, ZenonT(30) DEF Switches
  <2>2. ASSUME NEW h \in Apps
        PROVE  /\ mgr[m].to_schedule # h
               /\ mgr[m].done_fiber = h => h = f /\ fib[f].state = "DONE"
               /\ mgr[m].set_wait_value = h => h = f /\ fib[f].state = "WAITING"
    BY <1>0, <1>3, SMTT(30) DEF KernelInv, LeavingInv, Switches
  <2>3. f \in Apps => /\ fib[f].state \in {"RUNNING", "WAITING", "SAVING", "DONE"}
                      /\ fib[f].state = "WAITING" => mgr[m].set_wait_value = f
                      /\ fib[f].state = "DONE" => mgr[m].done_fiber = f
    BY ZenonT(40) DEF KernelInv, LeavingInv, Switches
  <2>4. ASSUME NEW n \in Managers, NEW h \in Apps
        PROVE  /\ mgr'[n].cur = h =>
                    /\ fib'[h].state \in {"RUNNING", "WAITING", "SAVING", "DONE"}
                    /\ fib'[h].state # "RUNNING" =>
                         fib'[h].pc \in {"waitlink", "next", "pop", "rdlock", "gate", "wrlock", "switch", "crash", "tomaint"}
                    /\ fib'[h].state = "WAITING" => mgr'[n].set_wait_value = h
                    /\ fib'[h].state = "DONE" => mgr'[n].done_fiber = h
               /\ mgr'[n].old = h =>
                    /\ fib'[h].state \in {"READY", "WAITING", "SAVING", "DONE"}
                    /\ fib'[h].state = "READY" => mgr'[n].to_schedule = h
                    /\ fib'[h].state = "WAITING" => mgr'[n].set_wait_value = h
                    /\ fib'[h].state = "DONE" => mgr'[n].done_fiber = h
               /\ mgr'[n].to_schedule = h => mgr'[n].old = h /\ fib'[h].state = "READY"
               /\ mgr'[n].done_fiber = h =>
                    h \in {mgr'[n].cur, mgr'[n].old} /\ fib'[h].state = "DONE"
               /\ mgr'[n].set_wait_value = h =>
                    h \in {mgr'[n].cur, mgr'[n].old} /\ fib'[h].state = "WAITING"
    <3>1. CASE n = m
      BY <2>2, <2>3, <3>1, SMTT(30) DEF Switches
    <3>2. CASE n # m
      BY <2>1, <3>2, SMTT(30) DEF KernelInv, LeavingInv
    <3>. QED
      BY <3>1, <3>2, Zenon
  <2>. QED
    BY <2>4, ZenonT(30) DEF LeavingInv
<1>8. /\ \A h \in Fibers : h \notin {f, g} => (Saved(h)' <=> Saved(h))
      /\ ~Saved(f) /\ Saved(g)
  BY <1>0, <1>3, <1>4, SMTT(30) DEF Saved, Switches
<1>9. g \in Apps =>
        /\ g \notin Waiters \cup Queued
        /\ \A h \in Fibers : fib[h].next = g => h = f
        /\ \A h \in Apps : join_info[h] # g
  BY SMTT(30) DEF KernelInv, PlacesInv, Switches
<1>10. f \in Apps =>
         /\ f \in Waiters \cup Queued => fib[f].state = "SAVING"
         /\ \A h \in Fibers : fib[h].next # f
         /\ \A h \in Apps : join_info[h] # f
  BY <1>8, ZenonT(30) DEF KernelInv, PlacesInv
<1>11. \A h \in Fibers : /\ fib'[h].node = fib[h].node
                         /\ h # f => fib'[h].next = fib[h].next
                         /\ h \notin {f, g} => fib'[h].state = fib[h].state
  BY ZenonT(30) DEF Switches
<1>12. PlacesInv'
  <2>1. ASSUME NEW h \in Apps, h \notin {f, g}
        PROVE  /\ Saved(h)' <=> Saved(h)
               /\ \A x \in Fibers : fib'[x].next = h <=> fib[x].next = h
               /\ fib'[h].node = fib[h].node /\ fib'[h].state = fib[h].state
    BY <1>0, <1>8, <1>11, <2>1, SMTT(30) DEF Switches
  <2>2. f \in Apps => \A x \in Fibers : fib'[x].next # f
    BY <1>0, <1>10, <1>11, SMTT(30) DEF Switches
  <2>3. g \in Apps => \A x \in Fibers : fib'[x].next # g
    BY <1>0, <1>9, <1>11, ZenonT(40) DEF Switches
  <2>4. Waiters' = Waiters /\ Queued' = Queued /\ join_info' = join_info
    BY Zenon DEF Switches, QueuesKept, RestKept
  <2>5. ASSUME NEW h \in Apps
        PROVE  /\ fib'[h].node = (h \notin Waiters)
               /\ h \in Waiters =>
                    \/ fib'[h].state = "SAVING"
                    \/ fib'[h].state = "WAITING" /\ Saved(h)'
               /\ h \in Queued =>
                    /\ h \notin Waiters
                    /\ \/ fib'[h].state = "SAVING"
                       \/ fib'[h].state \in {"READY", "WAITING"} /\ Saved(h)'
               /\ \A x \in Fibers : fib'[x].next = h =>
                    /\ h \notin Waiters \cup Queued
                    /\ fib'[h].state \in {"READY", "WAITING"} /\ Saved(h)'
                    /\ \A y \in Fibers : fib'[y].next = h => y = x
               /\ \A x \in Apps : join_info[x] = h =>
                    /\ h \notin Waiters \cup Queued
                    /\ fib'[h].state = "WAITING" /\ Saved(h)'
                    /\ \A y \in Apps : join_info[y] = h => y = x
                    /\ \A y \in Fibers : fib'[y].next # h
    <3>1. CASE h \notin {f, g}
      BY <2>1, <3>1, SMTT(30) DEF KernelInv, PlacesInv
    <3>2. CASE h = f
      BY <1>0, <1>10, <1>11, <2>2, <3>2, SMTT(30) DEF KernelInv, PlacesInv, Switches
    <3>3. CASE h = g
      BY <1>0, <1>9, <1>11, <2>3, <3>3, SMTT(30) DEF KernelInv, PlacesInv, Switches
    <3>. QED
      BY <3>1, <3>2, <3>3, ZenonT(30)
  <2>. QED
    BY <2>4, <2>5, SMTT(30) DEF PlacesInv
<1>13. FoundInv'
  <2>1. Waiters' = Waiters /\ Queued' = Queued /\ join_info' = join_info
    BY Zenon DEF Switches, QueuesKept, RestKept
  <2>2. ASSUME NEW h \in Apps, h \notin {f, g}
        PROVE  /\ fib'[h].state = fib[h].state
               /\ \A x \in Fibers : fib'[x].next = h <=> fib[x].next = h
               /\ \A n \in Managers :
                    /\ h \in {mgr[n].cur, mgr[n].old} => mgr'[n] = mgr[n]
                    /\ mgr[n].to_schedule = h => mgr'[n] = mgr[n]
                    /\ mgr'[n].done_fiber = mgr[n].done_fiber
                    /\ mgr'[n].set_wait_value = mgr[n].set_wait_value
    BY <1>0, <1>3, <1>11, <2>2, SMTT(30) DEF Switches, KernelInv, LeavingInv
  <2>3. ASSUME NEW h \in Apps
        PROVE  /\ fib'[h].state = "RUNNING" => \E n \in Managers : mgr'[n].cur = h
               /\ fib'[h].state = "DONE" => \E n \in Managers : mgr'[n].done_fiber = h
               /\ fib'[h].state = "SAVING" =>
                    /\ h \in Queued \cup Waiters
                    /\ \E n \in Managers : h \in {mgr'[n].cur, mgr'[n].old}
               /\ fib'[h].state = "READY" =>
                    \/ h \in Queued
                    \/ \E x \in Fibers : fib'[x].next = h
                    \/ \E n \in Managers : mgr'[n].to_schedule = h
               /\ fib'[h].state = "WAITING" =>
                    \/ h \in Queued \cup Waiters
                    \/ \E x \in Fibers : fib'[x].next = h
                    \/ \E x \in Apps : join_info[x] = h
                    \/ \E n \in Managers : mgr'[n].set_wait_value = h
    <3>1. CASE h \notin {f, g}
      BY <2>2, <3>1, SMTT(30) DEF KernelInv, FoundInv
    <3>2. CASE h = f
      <4>1. fib[f].state \in {"RUNNING", "WAITING", "SAVING", "DONE"} /\ mgr[m].cur = f
        BY <3>2, Zenon DEF KernelInv, LeavingInv, Switches
      <4>2. \A x \in Fibers : fib[x].next # f
        BY <1>10, <3>2, ZenonT(30)
      <4>3. \A n \in Managers : /\ mgr'[n].done_fiber = mgr[n].done_fiber
                                /\ mgr'[n].set_wait_value = mgr[n].set_wait_value
        BY ZenonT(30) DEF Switches
      <4>. QED
        BY <3>2, <4>1, <4>2, <4>3, SMTT(30) DEF KernelInv, FoundInv, Switches
    <3>3. CASE h = g
      BY <3>3, Zenon DEF Switches
    <3>. QED
      BY <3>1, <3>2, <3>3, Zenon
  <2>. QED
    BY <2>1, <2>3, Zenon DEF FoundInv
<1>14. LocationsInv'
  <2>1. /\ join_info' = join_info /\ detach_state' = detach_state
        /\ \A n \in Managers : /\ mgr'[n].set_wait_location = mgr[n].set_wait_location
                               /\ mgr'[n].set_wait_value = mgr[n].set_wait_value
    BY Zenon DEF Switches, RestKept
  <2>. QED
    BY <2>1, SMTT(30) DEF KernelInv, LocationsInv
<1>15. CallsInv'
  <2>1. \A h \in Apps : h # f => Place(h)' = Place(h) /\ todo'[h] = todo[h]
    BY <1>0, SMTT(30) DEF Place, Switches, RestKept
  <2>. QED
    BY <2>1, SMTT(30) DEF KernelInv, CallsInv, CallOK, Switches
<1>. QED
  BY <1>1, <1>2, <1>6, <1>7, <1>12, <1>13, <1>14, <1>15, Zenon DEF KernelInv, Switches, QueuesKept

-----------------------------------------------------------------------------
(* fiber_scheduler_next takes g off a run queue and hands it to f.         *)
Takes(m, f, g) ==
  /\ mgr[m].cur = f /\ fib[f].pc \in {"pop", "tfpop"} /\ f # g
  /\ RunqTypes' /\ WaitqTypes' /\ QueuesInv'
  /\ g \in Queued /\ Queued' = Queued \ {g} /\ Waiters' = Waiters
  /\ RestKept /\ mgr' = mgr
  /\ fib' \in [Fibers -> FiberRecord]
  /\ \A h \in Fibers : h # f => fib'[h] = fib[h]
  /\ fib'[f].state = fib[f].state /\ fib'[f].node = fib[f].node /\ fib'[f].next = g
  /\ fib'[f].after = fib[f].after /\ fib'[f].ret = fib[f].ret
  /\ fib'[f].pc = IF fib[f].pc = "pop" THEN "rdlock" ELSE "tfswitch"
  /\ fib[g].state # "SAVING"

(* fiber_scheduler_next handing a fiber of a run queue to its caller keeps *)
(* the invariant.                                                          *)
LEMMA TakesKeeps ==
  ASSUME KernelInv, NEW m \in Managers, NEW f \in Fibers, NEW g \in Apps, Takes(m, f, g)
  PROVE  KernelInv'
<1>0. /\ Null \notin Fibers /\ Apps \cap Managers = {} /\ Fibers = Apps \cup Managers
      /\ mgr' = mgr /\ g # Null
  BY ManagerAssumption, Zenon DEF Fibers, Takes
<1>1. KernelTypes'
  BY ZenonT(30) DEF KernelInv, KernelTypes, RunqTypes, WaitqTypes, Takes, RestKept, FromOK
<1>2. /\ RecordOK(f, fib[f]) /\ fib[f].next = Null
      /\ f \in Apps => fib[f].pc = "pop"
      /\ f \in Managers => fib[f].pc = "tfpop"
  BY ZenonT(40) DEF KernelInv, RecordInv, RecordOK, Takes, Threading
<1>3. RecordInv'
  <2>1. RecordOK(f, fib'[f])
    BY <1>0, <1>2, ZenonT(40) DEF RecordOK, Takes, Yielding, Targets, Calling, Threading
  <2>. QED
    BY <2>1, Zenon DEF KernelInv, RecordInv, Takes
<1>4. CallsInv'
  <2>1. \A h \in Apps : Place(h)' = Place(h) /\ todo'[h] = todo[h]
    <3>1. ASSUME NEW h \in Apps, h # f PROVE Place(h)' = Place(h)
      BY <1>0, <3>1, ZenonT(30) DEF Place, Takes
    <3>2. Place(f)' = Place(f)
      BY Zenon DEF Place, Takes, Calling
    <3>. QED
      BY <3>1, <3>2, ZenonT(30) DEF Takes, RestKept
  <2>. QED
    BY <2>1, Zenon DEF KernelInv, CallsInv, CallOK
<1>5. /\ \A h \in Fibers : /\ fib'[h].state = fib[h].state
                           /\ fib'[h].node = fib[h].node
                           /\ fib'[h].pc = "maint" <=> fib[h].pc = "maint"
      /\ \A h \in Fibers : h # f => fib'[h] = fib[h]
      /\ fib'[f].next = g
  BY ZenonT(30) DEF Takes
<1>6. ThreadsInv'
  <2>1. \A n \in Managers : mgr[n].cur \in Fibers
    BY Types, Zenon
  <2>. QED
    BY <1>0, <1>5, <2>1, SMTT(30) DEF KernelInv, ThreadsInv
<1>7. LeavingInv'
  <2>1. f \in Apps => fib'[f].pc = "rdlock"
    BY <1>2, Zenon DEF Takes
  <2>. QED
    BY <1>0, <1>5, <2>1, SMTT(30) DEF KernelInv, LeavingInv
<1>8. \A h \in Fibers : Saved(h)' <=> Saved(h)
  BY <1>0, <1>5, ZenonT(30) DEF Saved
<1>9. /\ fib[g].state \in {"READY", "WAITING"} /\ Saved(g) /\ g \notin Waiters
      /\ \A h \in Fibers : fib[h].next # g
      /\ \A h \in Apps : join_info[h] # g
  BY ZenonT(40) DEF KernelInv, PlacesInv, Takes
<1>10. \A h \in Fibers, x \in Apps : fib'[h].next = x <=> (fib[h].next = x \/ (h = f /\ x = g))
  BY <1>0, <1>2, <1>5, Zenon
<1>11. Queued' = Queued \ {g} /\ Waiters' = Waiters /\ join_info' = join_info /\ g \in Queued
  BY Zenon DEF Takes, RestKept
<1>12. PlacesInv'
  <2>1. ASSUME NEW h \in Apps
        PROVE  /\ fib'[h].node = (h \notin Waiters)
               /\ h \in Waiters =>
                    \/ fib'[h].state = "SAVING"
                    \/ fib'[h].state = "WAITING" /\ Saved(h)'
               /\ h \in Queued \ {g} =>
                    /\ h \notin Waiters
                    /\ \/ fib'[h].state = "SAVING"
                       \/ fib'[h].state \in {"READY", "WAITING"} /\ Saved(h)'
               /\ \A x \in Fibers : fib'[x].next = h =>
                    /\ h \notin Waiters \cup (Queued \ {g})
                    /\ fib'[h].state \in {"READY", "WAITING"} /\ Saved(h)'
                    /\ \A y \in Fibers : fib'[y].next = h => y = x
               /\ \A x \in Apps : join_info[x] = h =>
                    /\ h \notin Waiters \cup (Queued \ {g})
                    /\ fib'[h].state = "WAITING" /\ Saved(h)'
                    /\ \A y \in Apps : join_info[y] = h => y = x
                    /\ \A y \in Fibers : fib'[y].next # h
    <3>1. CASE h = g
      BY <1>0, <1>5, <1>8, <1>9, <1>10, <3>1, SMTT(30) DEF KernelInv, PlacesInv
    <3>2. CASE h # g
      BY <1>0, <1>5, <1>8, <1>10, <3>2, SMTT(30) DEF KernelInv, PlacesInv
    <3>. QED
      BY <3>1, <3>2, Zenon
  <2>. QED
    BY <1>11, <2>1, SMTT(30) DEF PlacesInv
<1>13. FoundInv'
  <2>1. ASSUME NEW h \in Apps
        PROVE  /\ fib'[h].state = "SAVING" => h \in (Queued \ {g}) \cup Waiters
               /\ h \in Queued => h \in Queued \ {g} \/ \E x \in Fibers : fib'[x].next = h
               /\ \A x \in Fibers : fib[x].next = h => fib'[x].next = h
    BY <1>0, <1>5, <1>9, <1>10, SMTT(30) DEF KernelInv, FoundInv
  <2>. QED
    BY <1>0, <1>5, <1>11, <2>1, SMTT(30) DEF KernelInv, FoundInv
<1>14. LocationsInv'
  BY <1>0, SMTT(30) DEF KernelInv, LocationsInv, Takes, RestKept
<1>. QED
  BY <1>1, <1>3, <1>4, <1>6, <1>7, <1>12, <1>13, <1>14, Zenon DEF KernelInv, Takes

-----------------------------------------------------------------------------
(* The queues.                                                             *)
LEMMA RunqPush ==
  ASSUME RunqTypes, RunqInv, NEW q \in DOMAIN runq, NEW g \in Apps, g \notin Queued,
         runq' = [runq EXCEPT ![q] = Append(@, g)]
  PROVE  RunqTypes' /\ RunqInv' /\ Queued' = Queued \cup {g}
<1>1. RunqTypes' /\ DOMAIN runq' = DOMAIN runq
  BY SMTT(30) DEF RunqTypes
<1>2. \A r \in DOMAIN runq : r # q => runq'[r] = runq[r]
  BY Zenon DEF RunqTypes
<1>3. /\ runq[q] \in Seq(Apps)
      /\ DOMAIN runq'[q] = DOMAIN runq[q] \cup {Len(runq[q]) + 1}
      /\ Len(runq[q]) + 1 \notin DOMAIN runq[q]
      /\ \A i \in DOMAIN runq[q] : runq'[q][i] = runq[q][i]
      /\ runq'[q][Len(runq[q]) + 1] = g
  BY SMTT(30) DEF RunqTypes
<1>4. \A r \in DOMAIN runq : \A i \in DOMAIN runq[r] : runq[r][i] # g /\ runq[r][i] \in Apps
  BY SMTT(30) DEF Queued, RunqTypes
<1>5. RunqInv'
  BY <1>1, <1>2, <1>3, <1>4, SMTT(30) DEF RunqInv
<1>6. Queued' = Queued \cup {g}
  BY <1>1, <1>2, <1>3, SMTT(30) DEF Queued
<1>. QED
  BY <1>1, <1>5, <1>6, ZenonT(30)

(* Popping the end of a run queue takes one fiber out of the queues.       *)
LEMMA RunqPop ==
  ASSUME RunqTypes, RunqInv, NEW q \in DOMAIN runq, runq[q] # <<>>,
         runq' = [runq EXCEPT ![q] = SubSeq(runq[q], 1, Len(runq[q]) - 1)]
  PROVE  /\ RunqTypes' /\ RunqInv'
         /\ runq[q][Len(runq[q])] \in Queued
         /\ Queued' = Queued \ {runq[q][Len(runq[q])]}
<1>. DEFINE n == Len(runq[q])
            g == runq[q][n]
<1>1. RunqTypes' /\ DOMAIN runq' = DOMAIN runq
  BY SMTT(30) DEF RunqTypes
<1>2. \A r \in DOMAIN runq : r # q => runq'[r] = runq[r]
  BY Zenon DEF RunqTypes
<1>3. /\ runq[q] \in Seq(Apps) /\ n \in Nat \ {0} /\ g \in Apps
      /\ DOMAIN runq[q] = 1 .. n /\ DOMAIN runq'[q] = 1 .. n - 1
      /\ \A i \in 1 .. n - 1 : runq'[q][i] = runq[q][i]
  BY SMTT(30) DEF RunqTypes
<1>. HIDE DEF n
<1>4. RunqInv'
  BY <1>1, <1>2, <1>3, SMTT(30) DEF RunqInv
<1>5. \A r \in DOMAIN runq : \A i \in DOMAIN runq[r] :
        runq[r][i] = g <=> r = q /\ i = n
  BY <1>3, SMTT(30) DEF RunqInv
<1>6. Queued' = Queued \ {g}
  <2>1. ASSUME NEW f \in Apps PROVE f \in Queued' <=> f \in Queued /\ f # g
    <3>1. ASSUME f \in Queued, f # g PROVE f \in Queued'
      <4>1. PICK r \in DOMAIN runq : \E i \in DOMAIN runq[r] : runq[r][i] = f
        BY <3>1, Zenon DEF Queued
      <4>2. PICK i \in DOMAIN runq[r] : runq[r][i] = f
        BY <4>1, ZenonT(30)
      <4>3. i \in DOMAIN runq'[r] /\ runq'[r][i] = f
        BY <1>2, <1>3, <3>1, <4>2, SMTT(30)
      <4>. QED
        BY <1>1, <4>3, Zenon DEF Queued
    <3>2. ASSUME f \in Queued' PROVE f \in Queued /\ f # g
      <4>1. PICK r \in DOMAIN runq : \E i \in DOMAIN runq'[r] : runq'[r][i] = f
        BY <1>1, <3>2, Zenon DEF Queued
      <4>2. PICK i \in DOMAIN runq'[r] : runq'[r][i] = f
        BY <4>1, ZenonT(30)
      <4>3. i \in DOMAIN runq[r] /\ runq[r][i] = f /\ ~(r = q /\ i = n)
        BY <1>2, <1>3, <4>2, SMTT(30)
      <4>. QED
        BY <1>5, <4>3, Zenon DEF Queued
    <3>. QED
      BY <3>1, <3>2, Zenon
  <2>. QED
    BY <2>1, SMTT(30) DEF Queued
<1>. QED
  BY <1>1, <1>3, <1>4, <1>5, <1>6, SMTT(30) DEF Queued, n

(* A part of queue q, its first or its last fibers, moves to the end of    *)
(* queue r.                                                                *)
Moves(q, r, kept, moved, a, b) ==
  /\ q # r
  /\ \A p \in DOMAIN runq : p # q /\ p # r => runq'[p] = runq[p]
  /\ kept + moved = Len(runq[q])
  /\ (a = 0 /\ b = kept) \/ (a = moved /\ b = 0)
  /\ Len(runq'[q]) = kept /\ Len(runq'[r]) = Len(runq[r]) + moved
  /\ \A i \in 1 .. kept : runq'[q][i] = runq[q][a + i]
  /\ \A i \in 1 .. Len(runq[r]) : runq'[r][i] = runq[r][i]
  /\ \A i \in 1 .. moved : runq'[r][Len(runq[r]) + i] = runq[q][b + i]

(* Moving the oldest fibers of one run queue behind those of another loses *)
(* none and doubles none.                                                  *)
LEMMA RunqMove ==
  ASSUME RunqTypes, RunqInv, RunqTypes', NEW q \in DOMAIN runq, NEW r \in DOMAIN runq,
         NEW kept \in Nat, NEW moved \in Nat, NEW a \in Nat, NEW b \in Nat,
         Moves(q, r, kept, moved, a, b)
  PROVE  RunqInv' /\ Queued' = Queued
<1>. USE DEF Moves
<1>. DEFINE n == Len(runq[r])
<1>1. /\ DOMAIN runq' = DOMAIN runq
      /\ n \in Nat /\ DOMAIN runq[r] = 1 .. n /\ DOMAIN runq[q] = 1 .. kept + moved
      /\ DOMAIN runq'[r] = 1 .. n + moved /\ DOMAIN runq'[q] = 1 .. kept
  BY SMTT(30) DEF RunqTypes
<1>2. /\ \A i \in 1 .. n : runq'[r][i] = runq[r][i]
      /\ \A i \in n + 1 .. n + moved : runq'[r][i] = runq[q][b + i - n]
  <2>1. ASSUME NEW i \in n + 1 .. n + moved PROVE runq'[r][i] = runq[q][b + i - n]
    <3>1. i - n \in 1 .. moved /\ n + (i - n) = i /\ b + (i - n) = b + i - n
      BY <1>1, SMTT(30)
    <3>. QED
      BY <3>1, ZenonT(30)
  <2>. QED
    BY <2>1, Zenon
<1>. HIDE DEF n
(* Where what is at a position of a queue was before.                      *)
<1>. DEFINE Was(p, i) == IF p = q THEN <<q, a + i>>
                         ELSE IF p = r /\ i > n THEN <<q, b + i - n>> ELSE <<p, i>>
<1>3. ASSUME NEW p \in DOMAIN runq, NEW i \in DOMAIN runq'[p]
      PROVE  /\ Was(p, i)[1] \in DOMAIN runq
             /\ Was(p, i)[2] \in DOMAIN runq[Was(p, i)[1]]
             /\ runq'[p][i] = runq[Was(p, i)[1]][Was(p, i)[2]]
  <2>0. (a = 0 \/ a = moved) /\ kept \in Nat /\ moved \in Nat
    BY Zenon
  <2>1. CASE p = q
    <3>1. i \in 1 .. kept
      BY <1>1, <2>1, Zenon
    <3>2. runq'[q][i] = runq[q][a + i]
      BY <3>1, Zenon
    <3>3. a + i \in 1 .. kept + moved
      BY ONLY <2>0, <3>1, SMTT(30)
    <3>4. Was(p, i)[1] = q /\ Was(p, i)[2] = a + i
      BY <2>1, Zenon
    <3>. QED
      BY <1>1, <2>1, <3>2, <3>3, <3>4, Zenon
  <2>2. CASE p = r
    <3>1. i \in 1 .. n + moved /\ i \in Nat
      BY <1>1, <1>3, <2>2, SMTT(30)
    <3>2. CASE i <= n
      BY <1>1, <1>2, <2>2, <3>1, <3>2, SMTT(30)
    <3>3. CASE i > n
      <4>0. (b = 0 \/ b = kept) /\ n \in Nat
        BY <1>1, Zenon
      <4>1. runq'[r][i] = runq[q][b + i - n] /\ b + i - n \in 1 .. kept + moved
        <5>1. i \in n + 1 .. n + moved /\ b + i - n \in 1 .. kept + moved
          BY ONLY <2>0, <3>1, <3>3, <4>0, SMTT(30)
        <5>. QED
          BY <1>2, <5>1, Zenon
      <4>. QED
        BY <1>1, <2>2, <3>3, <4>1, Zenon
    <3>. QED
      BY <1>1, <3>1, <3>2, <3>3, SMTT(30)
  <2>3. CASE p # q /\ p # r
    BY <1>3, <2>3, Zenon
  <2>. QED
    BY <2>1, <2>2, <2>3, ZenonT(30)
<1>4. ASSUME NEW p \in DOMAIN runq, NEW i \in DOMAIN runq'[p],
             NEW s \in DOMAIN runq, NEW j \in DOMAIN runq'[s], Was(p, i) = Was(s, j)
      PROVE  p = s /\ i = j
  <2>1. \A t \in DOMAIN runq : DOMAIN runq'[t] \subseteq Nat
    <3>1. \A t \in DOMAIN runq : runq'[t] \in Seq(Apps)
      BY <1>1, ZenonT(30) DEF RunqTypes
    <3>. QED
      BY <3>1, SMTT(30)
  <2>2. i \in Nat /\ j \in Nat
    BY <2>1, Zenon
  <2>3. CASE p = q /\ s = q
    BY <1>4, <2>2, <2>3, SMTT(30)
  <2>4. CASE p = q /\ s # q
    BY <1>1, <1>4, <2>2, <2>4, SMTT(30)
  <2>5. CASE p # q /\ s = q
    BY <1>1, <1>4, <2>2, <2>5, SMTT(30)
  <2>6. CASE p # q /\ s # q
    BY <1>1, <1>4, <2>2, <2>6, SMTT(30)
  <2>. QED
    BY <2>3, <2>4, <2>5, <2>6, Zenon
<1>. HIDE DEF Was
<1>5. RunqInv'
  <2>1. ASSUME NEW p \in DOMAIN runq, NEW i \in DOMAIN runq'[p],
               NEW s \in DOMAIN runq, NEW j \in DOMAIN runq'[s], runq'[p][i] = runq'[s][j]
        PROVE  p = s /\ i = j
    <3>1. Was(p, i)[1] = Was(s, j)[1] /\ Was(p, i)[2] = Was(s, j)[2]
      <4>1. /\ Was(p, i)[1] \in DOMAIN runq /\ Was(p, i)[2] \in DOMAIN runq[Was(p, i)[1]]
            /\ runq'[p][i] = runq[Was(p, i)[1]][Was(p, i)[2]]
        BY <1>3, ZenonT(30)
      <4>2. /\ Was(s, j)[1] \in DOMAIN runq /\ Was(s, j)[2] \in DOMAIN runq[Was(s, j)[1]]
            /\ runq'[s][j] = runq[Was(s, j)[1]][Was(s, j)[2]]
        BY <1>3, ZenonT(30)
      <4>. DEFINE v == Was(p, i)[1]
                  x == Was(p, i)[2]
                  w == Was(s, j)[1]
                  y == Was(s, j)[2]
      <4>3. /\ v \in DOMAIN runq /\ w \in DOMAIN runq
            /\ x \in DOMAIN runq[v] /\ y \in DOMAIN runq[w] /\ runq[v][x] = runq[w][y]
        BY <2>1, <4>1, <4>2, Zenon
      <4>. HIDE DEF v, w, x, y
      <4>4. v = w /\ x = y
        BY <4>3, SMTT(30) DEF RunqInv
      <4>. QED
        BY <4>4, ZenonT(30) DEF v, w, x, y
    <3>2. Was(p, i) = Was(s, j)
      BY <3>1, ZenonT(30) DEF Was
    <3>. QED
      BY <1>4, <3>2, SMTT(30)
  <2>. QED
    BY <1>1, <2>1, SMTT(30) DEF RunqInv
<1>6. ASSUME NEW p \in DOMAIN runq, NEW i \in DOMAIN runq[p]
      PROVE  \E s \in DOMAIN runq : \E j \in DOMAIN runq'[s] : runq'[s][j] = runq[p][i]
  <2>1. CASE p = q
    <3>1. i \in 1 .. kept + moved
      BY <1>1, <1>6, <2>1, Zenon
    <3>2. CASE i - a \in 1 .. kept
      <4>1. runq'[q][i - a] = runq[q][a + (i - a)] /\ a + (i - a) = i
        <5>1. i \in Int /\ a \in Int
          BY <3>1, SMTT(30)
        <5>2. a + (i - a) = i
          BY ONLY <5>1, SMTT(30)
        <5>. QED
          BY <3>2, <5>2, Zenon
      <4>. QED
        BY <1>1, <2>1, <3>2, <4>1, ZenonT(30)
    <3>3. CASE i - b \in 1 .. moved
      <4>0. n + (i - b) \in n + 1 .. n + moved /\ b + (n + (i - b)) - n = i
        <5>1. n \in Nat /\ i \in Int /\ b \in Nat /\ moved \in Nat
          BY <1>1, <3>1, SMTT(30)
        <5>. QED
          BY ONLY <3>3, <5>1, SMTT(30)
      <4>1. /\ n + (i - b) \in n + 1 .. n + moved
            /\ runq'[r][n + (i - b)] = runq[q][b + (n + (i - b)) - n]
            /\ b + (n + (i - b)) - n = i
        BY <1>2, <4>0, Zenon
      <4>2. n + (i - b) \in DOMAIN runq'[r]
        BY <1>1, <4>1, SMTT(30)
      <4>3. runq'[r][n + (i - b)] = runq[p][i]
        BY <2>1, <4>1, Zenon
      <4>. QED
        BY <4>2, <4>3, Zenon
    <3>4. (a = 0 /\ b = kept) \/ (a = moved /\ b = 0)
      BY Zenon
    <3>5. kept \in Nat /\ moved \in Nat
      BY Zenon
    <3>6. i - a \in 1 .. kept \/ i - b \in 1 .. moved
      BY ONLY <3>1, <3>4, <3>5, SMTT(30)
    <3>. QED
      BY <3>2, <3>3, <3>6, Zenon
  <2>2. CASE p = r
    <3>1. i \in DOMAIN runq'[r] /\ runq'[r][i] = runq[p][i]
      BY <1>1, <1>2, <1>6, <2>2, SMTT(30)
    <3>. QED
      BY <3>1, Zenon
  <2>3. CASE p # q /\ p # r
    BY <1>6, <2>3, ZenonT(30)
  <2>. QED
    BY <2>1, <2>2, <2>3, ZenonT(30)
<1>7. Queued' = Queued
  <2>1. ASSUME NEW f \in Apps, f \in Queued PROVE f \in Queued'
    BY <1>1, <1>6, <2>1, SMTT(30) DEF Queued
  <2>2. ASSUME NEW f \in Apps, f \in Queued' PROVE f \in Queued
    <3>1. PICK p \in DOMAIN runq : \E i \in DOMAIN runq'[p] : runq'[p][i] = f
      BY <1>1, <2>2, Zenon DEF Queued
    <3>2. PICK i \in DOMAIN runq'[p] : runq'[p][i] = f
      BY <3>1, ZenonT(30)
    <3>3. /\ Was(p, i)[1] \in DOMAIN runq /\ Was(p, i)[2] \in DOMAIN runq[Was(p, i)[1]]
          /\ f = runq[Was(p, i)[1]][Was(p, i)[2]]
      BY <1>3, <3>2, ZenonT(30)
    <3>. QED
      BY <3>3, Zenon DEF Queued
  <2>. QED
    BY <2>1, <2>2, ZenonT(30) DEF Queued
<1>. QED
  BY <1>5, <1>7, Zenon

(* fiber_scheduler_next puts a fiber aside.                                *)
LEMMA PutAsideMoves ==
  ASSUME RunqTypes, RunqInv, NEW m \in Managers, from[m] \in {2 * m, 2 * m + 1},
         runq[from[m]] # <<>>, runq' = PutAside(m)
  PROVE  RunqTypes' /\ RunqInv' /\ Queued' = Queued
<1>. DEFINE q == from[m]
            r == StoreTo(m)
            n == Len(runq[q])
<1>1. q \in DOMAIN runq /\ r \in DOMAIN runq /\ q # r
  BY ManagerAssumption, SMTT(30) DEF RunqTypes, Managers, StoreTo
<1>2. runq[q] \in Seq(Apps) /\ runq[r] \in Seq(Apps) /\ n \in Nat \ {0}
  BY <1>1, SMTT(30) DEF RunqTypes
<1>3. runq' = [runq EXCEPT ![q] = SubSeq(runq[q], 1, n - 1), ![r] = Append(@, runq[q][n])]
  BY Zenon DEF PutAside, WithoutBottom, Bottom
<1>. HIDE DEF q, r
<1>4. RunqTypes' /\ \A p \in DOMAIN runq : p # q /\ p # r => runq'[p] = runq[p]
  <2>1. SubSeq(runq[q], 1, n - 1) \in Seq(Apps) /\ Append(runq[r], runq[q][n]) \in Seq(Apps)
    BY <1>2, SMTT(30)
  <2>. HIDE DEF n
  <2>. QED
    BY <1>1, <1>3, <2>1, ZenonT(30) DEF RunqTypes
<1>5. runq'[q] = SubSeq(runq[q], 1, n - 1) /\ runq'[r] = Append(runq[r], runq[q][n])
  BY <1>1, <1>3, Zenon DEF RunqTypes
<1>6. /\ Len(runq'[q]) = n - 1 /\ Len(runq'[r]) = Len(runq[r]) + 1
      /\ \A i \in 1 .. n - 1 : runq'[q][i] = runq[q][0 + i]
      /\ \A i \in 1 .. Len(runq[r]) : runq'[r][i] = runq[r][i]
      /\ \A i \in 1 .. 1 : runq'[r][Len(runq[r]) + i] = runq[q][(n - 1) + i]
  BY <1>2, <1>5, SMTT(30)
<1>7. Moves(q, r, n - 1, 1, 0, n - 1) /\ n - 1 \in Nat /\ 0 \in Nat /\ 1 \in Nat
  <2>1. n - 1 \in Nat /\ 0 \in Nat /\ 1 \in Nat /\ (n - 1) + 1 = Len(runq[q])
    BY <1>2, SMTT(30)
  <2>. HIDE DEF n
  <2>. DEFINE k == n - 1
  <2>2. /\ k + 1 = Len(runq[q]) /\ Len(runq'[q]) = k
        /\ \A i \in 1 .. k : runq'[q][i] = runq[q][0 + i]
        /\ \A i \in 1 .. 1 : runq'[r][Len(runq[r]) + i] = runq[q][k + i]
    BY <1>6, <2>1, ZenonT(30)
  <2>. HIDE DEF k
  <2>3. Moves(q, r, k, 1, 0, k)
    BY <1>1, <1>4, <1>6, <2>2, ZenonT(30) DEF Moves
  <2>. QED
    BY <2>1, <2>3, ZenonT(30) DEF k
<1>8. RunqInv' /\ Queued' = Queued
  BY <1>1, <1>4, <1>7, RunqMove, Zenon
<1>. QED
  BY <1>4, <1>8, ZenonT(30)

(* fiber_scheduler_load_balance: a visit steals the first k fibers.        *)
LEMMA Rest ==
  ASSUME NEW S, NEW s \in Seq(S), NEW k \in 0 .. Len(s)
  PROVE  /\ SubSeq(s, k + 1, Len(s)) \in Seq(S)
         /\ Len(SubSeq(s, k + 1, Len(s))) = Len(s) - k
         /\ \A i \in 1 .. Len(s) - k : SubSeq(s, k + 1, Len(s))[i] = s[k + i]
<1>1. SubSeq(s, k + 1, Len(s)) \in Seq(S)
  BY SMTT(30)
<1>2. Len(SubSeq(s, k + 1, Len(s))) = Len(s) - k
  BY SMTT(30)
<1>3. ASSUME NEW i \in 1 .. Len(s) - k PROVE SubSeq(s, k + 1, Len(s))[i] = s[k + i]
  BY SMTT(30)
<1>. QED
  BY <1>1, <1>2, <1>3, ZenonT(30)

(* The items of two sequences put behind one another.                      *)
LEMMA Joined ==
  ASSUME NEW S, NEW s \in Seq(S), NEW t \in Seq(S)
  PROVE  /\ s \o t \in Seq(S) /\ Len(s \o t) = Len(s) + Len(t)
         /\ \A i \in 1 .. Len(s) : (s \o t)[i] = s[i]
         /\ \A i \in 1 .. Len(t) : (s \o t)[Len(s) + i] = t[i]
<1>1. s \o t \in Seq(S) /\ Len(s \o t) = Len(s) + Len(t)
  BY SMTT(30)
<1>2. ASSUME NEW i \in 1 .. Len(s) PROVE (s \o t)[i] = s[i]
  BY SMTT(30)
<1>3. ASSUME NEW i \in 1 .. Len(t) PROVE (s \o t)[Len(s) + i] = t[i]
  BY SMTT(30)
<1>. QED
  BY <1>1, <1>2, <1>3, ZenonT(30)

(* fiber_load_balance moves fibers from the top of one run queue to the    *)
(* bottom of another.                                                      *)
LEMMA StealMoves ==
  ASSUME RunqTypes, RunqInv, NEW q \in DOMAIN runq, NEW r \in DOMAIN runq, q # r,
         NEW k \in 0 .. Len(runq[q]),
         runq' = [runq EXCEPT ![q] = SubSeq(@, k + 1, Len(@)), ![r] = @ \o SubSeq(runq[q], 1, k)]
  PROVE  RunqTypes' /\ RunqInv' /\ Queued' = Queued
<1>. DEFINE n == Len(runq[q])
            kept == n - k
<1>1. /\ runq[q] \in Seq(Apps) /\ runq[r] \in Seq(Apps) /\ n \in Nat /\ Len(runq[r]) \in Nat
      /\ k \in Nat /\ kept \in Nat /\ 0 \in Nat /\ kept + k = n
  BY SMTT(30) DEF RunqTypes
<1>2. /\ SubSeq(runq[q], k + 1, n) \in Seq(Apps) /\ Len(SubSeq(runq[q], k + 1, n)) = kept
      /\ \A i \in 1 .. kept : SubSeq(runq[q], k + 1, n)[i] = runq[q][k + i]
  BY <1>1, Rest, Zenon
<1>3. /\ SubSeq(runq[q], 1, k) \in Seq(Apps) /\ Len(SubSeq(runq[q], 1, k)) = k
      /\ \A i \in 1 .. k : SubSeq(runq[q], 1, k)[i] = runq[q][i]
  BY <1>1, SMTT(30)
<1>. DEFINE s == SubSeq(runq[q], 1, k)
            t == SubSeq(runq[q], k + 1, n)
<1>4. runq'[q] = t /\ runq'[r] = runq[r] \o s /\ DOMAIN runq' = DOMAIN runq
  BY <1>1, ZenonT(30) DEF RunqTypes
<1>5. \A p \in DOMAIN runq : p # q /\ p # r => runq'[p] = runq[p]
  BY ZenonT(30) DEF RunqTypes
<1>. HIDE DEF s, t, n, kept
<1>6. s \in Seq(Apps) /\ t \in Seq(Apps) /\ Len(s) = k /\ \A i \in 1 .. k : s[i] = runq[q][i]
  BY <1>2, <1>3, Zenon DEF s, t
<1>7. RunqTypes'
  <2>1. \A p \in DOMAIN runq : runq'[p] \in Seq(Apps)
    <3>1. runq[r] \o s \in Seq(Apps)
      BY <1>1, <1>6, Joined, ZenonT(30)
    <3>. QED
      BY <1>4, <1>5, <1>6, <3>1, Zenon DEF RunqTypes
  <2>2. runq' = [p \in DOMAIN runq |-> runq'[p]]
    BY ZenonT(30) DEF RunqTypes
  <2>3. DOMAIN runq = 0 .. 2 * NumThreads - 1
    BY ZenonT(30) DEF RunqTypes
  <2>. QED
    BY <2>1, <2>2, <2>3, Zenon DEF RunqTypes
<1>8. /\ \A i \in 1 .. Len(runq[r]) : runq'[r][i] = runq[r][i]
      /\ \A i \in 1 .. k : runq'[r][Len(runq[r]) + i] = s[i]
      /\ Len(runq'[r]) = Len(runq[r]) + k
  <2>. DEFINE u == runq[r]
  <2>1. u \in Seq(Apps)
    BY <1>1, ZenonT(30)
  <2>. HIDE DEF u
  <2>2. /\ Len(u \o s) = Len(u) + Len(s)
        /\ \A i \in 1 .. Len(u) : (u \o s)[i] = u[i]
        /\ \A i \in 1 .. Len(s) : (u \o s)[Len(u) + i] = s[i]
    <3>1. s \in Seq(Apps)
      BY <1>6, Zenon
    <3>. QED
      BY ONLY <2>1, <3>1, Joined, SMTT(30)
  <2>. QED
    BY <1>4, <1>6, <2>2, Zenon DEF u
<1>9. Moves(q, r, kept, k, k, 0)
  <2>1. \A i \in 1 .. k : runq'[r][Len(runq[r]) + i] = runq[q][0 + i]
    BY <1>6, <1>8, SMTT(30)
  <2>2. Len(runq'[q]) = kept /\ \A i \in 1 .. kept : runq'[q][i] = runq[q][k + i]
    BY <1>2, <1>4, ZenonT(30) DEF t
  <2>3. kept + k = Len(runq[q])
    BY <1>1, Zenon DEF n
  <2>. QED
    BY <1>5, <1>8, <2>1, <2>2, <2>3, Zenon DEF Moves
<1>10. RunqInv' /\ Queued' = Queued
  BY <1>1, <1>7, <1>9, RunqMove, Zenon
<1>. QED
  BY <1>7, <1>10, ZenonT(30)

(* The visits of a call avoid the queues of its own scheduler.             *)
LEMMA VisitsOthers ==
  ASSUME NEW m \in Managers, NEW i \in 0 .. Visits, i < Visits
  PROVE  /\ (2 * (m + 1) + i) % (2 * NumThreads) \in 0 .. 2 * NumThreads - 1
         /\ (2 * (m + 1) + i) % (2 * NumThreads) \notin {2 * m, 2 * m + 1}
<1>. DEFINE x == 2 * (m + 1) + i
            n == 2 * NumThreads
<1>1. x \in Nat /\ n \in Nat \ {0} /\ 2 * m + 2 <= x /\ x < 2 * m + n /\ m \in Nat /\ 2 * m + 2 <= n
  BY ManagerAssumption, SMTT(30) DEF Visits, Managers
<1>. HIDE DEF x, n
<1>2. x % n \in 0 .. n - 1 /\ x \div n \in Nat /\ x % n = x - n * (x \div n)
  BY <1>1, Z3, Zenon
<1>3. x \div n = 0 \/ x \div n = 1 \/ x \div n >= 2
  BY <1>2, SMTT(30)
<1>4. x \div n >= 2 => n * (x \div n) >= 2 * n
  BY <1>1, <1>2, Z3, ZenonT(30)
<1>5. x % n = x \/ x % n = x - n
  BY <1>1, <1>2, <1>3, <1>4, SMTT(30)
<1>6. x % n \notin {2 * m, 2 * m + 1}
  BY <1>1, <1>5, SMTT(30)
<1>. QED
  BY <1>2, <1>6, ZenonT(30) DEF x, n

(* The exchange of the tail in mpsc_fifo_push adds a fiber to the waiters. *)
LEMMA WaitqPush ==
  ASSUME WaitqTypes, WaitqInv, NEW f \in Apps, f \notin Waiters,
         waitq' = Append(waitq, [fiber |-> f, linked |-> FALSE])
  PROVE  WaitqTypes' /\ WaitqInv' /\ Waiters' = Waiters \cup {f}
<1>. DEFINE n == Len(waitq)
<1>1. /\ WaitqTypes' /\ n \in Nat /\ DOMAIN waitq = 1 .. n /\ DOMAIN waitq' = 1 .. n + 1
      /\ waitq'[n + 1].fiber = f
      /\ \A i \in 1 .. n : waitq'[i] = waitq[i]
  <2>1. [fiber |-> f, linked |-> FALSE] \in WaiterRecord
    BY ZenonT(30) DEF WaiterRecord
  <2>. DEFINE w == [fiber |-> f, linked |-> FALSE]
  <2>2. w.fiber = f
    BY ZenonT(30)
  <2>. HIDE DEF w
  <2>. QED
    BY <2>1, <2>2, SMTT(30) DEF WaitqTypes, w
<1>2. \A i \in 1 .. n : waitq[i].fiber # f
  BY <1>1, ZenonT(30) DEF Waiters
<1>. HIDE DEF n
<1>3. WaitqInv'
  BY <1>1, <1>2, SMTT(30) DEF WaitqInv
<1>4. Waiters' = Waiters \cup {f}
  BY <1>1, SMTT(30) DEF Waiters
<1>. QED
  BY <1>1, <1>3, <1>4, ZenonT(30)

(* mpsc_fifo_trypop takes the first of the waiters out.                    *)
LEMMA WaitqPop ==
  ASSUME WaitqTypes, WaitqInv, waitq # <<>>, waitq' = Tail(waitq)
  PROVE  /\ WaitqTypes' /\ WaitqInv'
         /\ Head(waitq).fiber \in Waiters
         /\ Waiters' = Waiters \ {Head(waitq).fiber}
<1>. DEFINE n == Len(waitq)
            g == Head(waitq).fiber
<1>1. /\ WaitqTypes' /\ n \in Nat \ {0} /\ DOMAIN waitq = 1 .. n /\ DOMAIN waitq' = 1 .. n - 1
      /\ waitq[1].fiber = g /\ g \in Apps
      /\ \A i \in 1 .. n - 1 : waitq'[i] = waitq[i + 1]
  <2>1. /\ WaitqTypes' /\ n \in Nat \ {0} /\ DOMAIN waitq = 1 .. n /\ Len(waitq') = n - 1
        /\ DOMAIN waitq' = 1 .. n - 1
    BY SMTT(30) DEF WaitqTypes
  <2>2. waitq[1] = Head(waitq) /\ waitq[1] \in WaiterRecord
    BY SMTT(30) DEF WaitqTypes
  <2>3. ASSUME NEW i \in 1 .. n - 1 PROVE waitq'[i] = waitq[i + 1]
    BY SMTT(30) DEF WaitqTypes
  <2>. QED
    BY <2>1, <2>2, <2>3, Zenon DEF WaiterRecord
<1>. HIDE DEF n, g
<1>2. WaitqInv'
  BY <1>1, SMTT(30) DEF WaitqInv
<1>3. \A i \in 1 .. n : waitq[i].fiber = g => i = 1
  BY <1>1, SMTT(30) DEF WaitqInv
<1>4. Waiters' = Waiters \ {g}
  <2>1. ASSUME NEW f \in Waiters, f # g PROVE f \in Waiters'
    <3>1. PICK i \in 1 .. n : waitq[i].fiber = f
      BY <1>1, ZenonT(30) DEF Waiters
    <3>2. i - 1 \in 1 .. n - 1 /\ waitq'[i - 1] = waitq[i]
      BY <1>1, <2>1, <3>1, SMTT(30)
    <3>. QED
      BY <1>1, <3>1, <3>2, ZenonT(30) DEF Waiters
  <2>2. ASSUME NEW f \in Waiters' PROVE f \in Waiters /\ f # g
    <3>1. PICK i \in 1 .. n - 1 : waitq'[i].fiber = f
      BY <1>1, Zenon DEF Waiters
    <3>2. i + 1 \in 1 .. n /\ waitq[i + 1].fiber = f /\ i + 1 # 1
      BY <1>1, <3>1, SMTT(30)
    <3>. QED
      BY <1>1, <1>3, <3>2, Zenon DEF Waiters
  <2>. QED
    BY <2>1, <2>2, Zenon
<1>. QED
  BY <1>1, <1>2, <1>4, SMTT(30) DEF Waiters, g

(* The store that links a node changes who can be popped, not who waits.   *)
LEMMA WaitqLink ==
  ASSUME WaitqTypes, WaitqInv, NEW f,
         waitq' = [k \in DOMAIN waitq |->
                     IF waitq[k].fiber = f THEN [waitq[k] EXCEPT !.linked = TRUE] ELSE waitq[k]]
  PROVE  WaitqTypes' /\ WaitqInv' /\ Waiters' = Waiters
<1>1. /\ DOMAIN waitq = 1 .. Len(waitq) /\ Len(waitq) \in Nat
      /\ \A k \in DOMAIN waitq : waitq[k] \in WaiterRecord
  BY SMTT(30) DEF WaitqTypes
<1>2. /\ DOMAIN waitq' = DOMAIN waitq
      /\ \A k \in DOMAIN waitq : waitq'[k] \in WaiterRecord /\ waitq'[k].fiber = waitq[k].fiber
  BY <1>1, ZenonT(30) DEF WaiterRecord
<1>3. waitq' \in [1 .. Len(waitq) -> WaiterRecord]
  BY <1>1, <1>2, ZenonT(30)
<1>4. WaitqTypes'
  BY <1>1, <1>3, SMTT(30) DEF WaitqTypes
<1>. QED
  BY <1>2, <1>4, SMTT(30) DEF WaitqInv, Waiters

(* Queues that are not written have the same contents.                     *)
LEMMA SameQueues ==
  ASSUME KernelInv, UNCHANGED <<runq, waitq>>
  PROVE  QueuesSame
  BY Types, SMTT(30) DEF QueuesSame, QueuesInv, RunqInv, WaitqInv, RunqTypes, WaitqTypes, Queued, Waiters

(* Exchanging schedule_from and store_to leaves each scheduler its own two *)
(* queues.                                                                 *)
LEMMA SwapKeeps ==
  ASSUME KernelInv, NEW m \in Managers
  PROVE  Swapped(m) \in [Managers -> Int] /\ \A n \in Managers : Swapped(m)[n] \in {2 * n, 2 * n + 1}
  BY Types, SMTT(30) DEF Swapped, StoreTo, Managers

(* The values that the fields of a fiber take.                             *)
LEMMA Names ==
  /\ "next" \in PcSet /\ "pop" \in PcSet /\ "rdlock" \in PcSet /\ "gate" \in PcSet
  /\ "wrlock" \in PcSet /\ "switch" \in PcSet /\ "crash" \in PcSet
  /\ "tomaint" \in PcSet /\ "trysteal" \in PcSet /\ "balance" \in PcSet
  /\ "tf" \in PcSet /\ "tfpop" \in PcSet /\ "tfswitch" \in PcSet /\ "maint" \in PcSet
  /\ \A p \in Calling : p \in PcSet /\ p \in RetSet /\ p \in AfterSet
  /\ "run" \in Calling /\ "wait" \in Calling /\ "waitlink" \in Calling /\ "wake" \in Calling
  /\ "woke" \in Calling /\ "locked" \in Calling /\ "left" \in Calling /\ "join" \in Calling
  /\ "joined" \in Calling /\ "tryjoin" \in Calling /\ "clear" \in Calling
  /\ "finish" \in Calling /\ "answer" \in Calling /\ "done" \in Calling
  /\ "none" \in RetSet /\ "abort" \in RetSet
  /\ "none" \in AfterSet /\ "next" \in AfterSet /\ "tf" \in AfterSet /\ "abort" \in AfterSet
  /\ "none" \in States /\ "RUNNING" \in States /\ "READY" \in States /\ "WAITING" \in States
  /\ "SAVING" \in States /\ "DONE" \in States /\ "freed" \in States
  BY ZenonT(30) DEF PcSet, RetSet, AfterSet, Yielding, Calling, Threading, States

(* A step that leaves schedule_from alone.                                 *)
LEMMA FromSame ==
  ASSUME KernelInv, UNCHANGED from
  PROVE  FromOK
  BY Types, Zenon DEF FromOK

(* A fiber that does not move stays within its program.                    *)
LEMMA SamePlace ==
  ASSUME KernelInv, NEW f \in Apps, UNCHANGED todo, Place(f)' = Place(f)
  PROVE  CallOK(f)'
  BY ZenonT(30) DEF KernelInv, CallsInv, CallOK

-----------------------------------------------------------------------------
(* b is a with some fields of fiber f changed.                             *)
Out(a, b, f, s, t) ==
  /\ b \in [Fibers -> FiberRecord]
  /\ \A h \in Fibers : h # f => b[h] = a[h]
  /\ b[f].state = s /\ b[f].pc = "maint" /\ b[f].after = t
  /\ b[f].node = a[f].node /\ b[f].ret = a[f].ret

NoNext(a, b, f) ==
  /\ b \in [Fibers -> FiberRecord]
  /\ \A h \in Fibers : h # f => b[h] = a[h]
  /\ b[f].next = Null /\ b[f].seen = "none"
  /\ b[f].state = a[f].state /\ b[f].pc = a[f].pc /\ b[f].after = a[f].after
  /\ b[f].node = a[f].node /\ b[f].ret = a[f].ret

InState(a, b, g, s) ==
  /\ b \in [Fibers -> FiberRecord]
  /\ \A h \in Fibers : h # g => b[h] = a[h]
  /\ b[g].state = s
  /\ b[g].pc = a[g].pc /\ b[g].ret = a[g].ret /\ b[g].after = a[g].after
  /\ b[g].next = a[g].next /\ b[g].node = a[g].node /\ b[g].seen = a[g].seen

Returning(a, b, f, r) ==
  /\ b \in [Fibers -> FiberRecord]
  /\ \A h \in Fibers : h # f => b[h] = a[h]
  /\ b[f].ret = r
  /\ b[f].state = a[f].state /\ b[f].pc = a[f].pc /\ b[f].after = a[f].after
  /\ b[f].node = a[f].node

(* The fields of a fiber whose context has been saved.                     *)
LEMMA OutUpdate ==
  ASSUME NEW a \in [Fibers -> FiberRecord], NEW f \in Fibers, NEW s \in States, NEW t \in AfterSet,
         NEW b, b = [a EXCEPT ![f].state = s, ![f].pc = "maint", ![f].after = t]
  PROVE  Out(a, b, f, s, t)
<1>. DEFINE c == [a EXCEPT ![f].state = s]
<1>0. "maint" \in PcSet
  BY Names, ZenonT(30)
<1>1. c \in [Fibers -> FiberRecord]
  BY ZenonT(40) DEF FiberRecord
<1>2. \A h \in Fibers : h # f => c[h] = a[h]
  BY Zenon
<1>3. c[f].state = s /\ c[f].node = a[f].node /\ c[f].ret = a[f].ret
  BY Zenon DEF FiberRecord
<1>4. b = [c EXCEPT ![f].pc = "maint", ![f].after = t]
  BY Zenon
<1>. HIDE DEF c
<1>5. b \in [Fibers -> FiberRecord]
  BY ONLY <1>0, <1>1, <1>4, f \in Fibers, t \in AfterSet, ZenonT(30) DEF FiberRecord
<1>6. /\ \A h \in Fibers : h # f => b[h] = c[h]
      /\ b[f] = [c[f] EXCEPT !.pc = "maint", !.after = t] /\ c[f] \in FiberRecord
  BY <1>1, <1>4, Zenon
<1>7. /\ b[f].pc = "maint" /\ b[f].after = t /\ b[f].state = c[f].state
      /\ b[f].node = c[f].node /\ b[f].ret = c[f].ret
  BY ONLY <1>6, Zenon DEF FiberRecord
<1>. QED
  BY <1>2, <1>3, <1>5, <1>6, <1>7, ZenonT(30) DEF Out

(* The fields of a fiber that forgets the fiber it was to switch to.       *)
LEMMA NextUpdate ==
  ASSUME NEW a \in [Fibers -> FiberRecord], NEW f \in Fibers,
         NEW b, b = [a EXCEPT ![f].next = Null, ![f].seen = "none"]
  PROVE  NoNext(a, b, f)
<1>0. Null \in AppOrNull /\ "none" \in States
  BY Names, Zenon DEF AppOrNull
<1>1. b \in [Fibers -> FiberRecord]
  BY <1>0, ZenonT(30) DEF FiberRecord
<1>2. /\ \A h \in Fibers : h # f => b[h] = a[h]
      /\ b[f] = [a[f] EXCEPT !.next = Null, !.seen = "none"] /\ a[f] \in FiberRecord
  BY Zenon
<1>3. /\ b[f].next = Null /\ b[f].seen = "none"
      /\ b[f].state = a[f].state /\ b[f].pc = a[f].pc /\ b[f].after = a[f].after
      /\ b[f].node = a[f].node /\ b[f].ret = a[f].ret
  BY ONLY <1>2, Zenon DEF FiberRecord
<1>. QED
  BY <1>1, <1>2, <1>3, Zenon DEF NoNext

(* The fields of a fiber whose state alone is written.                     *)
LEMMA StateUpdate ==
  ASSUME NEW a \in [Fibers -> FiberRecord], NEW g \in Fibers, NEW s \in States,
         NEW b, b = [a EXCEPT ![g].state = s]
  PROVE  InState(a, b, g, s)
<1>1. b \in [Fibers -> FiberRecord]
  BY ZenonT(30) DEF FiberRecord
<1>2. /\ \A h \in Fibers : h # g => b[h] = a[h]
      /\ b[g] = [a[g] EXCEPT !.state = s] /\ a[g] \in FiberRecord
  BY Zenon
<1>3. /\ b[g].state = s
      /\ b[g].pc = a[g].pc /\ b[g].ret = a[g].ret /\ b[g].after = a[g].after
      /\ b[g].next = a[g].next /\ b[g].node = a[g].node /\ b[g].seen = a[g].seen
  BY ONLY <1>2, ZenonT(30) DEF FiberRecord
<1>. QED
  BY <1>1, <1>2, <1>3, Zenon DEF InState

(* The fields of a fiber that is told where to return to.                  *)
LEMMA RetOnlyUpdate ==
  ASSUME NEW a \in [Fibers -> FiberRecord], NEW f \in Fibers, NEW r \in RetSet,
         NEW b, b = [a EXCEPT ![f].ret = r]
  PROVE  Returning(a, b, f, r)
<1>1. b \in [Fibers -> FiberRecord]
  BY ZenonT(30) DEF FiberRecord
<1>2. /\ \A h \in Fibers : h # f => b[h] = a[h]
      /\ b[f] = [a[f] EXCEPT !.ret = r] /\ a[f] \in FiberRecord
  BY Zenon
<1>3. /\ b[f].ret = r
      /\ b[f].state = a[f].state /\ b[f].pc = a[f].pc /\ b[f].after = a[f].after
      /\ b[f].node = a[f].node
  BY ONLY <1>2, Zenon DEF FiberRecord
<1>. QED
  BY <1>1, <1>2, <1>3, ZenonT(30) DEF Returning

=============================================================================
