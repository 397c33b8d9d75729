------------------------- MODULE FiberProgramProofs -------------------------
(***************************************************************************)
(* The runtime neither loses, duplicates nor runs twice a fiber, for every *)
(* number of threads and fibers and whatever the fibers' programs.         *)
(***************************************************************************)
EXTENDS FiberPlacesProofs, FiberYieldProofs

-----------------------------------------------------------------------------
(* The initial states.                                                     *)

(* The sequence s lists each application fiber of the set S once.          *)
Lists(s, S) ==
  /\ s \in Seq(Apps)
  /\ \A i, j \in DOMAIN s : s[i] = s[j] => i = j
  /\ \A x \in Apps : x \in S <=> \E i \in DOMAIN s : s[i] = x

(* What the first records say.                                             *)
Starts(r, state, pc, after) ==
  /\ r \in FiberRecord /\ r.state = state /\ r.pc = pc /\ r.after = after
  /\ r.ret = "none" /\ r.next = Null /\ r.node = TRUE

(* The fields of a new fiber.                                              *)
LEMMA NewFiberFields ==
  ASSUME NEW state \in States, NEW pc \in PcSet, NEW after \in AfterSet
  PROVE  Starts(NewFiber(state, pc, after), state, pc, after)
<1>1. "none" \in RetSet /\ "none" \in States /\ Null \in AppOrNull /\ 0 \in 0 .. Visits
  BY ManagerAssumption, SMTT(30) DEF RetSet, States, AppOrNull, Visits
<1>. QED
  BY <1>1, ZenonT(30) DEF NewFiber, FiberRecord, Starts

(* The fibers that the program starts with.                                *)
LEMMA FirstRecords ==
  ASSUME KInit
  PROVE  /\ fib \in [Fibers -> FiberRecord]
         /\ Starts(fib[Main], "RUNNING", "run", "none")
         /\ \A f \in Apps : f # Main => Starts(fib[f], "READY", "maint", "run")
         /\ Starts(fib[0], "none", "maint", "tf")
         /\ \A m \in Managers : m # 0 => Starts(fib[m], "RUNNING", "tf", "none")
<1>1. /\ "RUNNING" \in States /\ "READY" \in States /\ "none" \in States
      /\ "run" \in PcSet /\ "maint" \in PcSet /\ "tf" \in PcSet
      /\ "none" \in AfterSet /\ "run" \in AfterSet /\ "tf" \in AfterSet
  BY ZenonT(30) DEF States, PcSet, AfterSet, Calling, Threading
<1>2. /\ Starts(NewFiber("RUNNING", "run", "none"), "RUNNING", "run", "none")
      /\ Starts(NewFiber("READY", "maint", "run"), "READY", "maint", "run")
      /\ Starts(NewFiber("none", "maint", "tf"), "none", "maint", "tf")
      /\ Starts(NewFiber("RUNNING", "tf", "none"), "RUNNING", "tf", "none")
  BY <1>1, NewFiberFields, Zenon
<1>3. /\ Main \in Apps /\ Main \in Fibers /\ 0 \in Managers /\ 0 \in Fibers
      /\ Apps \cap Managers = {} /\ Fibers = Apps \cup Managers
  BY ManagerAssumption, SMTT(30) DEF Fibers, Managers
<1>4. fib = [f \in Fibers |->
               IF f = Main THEN NewFiber("RUNNING", "run", "none")
               ELSE IF f \in Apps THEN NewFiber("READY", "maint", "run")
               ELSE IF f = 0 THEN NewFiber("none", "maint", "tf")
               ELSE NewFiber("RUNNING", "tf", "none")]
  BY ZenonT(30) DEF KInit
<1>5. /\ fib[Main] = NewFiber("RUNNING", "run", "none")
      /\ \A f \in Apps : f # Main => fib[f] = NewFiber("READY", "maint", "run")
      /\ fib[0] = NewFiber("none", "maint", "tf")
      /\ \A m \in Managers : m # 0 => fib[m] = NewFiber("RUNNING", "tf", "none")
  BY <1>3, <1>4, ZenonT(30)
<1>6. fib \in [Fibers -> FiberRecord]
  <2>1. \A f \in Fibers : fib[f] \in FiberRecord
    BY <1>2, <1>3, <1>5, SMTT(30) DEF Starts
  <2>. QED
    BY <1>4, <2>1, ZenonT(30)
<1>. QED
  BY <1>2, <1>5, <1>6, ZenonT(30)

(* The threads that fiber_manager_init starts.                             *)
LEMMA FirstThreads ==
  ASSUME KInit
  PROVE  /\ mgr \in [Managers -> ManagerRecord]
         /\ \A m \in Managers :
              /\ mgr[m].cur = IF m = 0 THEN Main ELSE m
              /\ mgr[m].old = Null /\ mgr[m].to_schedule = Null /\ mgr[m].done_fiber = Null
              /\ mgr[m].set_wait_location = Null /\ mgr[m].set_wait_value = Null
<1>1. /\ Main \in Fibers /\ \A m \in Managers : m \in Fibers
      /\ Null \in AppOrNull /\ Null \in FiberOrNull
  BY ManagerAssumption, ZenonT(30) DEF Fibers, AppOrNull, FiberOrNull
<1>. QED
  BY <1>1, ZenonT(30) DEF KInit, ManagerRecord

(* The first state satisfies the invariant, given that the new fibers are  *)
(* listed once each in the run queue.                                      *)
LEMMA InitKernel ==
  ASSUME Init, \A s \in Orders(Apps \ {Main}) : Lists(s, Apps \ {Main})
  PROVE  KernelInv
<1>. DEFINE S == Apps \ {Main}
<1>0. /\ KInit /\ JoinInit /\ Null \notin Fibers /\ Apps \cap Managers = {}
      /\ Fibers = Apps \cup Managers /\ Main \in Apps /\ 0 \in Managers
      /\ \A m \in Managers : m \in Int
  BY ManagerAssumption, SMTT(30) DEF Init, Fibers, Managers
<1>1. /\ fib \in [Fibers -> FiberRecord]
      /\ Starts(fib[Main], "RUNNING", "run", "none")
      /\ \A f \in Apps : f # Main => Starts(fib[f], "READY", "maint", "run")
      /\ Starts(fib[0], "none", "maint", "tf")
      /\ \A m \in Managers : m # 0 => Starts(fib[m], "RUNNING", "tf", "none")
  BY <1>0, FirstRecords, Zenon
<1>2. /\ mgr \in [Managers -> ManagerRecord]
      /\ \A m \in Managers :
           /\ mgr[m].cur = IF m = 0 THEN Main ELSE m
           /\ mgr[m].old = Null /\ mgr[m].to_schedule = Null /\ mgr[m].done_fiber = Null
           /\ mgr[m].set_wait_location = Null /\ mgr[m].set_wait_value = Null
  BY <1>0, FirstThreads, ZenonT(30)
<1>3. PICK created \in Orders(S) :
        runq = [q \in 0 .. 2 * NumThreads - 1 |-> IF q = 0 THEN created ELSE <<>>]
  BY <1>0, ZenonT(30) DEF KInit
<1>4. /\ created \in Seq(Apps)
      /\ \A i, j \in DOMAIN created : created[i] = created[j] => i = j
      /\ \A x \in Apps : x \in S <=> \E i \in DOMAIN created : created[i] = x
  BY Zenon DEF Lists
<1>5. /\ RunqTypes /\ DOMAIN runq = 0 .. 2 * NumThreads - 1 /\ 0 \in DOMAIN runq
      /\ runq[0] = created
      /\ \A q \in DOMAIN runq : q # 0 => DOMAIN runq[q] = {}
  BY <1>3, <1>4, ManagerAssumption, SMTT(30) DEF RunqTypes
<1>6. RunqInv
  BY <1>4, <1>5, ZenonT(30) DEF RunqInv
<1>7. \A f \in Apps : f \in Queued <=> f # Main
  BY <1>4, <1>5, SMTT(30) DEF Queued
<1>8. WaitqTypes /\ WaitqInv /\ Waiters = {}
  BY <1>0, SMTT(30) DEF KInit, WaitqTypes, WaitqInv, Waiters
<1>9. /\ join_info = [f \in Apps |-> Null] /\ todo \in [Apps -> Seq(CallSet)]
      /\ detach_state \in [Apps -> DetachStates]
  BY <1>0, ProgramsAssumption, Zenon DEF KInit, JoinInit, DetachStates
<1>10. KernelTypes
  BY <1>0, <1>1, <1>2, <1>5, <1>8, <1>9, SMTT(30) DEF KernelTypes, KInit
<1>11. RecordInv
  BY <1>0, <1>1, SMTT(30) DEF RecordInv, RecordOK, Starts, Yielding, Targets, Calling, Threading
<1>12. CallsInv
  <2>1. \A f \in Apps : Place(f) = "run"
    BY <1>1, ZenonT(30) DEF Place, Starts, Calling
  <2>. QED
    BY <2>1, ZenonT(30) DEF CallsInv, CallOK
<1>13. ThreadsInv
  BY <1>0, <1>1, <1>2, SMTT(30) DEF ThreadsInv, Starts
<1>14. LeavingInv
  BY <1>0, <1>1, <1>2, SMTT(30) DEF LeavingInv, Starts
<1>15. PlacesInv
  <2>1. \A f \in Apps : f # Main => Saved(f)
    BY <1>0, <1>1, <1>2, SMTT(30) DEF Saved, Starts
  <2>2. \A g \in Fibers, f \in Apps : fib[g].next # f
    BY <1>0, <1>1, SMTT(30) DEF Starts
  <2>3. \A f \in Apps : fib[f].node = (f \notin Waiters)
    BY <1>1, <1>8, ZenonT(30) DEF Starts
  <2>4. \A g \in Apps, f \in Apps : join_info[g] # f
    BY <1>0, <1>9, ZenonT(30)
  <2>. QED
    BY <1>1, <1>7, <1>8, <2>1, <2>2, <2>3, <2>4, ZenonT(30) DEF PlacesInv, Starts
<1>16. FoundInv
  BY <1>0, <1>1, <1>2, <1>7, SMTT(30) DEF FoundInv, Starts
<1>17. LocationsInv
  BY <1>0, <1>2, <1>9, SMTT(30) DEF LocationsInv
<1>. QED
  BY <1>6, <1>8, <1>10, <1>11, <1>12, <1>13, <1>14, <1>15, <1>16, <1>17, ZenonT(30) DEF KernelInv, QueuesInv

-----------------------------------------------------------------------------
(* Maintenance.                                                            *)

(* At most one of the effects on the old fiber is pending.                 *)
LEMMA Pending ==
  ASSUME KernelInv, NEW m \in Managers, NEW f \in Fibers, mgr[m].cur = f, fib[f].pc = "maint"
  PROVE  LET k == mgr[m] IN
         /\ k.old \in Fibers /\ k.old # f
         /\ \/ /\ k.old \in Apps /\ fib[k.old].state = "READY" /\ k.to_schedule = k.old
               /\ k.done_fiber = Null /\ k.set_wait_value = Null /\ k.set_wait_location = Null
            \/ /\ k.old \in Apps /\ fib[k.old].state = "WAITING" /\ k.set_wait_value = k.old
               /\ k.set_wait_location \in Apps
               /\ k.to_schedule = Null /\ k.done_fiber = Null
            \/ /\ k.old \in Apps => fib[k.old].state = "SAVING"
               /\ k.to_schedule = Null /\ k.done_fiber = Null
               /\ k.set_wait_value = Null /\ k.set_wait_location = Null
            \/ /\ k.old \in Apps /\ fib[k.old].state = "DONE" /\ k.done_fiber = k.old
               /\ k.to_schedule = Null
               /\ k.set_wait_value = Null /\ k.set_wait_location = Null
<1>. DEFINE k == mgr[m]
<1>1. /\ k.old \in FiberOrNull /\ k.to_schedule \in AppOrNull /\ k.done_fiber \in AppOrNull
      /\ k.set_wait_value \in AppOrNull /\ k.set_wait_location \in AppOrNull
  BY Types, ZenonT(30) DEF ManagerRecord
<1>2. k.old # Null /\ k.old # f /\ Null \notin Fibers
  BY ManagerAssumption, ZenonT(30) DEF KernelInv, ThreadsInv
<1>3. k.old \in Fibers
  BY <1>1, <1>2, ZenonT(30) DEF FiberOrNull
<1>4. f \in Apps => fib[f].state = "RUNNING"
  BY Executes, ZenonT(30) DEF Leaving
<1>5. /\ k.to_schedule # Null => k.to_schedule = k.old /\ k.old \in Apps /\ fib[k.old].state = "READY"
      /\ k.done_fiber # Null => k.done_fiber = k.old /\ k.old \in Apps /\ fib[k.old].state = "DONE"
      /\ k.set_wait_value # Null => k.set_wait_value = k.old /\ k.old \in Apps /\ fib[k.old].state = "WAITING"
  <2>1. ASSUME NEW h \in Apps
        PROVE  /\ k.to_schedule = h => h = k.old /\ fib[h].state = "READY"
               /\ k.done_fiber = h => h = k.old /\ fib[h].state = "DONE"
               /\ k.set_wait_value = h => h = k.old /\ fib[h].state = "WAITING"
    BY <1>4, SMTT(30) DEF KernelInv, LeavingInv
  <2>. QED
    BY <1>1, <2>1, ZenonT(30) DEF AppOrNull
<1>6. k.set_wait_location = Null <=> k.set_wait_value = Null
  BY Zenon DEF KernelInv, LocationsInv
<1>7. k.old \in Apps =>
        /\ fib[k.old].state \in {"READY", "WAITING", "SAVING", "DONE"}
        /\ fib[k.old].state = "READY" => k.to_schedule = k.old
        /\ fib[k.old].state = "WAITING" => k.set_wait_value = k.old
        /\ fib[k.old].state = "DONE" => k.done_fiber = k.old
  BY SMTT(30) DEF KernelInv, LeavingInv
<1>. HIDE DEF k
<1>8. \/ /\ k.old \in Apps /\ fib[k.old].state = "READY" /\ k.to_schedule = k.old
         /\ k.done_fiber = Null /\ k.set_wait_value = Null /\ k.set_wait_location = Null
      \/ /\ k.old \in Apps /\ fib[k.old].state = "WAITING" /\ k.set_wait_value = k.old
         /\ k.set_wait_location \in Apps
         /\ k.to_schedule = Null /\ k.done_fiber = Null
      \/ /\ k.old \in Apps => fib[k.old].state = "SAVING"
         /\ k.to_schedule = Null /\ k.done_fiber = Null
         /\ k.set_wait_value = Null /\ k.set_wait_location = Null
      \/ /\ k.old \in Apps /\ fib[k.old].state = "DONE" /\ k.done_fiber = k.old
         /\ k.to_schedule = Null
         /\ k.set_wait_value = Null /\ k.set_wait_location = Null
  BY <1>1, <1>2, <1>5, <1>6, <1>7, Zenon DEF AppOrNull
<1>. QED
  BY <1>2, <1>3, <1>8, ZenonT(30) DEF k

(* b is a with the fiber f back from do_maintenance.                       *)
Resumed(a, b, f, p) ==
  /\ b \in [Fibers -> FiberRecord]
  /\ \A h \in Fibers : h # f => b[h] = a[h]
  /\ b[f].pc = p /\ b[f].after = "none"
  /\ b[f].state = a[f].state /\ b[f].node = a[f].node /\ b[f].next = a[f].next
  /\ b[f].ret = a[f].ret

(* The fields of a fiber that goes on where it was suspended.              *)
LEMMA ResumeUpdate ==
  ASSUME NEW a \in [Fibers -> FiberRecord], NEW f \in Fibers, NEW p \in PcSet,
         NEW b, b = [a EXCEPT ![f].pc = p, ![f].after = "none"]
  PROVE  Resumed(a, b, f, p)
<1>0. "none" \in AfterSet
  BY Names, ZenonT(30)
<1>1. b \in [Fibers -> FiberRecord]
  BY <1>0, ZenonT(30) DEF FiberRecord
<1>2. /\ \A h \in Fibers : h # f => b[h] = a[h]
      /\ b[f] = [a[f] EXCEPT !.pc = p, !.after = "none"] /\ a[f] \in FiberRecord
  BY Zenon
<1>3. /\ b[f].pc = p /\ b[f].after = "none"
      /\ b[f].state = a[f].state /\ b[f].node = a[f].node /\ b[f].next = a[f].next
      /\ b[f].ret = a[f].ret
  BY ONLY <1>2, Zenon DEF FiberRecord
<1>. QED
  BY <1>1, <1>2, <1>3, ZenonT(30) DEF Resumed

(* The old fiber's record after do_maintenance.                            *)
LEMMA MaintainedTypes ==
  ASSUME KernelInv, NEW m \in Managers, NEW o \in Fibers, mgr[m].old = o,
         mgr[m].done_fiber \in {Null, o}
  PROVE  LET s == IF mgr[m].done_fiber = o THEN "freed"
                  ELSE IF fib[o].state = "SAVING" THEN "WAITING" ELSE fib[o].state
         IN InState(fib, Maintained(m), o, s)
<1>. DEFINE s == IF mgr[m].done_fiber = o THEN "freed"
                 ELSE IF fib[o].state = "SAVING" THEN "WAITING" ELSE fib[o].state
            a == Maintained(m)
<1>0. Null \notin Fibers /\ "freed" \in States /\ "WAITING" \in States
  BY ManagerAssumption, Names, Zenon
<1>1. fib \in [Fibers -> FiberRecord] /\ fib[o] \in FiberRecord /\ fib[o].state \in States
  BY FibTypes, Zenon DEF FiberRecord
<1>2. s \in States
  BY <1>0, <1>1, ZenonT(30)
<1>3. a = [f \in Fibers |->
             IF f = mgr[m].done_fiber THEN [fib[f] EXCEPT !.state = "freed"]
             ELSE IF f = mgr[m].old /\ fib[f].state = "SAVING"
             THEN [fib[f] EXCEPT !.state = "WAITING"] ELSE fib[f]]
  BY ZenonT(30) DEF Maintained
<1>4. \A h \in Fibers : h # o => a[h] = fib[h]
  BY <1>0, <1>3, ZenonT(40)
<1>5. a[o] = [fib[o] EXCEPT !.state = s]
  <2>1. CASE mgr[m].done_fiber = o
    BY <1>3, <2>1, ZenonT(30)
  <2>2. CASE mgr[m].done_fiber # o /\ fib[o].state = "SAVING"
    BY <1>3, <2>2, ZenonT(30)
  <2>3. CASE mgr[m].done_fiber # o /\ fib[o].state # "SAVING"
    <3>1. a[o] = fib[o] /\ s = fib[o].state
      BY <1>3, <2>3, ZenonT(30)
    <3>2. fib[o] = [fib[o] EXCEPT !.state = fib[o].state]
      BY <1>1, ZenonT(30) DEF FiberRecord
    <3>. QED
      BY <3>1, <3>2, ZenonT(30)
  <2>. QED
    BY <2>1, <2>2, <2>3, Zenon
<1>6. a = [fib EXCEPT ![o].state = s]
  <2>1. a \in [Fibers -> {a[h] : h \in Fibers}]
    BY <1>3, ZenonT(30)
  <2>2. ASSUME NEW h \in Fibers PROVE a[h] = [fib EXCEPT ![o].state = s][h]
    BY <1>1, <1>4, <1>5, ZenonT(30)
  <2>. HIDE DEF a, s
  <2>. QED
    BY <1>1, <2>1, <2>2, ZenonT(30)
<1>. HIDE DEF a, s
<1>7. InState(fib, a, o, s)
  BY <1>1, <1>2, <1>6, StateUpdate, Zenon
<1>. QED
  BY <1>7, Zenon DEF a, s

CleanThread(m) ==
  /\ mgr' \in [Managers -> ManagerRecord]
  /\ \A n \in Managers : n # m => mgr'[n] = mgr[n]
  /\ mgr'[m].cur = mgr[m].cur /\ mgr'[m].old = Null /\ mgr'[m].to_schedule = Null
  /\ mgr'[m].done_fiber = Null /\ mgr'[m].set_wait_location = Null
  /\ mgr'[m].set_wait_value = Null

(* The thread after fiber_manager_do_maintenance.                          *)
LEMMA CleanUpdate ==
  ASSUME mgr \in [Managers -> ManagerRecord], NEW m \in Managers,
         mgr' = [mgr EXCEPT ![m].old = Null,
                            ![m].done_fiber = Null, ![m].to_schedule = Null,
                            ![m].set_wait_location = Null, ![m].set_wait_value = Null]
  PROVE  CleanThread(m)
<1>0. Null \in AppOrNull /\ Null \in FiberOrNull
  BY ZenonT(30) DEF AppOrNull, FiberOrNull
<1>1. PICK a : a = [mgr EXCEPT ![m].old = Null, ![m].done_fiber = Null]
  BY ZenonT(30)
<1>2. PICK b : b = [a EXCEPT ![m].to_schedule = Null, ![m].set_wait_location = Null]
  BY Zenon
<1>3. mgr' = [b EXCEPT ![m].set_wait_value = Null]
  BY <1>1, <1>2, ZenonT(30)
<1>4. a \in [Managers -> ManagerRecord]
  BY <1>0, <1>1, ZenonT(30) DEF ManagerRecord
<1>5. b \in [Managers -> ManagerRecord]
  BY ONLY <1>0, <1>2, <1>4, m \in Managers, ZenonT(30) DEF ManagerRecord
<1>6. mgr' \in [Managers -> ManagerRecord]
  BY ONLY <1>0, <1>3, <1>5, m \in Managers, ZenonT(30) DEF ManagerRecord
<1>7. /\ a[m] = [mgr[m] EXCEPT !.old = Null, !.done_fiber = Null] /\ mgr[m] \in ManagerRecord
      /\ \A n \in Managers : n # m => a[n] = mgr[n]
  BY <1>1, ZenonT(30)
<1>8. a[m].cur = mgr[m].cur /\ a[m].old = Null /\ a[m].done_fiber = Null
  BY ONLY <1>7, ZenonT(30) DEF ManagerRecord
<1>9. /\ b[m] = [a[m] EXCEPT !.to_schedule = Null, !.set_wait_location = Null]
      /\ a[m] \in ManagerRecord
      /\ \A n \in Managers : n # m => b[n] = a[n]
  BY <1>2, <1>4, ZenonT(30)
<1>10. /\ b[m].cur = a[m].cur /\ b[m].old = a[m].old /\ b[m].done_fiber = a[m].done_fiber
       /\ b[m].to_schedule = Null /\ b[m].set_wait_location = Null
  BY ONLY <1>9, ZenonT(30) DEF ManagerRecord
<1>11. /\ mgr'[m] = [b[m] EXCEPT !.set_wait_value = Null] /\ b[m] \in ManagerRecord
       /\ \A n \in Managers : n # m => mgr'[n] = b[n]
  BY <1>3, <1>5, ZenonT(30)
<1>12. /\ mgr'[m].cur = b[m].cur /\ mgr'[m].old = b[m].old
       /\ mgr'[m].done_fiber = b[m].done_fiber /\ mgr'[m].to_schedule = b[m].to_schedule
       /\ mgr'[m].set_wait_location = b[m].set_wait_location /\ mgr'[m].set_wait_value = Null
  BY ONLY <1>11, ZenonT(30) DEF ManagerRecord
<1>. QED
  BY <1>6, <1>7, <1>8, <1>9, <1>10, <1>11, <1>12, ZenonT(40) DEF CleanThread

(* fiber_manager_do_maintenance keeps the invariant.                       *)
LEMMA MaintenanceKeeps ==
  ASSUME KernelInv, NEW m \in Managers, NEW f \in Fibers, Maintenance(m, f), UNCHANGED jvars
  PROVE  KernelInv'
<1>. DEFINE k == mgr[m]
            o == mgr[m].old
<1>1. /\ mgr[m].cur = f /\ fib[f].pc = "maint"
      /\ fib' = [Maintained(m) EXCEPT
                   ![f].pc = IF MaintenanceAsserts(m) THEN fib[f].after ELSE "abort",
                   ![f].after = "none"]
      /\ runq' = IF k.to_schedule = Null THEN runq ELSE Schedule(m, k.to_schedule)
      /\ join_info' = IF k.set_wait_location = Null THEN join_info
                      ELSE [join_info EXCEPT ![k.set_wait_location] = k.set_wait_value]
      /\ mgr' = [mgr EXCEPT ![m].old = Null,
                            ![m].done_fiber = Null, ![m].to_schedule = Null,
                            ![m].set_wait_location = Null, ![m].set_wait_value = Null]
      /\ UNCHANGED <<from, lock_using, waitq>>
  BY ZenonT(30) DEF Maintenance, At
<1>2. /\ o \in Fibers /\ o # f
      /\ \/ /\ o \in Apps /\ fib[o].state = "READY" /\ k.to_schedule = o
            /\ k.done_fiber = Null /\ k.set_wait_value = Null /\ k.set_wait_location = Null
         \/ /\ o \in Apps /\ fib[o].state = "WAITING" /\ k.set_wait_value = o
            /\ k.set_wait_location \in Apps
            /\ k.to_schedule = Null /\ k.done_fiber = Null
         \/ /\ o \in Apps => fib[o].state = "SAVING"
            /\ k.to_schedule = Null /\ k.done_fiber = Null
            /\ k.set_wait_value = Null /\ k.set_wait_location = Null
         \/ /\ o \in Apps /\ fib[o].state = "DONE" /\ k.done_fiber = o
            /\ k.to_schedule = Null
            /\ k.set_wait_value = Null /\ k.set_wait_location = Null
  BY <1>1, Pending, ZenonT(30)
<1>3. Null \notin Fibers /\ Null \notin Apps /\ Apps \subseteq Fibers
  BY ManagerAssumption, ZenonT(30) DEF Fibers
<1>4. MaintenanceAsserts(m)
  BY <1>2, <1>3, ZenonT(30) DEF MaintenanceAsserts
<1>. DEFINE s == IF mgr[m].done_fiber = o THEN "freed"
                 ELSE IF fib[o].state = "SAVING" THEN "WAITING" ELSE fib[o].state
<1>5. InState(fib, Maintained(m), o, s)
  BY <1>2, MaintainedTypes, ZenonT(30)
<1>6. fib[f].after \in PcSet
  <2>1. RecordOK(f, fib[f]) /\ (f \in Apps => fib[f].state = "RUNNING")
    BY <1>1, Executes, ZenonT(30) DEF Leaving
  <2>. QED
    BY <1>1, <2>1, Names, ZenonT(30) DEF RecordOK, Targets, Fibers
<1>7. Resumed(Maintained(m), fib', f, fib[f].after)
  <2>1. fib' = [Maintained(m) EXCEPT ![f].pc = fib[f].after, ![f].after = "none"]
    BY <1>1, <1>4, ZenonT(30)
  <2>2. Maintained(m) \in [Fibers -> FiberRecord]
    BY <1>5, ZenonT(30) DEF InState
  <2>. QED
    BY <1>6, <2>1, <2>2, ResumeUpdate, Zenon
<1>8. CleanThread(m)
  <2>1. mgr \in [Managers -> ManagerRecord]
    BY Types, ZenonT(30)
  <2>. QED
    BY <1>1, <2>1, CleanUpdate, Zenon
<1>9. /\ fib' \in [Fibers -> FiberRecord]
      /\ \A h \in Fibers : h \notin {f, o} => fib'[h] = fib[h]
      /\ fib'[o] = Maintained(m)[o] /\ Maintained(m)[f] = fib[f]
  <2>1. \A h \in Fibers : h # o => Maintained(m)[h] = fib[h]
    BY <1>5, ZenonT(30) DEF InState
  <2>2. fib' \in [Fibers -> FiberRecord] /\ \A h \in Fibers : h # f => fib'[h] = Maintained(m)[h]
    BY <1>7, ZenonT(30) DEF Resumed
  <2>. QED
    BY <1>2, <2>1, <2>2, ZenonT(30)
<1>10. /\ fib'[f].pc = fib[f].after /\ fib'[f].after = "none" /\ fib'[f].ret = fib[f].ret
       /\ fib'[f].state = fib[f].state /\ fib'[f].node = fib[f].node
       /\ fib'[f].next = fib[f].next
  BY <1>7, <1>9, ZenonT(30) DEF Resumed
<1>11. /\ fib'[o].pc = fib[o].pc /\ fib'[o].after = fib[o].after /\ fib'[o].ret = fib[o].ret
       /\ fib'[o].node = fib[o].node /\ fib'[o].next = fib[o].next
       /\ fib'[o].seen = fib[o].seen /\ fib'[o].state = s
  BY <1>5, <1>9, ZenonT(30) DEF InState
<1>12. from[m] \in DOMAIN runq
  <2>1. from[m] \in {2 * m, 2 * m + 1} /\ DOMAIN runq = 0 .. 2 * NumThreads - 1
    BY Types, Zenon DEF RunqTypes
  <2>. QED
    BY <2>1, ManagerAssumption, SMTT(30) DEF Managers
<1>13. /\ RunqTypes' /\ RunqInv'
       /\ Queued' = IF k.to_schedule = Null THEN Queued ELSE Queued \cup {o}
  <2>1. CASE k.to_schedule = Null
    BY <1>1, <2>1, Types, SMTT(30) DEF RunqTypes, RunqInv, Queued
  <2>2. CASE k.to_schedule # Null
    <3>1. o \in Apps /\ k.to_schedule = o /\ o \notin Queued
      <4>1. o \in Apps /\ k.to_schedule = o /\ fib[o].state = "READY"
        BY <1>2, <2>2, ZenonT(30)
      <4>. QED
        BY <4>1, Zenon DEF KernelInv, PlacesInv, Saved
    <3>2. runq' = [runq EXCEPT ![from[m]] = Append(@, o)]
      BY <1>1, <2>2, <3>1, ZenonT(30) DEF Schedule
    <3>. QED
      BY <1>12, <2>2, <3>1, <3>2, Types, RunqPush, ZenonT(30)
  <2>. QED
    BY <2>1, <2>2, ZenonT(30)
<1>14. WaitqTypes' /\ WaitqInv' /\ Waiters' = Waiters
  BY <1>1, Types, ZenonT(30) DEF WaitqTypes, WaitqInv, Waiters
<1>15. join_info' \in [Apps -> Apps \cup {Null}]
  BY <1>1, <1>2, <1>3, Types, ZenonT(30)
<1>16. Cleans(m, f, o)
  <2>1. /\ FromOK /\ lock_using' \in {-1, 0, 1} /\ detach_state' = detach_state /\ todo' = todo
    BY <1>1, FromSame, Types, ZenonT(30) DEF jvars
  <2>2. QueuesInv'
    BY <1>13, <1>14, ZenonT(30) DEF QueuesInv
  <2>. HIDE DEF s
  <2>. QED
    BY <1>1, <1>8, <1>9, <1>10, <1>11, <1>13, <1>14, <1>15, <2>1, <2>2, ZenonT(30) DEF Cleans, CleanThread
<1>17. Yielded(m, o) \/ Located(m, o) \/ Parked(m, o) \/ Freed(m, o)
  <2>1. CASE /\ o \in Apps /\ fib[o].state = "READY" /\ k.to_schedule = o
             /\ k.done_fiber = Null /\ k.set_wait_value = Null /\ k.set_wait_location = Null
    BY <1>1, <1>3, <1>11, <1>13, <2>1, ZenonT(30) DEF Yielded
  <2>2. CASE /\ o \in Apps /\ fib[o].state = "WAITING" /\ k.set_wait_value = o
             /\ k.set_wait_location \in Apps
             /\ k.to_schedule = Null /\ k.done_fiber = Null
    BY <1>1, <1>3, <1>11, <1>13, <2>2, ZenonT(30) DEF Located
  <2>3. CASE /\ o \in Apps => fib[o].state = "SAVING"
             /\ k.to_schedule = Null /\ k.done_fiber = Null
             /\ k.set_wait_value = Null /\ k.set_wait_location = Null
    BY <1>1, <1>2, <1>3, <1>11, <1>13, <2>3, ZenonT(30) DEF Parked
  <2>4. CASE /\ o \in Apps /\ fib[o].state = "DONE" /\ k.done_fiber = o
             /\ k.to_schedule = Null
             /\ k.set_wait_value = Null /\ k.set_wait_location = Null
    BY <1>1, <1>3, <1>11, <1>13, <2>4, ZenonT(30) DEF Freed
  <2>. QED
    BY <1>2, <2>1, <2>2, <2>3, <2>4, ZenonT(30)
<1>. QED
  BY <1>2, <1>16, <1>17, CleansKeeps, Zenon

(* Waiting and finishing.                                                  *)

(* b is a with f in fiber_manager_yield, in a new state.                   *)
StopsIn(a, b, f, r, t) ==
  /\ b \in [Fibers -> FiberRecord]
  /\ \A h \in Fibers : h # f => b[h] = a[h]
  /\ b[f].pc = "next" /\ b[f].ret = r /\ b[f].state = t
  /\ b[f].after = a[f].after /\ b[f].next = a[f].next /\ b[f].node = a[f].node

(* The fields of a fiber that gives up its thread.                         *)
LEMMA StopUpdate ==
  ASSUME NEW a \in [Fibers -> FiberRecord], NEW f \in Fibers, NEW r \in RetSet, NEW t \in States,
         NEW b, b = [[a EXCEPT ![f].pc = "next", ![f].ret = r] EXCEPT ![f].state = t]
  PROVE  StopsIn(a, b, f, r, t)
<1>0. "next" \in PcSet
  BY Names, ZenonT(30)
<1>1. PICK c : c = [a EXCEPT ![f].pc = "next", ![f].ret = r]
  BY ZenonT(30)
<1>2. c \in [Fibers -> FiberRecord]
  BY <1>0, <1>1, ZenonT(30) DEF FiberRecord
<1>3. /\ c[f] = [a[f] EXCEPT !.pc = "next", !.ret = r] /\ a[f] \in FiberRecord
      /\ \A h \in Fibers : h # f => c[h] = a[h]
  BY <1>1, Zenon
<1>4. /\ c[f].pc = "next" /\ c[f].ret = r
      /\ c[f].after = a[f].after /\ c[f].next = a[f].next /\ c[f].node = a[f].node
  BY ONLY <1>3, ZenonT(30) DEF FiberRecord
<1>5. InState(c, b, f, t)
  <2>1. b = [c EXCEPT ![f].state = t]
    BY <1>1, ZenonT(30)
  <2>. QED
    BY <1>2, <2>1, StateUpdate, Zenon
<1>. QED
  BY <1>3, <1>4, <1>5, Zenon DEF InState, StopsIn

(* fiber_manager_set_and_wait keeps the invariant.                         *)
LEMMA SetWaitsKeeps ==
  ASSUME KernelInv, NEW m \in Managers, NEW f \in Apps, SetWaits(m, f)
  PROVE  KernelInv'
<1>1. PICK g \in Apps, p \in {"joined", "done"} :
        /\ mgr[m].cur = f /\ fib[f].pc \in Targets
        /\ JoinSame(f) /\ UNCHANGED <<runq, from, lock_using, waitq>>
        /\ detach_state[g] = "NONE" /\ detach_state'[g] # "NONE"
        /\ SetAndWait(m, f, g, p)
        /\ p = "joined" => todo'[f] # <<>> /\ Head(todo'[f])[2] \in Apps
  BY ZenonT(30) DEF SetWaits
<1>2. /\ fib[f].state = "RUNNING" /\ fib[f].next = Null
      /\ fib[f].ret = "none" /\ fib[f].after = "none"
  BY <1>1, OwnRunning, ZenonT(30)
<1>3. f \in Fibers /\ p \in RetSet /\ "WAITING" \in States /\ p \in Targets
  BY Names, ZenonT(30) DEF Fibers, Targets, Calling
<1>4. StopsIn(fib, fib', f, p, "WAITING")
  <2>1. fib' = [[fib EXCEPT ![f].pc = "next", ![f].ret = p] EXCEPT ![f].state = "WAITING"]
    BY <1>1, <1>2, ZenonT(30) DEF SetAndWait, CallYield
  <2>. QED
    BY <1>3, <2>1, FibTypes, StopUpdate, Zenon
<1>5. /\ mgr' \in [Managers -> ManagerRecord]
      /\ \A n \in Managers : n # m => mgr'[n] = mgr[n]
      /\ mgr'[m].cur = mgr[m].cur /\ mgr'[m].old = mgr[m].old
      /\ mgr'[m].to_schedule = mgr[m].to_schedule /\ mgr'[m].done_fiber = mgr[m].done_fiber
      /\ mgr'[m].set_wait_location = g /\ mgr'[m].set_wait_value = f
  <2>1. mgr' = [mgr EXCEPT ![m].set_wait_location = g, ![m].set_wait_value = f]
    BY <1>1, <1>2, ZenonT(30) DEF SetAndWait
  <2>2. mgr \in [Managers -> ManagerRecord] /\ g \in AppOrNull /\ f \in AppOrNull
    BY Types, ZenonT(30) DEF AppOrNull
  <2>. QED
    BY ONLY <2>1, <2>2, m \in Managers, ZenonT(30) DEF ManagerRecord
<1>6. RecordOK(f, fib'[f])
  <2>1. f \notin Managers
    BY ManagerAssumption, ZenonT(30)
  <2>. QED
    BY <1>2, <1>3, <1>4, <2>1, ZenonT(30) DEF RecordOK, StopsIn, Yielding, Targets, Calling, Threading
<1>7. CallOK(f)'
  <2>1. Place(f)' = p
    BY <1>3, <1>4, ZenonT(30) DEF Place, StopsIn, Calling
  <2>. QED
    BY <1>1, <2>1, ZenonT(30) DEF CallOK
<1>8. QueuesSame
  BY <1>1, SameQueues, ZenonT(30)
<1>9. Stops(m, f)
  BY <1>1, <1>2, <1>4, <1>5, <1>6, <1>7, <1>8, FromSame, Types, ZenonT(30)
  DEF Stops, StopsIn, SetAndWait, QueuesSame, Targets, Calling
<1>10. ToLocation(m, f)
  BY <1>1, <1>4, <1>5, <1>8, ZenonT(30) DEF ToLocation, StopsIn, QueuesSame
<1>. QED
  BY <1>9, <1>10, StopsKeeps, ZenonT(30)

(* A fiber that ends keeps the invariant.                                  *)
LEMMA FinishesKeeps ==
  ASSUME KernelInv, NEW m \in Managers, NEW f \in Apps, Finishes(m, f)
  PROVE  KernelInv'
<1>1. /\ mgr[m].cur = f /\ fib[f].pc \in Targets
      /\ fib' = [CallYield(f, "abort") EXCEPT ![f].state = "DONE"]
      /\ mgr' = [mgr EXCEPT ![m].done_fiber = f]
      /\ UNCHANGED <<runq, from, lock_using, waitq, join_info, detach_state, todo>>
  BY ZenonT(30) DEF Finishes, Done, At, Targets, Calling, jvars
<1>2. /\ fib[f].state = "RUNNING" /\ fib[f].next = Null
      /\ fib[f].ret = "none" /\ fib[f].after = "none"
  BY <1>1, OwnRunning, ZenonT(30)
<1>3. f \in Fibers /\ "abort" \in RetSet /\ "DONE" \in States
  BY Names, ZenonT(30) DEF Fibers
<1>4. StopsIn(fib, fib', f, "abort", "DONE")
  <2>1. fib' = [[fib EXCEPT ![f].pc = "next", ![f].ret = "abort"] EXCEPT ![f].state = "DONE"]
    BY <1>1, ZenonT(30) DEF CallYield
  <2>. QED
    BY <1>3, <2>1, FibTypes, StopUpdate, Zenon
<1>5. /\ mgr' \in [Managers -> ManagerRecord]
      /\ \A n \in Managers : n # m => mgr'[n] = mgr[n]
      /\ mgr'[m].cur = mgr[m].cur /\ mgr'[m].old = mgr[m].old
      /\ mgr'[m].to_schedule = mgr[m].to_schedule /\ mgr'[m].done_fiber = f
      /\ mgr'[m].set_wait_location = mgr[m].set_wait_location
      /\ mgr'[m].set_wait_value = mgr[m].set_wait_value
  <2>2. mgr \in [Managers -> ManagerRecord] /\ f \in AppOrNull
    BY Types, ZenonT(30) DEF AppOrNull
  <2>. QED
    BY ONLY <1>1, <2>2, m \in Managers, ZenonT(30) DEF ManagerRecord
<1>6. RecordOK(f, fib'[f])
  <2>1. f \notin Managers
    BY ManagerAssumption, ZenonT(30)
  <2>. QED
    BY <1>2, <1>3, <1>4, <2>1, ZenonT(30) DEF RecordOK, StopsIn, Yielding, Targets, Calling, Threading
<1>7. CallOK(f)'
  <2>1. Place(f)' = "abort"
    BY <1>4, ZenonT(30) DEF Place, StopsIn, Calling
  <2>. QED
    BY <2>1, ZenonT(30) DEF CallOK
<1>8. QueuesSame
  BY <1>1, SameQueues, ZenonT(30)
<1>9. Stops(m, f)
  BY <1>1, <1>2, <1>4, <1>5, <1>6, <1>7, <1>8, FromSame, JoinUnchanged, Types, ZenonT(30)
  DEF Stops, StopsIn, QueuesSame, Targets, Calling
<1>10. ToEnd(m, f)
  BY <1>4, <1>5, <1>8, ZenonT(30) DEF ToEnd, StopsIn, QueuesSame
<1>. QED
  BY <1>9, <1>10, StopsKeeps, ZenonT(30)

(* b is a with f in the queue of waiters.                                  *)
Entered(a, b, f) ==
  /\ b \in [Fibers -> FiberRecord]
  /\ \A h \in Fibers : h # f => b[h] = a[h]
  /\ b[f].pc = "waitlink" /\ b[f].state = "SAVING" /\ b[f].node = FALSE
  /\ b[f].after = a[f].after /\ b[f].next = a[f].next /\ b[f].ret = a[f].ret

(* The fields of a fiber that enters a wait queue.                         *)
LEMMA EnterUpdate ==
  ASSUME NEW a \in [Fibers -> FiberRecord], NEW f \in Fibers,
         NEW b, b = [a EXCEPT ![f].state = "SAVING", ![f].node = FALSE, ![f].pc = "waitlink"]
  PROVE  Entered(a, b, f)
<1>0. "waitlink" \in PcSet /\ "SAVING" \in States /\ FALSE \in BOOLEAN
  BY Names, ZenonT(30)
<1>1. PICK c : c = [a EXCEPT ![f].state = "SAVING"]
  BY ZenonT(30)
<1>2. InState(a, c, f, "SAVING")
  BY <1>0, <1>1, StateUpdate, Zenon
<1>3. b = [c EXCEPT ![f].node = FALSE, ![f].pc = "waitlink"] /\ c \in [Fibers -> FiberRecord]
  BY <1>1, <1>2, ZenonT(30) DEF InState
<1>4. b \in [Fibers -> FiberRecord]
  <2>1. PICK d : d = [c EXCEPT ![f].node = FALSE]
    BY ZenonT(30)
  <2>2. d \in [Fibers -> FiberRecord]
    BY ONLY <1>0, <1>3, <2>1, f \in Fibers, ZenonT(30) DEF FiberRecord
  <2>3. b = [d EXCEPT ![f].pc = "waitlink"]
    BY <1>3, <2>1, ZenonT(30)
  <2>. QED
    BY ONLY <1>0, <2>2, <2>3, f \in Fibers, ZenonT(30) DEF FiberRecord
<1>5. /\ b[f] = [c[f] EXCEPT !.node = FALSE, !.pc = "waitlink"] /\ c[f] \in FiberRecord
      /\ \A h \in Fibers : h # f => b[h] = c[h]
  BY <1>3, Zenon
<1>6. /\ b[f].pc = "waitlink" /\ b[f].state = c[f].state /\ b[f].node = FALSE
      /\ b[f].after = c[f].after /\ b[f].next = c[f].next /\ b[f].ret = c[f].ret
  BY ONLY <1>5, ZenonT(30) DEF FiberRecord
<1>. QED
  BY <1>2, <1>4, <1>5, <1>6, ZenonT(30) DEF InState, Entered

(* fiber_manager_wait_in_mpsc_queue up to the exchange of the tail keeps   *)
(* the invariant.                                                          *)
LEMMA WaitPushKeeps ==
  ASSUME KernelInv, NEW m \in Managers, NEW f \in Apps, WaitPush(m, f), UNCHANGED jvars
  PROVE  KernelInv'
<1>1. /\ mgr[m].cur = f /\ fib[f].pc = "wait" /\ f \in Fibers
      /\ UNCHANGED <<mgr, runq, from, lock_using, join_info, detach_state, todo>>
  BY ZenonT(30) DEF WaitPush, At, jvars, Fibers
<1>2. /\ RecordOK(f, fib[f]) /\ fib[f].state = "RUNNING"
      /\ fib[f].next = Null /\ fib[f].after = "none" /\ fib[f].ret \in {"locked", "left"}
  BY <1>1, Executes, ZenonT(30) DEF Leaving, RecordOK
<1>3. f \notin Waiters /\ fib[f].node
  BY <1>2, ZenonT(30) DEF KernelInv, PlacesInv
<1>4. /\ fib' = [fib EXCEPT ![f].state = "SAVING", ![f].node = FALSE, ![f].pc = "waitlink"]
      /\ waitq' = Append(waitq, [fiber |-> f, linked |-> FALSE])
  BY <1>2, <1>3, ZenonT(30) DEF WaitPush
<1>5. Entered(fib, fib', f)
  BY <1>1, <1>4, FibTypes, EnterUpdate, Zenon
<1>6. WaitqTypes' /\ WaitqInv' /\ Waiters' = Waiters \cup {f}
  BY <1>3, <1>4, Types, WaitqPush, ZenonT(30)
<1>7. RunqTypes' /\ RunqInv' /\ Queued' = Queued
  BY <1>1, Types, SMTT(30) DEF RunqTypes, RunqInv, Queued
<1>8. RecordOK(f, fib'[f])
  <2>1. f \notin Managers
    BY ManagerAssumption, ZenonT(30)
  <2>. QED
    BY <1>2, <1>5, <2>1, ZenonT(30) DEF RecordOK, Entered, Yielding, Targets, Calling, Threading
<1>9. CallOK(f)'
  <2>1. Place(f)' = "waitlink"
    BY <1>5, ZenonT(30) DEF Place, Entered, Calling
  <2>. QED
    BY <2>1, ZenonT(30) DEF CallOK
<1>10. Stops(m, f)
  BY <1>1, <1>2, <1>5, <1>6, <1>7, <1>8, <1>9, FromSame, JoinUnchanged, Types, ZenonT(30)
  DEF Stops, Entered, QueuesInv
<1>11. ToWaiters(m, f)
  BY <1>1, <1>5, <1>6, ZenonT(30) DEF ToWaiters, Entered
<1>. QED
  BY <1>10, <1>11, StopsKeeps, ZenonT(30)

-----------------------------------------------------------------------------
(* Waking.                                                                 *)

(* b is a with g awake, and then with f at another place of its code.      *)
Awake(a, b, g, s) ==
  /\ b \in [Fibers -> FiberRecord]
  /\ \A h \in Fibers : h # g => b[h] = a[h]
  /\ b[g].node = TRUE /\ b[g].state = s
  /\ b[g].pc = a[g].pc /\ b[g].ret = a[g].ret /\ b[g].after = a[g].after
  /\ b[g].next = a[g].next /\ b[g].seen = a[g].seen

GoesOn(a, b, f, p) ==
  /\ b \in [Fibers -> FiberRecord]
  /\ \A h \in Fibers : h # f => b[h] = a[h]
  /\ b[f].pc = p
  /\ b[f].state = a[f].state /\ b[f].node = a[f].node /\ b[f].ret = a[f].ret
  /\ b[f].after = a[f].after /\ b[f].next = a[f].next /\ b[f].seen = a[f].seen

(* The fields of a fiber whose node has been given back.                   *)
LEMMA WokenUpdate ==
  ASSUME NEW a \in [Fibers -> FiberRecord], NEW g \in Fibers, NEW s \in States,
         NEW b, b = [a EXCEPT ![g] = [a[g] EXCEPT !.node = TRUE, !.state = s]]
  PROVE  Awake(a, b, g, s)
<1>1. PICK r : r = [a[g] EXCEPT !.node = TRUE, !.state = s]
  BY ZenonT(30)
<1>2. /\ r \in FiberRecord /\ r.node = TRUE /\ r.state = s
      /\ r.pc = a[g].pc /\ r.ret = a[g].ret /\ r.after = a[g].after
      /\ r.next = a[g].next /\ r.seen = a[g].seen
  <2>1. a[g] \in FiberRecord
    BY ZenonT(30)
  <2>. QED
    BY ONLY <1>1, <2>1, s \in States, ZenonT(30) DEF FiberRecord
<1>3. b = [a EXCEPT ![g] = r]
  BY <1>1, ZenonT(30)
<1>. QED
  BY <1>2, <1>3, ZenonT(30) DEF Awake

(* The fields of a fiber that becomes READY.                               *)
LEMMA ReadyUpdate ==
  ASSUME NEW a \in [Fibers -> FiberRecord], NEW g \in Fibers, a[g].node = TRUE,
         NEW b, b = [a EXCEPT ![g].state = "READY"]
  PROVE  Awake(a, b, g, "READY")
<1>1. /\ b \in [Fibers -> FiberRecord]
      /\ \A h \in Fibers : h # g => b[h] = a[h]
      /\ b[g] = [a[g] EXCEPT !.state = "READY"] /\ a[g] \in FiberRecord
  BY SMTT(30) DEF FiberRecord, States
<1>2. /\ b[g].node = a[g].node /\ b[g].state = "READY"
      /\ b[g].pc = a[g].pc /\ b[g].ret = a[g].ret /\ b[g].after = a[g].after
      /\ b[g].next = a[g].next /\ b[g].seen = a[g].seen
  BY ONLY <1>1, ZenonT(30) DEF FiberRecord
<1>. QED
  BY <1>1, <1>2, ZenonT(30) DEF Awake

(* The fields of a waker that moves on,                                    *)
LEMMA GoesOnUpdate ==
  ASSUME NEW a \in [Fibers -> FiberRecord], NEW f \in Fibers, NEW p \in PcSet,
         NEW b, b = [a EXCEPT ![f].pc = p]
  PROVE  GoesOn(a, b, f, p)
<1>1. /\ b \in [Fibers -> FiberRecord]
      /\ \A h \in Fibers : h # f => b[h] = a[h]
      /\ b[f] = [a[f] EXCEPT !.pc = p] /\ a[f] \in FiberRecord
  BY SMTT(30) DEF FiberRecord
<1>2. /\ b[f].pc = p
      /\ b[f].state = a[f].state /\ b[f].node = a[f].node /\ b[f].ret = a[f].ret
      /\ b[f].after = a[f].after /\ b[f].next = a[f].next /\ b[f].seen = a[f].seen
  BY ONLY <1>1, ZenonT(30) DEF FiberRecord
<1>. QED
  BY <1>1, <1>2, ZenonT(30) DEF GoesOn

(* or that has fewer to wake.                                              *)
LEMMA GoesOnCountUpdate ==
  ASSUME NEW a \in [Fibers -> FiberRecord], NEW f \in Fibers, NEW p \in PcSet, NEW c \in Nat,
         NEW b, b = [a EXCEPT ![f].count = c, ![f].pc = p]
  PROVE  GoesOn(a, b, f, p)
<1>1. /\ b \in [Fibers -> FiberRecord]
      /\ \A h \in Fibers : h # f => b[h] = a[h]
      /\ b[f] = [a[f] EXCEPT !.count = c, !.pc = p] /\ a[f] \in FiberRecord
  BY ZenonT(30) DEF FiberRecord
<1>2. /\ b[f].pc = p
      /\ b[f].state = a[f].state /\ b[f].node = a[f].node /\ b[f].ret = a[f].ret
      /\ b[f].after = a[f].after /\ b[f].next = a[f].next /\ b[f].seen = a[f].seen
  BY ONLY <1>1, ZenonT(30) DEF FiberRecord
<1>. QED
  BY <1>1, <1>2, ZenonT(30) DEF GoesOn

(* f is at another place of its code, and g is awake and scheduled.        *)
Woke(m, f, g, p) ==
  /\ \E a : /\ Awake(fib, a, g, IF fib[g].state = "WAITING" THEN "READY" ELSE fib[g].state)
            /\ GoesOn(a, fib', f, p)
  /\ runq' = Schedule(m, g)
  /\ WaitqTypes' /\ WaitqInv' /\ Waiters' = Waiters \ {g}
  /\ join_info' \in [Apps -> Apps \cup {Null}]
  /\ \A l \in Apps : join_info'[l] = IF join_info[l] = g THEN Null ELSE join_info[l]
  /\ UNCHANGED <<mgr, from, lock_using>>

(* A waker that readies a fiber it waited for keeps the invariant.         *)
LEMMA WokeWakes ==
  ASSUME KernelInv, NEW m \in Managers, NEW f \in Apps, NEW g \in Apps, WaitsFor(g),
         mgr[m].cur = f, fib[f].pc \in Targets, JoinSame(f),
         NEW p \in {"run", "done", "wake", "woke"}, Woke(m, f, g, p)
  PROVE  KernelInv'
<1>1. /\ fib[f].state = "RUNNING" /\ fib[f].next = Null
      /\ fib[f].ret = "none" /\ fib[f].after = "none"
  BY OwnRunning, ZenonT(30)
<1>2. /\ fib[g].state = "SAVING" \/ fib[g].state = "WAITING"
      /\ g \notin Queued
  BY WaitingFor, Zenon
<1>3. f # g /\ f \in Fibers /\ g \in Fibers /\ f \notin Managers
  BY <1>1, <1>2, ManagerAssumption, ZenonT(30) DEF Fibers
<1>4. PICK a : /\ Awake(fib, a, g, IF fib[g].state = "WAITING" THEN "READY" ELSE fib[g].state)
               /\ GoesOn(a, fib', f, p)
  BY ZenonT(30) DEF Woke
<1>5. /\ fib' \in [Fibers -> FiberRecord]
      /\ \A h \in Fibers : h # f /\ h # g => fib'[h] = fib[h]
      /\ fib'[f].pc = p /\ fib'[f].state = fib[f].state /\ fib'[f].node = fib[f].node
      /\ fib'[f].next = fib[f].next /\ fib'[f].ret = fib[f].ret /\ fib'[f].after = fib[f].after
      /\ fib'[g].node = TRUE
      /\ fib'[g].state = IF fib[g].state = "WAITING" THEN "READY" ELSE fib[g].state
      /\ fib'[g].pc = fib[g].pc /\ fib'[g].ret = fib[g].ret /\ fib'[g].after = fib[g].after
      /\ fib'[g].next = fib[g].next /\ fib'[g].seen = fib[g].seen
  BY <1>3, <1>4, ZenonT(30) DEF Awake, GoesOn
<1>6. RunqTypes' /\ RunqInv' /\ Queued' = Queued \cup {g}
  <2>1. from[m] \in {2 * m, 2 * m + 1} /\ DOMAIN runq = 0 .. 2 * NumThreads - 1
    BY Types, ZenonT(30) DEF RunqTypes
  <2>2. from[m] \in DOMAIN runq
    BY <2>1, ManagerAssumption, SMTT(30) DEF Managers
  <2>. QED
    BY <1>2, <2>2, Types, RunqPush, ZenonT(30) DEF Woke, Schedule
<1>7. RecordOK(f, fib'[f])
  BY <1>1, <1>3, <1>5, ZenonT(30) DEF RecordOK, Yielding, Targets, Calling, Threading
<1>8. CallOK(f)'
  <2>1. Place(f)' = p
    BY <1>5, ZenonT(30) DEF Place, Calling
  <2>. QED
    BY <2>1, ZenonT(30) DEF CallOK
<1>9. fib[f].pc # "maint" /\ p # "maint"
  BY ZenonT(30) DEF Targets, Calling
<1>10. lock_using' \in {-1, 0, 1} /\ FromOK
  BY Types, FromSame, ZenonT(30) DEF Woke
<1>11. Wakes(m, f, g)
  BY <1>1, <1>3, <1>5, <1>6, <1>7, <1>8, <1>9, <1>10, ZenonT(30) DEF Wakes, Woke, QueuesInv
<1>. QED
  BY <1>11, WakesKeeps, Zenon

(* Readying a joiner or a finished fiber keeps the invariant.              *)
LEMMA ReadiesKeeps ==
  ASSUME KernelInv, NEW m \in Managers, NEW f \in Apps, Readies(m, f)
  PROVE  KernelInv'
<1>1. PICK l \in Apps, p \in {"run", "done"} :
        /\ mgr[m].cur = f /\ fib[f].pc \in Targets
        /\ JoinSame(f) /\ UNCHANGED <<mgr, from, lock_using, waitq>>
        /\ join_info[l] # Null /\ Readied(m, f, l, p)
  BY ZenonT(30) DEF Readies
<1>2. PICK g \in Apps : g = join_info[l]
  BY <1>1, ZenonT(30) DEF KernelInv, KernelTypes
<1>3. /\ join_info' = [join_info EXCEPT ![l] = Null]
      /\ fib' = [fib EXCEPT ![g].state = "READY", ![f].pc = p]
      /\ runq' = Schedule(m, g)
  BY <1>1, <1>2, ZenonT(30) DEF Readied
<1>4. /\ WaitsFor(g) /\ fib[g].state = "WAITING" /\ g \notin Waiters
      /\ \A h \in Apps : join_info[h] = g => h = l
  BY <1>2, ZenonT(30) DEF KernelInv, PlacesInv, WaitsFor
<1>5. fib[g].node = TRUE
  <2>1. fib[g].node = (g \notin Waiters)
    BY ZenonT(30) DEF KernelInv, PlacesInv
  <2>. QED
    BY <1>4, <2>1, ZenonT(30)
<1>6. f \in Fibers /\ g \in Fibers /\ p \in PcSet
  BY Names, ZenonT(30) DEF Fibers
<1>7. PICK a : a = [fib EXCEPT ![g].state = "READY"]
  BY ZenonT(30)
<1>8. Awake(fib, a, g, "READY")
  BY <1>5, <1>6, <1>7, FibTypes, ReadyUpdate, Zenon
<1>9. GoesOn(a, fib', f, p)
  <2>1. a \in [Fibers -> FiberRecord]
    BY <1>8, ZenonT(30) DEF Awake
  <2>2. fib' = [a EXCEPT ![f].pc = p]
    BY <1>3, <1>7, ZenonT(30)
  <2>. QED
    BY <1>6, <2>1, <2>2, GoesOnUpdate, Zenon
<1>10. /\ join_info' \in [Apps -> Apps \cup {Null}]
       /\ \A h \in Apps : join_info'[h] = IF join_info[h] = g THEN Null ELSE join_info[h]
  <2>1. join_info \in [Apps -> Apps \cup {Null}]
    BY ZenonT(30) DEF KernelInv, KernelTypes
  <2>. QED
    BY <1>2, <1>3, <1>4, <2>1, ZenonT(30)
<1>11. Woke(m, f, g, p)
  <2>1. fib[g].state = "WAITING" => Awake(fib, a, g, IF fib[g].state = "WAITING" THEN "READY" ELSE fib[g].state)
    BY <1>8, ZenonT(30)
  <2>. QED
    BY <1>1, <1>3, <1>4, <1>9, <1>10, <2>1, Types, SMTT(30) DEF Woke, WaitqTypes, WaitqInv, Waiters
<1>. QED
  BY <1>1, <1>4, <1>11, WokeWakes, ZenonT(30)

(* fiber_manager_wake_from_mpsc_queue waking one fiber keeps the           *)
(* invariant.                                                              *)
LEMMA WakeOneKeeps ==
  ASSUME KernelInv, NEW m \in Managers, NEW f \in Apps, WakeOne(m, f), UNCHANGED jvars
  PROVE  KernelInv'
<1>. DEFINE g == Head(waitq).fiber
            p == IF fib[f].count > 1 THEN "wake" ELSE "woke"
            c == IF fib[f].count > 0 THEN fib[f].count - 1 ELSE 0
            s == IF fib[g].state = "WAITING" THEN "READY" ELSE fib[g].state
<1>1. /\ mgr[m].cur = f /\ fib[f].pc = "wake"
      /\ waitq # <<>> /\ waitq' = Tail(waitq)
      /\ UNCHANGED <<mgr, from, lock_using, join_info, detach_state, todo>>
  BY ZenonT(30) DEF WakeOne, At, CanPop, jvars
<1>2. WaitqTypes' /\ WaitqInv' /\ g \in Waiters /\ Waiters' = Waiters \ {g}
  BY <1>1, Types, WaitqPop, ZenonT(30)
<1>3. g \in Apps /\ WaitsFor(g)
  BY <1>2, ZenonT(30) DEF WaitsFor, Waiters
<1>4. ~fib[g].node /\ \A l \in Apps : join_info[l] # g
  BY <1>2, <1>3, ZenonT(30) DEF KernelInv, PlacesInv
<1>5. /\ fib' = [fib EXCEPT ![g] = Woken(g), ![f].count = IF @ > 0 THEN @ - 1 ELSE 0,
                            ![f].pc = p]
      /\ runq' = Schedule(m, g)
  BY <1>4, ZenonT(30) DEF WakeOne
<1>6. f \in Fibers /\ g \in Fibers /\ p \in PcSet
  BY <1>3, Names, ZenonT(30) DEF Fibers
<1>7. fib[f].state = "RUNNING" /\ fib[g].state \in {"SAVING", "WAITING"}
  BY <1>1, <1>3, OwnRunning, WaitingFor, ZenonT(30) DEF Targets, Calling
<1>8. f # g /\ s \in States
  BY <1>7, ZenonT(30) DEF States
<1>9. c \in Nat
  <2>1. fib[f].count \in Nat
    BY <1>6, FibTypes, ZenonT(30) DEF FiberRecord
  <2>. QED
    BY <2>1, SMTT(30)
<1>10. PICK a : a = [fib EXCEPT ![g] = Woken(g)]
  BY ZenonT(30)
<1>11. fib' = [a EXCEPT ![f].count = c, ![f].pc = p]
  <2>1. a[f] = fib[f] /\ f \in DOMAIN a
    BY <1>6, <1>8, <1>10, FibTypes, ZenonT(30)
  <2>. QED
    BY <1>5, <1>10, <2>1, ZenonT(30)
<1>12. a = [fib EXCEPT ![g] = [fib[g] EXCEPT !.node = TRUE, !.state = s]]
  BY <1>10, ZenonT(30) DEF Woken
<1>. HIDE DEF g, p, c, s
<1>13. Awake(fib, a, g, s)
  BY <1>6, <1>8, <1>12, FibTypes, WokenUpdate, Zenon
<1>14. GoesOn(a, fib', f, p)
  <2>1. a \in [Fibers -> FiberRecord]
    BY <1>13, ZenonT(30) DEF Awake
  <2>. QED
    BY <1>6, <1>9, <1>11, <2>1, GoesOnCountUpdate, Zenon
<1>15. /\ join_info' \in [Apps -> Apps \cup {Null}]
       /\ \A h \in Apps : join_info'[h] = IF join_info[h] = g THEN Null ELSE join_info[h]
  BY <1>1, <1>4, ZenonT(30) DEF KernelInv, KernelTypes
<1>16. Woke(m, f, g, p)
  <2>1. Awake(fib, a, g, IF fib[g].state = "WAITING" THEN "READY" ELSE fib[g].state)
    BY <1>13, ZenonT(30) DEF s
  <2>. QED
    BY <1>1, <1>2, <1>5, <1>14, <1>15, <2>1, ZenonT(30) DEF Woke
<1>17. p \in {"run", "done", "wake", "woke"} /\ fib[f].pc \in Targets
  BY <1>1, ZenonT(30) DEF p, Targets, Calling
<1>. QED
  BY <1>1, <1>3, <1>16, <1>17, JoinUnchanged, WokeWakes, ZenonT(30)

-----------------------------------------------------------------------------
(* Every step keeps the invariant.                                         *)
LEMMA RuntimeKeeps ==
  ASSUME KernelInv, NEW m \in Managers, RuntimeStep(m), UNCHANGED jvars
  PROVE  KernelInv'
<1>0. m \in Fibers /\ mgr[m].cur \in Fibers
  BY Types, ZenonT(30) DEF Fibers
<1>1. CASE \E f \in {mgr[m].cur} :
             \/ NextSwap(m, f) \/ NextSkip(m, f) \/ NextFound(m, f) \/ NextNone(m, f)
             \/ GateEnter(m, f) \/ GateBlocks(m, f) \/ GatePass(m, f)
             \/ YieldSwitch(m, f) \/ SwitchToMaintenance(m, f)
             \/ TryStealReturn(m, f) \/ TryStealBalance(m, f)
             \/ BalanceVisit(m, f) \/ BalanceReturn(m, f) \/ Maintenance(m, f)
  BY <1>0, <1>1, NextSwapKeeps, NextSkipKeeps, NextFoundKeeps, NextNoneKeeps, GateEnterKeeps,
     GateBlocksKeeps, GatePassKeeps, YieldSwitchKeeps, SwitchToMaintenanceKeeps, TryStealReturnKeeps, TryStealBalanceKeeps,
     BalanceVisitKeeps, BalanceReturnKeeps, MaintenanceKeeps, Zenon
<1>2. CASE ThreadFuncNext(m) \/ ThreadFuncSwitch(m)
  BY <1>2, ThreadFuncNextKeeps, ThreadFuncSwitchKeeps, Zenon
<1>. QED
  BY <1>1, <1>2, Zenon DEF RuntimeStep

(* Waiting in a queue and waking from it keep the invariant.               *)
LEMMA WaitWakeKeeps ==
  ASSUME KernelInv, NEW m \in Managers, WaitWakeStep(m), UNCHANGED jvars
  PROVE  KernelInv'
<1>1. PICK f \in Apps \cap {mgr[m].cur} :
        WaitPush(m, f) \/ WaitLink(m, f) \/ WakeOne(m, f) \/ WakeNone(m, f)
  BY Zenon DEF WaitWakeStep
<1>2. f \in Apps
  BY ZenonT(30)
<1>. QED
  BY <1>1, <1>2, WaitPushKeeps, WaitLinkKeeps, WakeOneKeeps, WakeNoneOwn, OwnKeeps, Zenon

(* Every step of a thread keeps the invariant.                             *)
LEMMA ManagerKeeps ==
  ASSUME KernelInv, PartiesInv, NEW m \in Managers, ManagerStep(m)
  PROVE  KernelInv'
<1>1. CASE MutexStep(m)
  BY <1>1, MutexOwn, OwnKeeps, Zenon
<1>2. CASE BarrierStep(m)
  BY <1>2, BarrierOwn, OwnKeeps, Zenon
<1>3. CASE JoinStep(m)
  BY <1>3, JoinKinds, OwnKeeps, SetWaitsKeeps, ReadiesKeeps, FinishesKeeps, Zenon
<1>4. CASE (RuntimeStep(m) \/ WaitWakeStep(m)) /\ UNCHANGED jvars
  BY <1>4, RuntimeKeeps, WaitWakeKeeps, Zenon
<1>. QED
  BY <1>1, <1>2, <1>3, <1>4, ZenonT(30) DEF ManagerStep

-----------------------------------------------------------------------------
INSTANCE FiniteSetTheorems

(* An order of a set lists each of its elements once.                      *)
LEMMA OrdersList ==
  ASSUME NEW S \in SUBSET Apps, NEW s \in Orders(S)
  PROVE  Lists(s, S)
<1>0. IsFiniteSet(S)
  BY ManagerAssumption, FS_Subset, ZenonT(30)
<1>1. Cardinality(S) \in Nat
  BY <1>0, FS_CardinalityType, ZenonT(30)
<1>2. /\ s \in [1 .. Cardinality(S) -> S] /\ DOMAIN s = 1 .. Cardinality(S)
      /\ \A x \in S : \E i \in DOMAIN s : \A j \in DOMAIN s : s[j] = x <=> j = i
  BY ZenonT(30) DEF Orders
<1>3. s \in Seq(S)
  BY <1>1, <1>2, SMTT(30)
<1>. QED
  BY <1>2, <1>3, SMTT(30) DEF Lists

(* Every fiber whose program calls the barrier is one of its parties.      *)
LEMMA InitParties ==
  ASSUME Init
  PROVE  PartiesInv
<1>1. parties = {f \in Apps : CallsBarrier(f)}
  BY ZenonT(30) DEF Init, BarrierInit, CallsBarrier
<1>2. IsFiniteSet(parties)
  BY <1>1, ManagerAssumption, FS_Subset, ZenonT(30)
<1>4. Cardinality(parties) \in Nat
  BY <1>2, FS_CardinalityType, ZenonT(30)
<1>3. parties # {} => Cardinality(parties) # 0
  BY <1>2, FS_EmptySet, ZenonT(30)
<1>5. Cardinality(parties) # 0 => Cardinality(parties) > 0
  BY <1>4, SMTT(30)
<1>. QED
  BY <1>1, <1>3, <1>4, <1>5, ZenonT(30) DEF PartiesInv, Count

(* The invariant of the runtime holds in every execution without refused   *)
(* yields.                                                                 *)
THEOREM KernelInvariant == UnrefusedSpec => [](KernelInv /\ PartiesInv)
<1>1. Init => KernelInv /\ PartiesInv
  <2>1. \A s \in Orders(Apps \ {Main}) : Lists(s, Apps \ {Main})
    BY OrdersList, Zenon
  <2>. QED
    BY <2>1, InitKernel, InitParties, Zenon
<1>2. KernelInv /\ PartiesInv /\ [Unrefused]_vars => KernelInv' /\ PartiesInv'
  <2>. SUFFICES ASSUME KernelInv, PartiesInv, [Unrefused]_vars PROVE KernelInv' /\ PartiesInv'
    BY ZenonT(30)
  <2>1. ASSUME NEW m \in Managers, ManagerStep(m) PROVE KernelInv' /\ PartiesInv'
    BY <2>1, ManagerKeeps, StepDwindles, PartiesKept, Zenon
  <2>2. ASSUME ClearStep \/ UNCHANGED vars PROVE KernelInv' /\ PartiesInv'
    <3>1. /\ UNCHANGED <<fib, mgr, runq, from, waitq, join_info, detach_state, todo, parties>>
          /\ lock_using' = 0 \/ UNCHANGED lock_using
      BY <2>2, ZenonT(30) DEF ClearStep, ClearLockStatus, vars, kvars, bvars, jvars
    <3>2. lock_using' \in {-1, 0, 1}
      BY <3>1, Types, ZenonT(30)
    <3>. QED
      BY <3>1, <3>2, SameKeeps, SameDwindles, PartiesKept, ZenonT(30)
  <2>. QED
    BY <2>1, <2>2, ZenonT(30) DEF Unrefused
<1>. QED
  BY <1>1, <1>2, PTL DEF UnrefusedSpec

(* OneThreadPerFiber, in the library without refused yields and for every  *)
(* number of threads and fibers: fiber_scheduler_next gives a thread only  *)
(* a fiber whose context fiber_context_swap has saved, and gives it to one *)
(* thread.                                                                 *)
THEOREM KernelOneThreadPerFiber == UnrefusedSpec => []OneThreadPerFiber
<1>1. KernelInv => OneThreadPerFiber
  BY OneThread, ZenonT(30)
<1>. QED
  BY <1>1, KernelInvariant, PTL

(* NoFiberLost, likewise: what the run queues, load balancing, the waiter  *)
(* queue, fiber_manager_set_and_wait and fiber_manager_do_maintenance hand *)
(* on is in exactly one place until a thread executes it.                  *)
THEOREM KernelNoFiberLost == UnrefusedSpec => []NoFiberLost
<1>1. KernelInv => NoFiberLost
  BY OneKind, SomeKind, ZenonT(30) DEF NoFiberLost
<1>. QED
  BY <1>1, KernelInvariant, PTL

(* NoAborts, likewise: no assertion of the runtime fails, whatever calls   *)
(* the fibers make, and with one thread nobody waits for the lock of the   *)
(* gate.                                                                   *)
THEOREM KernelNeverAborts == UnrefusedSpec => []NoAborts
<1>1. KernelInv => NoAborts
  <2>. SUFFICES ASSUME KernelInv PROVE NoAborts
    BY Zenon
  <2>1. "abort" \notin PcSet
    BY ZenonT(30) DEF PcSet, Yielding, Calling, Threading
  <2>2. ~Aborted
    BY <2>1, FibTypes, ZenonT(30) DEF Aborted, FiberRecord
  <2>3. NumThreads = 1 => ~Crashed
    BY ZenonT(30) DEF KernelInv, RecordInv, RecordOK, Alone, Crashed
  <2>. QED
    BY <2>2, <2>3, Zenon DEF NoAborts
<1>. QED
  BY <1>1, KernelInvariant, PTL

=============================================================================
