-------------------------- MODULE FiberYieldProofs --------------------------
(***************************************************************************)
(* The steps of the runtime that switch or look for another fiber, and the *)
(* steps of a fiber's own code, are of the kinds that keep the invariant.  *)
(***************************************************************************)
EXTENDS FiberKernelProofs

-----------------------------------------------------------------------------
(* A fiber makes another one ready that waits in the queue of waiters or   *)
(* at a location, and schedules it.                                        *)
WaitsFor(g) == g \in Waiters \/ \E l \in Apps : join_info[l] = g

Wakes(m, f, g) ==
  /\ mgr[m].cur = f /\ fib[f].state = "RUNNING" /\ fib[f].pc # "maint" /\ fib[f].next = Null
  /\ WaitsFor(g) /\ f # g
  /\ RunqTypes' /\ WaitqTypes' /\ QueuesInv'
  /\ Queued' = Queued \cup {g} /\ Waiters' = Waiters \ {g}
  /\ FromOK /\ lock_using' \in {-1, 0, 1} /\ JoinSame(f) /\ mgr' = mgr
  /\ join_info' \in [Apps -> Apps \cup {Null}]
  /\ \A l \in Apps : join_info'[l] = IF join_info[l] = g THEN Null ELSE join_info[l]
  /\ fib' \in [Fibers -> FiberRecord]
  /\ \A h \in Fibers : h # f /\ h # g => fib'[h] = fib[h]
  /\ fib'[f].state = fib[f].state /\ fib'[f].node = fib[f].node /\ fib'[f].next = fib[f].next
  /\ fib'[f].pc # "maint" /\ RecordOK(f, fib'[f]) /\ CallOK(f)'
  /\ fib'[g].node = TRUE
  /\ fib'[g].state = IF fib[g].state = "WAITING" THEN "READY" ELSE fib[g].state
  /\ fib'[g].pc = fib[g].pc /\ fib'[g].ret = fib[g].ret /\ fib'[g].after = fib[g].after
  /\ fib'[g].next = fib[g].next /\ fib'[g].seen = fib[g].seen

(* Where a fiber is that a waker waits for or finds.                       *)
LEMMA WaitingFor ==
  ASSUME KernelInv, NEW g \in Apps, WaitsFor(g)
  PROVE  /\ fib[g].state = "SAVING" \/ (fib[g].state = "WAITING" /\ Saved(g))
         /\ g \notin Queued /\ \A h \in Fibers : fib[h].next # g
         /\ \A n \in Managers : mgr[n].to_schedule # g /\ mgr[n].done_fiber # g
                                /\ mgr[n].set_wait_value # g
<1>1. fib[g].state = "SAVING" \/ (fib[g].state = "WAITING" /\ Saved(g))
  BY ZenonT(30) DEF KernelInv, PlacesInv, WaitsFor
<1>2. g \notin Queued /\ \A h \in Fibers : fib[h].next # g
  BY ZenonT(30) DEF KernelInv, PlacesInv, WaitsFor
<1>3. \A n \in Managers : mgr[n].to_schedule # g /\ mgr[n].done_fiber # g
                          /\ mgr[n].set_wait_value # g
  BY <1>1, ZenonT(40) DEF KernelInv, LeavingInv, Saved
<1>. QED
  BY <1>1, <1>2, <1>3, Zenon

(* Waking a fiber, which makes it READY and pushes it onto a run queue of  *)
(* the waker, keeps the invariant.                                         *)
LEMMA WakesKeeps ==
  ASSUME KernelInv, NEW m \in Managers, NEW f \in Apps, NEW g \in Apps, Wakes(m, f, g)
  PROVE  KernelInv'
<1>0. /\ Null \notin Fibers /\ Apps \cap Managers = {} /\ Fibers = Apps \cup Managers
      /\ f \in Fibers /\ g \in Fibers /\ f # Null /\ g # Null /\ f # g
  BY ManagerAssumption, ZenonT(30) DEF Fibers, Wakes
<1>1. KernelTypes'
  BY ZenonT(30) DEF KernelInv, KernelTypes, RunqTypes, WaitqTypes, Wakes, FromOK, JoinSame
<1>2. /\ fib[g].state = "SAVING" \/ (fib[g].state = "WAITING" /\ Saved(g))
      /\ g \notin Queued /\ \A h \in Fibers : fib[h].next # g
      /\ \A n \in Managers : mgr[n].to_schedule # g /\ mgr[n].done_fiber # g
                             /\ mgr[n].set_wait_value # g
  BY WaitingFor, ZenonT(30) DEF Wakes
<1>3. /\ \A h \in Fibers : h # f /\ h # g => fib'[h] = fib[h]
      /\ \A h \in Fibers : /\ fib'[h].pc = "maint" <=> fib[h].pc = "maint"
                           /\ fib'[h].next = fib[h].next
                           /\ h # g => fib'[h].state = fib[h].state /\ fib'[h].node = fib[h].node
      /\ fib'[g].pc = fib[g].pc
      /\ mgr' = mgr
  BY <1>0, SMTT(30) DEF Wakes
<1>4. RecordInv'
  <2>1. RecordOK(g, fib[g])
    BY <1>0, Zenon DEF KernelInv, RecordInv
  <2>2. fib'[g].state = fib[g].state
          \/ (fib[g].pc = "maint" /\ fib[g].state = "WAITING" /\ fib'[g].state = "READY")
    BY <1>2, ZenonT(30) DEF Wakes, Saved
  <2>3. RecordOK(g, fib'[g])
    BY <1>0, <2>1, <2>2, SMTT(30) DEF RecordOK, Wakes, Yielding, Targets, Calling
  <2>. QED
    BY <1>3, <2>3, ZenonT(30) DEF KernelInv, RecordInv, Wakes
<1>5. CallsInv'
  <2>1. \A h \in Apps : h # f => Place(h)' = Place(h) /\ todo'[h] = todo[h]
    BY <1>0, SMTT(30) DEF Place, Wakes, JoinSame
  <2>. QED
    BY <2>1, SMTT(30) DEF KernelInv, CallsInv, CallOK, Wakes
<1>6. ThreadsInv'
  <2>1. \A n \in Managers : mgr[n].cur \in Fibers
    BY Types, Zenon
  <2>. QED
    BY <1>3, <2>1, SMTT(30) DEF KernelInv, ThreadsInv
<1>7. \A h \in Fibers : Saved(h)' <=> Saved(h)
  BY <1>3, Zenon DEF Saved
<1>8. LeavingInv'
  <2>1. \A n \in Managers : g \in {mgr[n].cur, mgr[n].old} => fib[g].state = "SAVING" /\ fib'[g].state = "SAVING"
    BY <1>2, ZenonT(30) DEF Saved, Wakes
  <2>2. mgr[m].cur = f /\ fib[f].state = "RUNNING"
    BY ZenonT(30) DEF Wakes
  <2>3. ASSUME NEW n \in Managers, NEW h \in Apps
        PROVE  /\ mgr[n].cur = h =>
                    /\ fib'[h].state \in {"RUNNING", "WAITING", "SAVING", "DONE"}
                    /\ fib'[h].state # "RUNNING" =>
                         fib'[h].pc \in {"waitlink", "next", "pop", "rdlock", "gate", "wrlock", "switch", "crash", "tomaint"}
                    /\ fib'[h].state = "WAITING" => mgr[n].set_wait_value = h
                    /\ fib'[h].state = "DONE" => mgr[n].done_fiber = h
               /\ mgr[n].old = h =>
                    /\ fib'[h].state \in {"READY", "WAITING", "SAVING", "DONE"}
                    /\ fib'[h].state = "READY" => mgr[n].to_schedule = h
                    /\ fib'[h].state = "WAITING" => mgr[n].set_wait_value = h
                    /\ fib'[h].state = "DONE" => mgr[n].done_fiber = h
               /\ mgr[n].to_schedule = h => mgr[n].old = h /\ fib'[h].state = "READY"
               /\ mgr[n].done_fiber = h =>
                    h \in {mgr[n].cur, mgr[n].old} /\ fib'[h].state = "DONE"
               /\ mgr[n].set_wait_value = h =>
                    h \in {mgr[n].cur, mgr[n].old} /\ fib'[h].state = "WAITING"
    <3>1. CASE h = g
      BY <1>2, <1>3, <2>1, <3>1, ZenonT(30) DEF KernelInv, LeavingInv
    <3>2. CASE h # g
      BY <1>0, <1>3, <2>2, <3>2, SMTT(30) DEF KernelInv, LeavingInv
    <3>. QED
      BY <3>1, <3>2, ZenonT(30)
  <2>. QED
    BY <1>3, <2>3, SMTT(30) DEF LeavingInv
<1>9. /\ \A h \in Apps : h # g => (h \in Waiters' <=> h \in Waiters) /\ (h \in Queued' <=> h \in Queued)
      /\ g \notin Waiters' /\ g \in Queued'
      /\ \A l \in Apps : /\ join_info'[l] # g
                         /\ \A h \in Apps : h # g => (join_info'[l] = h <=> join_info[l] = h)
      /\ fib'[g].node = (g \notin Waiters')
      /\ fib'[g].state = "SAVING" \/ (fib'[g].state = "READY" /\ Saved(g)')
  <2>1. fib'[g].node = (g \notin Waiters')
    BY Zenon DEF Wakes
  <2>2. \A l \in Apps : /\ join_info'[l] # g
                        /\ \A h \in Apps : h # g => (join_info'[l] = h <=> join_info[l] = h)
    BY <1>0, SMTT(30) DEF Wakes
  <2>. QED
    BY <1>0, <1>2, <1>7, <2>1, <2>2, ZenonT(30) DEF Wakes
<1>10. PlacesInv'
  <2>1. ASSUME NEW h \in Apps
        PROVE  /\ fib'[h].node = (h \notin Waiters')
               /\ h \in Waiters' =>
                    \/ fib'[h].state = "SAVING"
                    \/ fib'[h].state = "WAITING" /\ Saved(h)'
               /\ h \in Queued' =>
                    /\ h \notin Waiters'
                    /\ \/ fib'[h].state = "SAVING"
                       \/ fib'[h].state \in {"READY", "WAITING"} /\ Saved(h)'
               /\ \A x \in Fibers : fib'[x].next = h =>
                    /\ h \notin Waiters' \cup Queued'
                    /\ fib'[h].state \in {"READY", "WAITING"} /\ Saved(h)'
                    /\ \A y \in Fibers : fib'[y].next = h => y = x
               /\ \A x \in Apps : join_info'[x] = h =>
                    /\ h \notin Waiters' \cup Queued'
                    /\ fib'[h].state = "WAITING" /\ Saved(h)'
                    /\ \A y \in Apps : join_info'[y] = h => y = x
                    /\ \A y \in Fibers : fib'[y].next # h
    <3>1. CASE h = g
      BY <1>2, <1>3, <1>9, <3>1, SMTT(30)
    <3>2. CASE h # g
      BY <1>0, <1>3, <1>7, <1>9, <3>2, SMTT(30) DEF KernelInv, PlacesInv
    <3>. QED
      BY <3>1, <3>2, ZenonT(30)
  <2>. QED
    BY <2>1, Zenon DEF PlacesInv
<1>11. FoundInv'
  <2>2. ASSUME NEW h \in Apps
        PROVE  /\ fib'[h].state = "RUNNING" => \E n \in Managers : mgr[n].cur = h
               /\ fib'[h].state = "DONE" => \E n \in Managers : mgr[n].done_fiber = h
               /\ fib'[h].state = "SAVING" =>
                    /\ h \in Queued' \cup Waiters'
                    /\ \E n \in Managers : h \in {mgr[n].cur, mgr[n].old}
               /\ fib'[h].state = "READY" =>
                    \/ h \in Queued'
                    \/ \E x \in Fibers : fib'[x].next = h
                    \/ \E n \in Managers : mgr[n].to_schedule = h
               /\ fib'[h].state = "WAITING" =>
                    \/ h \in Queued' \cup Waiters'
                    \/ \E x \in Fibers : fib'[x].next = h
                    \/ \E x \in Apps : join_info'[x] = h
                    \/ \E n \in Managers : mgr[n].set_wait_value = h
    <3>1. CASE h = g
      <4>1. fib'[g].state = "SAVING" => fib[g].state = "SAVING"
        BY <1>2, ZenonT(30) DEF Wakes
      <4>. QED
        BY <1>9, <3>1, <4>1, ZenonT(30) DEF KernelInv, FoundInv
    <3>2. CASE h # g
      BY <1>0, <1>3, <1>9, <3>2, SMTT(30) DEF KernelInv, FoundInv
    <3>. QED
      BY <3>1, <3>2, ZenonT(30)
  <2>. QED
    BY <1>3, <2>2, ZenonT(30) DEF FoundInv
<1>12. LocationsInv'
  <2>1. \A h \in Apps : /\ detach_state'[h] = "NONE" => detach_state[h] = "NONE"
                        /\ join_info'[h] # Null => join_info'[h] = join_info[h]
    BY ZenonT(30) DEF Wakes, JoinSame
  <2>. QED
    BY <1>0, <1>3, <2>1, SMTT(30) DEF KernelInv, LocationsInv
<1>. QED
  BY <1>1, <1>4, <1>5, <1>6, <1>8, <1>10, <1>11, <1>12, ZenonT(30) DEF KernelInv, Wakes

-----------------------------------------------------------------------------
(* The steps of the runtime that switch.                                   *)

(* What a switch does to the two fibers.                                   *)
SwitchedFibers(f, g, s, t, r) ==
  /\ fib' \in [Fibers -> FiberRecord]
  /\ \A h \in Fibers : h \notin {f, g} => fib'[h] = fib[h]
  /\ fib'[f].pc = "maint" /\ fib'[f].next = Null /\ fib'[f].node = fib[f].node
  /\ fib'[f].state = s /\ fib'[f].after = t /\ fib'[f].ret = r
  /\ fib'[g].pc = fib[g].pc /\ fib'[g].ret = fib[g].ret /\ fib'[g].after = fib[g].after
  /\ fib'[g].next = fib[g].next /\ fib'[g].node = fib[g].node /\ fib'[g].seen = fib[g].seen
  /\ fib'[g].state = "RUNNING"

(* The fibers after fiber_manager_switch_to.                               *)
LEMMA SwitchToUpdate ==
  ASSUME fib \in [Fibers -> FiberRecord], NEW f \in Fibers, NEW g \in Fibers, f # g,
         NEW s \in States, NEW t \in AfterSet, NEW r \in RetSet,
         fib' = [fib EXCEPT ![f].state = s, ![f].pc = "maint", ![f].after = t, ![f].ret = r,
                            ![f].next = Null, ![f].seen = "none", ![g].state = "RUNNING"]
  PROVE  SwitchedFibers(f, g, s, t, r)
<1>0. "RUNNING" \in States
  BY Names, ZenonT(30)
<1>1. PICK a : a = [fib EXCEPT ![f].state = s, ![f].pc = "maint", ![f].after = t]
  BY Zenon
<1>2. PICK b : b = [a EXCEPT ![f].ret = r]
  BY Zenon
<1>3. PICK c : c = [b EXCEPT ![f].next = Null, ![f].seen = "none"]
  BY ZenonT(30)
<1>4. fib' = [c EXCEPT ![g].state = "RUNNING"]
  BY <1>1, <1>2, <1>3, ZenonT(30)
<1>5. Out(fib, a, f, s, t)
  BY <1>1, OutUpdate, Zenon
<1>6. Returning(a, b, f, r)
  <2>1. a \in [Fibers -> FiberRecord]
    BY <1>5, Zenon DEF Out
  <2>. QED
    BY <1>2, <2>1, RetOnlyUpdate, Zenon
<1>7. NoNext(b, c, f)
  <2>1. b \in [Fibers -> FiberRecord]
    BY <1>6, Zenon DEF Returning
  <2>. QED
    BY <1>3, <2>1, NextUpdate, Zenon
<1>8. InState(c, fib', g, "RUNNING")
  <2>1. c \in [Fibers -> FiberRecord]
    BY <1>7, ZenonT(30) DEF NoNext
  <2>. QED
    BY <1>0, <1>4, <2>1, StateUpdate, Zenon
<1>9. /\ fib' \in [Fibers -> FiberRecord]
      /\ \A h \in Fibers : h \notin {f, g} => fib'[h] = fib[h]
  <2>1. \A h \in Fibers : h # f => c[h] = fib[h]
    <3>1. \A h \in Fibers : h # f => a[h] = fib[h]
      BY <1>5, ZenonT(30) DEF Out
    <3>2. \A h \in Fibers : h # f => b[h] = a[h]
      BY <1>6, ZenonT(30) DEF Returning
    <3>3. \A h \in Fibers : h # f => c[h] = b[h]
      BY <1>7, ZenonT(30) DEF NoNext
    <3>. QED
      BY <3>1, <3>2, <3>3, ZenonT(30)
  <2>2. fib' \in [Fibers -> FiberRecord] /\ \A h \in Fibers : h # g => fib'[h] = c[h]
    BY <1>8, ZenonT(30) DEF InState
  <2>. QED
    BY <2>1, <2>2, ZenonT(30)
<1>10. fib'[f] = c[f] /\ c[g] = fib[g]
  <2>1. fib'[f] = c[f]
    BY <1>8, ZenonT(30) DEF InState
  <2>2. a[g] = fib[g]
    BY <1>5, ZenonT(30) DEF Out
  <2>3. b[g] = a[g]
    BY <1>6, ZenonT(30) DEF Returning
  <2>4. c[g] = b[g]
    BY <1>7, ZenonT(30) DEF NoNext
  <2>. QED
    BY <2>1, <2>2, <2>3, <2>4, ZenonT(30)
<1>11. /\ fib'[f].pc = "maint" /\ fib'[f].next = Null /\ fib'[f].node = fib[f].node
       /\ fib'[f].state = s /\ fib'[f].after = t /\ fib'[f].ret = r
  <2>1. a[f].state = s /\ a[f].pc = "maint" /\ a[f].after = t /\ a[f].node = fib[f].node
    BY <1>5, ZenonT(30) DEF Out
  <2>2. /\ b[f].ret = r /\ b[f].state = a[f].state /\ b[f].pc = a[f].pc
        /\ b[f].after = a[f].after /\ b[f].node = a[f].node
    BY <1>6, ZenonT(30) DEF Returning
  <2>3. /\ c[f].next = Null /\ c[f].state = b[f].state /\ c[f].pc = b[f].pc
        /\ c[f].after = b[f].after /\ c[f].node = b[f].node /\ c[f].ret = b[f].ret
    BY <1>7, ZenonT(30) DEF NoNext
  <2>. QED
    BY <1>10, <2>1, <2>2, <2>3, SMTT(30)
<1>12. /\ fib'[g].pc = fib[g].pc /\ fib'[g].ret = fib[g].ret /\ fib'[g].after = fib[g].after
       /\ fib'[g].next = fib[g].next /\ fib'[g].node = fib[g].node /\ fib'[g].seen = fib[g].seen
       /\ fib'[g].state = "RUNNING"
  BY <1>8, <1>10, ZenonT(30) DEF InState
<1>. QED
  BY <1>9, <1>11, <1>12, ZenonT(30) DEF SwitchedFibers

(* The fibers after the switch in fiber_manager_thread_func.               *)
LEMMA ThreadSwitchUpdate ==
  ASSUME fib \in [Fibers -> FiberRecord], NEW f \in Fibers, NEW g \in Fibers, f # g,
         fib' = [fib EXCEPT ![f].state = "SAVING", ![f].pc = "maint", ![f].after = "tf",
                            ![f].next = Null, ![f].seen = "none", ![g].state = "RUNNING"]
  PROVE  SwitchedFibers(f, g, "SAVING", "tf", fib[f].ret)
<1>0. "RUNNING" \in States /\ "SAVING" \in States /\ "tf" \in AfterSet
  BY Names, ZenonT(30)
<1>1. PICK a : a = [fib EXCEPT ![f].state = "SAVING", ![f].pc = "maint", ![f].after = "tf"]
  BY Zenon
<1>3. PICK c : c = [a EXCEPT ![f].next = Null, ![f].seen = "none"]
  BY ZenonT(30)
<1>4. fib' = [c EXCEPT ![g].state = "RUNNING"]
  BY <1>1, <1>3, ZenonT(30)
<1>5. Out(fib, a, f, "SAVING", "tf")
  BY <1>0, <1>1, OutUpdate, Zenon
<1>7. NoNext(a, c, f)
  <2>1. a \in [Fibers -> FiberRecord]
    BY <1>5, Zenon DEF Out
  <2>. QED
    BY <1>3, <2>1, NextUpdate, Zenon
<1>8. InState(c, fib', g, "RUNNING")
  <2>1. c \in [Fibers -> FiberRecord]
    BY <1>7, ZenonT(30) DEF NoNext
  <2>. QED
    BY <1>0, <1>4, <2>1, StateUpdate, Zenon
<1>9. /\ fib' \in [Fibers -> FiberRecord]
      /\ \A h \in Fibers : h \notin {f, g} => fib'[h] = fib[h]
  <2>1. \A h \in Fibers : h # f => a[h] = fib[h]
    BY <1>5, ZenonT(30) DEF Out
  <2>2. \A h \in Fibers : h # f => c[h] = a[h]
    BY <1>7, ZenonT(30) DEF NoNext
  <2>3. fib' \in [Fibers -> FiberRecord] /\ \A h \in Fibers : h # g => fib'[h] = c[h]
    BY <1>8, ZenonT(30) DEF InState
  <2>. QED
    BY <2>1, <2>2, <2>3, ZenonT(30)
<1>10. fib'[f] = c[f] /\ c[g] = fib[g]
  <2>1. fib'[f] = c[f]
    BY <1>8, ZenonT(30) DEF InState
  <2>2. a[g] = fib[g]
    BY <1>5, ZenonT(30) DEF Out
  <2>3. c[g] = a[g]
    BY <1>7, ZenonT(30) DEF NoNext
  <2>. QED
    BY <2>1, <2>2, <2>3, ZenonT(30)
<1>11. /\ fib'[f].pc = "maint" /\ fib'[f].next = Null /\ fib'[f].node = fib[f].node
       /\ fib'[f].state = "SAVING" /\ fib'[f].after = "tf" /\ fib'[f].ret = fib[f].ret
  <2>1. /\ a[f].state = "SAVING" /\ a[f].pc = "maint" /\ a[f].after = "tf"
        /\ a[f].node = fib[f].node /\ a[f].ret = fib[f].ret
    BY <1>5, ZenonT(30) DEF Out
  <2>2. /\ c[f].next = Null /\ c[f].state = a[f].state /\ c[f].pc = a[f].pc
        /\ c[f].after = a[f].after /\ c[f].node = a[f].node /\ c[f].ret = a[f].ret
    BY <1>7, ZenonT(30) DEF NoNext
  <2>. QED
    BY <1>10, <2>1, <2>2, SMTT(30)
<1>12. /\ fib'[g].pc = fib[g].pc /\ fib'[g].ret = fib[g].ret /\ fib'[g].after = fib[g].after
       /\ fib'[g].next = fib[g].next /\ fib'[g].node = fib[g].node /\ fib'[g].seen = fib[g].seen
       /\ fib'[g].state = "RUNNING"
  BY <1>8, <1>10, Zenon DEF InState
<1>. QED
  BY <1>9, <1>11, <1>12, ZenonT(30) DEF SwitchedFibers

(* The thread's bookkeeping of a switch.                                   *)
SwitchedThread(m, f, g, t) ==
  /\ mgr' \in [Managers -> ManagerRecord]
  /\ \A n \in Managers : n # m => mgr'[n] = mgr[n]
  /\ mgr'[m].cur = g /\ mgr'[m].old = f /\ mgr'[m].to_schedule = t
  /\ mgr'[m].done_fiber = mgr[m].done_fiber
  /\ mgr'[m].set_wait_location = mgr[m].set_wait_location
  /\ mgr'[m].set_wait_value = mgr[m].set_wait_value

(* The thread after a switch.                                              *)
LEMMA ThreadSwitched ==
  ASSUME mgr \in [Managers -> ManagerRecord], NEW m \in Managers, NEW f \in FiberOrNull,
         NEW g \in Fibers, NEW t \in AppOrNull,
         \/ mgr' = [mgr EXCEPT ![m].to_schedule = t, ![m].cur = g, ![m].old = f]
         \/ mgr' = [mgr EXCEPT ![m].cur = g, ![m].old = f] /\ t = mgr[m].to_schedule
  PROVE  SwitchedThread(m, f, g, t)
<1>1. PICK a : /\ a \in [Managers -> ManagerRecord]
               /\ \A n \in Managers : n # m => a[n] = mgr[n]
               /\ a[m].to_schedule = t
               /\ a[m].done_fiber = mgr[m].done_fiber
               /\ a[m].set_wait_location = mgr[m].set_wait_location
               /\ a[m].set_wait_value = mgr[m].set_wait_value
               /\ mgr' = [a EXCEPT ![m].cur = g, ![m].old = f]
  <2>1. CASE mgr' = [mgr EXCEPT ![m].to_schedule = t, ![m].cur = g, ![m].old = f]
    <3>. DEFINE a == [mgr EXCEPT ![m].to_schedule = t]
    <3>1. a \in [Managers -> ManagerRecord]
      BY ZenonT(40) DEF ManagerRecord
    <3>2. /\ a[m] = [mgr[m] EXCEPT !.to_schedule = t] /\ mgr[m] \in ManagerRecord
          /\ \A n \in Managers : n # m => a[n] = mgr[n]
      BY Zenon
    <3>3. mgr' = [a EXCEPT ![m].cur = g, ![m].old = f]
      BY <2>1, Zenon
    <3>. HIDE DEF a
    <3>4. /\ a[m].to_schedule = t
          /\ a[m].done_fiber = mgr[m].done_fiber
          /\ a[m].set_wait_location = mgr[m].set_wait_location
          /\ a[m].set_wait_value = mgr[m].set_wait_value
      BY ONLY <3>2, Zenon DEF ManagerRecord
    <3>. QED
      BY <3>1, <3>2, <3>3, <3>4, ZenonT(30)
  <2>2. CASE mgr' = [mgr EXCEPT ![m].cur = g, ![m].old = f] /\ t = mgr[m].to_schedule
    BY <2>2, Zenon
  <2>. QED
    BY <2>1, <2>2, Zenon
<1>2. mgr' \in [Managers -> ManagerRecord]
  <2>1. a \in [Managers -> ManagerRecord] /\ mgr' = [a EXCEPT ![m].cur = g, ![m].old = f]
    BY <1>1, ZenonT(30)
  <2>. QED
    BY ONLY <2>1, m \in Managers, g \in Fibers, f \in FiberOrNull, ZenonT(30) DEF ManagerRecord
<1>3. /\ mgr'[m] = [a[m] EXCEPT !.cur = g, !.old = f] /\ a[m] \in ManagerRecord
      /\ \A n \in Managers : n # m => mgr'[n] = mgr[n]
  BY <1>1, ZenonT(30)
<1>4. /\ mgr'[m].cur = g /\ mgr'[m].old = f /\ mgr'[m].to_schedule = a[m].to_schedule
      /\ mgr'[m].done_fiber = a[m].done_fiber
      /\ mgr'[m].set_wait_location = a[m].set_wait_location
      /\ mgr'[m].set_wait_value = a[m].set_wait_value
  BY ONLY <1>3, ZenonT(30) DEF ManagerRecord
<1>. QED
  BY <1>1, <1>2, <1>3, <1>4, ZenonT(30) DEF SwitchedThread

(* What a fiber has been given to run has a saved context.                 *)
LEMMA GivenIsSaved ==
  ASSUME KernelInv, NEW f \in Fibers, fib[f].pc \in {"rdlock", "gate", "wrlock", "switch", "crash", "tfswitch"}
  PROVE  /\ fib[f].next \in Apps /\ Saved(fib[f].next) /\ fib[f].next # f
         /\ fib[fib[f].next].state \in {"READY", "WAITING"}
<1>1. RecordOK(f, fib[f]) /\ fib[f].next \in AppOrNull
  BY FibTypes, ZenonT(30) DEF KernelInv, RecordInv, FiberRecord
<1>2. fib[f].next \in Apps
  BY <1>1, ZenonT(30) DEF RecordOK, AppOrNull
<1>3. Saved(fib[f].next) /\ fib[fib[f].next].state \in {"READY", "WAITING"}
  BY <1>2, ZenonT(30) DEF KernelInv, PlacesInv
<1>. QED
  BY <1>2, <1>3, ZenonT(30) DEF Saved

(* A switch leaves the queues alone.                                       *)
LEMMA QueuesStay ==
  ASSUME KernelInv, UNCHANGED <<runq, waitq>>
  PROVE  QueuesKept
  BY SameQueues, ZenonT(30) DEF QueuesSame, QueuesKept

(* fiber_manager_yield switching to the fiber it found keeps the           *)
(* invariant.                                                              *)
LEMMA YieldSwitchKeeps ==
  ASSUME KernelInv, NEW m \in Managers, NEW f \in Fibers, YieldSwitch(m, f), UNCHANGED jvars
  PROVE  KernelInv'
<1>. DEFINE g == fib[f].next
            s == IF Yields(f) THEN "READY" ELSE fib[f].state
            t == IF Yields(f) THEN f ELSE mgr[m].to_schedule
<1>1. /\ mgr[m].cur = f /\ fib[f].pc = "switch" /\ lock_using' = 1
      /\ UNCHANGED <<runq, from, waitq, join_info>>
      /\ SwitchTo(m, f, g, fib[f].ret, "none")
  BY ZenonT(30) DEF YieldSwitch, At
<1>2. /\ RecordOK(f, fib[f]) /\ f \in Apps /\ fib[f].ret \in Targets \cup {"abort"}
      /\ fib[f].after = "none"
      /\ fib[f].state \in {"RUNNING", "WAITING", "SAVING", "DONE"}
  BY <1>1, Executes, ZenonT(30) DEF Yielding, RecordOK
<1>3. /\ g \in Apps /\ g \in Fibers /\ Saved(g) /\ g # f
      /\ fib[g].state \in {"READY", "WAITING"} /\ RecordOK(g, fib[g])
  BY <1>1, GivenIsSaved, ZenonT(30) DEF Fibers, KernelInv, RecordInv
<1>4. SwitchedFibers(f, g, s, fib[f].ret, "none")
  <2>1. s \in States /\ fib[f].ret \in AfterSet /\ "none" \in RetSet
    BY <1>2, Names, ZenonT(30) DEF Targets
  <2>2. fib' = [fib EXCEPT ![f].state = s, ![f].pc = "maint", ![f].after = fib[f].ret,
                           ![f].ret = "none", ![f].next = Null, ![f].seen = "none",
                           ![g].state = "RUNNING"]
    BY <1>1, ZenonT(30) DEF SwitchTo
  <2>. HIDE DEF s, g
  <2>. QED
    BY <1>3, <2>1, <2>2, FibTypes, SwitchToUpdate, Zenon
<1>5. SwitchedThread(m, f, g, t)
  <2>1. f \in FiberOrNull /\ t \in AppOrNull /\ mgr \in [Managers -> ManagerRecord]
    BY <1>2, Types, ZenonT(30) DEF ManagerRecord, FiberOrNull, AppOrNull
  <2>2. mgr' = [mgr EXCEPT ![m].to_schedule = t, ![m].cur = g, ![m].old = f]
    BY <1>1, ZenonT(30) DEF SwitchTo
  <2>. HIDE DEF t, g
  <2>. QED
    BY <1>3, <2>1, <2>2, ThreadSwitched, Zenon
<1>6. RecordOK(f, fib'[f])
  <2>1. /\ fib'[f].pc = "maint" /\ fib'[f].after = fib[f].ret /\ fib'[f].ret = "none"
        /\ fib'[f].next = Null /\ fib'[f].state = s
    BY <1>4, ZenonT(30) DEF SwitchedFibers
  <2>2. s # "none" /\ (fib[f].ret = "abort" => s \in {"DONE", "freed"})
    BY <1>2, ZenonT(30) DEF Yields, RecordOK
  <2>3. f \notin Managers /\ fib[f].ret # "next" /\ "none" \notin Targets \cup {"abort"}
    BY <1>2, ManagerAssumption, ZenonT(30) DEF Targets, Calling
  <2>. HIDE DEF s
  <2>. QED
    BY <1>2, <2>1, <2>2, <2>3, ZenonT(30) DEF RecordOK, Yielding, Targets, Calling, Threading
<1>7. RecordOK(g, fib'[g])
  BY <1>3, <1>4, ManagerAssumption, ZenonT(30) DEF RecordOK, SwitchedFibers, Saved, Fibers
<1>8. CallOK(f)'
  <2>1. Place(f)' = Place(f)
    BY <1>1, <1>2, <1>4, ZenonT(30) DEF Place, SwitchedFibers, Targets, Calling
  <2>. QED
    BY <1>2, <2>1, SamePlace, ZenonT(30) DEF jvars
<1>9. QueuesKept /\ RestKept
  BY <1>1, QueuesStay, FromSame, ZenonT(30) DEF RestKept, jvars
<1>10. Switches(m, f, g)
  BY <1>1, <1>2, <1>3, <1>4, <1>5, <1>6, <1>7, <1>8, <1>9, ManagerAssumption, ZenonT(30)
  DEF Switches, SwitchedFibers, SwitchedThread, Yields
<1>. QED
  BY <1>3, <1>10, SwitchesKeeps, ZenonT(30)

(* A waiting fiber whose thread found no other, and that goes to the       *)
(* maintenance fiber, keeps the invariant.                                 *)
LEMMA SwitchToMaintenanceKeeps ==
  ASSUME KernelInv, NEW m \in Managers, NEW f \in Fibers, SwitchToMaintenance(m, f), UNCHANGED jvars
  PROVE  KernelInv'
<1>. DEFINE s == IF Yields(f) THEN "READY" ELSE fib[f].state
            t == IF Yields(f) THEN f ELSE mgr[m].to_schedule
<1>1. /\ mgr[m].cur = f /\ fib[f].pc = "tomaint"
      /\ UNCHANGED <<runq, from, lock_using, waitq, join_info>>
      /\ SwitchTo(m, f, m, "next", fib[f].ret)
  BY ZenonT(30) DEF SwitchToMaintenance, At
<1>2. /\ RecordOK(f, fib[f]) /\ f \in Apps /\ fib[f].ret \in Targets \cup {"abort"}
      /\ fib[f].after = "none" /\ fib[f].next = Null
      /\ fib[f].state \in {"RUNNING", "WAITING", "SAVING", "DONE"}
  BY <1>1, Executes, ZenonT(30) DEF Yielding, RecordOK
<1>3. m \in Fibers /\ Saved(m) /\ m # f /\ m \notin Apps /\ RecordOK(m, fib[m])
  <2>1. m \in Fibers /\ m # f /\ m \notin Apps /\ RecordOK(m, fib[m])
    BY <1>2, ManagerAssumption, ZenonT(30) DEF Fibers, KernelInv, RecordInv
  <2>2. \A n \in Managers : mgr[n].cur # m /\ mgr[n].old # m
    <3>1. mgr[m].old = Null /\ Null \notin Fibers
      BY <1>1, ManagerAssumption, Zenon DEF KernelInv, ThreadsInv
    <3>. QED
      BY <1>1, <2>1, <3>1, SMTT(30) DEF KernelInv, ThreadsInv
  <2>. QED
    BY <2>1, <2>2, ZenonT(30) DEF Saved, KernelInv, ThreadsInv
<1>4. SwitchedFibers(f, m, s, "next", fib[f].ret)
  <2>1. s \in States /\ fib[f].ret \in RetSet /\ "next" \in AfterSet
    BY <1>2, Names, ZenonT(30) DEF Targets
  <2>2. fib' = [fib EXCEPT ![f].state = s, ![f].pc = "maint", ![f].after = "next",
                           ![f].ret = fib[f].ret, ![f].next = Null, ![f].seen = "none",
                           ![m].state = "RUNNING"]
    BY <1>1, ZenonT(30) DEF SwitchTo
  <2>. HIDE DEF s
  <2>. QED
    BY <1>3, <2>1, <2>2, FibTypes, SwitchToUpdate, Zenon
<1>5. SwitchedThread(m, f, m, t)
  <2>1. f \in FiberOrNull /\ t \in AppOrNull /\ mgr \in [Managers -> ManagerRecord]
    BY <1>2, Types, ZenonT(30) DEF ManagerRecord, FiberOrNull, AppOrNull
  <2>2. mgr' = [mgr EXCEPT ![m].to_schedule = t, ![m].cur = m, ![m].old = f]
    BY <1>1, ZenonT(30) DEF SwitchTo
  <2>. HIDE DEF t
  <2>. QED
    BY <1>3, <2>1, <2>2, ThreadSwitched, Zenon
<1>6. RecordOK(f, fib'[f])
  <2>1. /\ fib'[f].pc = "maint" /\ fib'[f].after = "next" /\ fib'[f].ret = fib[f].ret
        /\ fib'[f].next = Null /\ fib'[f].state = s
    BY <1>4, ZenonT(30) DEF SwitchedFibers
  <2>2. s # "none" /\ (fib[f].ret = "abort" => s \in {"DONE", "freed"})
    BY <1>2, ZenonT(30) DEF Yields, RecordOK
  <2>3. f \notin Managers
    BY <1>2, ManagerAssumption, ZenonT(30)
  <2>. HIDE DEF s
  <2>. QED
    BY <1>2, <2>1, <2>2, <2>3, ZenonT(30) DEF RecordOK, Yielding, Targets, Calling, Threading
<1>7. RecordOK(m, fib'[m])
  BY <1>3, <1>4, ZenonT(30) DEF RecordOK, SwitchedFibers, Saved
<1>8. CallOK(f)'
  <2>1. Place(f)' = Place(f)
    BY <1>1, <1>2, <1>4, ZenonT(30) DEF Place, SwitchedFibers, Targets, Calling
  <2>. QED
    BY <1>2, <2>1, SamePlace, ZenonT(30) DEF jvars
<1>9. QueuesKept /\ RestKept
  BY <1>1, QueuesStay, FromSame, Types, Zenon DEF RestKept, jvars
<1>10. Switches(m, f, m)
  BY <1>1, <1>2, <1>3, <1>4, <1>5, <1>6, <1>7, <1>8, <1>9, ZenonT(30)
  DEF Switches, SwitchedFibers, SwitchedThread, Yields
<1>. QED
  BY <1>3, <1>10, SwitchesKeeps, ZenonT(30)

(* fiber_manager_thread_func switching to a fiber keeps the invariant.     *)
LEMMA ThreadFuncSwitchKeeps ==
  ASSUME KernelInv, NEW m \in Managers, ThreadFuncSwitch(m), UNCHANGED jvars
  PROVE  KernelInv'
<1>. DEFINE g == fib[m].next
<1>1. /\ mgr[m].cur = m /\ fib[m].pc = "tfswitch"
      /\ UNCHANGED <<runq, from, lock_using, waitq, join_info>>
      /\ fib' = [fib EXCEPT ![m].state = "SAVING", ![m].pc = "maint", ![m].after = "tf",
                            ![m].next = Null, ![m].seen = "none", ![g].state = "RUNNING"]
      /\ mgr' = [mgr EXCEPT ![m].cur = g, ![m].old = m]
  BY ZenonT(30) DEF ThreadFuncSwitch, At
<1>2. m \in Fibers /\ m \notin Apps /\ RecordOK(m, fib[m])
  BY ManagerAssumption, ZenonT(30) DEF Fibers, KernelInv, RecordInv
<1>3. /\ g \in Apps /\ g \in Fibers /\ Saved(g) /\ g # m
      /\ fib[g].state \in {"READY", "WAITING"} /\ RecordOK(g, fib[g])
  BY <1>1, <1>2, GivenIsSaved, ZenonT(30) DEF Fibers, KernelInv, RecordInv
<1>4. SwitchedFibers(m, g, "SAVING", "tf", fib[m].ret)
  <2>. HIDE DEF g
  <2>. QED
    BY <1>1, <1>2, <1>3, FibTypes, ThreadSwitchUpdate, Zenon
<1>5. SwitchedThread(m, m, g, mgr[m].to_schedule)
  <2>1. /\ m \in FiberOrNull /\ mgr[m].to_schedule \in AppOrNull
        /\ mgr \in [Managers -> ManagerRecord]
    BY <1>2, Types, ZenonT(30) DEF ManagerRecord, FiberOrNull
  <2>. HIDE DEF g
  <2>. QED
    BY <1>1, <1>3, <2>1, ThreadSwitched, Zenon
<1>6. RecordOK(m, fib'[m])
  <2>. DEFINE r == fib'[m]
  <2>1. fib[m].ret = "none"
    BY <1>2, ZenonT(30) DEF RecordOK
  <2>2. r.pc = "maint" /\ r.after = "tf" /\ r.ret = "none" /\ r.next = Null /\ r.state = "SAVING"
    BY <1>4, <2>1, ZenonT(30) DEF SwitchedFibers
  <2>. HIDE DEF r
  <2>3. RecordOK(m, r)
    BY <1>2, <2>2, ZenonT(30) DEF RecordOK, Yielding, Targets, Calling
  <2>. QED
    BY <2>3, Zenon DEF r
<1>7. RecordOK(g, fib'[g])
  BY <1>3, <1>4, ManagerAssumption, ZenonT(30) DEF RecordOK, SwitchedFibers, Saved, Fibers
<1>9. QueuesKept /\ RestKept
  BY <1>1, QueuesStay, FromSame, Types, ZenonT(30) DEF RestKept, jvars
<1>10. Switches(m, m, g)
  <2>1. fib[m].next = g /\ g \notin Managers
    BY <1>3, ManagerAssumption, Zenon
  <2>. HIDE DEF g
  <2>2. mgr[m].cur = m /\ fib[m].pc # "maint" /\ m # g
    BY <1>1, <1>3, Zenon
  <2>. QED
    BY <1>2, <1>3, <1>4, <1>5, <1>6, <1>7, <1>9, <2>1, <2>2, ZenonT(30)
    DEF Switches, SwitchedFibers, SwitchedThread
<1>. QED
  BY <1>2, <1>3, <1>10, SwitchesKeeps, ZenonT(30)

-----------------------------------------------------------------------------
(* Taking a fiber off a queue.                                             *)

(* Only the next and the place of f change.                                *)
Given(f, g, p) ==
  /\ fib' \in [Fibers -> FiberRecord]
  /\ \A h \in Fibers : h # f => fib'[h] = fib[h]
  /\ fib'[f].state = fib[f].state /\ fib'[f].node = fib[f].node /\ fib'[f].next = g
  /\ fib'[f].after = fib[f].after /\ fib'[f].ret = fib[f].ret /\ fib'[f].pc = p

(* The fields of a fiber that has been given another to switch to.         *)
LEMMA TakeUpdate ==
  ASSUME fib \in [Fibers -> FiberRecord], NEW f \in Fibers, NEW g \in AppOrNull, NEW p \in PcSet,
         fib' = [fib EXCEPT ![f].next = g, ![f].pc = p]
  PROVE  Given(f, g, p)
  BY ZenonT(30) DEF FiberRecord, Given

(* fiber_scheduler_next finding a fiber keeps the invariant.               *)
LEMMA NextFoundKeeps ==
  ASSUME KernelInv, NEW m \in Managers, NEW f \in Fibers, NextFound(m, f), UNCHANGED jvars
  PROVE  KernelInv'
<1>. DEFINE q == from[m]
            g == Bottom(m)
            p == IF fib[f].pc = "pop" THEN "rdlock" ELSE "tfswitch"
<1>1. /\ mgr[m].cur = f /\ fib[f].pc \in {"pop", "tfpop"} /\ runq[q] # <<>>
      /\ fib[g].state # "SAVING"
      /\ runq' = [runq EXCEPT ![q] = SubSeq(runq[q], 1, Len(runq[q]) - 1)]
      /\ UNCHANGED <<mgr, from, lock_using, waitq, join_info>>
  BY Zenon DEF NextFound, Popping, Saving, WithoutBottom
<1>2. q \in DOMAIN runq
  <2>1. q \in {2 * m, 2 * m + 1} /\ DOMAIN runq = 0 .. 2 * NumThreads - 1
    BY Types, Zenon DEF RunqTypes
  <2>. QED
    BY <2>1, ManagerAssumption, SMTT(30) DEF Managers
<1>3. /\ RunqTypes' /\ RunqInv' /\ g \in Queued /\ Queued' = Queued \ {g}
  BY <1>1, <1>2, Types, RunqPop, ZenonT(30) DEF Bottom
<1>4. g \in Apps
  BY <1>3, Zenon DEF Queued
<1>5. f # g
  BY <1>1, <1>3, <1>4, ZenonT(30) DEF KernelInv, PlacesInv, Saved
<1>6. WaitqTypes' /\ WaitqInv' /\ Waiters' = Waiters
  BY <1>1, Types, ZenonT(30) DEF WaitqTypes, WaitqInv, Waiters
<1>7. RestKept
  BY <1>1, FromSame, Types, ZenonT(30) DEF RestKept, jvars
<1>8. Given(f, g, p)
  <2>1. g \in AppOrNull /\ p \in PcSet
    BY <1>4, Names, ZenonT(30) DEF AppOrNull
  <2>2. fib' = [fib EXCEPT ![f].next = g, ![f].pc = p]
    BY FibTypes, ZenonT(30) DEF NextFound
  <2>. HIDE DEF g, p
  <2>. QED
    BY <2>1, <2>2, FibTypes, TakeUpdate, Zenon
<1>9. Takes(m, f, g)
  <2>. HIDE DEF g
  <2>. QED
    BY <1>1, <1>3, <1>5, <1>6, <1>7, <1>8, ZenonT(30) DEF Takes, Given, QueuesInv
<1>. QED
  BY <1>4, <1>9, TakesKeeps, Zenon

(* Steps in which a fiber leaves the thread as it is.                      *)

(* A step of the fiber's own code that only moves on in it or starts to    *)
(* yield.                                                                  *)
OwnStep(m, f) ==
  /\ mgr[m].cur = f /\ fib[f].pc \in Targets
  /\ OnlyFib /\ JoinSame(f)
  /\ fib' \in [Fibers -> FiberRecord]
  /\ \A g \in Fibers : g # f => fib'[g] = fib[g]
  /\ fib'[f].state = fib[f].state
  /\ fib'[f].node = fib[f].node
  /\ fib'[f].next = fib[f].next
  /\ fib'[f].after = fib[f].after
  /\ \/ fib'[f].pc \in Targets /\ fib'[f].ret = "none"
     \/ fib'[f].pc = "wait" /\ fib'[f].ret \in {"locked", "left"}
     \/ fib'[f].pc = "next" /\ fib'[f].ret \in Targets
  /\ CallOK(f)'

(* A fiber between two calls runs and is owed nothing.                     *)
LEMMA OwnRunning ==
  ASSUME KernelInv, NEW m \in Managers, NEW f \in Apps, mgr[m].cur = f, fib[f].pc \in Targets
  PROVE  /\ fib[f].state = "RUNNING" /\ fib[f].next = Null
         /\ fib[f].ret = "none" /\ fib[f].after = "none"
<1>1. fib[f].state = "RUNNING"
  BY ZenonT(30) DEF KernelInv, LeavingInv, Targets, Calling
<1>2. RecordOK(f, fib[f])
  BY Zenon DEF KernelInv, RecordInv, Fibers
<1>. QED
  BY <1>1, <1>2, ZenonT(30) DEF RecordOK, Targets, Calling

(* A step of a running fiber that touches itself alone keeps the           *)
(* invariant.                                                              *)
LEMMA OwnKeeps ==
  ASSUME KernelInv, NEW m \in Managers, NEW f \in Apps, OwnStep(m, f)
  PROVE  KernelInv'
<1>1. fib[f].state = "RUNNING" /\ fib[f].next = Null /\ fib[f].after = "none"
  BY OwnRunning, ZenonT(30) DEF OwnStep
<1>2. OthersSame(f)
  BY Types, ZenonT(30) DEF OthersSame, OwnStep, OnlyFib, JoinSame
<1>3. RecordOK(f, fib'[f])
  BY <1>1, ManagerAssumption, ZenonT(30) DEF RecordOK, OwnStep, Targets, Calling, Yielding, Threading, Fibers
<1>4. Stays(m, f)
  BY <1>1, <1>2, <1>3, SameQueues, ZenonT(30) DEF Stays, OwnStep, OnlyFib, Targets, Calling
<1>. QED
  BY <1>4, StaysKeeps, ZenonT(30) DEF Fibers

(* What is left of a program is a program.                                 *)
LEMMA ReturnTypes ==
  ASSUME KernelInv, NEW f \in Apps, Return(f)
  PROVE  todo' \in [Apps -> Seq(CallSet)]
<1>1. PICK k \in 1 .. Len(todo[f]) : todo' = [todo EXCEPT ![f] = SubSeq(@, k + 1, Len(@))]
  BY ZenonT(30) DEF Return
<1>2. todo[f] \in Seq(CallSet) /\ k \in 0 .. Len(todo[f])
  BY Types, SMTT(30)
<1>3. SubSeq(todo[f], k + 1, Len(todo[f])) \in Seq(CallSet)
  BY <1>2, Rest, Zenon
<1>. QED
  BY <1>1, <1>3, Types, ZenonT(30)

(* A step that touches neither programs nor detach states.                 *)
LEMMA JoinUnchanged ==
  ASSUME KernelInv, UNCHANGED <<detach_state, todo>>, NEW f \in Apps
  PROVE  JoinSame(f)
  BY Types, ZenonT(30) DEF JoinSame

(* A call that returns and touches no detach state.                        *)
LEMMA JoinReturnsOnly ==
  ASSUME KernelInv, NEW f \in Apps, Return(f), UNCHANGED detach_state
  PROVE  JoinSame(f)
  BY ReturnTypes, Types, ZenonT(30) DEF JoinSame, Return

(* Only the place, the ret and the count of f change.                      *)
Moved(f, p, r) ==
  /\ fib' \in [Fibers -> FiberRecord]
  /\ \A g \in Fibers : g # f => fib'[g] = fib[g]
  /\ fib'[f].state = fib[f].state /\ fib'[f].node = fib[f].node
  /\ fib'[f].next = fib[f].next /\ fib'[f].after = fib[f].after
  /\ fib'[f].pc = p /\ fib'[f].ret = r /\ fib'[f].seen = fib[f].seen

(* The fields of a fiber that moves on.                                    *)
LEMMA PcUpdate ==
  ASSUME fib \in [Fibers -> FiberRecord], NEW f \in Fibers, NEW p \in PcSet,
         fib' = [fib EXCEPT ![f].pc = p]
  PROVE  Moved(f, p, fib[f].ret)
  BY ZenonT(30) DEF FiberRecord, Moved

(* The fields of a fiber that calls a function.                            *)
LEMMA RetUpdate ==
  ASSUME fib \in [Fibers -> FiberRecord], NEW f \in Fibers, NEW p \in PcSet, NEW r \in RetSet,
         fib' = [fib EXCEPT ![f].pc = p, ![f].ret = r]
  PROVE  Moved(f, p, r)
  BY ZenonT(30) DEF FiberRecord, Moved

(* A move of a running fiber to a place where it may be is a step of its   *)
(* own.                                                                    *)
LEMMA MovedOwn ==
  ASSUME KernelInv, NEW m \in Managers, NEW f \in Apps, mgr[m].cur = f, fib[f].pc \in Targets,
         NEW p, NEW r, Moved(f, p, r), OnlyFib, JoinSame(f),
         \/ p \in Targets /\ r = "none"
         \/ p = "wait" /\ r \in {"locked", "left"}
         \/ p = "next" /\ r \in Targets,
         {p, r} \cap {"join", "joined", "tryjoin", "clear"} # {} =>
           todo'[f] # <<>> /\ Head(todo'[f])[2] \in Apps
  PROVE  OwnStep(m, f)
<1>1. CallOK(f)'
  <2>1. Place(f)' \in {p, r}
    BY ZenonT(30) DEF Place, Moved, Targets, Calling
  <2>. QED
    BY <2>1, Zenon DEF CallOK
<1>. QED
  BY <1>1, Zenon DEF OwnStep, Moved

(* So is going on to another place of the same function,                   *)
LEMMA GoesOwn ==
  ASSUME KernelInv, NEW m \in Managers, NEW f \in Apps, mgr[m].cur = f, fib[f].pc \in Targets,
         NEW p \in Targets, Goes(f, p), OnlyFib, JoinSame(f),
         p \in {"join", "joined", "tryjoin", "clear"} => todo'[f] # <<>> /\ Head(todo'[f])[2] \in Apps
  PROVE  OwnStep(m, f)
<1>1. p \in PcSet /\ f \in Fibers /\ fib[f].ret = "none"
  BY Names, OwnRunning, ZenonT(30) DEF Targets, Fibers
<1>2. Moved(f, p, "none")
  BY <1>1, FibTypes, PcUpdate, Zenon DEF Goes
<1>. QED
  BY <1>2, MovedOwn, Zenon

(* calling fiber_manager_yield,                                            *)
LEMMA YieldOwn ==
  ASSUME KernelInv, NEW m \in Managers, NEW f \in Apps, mgr[m].cur = f, fib[f].pc \in Targets,
         NEW p \in Targets, fib' = CallYield(f, p), OnlyFib, JoinSame(f),
         p \in {"join", "joined", "tryjoin", "clear"} => todo'[f] # <<>> /\ Head(todo'[f])[2] \in Apps
  PROVE  OwnStep(m, f)
<1>1. p \in RetSet /\ f \in Fibers /\ "next" \in PcSet
  BY Names, ZenonT(30) DEF Targets, Fibers
<1>2. Moved(f, "next", p)
  BY <1>1, FibTypes, RetUpdate, Zenon DEF CallYield
<1>. QED
  BY <1>2, MovedOwn, ZenonT(30)

(* and doing nothing.                                                      *)
LEMMA IdleOwn ==
  ASSUME KernelInv, NEW m \in Managers, NEW f \in Apps, mgr[m].cur = f, fib[f].pc = "run",
         UNCHANGED fib, OnlyFib, JoinSame(f)
  PROVE  OwnStep(m, f)
<1>1. fib[f].pc \in Targets /\ "run" \in Calling
  BY Names, ZenonT(30) DEF Targets
<1>. QED
  BY <1>1, FibTypes, OwnRunning, ZenonT(30) DEF OwnStep, CallOK, Place

(* The barrier counts its parties, and there are some if somebody calls    *)
(* it.                                                                     *)

(* The fields of a fiber that moves on with a count of fibers to wake.     *)
LEMMA CountUpdate ==
  ASSUME fib \in [Fibers -> FiberRecord], NEW f \in Fibers, NEW p \in PcSet, NEW c \in Nat,
         fib' = [fib EXCEPT ![f].pc = p, ![f].count = c]
  PROVE  Moved(f, p, fib[f].ret)
  BY ZenonT(30) DEF FiberRecord, Moved

(* The fields of a fiber that calls a function with such a count.          *)
LEMMA RetCountUpdate ==
  ASSUME fib \in [Fibers -> FiberRecord], NEW f \in Fibers, NEW p \in PcSet, NEW r \in RetSet,
         NEW c \in Nat, fib' = [fib EXCEPT ![f].pc = p, ![f].ret = r, ![f].count = c]
  PROVE  Moved(f, p, r)
<1>. DEFINE fib1 == [fib EXCEPT ![f].pc = p, ![f].ret = r]
<1>1. /\ fib1 \in [Fibers -> FiberRecord]
      /\ \A g \in Fibers : g # f => fib1[g] = fib[g]
      /\ fib1[f].state = fib[f].state /\ fib1[f].node = fib[f].node
      /\ fib1[f].next = fib[f].next /\ fib1[f].after = fib[f].after
      /\ fib1[f].pc = p /\ fib1[f].ret = r /\ fib1[f].seen = fib[f].seen
  BY ZenonT(30) DEF FiberRecord
<1>2. fib' = [fib1 EXCEPT ![f].count = c]
  BY Zenon
<1>. HIDE DEF fib1
<1>3. fib' \in [Fibers -> FiberRecord]
  BY ONLY <1>1, <1>2, c \in Nat, f \in Fibers, SMTT(30) DEF FiberRecord
<1>4. /\ \A g \in Fibers : g # f => fib'[g] = fib1[g]
      /\ fib'[f] = [fib1[f] EXCEPT !.count = c] /\ fib1[f] \in FiberRecord
  BY <1>1, <1>2, Zenon
<1>5. /\ fib'[f].state = fib1[f].state /\ fib'[f].node = fib1[f].node
      /\ fib'[f].next = fib1[f].next /\ fib'[f].after = fib1[f].after
      /\ fib'[f].pc = fib1[f].pc /\ fib'[f].ret = fib1[f].ret /\ fib'[f].seen = fib1[f].seen
  BY ONLY <1>4, ZenonT(30) DEF FiberRecord
<1>. QED
  BY <1>1, <1>3, <1>4, <1>5, ZenonT(30) DEF Moved

(* fiber_mutex_lock up to the wait.                                        *)
LEMMA LockOwn ==
  ASSUME KernelInv, NEW m \in Managers, NEW f \in Apps, Lock(m, f), UNCHANGED jvars
  PROVE  OwnStep(m, f)
<1>. DEFINE p == IF Acquired(counter') THEN "locked" ELSE "wait"
            r == IF Acquired(counter') THEN "none" ELSE "locked"
<1>1. p \in PcSet /\ r \in RetSet /\ f \in Fibers
  BY Names, ZenonT(30) DEF Fibers
<1>2. fib' = [fib EXCEPT ![f].pc = p, ![f].ret = r]
  BY ZenonT(30) DEF Lock
<1>3. mgr[m].cur = f /\ fib[f].pc \in Targets /\ OnlyFib /\ JoinSame(f)
  BY JoinUnchanged, ZenonT(30) DEF Lock, At, Targets, Calling, jvars
<1>4. (p = "locked" /\ r = "none") \/ (p = "wait" /\ r = "locked")
  BY ZenonT(30)
<1>. HIDE DEF p, r
<1>5. Moved(f, p, r)
  BY <1>1, <1>2, FibTypes, RetUpdate, Zenon
<1>. QED
  BY <1>3, <1>4, <1>5, MovedOwn, ZenonT(30) DEF Targets, Calling

(* fiber_mutex_unlock up to the wake.                                      *)
LEMMA UnlockOwn ==
  ASSUME KernelInv, NEW m \in Managers, NEW f \in Apps, Unlock(m, f), JoinSame(f)
  PROVE  OwnStep(m, f)
<1>. DEFINE p == IF Contended(counter') THEN "wake" ELSE "run"
            c == IF Contended(counter') THEN 1 ELSE 0
<1>1. p \in PcSet /\ c \in Nat /\ f \in Fibers
  BY Names, ZenonT(30) DEF Fibers
<1>2. fib' = [fib EXCEPT ![f].pc = p, ![f].count = c]
  BY ZenonT(30) DEF Unlock
<1>3. mgr[m].cur = f /\ fib[f].pc \in Targets /\ OnlyFib
  BY ZenonT(30) DEF Unlock, At, Targets, Calling
<1>4. p \in {"wake", "run"} /\ fib[f].ret = "none"
  BY <1>3, OwnRunning, ZenonT(30)
<1>. HIDE DEF p, c
<1>5. Moved(f, p, "none")
  BY <1>1, <1>2, <1>4, FibTypes, CountUpdate, Zenon
<1>. QED
  BY <1>3, <1>4, <1>5, MovedOwn, ZenonT(30) DEF Targets, Calling

(* fiber_barrier_wait up to the wait or the wake.                          *)
LEMMA ArriveOwn ==
  ASSUME KernelInv, PartiesInv, NEW m \in Managers, NEW f \in Apps,
         Calls(m, f, "run", "barrier"), Arrive(m, f), UNCHANGED jvars
  PROVE  OwnStep(m, f)
<1>. DEFINE p == IF Completes THEN "wake" ELSE "wait"
            r == IF Completes THEN "none" ELSE "left"
            c == IF Completes THEN Count - 1 ELSE 0
<1>0. Count \in Nat /\ Count > 0
  <2>1. todo[f] \in Seq(CallSet) /\ todo[f] # <<>> /\ todo[f][1][1] = "barrier"
    BY Types, SMTT(30) DEF Calls
  <2>2. CallsBarrier(f)
    BY <2>1, SMTT(30) DEF CallsBarrier
  <2>. QED
    BY <2>2, ZenonT(30) DEF PartiesInv
<1>1. p \in PcSet /\ r \in RetSet /\ c \in Nat /\ f \in Fibers
  BY <1>0, Names, SMTT(30) DEF Fibers
<1>2. fib' = [fib EXCEPT ![f].pc = p, ![f].ret = r, ![f].count = c]
  BY ZenonT(30) DEF Arrive
<1>3. mgr[m].cur = f /\ fib[f].pc \in Targets /\ OnlyFib /\ JoinSame(f)
  BY JoinUnchanged, ZenonT(30) DEF Arrive, At, Targets, Calling, jvars
<1>4. (p = "wake" /\ r = "none") \/ (p = "wait" /\ r = "left")
  BY ZenonT(30)
<1>. HIDE DEF p, r, c
<1>5. Moved(f, p, r)
  BY <1>1, <1>2, FibTypes, RetCountUpdate, Zenon
<1>. QED
  BY <1>3, <1>4, <1>5, MovedOwn, ZenonT(30) DEF Targets, Calling

(* Every step of the mutex is one of the calling fiber itself.             *)
LEMMA MutexOwn ==
  ASSUME KernelInv, NEW m \in Managers, MutexStep(m)
  PROVE  \E f \in Apps : OwnStep(m, f)
<1>1. PICK f \in Apps \cap {mgr[m].cur} :
        \/ Calls(m, f, "run", "lock") /\ Lock(m, f) /\ UNCHANGED jvars
        \/ Calls(m, f, "run", "trylock") /\ TryLock(m, f) /\ UNCHANGED jvars
        \/ Calls(m, f, "run", "trylock") /\ TryLockFails(m, f)
        \/ LockReturns(m, f) /\ Returns(f)
        \/ /\ Calls(m, f, "run", "unlock")
           /\ Unlock(m, f)
           /\ IF fib'[f].pc = "run" THEN Returns(f) ELSE UNCHANGED jvars
        \/ Calls(m, f, "woke", "unlock") /\ UnlockYields(m, f) /\ Returns(f)
  BY ZenonT(30) DEF MutexStep
<1>. f \in Apps
  BY ZenonT(30)
<1>. /\ "run" \in Targets /\ "locked" \in Targets /\ "woke" \in Targets
     /\ {"run", "locked"} \cap {"join", "joined", "tryjoin", "clear"} = {}
  BY ZenonT(30) DEF Targets, Calling
<1>a. ASSUME Returns(f) PROVE JoinSame(f)
  BY <1>a, JoinReturnsOnly, ZenonT(30) DEF Returns
<1>b. ASSUME UNCHANGED jvars PROVE JoinSame(f)
  BY <1>b, JoinUnchanged, ZenonT(30) DEF jvars
<1>2. CASE Calls(m, f, "run", "lock") /\ Lock(m, f) /\ UNCHANGED jvars
  BY <1>2, LockOwn, ZenonT(30)
<1>3. CASE Calls(m, f, "run", "trylock") /\ TryLock(m, f) /\ UNCHANGED jvars
  <2>1. mgr[m].cur = f /\ fib[f].pc \in Targets /\ Goes(f, "locked") /\ OnlyFib
    BY <1>3, ZenonT(30) DEF TryLock, At
  <2>. QED
    BY <1>3, <1>b, <2>1, GoesOwn, ZenonT(30)
<1>4. CASE Calls(m, f, "run", "trylock") /\ TryLockFails(m, f)
  <2>1. /\ mgr[m].cur = f /\ fib[f].pc = "run" /\ UNCHANGED fib /\ OnlyFib
        /\ todo[f] # <<>> /\ todo' = [todo EXCEPT ![f] = <<<<"lock", Null>>>> \o Tail(@)]
        /\ detach_state' = detach_state
    BY <1>4, ZenonT(30) DEF TryLockFails, Calls, At, kvars, OnlyFib
  <2>2. <<<<"lock", Null>>>> \in Seq(CallSet) /\ Tail(todo[f]) \in Seq(CallSet)
    <3>1. <<"lock", Null>> \in CallSet
      BY Zenon DEF CallSet
    <3>2. todo[f] \in Seq(CallSet)
      BY Types, ZenonT(30)
    <3>. QED
      BY <2>1, <3>1, <3>2, SMTT(30)
  <2>3. <<<<"lock", Null>>>> \o Tail(todo[f]) \in Seq(CallSet)
    BY <2>2, SMTT(30)
  <2>4. JoinSame(f)
    BY <2>1, <2>3, Types, Zenon DEF JoinSame
  <2>. QED
    BY <2>1, <2>4, IdleOwn, ZenonT(30)
<1>5. CASE LockReturns(m, f) /\ Returns(f)
  <2>1. mgr[m].cur = f /\ fib[f].pc \in Targets /\ Goes(f, "run") /\ OnlyFib
    BY <1>5, ZenonT(30) DEF LockReturns, At
  <2>. QED
    BY <1>5, <1>a, <2>1, GoesOwn, ZenonT(30)
<1>6. CASE /\ Calls(m, f, "run", "unlock")
           /\ Unlock(m, f)
           /\ IF fib'[f].pc = "run" THEN Returns(f) ELSE UNCHANGED jvars
  BY <1>6, <1>a, <1>b, UnlockOwn, ZenonT(30)
<1>7. CASE Calls(m, f, "woke", "unlock") /\ UnlockYields(m, f) /\ Returns(f)
  <2>1. mgr[m].cur = f /\ fib[f].pc \in Targets /\ fib' = CallYield(f, "run") /\ OnlyFib
    BY <1>7, ZenonT(30) DEF UnlockYields, At
  <2>. QED
    BY <1>7, <1>a, <2>1, YieldOwn, ZenonT(30)
<1>. QED
  BY <1>1, <1>2, <1>3, <1>4, <1>5, <1>6, <1>7, ZenonT(30)

(* Every step of the barrier is one of the calling fiber itself.           *)
LEMMA BarrierOwn ==
  ASSUME KernelInv, PartiesInv, NEW m \in Managers, BarrierStep(m)
  PROVE  \E f \in Apps : OwnStep(m, f)
<1>1. PICK f \in Apps \cap {mgr[m].cur} :
        \/ Calls(m, f, "run", "barrier") /\ Arrive(m, f) /\ UNCHANGED jvars
        \/ Leave(m, f) /\ Returns(f)
  BY ZenonT(30) DEF BarrierStep
<1>2. CASE Calls(m, f, "run", "barrier") /\ Arrive(m, f) /\ UNCHANGED jvars
  BY <1>2, ArriveOwn, ZenonT(30)
<1>3. CASE Leave(m, f) /\ Returns(f)
  <2>1. mgr[m].cur = f /\ fib[f].pc \in Targets /\ Goes(f, "run") /\ OnlyFib /\ "run" \in Targets
    BY <1>3, ZenonT(30) DEF Leave, At, Targets, Calling
  <2>2. JoinSame(f)
    BY <1>3, JoinReturnsOnly, ZenonT(30) DEF Returns
  <2>. QED
    BY <2>1, <2>2, GoesOwn, ZenonT(30)
<1>. QED
  BY <1>1, <1>2, <1>3, ZenonT(30)

(* The calls on another fiber name it.                                     *)
LEMMA ArgApps ==
  ASSUME KernelInv, NEW f \in Apps, todo[f] # <<>>,
         Head(todo[f])[1] \in {"join", "tryjoin", "detach"}
  PROVE  Arg(f) \in Apps
<1>1. Head(todo[f]) \in CallSet
  BY Types, SMTT(30)
<1>. QED
  BY <1>1, ZenonT(30) DEF CallSet, Arg

(* Writing a detach state, with or without returning.                      *)
LEMMA DetachMoves ==
  ASSUME KernelInv, NEW f \in Apps, NEW g \in Apps, NEW s \in DetachStates \ {"NONE"},
         detach_state' = [detach_state EXCEPT ![g] = s], UNCHANGED todo \/ Return(f)
  PROVE  JoinSame(f)
<1>1. detach_state' \in [Apps -> DetachStates]
  BY Types, ZenonT(30)
<1>2. \A h \in Apps : detach_state'[h] = "NONE" => detach_state[h] = "NONE"
  BY Types, ZenonT(30)
<1>3. todo' \in [Apps -> Seq(CallSet)] /\ \A h \in Apps : h # f => todo'[h] = todo[h]
  BY ReturnTypes, Types, ZenonT(30) DEF Return
<1>. QED
  BY <1>1, <1>2, <1>3, Zenon DEF JoinSame

(* The three kinds of steps of fiber.c that change a fiber's state.        *)
SetWaits(m, f) ==
  /\ mgr[m].cur = f /\ fib[f].pc \in Targets
  /\ JoinSame(f) /\ UNCHANGED <<runq, from, lock_using, waitq>>
  /\ \E g \in Apps, p \in Targets :
       /\ detach_state[g] = "NONE" /\ detach_state'[g] # "NONE"
       /\ SetAndWait(m, f, g, p)
       /\ p = "joined" => todo'[f] # <<>> /\ Head(todo'[f])[2] \in Apps
       /\ p \in {"joined", "done"}

Readies(m, f) ==
  /\ mgr[m].cur = f /\ fib[f].pc \in Targets
  /\ JoinSame(f) /\ UNCHANGED <<mgr, from, lock_using, waitq>>
  /\ \E g \in Apps, p \in {"run", "done"} : join_info[g] # Null /\ Readied(m, f, g, p)

Finishes(m, f) == Done(m, f)

(* The exchange of detach_state in fiber_join lets its caller go on or     *)
(* wait.                                                                   *)
LEMMA JoinExchangeKind ==
  ASSUME KernelInv, NEW m \in Managers, NEW f \in Apps, JoinExchange(m, f)
  PROVE  OwnStep(m, f) \/ SetWaits(m, f)
<1>. DEFINE g == Arg(f)
<1>1. /\ mgr[m].cur = f /\ fib[f].pc \in Targets /\ todo[f] # <<>>
      /\ Head(todo[f])[1] = "join"
      /\ detach_state' = [detach_state EXCEPT ![g] = "WAIT_TO_JOIN"]
      /\ UNCHANGED <<runq, from, lock_using, waitq>>
  BY ZenonT(30) DEF JoinExchange, Calls, At, Targets, Calling
<1>2. g \in Apps /\ g = Head(todo[f])[2]
  BY <1>1, ArgApps, ZenonT(30) DEF Arg
<1>3. detach_state'[g] # "NONE" /\ "WAIT_TO_JOIN" \in DetachStates \ {"NONE"}
  BY <1>1, <1>2, Types, ZenonT(30) DEF DetachStates
<1>4. /\ "joined" \in Targets /\ "clear" \in Targets /\ "run" \in Targets
      /\ "run" \notin {"join", "joined", "tryjoin", "clear"}
  BY ZenonT(30) DEF Targets, Calling
<1>5. CASE detach_state[g] = "NONE"
  <2>1. SetAndWait(m, f, g, "joined") /\ UNCHANGED todo
    BY <1>5, ZenonT(30) DEF JoinExchange
  <2>2. JoinSame(f)
    BY <1>1, <1>2, <1>3, <2>1, DetachMoves, ZenonT(30)
  <2>. QED
    BY <1>1, <1>2, <1>3, <1>4, <1>5, <2>1, <2>2, ZenonT(30) DEF SetWaits
<1>6. CASE detach_state[g] = "WAIT_FOR_JOINER"
  <2>1. Goes(f, "clear") /\ UNCHANGED <<mgr, join_info, todo>>
    BY <1>6, ZenonT(30) DEF JoinExchange
  <2>2. JoinSame(f) /\ OnlyFib
    BY <1>1, <1>2, <1>3, <2>1, DetachMoves, ZenonT(30) DEF OnlyFib
  <2>. QED
    BY <1>1, <1>2, <1>4, <2>1, <2>2, GoesOwn, ZenonT(30)
<1>7. CASE detach_state[g] \notin {"NONE", "WAIT_FOR_JOINER"}
  <2>1. Return(f) /\ Goes(f, "run") /\ UNCHANGED <<mgr, join_info>>
    BY <1>7, ZenonT(30) DEF JoinExchange
  <2>2. JoinSame(f) /\ OnlyFib
    BY <1>1, <1>2, <1>3, <2>1, DetachMoves, ZenonT(30) DEF OnlyFib
  <2>. QED
    BY <1>1, <1>4, <2>1, <2>2, GoesOwn, ZenonT(30)
<1>. QED
  BY <1>5, <1>6, <1>7, ZenonT(30)

(* The exchange of detach_state in fiber_join_routine lets the fiber go on *)
(* or wait.                                                                *)
LEMMA FinishExchangeKind ==
  ASSUME KernelInv, NEW m \in Managers, NEW f \in Apps, FinishExchange(m, f)
  PROVE  OwnStep(m, f) \/ SetWaits(m, f)
<1>1. /\ mgr[m].cur = f /\ fib[f].pc \in Targets /\ UNCHANGED todo
      /\ detach_state' = [detach_state EXCEPT ![f] = "WAIT_FOR_JOINER"]
      /\ UNCHANGED <<runq, from, lock_using, waitq>>
  BY ZenonT(30) DEF FinishExchange, At, Targets, Calling
<1>2. detach_state'[f] # "NONE" /\ "WAIT_FOR_JOINER" \in DetachStates \ {"NONE"}
  BY <1>1, Types, ZenonT(30) DEF DetachStates
<1>3. JoinSame(f)
  BY <1>1, <1>2, DetachMoves, ZenonT(30)
<1>4. /\ "done" \in Targets /\ "answer" \in Targets
      /\ "done" \notin {"join", "joined", "tryjoin", "clear"}
      /\ "answer" \notin {"join", "joined", "tryjoin", "clear"}
  BY ZenonT(30) DEF Targets, Calling
<1>5. CASE detach_state[f] = "NONE"
  <2>1. SetAndWait(m, f, f, "done")
    BY <1>5, ZenonT(30) DEF FinishExchange
  <2>. QED
    BY <1>1, <1>2, <1>3, <1>4, <1>5, <2>1, ZenonT(30) DEF SetWaits
<1>6. CASE detach_state[f] = "WAIT_TO_JOIN"
  <2>1. Goes(f, "answer") /\ OnlyFib
    BY <1>1, <1>6, ZenonT(30) DEF FinishExchange, OnlyFib
  <2>. QED
    BY <1>1, <1>3, <1>4, <2>1, GoesOwn, ZenonT(30)
<1>7. CASE detach_state[f] \notin {"NONE", "WAIT_TO_JOIN"}
  <2>1. Goes(f, "done") /\ OnlyFib
    BY <1>1, <1>7, ZenonT(30) DEF FinishExchange, OnlyFib
  <2>. QED
    BY <1>1, <1>3, <1>4, <2>1, GoesOwn, ZenonT(30)
<1>. QED
  BY <1>5, <1>6, <1>7, ZenonT(30)

(* The test of fiber_join and of fiber_tryjoin, and the return of a join.  *)
LEMMA CheckOwn ==
  ASSUME KernelInv, NEW m \in Managers, NEW f \in Apps,
         JoinCheck(m, f) \/ JoinReturns(m, f) \/ TryJoinCheck(m, f)
  PROVE  OwnStep(m, f)
<1>1. /\ mgr[m].cur = f /\ fib[f].pc \in Targets /\ OnlyFib /\ UNCHANGED detach_state
  BY ZenonT(30) DEF JoinCheck, JoinReturns, TryJoinCheck, Calls, At, Targets, Calling
<1>2. /\ "join" \in Targets /\ "tryjoin" \in Targets /\ "run" \in Targets
      /\ "run" \notin {"join", "joined", "tryjoin", "clear"}
  BY ZenonT(30) DEF Targets, Calling
<1>3. CASE UNCHANGED fib /\ Return(f) /\ fib[f].pc = "run"
  <2>1. JoinSame(f)
    BY <1>1, <1>3, JoinReturnsOnly, ZenonT(30)
  <2>. QED
    BY <1>1, <1>3, <2>1, IdleOwn, ZenonT(30)
<1>4. CASE Goes(f, "run") /\ Return(f)
  <2>1. JoinSame(f)
    BY <1>1, <1>4, JoinReturnsOnly, ZenonT(30)
  <2>. QED
    BY <1>1, <1>2, <1>4, <2>1, GoesOwn, ZenonT(30)
<1>5. ASSUME NEW p \in {"join", "tryjoin"}, Goes(f, p), UNCHANGED todo, todo[f] # <<>>,
             Head(todo[f])[1] = p
      PROVE  OwnStep(m, f)
  <2>1. JoinSame(f) /\ Head(todo[f])[2] \in Apps
    BY <1>1, <1>5, JoinUnchanged, ArgApps, ZenonT(30) DEF Arg
  <2>. QED
    BY <1>1, <1>2, <1>5, <2>1, GoesOwn, ZenonT(30)
<1>6. CASE JoinCheck(m, f)
  BY <1>3, <1>5, <1>6, ZenonT(30) DEF JoinCheck, Calls, At
<1>7. CASE TryJoinCheck(m, f)
  BY <1>3, <1>5, <1>7, ZenonT(30) DEF TryJoinCheck, Calls, At
<1>8. CASE JoinReturns(m, f)
  BY <1>4, <1>8, ZenonT(30) DEF JoinReturns
<1>. QED
  BY <1>6, <1>7, <1>8, ZenonT(30)

(* The exchanges of fiber_tryjoin and fiber_detach.                        *)
LEMMA DetachOwn ==
  ASSUME KernelInv, NEW m \in Managers, NEW f \in Apps, TryJoinExchange(m, f) \/ Detach(m, f)
  PROVE  OwnStep(m, f)
<1>. DEFINE g == Arg(f)
<1>1. /\ mgr[m].cur = f /\ fib[f].pc \in Targets /\ todo[f] # <<>> /\ OnlyFib
      /\ Head(todo[f])[1] \in {"tryjoin", "detach"}
  BY ZenonT(30) DEF TryJoinExchange, Detach, Calls, At, Targets, Calling
<1>2. g \in Apps /\ g = Head(todo[f])[2]
  BY <1>1, ArgApps, ZenonT(30) DEF Arg
<1>3. /\ "clear" \in Targets /\ "run" \in Targets
      /\ "run" \notin {"join", "joined", "tryjoin", "clear"}
  BY ZenonT(30) DEF Targets, Calling
<1>4. ASSUME UNCHANGED todo \/ Return(f) PROVE JoinSame(f)
  <2>1. PICK s \in {"WAIT_TO_JOIN", "DETACHED"} : detach_state' = [detach_state EXCEPT ![g] = s]
    BY ZenonT(30) DEF TryJoinExchange, Detach
  <2>2. s \in DetachStates \ {"NONE"}
    BY ZenonT(30) DEF DetachStates
  <2>. QED
    BY <1>2, <1>4, <2>1, <2>2, DetachMoves, ZenonT(30)
<1>5. CASE Goes(f, "clear") /\ UNCHANGED todo
  BY <1>1, <1>2, <1>3, <1>4, <1>5, GoesOwn, ZenonT(30)
<1>6. CASE Goes(f, "run") /\ Return(f)
  BY <1>1, <1>3, <1>4, <1>6, GoesOwn, ZenonT(30)
<1>7. CASE UNCHANGED fib /\ Return(f) /\ fib[f].pc = "run"
  BY <1>1, <1>4, <1>7, IdleOwn, ZenonT(30)
<1>. QED
  BY <1>5, <1>6, <1>7, ZenonT(30) DEF TryJoinExchange, Detach, Calls, At

(* The loops that yield until another fiber has stored itself, and the     *)
(* yields of the program.                                                  *)
LEMMA YieldsOwn ==
  ASSUME KernelInv, NEW m \in Managers, NEW f \in Apps,
         \/ ClearWaits(m, f) \/ Yield(m, f) \/ AnswerWaits(m, f)
         \/ (f = Main /\ MainYields(m))
  PROVE  OwnStep(m, f)
<1>1. /\ mgr[m].cur = f /\ fib[f].pc \in {"clear", "run", "answer"} /\ OnlyFib
      /\ UNCHANGED detach_state /\ (UNCHANGED todo \/ Return(f))
      /\ \/ fib[f].pc = "clear" /\ fib' = CallYield(f, "clear") /\ UNCHANGED todo
         \/ fib' = CallYield(f, "run")
         \/ fib' = CallYield(f, "answer")
  BY ZenonT(30) DEF ClearWaits, Yield, AnswerWaits, MainYields, Calls, At, jvars
<1>2. /\ "clear" \in Targets /\ "run" \in Targets /\ "answer" \in Targets
      /\ "run" \notin {"join", "joined", "tryjoin", "clear"}
      /\ "answer" \notin {"join", "joined", "tryjoin", "clear"}
  BY ZenonT(30) DEF Targets, Calling
<1>3. JoinSame(f)
  BY <1>1, JoinUnchanged, JoinReturnsOnly, ZenonT(30)
<1>4. CASE fib[f].pc = "clear" /\ fib' = CallYield(f, "clear") /\ UNCHANGED todo
  <2>1. Place(f) = "clear"
    BY <1>4, ZenonT(30) DEF Place, Calling
  <2>2. todo[f] # <<>> /\ Head(todo[f])[2] \in Apps
    BY <2>1, ZenonT(30) DEF KernelInv, CallsInv, CallOK
  <2>. QED
    BY <1>1, <1>2, <1>3, <1>4, <2>2, YieldOwn, ZenonT(30)
<1>5. CASE fib' = CallYield(f, "run")
  BY <1>1, <1>2, <1>3, <1>5, YieldOwn, ZenonT(30)
<1>6. CASE fib' = CallYield(f, "answer")
  BY <1>1, <1>2, <1>3, <1>6, YieldOwn, ZenonT(30)
<1>. QED
  BY <1>1, <1>4, <1>5, <1>6, ZenonT(30)

(* A fiber reaching the end of its program.                                *)
LEMMA FinishOwn ==
  ASSUME KernelInv, NEW m \in Managers, NEW f \in Apps, Finish(m, f)
  PROVE  OwnStep(m, f)
<1>1. PICK p \in {"finish", "done"} : Goes(f, p)
  BY ZenonT(30) DEF Finish
<1>2. mgr[m].cur = f /\ fib[f].pc \in Targets /\ OnlyFib /\ UNCHANGED <<detach_state, todo>>
  BY ZenonT(30) DEF Finish, At, Targets, Calling
<1>3. p \in Targets /\ p \notin {"join", "joined", "tryjoin", "clear"} /\ JoinSame(f)
  BY <1>2, JoinUnchanged, ZenonT(30) DEF Targets, Calling
<1>. QED
  BY <1>1, <1>2, <1>3, GoesOwn, ZenonT(30)

(* clear_or_wait taking a fiber out of join_info to make it ready.         *)
LEMMA ReadiesKind ==
  ASSUME KernelInv, NEW m \in Managers, NEW f \in Apps, Clear(m, f) \/ Answer(m, f)
  PROVE  Readies(m, f)
<1>1. CASE Clear(m, f)
  <2>1. /\ mgr[m].cur = f /\ fib[f].pc = "clear" /\ fib[f].pc \in Targets
        /\ UNCHANGED <<mgr, from, lock_using, waitq, detach_state>> /\ Return(f)
        /\ join_info[Arg(f)] # Null /\ Readied(m, f, Arg(f), "run")
    BY <1>1, ZenonT(30) DEF Clear, At, Targets, Calling
  <2>2. Place(f) = "clear"
    BY <2>1, ZenonT(30) DEF Place, Calling
  <2>3. Arg(f) \in Apps
    BY <2>2, ZenonT(30) DEF KernelInv, CallsInv, CallOK, Arg
  <2>. QED
    BY <2>1, <2>3, JoinReturnsOnly, ZenonT(30) DEF Readies
<1>2. CASE Answer(m, f)
  <2>1. /\ mgr[m].cur = f /\ fib[f].pc \in Targets
        /\ UNCHANGED <<mgr, from, lock_using, waitq, detach_state, todo>>
        /\ join_info[f] # Null /\ Readied(m, f, f, "done")
    BY <1>2, ZenonT(30) DEF Answer, At, Targets, Calling
  <2>. QED
    BY <2>1, JoinUnchanged, ZenonT(30) DEF Readies
<1>. QED
  BY <1>1, <1>2, ZenonT(30)

(* Every step of join, tryjoin, detach and the end of a fiber is of one of *)
(* four kinds.                                                             *)
LEMMA JoinKinds ==
  ASSUME KernelInv, NEW m \in Managers, JoinStep(m)
  PROVE  \E f \in Apps : OwnStep(m, f) \/ SetWaits(m, f) \/ Readies(m, f) \/ Finishes(m, f)
<1>1. CASE MainYields(m)
  BY <1>1, YieldsOwn, ManagerAssumption, ZenonT(30)
<1>2. CASE \E f \in Apps \cap {mgr[m].cur} :
              \/ JoinCheck(m, f) \/ JoinExchange(m, f) \/ JoinReturns(m, f)
              \/ TryJoinCheck(m, f) \/ TryJoinExchange(m, f) \/ Detach(m, f)
              \/ Clear(m, f) \/ ClearWaits(m, f) \/ Yield(m, f) \/ Finish(m, f)
              \/ FinishExchange(m, f) \/ Answer(m, f) \/ AnswerWaits(m, f) \/ Done(m, f)
  BY ZenonT(30), <1>2, CheckOwn, JoinExchangeKind, DetachOwn, ReadiesKind, YieldsOwn, FinishOwn,
     FinishExchangeKind DEF Finishes
<1>. QED
  BY <1>1, <1>2, ZenonT(30) DEF JoinStep

(* A waker that finds nothing to pop tries again.                          *)
LEMMA WakeNoneOwn ==
  ASSUME KernelInv, NEW m \in Managers, NEW f \in Apps, WakeNone(m, f), UNCHANGED jvars
  PROVE  OwnStep(m, f)
<1>1. mgr[m].cur = f /\ fib[f].pc \in Targets /\ OnlyFib /\ JoinSame(f)
  BY JoinUnchanged, ZenonT(30) DEF WakeNone, At, OnlyFib, Targets, Calling, jvars
<1>2. /\ "wake" \in Targets /\ "woke" \in Targets
      /\ "wake" \notin {"join", "joined", "tryjoin", "clear"}
      /\ "woke" \notin {"join", "joined", "tryjoin", "clear"}
  BY ZenonT(30) DEF Targets, Calling
<1>3. fib' = CallYield(f, "wake") \/ Goes(f, "woke")
  BY ZenonT(30) DEF WakeNone, Goes
<1>. QED
  BY <1>1, <1>2, <1>3, GoesOwn, YieldOwn, ZenonT(30)

-----------------------------------------------------------------------------
(* The steps of the runtime that leave the fiber in its thread.            *)

(* Only what f itself keeps of fiber_manager_yield changes.                *)
Works(f, p, r) ==
  /\ fib' \in [Fibers -> FiberRecord]
  /\ \A g \in Fibers : g # f => fib'[g] = fib[g]
  /\ fib'[f].state = fib[f].state /\ fib'[f].node = fib[f].node
  /\ fib'[f].next = fib[f].next /\ fib'[f].after = fib[f].after
  /\ fib'[f].pc = p /\ fib'[f].ret = r

(* The work of the scheduler on behalf of a fiber keeps the invariant.     *)
LEMMA WorksStays ==
  ASSUME KernelInv, NEW m \in Managers, NEW f \in Fibers, mgr[m].cur = f, fib[f].pc # "maint",
         QueuesSame, FromOK, UNCHANGED <<mgr, join_info, lock_using, jvars>>,
         NEW p, NEW r, Works(f, p, r), p # "maint", RecordOK(f, fib'[f]),
         f \in Apps => CallOK(f)',
         f \in Apps /\ fib[f].state # "RUNNING" => p \in Leaving
  PROVE  KernelInv'
<1>1. OthersSame(f)
  BY Types, ZenonT(30) DEF OthersSame, Works, FromOK, jvars
<1>2. Stays(m, f)
  BY <1>1, ZenonT(30) DEF Stays, Works
<1>. QED
  BY <1>2, StaysKeeps, ZenonT(30)

(* The place is in fiber_manager_yield, before and after.                  *)
LEMMA WithinYield ==
  ASSUME KernelInv, NEW f \in Apps, RecordOK(f, fib[f]), UNCHANGED todo, fib[f].pc \in Yielding,
         fib'[f].ret = fib[f].ret, fib'[f].after = fib[f].after, fib'[f].pc \in Yielding
  PROVE  CallOK(f)'
<1>1. Place(f)' = Place(f)
  BY ZenonT(30) DEF Place, Yielding, Calling
<1>. QED
  BY <1>1, SamePlace, ZenonT(30)

(* The fields of a fiber that has read the state of another.               *)
LEMMA SeenUpdate ==
  ASSUME fib \in [Fibers -> FiberRecord], NEW f \in Fibers, NEW p \in PcSet, NEW t \in States,
         fib' = [fib EXCEPT ![f].pc = p, ![f].seen = t]
  PROVE  Works(f, p, fib[f].ret) /\ fib'[f].seen = t
  BY ZenonT(30) DEF FiberRecord, Works

(* fiber_scheduler_next exchanging its queues keeps the invariant.         *)
LEMMA NextSwapKeeps ==
  ASSUME KernelInv, NEW m \in Managers, NEW f \in Fibers, NextSwap(m, f), UNCHANGED jvars
  PROVE  KernelInv'
<1>1. /\ mgr[m].cur = f /\ fib[f].pc = "next" /\ from' = Swapped(m)
      /\ fib' = [fib EXCEPT ![f].pc = "pop", ![f].seen = fib[f].state]
      /\ UNCHANGED <<mgr, runq, lock_using, waitq, join_info>>
  BY ZenonT(30) DEF NextSwap, At
<1>2. Works(f, "pop", fib[f].ret) /\ fib'[f].seen = fib'[f].state
  <2>. DEFINE t == fib[f].state
  <2>1. t \in States
    BY FibTypes, ZenonT(30) DEF FiberRecord
  <2>2. "pop" \in PcSet /\ fib \in [Fibers -> FiberRecord]
    BY FibTypes, Names, ZenonT(30)
  <2>3. fib' = [fib EXCEPT ![f].pc = "pop", ![f].seen = t]
    BY <1>1, ZenonT(30)
  <2>. HIDE DEF t
  <2>4. Works(f, "pop", fib[f].ret) /\ fib'[f].seen = t
    BY <2>1, <2>2, <2>3, SeenUpdate, Zenon
  <2>. QED
    BY <2>4, ZenonT(30) DEF Works, t
<1>3. RecordOK(f, fib[f]) /\ f \in Apps
  BY <1>1, Executes, ZenonT(30) DEF Yielding
<1>4. RecordOK(f, fib'[f]) /\ CallOK(f)'
  <2>1. RecordOK(f, fib'[f])
    BY <1>1, <1>2, <1>3, ManagerAssumption, ZenonT(30) DEF RecordOK, Works, Yielding, Targets, Calling, Threading, Fibers
  <2>. QED
    BY <1>1, <1>2, <1>3, <2>1, WithinYield, ZenonT(30) DEF Works, Yielding, jvars
<1>5. QueuesSame /\ FromOK
  BY <1>1, SameQueues, SwapKeeps, Zenon DEF FromOK
<1>. QED
  BY <1>1, <1>2, <1>3, <1>4, <1>5, WorksStays, Zenon DEF Leaving

(* fiber_scheduler_next putting back a fiber that is still being saved     *)
(* keeps the invariant.                                                    *)
LEMMA NextSkipKeeps ==
  ASSUME KernelInv, NEW m \in Managers, NEW f \in Fibers, NextSkip(m, f), UNCHANGED jvars
  PROVE  KernelInv'
<1>1. /\ mgr[m].cur = f /\ fib[f].pc \in {"pop", "tfpop"} /\ runq[from[m]] # <<>>
      /\ runq' = PutAside(m) /\ UNCHANGED <<fib, mgr, from, lock_using, waitq, join_info>>
  BY ZenonT(30) DEF NextSkip, Popping
<1>2. Works(f, fib[f].pc, fib[f].ret)
  BY <1>1, FibTypes, ZenonT(30) DEF Works
<1>3. RecordOK(f, fib[f])
  BY <1>1, Executes, ZenonT(30)
<1>4. QueuesSame
  <2>1. RunqTypes' /\ RunqInv' /\ Queued' = Queued
    BY <1>1, Types, PutAsideMoves, ZenonT(30)
  <2>2. WaitqTypes' /\ WaitqInv' /\ Waiters' = Waiters
    BY <1>1, Types, ZenonT(30) DEF WaitqTypes, WaitqInv, Waiters
  <2>. QED
    BY <2>1, <2>2, ZenonT(30) DEF QueuesSame, QueuesInv
<1>5. f \in Apps => CallOK(f)' /\ fib[f].pc = "pop"
  <2>1. Place(f)' = Place(f)
    BY <1>1, ZenonT(30) DEF Place
  <2>. QED
    BY <1>1, <1>3, <2>1, SamePlace, ZenonT(30) DEF jvars, RecordOK, Threading
<1>. QED
  BY <1>1, <1>2, <1>3, <1>4, <1>5, WorksStays, FromSame, ZenonT(30) DEF Leaving

(* fiber_scheduler_next finding nothing keeps the invariant.               *)
LEMMA NextNoneKeeps ==
  ASSUME KernelInv, NEW m \in Managers, NEW f \in Fibers, NextNone(m, f), UNCHANGED jvars
  PROVE  KernelInv'
<1>. DEFINE p == IF fib[f].pc = "tfpop" THEN "tf"
                 ELSE IF fib[f].seen \in Blocked THEN "tomaint" ELSE "trysteal"
<1>1. /\ mgr[m].cur = f /\ fib[f].pc \in {"pop", "tfpop"} /\ fib' = [fib EXCEPT ![f].pc = p]
      /\ UNCHANGED <<mgr, runq, from, lock_using, waitq, join_info>>
  BY FibTypes, ZenonT(30) DEF NextNone, Popping
<1>2. /\ p \in PcSet
      /\ fib[f].pc = "tfpop" => p = "tf"
      /\ fib[f].pc = "pop" /\ fib[f].seen \in Blocked => p = "tomaint"
      /\ fib[f].pc = "pop" /\ fib[f].seen \notin Blocked => p = "trysteal"
  BY Names, ZenonT(30)
<1>. HIDE DEF p
<1>3. Works(f, p, fib[f].ret)
  BY <1>1, <1>2, FibTypes, PcUpdate, ZenonT(30) DEF Works, Moved
<1>4. /\ RecordOK(f, fib[f])
      /\ f \in Apps => fib[f].pc = "pop" /\ fib[f].state \in {"RUNNING", "WAITING", "SAVING", "DONE"}
      /\ fib[f].pc = "pop" => f \in Apps
  BY <1>1, Executes, ZenonT(30) DEF RecordOK, Threading, Yielding
<1>5. fib'[f].seen = fib[f].seen
  BY <1>1, <1>2, FibTypes, PcUpdate, ZenonT(30) DEF Moved
<1>6. RecordOK(f, fib'[f])
  <2>1. CASE fib[f].pc = "tfpop"
    BY <1>2, <1>3, <1>4, <2>1, ManagerAssumption, ZenonT(30)
    DEF RecordOK, Works, Yielding, Targets, Calling, Threading, Fibers
  <2>2. CASE fib[f].pc = "pop" /\ fib[f].seen \in Blocked
    BY <1>2, <1>3, <1>4, <1>5, <2>2, ZenonT(30) DEF RecordOK, Works, Yielding, Targets, Calling, Threading
  <2>3. CASE fib[f].pc = "pop" /\ fib[f].seen \notin Blocked
    BY <1>2, <1>3, <1>4, <1>5, <2>3, ZenonT(30) DEF RecordOK, Works, Yielding, Targets, Calling, Threading
  <2>. QED
    BY <1>1, <2>1, <2>2, <2>3, ZenonT(30)
<1>7. f \in Apps => CallOK(f)' /\ (fib[f].state # "RUNNING" => p \in Leaving)
  <2>. SUFFICES ASSUME f \in Apps PROVE CallOK(f)' /\ (fib[f].state # "RUNNING" => p \in Leaving)
    BY Zenon
  <2>1. fib[f].pc = "pop" /\ p \in {"tomaint", "trysteal"} /\ fib[f].pc \in Yielding /\ p \in Yielding
    BY <1>2, <1>4, ZenonT(30) DEF Yielding
  <2>2. CallOK(f)'
    BY <1>3, <1>4, <2>1, WithinYield, ZenonT(30) DEF Works, jvars
  <2>3. fib[f].seen = fib[f].state
    BY <1>4, <2>1, ZenonT(30) DEF RecordOK
  <2>4. fib[f].state # "RUNNING" => p \in Leaving
    BY <1>2, <1>4, <2>1, <2>3, ZenonT(30) DEF Blocked, Leaving
  <2>. QED
    BY <2>2, <2>4, Zenon
<1>. QED
  BY <1>1, <1>2, <1>3, <1>6, <1>7, WorksStays, FromSame, SameQueues, ZenonT(30)

(* The places of fiber_manager_yield while it has a fiber to switch to.    *)
Gating == {"rdlock", "gate", "wrlock", "switch", "crash"}

(* A step from one of them to another keeps the invariant.                 *)
LEMMA GateKeeps ==
  ASSUME KernelInv, NEW m \in Managers, NEW f \in Fibers, NEW p \in Gating, Alone => p # "crash",
         UNCHANGED jvars,
         mgr[m].cur = f, fib[f].pc \in {"rdlock", "gate", "wrlock"}, fib' = [fib EXCEPT ![f].pc = p],
         UNCHANGED <<mgr, runq, from, lock_using, waitq, join_info>>
  PROVE  KernelInv'
<1>1. /\ p \in PcSet /\ p \in Yielding /\ p \in Leaving /\ fib[f].pc \in Yielding
      /\ p # "maint" /\ fib[f].pc # "maint"
  BY ZenonT(30) DEF PcSet, Gating, Yielding, Leaving
<1>2. Works(f, p, fib[f].ret)
  BY <1>1, FibTypes, PcUpdate, ZenonT(30) DEF Works, Moved
<1>3. RecordOK(f, fib[f]) /\ f \in Apps
  BY <1>1, Executes, Zenon
<1>4. RecordOK(f, fib'[f])
  <2>1. /\ p \notin Threading \cup {"maint", "wait", "waitlink", "pop"} /\ p \notin Targets
        /\ p \in {"rdlock", "gate", "wrlock", "switch", "crash", "tfswitch"}
    BY ZenonT(30) DEF Gating, Threading, Targets, Calling
  <2>2. fib[f].ret \in Targets \cup {"abort"} /\ fib[f].next # Null /\ fib[f].after = "none"
    BY <1>1, <1>3, ZenonT(30) DEF RecordOK, Yielding
  <2>3. f \notin Managers
    BY <1>3, ManagerAssumption, ZenonT(30)
  <2>. QED
    BY <1>1, <1>2, <1>3, <2>1, <2>2, <2>3, ZenonT(30) DEF RecordOK, Works
<1>5. CallOK(f)'
  BY <1>1, <1>2, <1>3, WithinYield, ZenonT(30) DEF Works, jvars
<1>. QED
  BY <1>1, <1>2, <1>3, <1>4, <1>5, WorksStays, FromSame, SameQueues, ZenonT(30)

(* Taking the lock of the gate keeps the invariant.                        *)
LEMMA GateEnterKeeps ==
  ASSUME KernelInv, NEW m \in Managers, NEW f \in Fibers, GateEnter(m, f), UNCHANGED jvars
  PROVE  KernelInv'
<1>. DEFINE p == IF fib[f].pc = "rdlock" THEN "gate" ELSE "switch"
<1>1. /\ mgr[m].cur = f /\ fib[f].pc \in {"rdlock", "gate", "wrlock"}
      /\ fib' = [fib EXCEPT ![f].pc = p]
      /\ UNCHANGED <<mgr, runq, from, lock_using, waitq, join_info>>
  BY FibTypes, ZenonT(30) DEF GateEnter, AtGate, At
<1>2. p \in Gating /\ p # "crash"
  BY ZenonT(30) DEF Gating
<1>. HIDE DEF p
<1>. QED
  BY <1>1, <1>2, GateKeeps, Zenon

(* Having to wait for the lock of the gate keeps it as well.               *)
LEMMA GateBlocksKeeps ==
  ASSUME KernelInv, NEW m \in Managers, NEW f \in Fibers, GateBlocks(m, f), UNCHANGED jvars
  PROVE  KernelInv'
<1>1. /\ mgr[m].cur = f /\ fib[f].pc \in {"rdlock", "gate", "wrlock"}
      /\ fib' = [fib EXCEPT ![f].pc = "crash"]
      /\ UNCHANGED <<mgr, runq, from, lock_using, waitq, join_info>>
  BY ZenonT(30) DEF GateBlocks, AtGate, At
<1>2. "crash" \in Gating
  BY ZenonT(30) DEF Gating
<1>3. ~Alone
  <2>. SUFFICES ASSUME NumThreads = 1 PROVE FALSE
    BY Zenon DEF Alone
  <2>1. PICK g \in Fibers : fib[g].pc \in {"gate", "switch"}
    BY ZenonT(30) DEF GateBlocks, GateFree, GateReaders, GateWriters
  <2>2. PICK n \in Managers : mgr[n].cur = g
    BY <2>1, ZenonT(30) DEF KernelInv, ThreadsInv
  <2>3. n = m
    BY ManagerAssumption, SMTT(30) DEF Managers
  <2>. QED
    BY <1>1, <2>1, <2>2, <2>3, ZenonT(30) DEF GateBlocks, AtGate, At
<1>. QED
  BY <1>1, <1>2, <1>3, GateKeeps, Zenon

(* The test of the lock status that lets the fiber it found run keeps the  *)
(* invariant.                                                              *)
LEMMA GatePassKeeps ==
  ASSUME KernelInv, NEW m \in Managers, NEW f \in Fibers, GatePass(m, f), UNCHANGED jvars
  PROVE  KernelInv'
<1>1. /\ mgr[m].cur = f /\ fib[f].pc \in {"rdlock", "gate", "wrlock"}
      /\ fib' = [fib EXCEPT ![f].pc = "wrlock"]
      /\ UNCHANGED <<mgr, runq, from, lock_using, waitq, join_info>>
  BY ZenonT(30) DEF GatePass, At
<1>2. "wrlock" \in Gating /\ "wrlock" # "crash"
  BY ZenonT(30) DEF Gating
<1>. QED
  BY <1>1, <1>2, GateKeeps, Zenon

(* The fields of a fiber that returns with what it has read.               *)
LEMMA SeenRetUpdate ==
  ASSUME fib \in [Fibers -> FiberRecord], NEW f \in Fibers, NEW p \in PcSet, NEW r \in RetSet,
         NEW t \in States, fib' = [fib EXCEPT ![f].pc = p, ![f].ret = r, ![f].seen = t]
  PROVE  Works(f, p, r)
<1>. DEFINE fib1 == [fib EXCEPT ![f].seen = t]
<1>1. /\ fib1 \in [Fibers -> FiberRecord]
      /\ \A g \in Fibers : g # f => fib1[g] = fib[g]
      /\ fib1[f].state = fib[f].state /\ fib1[f].node = fib[f].node
      /\ fib1[f].next = fib[f].next /\ fib1[f].after = fib[f].after
      /\ fib1[f].ret = fib[f].ret
  BY SMTT(30) DEF FiberRecord
<1>2. fib' = [fib1 EXCEPT ![f].pc = p, ![f].ret = r]
  BY ZenonT(30)
<1>. HIDE DEF fib1
<1>3. fib' \in [Fibers -> FiberRecord]
  <2>1. fib1 \in [Fibers -> FiberRecord]
    BY <1>1, Zenon
  <2>. QED
    BY ONLY <2>1, <1>2, f \in Fibers, p \in PcSet, r \in RetSet, ZenonT(30) DEF FiberRecord
<1>4. /\ \A g \in Fibers : g # f => fib'[g] = fib1[g]
      /\ fib'[f] = [fib1[f] EXCEPT !.pc = p, !.ret = r] /\ fib1[f] \in FiberRecord
  BY <1>1, <1>2, ZenonT(30)
<1>5. /\ fib'[f].state = fib1[f].state /\ fib'[f].node = fib1[f].node
      /\ fib'[f].next = fib1[f].next /\ fib'[f].after = fib1[f].after
      /\ fib'[f].pc = p /\ fib'[f].ret = r
  BY ONLY <1>4, ZenonT(30) DEF FiberRecord
<1>. QED
  BY <1>1, <1>3, <1>4, <1>5, ZenonT(30) DEF Works

(* The fields of a fiber that starts fiber_load_balance.                   *)
LEMMA BalanceUpdate ==
  ASSUME fib \in [Fibers -> FiberRecord], NEW f \in Fibers, NEW p \in PcSet, NEW r \in RetSet,
         0 \in 0 .. Visits,
         fib' = [fib EXCEPT ![f].i = 0, ![f].local = 0, ![f].ret = r, ![f].pc = p]
  PROVE  Works(f, p, r)
<1>. DEFINE fib1 == [fib EXCEPT ![f].i = 0, ![f].local = 0]
<1>1. /\ fib1 \in [Fibers -> FiberRecord]
      /\ \A g \in Fibers : g # f => fib1[g] = fib[g]
      /\ fib1[f].state = fib[f].state /\ fib1[f].node = fib[f].node
      /\ fib1[f].next = fib[f].next /\ fib1[f].after = fib[f].after
      /\ fib1[f].ret = fib[f].ret
  BY ZenonT(30) DEF FiberRecord
<1>2. fib' = [fib1 EXCEPT ![f].ret = r, ![f].pc = p]
  BY Zenon
<1>. HIDE DEF fib1
<1>3. fib' \in [Fibers -> FiberRecord]
  <2>1. fib1 \in [Fibers -> FiberRecord]
    BY <1>1, Zenon
  <2>. QED
    BY ONLY <2>1, <1>2, f \in Fibers, p \in PcSet, r \in RetSet, ZenonT(30) DEF FiberRecord
<1>4. /\ \A g \in Fibers : g # f => fib'[g] = fib1[g]
      /\ fib'[f] = [fib1[f] EXCEPT !.ret = r, !.pc = p] /\ fib1[f] \in FiberRecord
  BY <1>1, <1>2, ZenonT(30)
<1>5. /\ fib'[f].state = fib1[f].state /\ fib'[f].node = fib1[f].node
      /\ fib'[f].next = fib1[f].next /\ fib'[f].after = fib1[f].after
      /\ fib'[f].pc = p /\ fib'[f].ret = r
  BY ONLY <1>4, ZenonT(30) DEF FiberRecord
<1>. QED
  BY <1>1, <1>3, <1>4, <1>5, ZenonT(30) DEF Works

(* The fields of a maintenance fiber that starts its loop again.           *)
LEMMA ThreadUpdate ==
  ASSUME fib \in [Fibers -> FiberRecord], NEW f \in Fibers, NEW p \in PcSet, 0 \in 0 .. Visits,
         fib' = [fib EXCEPT ![f].i = 0, ![f].local = 0, ![f].pc = p]
  PROVE  Works(f, p, fib[f].ret)
<1>. DEFINE fib1 == [fib EXCEPT ![f].i = 0, ![f].local = 0]
<1>1. /\ fib1 \in [Fibers -> FiberRecord]
      /\ \A g \in Fibers : g # f => fib1[g] = fib[g]
      /\ fib1[f].state = fib[f].state /\ fib1[f].node = fib[f].node
      /\ fib1[f].next = fib[f].next /\ fib1[f].after = fib[f].after
      /\ fib1[f].ret = fib[f].ret
  BY ZenonT(30) DEF FiberRecord
<1>2. fib' = [fib1 EXCEPT ![f].pc = p]
  BY Zenon
<1>. HIDE DEF fib1
<1>3. fib' \in [Fibers -> FiberRecord]
  BY ONLY <1>1, <1>2, f \in Fibers, p \in PcSet, SMTT(30) DEF FiberRecord
<1>4. /\ \A g \in Fibers : g # f => fib'[g] = fib1[g]
      /\ fib'[f] = [fib1[f] EXCEPT !.pc = p] /\ fib1[f] \in FiberRecord
  BY <1>1, <1>2, ZenonT(30)
<1>5. /\ fib'[f].state = fib1[f].state /\ fib'[f].node = fib1[f].node
      /\ fib'[f].next = fib1[f].next /\ fib'[f].after = fib1[f].after
      /\ fib'[f].pc = p /\ fib'[f].ret = fib1[f].ret
  BY ONLY <1>4, ZenonT(30) DEF FiberRecord
<1>. QED
  BY <1>1, <1>3, <1>4, <1>5, ZenonT(30) DEF Works

(* The fields of a fiber that has visited one queue in fiber_load_balance. *)
LEMMA VisitUpdate ==
  ASSUME fib \in [Fibers -> FiberRecord], NEW f \in Fibers, NEW n \in 0 .. Visits, NEW k \in Nat,
         fib' = [fib EXCEPT ![f].i = n, ![f].local = k]
  PROVE  Works(f, fib[f].pc, fib[f].ret) /\ fib'[f].seen = fib[f].seen
  BY ZenonT(30) DEF FiberRecord, Works

(* A fiber that is back from the yield goes on in its own code.            *)
LEMMA YieldReturns ==
  ASSUME KernelInv, NEW m \in Managers, NEW f \in Fibers, mgr[m].cur = f,
         fib[f].pc \in {"trysteal", "balance"}, Works(f, fib[f].ret, "none"),
         UNCHANGED <<mgr, runq, from, lock_using, waitq, join_info, jvars>>
  PROVE  KernelInv'
<1>1. RecordOK(f, fib[f]) /\ f \in Apps /\ fib[f].state = "RUNNING"
  BY Executes, ZenonT(30) DEF Yielding, Leaving
<1>2. fib[f].ret \in Targets /\ fib[f].ret # "maint"
  BY <1>1, ZenonT(30) DEF RecordOK, Yielding, Targets, Calling
<1>3. RecordOK(f, fib'[f])
  BY <1>1, <1>2, ManagerAssumption, ZenonT(30) DEF RecordOK, Works, Yielding, Targets, Calling, Threading, Fibers
<1>4. CallOK(f)'
  <2>1. Place(f)' = Place(f)
    BY <1>2, ZenonT(30) DEF Place, Works, Targets, Calling
  <2>. QED
    BY <1>1, <2>1, SamePlace, ZenonT(30) DEF jvars
<1>. QED
  BY <1>1, <1>2, <1>3, <1>4, WorksStays, FromSame, SameQueues, Zenon

(* fiber_manager_yield returning without a switch keeps the invariant.     *)
LEMMA TryStealReturnKeeps ==
  ASSUME KernelInv, NEW m \in Managers, NEW f \in Fibers, TryStealReturn(m, f), UNCHANGED jvars
  PROVE  KernelInv'
<1>1. /\ mgr[m].cur = f /\ fib[f].pc = "trysteal"
      /\ fib' = [fib EXCEPT ![f].pc = fib[f].ret, ![f].ret = "none", ![f].seen = "none"]
      /\ UNCHANGED <<mgr, runq, from, lock_using, waitq, join_info>>
  BY ZenonT(30) DEF TryStealReturn, At
<1>2. fib[f].ret \in PcSet
  <2>1. RecordOK(f, fib[f]) /\ f \in Apps /\ fib[f].state = "RUNNING"
    BY <1>1, Executes, ZenonT(30) DEF Yielding, Leaving
  <2>. QED
    BY <1>1, <2>1, Names, ZenonT(30) DEF RecordOK, Yielding, Targets
<1>3. Works(f, fib[f].ret, "none")
  BY <1>1, <1>2, FibTypes, Names, SeenRetUpdate, Zenon
<1>. QED
  BY <1>1, <1>3, YieldReturns, Zenon

(* fiber_load_balance returning keeps the invariant.                       *)
LEMMA BalanceReturnKeeps ==
  ASSUME KernelInv, NEW m \in Managers, NEW f \in Fibers, BalanceReturn(m, f), UNCHANGED jvars
  PROVE  KernelInv'
<1>1. /\ mgr[m].cur = f /\ fib[f].pc = "balance"
      /\ fib' = [fib EXCEPT ![f].i = 0, ![f].local = 0, ![f].ret = "none", ![f].pc = fib[f].ret]
      /\ UNCHANGED <<mgr, runq, from, lock_using, waitq, join_info>>
  BY ZenonT(30) DEF BalanceReturn, At
<1>2. fib[f].ret \in PcSet /\ 0 \in 0 .. Visits
  <2>1. RecordOK(f, fib[f]) /\ f \in Apps /\ fib[f].state = "RUNNING"
    BY <1>1, Executes, ZenonT(30) DEF Yielding, Leaving
  <2>2. 0 \in 0 .. Visits
    BY ManagerAssumption, SMTT(30) DEF Visits
  <2>. QED
    BY <1>1, <2>1, <2>2, Names, ZenonT(30) DEF RecordOK, Yielding, Targets
<1>3. Works(f, fib[f].ret, "none")
  BY <1>1, <1>2, FibTypes, Names, BalanceUpdate, Zenon
<1>. QED
  BY <1>1, <1>3, YieldReturns, ZenonT(30)

(* Starting fiber_load_balance keeps the invariant.                        *)
LEMMA TryStealBalanceKeeps ==
  ASSUME KernelInv, NEW m \in Managers, NEW f \in Fibers, TryStealBalance(m, f), UNCHANGED jvars
  PROVE  KernelInv'
<1>1. /\ mgr[m].cur = f /\ fib[f].pc = "trysteal"
      /\ fib' = [fib EXCEPT ![f].pc = "balance", ![f].seen = "none"]
      /\ UNCHANGED <<mgr, runq, from, lock_using, waitq, join_info>>
  BY ZenonT(30) DEF TryStealBalance, At
<1>2. Works(f, "balance", fib[f].ret)
  BY <1>1, FibTypes, Names, SeenUpdate, Zenon
<1>3. RecordOK(f, fib[f]) /\ f \in Apps /\ fib[f].state = "RUNNING"
  BY <1>1, Executes, ZenonT(30) DEF Yielding, Leaving
<1>4. RecordOK(f, fib'[f])
  BY <1>1, <1>2, <1>3, ManagerAssumption, ZenonT(30) DEF RecordOK, Works, Yielding, Targets, Calling, Threading, Fibers
<1>5. CallOK(f)'
  BY <1>1, <1>2, <1>3, WithinYield, ZenonT(30) DEF Works, Yielding, jvars
<1>. QED
  BY <1>1, <1>2, <1>3, <1>4, <1>5, WorksStays, FromSame, SameQueues, ZenonT(30)

(* The loop of fiber_manager_thread_func asking for a fiber keeps the      *)
(* invariant.                                                              *)
LEMMA ThreadFuncNextKeeps ==
  ASSUME KernelInv, NEW m \in Managers, ThreadFuncNext(m), UNCHANGED jvars
  PROVE  KernelInv'
<1>1. /\ mgr[m].cur = m /\ fib[m].pc = "tf" /\ from' = Swapped(m)
      /\ fib' = [fib EXCEPT ![m].i = 0, ![m].local = 0, ![m].pc = "tfpop"]
      /\ UNCHANGED <<mgr, runq, lock_using, waitq, join_info>>
  BY ZenonT(30) DEF ThreadFuncNext, At
<1>2. m \in Fibers /\ 0 \in 0 .. Visits /\ m \notin Apps
  BY ManagerAssumption, SMTT(30) DEF Visits, Fibers
<1>3. Works(m, "tfpop", fib[m].ret)
  BY <1>1, <1>2, FibTypes, Names, ThreadUpdate, Zenon
<1>4. RecordOK(m, fib[m])
  BY <1>1, <1>2, Executes, ZenonT(30)
<1>5. RecordOK(m, fib'[m])
  BY <1>1, <1>2, <1>3, <1>4, ZenonT(30) DEF RecordOK, Works, Yielding, Targets, Calling, Threading
<1>6. QueuesSame /\ FromOK
  BY <1>1, SameQueues, SwapKeeps, ZenonT(30) DEF FromOK
<1>. QED
  BY <1>1, <1>2, <1>3, <1>5, <1>6, WorksStays, ZenonT(30)

(* Half of what one queue has more than another is not more than it has.   *)
LEMMA Half ==
  ASSUME NEW a \in Nat, NEW b \in Nat, a - b > 0
  PROVE  ((a - b) + 1) \div 2 \in 0 .. a
<1>. DEFINE d == a - b
<1>1. d \in Nat \ {0} /\ d <= a
  BY SMTT(30)
<1>. HIDE DEF d
<1>2. (d + 1) \div 2 \in Nat /\ (d + 1) \div 2 <= d
  BY <1>1, SMTT(30)
<1>. QED
  BY <1>1, <1>2, SMTT(30) DEF d

(* fiber_load_balance stealing from one queue keeps the invariant.         *)
LEMMA BalanceVisitKeeps ==
  ASSUME KernelInv, NEW m \in Managers, NEW f \in Fibers, BalanceVisit(m, f), UNCHANGED jvars
  PROVE  KernelInv'
<1>. DEFINE q == (2 * (m + 1) + fib[f].i) % (2 * NumThreads)
            local_count == IF fib[f].i = 0 THEN Len(runq[from[m]]) ELSE fib[f].local
            surplus == Len(runq[q]) - local_count
            k == IF surplus > 0 THEN (surplus + 1) \div 2 ELSE 0
<1>1. /\ mgr[m].cur = f /\ fib[f].pc \in {"balance", "tf"} /\ fib[f].i < Visits
      /\ runq' = [runq EXCEPT ![q] = SubSeq(@, k + 1, Len(@)),
                              ![from[m]] = @ \o SubSeq(runq[q], 1, k)]
      /\ fib' = [fib EXCEPT ![f].i = @ + 1, ![f].local = local_count + k]
      /\ UNCHANGED <<mgr, from, lock_using, waitq, join_info>>
  BY Zenon DEF BalanceVisit
<1>2. fib[f].i \in 0 .. Visits /\ fib[f].local \in Nat /\ Visits \in Nat
  BY FibTypes, ManagerAssumption, SMTT(30) DEF FiberRecord, Visits
<1>3. q \in 0 .. 2 * NumThreads - 1 /\ q \notin {2 * m, 2 * m + 1}
  BY <1>1, <1>2, VisitsOthers, ZenonT(30)
<1>4. from[m] \in {2 * m, 2 * m + 1} /\ from[m] \in 0 .. 2 * NumThreads - 1
  <2>1. from[m] \in {2 * m, 2 * m + 1}
    BY Types, Zenon
  <2>2. NumThreads \in Nat /\ m \in 0 .. NumThreads - 1
    BY ManagerAssumption, Zenon DEF Managers
  <2>. QED
    BY ONLY <2>1, <2>2, SMTT(30)
<1>. HIDE DEF q
<1>5. q \in DOMAIN runq /\ from[m] \in DOMAIN runq /\ q # from[m]
  BY <1>3, <1>4, Types, Zenon DEF RunqTypes
<1>6. Len(runq[q]) \in Nat /\ local_count \in Nat
  BY <1>2, <1>5, Types, SMTT(30) DEF RunqTypes
<1>. HIDE DEF local_count
<1>7. k \in 0 .. Len(runq[q]) /\ local_count + k \in Nat
  <2>. DEFINE a == Len(runq[q])
  <2>. HIDE DEF a
  <2>1. a \in Nat /\ local_count \in Nat /\ surplus = a - local_count
    BY <1>6, ZenonT(30) DEF a
  <2>. HIDE DEF surplus
  <2>2. k \in 0 .. a
    BY <2>1, Half, SMTT(30)
  <2>. HIDE DEF k
  <2>3. local_count + k \in Nat
    BY <2>1, <2>2, SMTT(30)
  <2>. QED
    BY <2>2, <2>3, Zenon DEF a
<1>. HIDE DEF k
<1>8. QueuesSame
  <2>1. RunqTypes' /\ RunqInv' /\ Queued' = Queued
    BY <1>1, <1>5, <1>7, Types, StealMoves, ZenonT(30)
  <2>2. WaitqTypes' /\ WaitqInv' /\ Waiters' = Waiters
    BY <1>1, Types, ZenonT(30) DEF WaitqTypes, WaitqInv, Waiters
  <2>. QED
    BY <2>1, <2>2, ZenonT(30) DEF QueuesSame, QueuesInv
<1>9. Works(f, fib[f].pc, fib[f].ret) /\ fib'[f].seen = fib[f].seen
  <2>1. fib[f].i + 1 \in 0 .. Visits
    BY <1>1, <1>2, SMTT(30)
  <2>2. fib' = [fib EXCEPT ![f].i = fib[f].i + 1, ![f].local = local_count + k]
    BY <1>1, ZenonT(30)
  <2>. QED
    BY <1>7, <2>1, <2>2, FibTypes, VisitUpdate, Zenon
<1>10. RecordOK(f, fib[f]) /\ (f \in Apps => fib[f].state = "RUNNING")
  BY <1>1, Executes, ZenonT(30) DEF Leaving
<1>11. RecordOK(f, fib'[f])
  BY <1>9, <1>10, ZenonT(30) DEF RecordOK, Works
<1>12. f \in Apps => CallOK(f)'
  <2>1. Place(f)' = Place(f)
    BY <1>9, ZenonT(30) DEF Place, Works
  <2>. QED
    BY <2>1, SamePlace, Zenon DEF jvars
<1>. QED
  BY <1>1, <1>8, <1>9, <1>10, <1>11, <1>12, WorksStays, FromSame, ZenonT(30)

(* The store that links the node of a waiter keeps the invariant.          *)
LEMMA WaitLinkKeeps ==
  ASSUME KernelInv, NEW m \in Managers, NEW f \in Apps, WaitLink(m, f), UNCHANGED jvars
  PROVE  KernelInv'
<1>1. /\ mgr[m].cur = f /\ fib[f].pc = "waitlink" /\ f \in Fibers
      /\ fib' = [fib EXCEPT ![f].pc = "next"]
      /\ UNCHANGED <<mgr, runq, from, lock_using, join_info>>
      /\ waitq' = [k \in DOMAIN waitq |->
                     IF waitq[k].fiber = f THEN [waitq[k] EXCEPT !.linked = TRUE] ELSE waitq[k]]
  BY ZenonT(30) DEF WaitLink, At, Fibers
<1>2. Works(f, "next", fib[f].ret)
  <2>1. "next" \in PcSet
    BY Names, Zenon
  <2>. QED
    BY <1>1, <2>1, FibTypes, PcUpdate, ZenonT(30) DEF Works, Moved
<1>3. RecordOK(f, fib[f])
  BY <1>1, Executes, ZenonT(30)
<1>4. RecordOK(f, fib'[f])
  <2>1. f \notin Managers
    BY ManagerAssumption, Zenon
  <2>2. /\ fib[f].ret \in {"locked", "left"} /\ fib[f].after = "none" /\ fib[f].next = Null
        /\ fib[f].state # "none"
    BY <1>1, <1>3, ZenonT(30) DEF RecordOK
  <2>. QED
    BY <1>2, <2>1, <2>2, ZenonT(30) DEF RecordOK, Works, Yielding, Targets, Calling, Threading
<1>5. CallOK(f)'
  <2>1. Place(f)' \in {"locked", "left"}
    BY <1>1, <1>2, <1>3, ZenonT(30) DEF Place, Works, RecordOK, Calling
  <2>. QED
    BY <2>1, ZenonT(30) DEF CallOK
<1>6. QueuesSame
  <2>1. WaitqTypes' /\ WaitqInv' /\ Waiters' = Waiters
    BY <1>1, Types, WaitqLink, ZenonT(30)
  <2>2. RunqTypes' /\ RunqInv' /\ Queued' = Queued
    <3>1. runq' = runq /\ RunqTypes /\ RunqInv
      BY <1>1, Types, ZenonT(30)
    <3>. QED
      BY ONLY <3>1, SMTT(30) DEF RunqTypes, RunqInv, Queued
  <2>. QED
    BY <2>1, <2>2, ZenonT(30) DEF QueuesSame, QueuesInv
<1>. QED
  BY <1>1, <1>2, <1>4, <1>5, <1>6, WorksStays, FromSame, ZenonT(30) DEF Leaving

=============================================================================
