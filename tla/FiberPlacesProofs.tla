------------------------- MODULE FiberPlacesProofs --------------------------
(***************************************************************************)
(* How the steps keep the invariant by which a fiber leaves its thread or  *)
(* comes back to one, and what the invariant means for the places where a  *)
(* fiber can be found.                                                     *)
(***************************************************************************)
EXTENDS FiberKernelProofs

(* do_maintenance: f, just resumed by thread m, publishes what became of   *)
(* o, whose context the thread has saved.                                  *)
Cleans(m, f, o) ==
  /\ mgr[m].cur = f /\ mgr[m].old = o /\ fib[f].pc = "maint"
  /\ RunqTypes' /\ WaitqTypes' /\ QueuesInv' /\ Waiters' = Waiters
  /\ FromOK /\ lock_using' \in {-1, 0, 1} /\ detach_state' = detach_state /\ todo' = todo
  /\ join_info' \in [Apps -> Apps \cup {Null}]
  /\ fib' \in [Fibers -> FiberRecord] /\ mgr' \in [Managers -> ManagerRecord]
  /\ \A n \in Managers : n # m => mgr'[n] = mgr[n]
  /\ mgr'[m].cur = f /\ mgr'[m].old = Null /\ mgr'[m].to_schedule = Null
  /\ mgr'[m].done_fiber = Null /\ mgr'[m].set_wait_location = Null
  /\ mgr'[m].set_wait_value = Null
  /\ \A h \in Fibers : h \notin {f, o} => fib'[h] = fib[h]
  /\ fib'[f].pc = fib[f].after /\ fib'[f].after = "none" /\ fib'[f].ret = fib[f].ret
  /\ fib'[f].state = fib[f].state /\ fib'[f].node = fib[f].node /\ fib'[f].next = fib[f].next
  /\ fib'[o].pc = fib[o].pc /\ fib'[o].after = fib[o].after /\ fib'[o].ret = fib[o].ret
  /\ fib'[o].node = fib[o].node /\ fib'[o].next = fib[o].next /\ fib'[o].seen = fib[o].seen

(* The four things that may have become of it.                             *)
Yielded(m, o) ==
  /\ o \in Apps /\ fib[o].state = "READY" /\ fib'[o].state = "READY"
  /\ mgr[m].to_schedule = o /\ mgr[m].done_fiber = Null /\ mgr[m].set_wait_value = Null
  /\ Queued' = Queued \cup {o} /\ join_info' = join_info

Located(m, o) ==
  /\ o \in Apps /\ fib[o].state = "WAITING" /\ fib'[o].state = "WAITING"
  /\ mgr[m].set_wait_value = o /\ mgr[m].done_fiber = Null /\ mgr[m].to_schedule = Null
  /\ Queued' = Queued
  /\ \E l \in Apps : mgr[m].set_wait_location = l /\ join_info' = [join_info EXCEPT ![l] = o]

Parked(m, o) ==
  /\ o \in Apps => fib[o].state = "SAVING" /\ fib'[o].state = "WAITING"
  /\ mgr[m].set_wait_value = Null /\ mgr[m].done_fiber = Null /\ mgr[m].to_schedule = Null
  /\ Queued' = Queued /\ join_info' = join_info

Freed(m, o) ==
  /\ o \in Apps /\ fib[o].state = "DONE" /\ fib'[o].state = "freed"
  /\ mgr[m].done_fiber = o /\ mgr[m].set_wait_value = Null /\ mgr[m].to_schedule = Null
  /\ Queued' = Queued /\ join_info' = join_info

(* fiber_manager_do_maintenance keeps the invariant, whichever of its four *)
(* tasks the switch has left to it.                                        *)
LEMMA CleansKeeps ==
  ASSUME KernelInv, NEW m \in Managers, NEW f \in Fibers, NEW o \in Fibers, Cleans(m, f, o),
         Yielded(m, o) \/ Located(m, o) \/ Parked(m, o) \/ Freed(m, o)
  PROVE  KernelInv'
<1>0. /\ Null \notin Fibers /\ Apps \cap Managers = {} /\ Fibers = Apps \cup Managers
      /\ o # Null /\ f # o
  BY ManagerAssumption, ZenonT(30) DEF Fibers, Cleans, KernelInv, ThreadsInv
<1>1. KernelTypes'
  BY ZenonT(30) DEF KernelInv, KernelTypes, RunqTypes, WaitqTypes, Cleans, FromOK
<1>2. /\ RecordOK(f, fib[f]) /\ RecordOK(o, fib[o])
      /\ f \in Apps => fib[f].state = "RUNNING"
      /\ f \in Managers => f = m
  BY Executes, SMTT(30) DEF KernelInv, RecordInv, ThreadsInv, Cleans, Leaving
<1>3. /\ f \in Apps => fib[f].after \in Targets \cup {"next"}
      /\ f \in Managers => fib[f].after = "tf"
      /\ fib'[f].pc # "maint"
  <2>1. fib[f].pc = "maint" /\ fib'[f].pc = fib[f].after
    BY ZenonT(30) DEF Cleans
  <2>2. /\ f \in Apps => fib[f].after \in Targets \cup {"next"}
        /\ f \in Managers => fib[f].after = "tf"
    BY <1>2, <2>1, ZenonT(30) DEF RecordOK
  <2>. QED
    BY <1>0, <2>1, <2>2, Zenon DEF Targets, Calling
<1>4. RecordInv'
  <2>1. RecordOK(f, fib'[f])
    BY <1>0, <1>2, <1>3, ZenonT(30) DEF RecordOK, Cleans, Yielding, Targets, Calling, Threading
  <2>2. RecordOK(o, fib'[o])
    <3>1. o \in Apps => /\ fib'[o].state # "none"
                        /\ fib[o].state \in {"DONE", "freed"} => fib'[o].state \in {"DONE", "freed"}
      BY <1>0, ZenonT(30) DEF Yielded, Located, Parked, Freed
    <3>2. o \in Managers => "abort" \notin {fib[o].ret, fib[o].after}
      BY <1>0, <1>2, ZenonT(30) DEF RecordOK
    <3>3. /\ fib'[o].pc = fib[o].pc /\ fib'[o].after = fib[o].after /\ fib'[o].ret = fib[o].ret
          /\ fib'[o].next = fib[o].next /\ fib[o].pc = "maint"
      BY ZenonT(30) DEF Cleans, KernelInv, ThreadsInv
    <3>. QED
      BY <1>0, <1>2, <3>1, <3>2, <3>3, ZenonT(30) DEF RecordOK
  <2>. QED
    BY <2>1, <2>2, ZenonT(30) DEF KernelInv, RecordInv, Cleans
<1>5. CallsInv'
  <2>1. \A h \in Apps : Place(h)' = Place(h) /\ todo'[h] = todo[h]
    <3>1. ASSUME NEW h \in Apps, h # f PROVE Place(h)' = Place(h)
      BY <1>0, <3>1, SMTT(30) DEF Place, Cleans
    <3>2. f \in Apps => Place(f)' = Place(f)
      BY <1>2, <1>3, ZenonT(30) DEF Place, Cleans, Calling, Targets, RecordOK
    <3>. QED
      BY <3>1, <3>2, ZenonT(30) DEF Cleans
  <2>. QED
    BY <2>1, Zenon DEF KernelInv, CallsInv, CallOK
<1>6. \A n \in Managers : n # m =>
        mgr[n].cur \notin {f, o} /\ mgr[n].old \notin {f, o} /\ mgr'[n] = mgr[n]
  BY <1>0, SMTT(30) DEF KernelInv, ThreadsInv, Cleans
<1>7. fib[o].pc = "maint" /\ \A h \in Fibers : h # f => fib'[h].pc = fib[h].pc
  <2>1. fib[o].pc = "maint"
    BY ZenonT(30) DEF KernelInv, ThreadsInv, Cleans
  <2>. QED
    BY <2>1, Zenon DEF Cleans
<1>8. ThreadsInv'
  <2>1. ASSUME NEW n \in Managers
        PROVE  /\ {mgr'[n].cur, mgr'[n].old} \cap Managers \subseteq {n}
               /\ mgr'[n].old # Null <=> fib'[mgr'[n].cur].pc = "maint"
    <3>1. CASE n = m
      BY <1>0, <1>2, <1>3, <3>1, SMTT(30) DEF Cleans
    <3>2. CASE n # m
      <4>1. mgr[n].cur \in Fibers /\ mgr'[n] = mgr[n] /\ fib'[mgr[n].cur].pc = fib[mgr[n].cur].pc
        BY <1>6, <1>7, <3>2, Types, ZenonT(30)
      <4>. QED
        BY <4>1, ZenonT(30) DEF KernelInv, ThreadsInv
    <3>. QED
      BY <3>1, <3>2, ZenonT(30)
  <2>2. ASSUME NEW k \in Managers, NEW n \in Managers
        PROVE  /\ mgr'[k].cur = mgr'[n].cur => k = n
               /\ mgr'[k].old = mgr'[n].old /\ mgr'[k].old # Null => k = n
               /\ mgr'[k].old # mgr'[n].cur
    <3>1. mgr[n].cur \in Fibers
      BY Types, Zenon
    <3>. QED
      BY <1>0, <1>6, <3>1, SMTT(30) DEF KernelInv, ThreadsInv, Cleans
  <2>3. ASSUME NEW h \in Fibers, fib'[h].pc # "maint"
        PROVE  \E n \in Managers : mgr'[n].cur = h
    <3>1. CASE h = f
      BY <3>1, Zenon DEF Cleans
    <3>2. CASE h # f
      <4>1. PICK n \in Managers : mgr[n].cur = h
        BY <1>7, <2>3, <3>2, ZenonT(30) DEF KernelInv, ThreadsInv
      <4>. QED
        BY <1>6, <3>2, <4>1, ZenonT(30) DEF Cleans
    <3>. QED
      BY <3>1, <3>2, Zenon
  <2>. QED
    BY <2>1, <2>2, <2>3, Zenon DEF ThreadsInv
<1>9. LeavingInv'
  <2>1. ASSUME NEW h \in Apps, NEW n \in Managers, n # m
        PROVE  /\ mgr'[n] = mgr[n]
               /\ h \in {mgr[n].cur, mgr[n].old, mgr[n].to_schedule, mgr[n].done_fiber,
                         mgr[n].set_wait_value} => fib'[h] = fib[h]
    <3>1. h \in {f, o} => h \notin {mgr[n].cur, mgr[n].old}
      BY <1>6, <2>1, ZenonT(30)
    <3>2. h \in {mgr[n].to_schedule, mgr[n].done_fiber, mgr[n].set_wait_value}
            => h \in {mgr[n].cur, mgr[n].old}
      BY ZenonT(30) DEF KernelInv, LeavingInv
    <3>. QED
      BY <1>0, <1>6, <2>1, <3>1, <3>2, ZenonT(30) DEF Cleans
  <2>4. ASSUME NEW n \in Managers, NEW h \in Apps
        PROVE  /\ mgr'[n].cur = h =>
                    /\ fib'[h].state \in {"RUNNING", "WAITING", "SAVING", "DONE"}
                    /\ fib'[h].state # "RUNNING" =>
                         fib'[h].pc \in {"waitlink", "next", "pop", "rdlock", "gate", "wrlock", "switch", "crash", "tomaint"}
                    /\ fib'[h].state = "WAITING" => mgr'[n].set_wait_value = h
                    /\ fib'[h].state = "DONE" => mgr'[n].done_fiber = h
               /\ mgr'[n].old = h =>
                    /\ fib'[h].state \in {"READY", "WAITING", "SAVING", "DONE"}
                    /\ fib'[h].state = "READY" => mgr'[n].to_schedule = h
                    /\ fib'[h].state = "WAITING" => mgr'[n].set_wait_value = h
                    /\ fib'[h].state = "DONE" => mgr'[n].done_fiber = h
               /\ mgr'[n].to_schedule = h => mgr'[n].old = h /\ fib'[h].state = "READY"
               /\ mgr'[n].done_fiber = h =>
                    h \in {mgr'[n].cur, mgr'[n].old} /\ fib'[h].state = "DONE"
               /\ mgr'[n].set_wait_value = h =>
                    h \in {mgr'[n].cur, mgr'[n].old} /\ fib'[h].state = "WAITING"
    <3>1. CASE n = m
      BY <1>0, <1>2, <3>1, SMTT(30) DEF Cleans
    <3>2. CASE n # m
      BY <2>1, <3>2, SMTT(30) DEF KernelInv, LeavingInv
    <3>. QED
      BY <3>1, <3>2, ZenonT(30)
  <2>. QED
    BY <2>4, ZenonT(30) DEF LeavingInv
<1>10. /\ \A h \in Fibers : h # o => (Saved(h)' <=> Saved(h))
       /\ ~Saved(f) /\ ~Saved(o) /\ Saved(o)'
  <2>1. ~Saved(f) /\ ~Saved(o)
    BY ZenonT(30) DEF Saved, Cleans
  <2>2. Saved(o)'
    BY <1>0, <1>6, <1>7, SMTT(30) DEF Saved, Cleans
  <2>3. ASSUME NEW h \in Fibers, h # o PROVE Saved(h)' <=> Saved(h)
    BY <1>0, <1>6, <1>7, <2>3, SMTT(30) DEF Saved, Cleans
  <2>. QED
    BY <2>1, <2>2, <2>3, ZenonT(30)
<1>11. /\ \A h \in Fibers : fib'[h].node = fib[h].node /\ fib'[h].next = fib[h].next
       /\ \A h \in Fibers : h # o => fib'[h].state = fib[h].state
       /\ Waiters' = Waiters
  BY ZenonT(30) DEF Cleans
<1>12. o \in Apps =>
         /\ o \in Waiters \cup Queued => fib[o].state = "SAVING"
         /\ \A h \in Fibers : fib[h].next # o
         /\ \A h \in Apps : join_info[h] # o
  BY <1>10, ZenonT(30) DEF KernelInv, PlacesInv
<1>. DEFINE NowPlaced(h) ==
         /\ fib'[h].node = (h \notin Waiters)
         /\ h \in Waiters =>
              \/ fib'[h].state = "SAVING"
              \/ fib'[h].state = "WAITING" /\ Saved(h)'
         /\ h \in Queued' =>
              /\ h \notin Waiters
              /\ \/ fib'[h].state = "SAVING"
                 \/ fib'[h].state \in {"READY", "WAITING"} /\ Saved(h)'
         /\ \A x \in Fibers : fib'[x].next = h =>
              /\ h \notin Waiters \cup Queued'
              /\ fib'[h].state \in {"READY", "WAITING"} /\ Saved(h)'
              /\ \A y \in Fibers : fib'[y].next = h => y = x
         /\ \A x \in Apps : join_info'[x] = h =>
              /\ h \notin Waiters \cup Queued'
              /\ fib'[h].state = "WAITING" /\ Saved(h)'
              /\ \A y \in Apps : join_info'[y] = h => y = x
              /\ \A y \in Fibers : fib'[y].next # h
<1>13. PlacesInv'
  <2>1. ASSUME NEW h \in Apps, h # o PROVE NowPlaced(h)
    <3>1. /\ Saved(h)' <=> Saved(h)
          /\ fib'[h].state = fib[h].state
          /\ h \in Queued' <=> h \in Queued
          /\ \A x \in Apps : join_info'[x] = h => join_info[x] = h
      <4>1. h \in Queued' <=> h \in Queued
        BY <2>1, ZenonT(30) DEF Yielded, Located, Parked, Freed
      <4>2. \A x \in Apps : join_info'[x] = h => join_info[x] = h
        BY <2>1, Types, ZenonT(30) DEF Yielded, Located, Parked, Freed
      <4>. QED
        BY <1>0, <1>10, <1>11, <2>1, <4>1, <4>2, ZenonT(30)
    <3>. QED
      BY <1>0, <1>11, <3>1, SMTT(30) DEF KernelInv, PlacesInv
  <2>2. ASSUME o \in Apps, Yielded(m, o) PROVE NowPlaced(o)
    <3>1. o \notin Waiters /\ fib'[o].state = "READY" /\ join_info' = join_info
      BY <1>12, <2>2, Zenon DEF Yielded
    <3>. QED
      BY <1>0, <1>10, <1>11, <1>12, <2>2, <3>1, SMTT(30) DEF KernelInv, PlacesInv
  <2>3. ASSUME o \in Apps, Located(m, o) PROVE NowPlaced(o)
    <3>1. o \notin Waiters /\ o \notin Queued /\ fib'[o].state = "WAITING" /\ Queued' = Queued
      BY <1>12, <2>3, Zenon DEF Located
    <3>2. PICK l \in Apps : join_info' = [join_info EXCEPT ![l] = o]
      BY <2>3, ZenonT(30) DEF Located
    <3>3. \A x \in Apps : join_info'[x] = o => x = l
      BY <1>12, <2>3, <3>2, Types, ZenonT(30)
    <3>. QED
      BY <1>0, <1>10, <1>11, <1>12, <2>3, <3>1, <3>3, SMTT(30) DEF KernelInv, PlacesInv
  <2>4. ASSUME o \in Apps, Parked(m, o) PROVE NowPlaced(o)
    <3>1. fib'[o].state = "WAITING" /\ Queued' = Queued /\ join_info' = join_info
      BY <2>4, Zenon DEF Parked
    <3>. QED
      BY <1>0, <1>10, <1>11, <1>12, <2>4, <3>1, SMTT(30) DEF KernelInv, PlacesInv
  <2>5. ASSUME o \in Apps, Freed(m, o) PROVE NowPlaced(o)
    <3>1. /\ o \notin Waiters /\ o \notin Queued /\ Queued' = Queued /\ join_info' = join_info
      BY <1>12, <2>5, Zenon DEF Freed
    <3>. QED
      BY <1>0, <1>10, <1>11, <1>12, <2>5, <3>1, SMTT(30) DEF KernelInv, PlacesInv
  <2>6. \A h \in Apps : NowPlaced(h)
    <3>. HIDE DEF NowPlaced
    <3>. QED
      BY <2>1, <2>2, <2>3, <2>4, <2>5, ZenonT(30)
  <2>. QED
    BY <1>11, <2>6, ZenonT(40) DEF PlacesInv
<1>. DEFINE NowFound(h) ==
         /\ fib'[h].state = "RUNNING" => \E n \in Managers : mgr'[n].cur = h
         /\ fib'[h].state = "DONE" => \E n \in Managers : mgr'[n].done_fiber = h
         /\ fib'[h].state = "SAVING" =>
              /\ h \in Queued' \cup Waiters
              /\ \E n \in Managers : h \in {mgr'[n].cur, mgr'[n].old}
         /\ fib'[h].state = "READY" =>
              \/ h \in Queued'
              \/ \E x \in Fibers : fib'[x].next = h
              \/ \E n \in Managers : mgr'[n].to_schedule = h
         /\ fib'[h].state = "WAITING" =>
              \/ h \in Queued' \cup Waiters
              \/ \E x \in Fibers : fib'[x].next = h
              \/ \E x \in Apps : join_info'[x] = h
              \/ \E n \in Managers : mgr'[n].set_wait_value = h
<1>14. FoundInv'
  <2>1. ASSUME NEW h \in Apps, h # o PROVE NowFound(h)
    <3>1. /\ fib'[h].state = fib[h].state
          /\ h \in Queued' <=> h \in Queued
          /\ \A x \in Apps : join_info[x] = h => join_info'[x] = h
      <4>1. h \in Queued' <=> h \in Queued
        BY <2>1, Zenon DEF Yielded, Located, Parked, Freed
      <4>2. ASSUME NEW x \in Apps, join_info[x] = h PROVE join_info'[x] = h
        <5>1. CASE join_info' = join_info
          BY <4>2, <5>1, ZenonT(30)
        <5>2. CASE Located(m, o)
          <6>1. PICK l \in Apps : /\ mgr[m].set_wait_location = l
                                  /\ join_info' = [join_info EXCEPT ![l] = o]
            BY <5>2, Zenon DEF Located
          <6>2. join_info[l] = Null
            BY <6>1, ZenonT(30) DEF KernelInv, LocationsInv
          <6>. QED
            BY <1>0, <4>2, <6>1, <6>2, Types, ZenonT(30)
        <5>. QED
          BY <5>1, <5>2, ZenonT(30) DEF Yielded, Parked, Freed
      <4>. QED
        BY <1>0, <1>11, <2>1, <4>1, <4>2, ZenonT(30)
    <3>2. \A n \in Managers :
            /\ h \in {mgr[n].cur, mgr[n].old} => mgr'[n].cur = mgr[n].cur /\ h \in {mgr'[n].cur, mgr'[n].old}
            /\ mgr[n].to_schedule = h => mgr'[n] = mgr[n]
            /\ mgr[n].done_fiber = h => mgr'[n] = mgr[n]
            /\ mgr[n].set_wait_value = h => mgr'[n] = mgr[n]
      BY <1>0, <2>1, SMTT(30) DEF Cleans, Yielded, Located, Parked, Freed
    <3>3. /\ fib[h].state = "RUNNING" => \E n \in Managers : mgr'[n].cur = h
          /\ fib[h].state = "DONE" => \E n \in Managers : mgr'[n].done_fiber = h
          /\ fib[h].state = "SAVING" =>
               /\ h \in Queued' \cup Waiters
               /\ \E n \in Managers : h \in {mgr'[n].cur, mgr'[n].old}
      BY <3>1, <3>2, SMTT(30) DEF KernelInv, FoundInv
    <3>4. fib[h].state \in {"READY", "WAITING"} => NowFound(h)
      BY <1>0, <1>11, <3>1, <3>2, SMTT(30) DEF KernelInv, FoundInv
    <3>. QED
      BY <3>1, <3>3, <3>4, ZenonT(30)
  <2>2. ASSUME o \in Apps, Yielded(m, o) PROVE NowFound(o)
    BY <2>2, Zenon DEF Yielded
  <2>3. ASSUME o \in Apps, Located(m, o) PROVE NowFound(o)
    <3>1. PICK l \in Apps : join_info' = [join_info EXCEPT ![l] = o]
      BY <2>3, Zenon DEF Located
    <3>2. join_info'[l] = o /\ fib'[o].state = "WAITING"
      BY <2>3, <3>1, Types, ZenonT(30) DEF Located
    <3>. QED
      BY <3>2, ZenonT(30)
  <2>4. ASSUME o \in Apps, Parked(m, o) PROVE NowFound(o)
    BY <2>4, ZenonT(30) DEF Parked, KernelInv, FoundInv
  <2>5. ASSUME o \in Apps, Freed(m, o) PROVE NowFound(o)
    BY <2>5, ZenonT(30) DEF Freed
  <2>6. \A h \in Apps : NowFound(h)
    <3>. HIDE DEF NowFound
    <3>. QED
      BY <2>1, <2>2, <2>3, <2>4, <2>5, Zenon
  <2>. QED
    BY <1>11, <2>6, ZenonT(30) DEF FoundInv
<1>15. LocationsInv'
  <2>1. /\ detach_state' = detach_state
        /\ mgr'[m].set_wait_location = Null /\ mgr'[m].set_wait_value = Null
        /\ \A n \in Managers : n # m => mgr'[n] = mgr[n]
    BY ZenonT(30) DEF Cleans
  <2>2. CASE join_info' = join_info
    BY <1>0, <2>1, <2>2, SMTT(30) DEF KernelInv, LocationsInv
  <2>3. CASE Located(m, o)
    <3>1. PICK l \in Apps : /\ mgr[m].set_wait_location = l
                            /\ join_info' = [join_info EXCEPT ![l] = o]
      BY <2>3, ZenonT(30) DEF Located
    <3>2. detach_state[l] # "NONE" /\ \A n \in Managers : n # m => mgr[n].set_wait_location # l
      BY <3>1, ZenonT(30) DEF KernelInv, LocationsInv
    <3>3. \A x \in Apps : x # l => join_info'[x] = join_info[x]
      BY <3>1, Types, ZenonT(30)
    <3>. QED
      BY <1>0, <2>1, <3>2, <3>3, SMTT(30) DEF KernelInv, LocationsInv
  <2>. QED
    BY <2>2, <2>3, ZenonT(30) DEF Yielded, Parked, Freed
<1>. QED
  BY <1>1, <1>4, <1>5, <1>8, <1>9, <1>13, <1>14, <1>15, Zenon DEF KernelInv, Cleans

-----------------------------------------------------------------------------
(* A fiber stops running: it is about to wait at a location, has entered   *)
(* the queue of waiters, or has finished.                                  *)
Stops(m, f) ==
  /\ mgr[m].cur = f /\ fib[f].state = "RUNNING" /\ fib[f].pc # "maint" /\ fib[f].next = Null
  /\ RunqTypes' /\ WaitqTypes' /\ QueuesInv' /\ Queued' = Queued
  /\ FromOK /\ lock_using' \in {-1, 0, 1} /\ JoinSame(f) /\ join_info' = join_info
  /\ fib' \in [Fibers -> FiberRecord] /\ mgr' \in [Managers -> ManagerRecord]
  /\ \A h \in Fibers : h # f => fib'[h] = fib[h]
  /\ fib'[f].next = fib[f].next /\ RecordOK(f, fib'[f]) /\ CallOK(f)'
  /\ fib'[f].pc \in {"next", "waitlink"}
  /\ \A n \in Managers : n # m => mgr'[n] = mgr[n]
  /\ mgr'[m].cur = f /\ mgr'[m].old = mgr[m].old /\ mgr'[m].to_schedule = mgr[m].to_schedule

ToLocation(m, f) ==
  /\ fib'[f].state = "WAITING" /\ fib'[f].node = fib[f].node /\ Waiters' = Waiters
  /\ mgr'[m].set_wait_value = f /\ mgr'[m].done_fiber = mgr[m].done_fiber
  /\ \E l \in Apps : /\ mgr'[m].set_wait_location = l
                     /\ detach_state[l] = "NONE" /\ detach_state'[l] # "NONE"

ToWaiters(m, f) ==
  /\ fib'[f].state = "SAVING" /\ fib'[f].node = FALSE /\ Waiters' = Waiters \cup {f}
  /\ mgr' = mgr

ToEnd(m, f) ==
  /\ fib'[f].state = "DONE" /\ fib'[f].node = fib[f].node /\ Waiters' = Waiters
  /\ mgr'[m].done_fiber = f
  /\ mgr'[m].set_wait_location = mgr[m].set_wait_location
  /\ mgr'[m].set_wait_value = mgr[m].set_wait_value

(* What LeavingInv says of one thread and one fiber.                       *)
LEMMA LeavingFacts ==
  ASSUME KernelInv, NEW m \in Managers, NEW f \in Apps
  PROVE  /\ mgr[m].cur = f =>
              /\ fib[f].state \in {"RUNNING", "WAITING", "SAVING", "DONE"}
              /\ fib[f].state # "RUNNING" =>
                   fib[f].pc \in {"waitlink", "next", "pop", "rdlock", "gate", "wrlock", "switch", "crash", "tomaint"}
              /\ fib[f].state = "WAITING" => mgr[m].set_wait_value = f
              /\ fib[f].state = "DONE" => mgr[m].done_fiber = f
         /\ mgr[m].old = f =>
              /\ fib[f].state \in {"READY", "WAITING", "SAVING", "DONE"}
              /\ fib[f].state = "READY" => mgr[m].to_schedule = f
              /\ fib[f].state = "WAITING" => mgr[m].set_wait_value = f
              /\ fib[f].state = "DONE" => mgr[m].done_fiber = f
         /\ mgr[m].to_schedule = f => mgr[m].old = f /\ fib[f].state = "READY"
         /\ mgr[m].done_fiber = f => f \in {mgr[m].cur, mgr[m].old} /\ fib[f].state = "DONE"
         /\ mgr[m].set_wait_value = f => f \in {mgr[m].cur, mgr[m].old} /\ fib[f].state = "WAITING"
<1>1. LeavingInv
  BY Zenon DEF KernelInv
<1>. QED
  BY <1>1, SMTT(30) DEF LeavingInv

(* No two threads execute or have just left one fiber.                     *)
LEMMA Apart ==
  ASSUME KernelInv, NEW m \in Managers, NEW n \in Managers
  PROVE  /\ mgr[m].cur = mgr[n].cur => m = n
         /\ mgr[m].old = mgr[n].old /\ mgr[m].old # Null => m = n
         /\ mgr[m].old # mgr[n].cur
<1>1. ThreadsInv
  BY Zenon DEF KernelInv
<1>. QED
  BY <1>1, ZenonT(30) DEF ThreadsInv

(* A fiber that is about to give up its thread, to wait or because it is   *)
(* done, keeps the invariant.                                              *)
LEMMA StopsKeeps ==
  ASSUME KernelInv, NEW m \in Managers, NEW f \in Apps, Stops(m, f),
         ToLocation(m, f) \/ ToWaiters(m, f) \/ ToEnd(m, f)
  PROVE  KernelInv'
<1>0. /\ Null \notin Fibers /\ Apps \cap Managers = {} /\ Fibers = Apps \cup Managers
      /\ f \in Fibers /\ f # Null
  BY ManagerAssumption, ZenonT(30) DEF Fibers
<1>1. KernelTypes'
  BY ZenonT(30) DEF KernelInv, KernelTypes, RunqTypes, WaitqTypes, Stops, FromOK, JoinSame
<1>2. RecordInv'
  BY ZenonT(30) DEF KernelInv, RecordInv, Stops
<1>3. CallsInv'
  <2>1. \A h \in Apps : h # f => Place(h)' = Place(h) /\ todo'[h] = todo[h]
    BY <1>0, ZenonT(40) DEF Place, Stops, JoinSame
  <2>. QED
    BY <2>1, ZenonT(30) DEF KernelInv, CallsInv, CallOK, Stops
<1>4. /\ \A n \in Managers : /\ mgr'[n].cur = mgr[n].cur /\ mgr'[n].old = mgr[n].old
                             /\ mgr'[n].to_schedule = mgr[n].to_schedule
                             /\ n # m => mgr'[n] = mgr[n]
      /\ \A h \in Fibers : /\ fib'[h].pc = "maint" <=> fib[h].pc = "maint"
                           /\ fib'[h].next = fib[h].next
                           /\ h # f => fib'[h] = fib[h]
  BY ZenonT(30) DEF Stops
<1>5. ThreadsInv'
  <2>1. \A n \in Managers : mgr[n].cur \in Fibers
    BY Types, Zenon
  <2>. QED
    BY <1>0, <1>4, <2>1, SMTT(30) DEF KernelInv, ThreadsInv
<1>6. mgr[m].old = Null /\ \A n \in Managers : n # m => f \notin {mgr[n].cur, mgr[n].old}
  BY SMTT(30) DEF KernelInv, ThreadsInv, Stops
<1>61. \A h \in Apps : mgr[m].to_schedule # h /\ mgr[m].done_fiber # h /\ mgr[m].set_wait_value # h
  <2>. SUFFICES ASSUME NEW h \in Apps
                PROVE  mgr[m].to_schedule # h /\ mgr[m].done_fiber # h /\ mgr[m].set_wait_value # h
    BY Zenon
  <2>1. /\ mgr[m].to_schedule = h => mgr[m].old = h
        /\ mgr[m].done_fiber = h => h \in {mgr[m].cur, mgr[m].old} /\ fib[h].state = "DONE"
        /\ mgr[m].set_wait_value = h => h \in {mgr[m].cur, mgr[m].old} /\ fib[h].state = "WAITING"
    BY LeavingFacts, SMTT(30)
  <2>2. mgr[m].cur = f /\ fib[f].state = "RUNNING" /\ mgr[m].old = Null /\ h # Null
    BY <1>0, <1>6, ZenonT(30) DEF Stops
  <2>. QED
    BY <2>1, <2>2, ZenonT(30)
<1>7. LeavingInv'
  <2>1. ASSUME NEW h \in Apps, NEW n \in Managers, n # m
        PROVE  /\ mgr'[n] = mgr[n]
               /\ h \in {mgr[n].cur, mgr[n].old, mgr[n].to_schedule, mgr[n].done_fiber,
                         mgr[n].set_wait_value} => fib'[h] = fib[h]
    <3>1. h \in {mgr[n].to_schedule, mgr[n].done_fiber, mgr[n].set_wait_value}
            => h \in {mgr[n].cur, mgr[n].old}
      BY ZenonT(30) DEF KernelInv, LeavingInv
    <3>. QED
      BY <1>0, <1>4, <1>6, <2>1, <3>1, ZenonT(30)
  <2>3. ASSUME NEW n \in Managers, NEW h \in Apps
        PROVE  /\ mgr'[n].cur = h =>
                    /\ fib'[h].state \in {"RUNNING", "WAITING", "SAVING", "DONE"}
                    /\ fib'[h].state # "RUNNING" =>
                         fib'[h].pc \in {"waitlink", "next", "pop", "rdlock", "gate", "wrlock", "switch", "crash", "tomaint"}
                    /\ fib'[h].state = "WAITING" => mgr'[n].set_wait_value = h
                    /\ fib'[h].state = "DONE" => mgr'[n].done_fiber = h
               /\ mgr'[n].old = h =>
                    /\ fib'[h].state \in {"READY", "WAITING", "SAVING", "DONE"}
                    /\ fib'[h].state = "READY" => mgr'[n].to_schedule = h
                    /\ fib'[h].state = "WAITING" => mgr'[n].set_wait_value = h
                    /\ fib'[h].state = "DONE" => mgr'[n].done_fiber = h
               /\ mgr'[n].to_schedule = h => mgr'[n].old = h /\ fib'[h].state = "READY"
               /\ mgr'[n].done_fiber = h =>
                    h \in {mgr'[n].cur, mgr'[n].old} /\ fib'[h].state = "DONE"
               /\ mgr'[n].set_wait_value = h =>
                    h \in {mgr'[n].cur, mgr'[n].old} /\ fib'[h].state = "WAITING"
    <3>1. CASE n = m
      BY <1>0, <1>6, <1>61, <3>1, SMTT(30) DEF Stops, ToLocation, ToWaiters, ToEnd
    <3>2. CASE n # m
      <4>1. mgr'[n] = mgr[n]
        BY <2>1, <3>2, Zenon
      <4>2. /\ mgr[n].cur = h =>
                 /\ fib[h].state \in {"RUNNING", "WAITING", "SAVING", "DONE"}
                 /\ fib[h].state # "RUNNING" =>
                      fib[h].pc \in {"waitlink", "next", "pop", "rdlock", "gate", "wrlock", "switch", "crash", "tomaint"}
                 /\ fib[h].state = "WAITING" => mgr[n].set_wait_value = h
                 /\ fib[h].state = "DONE" => mgr[n].done_fiber = h
            /\ mgr[n].old = h =>
                 /\ fib[h].state \in {"READY", "WAITING", "SAVING", "DONE"}
                 /\ fib[h].state = "READY" => mgr[n].to_schedule = h
                 /\ fib[h].state = "WAITING" => mgr[n].set_wait_value = h
                 /\ fib[h].state = "DONE" => mgr[n].done_fiber = h
            /\ mgr[n].to_schedule = h => mgr[n].old = h /\ fib[h].state = "READY"
            /\ mgr[n].done_fiber = h =>
                 h \in {mgr[n].cur, mgr[n].old} /\ fib[h].state = "DONE"
            /\ mgr[n].set_wait_value = h =>
                 h \in {mgr[n].cur, mgr[n].old} /\ fib[h].state = "WAITING"
        BY LeavingFacts, SMTT(30)
      <4>3. CASE fib'[h] = fib[h]
        BY <4>1, <4>2, <4>3, ZenonT(30)
      <4>4. CASE h \notin {mgr[n].cur, mgr[n].old, mgr[n].to_schedule, mgr[n].done_fiber,
                           mgr[n].set_wait_value}
        BY <4>1, <4>4, ZenonT(30)
      <4>. QED
        BY <2>1, <3>2, <4>3, <4>4, Zenon
    <3>. QED
      BY <3>1, <3>2, Zenon
  <2>. QED
    BY <2>3, Zenon DEF LeavingInv
<1>8. (\A h \in Fibers : Saved(h)' <=> Saved(h)) /\ ~Saved(f)
  <2>1. mgr[m].cur = f
    BY ZenonT(30) DEF Stops
  <2>. QED
    BY <1>4, <2>1, ZenonT(30) DEF Saved
<1>9. /\ f \notin Waiters \cup Queued
      /\ \A h \in Fibers : fib[h].next # f
      /\ \A h \in Apps : join_info[h] # f
  BY <1>8, ZenonT(30) DEF KernelInv, PlacesInv, Stops
<1>10. /\ Queued' = Queued /\ join_info' = join_info
       /\ \A h \in Apps : h # f => (h \in Waiters' <=> h \in Waiters)
       /\ fib'[f].node = (f \notin Waiters')
       /\ f \in Waiters' => fib'[f].state = "SAVING"
  <2>1. fib[f].node = (f \notin Waiters)
    BY ZenonT(30) DEF KernelInv, PlacesInv
  <2>. QED
    BY <1>9, <2>1, ZenonT(30) DEF Stops, ToLocation, ToWaiters, ToEnd
<1>11. PlacesInv'
  <2>1. ASSUME NEW h \in Apps
        PROVE  /\ fib'[h].node = (h \notin Waiters')
               /\ h \in Waiters' =>
                    \/ fib'[h].state = "SAVING"
                    \/ fib'[h].state = "WAITING" /\ Saved(h)'
               /\ h \in Queued =>
                    /\ h \notin Waiters'
                    /\ \/ fib'[h].state = "SAVING"
                       \/ fib'[h].state \in {"READY", "WAITING"} /\ Saved(h)'
               /\ \A x \in Fibers : fib'[x].next = h =>
                    /\ h \notin Waiters' \cup Queued
                    /\ fib'[h].state \in {"READY", "WAITING"} /\ Saved(h)'
                    /\ \A y \in Fibers : fib'[y].next = h => y = x
               /\ \A x \in Apps : join_info[x] = h =>
                    /\ h \notin Waiters' \cup Queued
                    /\ fib'[h].state = "WAITING" /\ Saved(h)'
                    /\ \A y \in Apps : join_info[y] = h => y = x
                    /\ \A y \in Fibers : fib'[y].next # h
    <3>1. CASE h = f
      BY <1>4, <1>9, <1>10, <3>1, ZenonT(30)
    <3>2. CASE h # f
      BY <1>0, <1>4, <1>8, <1>10, <3>2, SMTT(30) DEF KernelInv, PlacesInv
    <3>. QED
      BY <3>1, <3>2, Zenon
  <2>. QED
    BY <1>10, <2>1, SMTT(30) DEF PlacesInv
<1>12. FoundInv'
  <2>1. ASSUME NEW h \in Apps, h # f, NEW n \in Managers
        PROVE  /\ mgr[n].done_fiber = h => mgr'[n].done_fiber = h
               /\ mgr[n].set_wait_value = h => mgr'[n].set_wait_value = h
    <3>1. CASE n = m
      BY <1>61, <3>1, Zenon
    <3>2. CASE n # m
      BY <1>4, <3>2, Zenon
    <3>. QED
      BY <3>1, <3>2, ZenonT(30)
  <2>2. ASSUME NEW h \in Apps
        PROVE  /\ fib'[h].state = "RUNNING" => \E n \in Managers : mgr'[n].cur = h
               /\ fib'[h].state = "DONE" => \E n \in Managers : mgr'[n].done_fiber = h
               /\ fib'[h].state = "SAVING" =>
                    /\ h \in Queued \cup Waiters'
                    /\ \E n \in Managers : h \in {mgr'[n].cur, mgr'[n].old}
               /\ fib'[h].state = "READY" =>
                    \/ h \in Queued
                    \/ \E x \in Fibers : fib'[x].next = h
                    \/ \E n \in Managers : mgr'[n].to_schedule = h
               /\ fib'[h].state = "WAITING" =>
                    \/ h \in Queued \cup Waiters'
                    \/ \E x \in Fibers : fib'[x].next = h
                    \/ \E x \in Apps : join_info[x] = h
                    \/ \E n \in Managers : mgr'[n].set_wait_value = h
    <3>1. CASE h = f
      BY <3>1, ZenonT(30) DEF Stops, ToLocation, ToWaiters, ToEnd
    <3>2. CASE h # f
      BY <1>0, <1>4, <1>10, <2>1, <3>2, SMTT(30) DEF KernelInv, FoundInv
    <3>. QED
      BY <3>1, <3>2, ZenonT(30)
  <2>. QED
    BY <1>10, <2>2, ZenonT(30) DEF FoundInv
<1>13. LocationsInv'
  <2>1. \A h \in Apps : detach_state'[h] = "NONE" => detach_state[h] = "NONE"
    BY Zenon DEF Stops, JoinSame
  <2>2. CASE ToLocation(m, f)
    <3>1. PICK l \in Apps : /\ mgr'[m].set_wait_location = l
                            /\ detach_state[l] = "NONE" /\ detach_state'[l] # "NONE"
      BY <2>2, Zenon DEF ToLocation
    <3>2. mgr'[m].set_wait_value = f
      BY <2>2, Zenon DEF ToLocation
    <3>3. join_info[l] = Null /\ \A n \in Managers : mgr[n].set_wait_location # l
      BY <3>1, ZenonT(30) DEF KernelInv, LocationsInv
    <3>. QED
      BY <1>0, <1>4, <1>10, <2>1, <3>1, <3>2, <3>3, SMTT(30) DEF KernelInv, LocationsInv
  <2>3. CASE ToWaiters(m, f) \/ ToEnd(m, f)
    <3>1. \A n \in Managers : /\ mgr'[n].set_wait_location = mgr[n].set_wait_location
                              /\ mgr'[n].set_wait_value = mgr[n].set_wait_value
      BY <1>4, <2>3, Zenon DEF ToWaiters, ToEnd
    <3>. QED
      BY <1>10, <2>1, <3>1, SMTT(30) DEF KernelInv, LocationsInv
  <2>. QED
    BY <2>2, <2>3, Zenon
<1>. QED
  BY <1>1, <1>2, <1>3, <1>5, <1>7, <1>11, <1>12, <1>13, ZenonT(30) DEF KernelInv, Stops

-----------------------------------------------------------------------------
(* What the invariant means.                                               *)
LEMMA OneThread ==
  ASSUME KernelInv
  PROVE  OneThreadPerFiber
<1>1. \A m, n \in Managers : mgr[m].cur = mgr[n].cur => m = n
  BY ZenonT(30) DEF KernelInv, ThreadsInv
<1>2. ASSUME NEW f \in Fibers, fib[f].next # Null PROVE ~IsCurrent(fib[f].next)
  <2>1. fib[f].next \in Apps
    BY <1>2, FibTypes, ZenonT(30) DEF FiberRecord, AppOrNull
  <2>2. Saved(fib[f].next)
    BY <2>1, ZenonT(30) DEF KernelInv, PlacesInv
  <2>. QED
    BY <2>2, ZenonT(30) DEF Saved, IsCurrent
<1>. QED
  BY <1>1, <1>2, ZenonT(30) DEF OneThreadPerFiber

(* The six kinds of places where a fiber may be ...                        *)
InRunq(f, x) == \E q \in DOMAIN runq : \E k \in DOMAIN runq[q] : runq[q][k] = f /\ x = <<"runq", q, k>>
InNext(f, x) == \E g \in Fibers : fib[g].next = f /\ x = <<"next", g>>
InSchedule(f, x) == \E m \in Managers : mgr[m].to_schedule = f /\ x = <<"to_schedule", m>>
InWaitq(f, x) == \E k \in DOMAIN waitq : waitq[k].fiber = f /\ x = <<"waitq", k>>
InJoin(f, x) == \E g \in Apps : join_info[g] = f /\ x = <<"join_info", g>>
InSetWait(f, x) == \E m \in Managers : mgr[m].set_wait_value = f /\ x = <<"set_wait", m>>

(* The places where a fiber may be are of six kinds, which ...             *)
LEMMA PlaceKinds ==
  ASSUME NEW f \in Apps, NEW x
  PROVE  x \in RunPlaces(f) \cup WaitPlaces(f) <=>
           \/ InRunq(f, x) \/ InNext(f, x) \/ InSchedule(f, x)
           \/ InWaitq(f, x) \/ InJoin(f, x) \/ InSetWait(f, x)
<1>. DEFINE b == {<<"next", g>> : g \in {h \in Fibers : fib[h].next = f}}
            c == {<<"to_schedule", m>> : m \in {n \in Managers : mgr[n].to_schedule = f}}
            d == {<<"waitq", k>> : k \in {i \in DOMAIN waitq : waitq[i].fiber = f}}
            e == {<<"join_info", g>> : g \in {h \in Apps : join_info[h] = f}}
            s == {<<"set_wait", m>> : m \in {n \in Managers : mgr[n].set_wait_value = f}}
<1>1. x \in QueuePlaces(f) <=> InRunq(f, x)
  BY SMTT(30) DEF InRunq, QueuePlaces
<1>2. x \in b <=> InNext(f, x)
  BY Zenon DEF InNext
<1>3. x \in c <=> InSchedule(f, x)
  BY Zenon DEF InSchedule
<1>4. x \in d <=> InWaitq(f, x)
  BY Zenon DEF InWaitq
<1>5. x \in e <=> InJoin(f, x)
  BY ZenonT(30) DEF InJoin
<1>6. x \in s <=> InSetWait(f, x)
  BY ZenonT(30) DEF InSetWait
<1>7. RunPlaces(f) = QueuePlaces(f) \cup b \cup c
  BY Zenon DEF RunPlaces
<1>8. WaitPlaces(f) = d \cup e \cup s
  BY Zenon DEF WaitPlaces
<1>. HIDE DEF b, c, d, e, s
<1>. QED
  BY <1>1, <1>2, <1>3, <1>4, <1>5, <1>6, <1>7, <1>8, ZenonT(30)

(* ... exclude one another, and each has one place for the fiber.          *)
LEMMA OneKind ==
  ASSUME KernelInv, NEW f \in Apps, NEW x, NEW y,
         x \in RunPlaces(f) \cup WaitPlaces(f), y \in RunPlaces(f) \cup WaitPlaces(f)
  PROVE  x = y
<1>1. /\ \A z : InRunq(f, z) => f \in Queued
      /\ \A z : InNext(f, z) => \E g \in Fibers : fib[g].next = f
      /\ \A z : InSchedule(f, z) => \E m \in Managers : mgr[m].to_schedule = f
      /\ \A z : InWaitq(f, z) => f \in Waiters
      /\ \A z : InJoin(f, z) => \E g \in Apps : join_info[g] = f
      /\ \A z : InSetWait(f, z) => \E m \in Managers : mgr[m].set_wait_value = f
  BY Zenon DEF InRunq, InNext, InSchedule, InWaitq, InJoin, InSetWait, Queued, Waiters
<1>0. PlacesInv /\ f # Null
  BY ManagerAssumption, Zenon DEF KernelInv, Fibers
<1>2. /\ f \in Queued => f \notin Waiters
      /\ (\E g \in Fibers : fib[g].next = f) =>
           f \notin Waiters \cup Queued /\ \A h \in Apps : join_info[h] # f
      /\ (\E g \in Apps : join_info[g] = f) => f \notin Waiters \cup Queued
  BY <1>0, ZenonT(30) DEF PlacesInv
<1>3. (\E m \in Managers : mgr[m].to_schedule = f) =>
        /\ f \notin Waiters \cup Queued
        /\ \A g \in Fibers : fib[g].next # f
        /\ \A g \in Apps : join_info[g] # f
        /\ \A n \in Managers : mgr[n].set_wait_value # f
  <2>. SUFFICES ASSUME NEW m \in Managers, mgr[m].to_schedule = f
                PROVE  /\ f \notin Waiters \cup Queued
                       /\ \A g \in Fibers : fib[g].next # f
                       /\ \A g \in Apps : join_info[g] # f
                       /\ \A n \in Managers : mgr[n].set_wait_value # f
    BY Zenon
  <2>1. mgr[m].old = f /\ fib[f].state = "READY"
    BY LeavingFacts, SMTT(30)
  <2>2. ~Saved(f)
    BY <2>1, Zenon DEF Saved
  <2>3. \A n \in Managers : mgr[n].set_wait_value # f
    BY <2>1, LeavingFacts, SMTT(30)
  <2>. QED
    BY <1>0, <2>1, <2>2, <2>3, ZenonT(30) DEF PlacesInv
<1>4. (\E m \in Managers : mgr[m].set_wait_value = f) =>
        /\ f \notin Waiters \cup Queued
        /\ \A g \in Fibers : fib[g].next # f
        /\ \A g \in Apps : join_info[g] # f
  <2>. SUFFICES ASSUME NEW m \in Managers, mgr[m].set_wait_value = f
                PROVE  /\ f \notin Waiters \cup Queued
                       /\ \A g \in Fibers : fib[g].next # f
                       /\ \A g \in Apps : join_info[g] # f
    BY Zenon
  <2>1. f \in {mgr[m].cur, mgr[m].old} /\ fib[f].state = "WAITING"
    BY LeavingFacts, SMTT(30)
  <2>2. ~Saved(f)
    BY <2>1, Zenon DEF Saved
  <2>. QED
    BY <1>0, <2>1, <2>2, ZenonT(30) DEF PlacesInv
<1>5. CASE InRunq(f, x) /\ InRunq(f, y)
  BY <1>5, Types, SMTT(30) DEF InRunq, RunqInv
<1>6. CASE InNext(f, x) /\ InNext(f, y)
  BY <1>0, <1>6, ZenonT(30) DEF InNext, PlacesInv
<1>7. CASE InSchedule(f, x) /\ InSchedule(f, y)
  <2>1. ASSUME NEW m \in Managers, NEW n \in Managers,
               mgr[m].to_schedule = f, mgr[n].to_schedule = f
        PROVE  m = n
    <3>1. mgr[m].old = f /\ mgr[n].old = f
      BY <2>1, LeavingFacts, SMTT(30)
    <3>. QED
      BY <1>0, <3>1, Apart, ZenonT(30)
  <2>. QED
    BY <1>7, <2>1, Zenon DEF InSchedule
<1>8. CASE InWaitq(f, x) /\ InWaitq(f, y)
  BY <1>8, Types, Zenon DEF InWaitq, WaitqInv
<1>9. CASE InJoin(f, x) /\ InJoin(f, y)
  <2>1. \A g, h \in Apps : join_info[g] = f /\ join_info[h] = f => g = h
    BY <1>0, ZenonT(30) DEF PlacesInv
  <2>. QED
    BY <1>9, <2>1, Zenon DEF InJoin
<1>10. CASE InSetWait(f, x) /\ InSetWait(f, y)
  <2>1. ASSUME NEW m \in Managers, NEW n \in Managers,
               mgr[m].set_wait_value = f, mgr[n].set_wait_value = f
        PROVE  m = n
    <3>1. f \in {mgr[m].cur, mgr[m].old} /\ f \in {mgr[n].cur, mgr[n].old}
      BY <2>1, LeavingFacts, SMTT(30)
    <3>2. /\ mgr[m].cur = mgr[n].cur => m = n
          /\ mgr[m].old = mgr[n].old /\ mgr[m].old # Null => m = n
          /\ mgr[m].old # mgr[n].cur /\ mgr[n].old # mgr[m].cur
      BY Apart, ZenonT(30)
    <3>. QED
      BY <1>0, <3>1, <3>2, ZenonT(30)
  <2>. QED
    BY <1>10, <2>1, Zenon DEF InSetWait
<1>. QED
  BY <1>1, <1>2, <1>3, <1>4, <1>5, <1>6, <1>7, <1>8, <1>9, <1>10, PlaceKinds, ZenonT(30)

(* A fiber that no thread executes and that is in no such place is done.   *)
LEMMA SomeKind ==
  ASSUME KernelInv, NEW f \in Apps, ~IsCurrent(f), RunPlaces(f) \cup WaitPlaces(f) = {}
  PROVE  fib[f].state = "freed" \/ \E m \in Managers : mgr[m].done_fiber = f
<1>1. \A x : ~(\/ InRunq(f, x) \/ InNext(f, x) \/ InSchedule(f, x)
               \/ InWaitq(f, x) \/ InJoin(f, x) \/ InSetWait(f, x))
  BY PlaceKinds, ZenonT(30)
<1>2. f \notin Queued
  BY <1>1, Zenon DEF InRunq, Queued
<1>3. f \notin Waiters
  BY <1>1, Zenon DEF InWaitq, Waiters
<1>4. \A g \in Fibers : fib[g].next # f
  BY <1>1, Zenon DEF InNext
<1>5. \A m \in Managers : mgr[m].to_schedule # f /\ mgr[m].set_wait_value # f
  BY <1>1, Zenon DEF InSchedule, InSetWait
<1>6. \A g \in Apps : join_info[g] # f
  BY <1>1, ZenonT(30) DEF InJoin
<1>7. fib[f].state \in States /\ fib[f].state # "none"
  BY FibTypes, Zenon DEF FiberRecord, KernelInv, RecordInv, RecordOK, Fibers
<1>. QED
  BY <1>2, <1>3, <1>4, <1>5, <1>6, <1>7, ZenonT(30) DEF KernelInv, FoundInv, States, IsCurrent

-----------------------------------------------------------------------------
(* A step that writes at most lock_using keeps the invariant.              *)
LEMMA SameKeeps ==
  ASSUME KernelInv, lock_using' \in {-1, 0, 1},
         UNCHANGED <<fib, mgr, runq, from, waitq, join_info, detach_state, todo>>
  PROVE  KernelInv'
<1>0. /\ KernelTypes /\ QueuesInv /\ RecordInv /\ CallsInv
      /\ ThreadsInv /\ LeavingInv /\ LocationsInv /\ PlacesInv /\ FoundInv
  BY ZenonT(30) DEF KernelInv
<1>1. KernelTypes'
  BY <1>0, ZenonT(30) DEF KernelTypes, RunqTypes, WaitqTypes
<1>2. QueuesInv'
  BY <1>0, SMTT(30) DEF QueuesInv, RunqInv, WaitqInv
<1>3. RecordInv' /\ CallsInv'
  <2>1. RecordInv'
    BY <1>0, ZenonT(30) DEF RecordInv
  <2>2. CallsInv'
    BY <1>0, ZenonT(30) DEF CallsInv, CallOK, Place
  <2>. QED
    BY <2>1, <2>2, Zenon
<1>4. ThreadsInv' /\ LeavingInv' /\ LocationsInv'
  <2>1. ThreadsInv'
    BY <1>0, SMTT(30) DEF ThreadsInv
  <2>2. LeavingInv'
    BY <1>0, SMTT(30) DEF LeavingInv
  <2>3. LocationsInv'
    BY <1>0, SMTT(30) DEF LocationsInv
  <2>. QED
    BY <2>1, <2>2, <2>3, Zenon
<1>5. Queued' = Queued /\ Waiters' = Waiters /\ \A f \in Apps : Saved(f)' = Saved(f)
  BY Zenon DEF Queued, Waiters, Saved
<1>6. PlacesInv'
  BY <1>0, <1>5, SMTT(30) DEF PlacesInv
<1>7. FoundInv'
  BY <1>0, <1>5, ZenonT(30) DEF FoundInv
<1>. QED
  BY <1>1, <1>2, <1>3, <1>4, <1>6, <1>7, ZenonT(30) DEF KernelInv

(* Programs only get shorter.                                              *)
Dwindles == \A g \in Apps : CallsBarrier(g)' => CallsBarrier(g)

(* A call that returns leaves the rest of the program.                     *)
LEMMA ReturnDwindles ==
  ASSUME KernelInv, NEW f \in Apps, Return(f)
  PROVE  Dwindles
<1>1. PICK k \in 1 .. Len(todo[f]) : todo' = [todo EXCEPT ![f] = SubSeq(@, k + 1, Len(@))]
  BY Zenon DEF Return
<1>2. todo \in [Apps -> Seq(CallSet)]
  BY Types, ZenonT(30)
<1>3. /\ \A g \in Apps : g # f => todo'[g] = todo[g]
      /\ todo'[f] = SubSeq(todo[f], k + 1, Len(todo[f]))
  BY <1>1, <1>2, ZenonT(30)
<1>4. ASSUME NEW j \in DOMAIN todo'[f]
      PROVE  k + j \in DOMAIN todo[f] /\ todo'[f][j] = todo[f][k + j]
  <2>1. todo[f] \in Seq(CallSet) /\ Len(todo[f]) \in Nat
    BY <1>2, SMTT(30)
  <2>. QED
    BY <1>3, <2>1, SMTT(30)
<1>5. ASSUME CallsBarrier(f)' PROVE CallsBarrier(f)
  <2>1. PICK j \in DOMAIN todo'[f] : todo'[f][j][1] = "barrier"
    BY <1>5, ZenonT(30) DEF CallsBarrier
  <2>. QED
    BY <1>4, <2>1, ZenonT(30) DEF CallsBarrier
<1>. QED
  BY <1>3, <1>5, ZenonT(30) DEF Dwindles, CallsBarrier

(* A step that leaves the programs alone.                                  *)
LEMMA SameDwindles ==
  ASSUME UNCHANGED todo
  PROVE  Dwindles
  BY ZenonT(30) DEF Dwindles, CallsBarrier

(* A failed trylock is tried again as a lock.                              *)
LEMMA TryLockDwindles ==
  ASSUME KernelInv, NEW m \in Managers, NEW f \in Apps, Calls(m, f, "run", "trylock"), TryLockFails(m, f)
  PROVE  Dwindles
<1>1. /\ todo \in [Apps -> Seq(CallSet)] /\ todo[f] # <<>>
      /\ todo' = [todo EXCEPT ![f] = <<<<"lock", Null>>>> \o Tail(@)]
  BY Types, ZenonT(30) DEF Calls, TryLockFails
<1>2. /\ \A g \in Apps : g # f => todo'[g] = todo[g]
      /\ todo'[f] = <<<<"lock", Null>>>> \o Tail(todo[f])
  BY <1>1, ZenonT(30)
<1>3. ASSUME NEW j \in DOMAIN todo'[f], todo'[f][j][1] = "barrier"
      PROVE  j \in DOMAIN todo[f] /\ todo'[f][j] = todo[f][j]
  <2>1. todo[f] \in Seq(CallSet) /\ Len(todo[f]) \in Nat \ {0} /\ Tail(todo[f]) \in Seq(CallSet)
    BY <1>1, SMTT(30)
  <2>2. j \in 1 .. Len(todo[f]) /\ j # 1
    <3>1. j \in 1 .. 1 + Len(Tail(todo[f]))
      BY <1>2, <2>1, SMTT(30)
    <3>2. j = 1 => todo'[f][j] = <<"lock", Null>>
      BY <1>2, <2>1, SMTT(30)
    <3>. QED
      BY <1>3, <2>1, <3>1, <3>2, SMTT(30)
  <2>. QED
    BY <1>2, <2>1, <2>2, SMTT(30)
<1>. QED
  BY <1>2, <1>3, ZenonT(30) DEF Dwindles, CallsBarrier

(* No step of a thread adds a barrier call to a program.                   *)
LEMMA StepDwindles ==
  ASSUME KernelInv, NEW m \in Managers, ManagerStep(m)
  PROVE  Dwindles /\ parties' = parties
<1>1. CASE MutexStep(m) /\ UNCHANGED bvars
  <2>1. PICK f \in Apps \cap {mgr[m].cur} :
          UNCHANGED todo \/ Return(f) \/ (Calls(m, f, "run", "trylock") /\ TryLockFails(m, f))
    BY <1>1, ZenonT(30) DEF MutexStep, Returns, jvars
  <2>. QED
    BY <1>1, <2>1, SameDwindles, ReturnDwindles, TryLockDwindles, ZenonT(30) DEF bvars
<1>2. CASE BarrierStep(m)
  <2>1. PICK f \in Apps \cap {mgr[m].cur} : UNCHANGED todo \/ Return(f)
    BY <1>2, ZenonT(30) DEF BarrierStep, Returns, jvars
  <2>2. parties' = parties
    BY <1>2, ZenonT(30) DEF BarrierStep, Arrive, Leave, bvars
  <2>. QED
    BY <2>1, <2>2, SameDwindles, ReturnDwindles, ZenonT(30)
<1>3. CASE JoinStep(m) /\ UNCHANGED bvars
  <2>1. \E f \in Apps : UNCHANGED todo \/ Return(f)
    <3>1. CASE MainYields(m)
      BY <3>1, ManagerAssumption, ZenonT(30) DEF MainYields, jvars
    <3>2. CASE ~MainYields(m)
      <4>1. PICK f \in Apps \cap {mgr[m].cur} :
              \/ JoinCheck(m, f) \/ JoinExchange(m, f) \/ JoinReturns(m, f)
              \/ TryJoinCheck(m, f) \/ TryJoinExchange(m, f) \/ Detach(m, f)
              \/ Clear(m, f) \/ ClearWaits(m, f) \/ Yield(m, f)
              \/ Finish(m, f) \/ FinishExchange(m, f)
              \/ Answer(m, f) \/ AnswerWaits(m, f) \/ Done(m, f)
        BY <1>3, <3>2, Zenon DEF JoinStep
      <4>2. UNCHANGED todo \/ Return(f)
        BY <4>1, ZenonT(30) DEF JoinCheck, JoinExchange, JoinReturns, TryJoinCheck, TryJoinExchange, Detach,
           Clear, ClearWaits, Yield, Finish, FinishExchange, Answer, AnswerWaits, Done, jvars
      <4>. QED
        BY <4>2, ZenonT(30)
    <3>. QED
      BY <3>1, <3>2, ZenonT(30)
  <2>. QED
    BY <1>3, <2>1, SameDwindles, ReturnDwindles, ZenonT(30) DEF bvars
<1>4. CASE UNCHANGED <<mvars, bvars, jvars>>
  BY <1>4, SameDwindles, ZenonT(30) DEF bvars, jvars
<1>. QED
  BY <1>1, <1>2, <1>3, <1>4, Zenon DEF ManagerStep

(* Every fiber that may still call the barrier stays one of its parties.   *)
LEMMA PartiesKept ==
  ASSUME PartiesInv, Dwindles, parties' = parties
  PROVE  PartiesInv'
  BY ZenonT(30) DEF PartiesInv, Dwindles, Count

=============================================================================
