------------------------------- MODULE FiberIo -------------------------------
(***************************************************************************)
(* Blocking calls on a descriptor: the shims of fiber_io.c over the epoll  *)
(* backend of fiber_event_native.c, for one descriptor number (each number *)
(* has its own entry of fd_info and wait_info).  What info->spinlock       *)
(* covers is one step; a waiter keeps that lock until its context is saved *)
(* (spinlock_to_unlock).  The kernel's descriptor and its epoll            *)
(* registration are external.                                              *)
(***************************************************************************)
EXTENDS Naturals, FiniteSets

CONSTANTS Readers,      \* fibers that call read (readv, recv, ...)
          Writers,      \* fibers that call write (writev, send, ...)
          Acceptors,    \* fibers that call accept
          Connectors,   \* fibers that call connect
          Closers,      \* fibers that call close and socket
          Pollers,      \* threads that poll for events
          Racing        \* may close run while others are inside calls?

Fibers == Readers \cup Writers \cup Acceptors \cup Connectors \cup Closers
Events == {"in", "out"}
AllFlags == {"BLOCKING", "WAITABLE"}

ASSUME IoAssumption ==
  /\ IsFiniteSet(Fibers)
  /\ Readers \cap Acceptors = {} /\ Writers \cap Connectors = {}
  /\ (Readers \cup Acceptors) \cap (Writers \cup Connectors) = {}
  /\ Racing \in BOOLEAN

VARIABLES
  open, ready,          \* kernel: is the number in use, and its readiness
  registered, interest, \* kernel: its epoll registration
  flags,                \* fd_info[fd].flags_
  events, added,        \* wait_info[fd]
  waiters,              \* wait_info[fd].waiters
  idle,                 \* threads that found nothing to run, and poll
  got,                  \* events a poller got from epoll_wait
  pc

kernel == <<open, ready, registered, interest>>
info == <<events, added, waiters>>
poll == <<idle, got>>
iovars == <<kernel, info, flags, poll, pc>>

IoInit ==
  /\ open = TRUE /\ ready = {}
  /\ registered = FALSE /\ interest = {}
  /\ flags = AllFlags
  /\ events = {} /\ added = FALSE /\ waiters = {}
  /\ idle = {} /\ got = [p \in Pollers |-> {}]
  /\ pc = [f \in Fibers |-> "idle"]

GoTo(f, place) == pc' = [pc EXCEPT ![f] = place]

Want(f) == IF f \in Writers \cup Connectors THEN "out" ELSE "in"

\* "again" is idle, after a call that failed with EAGAIN or EINPROGRESS.
Idle(f) == pc[f] \in {"idle", "again"}

\* Outside of a racing run nobody starts a call on a number that is being
\* closed, or closes one while others are inside calls but not waiting.
MayCall == Racing \/ \A f \in Closers : pc[f] \notin {"clear", "close"}
MayClose == Racing \/ \A f \in Fibers : Idle(f) \/ pc[f] = "parked"

-----------------------------------------------------------------------------
(* The kernel.                                                             *)

Arrives ==
  /\ open
  /\ \E e \in Events \ ready : ready' = ready \cup {e}
  /\ UNCHANGED <<open, registered, interest, info, flags, poll, pc>>

\* epoll_ctl; its failures are ignored by the callers.
Add(wanted) ==
  /\ registered' = open
  /\ interest' = IF open /\ ~registered THEN wanted ELSE interest

Mod(wanted) ==
  /\ registered' = registered
  /\ interest' = IF registered THEN wanted ELSE interest

-----------------------------------------------------------------------------
(* The shims.                                                              *)

\* Either flag will do.
ShouldBlock == flags \cap AllFlags # {}

\* read waits before its first attempt.
CallRead(f) ==
  /\ f \in Readers /\ Idle(f) /\ MayCall
  /\ GoTo(f, "test")
  /\ UNCHANGED <<kernel, info, flags, poll>>

ReadTest(f) ==
  /\ pc[f] = "test"
  /\ GoTo(f, IF ShouldBlock THEN "wait" ELSE "sys")
  /\ UNCHANGED <<kernel, info, flags, poll>>

\* write, accept and connect try first.
CallOther(f) ==
  /\ f \in Writers \cup Acceptors \cup Connectors /\ Idle(f) /\ MayCall
  /\ GoTo(f, "sys")
  /\ UNCHANGED <<kernel, info, flags, poll>>

\* recv and send with MSG_DONTWAIT never wait.
CallDontWait(f) ==
  /\ f \in Readers \cup Writers /\ Idle(f) /\ MayCall
  /\ GoTo(f, "once")
  /\ UNCHANGED <<kernel, info, flags, poll>>

InSystemCall(f) == pc[f] \in {"sys", "retry", "once"}

SysFails(f) ==
  /\ InSystemCall(f)
  /\ ~open
  /\ GoTo(f, "idle")
  /\ UNCHANGED <<kernel, info, flags, poll>>

SysSucceeds(f) ==
  /\ InSystemCall(f)
  /\ open /\ Want(f) \in ready
  /\ ready' \in {ready, IF f \in Connectors THEN ready ELSE ready \ {Want(f)}}
  /\ GoTo(f, "idle")
  /\ UNCHANGED <<open, registered, interest, info, flags, poll>>

\* read and write go round their loops; accept tries twice.
SysAgain(f) ==
  /\ InSystemCall(f)
  /\ open /\ Want(f) \notin ready
  /\ GoTo(f, IF ~ShouldBlock \/ pc[f] # "sys" THEN "again"
             ELSE IF f \in Readers THEN "test" ELSE "wait")
  /\ UNCHANGED <<kernel, info, flags, poll>>

-----------------------------------------------------------------------------
(* fiber_wait_for_event                                                    *)

\* registering for what this fiber wants only
EventsOwn(f) == {Want(f)}

EventsWith(f) == events \cup {Want(f)}

WaitForEvent(f) ==
  /\ pc[f] = "wait"
  /\ events' = EventsWith(f)
  /\ IF added THEN Mod(events') ELSE Add(events')
  /\ added' = TRUE
  /\ waiters' = waiters \cup {f}
  /\ GoTo(f, "parked")
  /\ UNCHANGED <<open, ready, flags, poll>>

\* The wait returns.  When the number was closed the call returns -1, with
\* whatever errno the thread has: that of the attempt before the wait, too.
WaitReturns(f) ==
  /\ \/ pc[f] = "closed" /\ (GoTo(f, "idle") \/ GoTo(f, "again"))
     \/ pc[f] = "woken" /\ GoTo(f, CASE f \in Acceptors  -> "retry"
                                     [] f \in Connectors -> "getsockopt"
                                     [] OTHER            -> "sys")
  /\ UNCHANGED <<kernel, info, flags, poll>>

\* connect does not try again; SO_ERROR decides what it returns.
ConnectResult(f) ==
  /\ pc[f] = "getsockopt"
  /\ GoTo(f, "idle")
  /\ UNCHANGED <<kernel, info, flags, poll>>

\* fiber_event_wake_waiters: everybody, whatever they wait for.
Wake(place) ==
  /\ waiters' = {}
  /\ pc' = [f \in Fibers |-> IF f \in waiters THEN place ELSE pc[f]]

(* fiber_poll_events_internal                                              *)

Reportable == registered /\ interest \cap ready # {}

\* epoll_wait; EPOLLONESHOT disarms what it reports.
Poll(p) ==
  /\ p \in idle /\ got[p] = {}
  /\ Reportable
  /\ got' = [got EXCEPT ![p] = interest \cap ready]
  /\ interest' = {}
  /\ UNCHANGED <<open, ready, registered, info, flags, idle, pc>>

Rearm(left) == IF left # {} THEN Mod(left) ELSE UNCHANGED <<registered, interest>>

\* One of the reported events; the thread goes on with others that were
\* reported with it, or returns to look for a fiber to run.
PollHandle(p) ==
  /\ got[p] # {}
  /\ events' = events \ got[p]
  /\ Rearm(events')
  /\ Wake("woken")
  /\ got' = [got EXCEPT ![p] = {}]
  /\ idle' \in {idle, idle \ {p}}
  /\ UNCHANGED <<open, ready, added, flags>>

-----------------------------------------------------------------------------
(* close, and socket giving out the same number again                      *)

\* forgetting that the number has to be added again
Forgotten == added' = added

Deleted == added' = FALSE

\* fiber_fd_closed.  The test of events and added only saves a system call:
\* when both are clear nothing is registered.
FdClosed(f) ==
  /\ f \in Closers /\ Idle(f) /\ open /\ MayClose
  /\ registered' = FALSE /\ interest' = {}
  /\ events' = {} /\ Deleted
  /\ waiters' = {}
  /\ pc' = [g \in Fibers |-> IF g = f THEN "clear"
                             ELSE IF g \in waiters THEN "closed" ELSE pc[g]]
  /\ UNCHANGED <<open, ready, flags, poll>>

CloseFlags(f) ==
  /\ pc[f] = "clear"
  /\ flags' = {}
  /\ GoTo(f, "close")
  /\ UNCHANGED <<kernel, info, poll>>

\* The kernel's close also ends the registration.
Close(f) ==
  /\ pc[f] = "close"
  /\ open' = FALSE /\ ready' = {}
  /\ registered' = FALSE /\ interest' = {}
  /\ GoTo(f, "idle")
  /\ UNCHANGED <<info, flags, poll>>

\* socket and setup_socket
Socket(f) ==
  /\ f \in Closers /\ Idle(f) /\ ~open
  /\ open' = TRUE
  /\ flags' = AllFlags
  /\ UNCHANGED <<ready, registered, interest, info, poll, pc>>

(* fcntl(F_SETFL, O_NONBLOCK), ioctl(FIONBIO)                              *)

SetNonBlocking(f) ==
  /\ f \in Closers /\ Idle(f) /\ open
  /\ flags' = flags \ {"BLOCKING"}
  /\ UNCHANGED <<kernel, info, poll, pc>>

SetBlocking(f) ==
  /\ f \in Closers /\ Idle(f) /\ open
  /\ flags' = flags \cup {"BLOCKING"}
  /\ UNCHANGED <<kernel, info, poll, pc>>

-----------------------------------------------------------------------------
Continue(f) ==
  \/ ReadTest(f) \/ SysFails(f) \/ SysSucceeds(f) \/ SysAgain(f)
  \/ WaitForEvent(f) \/ WaitReturns(f) \/ ConnectResult(f)
  \/ CloseFlags(f) \/ Close(f)

Starts(f) ==
  \/ CallRead(f) \/ CallOther(f) \/ CallDontWait(f) \/ FdClosed(f)
  \/ Socket(f) \/ SetNonBlocking(f) \/ SetBlocking(f)

-----------------------------------------------------------------------------
\* Every variable has its type, and only fibers that are parked are queued.
IoTypeOK ==
  /\ {open, registered, added} \subseteq BOOLEAN
  /\ {ready, interest, events} \subseteq SUBSET Events
  /\ flags \subseteq AllFlags
  /\ got \in [Pollers -> SUBSET Events] /\ {p \in Pollers : got[p] # {}} \subseteq idle
  /\ waiters = {f \in Fibers : pc[f] = "parked"}

\* Variables have their types, and a fiber in fiber_wait_for_event is never
\* forgotten: epoll is armed for what it waits for, or a poller is about to
\* wake everybody.
NobodyForgotten ==
  /\ IoTypeOK
  /\ \A f \in waiters :
       \/ registered /\ Want(f) \in interest
       \/ \E p \in Pollers : got[p] # {}

\* A call on a blocking descriptor does not fail with EAGAIN (connect: with
\* EINPROGRESS), unless it asked to.  An accept does whose event another fiber
\* has used up, and so may a call whose number is closed while it waits.
BlockingCallsBlock ==
  [][\A f \in Fibers : pc'[f] = "again" /\ pc[f] \notin {"again", "once"}
                       => "BLOCKING" \notin flags]_iovars

\* connect goes by the result only of a connection that is made: nothing but
\* its own event ends its wait.  An event of an earlier descriptor of the
\* same number does, too.
ConnectMeansConnected ==
  [][\A f \in Connectors : pc[f] = "getsockopt" /\ pc'[f] = "idle"
                           => "out" \in ready \/ ~open]_iovars

\* A fiber that waits for what the descriptor is ready for is woken, unless
\* others use the readiness up: provided that again and again some thread
\* finds nothing to run, for only such a thread polls.
ReadyIsNoticed ==
  []<>(idle # {}) =>
    \A f \in Fibers : pc[f] = "parked" /\ Want(f) \in ready
                      ~> pc[f] # "parked" \/ Want(f) \notin ready
=============================================================================
