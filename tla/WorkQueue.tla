------------------------------ MODULE WorkQueue ------------------------------
(***************************************************************************)
(* work_queue.c: fibers push work items; the one whose push finds the      *)
(* queue without a worker becomes the worker and takes items until         *)
(* get_work answers WORK_QUEUE_EMPTY.  Nobody blocks: whether there is a   *)
(* worker is told by in_count alone.                                       *)
(***************************************************************************)
EXTENDS ChannelFibers, WaitQueue

VARIABLES
  fifo,                 \* wq->fifo
  in_count, out_count,
  ret,                  \* START_WORKING or QUEUED, while pushing
  old                   \* old_out_count, while get_work gives up

wvars == <<fifo, in_count, out_count, ret, old>>

WorkInit ==
  /\ fifo = <<>>
  /\ in_count = 0 /\ out_count = 0
  /\ ret = [f \in Fibers |-> "QUEUED"]
  /\ old = 0

-----------------------------------------------------------------------------
(* work_queue_push, from "work"                                            *)

First(n) == n = 1

WorkCount(f) ==
  /\ pc[f] = "work" /\ sent[f] < MaxSends
  /\ in_count' = in_count + 1
  /\ ret' = [ret EXCEPT ![f] = IF First(in_count') THEN "START_WORKING" ELSE "QUEUED"]
  /\ GoTo(f, "workpush")
  /\ UNCHANGED <<fvars, fifo, out_count, old>>

WorkPush(f) ==
  /\ pc[f] = "workpush"
  /\ fifo' = Pushed(fifo, Message(f))
  /\ Sends(f)
  /\ GoTo(f, "worklink")
  /\ UNCHANGED <<in_count, out_count, ret, old>>

WorkLink(f) ==
  /\ pc[f] = "worklink"
  /\ fifo' = Linked(fifo, [from |-> f, n |-> sent[f]])
  /\ GoTo(f, IF ret[f] = "START_WORKING" THEN "getwork" ELSE "work")
  /\ ret' = [ret EXCEPT ![f] = "QUEUED"]
  /\ UNCHANGED <<fvars, in_count, out_count, old>>

-----------------------------------------------------------------------------
(* work_queue_get_work, by the worker until it answers WORK_QUEUE_EMPTY    *)

\* The pop, the increment of out_count, and the work itself.
WorkTake(f) ==
  LET message == Head(fifo).fiber IN
  /\ pc[f] = "getwork"
  /\ CanPop(fifo)
  /\ fifo' = Rest(fifo)
  /\ out_count' = out_count + 1
  /\ received' = [received EXCEPT ![message.from] = message.n]
  /\ UNCHANGED <<pc, sent, left, in_count, ret, old>>

\* Nothing to pop: either a push is under way, and get_work tries again, or
\* every counted item was taken.  The pop and the comparison are two steps.
WorkNone(f) ==
  /\ pc[f] = "getwork"
  /\ ~CanPop(fifo)
  /\ GoTo(f, "compare")
  /\ UNCHANGED <<fvars, wvars>>

WorkCompare(f) ==
  /\ pc[f] = "compare"
  /\ GoTo(f, IF out_count = in_count THEN "reset_out" ELSE "getwork")
  /\ UNCHANGED <<fvars, wvars>>

WorkReset(f) ==
  /\ pc[f] = "reset_out"
  /\ old' = out_count
  /\ out_count' = 0
  /\ GoTo(f, "subtract")
  /\ UNCHANGED <<fvars, fifo, in_count, ret>>

\* setting in_count to 0 instead of subtracting
RemainingNone == 0

Remaining == in_count - old

WorkSubtract(f) ==
  /\ pc[f] = "subtract"
  /\ in_count' = Remaining
  /\ old' = 0
  /\ GoTo(f, IF in_count' = 0 THEN "work" ELSE "getwork")
  /\ UNCHANGED <<fvars, fifo, out_count, ret>>

WorkStep(f) ==
  \/ WorkCount(f) \/ WorkPush(f) \/ WorkLink(f) \/ WorkTake(f) \/ WorkNone(f)
  \/ WorkCompare(f) \/ WorkReset(f) \/ WorkSubtract(f)

-----------------------------------------------------------------------------
\* Fibers that are, or are about to become, the worker.
Workers ==
  {f \in Fibers : \/ pc[f] \in {"getwork", "compare", "reset_out", "subtract"}
                  \/ pc[f] \in {"workpush", "worklink"} /\ ret[f] = "START_WORKING"}

\* WORK_QUEUE_START_WORKING is answered to one fiber at a time, so that the
\* fifo has a single consumer and out_count a single writer; and as long as
\* an item is counted there is such a fiber, so that none is left behind
\* when get_work answers WORK_QUEUE_EMPTY while others push.
OneWorker ==
  /\ \A f, g \in Workers : f = g
  /\ in_count > 0 <=> Workers # {}
  /\ Workers = {} => fifo = <<>> /\ out_count = 0

=============================================================================
