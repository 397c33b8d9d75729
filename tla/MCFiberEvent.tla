---------------------------- MODULE MCFiberEvent ----------------------------
(***************************************************************************)
(* Requests to sleep, in units scaled down to Kilo = 2: one that rounding  *)
(* down would cut short for each shim, and ones of the same wake time.     *)
(***************************************************************************)
EXTENDS FiberEvent

Call(call, sec, usec, nsec) == [call |-> call, sec |-> sec, usec |-> usec, nsec |-> nsec]

SmallRequests ==
  {Call("nanosleep", 0, 0, 1), Call("usleep", 0, 1, 0), Call("usleep", 0, 3, 0),
   Call("sleep", 1, 0, 0), Call("nanosleep", 1, 0, 0), Call("usleep", 0, 4, 0)}
=============================================================================
