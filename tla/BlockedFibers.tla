---------------------------- MODULE BlockedFibers ----------------------------
(***************************************************************************)
(* What the primitives with one queue of blocked fibers have in common:    *)
(* the queue, and where each fiber is in the code of the primitive.        *)
(***************************************************************************)
EXTENDS Integers, FiniteSets, WaitQueue

CONSTANT Fibers

VARIABLES waiters,      \* the primitive's mpsc_fifo_t or mpmc_fifo_t
          pc

GoTo(f, place) == pc' = [pc EXCEPT ![f] = place]

=============================================================================
