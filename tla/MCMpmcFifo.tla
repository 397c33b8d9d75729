----------------------------- MODULE MCMpmcFifo -----------------------------
(* Nodes are interchangeable, and so are threads.                          *)
EXTENDS MpmcFifo, TLC

Symmetry == Permutations(Nodes) \cup Permutations(Threads)

=============================================================================
