------------------------- MODULE MCPerformanceFlusher -------------------------
(* PerformanceFlusher for TLC: model values for threads and names come from   *)
(* the cfg; both are interchangeable.                                         *)
EXTENDS PerformanceFlusher, TLC

ThreadAndNameSymmetry == Permutations(Callers) \cup Permutations(Names)

=============================================================================
