----------------------------- MODULE MCLifecycle -----------------------------
(* Lifecycle for TLC: model values for the threads come from the cfg.        *)
EXTENDS Lifecycle, TLC

\* The other threads are interchangeable; only for runs without liveness properties.
OthersSymmetry == Permutations(Others)

=============================================================================
