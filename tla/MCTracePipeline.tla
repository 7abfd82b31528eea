--------------------------- MODULE MCTracePipeline ---------------------------
(* TracePipeline for TLC: model values for the threads come from the cfg.    *)
EXTENDS TracePipeline, TLC

\* Callers are interchangeable; only for runs without liveness properties.
CallerSymmetry == Permutations(Callers)

=============================================================================
