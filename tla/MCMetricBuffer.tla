---------------------------- MODULE MCMetricBuffer ----------------------------
(* MetricBuffer for TLC: model values for the threads come from the cfg.      *)
EXTENDS MetricBuffer

\* Bound: a behaviour is not followed once two flushes overlap.  Every property is
\* about flushes that do not; what overlapping ones do is a run of its own.
NoOverlap == ~overlapped

=============================================================================
