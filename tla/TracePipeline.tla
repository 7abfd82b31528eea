---------------------------- MODULE TracePipeline ----------------------------
(***************************************************************************)
(* Traces and the queue that takes them to the server: ~ScopedTrace hands  *)
(* a trace that was slow enough to span_queue().push() on the same thread. *)
(* A payload is the number of its trace in the order the traces ended.     *)
(***************************************************************************)
EXTENDS Tracing, SpanQueue

ASSUME PayloadsAssumption == Payloads = 1..MaxOwners

vars == <<traceVars, queueVars>>

TypeOK == TraceTypeOK /\ QueueTypeOK

Init == TraceInit /\ QueueInit

\* ~ScopedTrace: finish(), and push() when there is something to send.
EndAndPush(t) ==
  /\ TraceEnd(t)
  /\ IF finished' # finished /\ finished'[Len(finished')].sent
     THEN PushBegin(t, Len(finished'))
     ELSE pc[t] = "idle" /\ UNCHANGED queueVars

\* A thread inside push() or a shutdown is not in the application's code.
InApplication(t) ==
  /\ pc[t] = "idle"
  /\ TraceStep(t)
  /\ UNCHANGED queueVars

Next ==
  \/ \E t \in Callers : InApplication(t) \/ EndAndPush(t)
  \/ QueueStep /\ UNCHANGED traceVars

Spec == Init /\ [][Next]_vars

-----------------------------------------------------------------------------

\* The worker gets the traces that were to be sent and slow enough, each once,
\* and one thread's traces in the order they ended.
SlowTracesOnce ==
  /\ \A k \in DOMAIN payloads :
       LET f == finished[payloads[k]] IN f.buffer.send /\ f.slow
  /\ \A k, m \in DOMAIN payloads :
       k < m /\ finished[payloads[k]].by = finished[payloads[m]].by => payloads[k] < payloads[m]
  /\ \A k, m \in DOMAIN payloads : k # m =>
       finished[payloads[k]].buffer.root # finished[payloads[m]].buffer.root

=============================================================================
