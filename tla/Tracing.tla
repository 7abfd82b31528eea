------------------------------- MODULE Tracing -------------------------------
(***************************************************************************)
(* Traces and spans: the thread-local SpanBuffer g_trace (span_buffer.cpp) *)
(* and the scope objects that open and close it (ScopedTrace, ScopedSpan,  *)
(* ScopedHttpSpan, record_span of forge_ops_tracker.cpp).                  *)
(*                                                                         *)
(* Only its own thread touches a SpanBuffer, so each constructor,          *)
(* destructor and call is one step.  Scope objects can be held on the      *)
(* heap, so they may be destroyed in any order and on any thread.  An id   *)
(* is a number never used before (the code draws it at random); a trace is *)
(* known by the id of its root span.  The remote parent, names, kinds,     *)
(* times and data are left out.                                            *)
(***************************************************************************)
EXTENDS Application, Integers, SequencesExt

CONSTANTS
  MaxSpans,   \* SpanBuffer::max_spans
  MaxIds,     \* bounds the span ids drawn
  MaxOwners   \* bounds the ScopedTrace objects made outside a trace

ASSUME TracingAssumption ==
  MaxSpans \in Nat \ {0} /\ MaxIds \in Nat /\ MaxOwners \in Nat

VARIABLES
  trace,   \* g_trace of each thread: a set of at most one SpanBuffer
  scopes,  \* live ScopedSpan objects that have a span id, nested ScopedTraces included
  owners,  \* how many ScopedTrace objects made outside a trace are live (owns_trace_)
  nextId,  \* the next id drawn
  made,    \* ScopedTrace objects made outside a trace so far
  \* What happened, for the properties only:
  under,     \* for each id, the spans open around it when it was drawn, innermost last
  home,      \* for each id, the root id of the trace it was drawn for
  closed,    \* the ids whose span ended, in that order, each with the trace open there
  dropped,   \* ids not recorded because their trace was full
  finished   \* the traces that ended: what their buffer held, and what was sent

drawn == <<nextId, under, home>>
ended == <<closed, dropped>>
traceVars == <<trace, scopes, owners, made, drawn, ended, finished>>

Ids == 1..MaxIds
SpanRecords == [id : Ids, parent : Ids]
SpanEnds == [id : Ids, in : Ids]
Buffers ==
  [root : Ids, send : BOOLEAN, spans : Seq(SpanRecords), open : Seq(Ids)]

FinishedTraces == [buffer : Buffers, by : Callers, slow : BOOLEAN, sent : BOOLEAN]

TraceTypeOK ==
  /\ trace \in [Callers -> SUBSET Buffers]
  /\ \A t \in Callers : \A b, c \in trace[t] : b = c
  /\ scopes \subseteq Ids /\ dropped \subseteq Ids
  /\ nextId \in 1..(MaxIds + 1) /\ made \in 0..MaxOwners /\ owners \in 0..made
  /\ under \in Seq(Seq(Ids)) /\ home \in Seq(Ids)
  /\ Len(under) = nextId - 1 /\ Len(home) = nextId - 1
  /\ closed \in Seq(SpanEnds) /\ finished \in Seq(FinishedTraces)

TraceInit ==
  /\ trace = [t \in Callers |-> {}]
  /\ scopes = {} /\ owners = 0 /\ nextId = 1 /\ made = 0
  /\ under = <<>> /\ home = <<>> /\ closed = <<>> /\ dropped = {} /\ finished = <<>>

\* Where an id is on a stack, 0 where it is not; ids are never drawn twice.
Position(stack, id) == IF \E i \in DOMAIN stack : stack[i] = id
                       THEN CHOOSE i \in DOMAIN stack : stack[i] = id ELSE 0

Without(stack, id) == IF Position(stack, id) = 0 THEN stack
                      ELSE RemoveAt(stack, Position(stack, id))

\* A fresh id in the trace with this root, inside the spans of this stack.
Draw(root, stack) ==
  /\ nextId \in Ids
  /\ nextId' = nextId + 1
  /\ under' = Append(under, stack)
  /\ home' = Append(home, root)

-----------------------------------------------------------------------------
(* SpanBuffer *)

\* Mutant: the root's place is not kept free.
RecordNoRoom(b, id, parent) ==
  IF Len(b.spans) >= MaxSpans THEN b
  ELSE [b EXCEPT !.spans = Append(@, [id |-> id, parent |-> parent])]

\* Only the root still fits.
Full(b) == Len(b.spans) >= MaxSpans - 1

\* record()
Record(b, id, parent) ==
  IF Full(b) THEN b
  ELSE [b EXCEPT !.spans = Append(@, [id |-> id, parent |-> parent])]

\* Mutant: a span with nothing below it has no parent.
InsideNothing(b, i) == IF i = 0 THEN 0 ELSE b.open[i]

\* The i-th open span; below all of them is the root.
Inside(b, i) == IF i = 0 THEN b.root ELSE b.open[i]

\* Mutant: the parent is whatever is open now.
CloseUnderTop(b, id) ==
  LET left == Without(b.open, id)
  IN  Record([b EXCEPT !.open = left], id, Inside([b EXCEPT !.open = left], Len(left)))

\* close(): the parent is the entry below the span's own; a span that is not on
\* this buffer's stack is recorded under the root.
Close(b, id) ==
  LET i == Position(b.open, id)
  IN  Record([b EXCEPT !.open = Without(@, id)], id, Inside(b, IF i = 0 THEN 0 ELSE i - 1))

CurrentParent(b) == Inside(b, Len(b.open))

\* finish(): the root first, then the spans as they were recorded.
Payload(b) == <<[id |-> b.root, parent |-> 0]>> \o b.spans

-----------------------------------------------------------------------------
(* The scope objects and record_span *)

\* ScopedTrace outside a trace: it owns whatever it starts, and starts nothing
\* where reporting is not enabled.
TraceBegin(t) ==
  /\ trace[t] = {} /\ made < MaxOwners
  /\ made' = made + 1
  /\ owners' = owners + 1
  /\ \/ UNCHANGED <<trace, drawn>>
     \/ /\ Draw(nextId, <<>>)
        /\ \E send \in BOOLEAN :
             trace' = [trace EXCEPT ![t] =
               {[root |-> nextId, send |-> send, spans |-> <<>>, open |-> <<>>]}]
  /\ UNCHANGED <<scopes, ended, finished>>

\* ScopedSpan, and a ScopedTrace nested in a trace.  Outside a trace the span id
\* stays empty and the object does nothing, then or later.
SpanBegin(t) ==
  /\ \E b \in trace[t] :
       /\ Draw(b.root, b.open)
       /\ trace' = [trace EXCEPT ![t] = {[b EXCEPT !.open = Append(@, nextId)]}]
  /\ scopes' = scopes \cup {nextId}
  /\ UNCHANGED <<owners, made, ended, finished>>

\* The span of this id ends in the trace b.
EndSpan(b, id) ==
  /\ closed' = Append(closed, [id |-> id, in |-> b.root])
  /\ dropped' = IF Full(b) THEN dropped \cup {id} ELSE dropped

\* ~ScopedSpan on thread t: recorded in the trace open there now, if there is one.
SpanEnd(t) ==
  /\ \E id \in scopes :
       /\ scopes' = scopes \ {id}
       /\ \/ trace[t] = {} /\ UNCHANGED <<trace, ended>>
          \/ \E b \in trace[t] :
               /\ trace' = [trace EXCEPT ![t] = {Close(b, id)}]
               /\ EndSpan(b, id)
  /\ UNCHANGED <<owners, made, drawn, finished>>

\* record_span and record_database_span; nothing happens outside a trace.
RecordSpan(t) ==
  /\ \E b \in trace[t] :
       /\ Draw(b.root, b.open)
       /\ trace' = [trace EXCEPT ![t] = {Record(b, nextId, CurrentParent(b))}]
       /\ EndSpan(b, nextId)
  /\ UNCHANGED <<scopes, owners, made, finished>>

\* Mutant: a trace that was not to be sent is, when it was slow.
SentWhenSlow(b, slow) == slow

\* finish() sends a trace that was to be sent when it began and took as long as
\* the threshold.
Sent(b, slow) == b.send /\ slow

\* ~ScopedTrace of an owner on thread t, up to finish().
TraceEnd(t) ==
  /\ owners > 0 /\ owners' = owners - 1
  /\ trace' = [trace EXCEPT ![t] = {}]
  /\ \/ trace[t] = {} /\ UNCHANGED finished
     \/ \E b \in trace[t], slow \in BOOLEAN :
          finished' = Append(finished, [buffer |-> b, by |-> t, slow |-> slow, sent |-> Sent(b, slow)])
  /\ UNCHANGED <<scopes, made, drawn, ended>>

TraceStep(t) == TraceBegin(t) \/ SpanBegin(t) \/ SpanEnd(t) \/ RecordSpan(t)

TraceNext == \E t \in Callers : TraceStep(t) \/ TraceEnd(t)

TraceSpec == TraceInit /\ [][TraceNext]_traceVars

-----------------------------------------------------------------------------

\* Every trace there has been: those that ended and those still open.
AllBuffers == {f.buffer : f \in ToSet(finished)} \cup UNION {trace[t] : t \in Callers}

\* When the span of this id ended (leaves when they were recorded), 0 if it has not.
EndOf(id) == LET at == {k \in DOMAIN closed : closed[k].id = id}
             IN  IF at = {} THEN 0 ELSE CHOOSE k \in at : TRUE

\* x ended on its own trace before the span of this id did.
EndedBefore(x, id) ==
  /\ EndOf(x) # 0 /\ EndOf(x) < EndOf(id)
  /\ closed[EndOf(x)].in = home[x]

\* The innermost of the spans that were open around this one when it started and
\* were still open when it ended, in the trace it was drawn for; else the root.
RightParent(r, root) ==
  LET around == {k \in DOMAIN under[r.id] : ~EndedBefore(under[r.id][k], r.id)}
  IN  r.parent = IF home[r.id] = root /\ around # {} THEN under[r.id][Max(around)] ELSE root

\* A span's parent is the innermost of the spans that were open around it when it
\* started and were still open when it ended: with scopes that nest, the innermost
\* when it started.  A span that ends in a trace it did not start in goes under
\* that trace's root.
ParentWasOpen == \A b \in AllBuffers : \A r \in ToSet(b.spans) : RightParent(r, b.root)

\* What is sent is one tree below the root, within the limit and each span once
\* in all traces together; a parent that is missing was dropped at the limit or
\* is a span that did not end in this trace.
PayloadIsTree ==
  /\ \A b \in AllBuffers :
       /\ Len(Payload(b)) <= MaxSpans
       /\ \A r \in ToSet(b.spans) :
            /\ r.parent = b.root \/ r.parent < r.id
            /\ r.parent \in {s.id : s \in ToSet(Payload(b))} \cup dropped \cup ToSet(b.open)
  /\ \A b, c \in AllBuffers : \A i \in DOMAIN b.spans, k \in DOMAIN c.spans :
       b.spans[i].id = c.spans[k].id => b = c /\ i = k

=============================================================================
