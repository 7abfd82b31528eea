------------------------- MODULE MetricBuffer_proofs -------------------------
(***************************************************************************)
(* Theorems about MetricBuffer, for every set of callers, every bound and  *)
(* every set of faults.                                                    *)
(***************************************************************************)
EXTENDS MetricBuffer, TLAPS

FlushPcs == {"flush", "deliver", "log"}
ClosePcs == {"stop", "join", "close"}

\* Who stands where, and what a thread in shutdown() or discard() has done so far.
PcInv ==
  /\ \A t \in Callers : pc[t] \in {"idle", "ensure"} \cup FlushPcs \cup ClosePcs
  /\ pc[Worker] \in {"off", "run", "caught", "exited"} \cup FlushPcs
  /\ ~workerStarted => pc[Worker] = "off"
  /\ pc[Worker] = "exited" => stopping
  /\ \A t \in Callers : pc[t] \in ClosePcs => closing[t] # "no"
  /\ \A t \in Callers : closing[t] # "no" => pc[t] \in FlushPcs \cup ClosePcs
  /\ \A t \in Callers : closing[t] # "no" /\ pc[t] \in FlushPcs => closing[t] = "shutdown"

WorkerGone == stopping /\ pc[Worker] \in {"off", "exited"}

\* The worker is gone from the join on.
CloseInv ==
  /\ \A t \in Callers : pc[t] = "join" => stopping
  /\ \A t \in Callers : closing[t] # "no" /\ pc[t] \in {"close"} \cup FlushPcs => WorkerGone
  /\ \A t \in Callers : closed[t] # "no" => WorkerGone
  /\ \A t \in Callers : closing[t] # "no" => closed[t] = "no"
  /\ \A t \in Callers : closed[t] = "discard" => discarded
  /\ \A t \in Callers : mark[t] <= recorded

\* A batch in flight is a stretch of recorded entries; while flushes do not overlap
\* it is the only one, and starts at the front of the buffer.
FlightInv ==
  /\ \A t \in Threads : InFlight(t) => 1 <= from[t] /\ from[t] <= upto[t] /\ upto[t] <= recorded
  /\ ~overlapped => \A t \in Threads : InFlight(t) => from[t] = erased + 1
  /\ ~overlapped => \A t, u \in Threads : InFlight(t) /\ InFlight(u) => t = u

\* What has become of each entry: nothing yet if it is not recorded; not taken by the
\* server while it is buffered; sent, unless discarded, once it has left.
FateInv ==
  /\ \A e \in Entries : e > recorded => attempts[e] = 0
  /\ ~overlapped => \A e \in Entries : e > erased => receipts[e] = 0
  /\ ~overlapped => \A e \in Entries : receipts[e] <= 1
  /\ ~overlapped => \A e \in Entries : e <= erased => receipts[e] > 0 \/ e \in excused
  /\ \A e \in Entries : receipts[e] > 0 \/ e \in excused => attempts[e] > 0 \/ discarded
  /\ \A t \in Threads : InFlight(t) => \A e \in Batch(t) : attempts[e] > 0

\* An entry has been sent at most once for each failure counted since it was recorded,
\* and once more if it is in flight.
AttemptInv ==
  ~overlapped /\ ~threw =>
    /\ \A e \in Entries : attempts[e] <= MaxFailures
    /\ \A e \in Entries : e > erased => attempts[e] <= failures + 1
    /\ \A e \in Entries : e > erased /\ (\A t \in Threads : ~InFlight(t)) => attempts[e] <= failures
    /\ \A t \in Threads : InFlight(t) => \A e \in Entries : e > upto[t] => attempts[e] = 0

\* A shutdown() past its snapshot, or returned, has sent everything recorded before it.
SendInv ==
  ~overlapped => \A t \in Callers :
    \/ closing[t] = "shutdown" /\ pc[t] \in {"deliver", "log"}
    \/ closed[t] = "shutdown"
    => \A e \in Entries : e <= mark[t] => attempts[e] > 0 \/ discarded

\* A discard() that has returned left nothing in the buffer.
DiscardInv ==
  ~overlapped => \A t \in Callers : closed[t] = "discard" =>
    /\ mark[t] <= erased
    /\ \A u \in Threads : InFlight(u) => from[u] > mark[t]

Inv ==
  /\ TypeOK /\ PcInv /\ CloseInv /\ FlightInv /\ FateInv /\ AttemptInv /\ SendInv /\ DiscardInv

-----------------------------------------------------------------------------
(* What a step can do to the entries and to the batches in flight *)

entries == <<erased, recorded, failures, from, upto, attempts, receipts, excused>>
Landed(t) ==
  /\ InFlight(t)
  /\ \A u \in Threads : pc'[u] = "deliver" <=> InFlight(u) /\ u # t
  /\ from' = [from EXCEPT ![t] = 0] /\ upto' = [upto EXCEPT ![t] = 0]
SameFlights == \A u \in Threads : pc'[u] = "deliver" <=> InFlight(u)

Quiet == SameFlights /\ UNCHANGED <<entries, overlapped, threw, discarded>>

Recorded ==
  /\ SameFlights /\ recorded' = recorded + 1
  /\ recorded < MaxRecords /\ recorded - erased < MaxEntries
  /\ UNCHANGED <<erased, failures, from, upto, attempts, receipts, excused, overlapped, threw,
                 discarded>>

Sent(t) ==
  /\ ~InFlight(t) /\ recorded > erased
  /\ \A u \in Threads : pc'[u] = "deliver" <=> InFlight(u) \/ u = t
  /\ from' = [from EXCEPT ![t] = erased + 1] /\ upto' = [upto EXCEPT ![t] = recorded]
  /\ attempts' = [e \in Entries |-> IF e \in (erased + 1)..recorded
                                    THEN SentOnce(attempts[e]) ELSE attempts[e]]
  /\ overlapped' = (overlapped \/ \E u \in Threads : InFlight(u))
  /\ UNCHANGED <<erased, recorded, failures, receipts, excused, threw, discarded>>

Kept(t) ==
  /\ Landed(t) /\ failures + 1 < MaxFailures /\ failures' = failures + 1
  /\ UNCHANGED <<erased, recorded, attempts, receipts, excused, overlapped, threw, discarded>>

Erased(t) ==
  \/ upto[t] - from[t] + 1 <= recorded - erased /\ erased' = erased + (upto[t] - from[t] + 1)
  \/ upto[t] - from[t] + 1 > recorded - erased /\ erased' = erased

Taken(t) ==
  /\ Landed(t) /\ failures' = 0 /\ Erased(t)
  /\ receipts' = [e \in Entries |-> IF e \in Batch(t) THEN receipts[e] + 1 ELSE receipts[e]]
  /\ UNCHANGED <<recorded, attempts, excused, overlapped, threw, discarded>>

Dropped(t) ==
  /\ Landed(t) /\ failures' = 0 /\ Erased(t)
  /\ excused' = excused \cup Batch(t)
  /\ UNCHANGED <<recorded, attempts, receipts, overlapped, threw, discarded>>

Failed(t) ==
  /\ Landed(t) /\ threw' = TRUE
  /\ UNCHANGED <<erased, recorded, failures, attempts, receipts, excused, overlapped, discarded>>

Discarded ==
  /\ SameFlights /\ failures' = 0 /\ erased' = recorded /\ discarded' = TRUE
  /\ excused' = excused \cup (erased + 1)..recorded
  /\ overlapped' = (overlapped \/ \E u \in Threads : InFlight(u))
  /\ UNCHANGED <<recorded, from, upto, attempts, receipts, threw>>

Effect ==
  \/ Quiet \/ Recorded \/ Discarded
  \/ \E t \in Threads : Sent(t) \/ Kept(t) \/ Taken(t) \/ Dropped(t) \/ Failed(t)

\* The ends of a batch are numbers.
LEMMA FlightNat ==
  ASSUME Inv
  PROVE  /\ \A t \in Threads : from[t] \in Nat /\ upto[t] \in Nat
         /\ recorded \in Nat /\ erased \in Nat /\ erased <= recorded /\ recorded <= MaxRecords
         /\ failures \in Nat /\ failures < MaxFailures
         /\ MaxRecords \in Nat /\ MaxEntries \in Nat /\ MaxFailures \in Nat /\ MaxFailures > 0
  BY MetricBoundsAssumption DEF Inv, TypeOK, BufferOK, NumbersOK

\* Every step has one of these effects on the entries.
LEMMA Effects == ASSUME Inv, [Next]_vars PROVE Effect
<1> USE DEF Effect, InFlight, Goto, At, buffer, flags, batches, calls, history, closings, Inv,
   TypeOK, ThreadsOK
<1>0. Worker \in Threads /\ Callers \subseteq Threads /\ Worker \notin Callers
  BY MetricThreadsAssumption DEF Threads
<1>1. CASE UNCHANGED vars
  BY <1>1 DEF vars, Quiet, SameFlights, entries
<1>2. ASSUME NEW t \in Callers, Record(t) PROVE Effect
  BY <1>2, <1>0 DEF Record, Recorded, SameFlights
<1>3. ASSUME NEW t \in Callers, EnsureWorkerStarted(t) PROVE Effect
  BY <1>3, <1>0 DEF EnsureWorkerStarted, Quiet, SameFlights, entries, PcInv
<1>4. ASSUME NEW t \in Callers, FlushBegin(t) PROVE Effect
  BY <1>4, <1>0 DEF FlushBegin, Quiet, SameFlights, entries, PcInv
<1>5. ASSUME NEW t \in Threads, FlushSnapshot(t) PROVE Effect
  <2>1. pc[t] = "flush" /\ UNCHANGED <<buffer, flags, calls, receipts, excused, threw, mark>>
    BY <1>5 DEF FlushSnapshot, At
  <2>2. CASE FlushReturn(t) /\ UNCHANGED <<batches, attempts, overlapped>>
    <3>1. SameFlights
      BY <1>0, <2>1, <2>2 DEF FlushReturn, SameFlights
    <3>2. QED
      BY <2>1, <2>2, <3>1 DEF Quiet, entries
  <2>3. CASE ~(FlushReturn(t) /\ UNCHANGED <<batches, attempts, overlapped>>)
    <3>1. Sent(t)
      BY <2>1, <2>3, <1>5 DEF FlushSnapshot, Sent
    <3>2. QED
      BY <3>1
  <2>4. QED
    BY <2>2, <2>3
<1>6. ASSUME NEW t \in Threads, FlushSettle(t) PROVE Effect
  <2>1. /\ pc[t] = "deliver"
        /\ from' = [from EXCEPT ![t] = 0] /\ upto' = [upto EXCEPT ![t] = 0]
        /\ UNCHANGED <<recorded, flags, calls, attempts, overlapped, threw, mark>>
    BY <1>6 DEF FlushSettle, At
  <2>2. CASE /\ failures' = 0 /\ EraseBatch(t) /\ FlushReturn(t) /\ UNCHANGED excused
             /\ receipts' = [e \in Entries |->
                              IF e \in Batch(t) THEN receipts[e] + 1 ELSE receipts[e]]
    <3>1. Erased(t)
      BY <2>2, FlightNat DEF EraseBatch, Erased
    <3>2. Landed(t)
      BY <1>0, <2>1, <2>2 DEF FlushReturn, Landed
    <3>3. Taken(t)
      BY <2>1, <2>2, <3>1, <3>2 DEF Taken
    <3>4. QED
      BY <3>3
  <2>3. CASE RetriesLeft /\ failures' = failures + 1 /\ FlushReturn(t)
             /\ UNCHANGED <<erased, process, receipts, excused>>
    <3>1. Landed(t)
      BY <1>0, <2>1, <2>3 DEF FlushReturn, Landed
    <3>2. Kept(t)
      BY <2>1, <2>3, <3>1 DEF Kept, RetriesLeft
    <3>3. QED
      BY <3>2
  <2>4. CASE LetGo(t)
    <3>1. Erased(t)
      BY <2>4, FlightNat DEF LetGo, EraseBatch, Erased
    <3>2. Landed(t)
      BY <1>0, <2>1, <2>4 DEF LetGo, Landed
    <3>3. Dropped(t)
      BY <2>1, <2>4, <3>1, <3>2 DEF Dropped, LetGo
    <3>4. QED
      BY <3>3
  <2>5. QED
    BY <1>6, <2>2, <2>3, <2>4 DEF FlushSettle
<1>7. ASSUME NEW t \in Threads, FlushThrows(t) PROVE Effect
  BY <1>7, <1>0 DEF FlushThrows, FlushException, FlushReturn, Failed, Landed, entries
<1>8. ASSUME NEW t \in Threads, FlushLog(t) PROVE Effect
  BY <1>8, <1>0 DEF FlushLog, FlushException, FlushReturn, Quiet, SameFlights, entries, PcInv
<1>9. CASE WorkerLoop
  BY <1>9, <1>0 DEF WorkerLoop, Quiet, SameFlights, entries, PcInv
<1>10. CASE WorkerCaught
  BY <1>10, <1>0 DEF WorkerCaught, Quiet, SameFlights, entries, PcInv
<1>11. ASSUME NEW t \in Callers, NEW how \in {"shutdown", "discard"}, CloseBegin(t, how)
      PROVE  Effect
  BY <1>11, <1>0 DEF CloseBegin, Quiet, SameFlights, entries, PcInv
<1>12. ASSUME NEW t \in Callers, Stop(t) PROVE Effect
  BY <1>12, <1>0 DEF Stop, Quiet, SameFlights, entries, PcInv
<1>13. ASSUME NEW t \in Callers, Join(t) PROVE Effect
  BY <1>13, <1>0 DEF Join, Quiet, SameFlights, entries, PcInv
<1>14. ASSUME NEW t \in Callers, ShutdownLocked(t) PROVE Effect
  BY <1>14, <1>0 DEF ShutdownLocked, FlushReturn, Quiet, SameFlights, entries, PcInv
<1>15. ASSUME NEW t \in Callers, DiscardLocked(t) PROVE Effect
  BY <1>15, <1>0 DEF DiscardLocked, FlushReturn, Discarded, SameFlights
<1>16. QED
  BY <1>1, <1>2, <1>3, <1>4, <1>5, <1>6, <1>7, <1>8, <1>9, <1>10, <1>11, <1>12, <1>13, <1>14, <1>15
     DEF Next, FlushStep, CloseStep, WorkerStep

-----------------------------------------------------------------------------
(* The invariant holds initially *)

\* Nothing is recorded and no thread has called anything.
LEMMA InitInv == Init => Inv
<1> SUFFICES ASSUME Init PROVE Inv
  OBVIOUS
<1>0. Worker \in Threads /\ Callers \subseteq Threads /\ Worker \notin Callers
  BY MetricThreadsAssumption DEF Threads
<1>1. BufferOK /\ NumbersOK
  BY MetricBoundsAssumption, <1>0 DEF Init, BufferOK, NumbersOK, Entries
<1>2. FlagsOK
  BY DEF Init, FlagsOK
<1>3. ThreadsOK
  BY <1>0 DEF Init, ThreadsOK, Pcs, Closings
<1>4. PcInv /\ CloseInv
  BY <1>0 DEF Init, PcInv, CloseInv, FlushPcs, ClosePcs
<1>5. \A t \in Threads : ~InFlight(t)
  BY <1>0 DEF Init, InFlight
<1>6. FlightInv /\ FateInv
  BY <1>5 DEF Init, FlightInv, FateInv, Entries
<1>7. AttemptInv
  BY <1>5, MetricBoundsAssumption DEF Init, AttemptInv, Entries
<1>8. SendInv /\ DiscardInv
  BY <1>0 DEF Init, SendInv, DiscardInv
<1>9. QED
  BY <1>1, <1>2, <1>3, <1>4, <1>6, <1>7, <1>8 DEF Inv, TypeOK

-----------------------------------------------------------------------------
(* Every step preserves it: first the parts that follow from Effects *)

\* A batch in flight stays a stretch of entries, alone at the front.
LEMMA StepFlightInv == ASSUME Inv, [Next]_vars PROVE FlightInv'
<1>a. /\ \A t \in Threads : from[t] \in Nat /\ upto[t] \in Nat
      /\ from \in [Threads -> Nat] /\ upto \in [Threads -> Nat]
      /\ recorded \in Nat /\ erased \in Nat /\ erased <= recorded /\ recorded <= MaxRecords
      /\ failures \in Nat /\ failures < MaxFailures
      /\ MaxRecords \in Nat /\ MaxEntries \in Nat /\ MaxFailures \in Nat /\ MaxFailures > 0
      /\ attempts \in [Entries -> 0..(MaxFailures + 1)] /\ receipts \in [Entries -> Nat]
      /\ excused \subseteq Entries /\ recorded - erased <= MaxEntries
      /\ FlightInv /\ FateInv /\ AttemptInv
  BY FlightNat DEF Inv, TypeOK, BufferOK, NumbersOK
<1>1. CASE Quiet
  BY <1>a, <1>1 DEF Quiet, entries, SameFlights, FlightInv, InFlight
<1>2. CASE Recorded
  BY <1>a, <1>2 DEF Recorded, SameFlights, FlightInv, InFlight
<1>3. CASE Discarded
  BY <1>a, <1>3 DEF Discarded, SameFlights, FlightInv, InFlight
<1>4. ASSUME NEW t \in Threads, Sent(t) PROVE FlightInv'
  <2>1. ~overlapped' => ~overlapped /\ \A u \in Threads : pc[u] # "deliver"
    BY <1>4 DEF Sent, InFlight
  <2>2. /\ from'[t] = erased + 1 /\ upto'[t] = recorded /\ recorded > erased
        /\ \A u \in Threads : u # t => from'[u] = from[u] /\ upto'[u] = upto[u]
        /\ \A u \in Threads : pc'[u] = "deliver" <=> pc[u] = "deliver" \/ u = t
        /\ UNCHANGED <<erased, recorded, failures, receipts, excused, threw, discarded>>
    BY <1>a, <1>4 DEF Sent, InFlight
  <2>3. \A u \in Threads : pc'[u] = "deliver" =>
          1 <= from'[u] /\ from'[u] <= upto'[u] /\ upto'[u] <= recorded'
    BY <1>a, <2>2 DEF FlightInv, InFlight
  <2>4. ~overlapped' => \A u \in Threads : pc'[u] = "deliver" => u = t
    BY <2>1, <2>2
  <2>5. QED
    BY <2>2, <2>3, <2>4 DEF FlightInv, InFlight
<1>5. ASSUME NEW t \in Threads, Kept(t) PROVE FlightInv'
  BY <1>a, <1>5 DEF Kept, Landed, FlightInv, InFlight
<1>6. ASSUME NEW t \in Threads, Taken(t) PROVE FlightInv'
  BY <1>a, <1>6 DEF Taken, Landed, Erased, FlightInv, InFlight
<1>7. ASSUME NEW t \in Threads, Dropped(t) PROVE FlightInv'
  BY <1>a, <1>7 DEF Dropped, Landed, Erased, FlightInv, InFlight
<1>8. ASSUME NEW t \in Threads, Failed(t) PROVE FlightInv'
  BY <1>a, <1>8 DEF Failed, Landed, entries, FlightInv, InFlight
<1>9. QED
  BY <1>1, <1>2, <1>3, <1>4, <1>5, <1>6, <1>7, <1>8, Effects DEF Effect

\* No entry leaves without a reason, and none is taken twice.
LEMMA StepFateInv == ASSUME Inv, [Next]_vars PROVE FateInv'
<1>a. /\ \A t \in Threads : from[t] \in Nat /\ upto[t] \in Nat
      /\ from \in [Threads -> Nat] /\ upto \in [Threads -> Nat]
      /\ recorded \in Nat /\ erased \in Nat /\ erased <= recorded /\ recorded <= MaxRecords
      /\ failures \in Nat /\ failures < MaxFailures
      /\ MaxRecords \in Nat /\ MaxEntries \in Nat /\ MaxFailures \in Nat /\ MaxFailures > 0
      /\ attempts \in [Entries -> 0..(MaxFailures + 1)] /\ receipts \in [Entries -> Nat]
      /\ excused \subseteq Entries /\ recorded - erased <= MaxEntries
      /\ FlightInv /\ FateInv /\ AttemptInv
  BY FlightNat DEF Inv, TypeOK, BufferOK, NumbersOK
<1>1. CASE Quiet
  BY <1>a, <1>1
     DEF Quiet, entries, SameFlights, FateInv, FlightInv, InFlight, Batch, Entries, SentOnce
<1>2. CASE Recorded
  BY <1>a, <1>2 DEF Recorded, SameFlights, FateInv, FlightInv, InFlight, Batch, Entries, SentOnce
<1>3. CASE Discarded
  <2>1. ~overlapped' => ~overlapped /\ \A u \in Threads : pc[u] # "deliver"
    BY <1>3 DEF Discarded, InFlight
  <2>2. /\ erased' = recorded /\ discarded' = TRUE /\ excused' = excused \cup (erased + 1)..recorded
        /\ UNCHANGED <<recorded, from, upto, attempts, receipts>>
        /\ \A u \in Threads : pc'[u] = "deliver" <=> pc[u] = "deliver"
    BY <1>3 DEF Discarded, SameFlights, InFlight
  <2>3. \A e \in Entries : e > recorded' => attempts'[e] = 0
    BY <1>a, <2>2 DEF FateInv
  <2>4. ~overlapped' => \A e \in Entries : e > erased' => receipts'[e] = 0
    <3>1. \A e \in Entries : e > erased' => e > erased
      BY <1>a, <2>2 DEF Entries
    <3>2. ~overlapped => \A e \in Entries : e > erased => receipts[e] = 0
      BY <1>a DEF FateInv
    <3>3. QED
      BY <2>1, <2>2, <3>1, <3>2
  <2>5. ~overlapped' => \A e \in Entries : e <= erased' => receipts'[e] > 0 \/ e \in excused'
    BY <1>a, <2>1, <2>2 DEF FateInv, Entries
  <2>6. \A u \in Threads : InFlight(u)' => \A e \in Batch(u)' : attempts'[e] > 0
    BY <1>a, <2>2 DEF FateInv, InFlight, Batch
  <2>7. QED
    BY <1>a, <2>1, <2>2, <2>3, <2>4, <2>5, <2>6 DEF FateInv
<1>4. ASSUME NEW t \in Threads, Sent(t) PROVE FateInv'
  <2>1. ~overlapped' => ~overlapped /\ \A u \in Threads : pc[u] # "deliver"
    BY <1>4 DEF Sent, InFlight
  <2>2. /\ from'[t] = erased + 1 /\ upto'[t] = recorded /\ recorded > erased
        /\ \A u \in Threads : u # t => from'[u] = from[u] /\ upto'[u] = upto[u]
        /\ \A u \in Threads : pc'[u] = "deliver" <=> pc[u] = "deliver" \/ u = t
        /\ UNCHANGED <<erased, recorded, failures, receipts, excused, threw, discarded>>
    BY <1>a, <1>4 DEF Sent, InFlight
  <2>3. \A e \in Entries :
          attempts'[e] = IF e \in (erased + 1)..recorded
                         THEN IF attempts[e] <= MaxFailures THEN attempts[e] + 1 ELSE attempts[e]
                         ELSE attempts[e]
    BY <1>4 DEF Sent, SentOnce
  <2>4. ASSUME NEW e \in Entries, attempts[e] > 0
        PROVE  attempts'[e] > 0
    <3>1. attempts[e] \in 0..(MaxFailures + 1)
      BY <1>a
    <3>2. attempts'[e] = attempts[e] + 1 \/ attempts'[e] = attempts[e]
      BY <2>3
    <3>3. QED
      BY <1>a, <2>4, <3>1, <3>2
  <2>5. \A e \in Entries : e > recorded' => attempts'[e] = 0
    BY <1>a, <2>2, <2>3 DEF FateInv, Entries
  <2>6. \A e \in Entries : receipts'[e] > 0 \/ e \in excused' => attempts'[e] > 0 \/ discarded'
    BY <1>a, <2>2, <2>4 DEF FateInv
  <2>7. ASSUME NEW u \in Threads, pc'[u] = "deliver", NEW e \in from'[u]..upto'[u]
        PROVE  attempts'[e] > 0
    <3>1. CASE u = t
      <4>1. e \in Entries /\ e \in (erased + 1)..recorded
        BY <1>a, <2>2, <2>7, <3>1 DEF Entries
      <4>2. QED
        BY <1>a, <2>3, <4>1
    <3>2. CASE u # t
      <4>1. pc[u] = "deliver" /\ e \in from[u]..upto[u] /\ e \in Entries
        <5>1. pc[u] = "deliver" /\ e \in from[u]..upto[u]
          BY <2>2, <2>7, <3>2 DEF InFlight
        <5>2. 1 <= from[u] /\ upto[u] <= recorded /\ from[u] \in Nat /\ upto[u] \in Nat
          BY <1>a, <5>1 DEF FlightInv, InFlight
        <5>3. QED
          BY <1>a, <5>1, <5>2 DEF Entries
      <4>2. attempts[e] > 0
        BY <1>a, <4>1 DEF FateInv, InFlight, Batch
      <4>3. QED
        BY <2>4, <4>1, <4>2
    <3>3. QED
      BY <3>1, <3>2
  <2>8. \A u \in Threads : InFlight(u)' => \A e \in Batch(u)' : attempts'[e] > 0
    BY <2>7 DEF InFlight, Batch
  <2>9. QED
    BY <1>a, <2>1, <2>2, <2>5, <2>6, <2>8 DEF FateInv
<1>5. ASSUME NEW t \in Threads, Kept(t) PROVE FateInv'
  BY <1>a, <1>5 DEF Kept, Landed, FateInv, FlightInv, InFlight, Batch, Entries, SentOnce
<1>6. ASSUME NEW t \in Threads, Taken(t) PROVE FateInv'
  <2>1. /\ pc[t] = "deliver"
        /\ \A u \in Threads : pc'[u] = "deliver" =>
             pc[u] = "deliver" /\ from'[u] = from[u] /\ upto'[u] = upto[u]
        /\ \A e \in Entries : receipts'[e] = IF e \in from[t]..upto[t]
                                          THEN receipts[e] + 1 ELSE receipts[e]
        /\ UNCHANGED <<recorded, attempts, excused, overlapped, discarded>>
    BY <1>a, <1>6 DEF Taken, Landed, InFlight, Batch
  <2>2. 1 <= from[t] /\ from[t] <= upto[t] /\ upto[t] <= recorded
    BY <1>a, <2>1 DEF FlightInv, InFlight
  <2>3. ~overlapped => from[t] = erased + 1 /\ erased' = upto[t]
    BY <1>a, <2>1, <2>2, <1>6 DEF Taken, Erased, FlightInv, InFlight
  <2>4. \A e \in Entries : e \in from[t]..upto[t] => attempts[e] > 0
    BY <1>a, <2>1 DEF FateInv, InFlight, Batch
  <2>5. \A e \in Entries : e > recorded' => attempts'[e] = 0
    BY <1>a, <2>1 DEF FateInv
  <2>6. ~overlapped' => \A e \in Entries : e > erased' => receipts'[e] = 0
    BY <1>a, <2>1, <2>2, <2>3 DEF FateInv, Entries
  <2>7. ASSUME ~overlapped', NEW e \in Entries
        PROVE  receipts'[e] <= 1
    <3>1. ~overlapped
      BY <2>1, <2>7
    <3>2. receipts[e] \in Nat /\ receipts[e] <= 1 /\ (e > erased => receipts[e] = 0)
      BY <1>a, <3>1 DEF FateInv
    <3>3. CASE e \in from[t]..upto[t]
      <4>1. e > erased
        BY <1>a, <2>3, <3>1, <3>3
      <4>2. QED
        BY <2>1, <3>2, <3>3, <4>1
    <3>4. CASE e \notin from[t]..upto[t]
      BY <2>1, <3>2, <3>4
    <3>5. QED
      BY <3>3, <3>4
  <2>8. ~overlapped' => \A e \in Entries : e <= erased' => receipts'[e] > 0 \/ e \in excused'
    BY <1>a, <2>1, <2>2, <2>3 DEF FateInv, Entries
  <2>9. \A e \in Entries : receipts'[e] > 0 \/ e \in excused' => attempts'[e] > 0 \/ discarded'
    BY <1>a, <2>1, <2>4 DEF FateInv
  <2>10. \A u \in Threads : InFlight(u)' => \A e \in Batch(u)' : attempts'[e] > 0
    BY <1>a, <2>1 DEF FateInv, InFlight, Batch
  <2>11. QED
    BY <2>5, <2>6, <2>7, <2>8, <2>9, <2>10 DEF FateInv
<1>7. ASSUME NEW t \in Threads, Dropped(t) PROVE FateInv'
  <2>1. /\ pc[t] = "deliver"
        /\ \A u \in Threads : pc'[u] = "deliver" =>
             pc[u] = "deliver" /\ from'[u] = from[u] /\ upto'[u] = upto[u]
        /\ excused' = excused \cup from[t]..upto[t]
        /\ UNCHANGED <<recorded, attempts, receipts, overlapped, discarded>>
    BY <1>a, <1>7 DEF Dropped, Landed, InFlight, Batch
  <2>2. 1 <= from[t] /\ from[t] <= upto[t] /\ upto[t] <= recorded
    BY <1>a, <2>1 DEF FlightInv, InFlight
  <2>3. ~overlapped => from[t] = erased + 1 /\ erased' = upto[t]
    BY <1>a, <2>1, <2>2, <1>7 DEF Dropped, Erased, FlightInv, InFlight
  <2>4. \A e \in Entries : e \in from[t]..upto[t] => attempts[e] > 0
    BY <1>a, <2>1 DEF FateInv, InFlight, Batch
  <2>5. \A e \in Entries : e > recorded' => attempts'[e] = 0
    BY <1>a, <2>1 DEF FateInv
  <2>6. ~overlapped' => \A e \in Entries : e > erased' => receipts'[e] = 0
    BY <1>a, <2>1, <2>2, <2>3 DEF FateInv, Entries
  <2>7. ~overlapped' => \A e \in Entries : receipts'[e] <= 1
    BY <1>a, <2>1, <2>2, <2>3 DEF FateInv, Entries
  <2>8. ~overlapped' => \A e \in Entries : e <= erased' => receipts'[e] > 0 \/ e \in excused'
    BY <1>a, <2>1, <2>2, <2>3 DEF FateInv, Entries
  <2>9. \A e \in Entries : receipts'[e] > 0 \/ e \in excused' => attempts'[e] > 0 \/ discarded'
    BY <1>a, <2>1, <2>4 DEF FateInv
  <2>10. \A u \in Threads : InFlight(u)' => \A e \in Batch(u)' : attempts'[e] > 0
    BY <1>a, <2>1 DEF FateInv, InFlight, Batch
  <2>11. QED
    BY <2>5, <2>6, <2>7, <2>8, <2>9, <2>10 DEF FateInv
<1>8. ASSUME NEW t \in Threads, Failed(t) PROVE FateInv'
  BY <1>a, <1>8 DEF Failed, Landed, entries, FateInv, FlightInv, InFlight, Batch, Entries, SentOnce
<1>9. QED
  BY <1>1, <1>2, <1>3, <1>4, <1>5, <1>6, <1>7, <1>8, Effects DEF Effect

\* Every failure is counted, and the counter is reset only when the batch goes.
LEMMA StepAttemptInv == ASSUME Inv, [Next]_vars PROVE AttemptInv'
<1>a. /\ \A t \in Threads : from[t] \in Nat /\ upto[t] \in Nat
      /\ from \in [Threads -> Nat] /\ upto \in [Threads -> Nat]
      /\ recorded \in Nat /\ erased \in Nat /\ erased <= recorded /\ recorded <= MaxRecords
      /\ failures \in Nat /\ failures < MaxFailures
      /\ MaxRecords \in Nat /\ MaxEntries \in Nat /\ MaxFailures \in Nat /\ MaxFailures > 0
      /\ attempts \in [Entries -> 0..(MaxFailures + 1)] /\ receipts \in [Entries -> Nat]
      /\ excused \subseteq Entries /\ recorded - erased <= MaxEntries
      /\ FlightInv /\ FateInv /\ AttemptInv
  BY FlightNat DEF Inv, TypeOK, BufferOK, NumbersOK
<1>1. CASE Quiet
  BY <1>a, <1>1
     DEF Quiet, entries, SameFlights, AttemptInv, FateInv, FlightInv, InFlight, Batch, Entries,
         SentOnce
<1>2. CASE Recorded
  BY <1>a, <1>2
     DEF Recorded, SameFlights, AttemptInv, FateInv, FlightInv, InFlight, Batch, Entries, SentOnce
<1>3. CASE Discarded
  <2>1. ~overlapped' => ~overlapped /\ \A u \in Threads : pc[u] # "deliver"
    BY <1>3 DEF Discarded, InFlight
  <2>2. /\ erased' = recorded /\ failures' = 0 /\ UNCHANGED <<threw, attempts>>
        /\ \A u \in Threads : pc'[u] = "deliver" <=> pc[u] = "deliver"
    BY <1>3 DEF Discarded, SameFlights, InFlight
  <2>3. \A e \in Entries : e > erased' => attempts'[e] = 0
    BY <1>a, <2>2 DEF FateInv
  <2>4. QED
    BY <1>a, <2>1, <2>2, <2>3 DEF AttemptInv, InFlight
<1>4. ASSUME NEW t \in Threads, Sent(t) PROVE AttemptInv'
  <2>1. ~overlapped' => ~overlapped /\ \A u \in Threads : pc[u] # "deliver"
    BY <1>4 DEF Sent, InFlight
  <2>2. /\ from'[t] = erased + 1 /\ upto'[t] = recorded /\ recorded > erased
        /\ \A u \in Threads : u # t => from'[u] = from[u] /\ upto'[u] = upto[u]
        /\ \A u \in Threads : pc'[u] = "deliver" <=> pc[u] = "deliver" \/ u = t
        /\ UNCHANGED <<erased, recorded, failures, receipts, excused, threw, discarded>>
    BY <1>a, <1>4 DEF Sent, InFlight
  <2>3. \A e \in Entries :
          attempts'[e] = IF e \in (erased + 1)..recorded
                         THEN IF attempts[e] <= MaxFailures THEN attempts[e] + 1 ELSE attempts[e]
                         ELSE attempts[e]
    BY <1>4 DEF Sent, SentOnce
  <2>4. SUFFICES ASSUME ~overlapped', ~threw'
                  PROVE  AttemptInv'
    BY DEF AttemptInv
  <2>5. ~overlapped /\ ~threw /\ \A u \in Threads : pc[u] # "deliver"
    BY <2>1, <2>2, <2>4
  <2>6. \A e \in Entries : e > erased => attempts[e] <= failures
    BY <1>a, <2>5 DEF AttemptInv, InFlight
  <2>7. \A e \in Entries : attempts[e] <= MaxFailures
    BY <1>a, <2>5 DEF AttemptInv
  <2>8. \A e \in Entries : e > recorded => attempts[e] = 0
    BY <1>a DEF FateInv
  <2>9. ASSUME NEW e \in Entries
        PROVE  attempts'[e] <= MaxFailures /\ (e > erased => attempts'[e] <= failures + 1)
    <3>1. /\ attempts[e] \in Nat /\ attempts[e] <= MaxFailures /\ e \in Nat
          /\ (e > erased => attempts[e] <= failures)
      BY <1>a, <2>6, <2>7 DEF Entries
    <3>2. CASE e \in (erased + 1)..recorded
      <4>1. e > erased /\ attempts'[e] = attempts[e] + 1
        BY <1>a, <2>3, <3>1, <3>2
      <4>2. QED
        BY <1>a, <3>1, <4>1
    <3>3. CASE e \notin (erased + 1)..recorded
      <4>1. attempts'[e] = attempts[e]
        BY <2>3, <3>3
      <4>2. QED
        BY <1>a, <3>1, <4>1
    <3>4. QED
      BY <3>2, <3>3
  <2>10. \A e \in Entries : e > recorded => attempts'[e] = 0
    BY <1>a, <2>3, <2>8 DEF Entries
  <2>11. \A u \in Threads : pc'[u] = "deliver" <=> u = t
    BY <2>2, <2>5
  <2>12. QED
    BY <2>2, <2>9, <2>10, <2>11 DEF AttemptInv, InFlight
<1>5. ASSUME NEW t \in Threads, Kept(t) PROVE AttemptInv'
  BY <1>a, <1>5 DEF Kept, Landed, AttemptInv, FateInv, FlightInv, InFlight, Batch, Entries, SentOnce
<1>6. ASSUME NEW t \in Threads, Taken(t) PROVE AttemptInv'
  <2>1. /\ pc[t] = "deliver" /\ \A u \in Threads : pc'[u] = "deliver" <=> pc[u] = "deliver" /\ u # t
        /\ failures' = 0 /\ UNCHANGED <<attempts, overlapped, threw>>
    BY <1>6 DEF Taken, Landed, InFlight
  <2>2. SUFFICES ASSUME ~overlapped', ~threw'
                  PROVE  AttemptInv'
    BY DEF AttemptInv
  <2>3. ~overlapped /\ ~threw
    BY <2>1, <2>2
  <2>4. erased' = upto[t]
    BY <1>a, <2>1, <2>3, <1>6 DEF Taken, Erased, FlightInv, InFlight
  <2>5. \A e \in Entries : e > upto[t] => attempts[e] = 0
    BY <1>a, <2>1, <2>3 DEF AttemptInv, InFlight
  <2>6. \A e \in Entries : attempts[e] <= MaxFailures
    BY <1>a, <2>3 DEF AttemptInv
  <2>7. \A u \in Threads : pc'[u] # "deliver"
    BY <1>a, <2>1, <2>3 DEF FlightInv, InFlight
  <2>8. QED
    BY <2>1, <2>4, <2>5, <2>6, <2>7 DEF AttemptInv, InFlight
<1>7. ASSUME NEW t \in Threads, Dropped(t) PROVE AttemptInv'
  <2>1. /\ pc[t] = "deliver" /\ \A u \in Threads : pc'[u] = "deliver" <=> pc[u] = "deliver" /\ u # t
        /\ failures' = 0 /\ UNCHANGED <<attempts, overlapped, threw>>
    BY <1>7 DEF Dropped, Landed, InFlight
  <2>2. SUFFICES ASSUME ~overlapped', ~threw'
                  PROVE  AttemptInv'
    BY DEF AttemptInv
  <2>3. ~overlapped /\ ~threw
    BY <2>1, <2>2
  <2>4. erased' = upto[t]
    BY <1>a, <2>1, <2>3, <1>7 DEF Dropped, Erased, FlightInv, InFlight
  <2>5. \A e \in Entries : e > upto[t] => attempts[e] = 0
    BY <1>a, <2>1, <2>3 DEF AttemptInv, InFlight
  <2>6. \A e \in Entries : attempts[e] <= MaxFailures
    BY <1>a, <2>3 DEF AttemptInv
  <2>7. \A u \in Threads : pc'[u] # "deliver"
    BY <1>a, <2>1, <2>3 DEF FlightInv, InFlight
  <2>8. QED
    BY <2>1, <2>4, <2>5, <2>6, <2>7 DEF AttemptInv, InFlight
<1>8. ASSUME NEW t \in Threads, Failed(t) PROVE AttemptInv'
  BY <1>a, <1>8
     DEF Failed, Landed, entries, AttemptInv, FateInv, FlightInv, InFlight, Batch, Entries,
         SentOnce
<1>9. QED
  BY <1>1, <1>2, <1>3, <1>4, <1>5, <1>6, <1>7, <1>8, Effects DEF Effect

\* The parts of TypeOK that speak of the entries, of what became of them, and of calls.
EntriesOK ==
  /\ recorded \in 0..MaxRecords /\ erased \in 0..recorded /\ recorded - erased <= MaxEntries
  /\ failures \in 0..(MaxFailures - 1)
FatesOK ==
  /\ from \in [Threads -> Nat] /\ upto \in [Threads -> Nat]
  /\ attempts \in [Entries -> 0..(MaxFailures + 1)] /\ receipts \in [Entries -> Nat]
  /\ excused \subseteq Entries
CallsOK == flushes \in Nat /\ closes \in Nat /\ mark \in [Callers -> Nat]

\* The buffer is never above max_entries, nor the counter at max_consecutive_failures.
LEMMA StepEntriesOK == ASSUME Inv, [Next]_vars PROVE EntriesOK'
<1>a. /\ \A t \in Threads : from[t] \in Nat /\ upto[t] \in Nat
      /\ from \in [Threads -> Nat] /\ upto \in [Threads -> Nat]
      /\ recorded \in Nat /\ erased \in Nat /\ erased <= recorded /\ recorded <= MaxRecords
      /\ failures \in Nat /\ failures < MaxFailures
      /\ MaxRecords \in Nat /\ MaxEntries \in Nat /\ MaxFailures \in Nat /\ MaxFailures > 0
      /\ attempts \in [Entries -> 0..(MaxFailures + 1)] /\ receipts \in [Entries -> Nat]
      /\ excused \subseteq Entries /\ recorded - erased <= MaxEntries
      /\ FlightInv /\ FateInv /\ AttemptInv
  BY FlightNat DEF Inv, TypeOK, BufferOK, NumbersOK
<1>1. CASE Quiet
  BY <1>a, <1>1 DEF Quiet, entries, SameFlights, EntriesOK, FlightInv, InFlight
<1>2. CASE Recorded
  BY <1>a, <1>2 DEF Recorded, SameFlights, EntriesOK, FlightInv, InFlight
<1>3. CASE Discarded
  BY <1>a, <1>3 DEF Discarded, SameFlights, EntriesOK, FlightInv, InFlight
<1>4. ASSUME NEW t \in Threads, Sent(t) PROVE EntriesOK'
  BY <1>a, <1>4 DEF Sent, EntriesOK, FlightInv, InFlight
<1>5. ASSUME NEW t \in Threads, Kept(t) PROVE EntriesOK'
  BY <1>a, <1>5 DEF Kept, Landed, EntriesOK, FlightInv, InFlight
<1>6. ASSUME NEW t \in Threads, Taken(t) PROVE EntriesOK'
  BY <1>a, <1>6 DEF Taken, Landed, Erased, EntriesOK, FlightInv, InFlight
<1>7. ASSUME NEW t \in Threads, Dropped(t) PROVE EntriesOK'
  BY <1>a, <1>7 DEF Dropped, Landed, Erased, EntriesOK, FlightInv, InFlight
<1>8. ASSUME NEW t \in Threads, Failed(t) PROVE EntriesOK'
  BY <1>a, <1>8 DEF Failed, Landed, entries, EntriesOK, FlightInv, InFlight
<1>9. QED
  BY <1>1, <1>2, <1>3, <1>4, <1>5, <1>6, <1>7, <1>8, Effects DEF Effect

\* Batches, attempts, receipts and excuses keep their types.
LEMMA StepFatesOK == ASSUME Inv, [Next]_vars PROVE FatesOK'
<1>a. /\ \A t \in Threads : from[t] \in Nat /\ upto[t] \in Nat
      /\ from \in [Threads -> Nat] /\ upto \in [Threads -> Nat]
      /\ recorded \in Nat /\ erased \in Nat /\ erased <= recorded /\ recorded <= MaxRecords
      /\ failures \in Nat /\ failures < MaxFailures
      /\ MaxRecords \in Nat /\ MaxEntries \in Nat /\ MaxFailures \in Nat /\ MaxFailures > 0
      /\ attempts \in [Entries -> 0..(MaxFailures + 1)] /\ receipts \in [Entries -> Nat]
      /\ excused \subseteq Entries /\ recorded - erased <= MaxEntries
      /\ FlightInv /\ FateInv /\ AttemptInv
  BY FlightNat DEF Inv, TypeOK, BufferOK, NumbersOK
<1>1. CASE Quiet
  BY <1>a, <1>1
     DEF Quiet, entries, SameFlights, FatesOK, Batch, SentOnce, Entries, FlightInv, InFlight
<1>2. CASE Recorded
  BY <1>a, <1>2 DEF Recorded, SameFlights, FatesOK, Batch, SentOnce, Entries, FlightInv, InFlight
<1>3. CASE Discarded
  BY <1>a, <1>3 DEF Discarded, SameFlights, FatesOK, Batch, SentOnce, Entries, FlightInv, InFlight
<1>4. ASSUME NEW t \in Threads, Sent(t) PROVE FatesOK'
  <2>1. from' \in [Threads -> Nat] /\ upto' \in [Threads -> Nat]
    BY <1>a, <1>4 DEF Sent
  <2>2. \A e \in Entries : SentOnce(attempts[e]) \in 0..(MaxFailures + 1)
    BY <1>a DEF SentOnce
  <2>3. attempts' \in [Entries -> 0..(MaxFailures + 1)]
    BY <1>a, <1>4, <2>2 DEF Sent
  <2>4. QED
    BY <1>a, <1>4, <2>1, <2>3 DEF Sent, FatesOK
<1>5. ASSUME NEW t \in Threads, Kept(t) PROVE FatesOK'
  BY <1>a, <1>5 DEF Kept, Landed, FatesOK, Batch, SentOnce, Entries, FlightInv, InFlight
<1>6. ASSUME NEW t \in Threads, Taken(t) PROVE FatesOK'
  <2>1. \A e \in Entries : receipts[e] \in Nat /\ receipts[e] + 1 \in Nat
    BY <1>a
  <2>2. receipts' \in [Entries -> Nat]
    BY <2>1, <1>6 DEF Taken
  <2>3. QED
    BY <1>a, <2>2, <1>6 DEF Taken, Landed, FatesOK
<1>7. ASSUME NEW t \in Threads, Dropped(t) PROVE FatesOK'
  <2>1. 1 <= from[t] /\ upto[t] <= recorded
    BY <1>a, <1>7 DEF Dropped, Landed, FlightInv, InFlight
  <2>2. excused' \subseteq Entries
    <3>1. from[t]..upto[t] \subseteq Entries
      BY <1>a, <2>1 DEF Entries
    <3>2. QED
      BY <1>a, <3>1, <1>7 DEF Dropped, Batch
  <2>3. QED
    BY <1>a, <2>2, <1>7 DEF Dropped, Landed, FatesOK
<1>8. ASSUME NEW t \in Threads, Failed(t) PROVE FatesOK'
  BY <1>a, <1>8 DEF Failed, Landed, entries, FatesOK, Batch, SentOnce, Entries, FlightInv, InFlight
<1>9. QED
  BY <1>1, <1>2, <1>3, <1>4, <1>5, <1>6, <1>7, <1>8, Effects DEF Effect

\* So do the counts of calls.
LEMMA StepCallsOK == ASSUME Inv, [Next]_vars PROVE CallsOK'
<1> USE DEF At, Goto, buffer, flags, batches, calls, history, closings, vars, Inv, TypeOK,
   BufferOK, NumbersOK, CallsOK
<1>0. Worker \in Threads /\ Callers \subseteq Threads /\ Worker \notin Callers
  BY MetricThreadsAssumption DEF Threads
<1>1. CASE UNCHANGED vars
  BY <1>1 DEF vars, buffer, flags, batches, calls, history, closings, InFlight, Batch
<1>2. ASSUME NEW t \in Callers, Record(t) PROVE CallsOK'
  BY <1>2, <1>0 DEF Record
<1>3. ASSUME NEW t \in Callers, EnsureWorkerStarted(t) PROVE CallsOK'
  BY <1>3, <1>0 DEF EnsureWorkerStarted
<1>4. ASSUME NEW t \in Callers, FlushBegin(t) PROVE CallsOK'
  BY <1>4, <1>0 DEF FlushBegin
<1>5. ASSUME NEW t \in Threads, FlushSnapshot(t) PROVE CallsOK'
  BY <1>5, <1>0 DEF FlushSnapshot, FlushReturn
<1>6. ASSUME NEW t \in Threads, FlushSettle(t) PROVE CallsOK'
  BY <1>6, <1>0 DEF FlushSettle, FlushReturn, LetGo
<1>7. ASSUME NEW t \in Threads, FlushThrows(t) PROVE CallsOK'
  BY <1>7, <1>0 DEF FlushThrows, FlushException, FlushReturn
<1>8. ASSUME NEW t \in Threads, FlushLog(t) PROVE CallsOK'
  BY <1>8, <1>0 DEF FlushLog, FlushException, FlushReturn
<1>9. CASE WorkerLoop
  BY <1>9, <1>0 DEF WorkerLoop
<1>10. CASE WorkerCaught
  BY <1>10, <1>0 DEF WorkerCaught
<1>11. ASSUME NEW t \in Callers, NEW how \in {"shutdown", "discard"}, CloseBegin(t, how)
      PROVE  CallsOK'
  BY <1>11, <1>0 DEF CloseBegin
<1>12. ASSUME NEW t \in Callers, Stop(t) PROVE CallsOK'
  BY <1>12, <1>0 DEF Stop
<1>13. ASSUME NEW t \in Callers, Join(t) PROVE CallsOK'
  BY <1>13, <1>0 DEF Join
<1>14. ASSUME NEW t \in Callers, ShutdownLocked(t) PROVE CallsOK'
  BY <1>14, <1>0 DEF ShutdownLocked, FlushReturn
<1>15. ASSUME NEW t \in Callers, DiscardLocked(t) PROVE CallsOK'
  BY <1>15, <1>0 DEF DiscardLocked, FlushReturn
<1>16. QED
  BY <1>1, <1>2, <1>3, <1>4, <1>5, <1>6, <1>7, <1>8, <1>9, <1>10, <1>11, <1>12, <1>13, <1>14, <1>15
     DEF Next, FlushStep, CloseStep, WorkerStep

\* So do the flags.
LEMMA StepFlagsOK == ASSUME Inv, [Next]_vars PROVE FlagsOK'
<1> USE DEF At, Goto, buffer, flags, batches, calls, history, closings, vars, Inv, TypeOK, FlagsOK
<1>0. Worker \in Threads /\ Callers \subseteq Threads /\ Worker \notin Callers
  BY MetricThreadsAssumption DEF Threads
<1>1. CASE UNCHANGED vars
  BY <1>1 DEF vars, buffer, flags, batches, calls, history, closings, InFlight, Batch
<1>2. ASSUME NEW t \in Callers, Record(t) PROVE FlagsOK'
  BY <1>2, <1>0 DEF Record
<1>3. ASSUME NEW t \in Callers, EnsureWorkerStarted(t) PROVE FlagsOK'
  BY <1>3, <1>0 DEF EnsureWorkerStarted
<1>4. ASSUME NEW t \in Callers, FlushBegin(t) PROVE FlagsOK'
  BY <1>4, <1>0 DEF FlushBegin
<1>5. ASSUME NEW t \in Threads, FlushSnapshot(t) PROVE FlagsOK'
  BY <1>5, <1>0 DEF FlushSnapshot, FlushReturn
<1>6. ASSUME NEW t \in Threads, FlushSettle(t) PROVE FlagsOK'
  BY <1>6, <1>0 DEF FlushSettle, FlushReturn, LetGo
<1>7. ASSUME NEW t \in Threads, FlushThrows(t) PROVE FlagsOK'
  BY <1>7, <1>0 DEF FlushThrows, FlushException, FlushReturn
<1>8. ASSUME NEW t \in Threads, FlushLog(t) PROVE FlagsOK'
  BY <1>8, <1>0 DEF FlushLog, FlushException, FlushReturn
<1>9. CASE WorkerLoop
  BY <1>9, <1>0 DEF WorkerLoop
<1>10. CASE WorkerCaught
  BY <1>10, <1>0 DEF WorkerCaught
<1>11. ASSUME NEW t \in Callers, NEW how \in {"shutdown", "discard"}, CloseBegin(t, how)
      PROVE  FlagsOK'
  BY <1>11, <1>0 DEF CloseBegin
<1>12. ASSUME NEW t \in Callers, Stop(t) PROVE FlagsOK'
  BY <1>12, <1>0 DEF Stop
<1>13. ASSUME NEW t \in Callers, Join(t) PROVE FlagsOK'
  BY <1>13, <1>0 DEF Join
<1>14. ASSUME NEW t \in Callers, ShutdownLocked(t) PROVE FlagsOK'
  BY <1>14, <1>0 DEF ShutdownLocked, FlushReturn
<1>15. ASSUME NEW t \in Callers, DiscardLocked(t) PROVE FlagsOK'
  BY <1>15, <1>0 DEF DiscardLocked, FlushReturn
<1>16. QED
  BY <1>1, <1>2, <1>3, <1>4, <1>5, <1>6, <1>7, <1>8, <1>9, <1>10, <1>11, <1>12, <1>13, <1>14, <1>15
     DEF Next, FlushStep, CloseStep, WorkerStep

\* So does what a thread remembers of itself.
LEMMA StepThreadsOK == ASSUME Inv, [Next]_vars PROVE ThreadsOK'
<1> USE DEF At, Goto, buffer, flags, batches, calls, history, closings, vars, Inv, TypeOK,
   ThreadsOK, Pcs, Closings, EraseBatch
<1>0. Worker \in Threads /\ Callers \subseteq Threads /\ Worker \notin Callers
  BY MetricThreadsAssumption DEF Threads
<1>1. CASE UNCHANGED vars
  BY <1>1 DEF vars, buffer, flags, batches, calls, history, closings, InFlight, Batch
<1>2. ASSUME NEW t \in Callers, Record(t) PROVE ThreadsOK'
  BY <1>2, <1>0 DEF Record
<1>3. ASSUME NEW t \in Callers, EnsureWorkerStarted(t) PROVE ThreadsOK'
  BY <1>3, <1>0 DEF EnsureWorkerStarted
<1>4. ASSUME NEW t \in Callers, FlushBegin(t) PROVE ThreadsOK'
  BY <1>4, <1>0 DEF FlushBegin
<1>5. ASSUME NEW t \in Threads, FlushSnapshot(t) PROVE ThreadsOK'
  BY <1>5, <1>0 DEF FlushSnapshot, FlushReturn
<1>6. ASSUME NEW t \in Threads, FlushSettle(t) PROVE ThreadsOK'
  BY <1>6, <1>0 DEF FlushSettle, FlushReturn, LetGo
<1>7. ASSUME NEW t \in Threads, FlushThrows(t) PROVE ThreadsOK'
  BY <1>7, <1>0 DEF FlushThrows, FlushException, FlushReturn
<1>8. ASSUME NEW t \in Threads, FlushLog(t) PROVE ThreadsOK'
  BY <1>8, <1>0 DEF FlushLog, FlushException, FlushReturn
<1>9. CASE WorkerLoop
  BY <1>9, <1>0 DEF WorkerLoop
<1>10. CASE WorkerCaught
  BY <1>10, <1>0 DEF WorkerCaught
<1>11. ASSUME NEW t \in Callers, NEW how \in {"shutdown", "discard"}, CloseBegin(t, how)
      PROVE  ThreadsOK'
  BY <1>11, <1>0 DEF CloseBegin
<1>12. ASSUME NEW t \in Callers, Stop(t) PROVE ThreadsOK'
  BY <1>12, <1>0 DEF Stop
<1>13. ASSUME NEW t \in Callers, Join(t) PROVE ThreadsOK'
  BY <1>13, <1>0 DEF Join
<1>14. ASSUME NEW t \in Callers, ShutdownLocked(t) PROVE ThreadsOK'
  BY <1>14, <1>0 DEF ShutdownLocked, FlushReturn
<1>15. ASSUME NEW t \in Callers, DiscardLocked(t) PROVE ThreadsOK'
  BY <1>15, <1>0 DEF DiscardLocked, FlushReturn
<1>16. QED
  BY <1>1, <1>2, <1>3, <1>4, <1>5, <1>6, <1>7, <1>8, <1>9, <1>10, <1>11, <1>12, <1>13, <1>14, <1>15
     DEF Next, FlushStep, CloseStep, WorkerStep

\* A thread is only where its calls take it.
LEMMA StepPcInv == ASSUME Inv, [Next]_vars PROVE PcInv'
<1> USE DEF At, Goto, buffer, flags, batches, calls, history, closings, vars, Inv, TypeOK,
   ThreadsOK, FlagsOK, PcInv, FlushPcs, ClosePcs
<1>0. Worker \in Threads /\ Callers \subseteq Threads /\ Worker \notin Callers
  BY MetricThreadsAssumption DEF Threads
<1>1. CASE UNCHANGED vars
  BY <1>1 DEF vars, buffer, flags, batches, calls, history, closings, InFlight, Batch
<1>2. ASSUME NEW t \in Callers, Record(t) PROVE PcInv'
  BY <1>2, <1>0 DEF Record
<1>3. ASSUME NEW t \in Callers, EnsureWorkerStarted(t) PROVE PcInv'
  BY <1>3, <1>0 DEF EnsureWorkerStarted
<1>4. ASSUME NEW t \in Callers, FlushBegin(t) PROVE PcInv'
  BY <1>4, <1>0 DEF FlushBegin
<1>5. ASSUME NEW t \in Threads, FlushSnapshot(t) PROVE PcInv'
  BY <1>5, <1>0 DEF FlushSnapshot, FlushReturn
<1>6. ASSUME NEW t \in Threads, FlushSettle(t) PROVE PcInv'
  BY <1>6, <1>0 DEF FlushSettle, FlushReturn, LetGo
<1>7. ASSUME NEW t \in Threads, FlushThrows(t) PROVE PcInv'
  BY <1>7, <1>0 DEF FlushThrows, FlushException, FlushReturn
<1>8. ASSUME NEW t \in Threads, FlushLog(t) PROVE PcInv'
  BY <1>8, <1>0 DEF FlushLog, FlushException, FlushReturn
<1>9. CASE WorkerLoop
  BY <1>9, <1>0 DEF WorkerLoop
<1>10. CASE WorkerCaught
  BY <1>10, <1>0 DEF WorkerCaught
<1>11. ASSUME NEW t \in Callers, NEW how \in {"shutdown", "discard"}, CloseBegin(t, how)
      PROVE  PcInv'
  BY <1>11, <1>0 DEF CloseBegin
<1>12. ASSUME NEW t \in Callers, Stop(t) PROVE PcInv'
  BY <1>12, <1>0 DEF Stop
<1>13. ASSUME NEW t \in Callers, Join(t) PROVE PcInv'
  BY <1>13, <1>0 DEF Join
<1>14. ASSUME NEW t \in Callers, ShutdownLocked(t) PROVE PcInv'
  BY <1>14, <1>0 DEF ShutdownLocked, FlushReturn
<1>15. ASSUME NEW t \in Callers, DiscardLocked(t) PROVE PcInv'
  BY <1>15, <1>0 DEF DiscardLocked, FlushReturn
<1>16. QED
  BY <1>1, <1>2, <1>3, <1>4, <1>5, <1>6, <1>7, <1>8, <1>9, <1>10, <1>11, <1>12, <1>13, <1>14, <1>15
     DEF Next, FlushStep, CloseStep, WorkerStep

\* Nobody starts the worker again once it was joined.
LEMMA StepCloseInv == ASSUME Inv, [Next]_vars PROVE CloseInv'
<1> USE DEF At, Goto, buffer, flags, batches, calls, history, closings, vars, Inv, TypeOK,
   ThreadsOK, FlagsOK, NumbersOK, BufferOK, PcInv, CloseInv, WorkerGone, FlushPcs, ClosePcs
<1>0. Worker \in Threads /\ Callers \subseteq Threads /\ Worker \notin Callers
  BY MetricThreadsAssumption DEF Threads
<1>1. CASE UNCHANGED vars
  BY <1>1 DEF vars, buffer, flags, batches, calls, history, closings, InFlight, Batch
<1>2. ASSUME NEW t \in Callers, Record(t) PROVE CloseInv'
  BY <1>2, <1>0 DEF Record
<1>3. ASSUME NEW t \in Callers, EnsureWorkerStarted(t) PROVE CloseInv'
  BY <1>3, <1>0 DEF EnsureWorkerStarted
<1>4. ASSUME NEW t \in Callers, FlushBegin(t) PROVE CloseInv'
  BY <1>4, <1>0 DEF FlushBegin
<1>5. ASSUME NEW t \in Threads, FlushSnapshot(t) PROVE CloseInv'
  BY <1>5, <1>0 DEF FlushSnapshot, FlushReturn
<1>6. ASSUME NEW t \in Threads, FlushSettle(t) PROVE CloseInv'
  BY <1>6, <1>0 DEF FlushSettle, FlushReturn, LetGo
<1>7. ASSUME NEW t \in Threads, FlushThrows(t) PROVE CloseInv'
  BY <1>7, <1>0 DEF FlushThrows, FlushException, FlushReturn
<1>8. ASSUME NEW t \in Threads, FlushLog(t) PROVE CloseInv'
  BY <1>8, <1>0 DEF FlushLog, FlushException, FlushReturn
<1>9. CASE WorkerLoop
  BY <1>9, <1>0 DEF WorkerLoop
<1>10. CASE WorkerCaught
  BY <1>10, <1>0 DEF WorkerCaught
<1>11. ASSUME NEW t \in Callers, NEW how \in {"shutdown", "discard"}, CloseBegin(t, how)
      PROVE  CloseInv'
  BY <1>11, <1>0 DEF CloseBegin
<1>12. ASSUME NEW t \in Callers, Stop(t) PROVE CloseInv'
  BY <1>12, <1>0 DEF Stop
<1>13. ASSUME NEW t \in Callers, Join(t) PROVE CloseInv'
  BY <1>13, <1>0 DEF Join
<1>14. ASSUME NEW t \in Callers, ShutdownLocked(t) PROVE CloseInv'
  BY <1>14, <1>0 DEF ShutdownLocked, FlushReturn
<1>15. ASSUME NEW t \in Callers, DiscardLocked(t) PROVE CloseInv'
  BY <1>15, <1>0 DEF DiscardLocked, FlushReturn
<1>16. QED
  BY <1>1, <1>2, <1>3, <1>4, <1>5, <1>6, <1>7, <1>8, <1>9, <1>10, <1>11, <1>12, <1>13, <1>14, <1>15
     DEF Next, FlushStep, CloseStep, WorkerStep

\* What was sent stays sent, what was discarded stays discarded, and an overlap is
\* not forgotten.
Steady ==
  /\ ~overlapped' => ~overlapped
  /\ discarded => discarded'
  /\ \A e \in Entries : attempts[e] > 0 => attempts'[e] > 0

\* Every effect is steady.
LEMMA StaysSent == ASSUME Inv, [Next]_vars PROVE Steady
<1>a. /\ \A t \in Threads : from[t] \in Nat /\ upto[t] \in Nat
      /\ from \in [Threads -> Nat] /\ upto \in [Threads -> Nat]
      /\ recorded \in Nat /\ erased \in Nat /\ erased <= recorded /\ recorded <= MaxRecords
      /\ failures \in Nat /\ failures < MaxFailures
      /\ MaxRecords \in Nat /\ MaxEntries \in Nat /\ MaxFailures \in Nat /\ MaxFailures > 0
      /\ attempts \in [Entries -> 0..(MaxFailures + 1)] /\ receipts \in [Entries -> Nat]
      /\ excused \subseteq Entries /\ recorded - erased <= MaxEntries
      /\ FlightInv /\ FateInv /\ AttemptInv
  BY FlightNat DEF Inv, TypeOK, BufferOK, NumbersOK
<1>1. CASE Quiet
  BY <1>1 DEF Quiet, entries, SameFlights, Steady
<1>2. CASE Recorded
  BY <1>2 DEF Recorded, SameFlights, Steady
<1>3. CASE Discarded
  BY <1>3 DEF Discarded, SameFlights, Steady
<1>4. ASSUME NEW t \in Threads, Sent(t) PROVE Steady
  <2>1. \A e \in Entries : attempts'[e] = SentOnce(attempts[e]) \/ attempts'[e] = attempts[e]
    BY <1>a, <1>4 DEF Sent
  <2>2. ASSUME NEW e \in Entries, attempts[e] > 0 PROVE attempts'[e] > 0
    <3>1. attempts[e] \in Nat
      BY <1>a
    <3>2. attempts'[e] = attempts[e] + 1 \/ attempts'[e] = attempts[e]
      BY <2>1 DEF SentOnce
    <3>3. QED
      BY <2>2, <3>1, <3>2
  <2>3. (~overlapped' => ~overlapped) /\ UNCHANGED discarded
    BY <1>4 DEF Sent
  <2>4. QED
    BY <2>2, <2>3 DEF Steady
<1>5. ASSUME NEW t \in Threads, Kept(t) PROVE Steady
  BY <1>5 DEF Kept, Landed, Steady
<1>6. ASSUME NEW t \in Threads, Taken(t) PROVE Steady
  BY <1>6 DEF Taken, Landed, Erased, Steady
<1>7. ASSUME NEW t \in Threads, Dropped(t) PROVE Steady
  BY <1>7 DEF Dropped, Landed, Erased, Steady
<1>8. ASSUME NEW t \in Threads, Failed(t) PROVE Steady
  BY <1>8 DEF Failed, Landed, entries, Steady
<1>9. QED
  BY <1>1, <1>2, <1>3, <1>4, <1>5, <1>6, <1>7, <1>8, Effects DEF Effect

\* A shutdown() that sends, sends everything still buffered.
LEMMA StepSendInv == ASSUME Inv, [Next]_vars PROVE SendInv'
<1> USE DEF At, Goto, buffer, flags, batches, calls, history, closings, vars, Inv, TypeOK,
   ThreadsOK, NumbersOK, PcInv, CloseInv, FlushPcs, ClosePcs
<1>0. Worker \in Threads /\ Callers \subseteq Threads /\ Worker \notin Callers
  BY MetricThreadsAssumption DEF Threads
<1>a. /\ ~overlapped' => ~overlapped
      /\ discarded => discarded'
      /\ \A e \in Entries : attempts[e] > 0 => attempts'[e] > 0
  BY StaysSent DEF Steady
<1>1. CASE UNCHANGED vars
  BY <1>1, <1>a DEF SendInv
<1>2. ASSUME NEW t \in Callers, Record(t) PROVE SendInv'
  BY <1>2, <1>0, <1>a DEF Record, SendInv
<1>3. ASSUME NEW t \in Callers, EnsureWorkerStarted(t) PROVE SendInv'
  BY <1>3, <1>0, <1>a DEF EnsureWorkerStarted, SendInv
<1>4. ASSUME NEW t \in Callers, FlushBegin(t) PROVE SendInv'
  BY <1>4, <1>0, <1>a DEF FlushBegin, SendInv
<1>5. ASSUME NEW t \in Threads, FlushSnapshot(t) PROVE SendInv'
  <2>1. SUFFICES ASSUME ~overlapped', NEW c \in Callers,
                        \/ closing'[c] = "shutdown" /\ pc'[c] \in {"deliver", "log"}
                        \/ closed'[c] = "shutdown",
                        NEW e \in Entries, e <= mark'[c]
                 PROVE  attempts'[e] > 0 \/ discarded'
    BY DEF SendInv
  <2>2. ~overlapped /\ mark'[c] = mark[c]
    BY <1>a, <2>1, <1>5 DEF FlushSnapshot
  <2>3. CASE c = t /\ closing[t] # "no"
    <3>1. closing[t] = "shutdown" /\ mark[t] <= recorded
      BY <2>3, <1>5 DEF FlushSnapshot
    <3>2. e <= recorded
      BY <2>1, <2>2, <2>3, <3>1, FlightNat DEF Entries
    <3>3. CASE e <= erased
      BY <1>a, <2>2, <3>3 DEF FateInv
    <3>4. CASE ~(e <= erased)
      <4>1. recorded > erased /\ e \in (erased + 1)..recorded
        BY <3>2, <3>4, FlightNat DEF Entries
      <4>2. attempts'[e] = SentOnce(attempts[e])
        BY <4>1, FlightNat, <1>5 DEF FlushSnapshot
      <4>3. attempts[e] \in Nat /\ (attempts[e] <= MaxFailures \/ attempts[e] > 0)
        BY FlightNat
      <4>4. QED
        BY <4>2, <4>3 DEF SentOnce
    <3>5. QED
      BY <3>3, <3>4
  <2>4. CASE ~(c = t /\ closing[t] # "no")
    <3>1. closing'[c] = closing[c] /\ closed'[c] = closed[c] /\ (c # t => pc'[c] = pc[c])
      BY <1>0, <2>4, <1>5 DEF FlushSnapshot, FlushReturn
    <3>2. \/ closing[c] = "shutdown" /\ pc[c] \in {"deliver", "log"}
          \/ closed[c] = "shutdown"
      BY <2>1, <2>4, <3>1
    <3>3. attempts[e] > 0 \/ discarded
      BY <2>1, <2>2, <3>2 DEF SendInv
    <3>4. QED
      BY <1>a, <3>3
  <2>5. QED
    BY <2>3, <2>4
<1>6. ASSUME NEW t \in Threads, FlushSettle(t) PROVE SendInv'
  BY <1>6, <1>0, <1>a DEF FlushSettle, FlushReturn, LetGo, SendInv
<1>7. ASSUME NEW t \in Threads, FlushThrows(t) PROVE SendInv'
  BY <1>7, <1>0, <1>a DEF FlushThrows, FlushException, FlushReturn, SendInv
<1>8. ASSUME NEW t \in Threads, FlushLog(t) PROVE SendInv'
  BY <1>8, <1>0, <1>a DEF FlushLog, FlushException, FlushReturn, SendInv
<1>9. CASE WorkerLoop
  BY <1>9, <1>0, <1>a DEF WorkerLoop, SendInv
<1>10. CASE WorkerCaught
  BY <1>10, <1>0, <1>a DEF WorkerCaught, SendInv
<1>11. ASSUME NEW t \in Callers, NEW how \in {"shutdown", "discard"}, CloseBegin(t, how)
      PROVE  SendInv'
  BY <1>11, <1>0, <1>a DEF CloseBegin, SendInv
<1>12. ASSUME NEW t \in Callers, Stop(t) PROVE SendInv'
  BY <1>12, <1>0, <1>a DEF Stop, SendInv
<1>13. ASSUME NEW t \in Callers, Join(t) PROVE SendInv'
  BY <1>13, <1>0, <1>a DEF Join, SendInv
<1>14. ASSUME NEW t \in Callers, ShutdownLocked(t) PROVE SendInv'
  BY <1>14, <1>0, <1>a DEF ShutdownLocked, FlushReturn, SendInv
<1>15. ASSUME NEW t \in Callers, DiscardLocked(t) PROVE SendInv'
  BY <1>15, <1>0, <1>a DEF DiscardLocked, FlushReturn, SendInv
<1>16. QED
  BY <1>1, <1>2, <1>3, <1>4, <1>5, <1>6, <1>7, <1>8, <1>9, <1>10, <1>11, <1>12, <1>13, <1>14, <1>15
     DEF Next, FlushStep, CloseStep, WorkerStep

\* A discard() that returns leaves nothing, and what is recorded later starts behind it.
LEMMA StepDiscardInv == ASSUME Inv, [Next]_vars PROVE DiscardInv'
<1> USE DEF At, Goto, buffer, flags, batches, calls, history, closings, vars, Inv, TypeOK,
   ThreadsOK, NumbersOK, PcInv, CloseInv, FlushPcs, ClosePcs
<1>0. Worker \in Threads /\ Callers \subseteq Threads /\ Worker \notin Callers
  BY MetricThreadsAssumption DEF Threads
<1>a. /\ ~overlapped' => ~overlapped
      /\ discarded => discarded'
      /\ \A e \in Entries : attempts[e] > 0 => attempts'[e] > 0
  BY StaysSent DEF Steady
<1>1. CASE UNCHANGED vars
  BY <1>1, <1>a DEF DiscardInv, InFlight
<1>2. ASSUME NEW t \in Callers, Record(t) PROVE DiscardInv'
  BY <1>2, <1>0, <1>a DEF Record, DiscardInv, InFlight
<1>3. ASSUME NEW t \in Callers, EnsureWorkerStarted(t) PROVE DiscardInv'
  BY <1>3, <1>0, <1>a DEF EnsureWorkerStarted, DiscardInv, InFlight
<1>4. ASSUME NEW t \in Callers, FlushBegin(t) PROVE DiscardInv'
  BY <1>4, <1>0, <1>a DEF FlushBegin, DiscardInv, InFlight
<1>5. ASSUME NEW t \in Threads, FlushSnapshot(t) PROVE DiscardInv'
  <2>1. SUFFICES ASSUME ~overlapped', NEW c \in Callers, closed'[c] = "discard"
                 PROVE  /\ mark'[c] <= erased'
                        /\ \A u \in Threads : InFlight(u)' => from'[u] > mark'[c]
    BY DEF DiscardInv
  <2>2. ~overlapped /\ closed[c] = "discard" /\ UNCHANGED <<mark, erased>>
    BY <1>0, <1>a, <2>1, <1>5 DEF FlushSnapshot, FlushReturn
  <2>3. mark[c] <= erased /\ mark[c] \in Nat /\ \A u \in Threads : InFlight(u) => from[u] > mark[c]
    BY <2>2 DEF DiscardInv
  <2>4. ASSUME NEW u \in Threads, InFlight(u)' PROVE from'[u] > mark[c]
    <3>1. CASE InFlight(u)
      <4>1. from'[u] = from[u]
        BY <3>1, <1>5 DEF FlushSnapshot, InFlight
      <4>2. QED
        BY <2>3, <3>1, <4>1
    <3>2. CASE ~InFlight(u)
      <4>1. from'[u] = erased + 1
        BY <1>0, <2>4, <3>2, <1>5 DEF FlushSnapshot, FlushReturn, InFlight
      <4>2. QED
        BY <2>3, <4>1, FlightNat
    <3>3. QED
      BY <3>1, <3>2
  <2>5. QED
    BY <2>2, <2>3, <2>4
<1>6. ASSUME NEW t \in Threads, FlushSettle(t) PROVE DiscardInv'
  <2>1. SUFFICES ASSUME ~overlapped', NEW c \in Callers, closed'[c] = "discard"
                 PROVE  /\ mark'[c] <= erased'
                        /\ \A u \in Threads : InFlight(u)' => from'[u] > mark'[c]
    BY DEF DiscardInv
  <2>2. ~overlapped /\ closed[c] = "discard" /\ UNCHANGED mark
    BY <1>0, <1>a, <2>1, <1>6 DEF FlushSettle, FlushReturn, LetGo
  <2>3. mark[c] <= erased /\ mark[c] \in Nat /\ \A u \in Threads : InFlight(u) => from[u] > mark[c]
    BY <2>2 DEF DiscardInv
  <2>4. \A u \in Threads : InFlight(u)' => InFlight(u) /\ from'[u] = from[u]
    BY <1>0, <1>6 DEF FlushSettle, FlushReturn, LetGo, InFlight
  <2>5. from[t] <= upto[t] /\ (EraseBatch(t) \/ UNCHANGED erased)
    BY <1>6 DEF FlushSettle, LetGo, FlightInv, InFlight
  <2>6. erased <= erased'
    BY <2>5, FlightNat DEF EraseBatch
  <2>7. mark[c] <= erased'
    BY <2>3, <2>5, <2>6, FlightNat DEF EraseBatch
  <2>8. QED
    BY <2>2, <2>3, <2>4, <2>7
<1>7. ASSUME NEW t \in Threads, FlushThrows(t) PROVE DiscardInv'
  BY <1>7, <1>0, <1>a DEF FlushThrows, FlushException, FlushReturn, DiscardInv, InFlight
<1>8. ASSUME NEW t \in Threads, FlushLog(t) PROVE DiscardInv'
  BY <1>8, <1>0, <1>a DEF FlushLog, FlushException, FlushReturn, DiscardInv, InFlight
<1>9. CASE WorkerLoop
  BY <1>9, <1>0, <1>a DEF WorkerLoop, DiscardInv, InFlight
<1>10. CASE WorkerCaught
  BY <1>10, <1>0, <1>a DEF WorkerCaught, DiscardInv, InFlight
<1>11. ASSUME NEW t \in Callers, NEW how \in {"shutdown", "discard"}, CloseBegin(t, how)
      PROVE  DiscardInv'
  BY <1>11, <1>0, <1>a DEF CloseBegin, DiscardInv, InFlight
<1>12. ASSUME NEW t \in Callers, Stop(t) PROVE DiscardInv'
  BY <1>12, <1>0, <1>a DEF Stop, DiscardInv, InFlight
<1>13. ASSUME NEW t \in Callers, Join(t) PROVE DiscardInv'
  BY <1>13, <1>0, <1>a DEF Join, DiscardInv, InFlight
<1>14. ASSUME NEW t \in Callers, ShutdownLocked(t) PROVE DiscardInv'
  BY <1>14, <1>0, <1>a DEF ShutdownLocked, FlushReturn, DiscardInv, InFlight
<1>15. ASSUME NEW t \in Callers, DiscardLocked(t) PROVE DiscardInv'
  <2>1. SUFFICES ASSUME ~overlapped', NEW c \in Callers, closed'[c] = "discard"
                 PROVE  /\ mark'[c] <= erased'
                        /\ \A u \in Threads : InFlight(u)' => from'[u] > mark'[c]
    BY DEF DiscardInv
  <2>2. \A u \in Threads : ~InFlight(u)'
    BY <1>0, <2>1, <1>15 DEF DiscardLocked, FlushReturn, InFlight
  <2>3. mark'[c] <= erased'
    BY <1>15 DEF DiscardLocked
  <2>4. QED
    BY <2>2, <2>3
<1>16. QED
  BY <1>1, <1>2, <1>3, <1>4, <1>5, <1>6, <1>7, <1>8, <1>9, <1>10, <1>11, <1>12, <1>13, <1>14, <1>15
     DEF Next, FlushStep, CloseStep, WorkerStep

-----------------------------------------------------------------------------
(* The theorems *)

\* The inductive invariant holds in every reachable state: the entries, the batches in
\* flight, the counter and what each thread in shutdown() or discard() may rely on.
THEOREM Invariance == Spec => []Inv
<1>1. Inv /\ [Next]_vars => Inv'
  <2> SUFFICES ASSUME Inv, [Next]_vars PROVE Inv'
    OBVIOUS
  <2>1. BufferOK'
    BY StepEntriesOK, StepCallsOK DEF BufferOK, EntriesOK, CallsOK
  <2>2. NumbersOK'
    BY StepFatesOK, StepCallsOK DEF NumbersOK, FatesOK, CallsOK
  <2>3. TypeOK'
    BY <2>1, <2>2, StepFlagsOK, StepThreadsOK DEF TypeOK
  <2>4. QED
    BY <2>3, StepPcInv, StepCloseInv, StepFlightInv, StepFateInv, StepAttemptInv, StepSendInv,
       StepDiscardInv DEF Inv
<1>2. QED
  BY InitInv, <1>1, PTL DEF Spec

\* Every variable keeps its type: the buffer within max_entries, the counter below
\* max_consecutive_failures.
THEOREM TypeCorrect == Spec => []TypeOK
<1>1. Inv => TypeOK
  BY DEF Inv
<1>2. QED
  BY <1>1, Invariance, PTL

\* Without overlapping flushes, flush() erases only what the server took or what was
\* dropped on purpose.
THEOREM ErasedWithReason == Spec => []ErasedHasReason
<1>1. Inv => ErasedHasReason
  <2> SUFFICES ASSUME Inv, ~overlapped, NEW e \in 1..erased
               PROVE  receipts[e] > 0 \/ e \in excused
    BY DEF ErasedHasReason
  <2>1. e \in Entries /\ e <= erased
    BY FlightNat DEF Entries
  <2>2. QED
    BY <2>1 DEF Inv, FateInv
<1>2. QED
  BY <1>1, Invariance, PTL

\* Without overlapping flushes, flush() sends no entry again that the server took.
THEOREM TakenOnce == Spec => []TakenAtMostOnce
<1>1. Inv => TakenAtMostOnce
  BY DEF Inv, FateInv, TakenAtMostOnce
<1>2. QED
  BY <1>1, Invariance, PTL

\* Without overlapping flushes or throwing deliveries, no entry is sent more than
\* max_consecutive_failures times.
THEOREM RetriesBounded == Spec => []RetryBound
<1>1. Inv => RetryBound
  BY DEF Inv, AttemptInv, RetryBound
<1>2. QED
  BY <1>1, Invariance, PTL

\* A shutdown() that returned has sent what was recorded before it stopped the worker.
THEOREM ShutdownSendsAll == Spec => []ShutdownSends
<1>1. Inv => ShutdownSends
  <2> SUFFICES ASSUME Inv, ~overlapped, NEW t \in Callers, closed[t] = "shutdown",
                      NEW e \in 1..mark[t]
               PROVE  attempts[e] > 0 \/ discarded
    BY DEF ShutdownSends
  <2>1. mark[t] \in Nat /\ mark[t] <= recorded
    BY DEF Inv, TypeOK, NumbersOK, CloseInv
  <2>2. e \in Entries /\ e <= mark[t]
    BY <2>1, FlightNat DEF Entries
  <2>3. QED
    BY <2>2 DEF Inv, SendInv
<1>2. QED
  BY <1>1, Invariance, PTL

\* A discard() that returned left nothing recorded before it in flight, and the worker
\* is gone.
THEOREM DiscardEnds == Spec => []DiscardIsFinal
<1>1. Inv => DiscardIsFinal
  <2> SUFFICES ASSUME Inv, ~overlapped, NEW t \in Callers, closed[t] = "discard",
                      NEW u \in Threads, InFlight(u)
               PROVE  u # Worker /\ from[u] > mark[t]
    BY DEF DiscardIsFinal
  <2>1. from[u] > mark[t]
    BY DEF Inv, DiscardInv
  <2>2. pc[Worker] \in {"off", "exited"}
    BY DEF Inv, CloseInv, WorkerGone
  <2>3. QED
    BY <2>1, <2>2 DEF InFlight
<1>2. QED
  BY <1>1, Invariance, PTL

=============================================================================
