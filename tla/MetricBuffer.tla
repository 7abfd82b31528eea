----------------------------- MODULE MetricBuffer -----------------------------
(***************************************************************************)
(* The metric buffers of metric_buffer.cpp: record() appends an entry,     *)
(* flush() sends a snapshot of all of them with the lock released and then *)
(* erases as many from the front, on the worker's timer, on any thread     *)
(* that calls flush_metrics(), and once more in shutdown().                *)
(*                                                                         *)
(* A critical section of mutex_ is one atomic step.  Entries are appended  *)
(* at the back and erased from the front only, so entries_ holds exactly   *)
(* the entries erased + 1 .. recorded.  An operator marked "Mutant" is a   *)
(* plausible bug no action uses: it shows what a property would catch.     *)
(***************************************************************************)
EXTENDS Integers

CONSTANTS
  Callers,      \* application threads
  Worker,       \* the thread MetricBuffer::run runs on
  MaxEntries,   \* max_entries
  MaxFailures,  \* max_consecutive_failures
  MaxRecords,   \* bounds: entries kept, and calls of each kind made
  MaxFlushes,
  MaxCloses,
  Faults        \* what the environment may do wrong in this instance

Threads == Callers \cup {Worker}

FaultKinds ==
  { "throw",    \* deliver_status_ throws (a name that is not UTF-8, say)
    "logger",   \* the configured logger throws
    "start" }   \* std::thread's constructor throws

ASSUME MetricThreadsAssumption == Worker \notin Callers
ASSUME MetricBoundsAssumption ==
  /\ MaxEntries \in Nat /\ MaxFailures \in Nat \ {0}
  /\ MaxRecords \in Nat /\ MaxFlushes \in Nat /\ MaxCloses \in Nat
ASSUME MetricFaultsAssumption == Faults \subseteq FaultKinds

VARIABLES
  erased, recorded,  \* entries_
  failures,          \* consecutive_failures_
  workerStarted, stopping, discarded,  \* worker_started_, stopping_, discarded_
  process,     \* up, aborted, or past an operation whose behaviour is undefined
  pc,          \* where each thread stands
  from, upto,  \* the batch a thread's flush() is delivering, or 0
  closing,     \* the shutdown() or discard() a thread is in
  flushes, closes,  \* calls made so far
  \* What happened, for the properties only:
  attempts,    \* how often each entry was sent, up to MaxFailures + 1
  receipts,    \* how often the server took each entry
  excused,     \* entries dropped on purpose: rejected, given up on, discarded
  overlapped,  \* a flush() was in flight while another one, or discard(), ran
  threw,       \* a delivery has thrown
  closed,      \* the last shutdown() or discard() that returned on the thread
  mark         \* how many entries were recorded when it stopped the worker

flags == <<workerStarted, stopping, discarded>>
buffer == <<erased, recorded, failures>>
batches == <<from, upto>>
calls == <<flushes, closes>>
history == <<attempts, receipts, excused, overlapped, threw>>
closings == <<closing, closed, mark>>
vars == <<buffer, flags, process, batches, calls, history, closings, pc>>

Entries == 1..MaxRecords
Pcs == {"idle", "ensure", "flush", "deliver", "log", "stop", "join", "close",
        "off", "run", "caught", "exited"}
Closings == {"no", "shutdown", "discard"}

BufferOK ==
  /\ recorded \in 0..MaxRecords /\ erased \in 0..recorded /\ recorded - erased <= MaxEntries
  /\ failures \in 0..(MaxFailures - 1)
  /\ flushes \in Nat /\ closes \in Nat

FlagsOK ==
  /\ workerStarted \in BOOLEAN /\ stopping \in BOOLEAN /\ discarded \in BOOLEAN
  /\ overlapped \in BOOLEAN /\ threw \in BOOLEAN

ThreadsOK ==
  /\ process \in {"up", "aborted", "undefined"}
  /\ pc \in [Threads -> Pcs]
  /\ closing \in [Callers -> Closings] /\ closed \in [Callers -> Closings]

NumbersOK ==
  /\ from \in [Threads -> Nat] /\ upto \in [Threads -> Nat] /\ mark \in [Callers -> Nat]
  /\ attempts \in [Entries -> 0..(MaxFailures + 1)] /\ receipts \in [Entries -> Nat]
  /\ excused \subseteq Entries

TypeOK == BufferOK /\ FlagsOK /\ ThreadsOK /\ NumbersOK

Init ==
  /\ erased = 0 /\ recorded = 0 /\ failures = 0
  /\ workerStarted = FALSE /\ stopping = FALSE /\ discarded = FALSE /\ process = "up"
  /\ pc = [t \in Threads |-> IF t = Worker THEN "off" ELSE "idle"]
  /\ from = [t \in Threads |-> 0] /\ upto = [t \in Threads |-> 0]
  /\ flushes = 0 /\ closes = 0
  /\ attempts = [e \in Entries |-> 0] /\ receipts = [e \in Entries |-> 0]
  /\ excused = {} /\ overlapped = FALSE /\ threw = FALSE
  /\ closing = [t \in Callers |-> "no"] /\ closed = [t \in Callers |-> "no"]
  /\ mark = [t \in Callers |-> 0]

At(t, where) == process = "up" /\ pc[t] = where
Goto(t, where) == pc' = [pc EXCEPT ![t] = where]

-----------------------------------------------------------------------------
(* record() and ensure_worker_started() *)

\* Mutant: one entry above max_entries fits.
RecordOffByOne(t) ==
  /\ At(t, "idle") /\ recorded < MaxRecords
  /\ recorded - erased <= MaxEntries
  /\ recorded' = recorded + 1
  /\ Goto(t, "ensure")
  /\ UNCHANGED <<erased, failures, flags, process, batches, calls, history, closings>>

\* Appends the entry.  A full buffer drops it, which changes nothing.
Record(t) ==
  /\ At(t, "idle") /\ recorded < MaxRecords
  /\ recorded - erased < MaxEntries
  /\ recorded' = recorded + 1
  /\ Goto(t, "ensure")
  /\ UNCHANGED <<erased, failures, flags, process, batches, calls, history, closings>>

\* worker_started_ is set even when std::thread's constructor then throws.
EnsureWorkerStarted(t) ==
  /\ At(t, "ensure")
  /\ \/ (workerStarted \/ stopping) /\ Goto(t, "idle") /\ UNCHANGED workerStarted
     \/ /\ ~workerStarted /\ ~stopping
        /\ workerStarted' = TRUE
        /\ \/ pc' = [pc EXCEPT ![t] = "idle", ![Worker] = "run"]
           \/ "start" \in Faults /\ Goto(t, "idle")
  /\ UNCHANGED <<buffer, stopping, discarded, process, batches, calls, history, closings>>

-----------------------------------------------------------------------------
(* flush() *)

InFlight(t) == pc[t] = "deliver"
Batch(t) == from[t]..upto[t]

FlushBegin(t) ==
  /\ At(t, "idle") /\ flushes < MaxFlushes
  /\ flushes' = flushes + 1
  /\ Goto(t, "flush")
  /\ UNCHANGED <<buffer, flags, process, batches, closes, history, closings>>

\* Back to the timer, to the application, or out of shutdown().
FlushReturn(t) ==
  /\ Goto(t, IF t = Worker THEN "run" ELSE "idle")
  /\ IF t \in Callers /\ closing[t] # "no"
     THEN closing' = [closing EXCEPT ![t] = "no"] /\ closed' = [closed EXCEPT ![t] = closing[t]]
     ELSE UNCHANGED <<closing, closed>>

\* An exception: run() catches it and logs, shutdown() swallows it, the
\* application gets it.
FlushException(t) ==
  IF t = Worker THEN Goto(t, "caught") /\ UNCHANGED <<closing, closed>> ELSE FlushReturn(t)

SentOnce(n) == IF n <= MaxFailures THEN n + 1 ELSE n

\* Copies everything buffered, under the lock, and begins to deliver the copy.
FlushSnapshot(t) ==
  /\ At(t, "flush")
  /\ \/ recorded = erased /\ FlushReturn(t) /\ UNCHANGED <<batches, attempts, overlapped>>
     \/ /\ recorded > erased
        /\ from' = [from EXCEPT ![t] = erased + 1]
        /\ upto' = [upto EXCEPT ![t] = recorded]
        /\ attempts' = [e \in Entries |-> IF e \in (erased + 1)..recorded
                                          THEN SentOnce(attempts[e]) ELSE attempts[e]]
        /\ overlapped' = (overlapped \/ \E u \in Threads : InFlight(u))
        /\ Goto(t, "deliver")
        /\ UNCHANGED <<closing, closed>>
  /\ UNCHANGED <<buffer, flags, process, calls, receipts, excused, threw, mark>>

\* Mutant: the buffer is cleared whatever was sent.
EraseEverything(t) == erased' = recorded /\ UNCHANGED process

\* Mutant: the last entry of the batch stays.
EraseAllButOne(t) == erased' = erased + upto[t] - from[t] /\ UNCHANGED process

\* Erases as many entries as the batch had.  Fewer may be left: entries_.erase is
\* then called past the end.
EraseBatch(t) ==
  LET count == upto[t] - from[t] + 1 IN
  IF count <= recorded - erased
  THEN erased' = erased + count /\ UNCHANGED process
  ELSE process' = "undefined" /\ UNCHANGED erased

\* Mutant: one failure too many is kept.
RetriesLeftOffByOne == failures < MaxFailures

RetriesLeft == failures + 1 < MaxFailures

\* Mutant: a batch given up on stays in the buffer.
LetGoKeepingBatch(t) ==
  /\ failures' = 0
  /\ UNCHANGED <<erased, process, receipts, excused, closing, closed>>
  /\ Goto(t, "log")

\* The batch is let go, with a line to the logger.
LetGo(t) ==
  /\ failures' = 0
  /\ EraseBatch(t)
  /\ excused' = excused \cup Batch(t)
  /\ Goto(t, "log")
  /\ UNCHANGED <<receipts, closing, closed>>

\* The answer, by its DeliveryOutcome, handled under the lock.
FlushSettle(t) ==
  /\ At(t, "deliver")
  /\ \E outcome \in {"delivered", "rejected", "failed"} :
       \/ /\ outcome = "delivered"
          /\ failures' = 0
          /\ EraseBatch(t)
          /\ receipts' = [e \in Entries |-> IF e \in Batch(t) THEN receipts[e] + 1 ELSE receipts[e]]
          /\ FlushReturn(t)
          /\ UNCHANGED excused
       \/ /\ outcome = "failed" /\ RetriesLeft  \* kept for the next flush
          /\ failures' = failures + 1
          /\ FlushReturn(t)
          /\ UNCHANGED <<erased, process, receipts, excused>>
       \/ outcome = "rejected" /\ LetGo(t)
       \/ outcome = "failed" /\ ~RetriesLeft /\ LetGo(t)
  /\ from' = [from EXCEPT ![t] = 0] /\ upto' = [upto EXCEPT ![t] = 0]
  /\ UNCHANGED <<recorded, flags, calls, attempts, overlapped, threw, mark>>

FlushThrows(t) ==
  /\ At(t, "deliver") /\ "throw" \in Faults
  /\ threw' = TRUE
  /\ FlushException(t)
  /\ from' = [from EXCEPT ![t] = 0] /\ upto' = [upto EXCEPT ![t] = 0]
  /\ UNCHANGED <<buffer, flags, process, calls, attempts, receipts, excused, overlapped, mark>>

FlushLog(t) ==
  /\ At(t, "log")
  /\ \/ FlushReturn(t)
     \/ "logger" \in Faults /\ FlushException(t)
  /\ UNCHANGED <<buffer, flags, process, batches, calls, history, mark>>

-----------------------------------------------------------------------------
(* run(): the worker thread *)

\* Mutant: run() never looks at stopping_.
WorkerLoopForever ==
  /\ At(Worker, "run")
  /\ Goto(Worker, "flush")
  /\ UNCHANGED <<buffer, flags, process, batches, calls, history, closings>>

\* Waits out the interval, or leaves.
WorkerLoop ==
  /\ At(Worker, "run")
  /\ Goto(Worker, IF stopping THEN "exited" ELSE "flush")
  /\ UNCHANGED <<buffer, flags, process, batches, calls, history, closings>>

\* The log in run()'s catch block; thrown out of, it ends the process.
WorkerCaught ==
  /\ At(Worker, "caught")
  /\ \/ Goto(Worker, "run") /\ UNCHANGED process
     \/ "logger" \in Faults /\ process' = "aborted" /\ UNCHANGED pc
  /\ UNCHANGED <<buffer, flags, batches, calls, history, closings>>

-----------------------------------------------------------------------------
(* shutdown(), discard() and stop(): one at a time *)

CloseBegin(t, how) ==
  /\ At(t, "idle") /\ closes < MaxCloses
  /\ \A u \in Callers : closing[u] = "no"
  /\ closes' = closes + 1
  /\ closing' = [closing EXCEPT ![t] = how]
  /\ closed' = [closed EXCEPT ![t] = "no"]
  /\ Goto(t, "stop")
  /\ UNCHANGED <<buffer, flags, process, batches, flushes, history, mark>>

Stop(t) ==
  /\ At(t, "stop")
  /\ stopping' = TRUE
  /\ mark' = [mark EXCEPT ![t] = recorded]
  /\ Goto(t, "join")
  /\ UNCHANGED <<buffer, workerStarted, discarded, process, batches, calls, history, closing, closed>>

\* Mutant: stop() does not wait for the worker.
JoinNobody(t) ==
  /\ At(t, "join")
  /\ Goto(t, "close")
  /\ UNCHANGED <<buffer, flags, process, batches, calls, history, closings>>

Join(t) ==
  /\ At(t, "join") /\ pc[Worker] \in {"off", "exited"}
  /\ Goto(t, "close")
  /\ UNCHANGED <<buffer, flags, process, batches, calls, history, closings>>

\* Mutant: shutdown() only stops the worker.
ShutdownLockedNoFlush(t) ==
  /\ At(t, "close") /\ closing[t] = "shutdown"
  /\ FlushReturn(t)
  /\ UNCHANGED <<buffer, flags, process, batches, calls, history, mark>>

\* shutdown() flushes what is left, unless it was discarded.
ShutdownLocked(t) ==
  /\ At(t, "close") /\ closing[t] = "shutdown"
  /\ \/ discarded /\ FlushReturn(t)
     \/ ~discarded /\ Goto(t, "flush") /\ UNCHANGED <<closing, closed>>
  /\ UNCHANGED <<buffer, flags, process, batches, calls, history, mark>>

\* discard() drops what is left.
DiscardLocked(t) ==
  /\ At(t, "close") /\ closing[t] = "discard"
  /\ discarded' = TRUE /\ failures' = 0 /\ erased' = recorded
  /\ excused' = excused \cup (erased + 1)..recorded
  /\ overlapped' = (overlapped \/ \E u \in Threads : InFlight(u))
  /\ FlushReturn(t)
  /\ UNCHANGED <<recorded, workerStarted, stopping, process, batches, calls, attempts, receipts,
                 threw, mark>>

-----------------------------------------------------------------------------

FlushStep(t) == FlushSnapshot(t) \/ FlushSettle(t) \/ FlushThrows(t) \/ FlushLog(t)
CloseStep(t) == Stop(t) \/ Join(t) \/ ShutdownLocked(t) \/ DiscardLocked(t)
WorkerStep == WorkerLoop \/ WorkerCaught

Next ==
  \/ \E t \in Callers : Record(t) \/ EnsureWorkerStarted(t) \/ FlushBegin(t) \/ CloseStep(t)
  \/ \E t \in Callers, how \in {"shutdown", "discard"} : CloseBegin(t, how)
  \/ \E t \in Threads : FlushStep(t)
  \/ WorkerStep

Spec == Init /\ [][Next]_vars

\* Started threads keep running, requests end (curl's timeout) and the interval
\* elapses; no answer is promised, and no call need be made.
Fairness ==
  /\ \A t \in Callers : WF_vars(EnsureWorkerStarted(t) \/ FlushStep(t) \/ CloseStep(t))
  /\ WF_vars(FlushStep(Worker) \/ WorkerStep)

FairSpec == Spec /\ Fairness

-----------------------------------------------------------------------------
(* Safety *)

\* Nothing leaves the buffer unsent: an entry is erased only when the server took
\* it, or it was dropped on purpose, however records and flushes interleave, as long
\* as no two flushes overlap.
ErasedHasReason ==
  ~overlapped => \A e \in 1..erased : receipts[e] > 0 \/ e \in excused

\* An entry the server has taken is never sent again.
TakenAtMostOnce ==
  ~overlapped => \A e \in Entries : receipts[e] <= 1

\* No entry is sent more than max_consecutive_failures times, as long as no delivery
\* throws: the counter is shared by batches that grow between failures.
RetryBound ==
  ~overlapped /\ ~threw => \A e \in Entries : attempts[e] <= MaxFailures

\* When shutdown() has returned, everything recorded before it stopped the worker was
\* sent at least once, unless discard() took it.
ShutdownSends ==
  ~overlapped => \A t \in Callers : closed[t] = "shutdown" =>
    \A e \in 1..mark[t] : attempts[e] > 0 \/ discarded

\* When discard() has returned, nothing recorded before it is on its way any more.
DiscardIsFinal ==
  ~overlapped => \A t \in Callers : closed[t] = "discard" =>
    \A u \in Threads : InFlight(u) => u # Worker /\ from[u] > mark[t]

-----------------------------------------------------------------------------
(* Liveness, under FairSpec *)

\* Every entry leaves the buffer even if the server is never reached again: the batch is
\* let go after max_consecutive_failures, so a buffer to which nothing is added any more
\* (MaxRecords) empties.  Exempt is one that is being stopped, one whose worker could not
\* be started, and one a delivery has thrown out of, which sends the same batch for ever.
EveryEntryLeaves ==
  recorded > erased ~>
    \/ recorded = erased \/ stopping \/ process # "up" \/ threw
    \/ workerStarted /\ pc[Worker] = "off"

\* shutdown() and discard() end.  They come one at a time.
CloseReturns ==
  (\E t \in Callers : closing[t] # "no") ~>
    ((\A t \in Callers : closing[t] = "no") \/ process # "up")

-----------------------------------------------------------------------------
(* What the comments say and the code does not do *)

\* metric_buffer.cpp: flush() erases "exactly the entries just delivered or dropped",
\* with several threads in flush() too.
ErasesExactlyTheBatch ==
  \A e \in 1..erased : receipts[e] > 0 \/ e \in excused

=============================================================================
