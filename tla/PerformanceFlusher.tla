-------------------------- MODULE PerformanceFlusher --------------------------
(***************************************************************************)
(* The performance flusher of performance_flusher.cpp: record() tallies    *)
(* durations into one bucket per transaction, flush() sends a snapshot of  *)
(* every bucket with the lock released and then subtracts what it sent, on *)
(* the worker's timer, in flush_performance() and in shutdown().           *)
(*                                                                         *)
(* A critical section of mutex_ is one atomic step.  Time is the number of *)
(* durations recorded so far: all that a period's ends decide is which     *)
(* durations fall inside.  Durations are whole milliseconds, so sums are   *)
(* exact.  An operator marked "Mutant" is a plausible bug no action uses.  *)
(***************************************************************************)
EXTENDS Integers, Sequences, FiniteSetsExt

CONSTANTS
  Callers,      \* application threads
  Worker,       \* the thread PerformanceFlusher::run runs on
  Names,        \* transaction names, reduced already if strict_privacy is on
  Durations,    \* what record() is called with
  MaxFailures,  \* max_consecutive_failures
  MaxRecords,   \* bounds: durations recorded, and calls of each kind made
  MaxFlushes,
  MaxCloses,
  Faults        \* what the environment may do wrong in this instance

Threads == Callers \cup {Worker}

FaultKinds ==
  { "throw",    \* a sample cannot be serialised (a name that is not UTF-8, say)
    "logger",   \* the configured logger throws
    "start" }   \* std::thread's constructor throws

ASSUME FlusherThreadsAssumption == Worker \notin Callers
ASSUME FlusherBoundsAssumption ==
  /\ Durations \subseteq Nat /\ MaxFailures \in Nat \ {0}
  /\ MaxRecords \in Nat /\ MaxFlushes \in Nat /\ MaxCloses \in Nat
ASSUME FlusherFaultsAssumption == Faults \subseteq FaultKinds

-----------------------------------------------------------------------------
(* Buckets *)

kHistogramBoundariesMs == {50, 100, 250, 500, 1000, 2500, 5000, 10000}
Infinite == 0  \* the label "inf"
Labels == kHistogramBoundariesMs \cup {Infinite}

HistogramBucketFor(ms) ==
  LET fits == {b \in kHistogramBoundariesMs : ms <= b} IN IF fits = {} THEN Infinite ELSE Min(fits)

NoBucket == [count |-> 0, sum |-> 0, max |-> 0, histogram |-> [l \in Labels |-> 0]]

WithDuration(bucket, ms) ==
  [ count |-> bucket.count + 1,
    sum |-> bucket.sum + ms,
    max |-> IF ms > bucket.max THEN ms ELSE bucket.max,
    histogram |-> [bucket.histogram EXCEPT ![HistogramBucketFor(ms)] = @ + 1] ]

Monus(a, b) == IF a > b THEN a - b ELSE 0

\* Mutant: the histogram is left as it is.
WithoutCountAndSum(bucket, sent) ==
  IF Monus(bucket.count, sent.count) = 0 THEN NoBucket
  ELSE [bucket EXCEPT !.count = Monus(@, sent.count), !.sum = Monus(@, sent.sum)]

\* Mutant: the maximum starts again, as if what is left were nothing.
WithoutMax(bucket, sent) ==
  IF Monus(bucket.count, sent.count) = 0 THEN NoBucket
  ELSE [ count |-> Monus(bucket.count, sent.count),
         sum |-> Monus(bucket.sum, sent.sum),
         max |-> 0,
         histogram |-> [l \in Labels |-> Monus(bucket.histogram[l], sent.histogram[l])] ]

\* What remove_sent leaves of one bucket: nothing once its count is down to 0, and
\* its maximum untouched.
Without(bucket, sent) ==
  IF Monus(bucket.count, sent.count) = 0 THEN NoBucket
  ELSE [ count |-> Monus(bucket.count, sent.count),
         sum |-> Monus(bucket.sum, sent.sum),
         max |-> bucket.max,
         histogram |-> [l \in Labels |-> Monus(bucket.histogram[l], sent.histogram[l])] ]

-----------------------------------------------------------------------------

VARIABLES
  buckets,           \* buckets_; a name that has none is at NoBucket
  periodStart,       \* period_started_at_
  failures,          \* consecutive_failures_
  workerStarted, stopping, discarded,  \* worker_started_, stopping_, discarded_
  process,           \* up, or aborted
  pc,                \* where each thread stands
  snapshot,          \* what a thread's flush() is delivering
  from, upto,        \* the period it reports
  closing,           \* the shutdown() or discard() a thread is in
  flushes, closes,   \* calls made so far
  \* What happened, for the properties only:
  log,               \* every duration recorded, in order
  receipts,          \* how often the server took each of them
  excused,           \* those dropped on purpose: rejected, given up on, discarded
  overlapped,        \* a flush() was in flight while another one, or discard(), ran
  sentUpTo,          \* durations that were in some sample, by their number
  closed,            \* which of shutdown() and discard() returned last, unless one runs
  mark               \* how many durations were recorded when it stopped the worker

flags == <<workerStarted, stopping, discarded>>
tally == <<buckets, periodStart, failures>>
batches == <<snapshot, from, upto>>
calls == <<flushes, closes>>
history == <<log, receipts, excused, overlapped, sentUpTo>>
closings == <<closing, closed, mark>>
vars == <<tally, flags, process, batches, calls, history, closings, pc>>

recorded == Len(log)
Records == 1..MaxRecords
Pcs == {"idle", "ensure", "flush", "deliver", "log", "stop", "join", "close",
        "off", "run", "caught", "exited"}
Closings == {"no", "shutdown", "discard"}
Bucket == [count : Nat, sum : Nat, max : Nat, histogram : [Labels -> Nat]]

TallyOK ==
  /\ buckets \in [Names -> Bucket]
  /\ \A name \in Names : buckets[name].count = 0 => buckets[name] = NoBucket
  /\ periodStart \in 0..recorded /\ failures \in 0..(MaxFailures - 1)

FlagsOK ==
  /\ workerStarted \in BOOLEAN /\ stopping \in BOOLEAN /\ discarded \in BOOLEAN
  /\ overlapped \in BOOLEAN

ThreadsOK ==
  /\ process \in {"up", "aborted"}
  /\ pc \in [Threads -> Pcs]
  /\ closing \in [Callers -> Closings] /\ closed \in Closings

BatchesOK ==
  /\ snapshot \in [Threads -> [Names -> Bucket]]
  /\ from \in [Threads -> Nat] /\ upto \in [Threads -> Nat]

HistoryOK ==
  /\ flushes \in Nat /\ closes \in Nat /\ sentUpTo \in Nat /\ mark \in Nat
  /\ log \in Seq([name : Names, ms : Durations]) /\ recorded <= MaxRecords
  /\ receipts \in [Records -> Nat] /\ excused \subseteq Records

TypeOK == TallyOK /\ FlagsOK /\ ThreadsOK /\ BatchesOK /\ HistoryOK

NoBuckets == [name \in Names |-> NoBucket]

Init ==
  /\ buckets = NoBuckets /\ periodStart = 0 /\ failures = 0
  /\ workerStarted = FALSE /\ stopping = FALSE /\ discarded = FALSE /\ process = "up"
  /\ pc = [t \in Threads |-> IF t = Worker THEN "off" ELSE "idle"]
  /\ snapshot = [t \in Threads |-> NoBuckets]
  /\ from = [t \in Threads |-> 0] /\ upto = [t \in Threads |-> 0]
  /\ flushes = 0 /\ closes = 0
  /\ log = <<>> /\ receipts = [i \in Records |-> 0] /\ excused = {}
  /\ overlapped = FALSE /\ sentUpTo = 0
  /\ closing = [t \in Callers |-> "no"] /\ closed = "no" /\ mark = 0

At(t, where) == process = "up" /\ pc[t] = where
Goto(t, where) == pc' = [pc EXCEPT ![t] = where]

-----------------------------------------------------------------------------
(* record() and ensure_worker_started() *)

\* Tracking is on and the environment enabled: otherwise record() does nothing.
Record(t) ==
  /\ At(t, "idle") /\ recorded < MaxRecords
  /\ \E name \in Names, ms \in Durations :
       /\ buckets' = [buckets EXCEPT ![name] = WithDuration(@, ms)]
       /\ log' = Append(log, [name |-> name, ms |-> ms])
  /\ Goto(t, "ensure")
  /\ UNCHANGED <<periodStart, failures, flags, process, batches, calls, receipts, excused,
                 overlapped, sentUpTo, closings>>

\* worker_started_ is set even when std::thread's constructor then throws.
EnsureWorkerStarted(t) ==
  /\ At(t, "ensure")
  /\ \/ (workerStarted \/ stopping) /\ Goto(t, "idle") /\ UNCHANGED workerStarted
     \/ /\ ~workerStarted /\ ~stopping
        /\ workerStarted' = TRUE
        /\ \/ pc' = [pc EXCEPT ![t] = "idle", ![Worker] = "run"]
           \/ "start" \in Faults /\ Goto(t, "idle")
  /\ UNCHANGED <<tally, stopping, discarded, process, batches, calls, history, closings>>

-----------------------------------------------------------------------------
(* flush() *)

InFlight(t) == pc[t] = "deliver"

FlushBegin(t) ==
  /\ At(t, "idle") /\ flushes < MaxFlushes
  /\ flushes' = flushes + 1
  /\ Goto(t, "flush")
  /\ UNCHANGED <<tally, flags, process, batches, closes, history, closings>>

\* Back to the timer, to the application, or out of shutdown().
FlushReturn(t) ==
  /\ Goto(t, IF t = Worker THEN "run" ELSE "idle")
  /\ IF t \in Callers /\ closing[t] # "no"
     THEN closing' = [closing EXCEPT ![t] = "no"] /\ closed' = closing[t]
     ELSE UNCHANGED <<closing, closed>>

\* An exception: run() catches it and logs, shutdown() swallows it, the
\* application gets it.
FlushException(t) ==
  IF t = Worker THEN Goto(t, "caught") /\ UNCHANGED <<closing, closed>> ELSE FlushReturn(t)

\* Copies every bucket and the period, under the lock, and begins to deliver.
FlushSnapshot(t) ==
  /\ At(t, "flush")
  /\ \/ buckets = NoBuckets /\ FlushReturn(t) /\ UNCHANGED <<batches, overlapped, sentUpTo>>
     \/ /\ buckets # NoBuckets
        /\ snapshot' = [snapshot EXCEPT ![t] = buckets]
        /\ from' = [from EXCEPT ![t] = periodStart]
        /\ upto' = [upto EXCEPT ![t] = recorded]
        /\ sentUpTo' = Max({sentUpTo, recorded})
        /\ overlapped' = (overlapped \/ \E u \in Threads : InFlight(u))
        /\ Goto(t, "deliver")
        /\ UNCHANGED <<closing, closed>>
  /\ UNCHANGED <<tally, flags, process, calls, log, receipts, excused, mark>>

\* Mutant: every bucket is cleared, as if nothing were recorded during a delivery.
RemoveEverything(t) ==
  /\ buckets' = NoBuckets
  /\ periodStart' = upto[t]

\* Mutant: the next period begins where this one began.
RemoveSentSamePeriod(t) ==
  /\ buckets' = [name \in Names |-> Without(buckets[name], snapshot[t][name])]
  /\ UNCHANGED periodStart

RemoveSent(t) ==
  /\ buckets' = [name \in Names |-> Without(buckets[name], snapshot[t][name])]
  /\ periodStart' = upto[t]

\* Mutant: one failure too many is kept.
RetriesLeftOffByOne == failures < MaxFailures

RetriesLeft == failures + 1 < MaxFailures

Period(t) == (from[t] + 1)..upto[t]

\* flush()'s locals go out of scope.
Forget(t) ==
  /\ snapshot' = [snapshot EXCEPT ![t] = NoBuckets]
  /\ from' = [from EXCEPT ![t] = 0]
  /\ upto' = [upto EXCEPT ![t] = 0]

\* The batch is let go, with a line to the logger.
LetGo(t) ==
  /\ failures' = 0
  /\ RemoveSent(t)
  /\ excused' = excused \cup Period(t)
  /\ Goto(t, "log")
  /\ UNCHANGED <<receipts, closing, closed>>

\* The answer, by its DeliveryOutcome, handled under the lock.
FlushSettle(t) ==
  /\ At(t, "deliver")
  /\ \E outcome \in {"delivered", "rejected", "failed"} :
       \/ /\ outcome = "delivered"
          /\ failures' = 0
          /\ RemoveSent(t)
          /\ receipts' = [i \in Records |-> IF i \in Period(t) THEN receipts[i] + 1 ELSE receipts[i]]
          /\ FlushReturn(t)
          /\ UNCHANGED excused
       \/ /\ outcome = "failed" /\ RetriesLeft  \* kept for the next flush
          /\ failures' = failures + 1
          /\ FlushReturn(t)
          /\ UNCHANGED <<buckets, periodStart, receipts, excused>>
       \/ outcome = "rejected" /\ LetGo(t)
       \/ outcome = "failed" /\ ~RetriesLeft /\ LetGo(t)
  /\ Forget(t)
  /\ UNCHANGED <<flags, process, calls, log, overlapped, sentUpTo, mark>>

FlushThrows(t) ==
  /\ At(t, "deliver") /\ "throw" \in Faults
  /\ FlushException(t)
  /\ Forget(t)
  /\ UNCHANGED <<tally, flags, process, calls, history, mark>>

FlushLog(t) ==
  /\ At(t, "log")
  /\ \/ FlushReturn(t)
     \/ "logger" \in Faults /\ FlushException(t)
  /\ UNCHANGED <<tally, flags, process, batches, calls, history, mark>>

-----------------------------------------------------------------------------
(* run(): the worker thread *)

\* Waits out the interval, or leaves.
WorkerLoop ==
  /\ At(Worker, "run")
  /\ Goto(Worker, IF stopping THEN "exited" ELSE "flush")
  /\ UNCHANGED <<tally, flags, process, batches, calls, history, closings>>

\* The log in run()'s catch block; thrown out of, it ends the process.
WorkerCaught ==
  /\ At(Worker, "caught")
  /\ \/ Goto(Worker, "run") /\ UNCHANGED process
     \/ "logger" \in Faults /\ process' = "aborted" /\ UNCHANGED pc
  /\ UNCHANGED <<tally, flags, batches, calls, history, closings>>

-----------------------------------------------------------------------------
(* shutdown(), discard() and stop(): one at a time *)

CloseBegin(t, how) ==
  /\ At(t, "idle") /\ closes < MaxCloses
  /\ \A u \in Callers : closing[u] = "no"
  /\ closes' = closes + 1
  /\ closing' = [closing EXCEPT ![t] = how]
  /\ closed' = "no"
  /\ Goto(t, "stop")
  /\ UNCHANGED <<tally, flags, process, batches, flushes, history, mark>>

Stop(t) ==
  /\ At(t, "stop")
  /\ stopping' = TRUE
  /\ mark' = recorded
  /\ Goto(t, "join")
  /\ UNCHANGED <<tally, workerStarted, discarded, process, batches, calls, history, closing,
                 closed>>

Join(t) ==
  /\ At(t, "join") /\ pc[Worker] \in {"off", "exited"}
  /\ Goto(t, "close")
  /\ UNCHANGED <<tally, flags, process, batches, calls, history, closings>>

\* Mutant: shutdown() only stops the worker.
ShutdownLockedNoFlush(t) ==
  /\ At(t, "close") /\ closing[t] = "shutdown"
  /\ FlushReturn(t)
  /\ UNCHANGED <<tally, flags, process, batches, calls, history, mark>>

\* shutdown() flushes what is left, unless it was discarded.
ShutdownLocked(t) ==
  /\ At(t, "close") /\ closing[t] = "shutdown"
  /\ \/ discarded /\ FlushReturn(t)
     \/ ~discarded /\ Goto(t, "flush") /\ UNCHANGED <<closing, closed>>
  /\ UNCHANGED <<tally, flags, process, batches, calls, history, mark>>

\* discard() drops what is left; the period goes on.
DiscardLocked(t) ==
  /\ At(t, "close") /\ closing[t] = "discard"
  /\ discarded' = TRUE /\ failures' = 0 /\ buckets' = NoBuckets
  /\ excused' = excused \cup (periodStart + 1)..recorded
  /\ overlapped' = (overlapped \/ \E u \in Threads : InFlight(u))
  /\ FlushReturn(t)
  /\ UNCHANGED <<periodStart, workerStarted, stopping, process, batches, calls, log, receipts,
                 sentUpTo, mark>>

-----------------------------------------------------------------------------

FlushStep(t) == FlushSnapshot(t) \/ FlushSettle(t) \/ FlushThrows(t) \/ FlushLog(t)
CloseStep(t) == Stop(t) \/ Join(t) \/ ShutdownLocked(t) \/ DiscardLocked(t)
WorkerStep == WorkerLoop \/ WorkerCaught

Next ==
  \/ \E t \in Callers : Record(t) \/ EnsureWorkerStarted(t) \/ FlushBegin(t) \/ CloseStep(t)
  \/ \E t \in Callers, how \in {"shutdown", "discard"} : CloseBegin(t, how)
  \/ \E t \in Threads : FlushStep(t)
  \/ WorkerStep

Spec == Init /\ [][Next]_vars

-----------------------------------------------------------------------------
(* Safety.  "Discarded" durations are counted until the period they fell in ends, so *)
(* what buckets and samples must add up to is the undiscarded part of the period.    *)

RecordsOf(name, range) == {i \in range \cap DOMAIN log : log[i].name = name}

Describes(bucket, records) ==
  /\ bucket.count = Cardinality(records)
  /\ bucket.sum = MapThenSumSet(LAMBDA i : log[i].ms, records)
  /\ \A l \in Labels :
       bucket.histogram[l] = Cardinality({i \in records : HistogramBucketFor(log[i].ms) = l})

\* The buckets describe exactly the durations recorded since the current period began
\* and neither sent nor dropped: however records land beside a delivery, nothing is
\* forgotten and nothing counted twice, in count, sum and histogram alike.
BucketsAddUp ==
  ~overlapped => \A name \in Names :
    Describes(buckets[name], RecordsOf(name, (periodStart + 1)..recorded) \ excused)

\* A sample under way describes exactly the durations recorded in the period it states.
SampleMatchesPeriod ==
  ~overlapped => \A t \in Threads : InFlight(t) => \A name \in Names :
    Describes(snapshot[t][name], RecordsOf(name, Period(t)) \ excused)

\* The maximum of a sample is never below a duration it counts.
MaxCoversPeriod ==
  ~overlapped => \A t \in Threads : InFlight(t) => \A name \in Names :
    \A i \in RecordsOf(name, Period(t)) \ excused : log[i].ms <= snapshot[t][name].max

\* The durations of periods that are over were each reported once, or dropped on
\* purpose, and the others never.
ReportedOnce ==
  ~overlapped => \A i \in Records :
    /\ i <= periodStart => receipts[i] = 1 \/ i \in excused
    /\ i > periodStart => receipts[i] = 0

\* When shutdown() has returned, everything recorded before it stopped the worker was
\* in a sample at least once, unless discard() took it.
ShutdownReports ==
  ~overlapped /\ closed = "shutdown" => mark <= sentUpTo \/ discarded

-----------------------------------------------------------------------------
(* What the comments say and the code does not do *)

\* performance_flusher.cpp, on keeping max_duration_ms when the bucket outlives what was
\* sent of it: "leaving it never overstates the next period's own max".
MaxNotOverstated ==
  ~overlapped => \A t \in Threads : InFlight(t) => \A name \in Names :
    LET durations == {log[i].ms : i \in RecordsOf(name, Period(t)) \ excused} IN
    durations # {} => snapshot[t][name].max <= Max(durations)

=============================================================================
