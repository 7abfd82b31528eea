# Verification of forge-ops-tracker (C++ SDK)

TLA+ models of this SDK: the queues, buffers, traces and globals where threads, failures and
process exit meet, and the scanners and rules that decide what leaves the process; the TLC runs that
check them on small instances, and TLAPS proofs of the properties that matter most, for every
number of threads, limit and call.

Modules are named after the classes they model; variables and actions keep the names of the
members and functions where TLA+ allows it. `PROJECT.json` maps every definition to its lines.

## The system

An application calls the functions of `forge_ops_tracker.hpp`; each hands its data to one of a
handful of components, most of which own a mutex, a buffer and one lazily started worker thread.
All of them deliver through `Client` (libcurl, one POST per call).

| Component | State | Operations | What is hard | What makes it correct |
|---|---|---|---|---|
| `DeliveryQueue` | `queue_`, `worker_started_`, `stopping_`, `in_flight_` | `push`, `drain`, `shutdown`, worker `run` | worker and any number of drains pop the same queue; deadlines; throwing deliveries and loggers; a lock held by a dead thread; shutdown between the two halves of a push | each payload delivered once, in order, by one holder; `drain()` true means nothing left behind; no worker after shutdown; every wait ends |
| `MetricBuffer` (custom and infrastructure) | `entries_`, `consecutive_failures_`, flags | `record`, `flush`, `shutdown`, `discard`, timer `run` | lock released around the request; flushes that overlap; failure counter shared by growing batches | nothing erased unsent, nothing stored twice, bounded retries, shutdown sends the rest, discard is final |
| `PerformanceFlusher` + `HistogramBucketer` | `buckets_` (count, sum, max, histogram), period start, counter, flags | `record`, `flush`, `remove_sent`, `shutdown`, `discard`, `run` | subtracting a snapshot from buckets that grew meanwhile | every duration reported exactly once; count, sum and histogram agree |
| `SpanQueue` | `queue_`, flags | `push`, `shutdown`, `discard`, `run` | log under the lock; discard beside a delivery | bounded, in order, discard final |
| `SpanBuffer` (thread-local trace) | open-span stack, finished spans, limit | `open`, `close`, `record`, `finish` | spans closed in another order than opened; the limit | parents form a tree, the root is always kept |
| Public API / lifecycle | lazily built globals, exit hook, terminate handler, breadcrumbs, user | `init`, `report`, `flush_errors`, `flush_metrics`, `handle_terminate`, exit hook, `reset_for_testing` | first use on two threads; order of shutdown at exit; one failing step | nothing is used after it is destroyed; everything is shut down once |
| `Reporter`, `EventBuilder`, `Breadcrumbs` | none / thread-local trail | build and push an event | privacy steps in the right order | nothing leaves unscrubbed |
| `Client` | none | `deliver`, `*_status`, outcome of a status | timeout cap near a deadline, status table | a failure that can heal is retried, one that cannot is dropped |
| `Configuration`, `TraceParent`, `SqlStatement`, `PiiScrubber`, `StrictPrivacy`, `Change` | none | pure functions | boundary cases, malformed input | agree with a reference definition |

Interactions: `report()` -> `EventBuilder` -> `DeliveryQueue::push`; `flush_errors()` ->
`DeliveryQueue::drain`; `handle_terminate` = report, drain with a deadline, the previous handler
or `std::abort`; `record_metric` -> `MetricBuffer::record`; `flush_metrics()` -> both metric buffers'
`flush` on the caller's thread, beside the workers' own; the exit hook -> every component's
`shutdown()` in a fixed order. The logger of `Configuration` is a callback into application code
and may throw or call back.

## Modules

| Module | Role |
|---|---|
| `DeliveryQueue` | `delivery_queue.cpp` and the terminate handler's use of it |
| `Handoff` | what any delivery queue promises: an abstract bounded, ordered handoff, with or without drops |
| `DeliveryQueue_proofs` | theorems, among them that `DeliveryQueue` implements `Handoff` |
| `MetricBuffer` | `metric_buffer.cpp` |
| `MetricBuffer_proofs` | theorems about it |
| `PerformanceFlusher` | `performance_flusher.cpp` and `histogram_bucketer.cpp` |
| `PerformanceFlusher_proofs` | theorems about it, and the sums over finite sets that they need |
| `SpanQueue` | `span_queue.cpp`, which carries traces and, in a second instance, changes |
| `SpanQueue_proofs` | theorems, among them that `SpanQueue` implements `Handoff` with drops |
| `Application` | the application's threads, which `SpanQueue` and `Tracing` share |
| `Tracing` | `span_buffer.cpp` and the scope objects that open and close traces and spans |
| `TracePipeline` | `Tracing` and `SpanQueue` together: `~ScopedTrace` pushes what it finished |
| `TracePipeline_proofs` | theorems about `Tracing` alone and about the two together |
| `Lifecycle` | the lazily built globals, the exit hook, static destruction, `reset_for_testing` |
| `Lifecycle_proofs` | theorems about it |
| `Text` | texts as byte sequences, and the one loop every hand-written scanner is |
| `SqlStatement` | masking a statement, the names it touches, the statement an exception carries |
| `StrictPrivacy` | the normal form of a message, paths, hosts and span names |
| `PiiScrubber` | IBANs, card numbers, sensitive keys |
| `Configuration` | DSN, endpoints, the list of allowed fields |
| `Propagation` | the `traceparent` header and which outgoing call gets one |
| `Change` | what `record_change()` sends |
| `Client` | one request: the timeout cap and what a status means |
| `Events` | one thread's captures: event builder, strict privacy, breadcrumbs, user, span data |
| `Redaction` | the eight modules above together: what leaves the process, piece by piece |
| `Scanners_proofs` | theorems about the scanners alone and what masking leaves, for every text and every length a pattern names |
| `Redaction_proofs` | theorems about `Redaction`, `Events`, `Configuration` and `Client` |
| `MC*` | what TLC needs: symmetry, alphabets and configurations |

`DeliveryQueue` and `SpanQueue` instantiate `Handoff`, `TracePipeline` extends `Tracing` and `SpanQueue`, which
share the threads of `Application`, and `Redaction` extends the pure modules. `Lifecycle` takes from the components only their contracts, which
the other modules check: what `shutdown()`, `discard()` and a push or record do to a worker and to what waits.

### How a model relates to the code

* A critical section is one atomic step. That is sound where what the section reads and writes is
  touched under the mutex only; the exception, `in_flight_`, is decremented under the lock too,
  but in a section of its own, and so has its own step. Between sections every interleaving is
  explored.
* A thread's position is `pc[t]`; its locals that outlive a step are functions of the thread
  (`held`, `from`/`upto`, `closing`).
* Payloads and metric entries are numbers in the order they were accepted. Their contents are left
  out: no operation of these components looks at them. Since metric entries are appended at the
  back and erased at the front only, `entries_` is just the interval `erased + 1 .. recorded`.
* A delivery is a step with a chosen outcome: out or failed (and rejected, for metrics), thrown.
  The time it takes is everything that can happen between its start and its end.
* Deadlines and timers are nondeterministic: a deadline may pass at any moment (`Expire`), the
  worker's interval may elapse at any moment.
* What can go wrong outside the component is a constant `Faults`: `throw` (a payload that cannot be
  serialised makes `Client` throw), `logger` (the configured logger throws), `crash` (an exception
  nobody catches reaches the terminate handler), `start` (`std::thread`'s constructor throws), `jam`
  (a thread dies with the mutex held).
* `entries_.erase` past the end is undefined behaviour: the process is then `undefined` and the
  model claims nothing further.
* Variables listed as "what happened, for the properties only" are history; no guard reads them.
* An operator marked *Mutant* is used by no action. It is a plausible bug next to the definition
  it would replace, and says what a property is able to detect.

### DeliveryQueue

`Push* / EnsureWorkerStarted / Notify` are `push()`: append under the lock, or the log of a full
queue; then, under the lock again, the lazily started worker; then `notify_one`. The gap between
the first two is where a shutdown can slip in. `Drain*` is `drain()`: `try_lock` until the deadline,
pop, deliver on the calling thread, and once the queue is empty wait for the worker's own delivery.
`Worker*` is `run()`: check, wait, pop, deliver, count down, log what a delivery threw. `Stop`,
`NotifyAll`, `Join` are `shutdown()`. `CallerCrashes`, `WorkerCrashes` and `WorkerLogThrows` lead into
`Terminate`, which makes the crashing thread push and drain like any caller and then abort.

### MetricBuffer

`Record`, `EnsureWorkerStarted` are `record()`; `FlushBegin .. FlushLog` are `flush()`, run by the
worker (`WorkerLoop`), by `flush_metrics()` and by `shutdown()` alike; `CloseBegin .. DiscardLocked` are
`shutdown()` and `discard()`, one at a time as the exit hook and the API call them.

### PerformanceFlusher

The skeleton of threads and critical sections is that of `MetricBuffer`; what differs is the data. A
bucket is its count, sum, maximum and histogram over the code's own boundaries, and `WithDuration`,
`HistogramBucketFor` and `Without` are `record()`, `histogram_bucket_for()` and the body of the loop in
`remove_sent()`. A name without a bucket is at `NoBucket`: a stored bucket always counts at least one
duration, because `remove_sent` erases it otherwise, so the two cannot be confused. Likewise a
histogram label that is absent is at 0.

Time is the number of durations recorded so far, which is all that the ends of a period decide.
Durations are whole milliseconds, so that sums are exact: the rounding of `double` is left out. The guard
that tracking is on and the path reduction of strict privacy happen before anything is
stored, and so are part of choosing an input; the hook between snapshot and delivery is a test's
stand-in for the other thread that the model has.

The history is `log`, every duration in order; `receipts` and `excused` say what became of each. The
properties compare what is in a bucket or in a sample with the durations of its period in `log`.

### SpanQueue, Tracing, TracePipeline

`SpanQueue` is the same skeleton as `DeliveryQueue` without drains, deadlines or a crashing caller:
`PushLocked / EnsureWorkerStarted / Notify` are `push()`, `Worker*` is `run()`, and `StopLocked` is the
critical section of `shutdown()` and of `discard()`, which also empties the queue.

A `SpanBuffer` belongs to one thread, so in `Tracing` each constructor, destructor and call is one step,
and the variable `trace[t]` is that thread's `g_trace`. What makes it hard is that scope objects are
ordinary C++ objects: on the heap they may be destroyed in any order, after their trace, inside another
one, or on another thread. `scopes` and `owners` are the live objects; `SpanEnd(t)` destroys any of them on
thread `t`. The history (`under`, `home`, `closed`) records what was open around a span when it began and
when each span ended, and `ParentWasOpen` compares the recorded parent with it. Span names, times and the
remote parent are left out.

`TracePipeline` joins them at `~ScopedTrace`: `EndAndPush` is `finish()` and then the push, by the same thread.

### Lifecycle

One variable per global, `g[c]`, and every object ever built with what is left of it: whether it lives,
its worker, which captures wait in it. A call goes through the code's steps: the configuration is built if it is not
there, the global is tested, built (the hook is registered first), read again, used. Using it is two steps, as
a push or record takes the component's lock twice: `Capture` appends, `StartWorker` is `ensure_worker_started()`, and
a `shutdown()` can come between. A worker may fail to start, a last flush may not get through, and a queue may take
nothing more. Two threads
between the same test and assignment are a data race and, when the loser's object is destroyed
while the winner is inside it, a use after free: the model sets `raced` and stops, so the properties claim
what holds as long as no two first calls meet. Main's exit runs the hook in its order
(`HookStep`, `HookThrows`), then the destructors of the globals in reverse order of declaration
(`StaticStep`), while the other thread may still be calling until the destructors begin. What other threads
do during static destruction, and a call that overlaps `reset_for_testing`, is undefined by the standard
or excluded by the header, and is left out. A capture is known by the number of its call; `late` (the captures that
were not done when `shutdown()` came), `refused` and `skipped` are history.

### Text and the scanners

A text is a sequence of one-letter strings; position 1 is the code's index 0, and `At` outside a text is `NoByte`,
which no class holds, so the code's bounds checks need no counterpart. Every scanner in these files is one loop
(match here, or copy a byte), which is `Text`'s `Replace`: what a scanner has of its own is where a match ends.
A replacement such as `<email>` is one symbol. Lengths (a UUID's groups, an IBAN's and a card number's
limits, the longest path segment, the ids of a trace header) are constants, so that short texts reach them; the Luhn
and mod-97 checks are the code's own arithmetic.

Each property states in other words what its scanner is for: the pattern that the server applies, as a
relation between where a match starts and ends with no order to look in
(`ScannersMatchTheirPatterns`); a second reading of the masked text (`SecretsAreMasked`); host labels
(`OutgoingKeepsToPolicy`). `Redaction` enumerates the texts: a behaviour picks a subject, that is a kind of text
and an alphabet, and grows the text a byte at a time.

### Events, Client

A piece of free text in `Events` is what it says and the set of passes it went through; `Build` applies
them in the code's order. Any step may change the configuration, so breadcrumbs, user and what was set on a
span meet a configuration they were not recorded under. A statement's mask carries the rules it was made by, since
`set_statement()` takes the database from its argument and `span_data()` from the span's data: `Tidied` is what
the second makes of a `db.system`, `MaskedFor` the rules that `mask()` goes by. `Client` is one request as a function of the
URI, the key, the two limits and what libcurl comes back with.

## Runs

| Run | Asks | Instance |
|---|---|---|
| `delivery` | safety of the queue, and that it implements `Handoff` | 2 callers, queue of 2, 3 pushes, 1 explicit drain, 1 shutdown, all faults |
| `delivery_live` | drains, deliveries, shutdown and the terminate handler end | 2 callers, queue of 0 or 1 (same capacity), 2 pushes, 1 shutdown, `throw`, `crash`, `jam` |
| `drain_ignores_result` (violation) | is everything out when `drain()` returns true? | 1 caller, 1 push, 1 drain |
| `first_push_left_behind` (violation) | does `shutdown()` deliver everything queued? | 2 callers, 1 push, 1 shutdown |
| `metrics` | safety of the metric buffer; that entries leave and closing ends | 2 callers, 2 entries, 2 failures, 3 records, 1 flush, 2 closes, all faults, until two flushes overlap |
| `overlapping_flushes` (violation) | does a flush erase what it sent? | 2 callers, 2 entries, 1 flush beside the worker's |
| `performance` | safety of the flusher: buckets and samples against the durations recorded | 2 callers, 2 names, durations 50 and 51, 2 failures, 3 records, 1 flush, 2 closes, all faults |
| `maximum_overstated` (violation) | is a period's maximum one of its durations? | 1 caller, 1 name, durations 50 and 51, 2 records |
| `tracing` | traces, spans and their queue; that the queue implements `Handoff` with drops | 2 callers, 4 spans, 3 to a trace, 2 traces, queue of 1, 1 shutdown or discard, all faults |
| `lifecycle` | workers, what they read and what is lost, from first use to static destruction | main and 1 other thread, 6 objects, 2 captures and any number of `init()`s, 1 reset, all faults |
| `redaction` | every scanner against its reference, and captures against every configuration | 37 subjects: texts of 4 to 13 bytes over 3 to 7 symbols; 128 configurations, 1 change, 3 breadcrumbs |
| `strict_spans_unmasked` (violation) | is every span's statement masked under strict privacy? | the same configurations, every kind of span and `db.system` |

The bounds are chosen so that each case the properties are about occurs: three pushes overfill a
queue of two while the worker holds a third payload; two callers and the worker can all drain or
deliver at once; a crash adds another push and another drain by itself (the terminate handler is
not counted by the bounds). In the metric buffer three records exceed two places, two failures
reach the limit, an application flush takes turns with the worker's and those of `shutdown()`, and two closes give shutdown after
discard and the reverse. A behaviour is followed until two flushes overlap (the constraint `NoOverlap`; a flush beside
the worker's is in `overlapping_flushes`): the safety properties claim nothing beyond, and the liveness ones
are checked of the behaviours in which none do. In the flusher three durations let one be sent, one be recorded
during its delivery and one after, and 50 and 51 fall on either side of a boundary. In the pipeline
four spans are a trace of three with one dropped at the limit, or two traces that exchange a span; a queue of one is
full while the worker delivers. In the lifecycle two captures are a first use and a later one of the same component
or the use of another, on either thread, one between the other's two sections, and on either side of a reset or of the
exit; two captures with a reset between them build six objects, so that bound only cuts behaviours in which two
first calls have met. The alphabets
hold every byte the scanner in question tells apart and one it does not, and the lengths reach one past
each scaled-down limit. Symmetry of the
callers (and names) is used in runs without liveness properties only.
`CHECK_DEADLOCK FALSE` everywhere: when the bounded calls are used up, when the process has aborted or ended, or
when a text has reached its bound, the system may stop; that nothing gets stuck before is what the liveness properties say.

### What they show

Pass: payloads are conserved in order (`Conservation`), never in two hands (`Custody`); `drain()`
returning true means that everything queued before was attempted or is in another drain's hands
(`DrainTrueMeansAttempted` - the second case is real: `in_flight_` counts the worker's delivery only);
a leaving worker leaves nothing behind that was queued before the stop; and after `shutdown()` no worker runs or
starts. Drains end whatever deliveries do, even with the lock never released; payloads are
attempted unless shutdown, a crash or a failed thread start intervenes; the terminate handler
reaches `abort` unless the lock is jammed.
For metrics, as long as no two flushes overlap: entries leave only when taken or dropped on purpose,
none is stored twice, retries are bounded by `max_consecutive_failures`, `shutdown()` sends everything,
`discard()` is final. Under fairness a buffer to which nothing is added any more empties even if the server is never
reached, unless it is stopped, its worker could not be started, or a delivery threw; and `shutdown()` and `discard()`
return (`EveryEntryLeaves`, `CloseReturns`). A batch may be given up after a new entry in it was sent once only: the counter
belongs to the buffer, not to the entry.

For the performance flusher, again as long as no two flushes overlap: buckets describe exactly the
durations of the current period that were neither sent nor dropped, in count, sum and every label
(`BucketsAddUp`), whatever is recorded while a snapshot is on its way; a sample describes exactly the period
it states (`SampleMatchesPeriod`), and its maximum covers it (`MaxCoversPeriod`); the durations of a period that is over
were reported once or dropped on purpose (`ReportedOnce`); and `shutdown()` reports what is left.

For traces: a span's parent is the innermost span that was open around it from its start to its end,
whichever order the scopes end in (`ParentWasOpen`); what is sent is one tree within the limit, and a parent that is
missing was dropped at the limit or did not end in that trace (`PayloadIsTree`); and the worker gets the slow traces that
were to be sent, once each and in order (`SlowTracesOnce`), through a queue that loses none but by `discard()`.

For the lifecycle, as long as no two first calls meet: a running worker is the one of the object its global points
at and its configuration exists (`WorkersAreReachable`); a hook that ran to its end leaves only workers of objects
built since the exit began (`HookLeavesNoWorker`) - the header's promise that the hook stops every worker
does not cover those; and what is lost at exit is what was not done being captured (`OnlyLateCapturesAreLost`): after its
`shutdown()` a queue holds only captures that had not returned when it came, appended later or appended
before with no worker made sure of yet - the second is the loss that `first_push_left_behind` shows - unless
its worker could not be started; a destroyed buffer holds only what its last flush could not send.

For what leaves the process: no string literal survives the masking, under MySQL's rules or the
standard's, cut or not, once or twice by the same rules, no card number the scrubbing, nothing below a sensitive key, nothing around the host of an address, and nothing of a raw path or a span name behind
its first segment (`SecretsAreMasked`);
names, DSNs and lists are read where they stand (`InputIsReadAsWritten`); the
hand-written scanners find what the patterns find (`ScannersMatchTheirPatterns`), messages are left without values
(`MessagesHoldNoValue`), and events, endpoints, trace headers and requests keep to the configuration
(`OutgoingKeepsToPolicy`). Of spans that says: a database span's statement is masked by the rules of the `db.system` it
goes out with, and by those alone unless it was set without one on a span whose data name MySQL; and under strict privacy a span of any kind keeps these two
fields only. It does not say that another kind's statement is masked, which the code does not do (violation 5). Four limits of these properties are behaviours of the code: `set_statement()` without a `db_system` masks by the standard's rules, and on a span whose data
name MySQL `span_data()` then masks again by MySQL's, though the comment in `forge_ops_tracker.cpp` says that this "leaves
[it] unchanged" - of `"it's", '"secret'` the first leaves `"it?"secret?`, where the second takes `"it?"` for a string and
sends `?secret?`; a statement that ends inside a
dollar-quoted body, or has a digit right behind one, may be masked further when it is masked again; under strict
privacy a quoted run with a quote inside it leaves the rest of it; and trails longer than a
lowered `max_breadcrumbs` stay so until the next crumb.

Violations, each against a sentence of the source quoted in `PROJECT.json`:

1. `drain()` ignores what `deliver()` returns, so true does not mean "everything went out".
2. A push whose append and worker start are separated by a shutdown leaves its payload queued for
   good.
3. Overlapping flushes erase by count: the second erases entries recorded since and never sent, or
   past the end of the vector.
4. A bucket that outlives its flush keeps its maximum, so the next sample may state one that none of
   its durations reached.
5. Under strict privacy "every span's data keeps only db.statement (masked) and db.system", but `span_data()` masks on
   database spans only: on a span of another kind a `db.statement` goes out as it was given.

`PerformanceFlusher` releases its lock around the request in the same way as `MetricBuffer`, so overlapping
flushes subtract twice there too (the subtraction stops at zero, so nothing is undefined); the run for
`MetricBuffer` shows the interleaving, and it is not shown again.

Two limits of the passing properties are behaviours worth knowing: a batch whose delivery throws is
not counted as a failure and is sent again for ever (`RetryBound` and `EveryEntryLeaves` exclude it by `threw`), and a logger
that throws in a worker's `catch` block ends the process.

### Fairness

Weak fairness of every step a running thread can take by itself: threads are scheduled, requests
end because `Client` sets a curl timeout, and the worker's interval elapses. A deadline passes
eventually (weak fairness of `Expire`). No fairness is given to calls (`PushBegin`, `CloseBegin`, ...), to
faults, or to a delivery's success.

## Proofs

TLAPS proves, for every set of callers, every limit, number of calls and set of faults (assumptions:
the worker is not a caller, bounds are natural numbers, `max_consecutive_failures` is positive), that
the safety invariants of the two delivery queues, the metric buffer, the performance flusher, the
traces and the lifecycle hold, and that both queues implement `Handoff`, the trace queue also behind the traces that
feed it; and, for every text and every length that a pattern names, that the hand-written scanners find what
their patterns find, that no string literal of a statement survives masking, and that what is captured keeps to the
configuration. TLC first checked every part of the
inductive invariants as an invariant.

* `DeliveryQueue_proofs`: `Inv` adds to the properties where each thread may stand (`PcInv`), that
  `in_flight_` covers the worker's delivery (`InFlightInv`), who holds which payload
  (`HeldInv`), that an unsettled popped payload is held (`FateInv`), what a drain past the empty queue
  knows (`DrainInv`) and what a stop has left behind (`StopInv`). The lemma `Moves` reduces every step
  to one of four effects on the payloads (none, one queued, one delivery begun, one ended), and the lemmas on
  conservation, custody and refinement argue over those four instead of two dozen actions.
* `MetricBuffer_proofs`: `Inv` adds where threads stand, that the worker is gone from the join on
  (`CloseInv`), that a batch in flight is a stretch of recorded entries which, while flushes do not
  overlap, starts at the front (`FlightInv`), what has become of each entry (`FateInv`), that no entry
  was sent more often than failures were counted since it was recorded, plus the flight it is on
  (`AttemptInv`: the strengthening that makes `RetryBound` inductive), and what a closing thread has
  sent or dropped (`SendInv`, `DiscardInv`). `Effects` reduces every step to eight effects.
* `PerformanceFlusher_proofs`: `Inv` adds to the four statements about buckets, samples and receipts where
  threads stand (`PcInv`), that a sample under way is of a stretch of the log and, while flushes do not overlap, the only one and
  the beginning of the current period (`FlightInv`), that a bucket's maximum covers every duration it
  counts (`MaxInv`), what may have been dropped (`ExcusedInv`), and what a closing thread
  has sent (`SendInv`). `Effects` reduces every step to: nothing, one duration tallied, a snapshot taken, a flush
  ended (kept, delivered or given up), everything dropped. `TallyAdd` and `TallyWithout` say what `record()` and
  `remove_sent()` do to the count, sum and histogram of a stretch of the log. Like the run, the theorems claim something
  until two flushes overlap. The module begins with sums: a total over a finite set grows by what is put in and shrinks by
  what is taken out, whichever order the fold takes. The fold of the community modules is unfolded once; the induction
  over finite sets goes by a smallest counterexample, since the induction theorems of the library cannot be instantiated.
* `Lifecycle_proofs`: `Inv` adds which object a global may point at (`SlotInv`), what a call knows between
  its steps (`CallInv`), that what waits before any worker was started are captures between their two sections (`HeldInv`,
  which makes `LateCapturesAtMost` inductive), that an infrastructure buffer comes with a metric buffer (`PairInv`), whose workers run and read what (`WorkerInv`), what the phase of the process says about the
  hook and the destructors (`PhaseInv`), what each finished step of the hook has left stopped (`HookInv`), and what any
  object ever built has kept or lost (`ObjectOK`). Every step assigns a global, changes one object, ends a call, or
  none of these (`Effects`).
* `SpanQueue_proofs`: `Inv` adds where threads stand (`PcInv`), that the worker holds a payload exactly while
  it delivers one which has left the queue (`HeldInv`), that the numbers queued are the last ones accepted and
  everything else is held or settled (`Custody`), and that a stop that got as far as the join has set the flag
  (`StopInv`). `Moves` adds a fifth effect to the four of `DeliveryQueue_proofs`: everything queued is dropped.
* `TracePipeline_proofs`: `ParentWasOpen` compares a parent with history, so it needs to know what a stack is. `DrawnInv`
  says that a span is younger than those open around it when it was drawn, that these are sorted by age and of the
  same trace, and that no span ends twice; `StackInv`, the heart of it, that the stack of an open trace is
  exactly what was opened there and has not ended there, so that the entry below a span is the innermost of those around
  it that are left; `RootInv` that roots tell traces apart, `SpanInv` that a buffer holds spans that ended in it, and
  `OwnersInv` that an owner ends at most one trace. `Effects` reduces every step to: nothing drawn or ended, a trace
  started, a span opened, a span over, a trace over. `RightParentStays` says that nothing that happens later changes what a
  recorded parent should have been. For the composition, every step of `TracePipeline` is a step or a
  stutter of `Tracing` and, by `OwnersInv`, one of `SpanQueue`, so the theorems about each hold of both together, the refinement
  included; `PushInv` adds that a thread's next payload is younger than all it has pushed.
* `Scanners_proofs`: for each scanner, that where it ends a match is where the longest match of its pattern ends
  (`HexIdEndIs`, `UuidEndIs`, `EmailAtIs`, ...). `Rewriting` is the loop `Replace` as a table of what it makes of the text
  from each place on, and `RewritingStep` its equation; with it `Agreement` says that a message's normal form is the
  server's, though the code passes over a whole run of bytes at once where the pattern's engine tries every place
  (`EmailsAgree`, `NumbersAgree`). `NumbersFound` goes through a number's readings in the order they are tried (`Readings`, `Stands`), and
  `IbansFound` shows that giving back one group after another, last to first, ends where the longest match does
  (`SpacedCount`, `SpacedIs`). For card numbers, the code takes all digits that are joined and then gives back to the last
  separator at most, where the pattern's longest match ends (`DigitRunIs`), and its walk from group to group is a loop over
  the run (`CardsFound`). `NoCardIsLeft` shows first that the two loops, one within the other, are one loop over the text
  (`FlatCards`: behind a run that was searched, no run goes on); whatever that loop passes over stands in its result as
  it stood before, between the same edges, so a card number there would have been one in the text. For keys, `Taking` is `Only`
  a byte at a time: leaving out dashes and underscores first leaves out nothing that is compared (`KeysJoin`, `KeysAreKnown`),
  and an array's elements have its key, so a sensitive one reaches every leaf (`HiddenBelowKeys`). Inductions over places in a text go by a least or greatest
  counterexample. `HostsAreBare` reads an address's authority by where its ends must lie (`IsAuthority`), which one place only
  fits, so taking credentials away leaves the host. `SplitIs` says the same of the parts of a text. What a masked text holds is proved through `MaskedIs`: each byte of it stands for a place of the statement
  that the scan came by (`WayFrom`), as it is or as the mask of a literal that begins there. `StringsHidden` is the induction
  over those places that the run's `HidesStrings` asks for: the second reading, byte by byte by the standard's rules or by
  MySQL's, ends where the scan ends (`ReadToEnd`), a literal and its prefix at a time (`QuotedLiteral`), with what the scan
  kept; like the run, it is about statements with strings alone, without digits, points or dollars. `FinalMask` is about
  all: a second masking finds a literal only right behind a mask of the first, because a run that was copied stands
  there as it did in the statement (`CopiedRun`, `NumberMoves`) and no literal begins within a word (`LiteralsStandApart`). `CutKeeps` and `TitleKeeps` are about the texts that are cut
  short, between characters.
* `Redaction_proofs`: `TextInv` keeps what is being read a text over the bytes, and with it the theorems about the scanners hold of
  every state (`EveryScannerMatches`, `SecretsStayIn`). `ReportsKeep` and `SpansKeep` say it of one event and of one span (`StatementSet`, `SpanDataIs`: the
  rules of each masking), pass by pass in the order the code applies them, whatever configuration their parts were recorded under; `EventsInv` adds to
  `TrailIsLatest` the types of the trail and, for as long as `max_breadcrumbs` has not changed, the room it was cut to
  (`PolicyIsKept`). `EachHasItsEndpoint` says that no two kinds of report share an address;
  `LimitIsTheSooner` that the cap of a timed request is at least a millisecond and the sooner of the
  two. For outgoing trace headers, `LabelsEnd` says that ending with a target's bytes behind a dot is ending with its
  labels, so that `notexample.com` is not `example.com`'s, and `HeadersStayHome` that the host compared is the one that stands
  where the call goes: `url_host()`'s walk past scheme, credentials, bracket and port finds the one place that fits
  `IsAuthorityAt` and `IsHostAt`. `TracesAreContinued` cuts an incoming header at its own dashes: the fields it is cut into have
  a trace's form exactly when the header has it (`FormedIsCut`, `CutIsFormed`). `PathsAreBare` reads a path at the
  first run of bytes that are no slashes (`IsFirst`): `FirstSegment`, which splits it and leaves empty parts out, shows
  that run and whether anything but slashes follows (`FirstSegmentIs`), so nothing that stands behind it matters, and a
  part with a parameter's mark is a template's (`NoTemplate`). `NamesAreBare` adds `HostsAreBare`.
  `NoValueIsLeft` says that a normalized message has nothing left for the passes over emails, double-quoted runs, ids and
  numbers to replace, though each ran once. Whatever a pass leaves follows the text it read, each byte from its place
  (`Follows`), so a match in the result stood in the text before, at the same places where no mark and no gap lies between
  (`StoodAt`): each pass takes its own matches out (`EmailsGone`, `HexIdsGone`, `UuidsGone`, `NumbersGone`; of double quotes
  a line keeps one at most, `OneQuoteALine`), and no later pass brings another's about. Marks match nothing; only the pass
  over hex ids, which leaves no mark, brings bytes together that stood apart, and what it does so with would have been an
  email, or a quoted run, before (`NoEmailBehindHexIds`, `OneQuoteBehindHexIds`).
  `NothingIsLetGoUnasked` says that nothing is let go of unless the server said so. Constants are assumed to be
  what the code makes them: natural numbers, an IBAN's shortest form no longer than its longest, and so on, each named
  in the module that declares it.

A few definitions of the models changed because of a proof: `Only` (by which `Split` finds its places) and `KeysOf` are recursive functions, where
`SelectSeq` and a `CASE` cannot be unfolded; the pattern of a UUID took any byte of the shape's
length for a hex digit; and some `CASE`s had arms that overlapped where the code's order decides, which `CASE` does not;
their guards are exclusive now.

Only model-checked:

* the liveness properties: fairness and `ENABLED` are out of the prover's reach;
* `InputIsReadAsWritten`: it is about what the folds of the community modules compute, which is opaque to the provers
  without induction over data.

## Other observations

Read off the code while modelling, and shown by no run of their own:

* `attach_sql()` does not know the database, so a MySQL string in double quotes stays in an event's statement.
* Masking is not idempotent where `forge_ops_tracker.cpp:340` says the second pass "leaves this unchanged": `1.5.5`, or a
  digit behind a dollar-quoted body.
* `Client` promises never to throw (`client.hpp:83`), but `payload.dump()` throws on invalid UTF-8 and
  leaks the curl handle; the queues catch it, and it is the fault `throw` of their models.
* `SpanQueue::push` "never blocks" (`span_queue.hpp:18`), but logs under the lock.
* A DSN's `user:password@` stays in the address (`configuration.hpp:159` says credentials are stripped); such a DSN
  has no key, so nothing is sent to it. `percent_decode` drops the byte behind a half escape such as `%1g`.
* `FORGE_OPS_ENVIRONMENT` set to blanks is taken as it is, though `configuration.hpp:31` says "set and not blank".
* An IBAN in groups of four with other such groups right behind it stays: `iban_candidate_end()` takes up to seven
  groups and a shorter one, as its pattern does, and `scrub_ibans()` passes over a candidate whole that is no IBAN
  (`pii_scrubber.cpp:180`).
* `std::gmtime`'s shared buffer is used without a lock (`event_builder.cpp:111`).
* `capture_exception(e)` called with another exception in flight reports that one, not `e` (`reporter.cpp:28`).

## Not modelled

* How masked SQL is split into tokens (quoted and qualified names): `SqlStatement` starts from the tokens.
* The eight `std::regex` patterns of `PiiScrubber`, `std::regex` propagation targets, SHA-256, JSON text, the HTTP
  transfer: library code, or arithmetic with no state.
* Symbol lookup, demangling and the parsing of backtrace lines in `EventBuilder`: platform calls.
* Times and durations of spans, formatted timestamps, optional fields that are copied.
* The two settings read from the environment besides the allowed fields, and the once-per-process warning.
* Calls a logger makes back into the SDK: `metric_buffer.cpp:64` and `span_queue.cpp:43` log with the lock held,
  so a logger that records a metric or ends a trace there locks a mutex its own thread holds.
