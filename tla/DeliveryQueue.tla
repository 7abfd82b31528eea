---------------------------- MODULE DeliveryQueue ----------------------------
(***************************************************************************)
(* The bounded error queue of delivery_queue.cpp: application threads push *)
(* payloads, one lazily started worker delivers them, any thread may       *)
(* drain() the rest under a deadline, and shutdown() stops and joins the   *)
(* worker.  The terminate handler is a push followed by a drain on the     *)
(* crashing thread, then abort.                                            *)
(*                                                                         *)
(* A critical section of mutex_ is one atomic step: nothing in it blocks,  *)
(* and what it writes is read only under the mutex, except in_flight_,     *)
(* whose changes outside the lock are steps of their own.  A payload is    *)
(* its number in the order push() queued them; 0 is no payload.            *)
(*                                                                         *)
(* An operator marked "Mutant" is a plausible bug that no action uses: it  *)
(* shows what a property would catch.                                      *)
(***************************************************************************)
EXTENDS Integers, Sequences

CONSTANTS
  Callers,       \* application threads
  Worker,        \* the thread DeliveryQueue::run runs on
  QueueSize,     \* Configuration::queue_size
  MaxPushes,     \* bounds: calls of each kind made
  MaxDrains,
  MaxShutdowns,
  Faults         \* what the environment may do wrong in this instance

Threads == Callers \cup {Worker}

FaultKinds ==
  { "throw",   \* Client::deliver throws (a payload that cannot be serialised)
    "logger",  \* the configured logger throws
    "crash",   \* an exception nobody catches reaches the terminate handler
    "start",   \* std::thread's constructor throws
    "jam" }    \* a thread dies holding mutex_

ASSUME ThreadsAssumption == Worker \notin Callers
ASSUME BoundsAssumption ==
  QueueSize \in Nat /\ MaxPushes \in Nat /\ MaxDrains \in Nat /\ MaxShutdowns \in Nat
ASSUME FaultsAssumption == Faults \subseteq FaultKinds

\* A queue_size of 0 still holds one event.
Capacity == IF QueueSize = 0 THEN 1 ELSE QueueSize

VARIABLES
  queue, workerStarted, stopping,  \* queue_, worker_started_, stopping_
  inFlight,  \* in_flight_
  jammed,    \* mutex_ is held by a thread that will never run again
  pc,        \* where each thread stands
  held,      \* the payload a thread took off the queue and is delivering
  expired,   \* the deadline of the thread's drain() has passed
  crashing,  \* the thread is inside handle_terminate
  aborted,   \* std::abort: no thread runs any more
  ret,       \* what the thread's last drain() or shutdown() returned
  pushes, drains, shutdowns,  \* calls made so far
  \* What happened, for the properties only:
  outcome,   \* how the delivery of each payload push() queued has ended
  taken,     \* the payloads popped, in that order
  before,    \* how many were queued when the thread's drain() began
  stopMark   \* how many were queued when stopping_ was first set

accepted == Len(outcome)

flags == <<workerStarted, stopping, stopMark>>
calls == <<pushes, drains, shutdowns>>
deliveries == <<outcome, held, taken>>
process == <<crashing, aborted, jammed>>
results == <<ret, before, expired>>
vars == <<queue, flags, inFlight, calls, deliveries, process, results, pc>>

DrainPcs == {"drainLock", "drainDeliver", "drainAwait"}
ShutdownPcs == {"stop", "notifyAll", "join"}
WorkerPcs == {"off", "run", "wait", "deliver", "finish", "caught", "log", "exited"}
CallerPcs == {"idle", "push", "full", "ensure", "notify", "drain", "dead"}
Pcs == CallerPcs \cup DrainPcs \cup ShutdownPcs \cup WorkerPcs
LockPcs == {"push", "ensure", "drainLock", "stop", "run"}  \* next step takes mutex_

Outcomes == {"none", "out", "failed", "thrown", "lost"}

DeliveriesOK ==
  /\ queue \in Seq(Nat) /\ taken \in Seq(Nat) /\ outcome \in Seq(Outcomes)
  /\ held \in [Threads -> Nat]

CountersOK ==
  /\ inFlight \in Nat /\ stopMark \in Nat
  /\ pushes \in Nat /\ drains \in Nat /\ shutdowns \in Nat

FlagsOK ==
  /\ workerStarted \in BOOLEAN /\ stopping \in BOOLEAN
  /\ jammed \in BOOLEAN /\ aborted \in BOOLEAN
  /\ expired \in [Threads -> BOOLEAN] /\ crashing \in [Threads -> BOOLEAN]

ThreadsOK ==
  /\ pc \in [Threads -> Pcs]
  /\ before \in [Threads -> Nat]
  /\ ret \in [Threads -> {"none", "true", "false", "joined"}]

TypeOK == DeliveriesOK /\ CountersOK /\ FlagsOK /\ ThreadsOK

Init ==
  /\ queue = <<>> /\ taken = <<>> /\ outcome = <<>>
  /\ workerStarted = FALSE /\ stopping = FALSE /\ stopMark = 0 /\ inFlight = 0
  /\ pushes = 0 /\ drains = 0 /\ shutdowns = 0
  /\ jammed = FALSE /\ aborted = FALSE
  /\ pc = [t \in Threads |-> IF t = Worker THEN "off" ELSE "idle"]
  /\ held = [t \in Threads |-> 0] /\ before = [t \in Threads |-> 0]
  /\ expired = [t \in Threads |-> FALSE] /\ crashing = [t \in Threads |-> FALSE]
  /\ ret = [t \in Threads |-> "none"]

At(t, where) == ~aborted /\ pc[t] = where
Goto(t, where) == pc' = [pc EXCEPT ![t] = where]

-----------------------------------------------------------------------------
(* push() and ensure_worker_started() *)

PushBegin(t) ==
  /\ At(t, "idle") /\ pushes < MaxPushes
  /\ pushes' = pushes + 1
  /\ Goto(t, "push")
  /\ UNCHANGED <<queue, flags, inFlight, drains, shutdowns, deliveries, process, results>>

\* Mutant: one payload above queue_size fits.
PushLockedOffByOne(t) ==
  /\ At(t, "push") /\ ~jammed
  /\ \/ Len(queue) > Capacity /\ Goto(t, "full") /\ UNCHANGED <<queue, outcome>>
     \/ /\ Len(queue) <= Capacity
        /\ queue' = Append(queue, accepted + 1)
        /\ outcome' = Append(outcome, "none")
        /\ Goto(t, "ensure")
  /\ UNCHANGED <<flags, inFlight, calls, held, taken, process, results>>

\* The bounded append under the lock; a payload that does not fit is dropped.
PushLocked(t) ==
  /\ At(t, "push") /\ ~jammed
  /\ \/ Len(queue) >= Capacity /\ Goto(t, "full") /\ UNCHANGED <<queue, outcome>>
     \/ /\ Len(queue) < Capacity
        /\ queue' = Append(queue, accepted + 1)
        /\ outcome' = Append(outcome, "none")
        /\ Goto(t, "ensure")
  /\ UNCHANGED <<flags, inFlight, calls, held, taken, process, results>>

\* Back to the application, or on to flush_errors() in the terminate handler.
AfterPush(t) == IF crashing[t] THEN "drain" ELSE "idle"

\* The log, outside the lock.  A logger that throws leaves push(); if it throws
\* again in Reporter::report's catch, a crashing thread aborts undrained.
PushFull(t) ==
  /\ At(t, "full")
  /\ \/ Goto(t, AfterPush(t)) /\ UNCHANGED aborted
     \/ "logger" \in Faults /\ crashing[t] /\ aborted' = TRUE /\ UNCHANGED pc
  /\ UNCHANGED <<queue, flags, inFlight, calls, deliveries, results, crashing, jammed>>

\* Mutant: stopping_ is not checked.
EnsureWorkerStartedAfterStop(t) ==
  /\ At(t, "ensure") /\ ~jammed
  /\ IF workerStarted
     THEN Goto(t, "notify") /\ UNCHANGED workerStarted
     ELSE workerStarted' = TRUE /\ pc' = [pc EXCEPT ![t] = "notify", ![Worker] = "run"]
  /\ UNCHANGED <<queue, stopping, stopMark, inFlight, calls, deliveries, process, results>>

\* worker_started_ is set before the thread exists: a std::thread constructor
\* that throws leaves it set with no worker, and ends push() in the exception.
EnsureWorkerStarted(t) ==
  /\ At(t, "ensure") /\ ~jammed
  /\ \/ /\ workerStarted \/ stopping
        /\ Goto(t, "notify")
        /\ UNCHANGED workerStarted
     \/ /\ ~workerStarted /\ ~stopping
        /\ workerStarted' = TRUE
        /\ \/ pc' = [pc EXCEPT ![t] = "notify", ![Worker] = "run"]
           \/ "start" \in Faults /\ Goto(t, AfterPush(t))
  /\ UNCHANGED <<queue, stopping, stopMark, inFlight, calls, deliveries, process, results>>

\* Only the worker ever waits on condition_.
Wake(t, next) ==
  pc' = [u \in Threads |-> IF u = t THEN next
                           ELSE IF u = Worker /\ pc[u] = "wait" THEN "run" ELSE pc[u]]

\* Mutant: push() forgets notify_one.
NotifyNobody(t) ==
  /\ At(t, "notify")
  /\ Goto(t, AfterPush(t))
  /\ UNCHANGED <<queue, flags, inFlight, calls, deliveries, process, results>>

Notify(t) ==
  /\ At(t, "notify")
  /\ Wake(t, AfterPush(t))
  /\ UNCHANGED <<queue, flags, inFlight, calls, deliveries, process, results>>

-----------------------------------------------------------------------------
(* drain(): flush_errors() on any thread, the terminate handler's included *)

DrainBegin(t) ==
  /\ \/ At(t, "idle") /\ drains < MaxDrains /\ drains' = drains + 1
     \/ At(t, "drain") /\ UNCHANGED drains
  /\ ret' = [ret EXCEPT ![t] = "none"]
  /\ before' = [before EXCEPT ![t] = accepted]
  /\ Goto(t, "drainLock")
  /\ UNCHANGED <<queue, flags, inFlight, pushes, shutdowns, deliveries, process, expired>>

\* The clock may pass the deadline at any point of the drain.
Expire(t) ==
  /\ ~aborted /\ pc[t] \in DrainPcs /\ ~expired[t]
  /\ expired' = [expired EXCEPT ![t] = TRUE]
  /\ UNCHANGED <<queue, flags, inFlight, calls, deliveries, process, ret, before, pc>>

\* Mutant: the terminate handler returns.
DrainReturnFromHandler(t, value) ==
  /\ expired' = [expired EXCEPT ![t] = FALSE]
  /\ ret' = [ret EXCEPT ![t] = value]
  /\ Goto(t, "idle")
  /\ UNCHANGED aborted

\* The terminate handler aborts whatever its drain() returned.
DrainReturn(t, value) ==
  /\ expired' = [expired EXCEPT ![t] = FALSE]
  /\ ret' = [ret EXCEPT ![t] = value]
  /\ Goto(t, "idle")
  /\ aborted' = crashing[t]

\* Mutant: front() without pop_front().
TakeWithoutPop(t) ==
  /\ queue # <<>>
  /\ held' = [held EXCEPT ![t] = Head(queue)]
  /\ taken' = Append(taken, Head(queue))
  /\ UNCHANGED queue

\* Pops the oldest payload.
Take(t) ==
  /\ queue # <<>>
  /\ held' = [held EXCEPT ![t] = Head(queue)]
  /\ queue' = Tail(queue)
  /\ taken' = Append(taken, Head(queue))

\* Mutant: the payload stays with its thread.
SettleKeepingPayload(t, how) ==
  /\ outcome' = [outcome EXCEPT ![held[t]] = how]
  /\ UNCHANGED held

\* The delivery of held[t] is over, one way or another.
Settle(t, how) ==
  /\ outcome' = [outcome EXCEPT ![held[t]] = how]
  /\ held' = [held EXCEPT ![t] = 0]

\* Mutant: lock() in place of try_lock().
DrainGiveUpNever(t) ==
  FALSE /\ At(t, "drainLock") /\ UNCHANGED vars

\* try_lock failed with the deadline already passed.
DrainGiveUp(t) ==
  /\ At(t, "drainLock") /\ expired[t]
  /\ jammed \/ \E u \in Threads \ {t} : pc[u] \in LockPcs
  /\ DrainReturn(t, "false")
  /\ UNCHANGED <<queue, flags, inFlight, calls, deliveries, crashing, jammed, before>>

\* One round under the lock: nothing left, no time left, or the oldest payload.
DrainLocked(t) ==
  /\ At(t, "drainLock") /\ ~jammed
  /\ \/ queue = <<>> /\ Goto(t, "drainAwait") /\ UNCHANGED <<queue, taken, held, ret, aborted, expired>>
     \/ queue # <<>> /\ expired[t] /\ DrainReturn(t, "false") /\ UNCHANGED <<queue, taken, held>>
     \/ ~expired[t] /\ Take(t) /\ Goto(t, "drainDeliver") /\ UNCHANGED <<ret, aborted, expired>>
  /\ UNCHANGED <<flags, inFlight, calls, outcome, crashing, jammed, before>>

\* client_.deliver(payload, left), whose boolean result drain() ignores.
DrainDeliver(t) ==
  /\ At(t, "drainDeliver")
  /\ \/ /\ \E how \in {"out", "failed"} : Settle(t, how)
        /\ Goto(t, "drainLock")
        /\ UNCHANGED <<ret, aborted, expired>>
     \/ "throw" \in Faults /\ Settle(t, "thrown") /\ DrainReturn(t, "false")
  /\ UNCHANGED <<queue, taken, flags, inFlight, calls, crashing, jammed, before>>

\* Mutant: drain() does not look at in_flight_.
DrainAwaitNobody(t) ==
  /\ At(t, "drainAwait")
  /\ DrainReturn(t, "true")
  /\ UNCHANGED <<queue, flags, inFlight, calls, deliveries, crashing, jammed, before>>

\* Waits for the worker's delivery, unless this is the worker.
DrainAwait(t) ==
  /\ At(t, "drainAwait")
  /\ \/ (t = Worker \/ inFlight = 0) /\ DrainReturn(t, "true")
     \/ t # Worker /\ inFlight > 0 /\ expired[t] /\ DrainReturn(t, "false")
  /\ UNCHANGED <<queue, flags, inFlight, calls, deliveries, crashing, jammed, before>>

-----------------------------------------------------------------------------
(* run(): the worker thread *)

\* Mutant: the worker leaves before the queue is empty.
WorkerCheckLeavesAtOnce ==
  /\ At(Worker, "run") /\ ~jammed
  /\ \/ /\ stopping \/ queue = <<>>
        /\ Goto(Worker, IF stopping THEN "exited" ELSE "wait")
        /\ UNCHANGED <<queue, taken, held, inFlight>>
     \/ /\ ~stopping /\ Take(Worker)
        /\ inFlight' = inFlight + 1
        /\ Goto(Worker, "deliver")
  /\ UNCHANGED <<flags, calls, outcome, process, results>>

\* Under the lock: wait, leave, or take a payload and raise in_flight_ with it.
WorkerCheck ==
  /\ At(Worker, "run") /\ ~jammed
  /\ \/ /\ queue = <<>>
        /\ Goto(Worker, IF stopping THEN "exited" ELSE "wait")
        /\ UNCHANGED <<queue, taken, held, inFlight>>
     \/ /\ Take(Worker)
        /\ inFlight' = inFlight + 1
        /\ Goto(Worker, "deliver")
  /\ UNCHANGED <<flags, calls, outcome, process, results>>

SpuriousWakeup ==
  /\ At(Worker, "wait")
  /\ Goto(Worker, "run")
  /\ UNCHANGED <<queue, flags, inFlight, calls, deliveries, process, results>>

WorkerDeliver ==
  /\ At(Worker, "deliver")
  /\ \/ (\E how \in {"out", "failed"} : Settle(Worker, how)) /\ Goto(Worker, "finish")
     \/ "throw" \in Faults /\ Settle(Worker, "thrown") /\ Goto(Worker, "caught")
  /\ UNCHANGED <<queue, taken, flags, inFlight, calls, process, results>>

\* in_flight_.fetch_sub(1), after the delivery or first thing in the catch.
WorkerFinish ==
  /\ ~aborted /\ pc[Worker] \in {"finish", "caught"}
  /\ inFlight' = inFlight - 1
  /\ Goto(Worker, IF pc[Worker] = "finish" THEN "run" ELSE "log")
  /\ UNCHANGED <<queue, flags, calls, deliveries, process, results>>

\* Mutant: in_flight_ is lowered again after the catch.
WorkerLogCountsAgain ==
  /\ At(Worker, "log")
  /\ inFlight' = inFlight - 1
  /\ Goto(Worker, "run")
  /\ UNCHANGED <<queue, flags, calls, deliveries, process, results>>

WorkerLog ==
  /\ At(Worker, "log")
  /\ Goto(Worker, "run")
  /\ UNCHANGED <<queue, flags, inFlight, calls, deliveries, process, results>>

-----------------------------------------------------------------------------
(* shutdown(): the exit hook and the destructor, one call at a time *)

ShutdownBegin(t) ==
  /\ At(t, "idle") /\ shutdowns < MaxShutdowns
  /\ \A u \in Threads : pc[u] \notin ShutdownPcs
  /\ shutdowns' = shutdowns + 1
  /\ ret' = [ret EXCEPT ![t] = "none"]
  /\ Goto(t, "stop")
  /\ UNCHANGED <<queue, flags, inFlight, pushes, drains, deliveries, process, before, expired>>

Stop(t) ==
  /\ At(t, "stop") /\ ~jammed
  /\ stopping' = TRUE
  /\ stopMark' = IF stopping THEN stopMark ELSE accepted
  /\ Goto(t, "notifyAll")
  /\ UNCHANGED <<queue, workerStarted, inFlight, calls, deliveries, process, results>>

\* Mutant: shutdown() forgets notify_all.
NotifyAllMissing(t) ==
  /\ At(t, "notifyAll")
  /\ Goto(t, "join")
  /\ UNCHANGED <<queue, flags, inFlight, calls, deliveries, process, results>>

NotifyAll(t) ==
  /\ At(t, "notifyAll")
  /\ Wake(t, "join")
  /\ UNCHANGED <<queue, flags, inFlight, calls, deliveries, process, results>>

\* Joins the worker, or finds nothing to join.
Join(t) ==
  /\ At(t, "join") /\ pc[Worker] \in {"off", "exited"}
  /\ ret' = [ret EXCEPT ![t] = "joined"]
  /\ Goto(t, "idle")
  /\ UNCHANGED <<queue, flags, inFlight, calls, deliveries, process, before, expired>>

-----------------------------------------------------------------------------
(* The process going down *)

\* handle_terminate: report the current exception, if there is one and reporting
\* is enabled, then flush_errors(); with no handler installed, just abort.
Terminate(t) ==
  \/ aborted' = TRUE /\ Goto(t, "dead") /\ UNCHANGED <<pushes, crashing>>
  \/ /\ crashing' = [crashing EXCEPT ![t] = TRUE]
     /\ \/ Goto(t, "drain") /\ UNCHANGED pushes
        \/ pushes < MaxPushes /\ pushes' = pushes + 1 /\ Goto(t, "push")
     /\ UNCHANGED aborted

\* An exception the application does not catch.
CallerCrashes(t) ==
  /\ At(t, "idle") /\ "crash" \in Faults
  /\ Terminate(t)
  /\ UNCHANGED <<queue, flags, inFlight, drains, shutdowns, deliveries, jammed, results>>

\* The worker dies inside a delivery: in_flight_ stays raised.
WorkerCrashes ==
  /\ At(Worker, "deliver") /\ "crash" \in Faults
  /\ Settle(Worker, "lost")
  /\ Terminate(Worker)
  /\ UNCHANGED <<queue, taken, flags, inFlight, drains, shutdowns, jammed, results>>

\* The log in run()'s catch block throws out of the thread.
WorkerLogThrows ==
  /\ At(Worker, "log") /\ "logger" \in Faults
  /\ Terminate(Worker)
  /\ UNCHANGED <<queue, flags, inFlight, drains, shutdowns, deliveries, jammed, results>>

\* A thread in push() never releases mutex_.
HolderDies(t) ==
  /\ At(t, "push") /\ ~jammed /\ "jam" \in Faults
  /\ jammed' = TRUE
  /\ Goto(t, "dead")
  /\ UNCHANGED <<queue, flags, inFlight, calls, deliveries, crashing, aborted, results>>

-----------------------------------------------------------------------------

PushStep(t) == PushLocked(t) \/ PushFull(t) \/ EnsureWorkerStarted(t) \/ Notify(t)
DrainStep(t) == DrainGiveUp(t) \/ DrainLocked(t) \/ DrainDeliver(t) \/ DrainAwait(t)
ShutdownStep(t) == Stop(t) \/ NotifyAll(t) \/ Join(t)
WorkerStep == WorkerCheck \/ WorkerDeliver \/ WorkerFinish \/ WorkerLog

Next ==
  \/ \E t \in Callers : PushBegin(t) \/ ShutdownBegin(t) \/ ShutdownStep(t) \/ CallerCrashes(t)
  \/ \E t \in Threads : PushStep(t) \/ DrainBegin(t) \/ DrainStep(t) \/ Expire(t) \/ HolderDies(t)
  \/ WorkerStep \/ SpuriousWakeup \/ WorkerCrashes \/ WorkerLogThrows

Spec == Init /\ [][Next]_vars

\* A started thread keeps running, a delivery ends (curl's timeout) and time
\* passes; calls, crashes, faults and spurious wakeups need never happen.
Fairness ==
  /\ \A t \in Callers : WF_vars(ShutdownStep(t))
  /\ \A t \in Threads : /\ WF_vars(PushStep(t)) /\ WF_vars(DrainStep(t)) /\ WF_vars(Expire(t))
                        /\ WF_vars(At(t, "drain") /\ DrainBegin(t))
  /\ WF_vars(WorkerStep)

FairSpec == Spec /\ Fairness

-----------------------------------------------------------------------------
(* Safety *)

Settled(p) == p \in DOMAIN outcome /\ outcome[p] # "none"
HeldByDrain(p) == \E u \in Threads : held[u] = p /\ pc[u] = "drainDeliver"

\* Payloads leave in the order push() queued them, whoever pops them, and none is
\* lost or handed out twice, whatever the interleaving of worker and drains.
Conservation ==
  /\ Len(taken) + Len(queue) = accepted
  /\ \A i \in 1..Len(taken) : taken[i] = i
  /\ \A i \in 1..Len(queue) : queue[i] = Len(taken) + i

\* A popped payload is delivered by exactly one thread until its delivery is over,
\* and never again after that.
Custody ==
  \A p \in 1..Len(taken) :
    /\ Settled(p) => \A t \in Threads : held[t] # p
    /\ ~Settled(p) => \E t \in Threads : \A u \in Threads : held[u] = p <=> u = t

\* drain() returned true: every payload queued before the call has had its
\* delivery attempted to the end, or another drain() is attempting it right now.
\* It is why run() raises in_flight_ under the same lock as the pop.
DrainTrueMeansAttempted ==
  \A t \in Threads : ret[t] = "true" => \A p \in 1..before[t] : Settled(p) \/ HeldByDrain(p)

\* Once the worker has left, nothing queued before shutdown() is still waiting.
WorkerLeavesNothingQueued ==
  pc[Worker] = "exited" => \A p \in 1..stopMark : Settled(p) \/ HeldByDrain(p)

\* After shutdown() has returned no worker runs, or starts: one would outlive the
\* exit hook.
JoinedWorkerIsGone ==
  \A t \in Threads : ret[t] = "joined" => pc[Worker] \in {"off", "exited"}

\* The queue is a bounded handoff between push() and the threads that deliver.
Abstract ==
  INSTANCE Handoff WITH Holders <- Threads, accepted <- accepted, begun <- Len(taken),
                        holder <- held, settled <- {p \in DOMAIN outcome : Settled(p)}
ImplementsHandoff == Abstract!Spec

-----------------------------------------------------------------------------
(* Liveness, under FairSpec: mutex_ may be held for ever by a dead thread *)

\* A drain() ends by its deadline even when mutex_ is never released again.
DrainReturns ==
  \A t \in Threads : pc[t] \in DrainPcs ~> (pc[t] \notin DrainPcs \/ aborted)

\* Every payload queued before shutdown() is attempted, failing deliveries and
\* exceptions on the way notwithstanding: unless the process dies, or shutdown()
\* overtakes the push that would have started the worker.
EveryPayloadIsAttempted ==
  \A p \in 1..MaxPushes :
    (accepted >= p /\ ~stopping)
      ~> (Settled(p) \/ aborted \/ jammed \/ (stopping /\ pc[Worker] = "off"))

\* shutdown() waits for the deliveries left, never for ever.
ShutdownReturns ==
  \A t \in Callers : pc[t] \in ShutdownPcs ~> (pc[t] \notin ShutdownPcs \/ aborted \/ jammed)

\* A thread in the terminate handler gets as far as abort.
TerminateAborts == \A t \in Threads : crashing[t] ~> (aborted \/ jammed)

-----------------------------------------------------------------------------
(* What the comments say and the code does not do *)

\* delivery_queue.hpp: drain() "returns true when everything went out in time".
DrainTrueMeansOut ==
  \A t \in Threads : ret[t] = "true" => \A p \in 1..before[t] : outcome[p] = "out"

\* delivery_queue.hpp: shutdown() "stops the worker after it has delivered
\* everything queued".
ShutdownDeliversQueued ==
  \A t \in Threads : ret[t] = "joined" => \A p \in 1..stopMark : Settled(p)

=============================================================================
