------------------------------ MODULE SpanQueue ------------------------------
(***************************************************************************)
(* The bounded queue of span_queue.cpp, which carries finished traces (and *)
(* in a second instance recorded changes) to one lazily started worker:    *)
(* push() on any thread, shutdown() from the exit hook and the destructor, *)
(* discard() from reset_for_testing.                                       *)
(*                                                                         *)
(* A critical section of mutex_ is one atomic step; the queue-full line is *)
(* logged inside it.  A queued payload is its number in the order push()   *)
(* queued them; 0 is none.  The worker never calls shutdown() itself.      *)
(***************************************************************************)
EXTENDS Application, Integers, Sequences

CONSTANTS
  Worker,     \* the thread SpanQueue::run runs on
  QueueSize,  \* Configuration::queue_size
  Payloads,   \* what can be pushed; 0 is none of them
  MaxStops,   \* bounds the calls of shutdown() and discard()
  Faults      \* what the environment may do wrong in this instance

Threads == Callers \cup {Worker}

ASSUME ThreadsAssumption == Worker \notin Callers
ASSUME BoundsAssumption == QueueSize \in Nat /\ MaxStops \in Nat
\* deliver_ throws, the configured logger throws, std::thread's constructor throws
ASSUME FaultsAssumption == Faults \subseteq {"throw", "logger", "start"}

Capacity == IF QueueSize = 0 THEN 1 ELSE QueueSize

VARIABLES
  queue, workerStarted, stopping,  \* queue_, worker_started_, stopping_
  pc,     \* where each thread stands
  arg,    \* the payload a push() brings, or 0
  held,   \* the payload the worker is delivering
  stops,  \* calls of shutdown() and discard() made
  \* What happened, for the properties only:
  payloads,  \* the payload of each number
  outcome,   \* what became of each number
  stopMark,  \* how many were queued when stopping_ was first set
  joined     \* the callers whose last call was a shutdown() or discard() that returned

accepted == Len(outcome)

flags == <<workerStarted, stopping, stopMark>>
fates == <<payloads, outcome>>
queueVars == <<queue, flags, pc, arg, held, stops, fates, joined>>

StopPcs == {"shutdown", "discard", "notifyAll", "join"}
WorkerPcs == {"off", "run", "wait", "deliver", "log", "exited", "dead"}
Pcs == {"idle", "push", "ensure", "notify"} \cup StopPcs \cup WorkerPcs

Outcomes == {"none", "out", "failed", "thrown", "dropped"}

QueueTypeOK ==
  /\ queue \in Seq(Nat) /\ held \in Nat /\ stops \in Nat /\ stopMark \in Nat
  /\ workerStarted \in BOOLEAN /\ stopping \in BOOLEAN
  /\ pc \in [Threads -> Pcs] /\ arg \in [Callers -> Payloads \cup {0}]
  /\ outcome \in Seq(Outcomes) /\ payloads \in Seq(Payloads)
  /\ joined \subseteq Callers

QueueInit ==
  /\ queue = <<>> /\ held = 0 /\ stops = 0 /\ stopMark = 0
  /\ workerStarted = FALSE /\ stopping = FALSE
  /\ pc = [t \in Threads |-> IF t = Worker THEN "off" ELSE "idle"]
  /\ arg = [t \in Callers |-> 0]
  /\ payloads = <<>> /\ outcome = <<>> /\ joined = {}

At(t, where) == pc[t] = where
Goto(t, where) == pc' = [pc EXCEPT ![t] = where]

-----------------------------------------------------------------------------
(* push() and ensure_worker_started() *)

PushBegin(t, p) ==
  /\ At(t, "idle")
  /\ arg' = [arg EXCEPT ![t] = p]
  /\ joined' = joined \ {t}
  /\ Goto(t, "push")
  /\ UNCHANGED <<queue, flags, held, stops, fates>>

\* Under the lock: a payload that does not fit is logged and dropped, and push()
\* returns; a logger that throws is caught by the destructor or record_change.
PushLocked(t) ==
  /\ At(t, "push")
  /\ \/ Len(queue) >= Capacity /\ Goto(t, "idle") /\ UNCHANGED <<queue, fates>>
     \/ /\ Len(queue) < Capacity
        /\ queue' = Append(queue, accepted + 1)
        /\ outcome' = Append(outcome, "none")
        /\ payloads' = Append(payloads, arg[t])
        /\ Goto(t, "ensure")
  /\ arg' = [arg EXCEPT ![t] = 0]
  /\ UNCHANGED <<flags, held, stops, joined>>

\* Mutant: stopping_ is not checked.
EnsureWorkerStartedAfterStop(t) ==
  /\ At(t, "ensure")
  /\ IF workerStarted
     THEN Goto(t, "notify") /\ UNCHANGED workerStarted
     ELSE workerStarted' = TRUE /\ pc' = [pc EXCEPT ![t] = "notify", ![Worker] = "run"]
  /\ UNCHANGED <<queue, stopping, stopMark, arg, held, stops, fates, joined>>

\* worker_started_ is set before the thread exists: if std::thread's constructor
\* throws, the exception ends push() and no later push() tries again.
EnsureWorkerStarted(t) ==
  /\ At(t, "ensure")
  /\ \/ (workerStarted \/ stopping) /\ Goto(t, "notify") /\ UNCHANGED workerStarted
     \/ /\ ~workerStarted /\ ~stopping
        /\ workerStarted' = TRUE
        /\ \/ pc' = [pc EXCEPT ![t] = "notify", ![Worker] = "run"]
           \/ "start" \in Faults /\ Goto(t, "idle")
  /\ UNCHANGED <<queue, stopping, stopMark, arg, held, stops, fates, joined>>

\* Only the worker ever waits on condition_.
Wake(t, next) ==
  pc' = [u \in Threads |-> IF u = t THEN next
                           ELSE IF u = Worker /\ pc[u] = "wait" THEN "run" ELSE pc[u]]

Notify(t) ==
  /\ At(t, "notify")
  /\ Wake(t, "idle")
  /\ UNCHANGED <<queue, flags, arg, held, stops, fates, joined>>

-----------------------------------------------------------------------------
(* run(): the worker thread *)

\* Under the lock: wait, leave, or take the oldest payload.
WorkerCheck ==
  /\ At(Worker, "run")
  /\ \/ /\ queue = <<>>
        /\ Goto(Worker, IF stopping THEN "exited" ELSE "wait")
        /\ UNCHANGED <<queue, held>>
     \/ /\ queue # <<>>
        /\ held' = Head(queue) /\ queue' = Tail(queue)
        /\ Goto(Worker, "deliver")
  /\ UNCHANGED <<flags, arg, stops, fates, joined>>

SpuriousWakeup ==
  /\ At(Worker, "wait")
  /\ Goto(Worker, "run")
  /\ UNCHANGED <<queue, flags, arg, held, stops, fates, joined>>

\* deliver_(client_, trace), whose boolean result is ignored, outside the lock.
WorkerDeliver ==
  /\ At(Worker, "deliver")
  /\ \E how \in {"out", "failed", "thrown"} :
       /\ how = "thrown" => "throw" \in Faults
       /\ outcome' = [outcome EXCEPT ![held] = how]
       /\ Goto(Worker, IF how = "thrown" THEN "log" ELSE "run")
  /\ held' = 0
  /\ UNCHANGED <<queue, flags, arg, stops, payloads, joined>>

\* The log in run()'s catch; a logger that throws there ends the process.
WorkerLog ==
  /\ At(Worker, "log")
  /\ Goto(Worker, "run") \/ ("logger" \in Faults /\ Goto(Worker, "dead"))
  /\ UNCHANGED <<queue, flags, arg, held, stops, fates, joined>>

-----------------------------------------------------------------------------
(* shutdown() and discard(), one call at a time *)

StopBegin(t) ==
  /\ At(t, "idle") /\ stops < MaxStops
  /\ \A u \in Threads : pc[u] \notin StopPcs
  /\ stops' = stops + 1
  /\ joined' = joined \ {t}
  /\ Goto(t, "shutdown") \/ Goto(t, "discard")
  /\ UNCHANGED <<queue, flags, arg, held, fates>>

\* Mutant: discard() drops nothing, like shutdown().
StopLockedKeeps(t) ==
  /\ pc[t] \in {"shutdown", "discard"}
  /\ stopping' = TRUE
  /\ stopMark' = IF stopping THEN stopMark ELSE accepted
  /\ Goto(t, "notifyAll")
  /\ IF At(t, "discard")
     THEN outcome' = [p \in DOMAIN outcome |->
            IF \E i \in DOMAIN queue : queue[i] = p THEN "dropped" ELSE outcome[p]]
     ELSE UNCHANGED outcome
  /\ UNCHANGED <<queue, workerStarted, arg, held, stops, payloads, joined>>

\* Under the lock: discard() drops what is queued, both set stopping_.
StopLocked(t) ==
  /\ pc[t] \in {"shutdown", "discard"}
  /\ stopping' = TRUE
  /\ stopMark' = IF stopping THEN stopMark ELSE accepted
  /\ Goto(t, "notifyAll")
  /\ IF At(t, "discard")
     THEN /\ queue' = <<>>
          /\ outcome' = [p \in DOMAIN outcome |->
               IF \E i \in DOMAIN queue : queue[i] = p THEN "dropped" ELSE outcome[p]]
     ELSE UNCHANGED <<queue, outcome>>
  /\ UNCHANGED <<workerStarted, arg, held, stops, payloads, joined>>

NotifyAll(t) ==
  /\ At(t, "notifyAll")
  /\ Wake(t, "join")
  /\ UNCHANGED <<queue, flags, arg, held, stops, fates, joined>>

Join(t) ==
  /\ At(t, "join") /\ pc[Worker] \in {"off", "exited"}
  /\ joined' = joined \cup {t}
  /\ Goto(t, "idle")
  /\ UNCHANGED <<queue, flags, arg, held, stops, fates>>

-----------------------------------------------------------------------------

QueueStep ==
  \/ \E t \in Callers : PushLocked(t) \/ EnsureWorkerStarted(t) \/ Notify(t)
  \/ \E t \in Callers : StopBegin(t) \/ StopLocked(t) \/ NotifyAll(t) \/ Join(t)
  \/ WorkerCheck \/ SpuriousWakeup \/ WorkerDeliver \/ WorkerLog

QueueNext == QueueStep \/ \E t \in Callers, p \in Payloads : PushBegin(t, p)

QueueSpec == QueueInit /\ [][QueueNext]_queueVars

-----------------------------------------------------------------------------

Settled(p) == outcome[p] # "none"

\* A worker that has left leaves nothing behind that was queued before the stop,
\* and after shutdown() or discard() has returned none runs or starts: one would
\* outlive the exit hook, or the configuration reset_for_testing destroys.
StopIsClean ==
  /\ pc[Worker] = "exited" => \A p \in 1..stopMark : Settled(p)
  /\ joined # {} => pc[Worker] \in {"off", "exited"}

\* Every number is queued in order, or with the worker, or settled: nothing is
\* delivered twice, and nothing a discard() dropped is delivered afterwards.
Custody ==
  /\ \A i \in DOMAIN queue : queue[i] = accepted - Len(queue) + i
  /\ \A p \in DOMAIN outcome :
       ~Settled(p) <=> p = held \/ p > accepted - Len(queue)

\* The queue is a bounded handoff between push() and one delivering thread.
Abstract ==
  INSTANCE Handoff WITH Holders <- {Worker}, accepted <- accepted,
                        begun <- accepted - Len(queue),
                        holder <- [h \in {Worker} |-> held],
                        settled <- {p \in DOMAIN outcome : Settled(p)}
ImplementsHandoff == Abstract!DropSpec

=============================================================================
