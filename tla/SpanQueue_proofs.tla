--------------------------- MODULE SpanQueue_proofs ---------------------------
(***************************************************************************)
(* Theorems about SpanQueue, for every set of callers, every size of the   *)
(* queue, number of stops and set of faults.                               *)
(***************************************************************************)
EXTENDS SpanQueue, SequenceTheorems, TLAPS

\* Who stands where, and what the worker's place says of the flags.
PcInv ==
  /\ \A t \in Callers : pc[t] \in {"idle", "push", "ensure", "notify"} \cup StopPcs
  /\ pc[Worker] \in WorkerPcs
  /\ ~workerStarted => pc[Worker] = "off"
  /\ pc[Worker] = "exited" => stopping
  /\ \A t \in Callers : pc[t] = "push" => arg[t] \in Payloads

\* The worker holds a payload exactly while it delivers one, and that one has
\* left the queue.
HeldInv ==
  /\ held # 0 <=> pc[Worker] = "deliver"
  /\ held # 0 => held \in 1..(accepted - Len(queue))
  /\ Len(queue) <= accepted

\* What a stop has left behind.
StopInv ==
  /\ \A t \in Callers : pc[t] \in {"notifyAll", "join"} => stopping
  /\ joined # {} => stopping
  /\ stopMark <= accepted

Inv == QueueTypeOK /\ PcInv /\ HeldInv /\ Custody /\ StopInv /\ StopIsClean

-----------------------------------------------------------------------------
(* What a step can do to the payloads: nothing, queue one, begin the         *)
(* delivery of one, end it, or drop all that is queued.                      *)

Unmoved == UNCHANGED <<queue, outcome, held>>

Queued ==
  /\ held' = held
  /\ Len(queue) < Capacity
  /\ queue' \in Seq(Nat) /\ Len(queue') = Len(queue) + 1
  /\ \A i \in 1..Len(queue) : queue'[i] = queue[i]
  /\ queue'[Len(queue) + 1] = Len(outcome) + 1
  /\ outcome' \in Seq(Outcomes) /\ Len(outcome') = Len(outcome) + 1
  /\ \A p \in 1..Len(outcome) : outcome'[p] = outcome[p]
  /\ outcome'[Len(outcome) + 1] = "none"

Began ==
  /\ held = 0 /\ held' = Len(outcome) - Len(queue) + 1
  /\ Len(queue) > 0
  /\ queue' \in Seq(Nat) /\ Len(queue') = Len(queue) - 1
  /\ \A i \in 1..Len(queue') : queue'[i] = queue[i + 1]
  /\ outcome' = outcome

Ended ==
  /\ held \in 1..(Len(outcome) - Len(queue)) /\ held' = 0
  /\ outcome' \in Seq(Outcomes) /\ Len(outcome') = Len(outcome)
  /\ outcome'[held] # "none"
  /\ \A p \in 1..Len(outcome) : p # held => outcome'[p] = outcome[p]
  /\ queue' = queue

Dropped ==
  /\ held' = held /\ queue' = <<>>
  /\ outcome' \in Seq(Outcomes) /\ Len(outcome') = Len(outcome)
  /\ \A p \in 1..Len(outcome) :
       outcome'[p] = IF p > Len(outcome) - Len(queue) THEN "dropped" ELSE outcome[p]

Move == Unmoved \/ Queued \/ Began \/ Ended \/ Dropped

\* The lengths are numbers, and a sequence's domain is 1 up to its length.
LEMMA Lengths ==
  ASSUME Inv
  PROVE  /\ Len(queue) \in Nat /\ DOMAIN queue = 1..Len(queue)
         /\ Len(outcome) \in Nat /\ DOMAIN outcome = 1..Len(outcome)
         /\ Len(queue) <= Len(outcome) /\ stopMark \in Nat /\ held \in Nat
  BY LenProperties DEF Inv, QueueTypeOK, HeldInv, accepted

\* A push finds no room, or appends the next number and an open outcome.
LEMMA PushQueues ==
  ASSUME Inv, NEW t \in Callers, PushLocked(t)
  PROVE  (Unmoved \/ Queued) /\ payloads' \in Seq(Payloads)
<1> USE DEF Inv, QueueTypeOK
<1>1. Len(outcome) + 1 \in Nat /\ "none" \in Outcomes /\ held' = held
  BY Lengths DEF PushLocked, Outcomes
<1>2. CASE /\ Len(queue) < Capacity /\ queue' = Append(queue, accepted + 1)
           /\ outcome' = Append(outcome, "none") /\ payloads' = Append(payloads, arg[t])
  <2>1. arg[t] \in Payloads
    BY DEF PushLocked, At, PcInv
  <2>2. payloads' \in Seq(Payloads)
    BY <1>2, <2>1, AppendProperties
  <2>3. Queued
    BY <1>1, <1>2, AppendProperties DEF Queued, accepted
  <2>4. QED
    BY <2>2, <2>3
<1>3. CASE UNCHANGED <<queue, fates>>
  BY <1>1, <1>3 DEF Unmoved, fates
<1>4. QED
  BY <1>2, <1>3 DEF PushLocked

\* The worker waits or leaves, or takes the head of the queue.
LEMMA CheckBegins == ASSUME Inv, WorkerCheck PROVE Unmoved \/ Began
<1> USE DEF Inv, QueueTypeOK
<1>1. held = 0 /\ outcome' = outcome
  BY DEF WorkerCheck, At, HeldInv, fates
<1>2. CASE queue # <<>> /\ held' = Head(queue) /\ queue' = Tail(queue)
  <2>1. Len(queue) > 0 /\ Head(queue) = queue[1]
    BY <1>2, EmptySeq, LenProperties
  <2>2. queue[1] = Len(outcome) - Len(queue) + 1
    BY <2>1, Lengths DEF Custody, accepted
  <2>3. /\ queue' \in Seq(Nat) /\ Len(queue') = Len(queue) - 1
        /\ \A i \in 1..Len(queue') : queue'[i] = queue[i + 1]
    BY <1>2, HeadTailProperties
  <2>4. QED
    BY <1>1, <1>2, <2>1, <2>2, <2>3 DEF Began
<1>3. CASE UNCHANGED <<queue, held>>
  BY <1>1, <1>3 DEF Unmoved
<1>4. QED
  BY <1>2, <1>3 DEF WorkerCheck

\* A delivery writes the outcome of the payload it is about.
LEMMA DeliverEnds == ASSUME Inv, WorkerDeliver PROVE Ended
<1> USE DEF Inv, QueueTypeOK
<1>1. held \in 1..(Len(outcome) - Len(queue)) /\ held \in 1..Len(outcome)
  BY Lengths DEF WorkerDeliver, At, HeldInv, accepted
<1>2. PICK how \in {"out", "failed", "thrown"} : outcome' = [outcome EXCEPT ![held] = how]
  BY DEF WorkerDeliver
<1>3. how \in Outcomes \ {"none"}
  BY DEF Outcomes
<1>4. /\ outcome' \in Seq(Outcomes) /\ Len(outcome') = Len(outcome)
      /\ \A p \in 1..Len(outcome) : outcome'[p] = IF p = held THEN how ELSE outcome[p]
  BY <1>1, <1>2, <1>3, ExceptSeq
<1>5. held' = 0 /\ queue' = queue
  BY DEF WorkerDeliver
<1>6. QED
  BY <1>1, <1>3, <1>4, <1>5 DEF Ended

\* A stop leaves the payloads alone, or drops what is queued: by custody the
\* last of those accepted.
LEMMA StopDrops == ASSUME Inv, NEW t \in Callers, StopLocked(t) PROVE Unmoved \/ Dropped
<1> USE DEF Inv, QueueTypeOK
<1>1. held' = held
  BY DEF StopLocked
<1>2. CASE UNCHANGED <<queue, outcome>>
  BY <1>1, <1>2 DEF Unmoved
<1>3. CASE /\ queue' = <<>>
           /\ outcome' = [p \in DOMAIN outcome |->
                IF \E i \in DOMAIN queue : queue[i] = p THEN "dropped" ELSE outcome[p]]
  <2>1. ASSUME NEW p \in 1..Len(outcome)
        PROVE  (\E i \in DOMAIN queue : queue[i] = p) <=> p > Len(outcome) - Len(queue)
    <3>1. ASSUME p > Len(outcome) - Len(queue) PROVE \E i \in DOMAIN queue : queue[i] = p
      <4>1. p - (Len(outcome) - Len(queue)) \in DOMAIN queue
        BY <3>1, Lengths
      <4>2. queue[p - (Len(outcome) - Len(queue))] = p
        BY <4>1, Lengths DEF Custody, accepted
      <4>3. QED
        BY <4>1, <4>2
    <3>2. ASSUME NEW i \in DOMAIN queue, queue[i] = p PROVE p > Len(outcome) - Len(queue)
      BY <3>2, Lengths DEF Custody, accepted
    <3>3. QED
      BY <3>1, <3>2
  <2>2. \A p \in 1..Len(outcome) : outcome[p] \in Outcomes /\ "dropped" \in Outcomes
    BY ElementOfSeq DEF Outcomes
  <2>3. outcome' = [p \in 1..Len(outcome) |->
          IF p > Len(outcome) - Len(queue) THEN "dropped" ELSE outcome[p]]
    BY <1>3, <2>1, Lengths
  <2>4. outcome' \in Seq(Outcomes) /\ Len(outcome') = Len(outcome)
    BY <2>2, <2>3, Lengths
  <2>5. QED
    BY <1>1, <1>3, <2>3, <2>4 DEF Dropped
<1>4. QED
  BY <1>2, <1>3 DEF StopLocked

\* Every step of the queue is one of the five.
LEMMA Moves == ASSUME Inv, [QueueNext]_queueVars PROVE Move
<1> USE DEF Move, Unmoved, fates
<1>1. CASE UNCHANGED queueVars
  BY <1>1 DEF queueVars
<1>2. ASSUME NEW t \in Callers, PushLocked(t) PROVE Move
  BY <1>2, PushQueues
<1>3. ASSUME NEW t \in Callers, StopLocked(t) PROVE Move
  BY <1>3, StopDrops
<1>4. CASE WorkerCheck
  BY <1>4, CheckBegins
<1>5. CASE WorkerDeliver
  BY <1>5, DeliverEnds
<1>6. ASSUME NEW t \in Callers,
             \/ EnsureWorkerStarted(t) \/ Notify(t) \/ StopBegin(t) \/ NotifyAll(t) \/ Join(t)
             \/ \E p \in Payloads : PushBegin(t, p)
      PROVE  Move
  BY <1>6 DEF EnsureWorkerStarted, Notify, StopBegin, NotifyAll, Join, PushBegin
<1>7. CASE SpuriousWakeup \/ WorkerLog
  BY <1>7 DEF SpuriousWakeup, WorkerLog
<1>8. QED
  BY <1>1, <1>2, <1>3, <1>4, <1>5, <1>6, <1>7 DEF QueueNext, QueueStep

-----------------------------------------------------------------------------
(* The invariant *)

LEMMA InitInv == QueueInit => Inv
<1> SUFFICES ASSUME QueueInit PROVE Inv
  OBVIOUS
<1> USE DEF QueueInit
<1>1. Len(queue) = 0 /\ Len(outcome) = 0 /\ DOMAIN queue = {} /\ DOMAIN outcome = {}
  OBVIOUS
<1>2. QueueTypeOK
  <2>1. <<>> \in Seq(Nat) /\ <<>> \in Seq(Outcomes) /\ <<>> \in Seq(Payloads)
    BY EmptySeq
  <2>2. pc \in [Threads -> Pcs] /\ arg \in [Callers -> Payloads \cup {0}]
    BY DEF Pcs, WorkerPcs
  <2>3. QED
    BY <2>1, <2>2 DEF QueueTypeOK
<1>3. PcInv
  BY ThreadsAssumption DEF PcInv, Threads, WorkerPcs
<1>4. pc[Worker] = "off"
  BY DEF Threads
<1>5. HeldInv /\ Custody /\ StopInv /\ StopIsClean
  BY <1>1, <1>4, ThreadsAssumption DEF HeldInv, Custody, StopInv, StopIsClean, accepted, Threads
<1>6. QED
  BY <1>2, <1>3, <1>5 DEF Inv

LEMMA StepTypeOK == ASSUME Inv, [QueueNext]_queueVars PROVE QueueTypeOK'
<1> USE DEF Inv, QueueTypeOK, flags, fates, Goto
<1>p. /\ StopPcs \cup WorkerPcs \subseteq Pcs /\ {"idle", "push", "ensure", "notify"} \subseteq Pcs
      /\ {"shutdown", "discard", "notifyAll", "join"} \subseteq Pcs
      /\ {"off", "run", "wait", "deliver", "log", "exited", "dead"} \subseteq Pcs
  BY DEF Pcs, StopPcs, WorkerPcs
<1>0. Worker \in Threads /\ Callers \subseteq Threads
  BY DEF Threads
<1>a. queue' \in Seq(Nat) /\ held' \in Nat /\ outcome' \in Seq(Outcomes)
  <2>1. queue \in Seq(Nat) /\ held \in Nat /\ outcome \in Seq(Outcomes) /\ <<>> \in Seq(Nat)
    BY EmptySeq
  <2>2. CASE Unmoved
    BY <2>1, <2>2 DEF Unmoved
  <2>3. CASE Queued
    BY <2>1, <2>3 DEF Queued
  <2>4. CASE Began
    BY <2>1, <2>4, Lengths DEF Began
  <2>5. CASE Ended
    BY <2>1, <2>5 DEF Ended
  <2>6. CASE Dropped
    BY <2>1, <2>6 DEF Dropped
  <2>7. QED
    BY <2>2, <2>3, <2>4, <2>5, <2>6, Moves DEF Move
<1> DEFINE Rest == /\ stops' \in Nat /\ stopMark' \in Nat /\ workerStarted' \in BOOLEAN
                   /\ stopping' \in BOOLEAN /\ pc' \in [Threads -> Pcs]
                   /\ arg' \in [Callers -> Payloads \cup {0}] /\ payloads' \in Seq(Payloads)
                   /\ joined' \subseteq Callers
<1>1. ASSUME UNCHANGED queueVars PROVE Rest
  BY <1>1 DEF queueVars
<1>2. ASSUME NEW t \in Callers, NEW p \in Payloads, PushBegin(t, p) PROVE Rest
  BY <1>2, <1>0, <1>p DEF PushBegin
<1>3. ASSUME NEW t \in Callers, PushLocked(t) PROVE Rest
  BY <1>3, <1>0, <1>p, PushQueues DEF PushLocked
<1>4. ASSUME NEW t \in Callers, EnsureWorkerStarted(t) PROVE Rest
  BY <1>4, <1>0, <1>p DEF EnsureWorkerStarted
<1>5. ASSUME NEW t \in Callers, Notify(t) PROVE Rest
  BY <1>5, <1>0, <1>p DEF Notify, Wake
<1>6. ASSUME WorkerCheck PROVE Rest
  <2>1. \E u \in Threads, where \in Pcs : pc' = [pc EXCEPT ![u] = where]
    BY <1>6, <1>0, <1>p DEF WorkerCheck
  <2>2. pc' \in [Threads -> Pcs]
    BY <2>1
  <2>3. UNCHANGED <<flags, arg, stops, fates, joined>>
    BY <1>6 DEF WorkerCheck
  <2>4. QED
    BY <2>2, <2>3
<1>7. ASSUME SpuriousWakeup PROVE Rest
  BY <1>7, <1>0, <1>p DEF SpuriousWakeup
<1>8. ASSUME WorkerDeliver PROVE Rest
  <2>1. \E u \in Threads, where \in Pcs : pc' = [pc EXCEPT ![u] = where]
    BY <1>8, <1>0, <1>p DEF WorkerDeliver
  <2>2. pc' \in [Threads -> Pcs]
    BY <2>1
  <2>3. UNCHANGED <<flags, arg, stops, payloads, joined>>
    BY <1>8 DEF WorkerDeliver
  <2>4. QED
    BY <2>2, <2>3
<1>9. ASSUME WorkerLog PROVE Rest
  BY <1>9, <1>0, <1>p DEF WorkerLog
<1>10. ASSUME NEW t \in Callers, StopBegin(t) PROVE Rest
  <2>1. \E u \in Threads, where \in Pcs : pc' = [pc EXCEPT ![u] = where]
    BY <1>10, <1>0, <1>p DEF StopBegin
  <2>2. pc' \in [Threads -> Pcs]
    BY <2>1
  <2>3. QED
    BY <1>10, <2>2, Lengths DEF StopBegin
<1>11. ASSUME NEW t \in Callers, StopLocked(t) PROVE Rest
  BY <1>11, <1>0, <1>p, Lengths DEF StopLocked, accepted
<1>12. ASSUME NEW t \in Callers, NotifyAll(t) PROVE Rest
  BY <1>12, <1>0, <1>p DEF NotifyAll, Wake
<1>13. ASSUME NEW t \in Callers, Join(t) PROVE Rest
  BY <1>13, <1>0, <1>p DEF Join
<1>14. Rest
  BY <1>1, <1>2, <1>3, <1>4, <1>5, <1>6, <1>7, <1>8, <1>9,
     <1>10, <1>11, <1>12, <1>13 DEF QueueNext, QueueStep
<1>15. QED
  BY <1>a, <1>14

LEMMA StepPcInv == ASSUME Inv, [QueueNext]_queueVars PROVE PcInv'
<1> USE ThreadsAssumption
    DEF Inv, QueueTypeOK, PcInv, flags, fates, At, Goto, StopPcs, WorkerPcs, Threads
<1>1. CASE UNCHANGED queueVars
  BY <1>1 DEF queueVars
<1>2. ASSUME NEW t \in Callers, NEW p \in Payloads, PushBegin(t, p) PROVE PcInv'
  BY <1>2 DEF PushBegin
<1>3. ASSUME NEW t \in Callers, PushLocked(t) PROVE PcInv'
  BY <1>3 DEF PushLocked
<1>4. ASSUME NEW t \in Callers, EnsureWorkerStarted(t) PROVE PcInv'
  BY <1>4 DEF EnsureWorkerStarted
<1>5. ASSUME NEW t \in Callers, Notify(t) PROVE PcInv'
  BY <1>5 DEF Notify, Wake
<1>6. CASE WorkerCheck
  BY <1>6 DEF WorkerCheck
<1>7. CASE SpuriousWakeup
  BY <1>7 DEF SpuriousWakeup
<1>8. CASE WorkerDeliver
  BY <1>8 DEF WorkerDeliver
<1>9. CASE WorkerLog
  BY <1>9 DEF WorkerLog
<1>10. ASSUME NEW t \in Callers, StopBegin(t) PROVE PcInv'
  BY <1>10 DEF StopBegin
<1>11. ASSUME NEW t \in Callers, StopLocked(t) PROVE PcInv'
  BY <1>11 DEF StopLocked
<1>12. ASSUME NEW t \in Callers, NotifyAll(t) PROVE PcInv'
  BY <1>12 DEF NotifyAll, Wake
<1>13. ASSUME NEW t \in Callers, Join(t) PROVE PcInv'
  BY <1>13 DEF Join
<1>14. QED
  BY <1>1, <1>2, <1>3, <1>4, <1>5, <1>6, <1>7, <1>8, <1>9,
     <1>10, <1>11, <1>12, <1>13 DEF QueueNext, QueueStep

\* Nobody but the worker moves it, and what it holds.
LEMMA StepHeldInv == ASSUME Inv, [QueueNext]_queueVars PROVE HeldInv'
<1>a. /\ held' # 0 => held' \in 1..(Len(outcome') - Len(queue'))
      /\ Len(queue') <= Len(outcome')
  BY Moves, Lengths DEF Move, Unmoved, Queued, Began, Ended, Dropped, Inv, HeldInv, accepted
<1>b. /\ Worker \in Threads /\ Callers \subseteq Threads /\ Worker \notin Callers
      /\ held # 0 <=> pc[Worker] = "deliver"
      /\ DOMAIN pc = Threads
  BY ThreadsAssumption DEF Inv, QueueTypeOK, HeldInv, Threads
<1>c. ~workerStarted => pc[Worker] = "off"
  BY DEF Inv, PcInv
<1> USE <1>b DEF At, Goto
<1> DEFINE Places == held' # 0 <=> pc'[Worker] = "deliver"
<1>1. ASSUME UNCHANGED queueVars PROVE Places
  BY <1>1 DEF queueVars
<1>2. ASSUME NEW t \in Callers, NEW p \in Payloads, PushBegin(t, p) PROVE Places
  BY <1>2 DEF PushBegin
<1>3. ASSUME NEW t \in Callers, PushLocked(t) PROVE Places
  BY <1>3 DEF PushLocked
<1>4. ASSUME NEW t \in Callers, EnsureWorkerStarted(t) PROVE Places
  BY <1>4, <1>c DEF EnsureWorkerStarted
<1>5. ASSUME NEW t \in Callers, Notify(t) PROVE Places
  BY <1>5 DEF Notify, Wake
<1>6. ASSUME WorkerCheck PROVE Places
  <2>1. CASE queue = <<>>
    BY <1>6, <2>1 DEF WorkerCheck
  <2>2. CASE queue # <<>>
    <3>1. held' # 0
      <4>1. queue' = Tail(queue)
        BY <1>6, <2>2 DEF WorkerCheck
      <4>2. Len(queue') = Len(queue) - 1
        BY <2>2, <4>1, HeadTailProperties DEF Inv, QueueTypeOK
      <4>3. queue' # queue
        BY <4>2, Lengths
      <4>4. ~Unmoved
        BY <4>3 DEF Unmoved
      <4>5. Began
        BY <1>6, <4>4, CheckBegins
      <4>6. QED
        BY <4>5, Lengths DEF Began
    <3>2. QED
      BY <1>6, <2>2, <3>1 DEF WorkerCheck
  <2>3. QED
    BY <2>1, <2>2
<1>7. ASSUME SpuriousWakeup PROVE Places
  BY <1>7 DEF SpuriousWakeup
<1>8. ASSUME WorkerDeliver PROVE Places
  BY <1>8 DEF WorkerDeliver
<1>9. ASSUME WorkerLog PROVE Places
  BY <1>9 DEF WorkerLog
<1>10. ASSUME NEW t \in Callers, StopBegin(t) PROVE Places
  BY <1>10 DEF StopBegin
<1>11. ASSUME NEW t \in Callers, StopLocked(t) PROVE Places
  BY <1>11 DEF StopLocked
<1>12. ASSUME NEW t \in Callers, NotifyAll(t) PROVE Places
  BY <1>12 DEF NotifyAll, Wake
<1>13. ASSUME NEW t \in Callers, Join(t) PROVE Places
  BY <1>13 DEF Join
<1>14. Places
  BY <1>1, <1>2, <1>3, <1>4, <1>5, <1>6, <1>7, <1>8, <1>9,
     <1>10, <1>11, <1>12, <1>13 DEF QueueNext, QueueStep
<1>15. QED
  BY <1>a, <1>14 DEF HeldInv, accepted

LEMMA StepCustody == ASSUME Inv, [QueueNext]_queueVars PROVE Custody'
<1>1. /\ held # 0 => held \in 1..(Len(outcome) - Len(queue))
      /\ queue \in Seq(Nat) /\ Len(<<>>) = 0
  BY DEF Inv, HeldInv, QueueTypeOK, accepted
<1>2. /\ DOMAIN queue' = 1..Len(queue') /\ Len(queue') \in Nat
      /\ DOMAIN outcome' = 1..Len(outcome') /\ Len(outcome') \in Nat
  BY StepTypeOK, LenProperties DEF QueueTypeOK
<1>3. /\ \A i \in 1..Len(queue) : queue[i] = Len(outcome) - Len(queue) + i
      /\ \A p \in 1..Len(outcome) :
           outcome[p] = "none" <=> p = held \/ p > Len(outcome) - Len(queue)
  BY Lengths DEF Inv, Custody, Settled, accepted
<1> SUFFICES
      /\ \A i \in 1..Len(queue') : queue'[i] = Len(outcome') - Len(queue') + i
      /\ \A p \in 1..Len(outcome') :
           outcome'[p] = "none" <=> p = held' \/ p > Len(outcome') - Len(queue')
  BY <1>2 DEF Custody, Settled, accepted
<1>4. CASE Unmoved
  BY <1>3, <1>4 DEF Unmoved
<1>5. CASE Queued
  <2>1. /\ held' = held /\ Len(queue') = Len(queue) + 1 /\ Len(outcome') = Len(outcome) + 1
        /\ Len(queue) \in Nat /\ Len(outcome) \in Nat /\ Len(queue) <= Len(outcome)
    BY <1>5, Lengths DEF Queued
  <2>2. \A i \in 1..Len(queue) : queue'[i] = Len(outcome') - Len(queue') + i
    BY <1>3, <1>5, <2>1 DEF Queued
  <2>3. queue'[Len(queue')] = Len(outcome') - Len(queue') + Len(queue')
    BY <1>5, <2>1 DEF Queued
  <2>4. \A p \in 1..Len(outcome) :
          outcome'[p] = "none" <=> p = held' \/ p > Len(outcome') - Len(queue')
    BY <1>3, <1>5, <2>1 DEF Queued
  <2>5. outcome'[Len(outcome')] = "none"
    BY <1>5, <2>1 DEF Queued
  <2>6. \A i \in 1..Len(queue') : i \in 1..Len(queue) \/ i = Len(queue')
    BY <2>1
  <2>7. \A p \in 1..Len(outcome') : p \in 1..Len(outcome) \/ p = Len(outcome')
    BY <2>1
  <2>8. Len(outcome') > Len(outcome') - Len(queue')
    BY <2>1
  <2>9. QED
    BY <2>2, <2>3, <2>4, <2>5, <2>6, <2>7, <2>8
<1>6. CASE Began
  <2>1. /\ held = 0 /\ held' = Len(outcome) - Len(queue) + 1 /\ Len(queue') = Len(queue) - 1
        /\ Len(queue) \in Nat /\ Len(outcome) \in Nat /\ Len(queue) <= Len(outcome)
        /\ outcome' = outcome
    BY <1>6, Lengths DEF Began
  <2>2. ASSUME NEW i \in 1..Len(queue')
        PROVE  queue'[i] = Len(outcome') - Len(queue') + i
    <3>1. i + 1 \in 1..Len(queue) /\ queue'[i] = queue[i + 1]
      BY <1>6, <2>1 DEF Began
    <3>2. queue[i + 1] = Len(outcome) - Len(queue) + (i + 1)
      BY <1>3, <3>1
    <3>3. QED
      BY <2>1, <3>1, <3>2
  <2>3. ASSUME NEW p \in 1..Len(outcome)
        PROVE  outcome[p] = "none" <=> p = held' \/ p > Len(outcome) - Len(queue')
    <3>1. outcome[p] = "none" <=> p > Len(outcome) - Len(queue)
      BY <1>3, <2>1
    <3>2. p > Len(outcome) - Len(queue) <=> p = held' \/ p > Len(outcome) - Len(queue')
      BY <2>1
    <3>3. QED
      BY <3>1, <3>2
  <2>4. QED
    BY <2>1, <2>2, <2>3
<1>7. CASE Ended
  BY <1>1, <1>2, <1>3, <1>7, Lengths DEF Ended
<1>8. CASE Dropped
  BY <1>1, <1>2, <1>3, <1>8, Lengths DEF Dropped
<1>9. QED
  BY <1>4, <1>5, <1>6, <1>7, <1>8, Moves DEF Move

\* stopping_ is never reset, and what was queued when it was set stays counted.
LEMMA StepStopInv == ASSUME Inv, [QueueNext]_queueVars PROVE StopInv'
<1>1. /\ Len(outcome) <= Len(outcome') /\ Len(outcome) \in Nat /\ Len(outcome') \in Nat
      /\ Len(queue) \in Nat /\ stopMark \in Nat /\ stopMark <= Len(outcome)
  BY Moves, Lengths DEF Move, Unmoved, Queued, Began, Ended, Dropped, Inv, StopInv, accepted
<1>2. /\ Callers \subseteq Threads /\ Worker \in Threads /\ Worker \notin Callers
      /\ DOMAIN pc = Threads /\ stopping \in BOOLEAN
      /\ \A t \in Callers : pc[t] \in {"notifyAll", "join"} => stopping
      /\ joined # {} => stopping
  BY ThreadsAssumption DEF Inv, QueueTypeOK, StopInv, Threads
<1> USE <1>1, <1>2 DEF StopInv, At, Goto, flags, accepted
<1>3. ASSUME UNCHANGED queueVars PROVE StopInv'
  BY <1>3 DEF queueVars, fates
<1>4. ASSUME NEW t \in Callers, NEW p \in Payloads, PushBegin(t, p) PROVE StopInv'
  BY <1>4 DEF PushBegin
<1>5. ASSUME NEW t \in Callers, PushLocked(t) PROVE StopInv'
  BY <1>5 DEF PushLocked
<1>6. ASSUME NEW t \in Callers, EnsureWorkerStarted(t) PROVE StopInv'
  BY <1>6 DEF EnsureWorkerStarted
<1>7. ASSUME NEW t \in Callers, Notify(t) PROVE StopInv'
  BY <1>7 DEF Notify, Wake
<1>8. ASSUME WorkerCheck \/ SpuriousWakeup \/ WorkerDeliver \/ WorkerLog PROVE StopInv'
  <2>1. /\ UNCHANGED <<stopping, stopMark, joined>>
        /\ \E where \in WorkerPcs : pc' = [pc EXCEPT ![Worker] = where]
    BY <1>8 DEF WorkerCheck, SpuriousWakeup, WorkerDeliver, WorkerLog, WorkerPcs
  <2>2. QED
    BY <2>1
<1>9. ASSUME NEW t \in Callers, StopBegin(t) PROVE StopInv'
  BY <1>9 DEF StopBegin
<1>10. ASSUME NEW t \in Callers, StopLocked(t) PROVE StopInv'
  BY <1>10 DEF StopLocked
<1>11. ASSUME NEW t \in Callers, NotifyAll(t) PROVE StopInv'
  BY <1>11 DEF NotifyAll, Wake
<1>12. ASSUME NEW t \in Callers, Join(t) PROVE StopInv'
  BY <1>12 DEF Join
<1>13. QED
  BY <1>3, <1>4, <1>5, <1>6, <1>7, <1>8, <1>9, <1>10, <1>11, <1>12 DEF QueueNext, QueueStep

\* A settled payload stays settled.
LEMMA SettledStays ==
  ASSUME Inv, [QueueNext]_queueVars, NEW p \in 1..Len(outcome), outcome[p] # "none"
  PROVE  outcome'[p] # "none"
<1>1. CASE Unmoved \/ Queued \/ Began
  BY <1>1 DEF Unmoved, Queued, Began
<1>2. CASE Ended \/ Dropped
  BY <1>2 DEF Ended, Dropped
<1>3. QED
  BY <1>1, <1>2, Moves DEF Move

\* The worker leaves with the queue empty and its hands free; the flag that let it
\* leave, or that a finished stop left behind, lets no other start.
LEMMA StepStopIsClean == ASSUME Inv, [QueueNext]_queueVars PROVE StopIsClean'
<1> DEFINE Gone == pc[Worker] \in {"off", "exited"}
<1>1. /\ Callers \subseteq Threads /\ Worker \in Threads /\ Worker \notin Callers
      /\ DOMAIN pc = Threads /\ stopping \in BOOLEAN
      /\ joined # {} => stopping /\ Gone
      /\ pc[Worker] = "exited" => stopping
      /\ ~workerStarted => pc[Worker] = "off"
      /\ held # 0 <=> pc[Worker] = "deliver"
  BY ThreadsAssumption
  DEF Inv, QueueTypeOK, PcInv, HeldInv, StopInv, StopIsClean, Threads
<1> USE DEF At, Goto, flags
<1> DEFINE Arrives == At(Worker, "run") /\ queue = <<>> /\ UNCHANGED <<stopMark, outcome>>
<1> DEFINE Same == pc'[Worker] = "exited" =>
                     \/ pc[Worker] = "exited" /\ stopMark' = stopMark
                     \/ Arrives
<1> DEFINE Stays == joined' # {} => pc'[Worker] \in {"off", "exited"}
<1>2. ASSUME UNCHANGED queueVars PROVE Same /\ Stays
  BY <1>1, <1>2 DEF queueVars, fates
<1>3. ASSUME NEW t \in Callers, NEW p \in Payloads, PushBegin(t, p) PROVE Same /\ Stays
  BY <1>1, <1>3 DEF PushBegin
<1>4. ASSUME NEW t \in Callers, PushLocked(t) PROVE Same /\ Stays
  BY <1>1, <1>4 DEF PushLocked
<1>5. ASSUME NEW t \in Callers, EnsureWorkerStarted(t) PROVE Same /\ Stays
  BY <1>1, <1>5 DEF EnsureWorkerStarted
<1>6. ASSUME NEW t \in Callers, Notify(t) PROVE Same /\ Stays
  BY <1>1, <1>6 DEF Notify, Wake
<1>7. ASSUME WorkerCheck PROVE Same /\ Stays
  BY <1>1, <1>7 DEF WorkerCheck, fates
<1>8. ASSUME SpuriousWakeup PROVE Same /\ Stays
  BY <1>1, <1>8 DEF SpuriousWakeup
<1>9. ASSUME WorkerDeliver PROVE Same /\ Stays
  BY <1>1, <1>9 DEF WorkerDeliver
<1>10. ASSUME WorkerLog PROVE Same /\ Stays
  BY <1>1, <1>10 DEF WorkerLog
<1>11. ASSUME NEW t \in Callers, StopBegin(t) PROVE Same /\ Stays
  BY <1>1, <1>11 DEF StopBegin
<1>12. ASSUME NEW t \in Callers, StopLocked(t) PROVE Same /\ Stays
  BY <1>1, <1>12 DEF StopLocked
<1>13. ASSUME NEW t \in Callers, NotifyAll(t) PROVE Same /\ Stays
  BY <1>1, <1>13 DEF NotifyAll, Wake
<1>14. ASSUME NEW t \in Callers, Join(t) PROVE Same /\ Stays
  BY <1>1, <1>14 DEF Join
<1>15. Same /\ Stays
  BY <1>2, <1>3, <1>4, <1>5, <1>6, <1>7, <1>8, <1>9,
     <1>10, <1>11, <1>12, <1>13, <1>14 DEF QueueNext, QueueStep
<1>16. ASSUME pc'[Worker] = "exited", NEW p \in 1..stopMark' PROVE outcome'[p] # "none"
  <2>1. stopMark \in Nat /\ stopMark <= Len(outcome) /\ Len(outcome) \in Nat
    BY Lengths DEF Inv, StopInv, accepted
  <2>2. CASE pc[Worker] = "exited" /\ stopMark' = stopMark
    <3>1. p \in 1..Len(outcome) /\ outcome[p] # "none"
      BY <2>1, <2>2 DEF Inv, StopIsClean, Settled
    <3>2. QED
      BY <3>1, SettledStays
  <2>3. CASE Arrives
    <3>1. held = 0 /\ Len(queue) = 0 /\ p \in 1..Len(outcome) /\ outcome' = outcome
      BY <1>1, <2>1, <2>3
    <3>2. outcome[p] # "none"
      BY <2>1, <3>1, Lengths DEF Inv, Custody, Settled, accepted
    <3>3. QED
      BY <3>1, <3>2
  <2>4. QED
    BY <1>15, <1>16, <2>2, <2>3
<1>17. QED
  BY <1>15, <1>16 DEF StopIsClean, Settled

-----------------------------------------------------------------------------
(* Theorems *)

\* The invariant is inductive, so it holds in every reachable state.
THEOREM Invariance == QueueSpec => []Inv
<1>1. ASSUME Inv, [QueueNext]_queueVars PROVE Inv'
  BY <1>1, StepTypeOK, StepPcInv, StepHeldInv, StepCustody, StepStopInv, StepStopIsClean DEF Inv
<1>2. QED
  BY InitInv, <1>1, PTL DEF QueueSpec

\* Type correctness of the queue's state, for any number of callers and payloads.
THEOREM TypeCorrect == QueueSpec => []QueueTypeOK
  BY Invariance, PTL DEF Inv

\* Every payload queued is in its place in the queue, or with the worker, or
\* settled: none is delivered twice, nor delivered after a discard() dropped it.
THEOREM SingleCustody == QueueSpec => []Custody
  BY Invariance, PTL DEF Inv

\* A worker that left has settled all that was queued before the stop, and after
\* shutdown() or discard() has returned no worker runs and none starts.
THEOREM CleanStop == QueueSpec => []StopIsClean
  BY Invariance, PTL DEF Inv

\* The queue, discard() included, implements the bounded handoff: initial states
\* map to initial states and steps to steps.
THEOREM Refinement == QueueSpec => ImplementsHandoff
<1>1. QueueInit => Abstract!Init
  BY DEF QueueInit, Abstract!Init, accepted, Settled
<1>2. ASSUME Inv, [QueueNext]_queueVars PROVE [Abstract!Next \/ Abstract!Drop]_(Abstract!vars)
  <2>0. /\ Len(queue) \in Nat /\ Len(outcome) \in Nat /\ Len(queue) <= Len(outcome)
        /\ DOMAIN outcome = 1..Len(outcome) /\ DOMAIN outcome' = 1..Len(outcome')
        /\ held \in Nat
    BY <1>2, Lengths, StepTypeOK, LenProperties DEF QueueTypeOK
  <2>1. CASE Unmoved
    BY <2>1 DEF Unmoved, Abstract!vars, accepted, Settled
  <2>2. CASE Queued
    <3>1. {p \in DOMAIN outcome' : Settled(p)'} = {p \in DOMAIN outcome : Settled(p)}
      BY <2>0, <2>2 DEF Queued, Settled
    <3>2. Abstract!Accept
      BY <2>0, <2>2, <3>1 DEF Queued, Abstract!Accept, accepted
    <3>3. QED
      BY <3>2 DEF Abstract!Next
  <2>3. CASE Began
    <3>1. Abstract!Begin(Worker)
      BY <2>0, <2>3 DEF Began, Abstract!Begin, accepted, Settled
    <3>2. QED
      BY <3>1 DEF Abstract!Next
  <2>4. CASE Ended
    <3>1. {p \in DOMAIN outcome' : Settled(p)'} = {p \in DOMAIN outcome : Settled(p)} \cup {held}
      BY <2>0, <2>4 DEF Ended, Settled
    <3>2. Abstract!End(Worker)
      BY <2>0, <2>4, <3>1 DEF Ended, Abstract!End, accepted
    <3>3. QED
      BY <3>2 DEF Abstract!Next
  <2>5. CASE Dropped
    <3>1. Len(queue') = 0
      BY <2>5 DEF Dropped
    <3>2. {p \in DOMAIN outcome' : Settled(p)'} =
            {p \in DOMAIN outcome : Settled(p)}
              \cup (Len(outcome) - Len(queue) + 1)..Len(outcome)
      BY <2>0, <2>5 DEF Dropped, Settled
    <3>3. Abstract!Drop
      BY <2>0, <2>5, <3>1, <3>2 DEF Dropped, Abstract!Drop, accepted
    <3>4. QED
      BY <3>3
  <2>6. QED
    BY <1>2, <2>1, <2>2, <2>3, <2>4, <2>5, Moves DEF Move
<1>3. QED
  BY Invariance, <1>1, <1>2, PTL DEF QueueSpec, ImplementsHandoff, Abstract!DropSpec

=============================================================================
