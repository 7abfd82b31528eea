------------------------ MODULE DeliveryQueue_proofs ------------------------
(***************************************************************************)
(* Theorems about DeliveryQueue, for every set of callers, queue size,     *)
(* number of calls and set of faults.                                      *)
(***************************************************************************)
EXTENDS DeliveryQueue, SequenceTheorems, TLAPS

\* What each program counter says of the thread's payload: a thread delivers
\* exactly when it holds one, and only the worker stands at the worker's steps.
PcInv ==
  /\ \A t \in Threads : held[t] # 0 <=> pc[t] \in {"drainDeliver", "deliver"}
  /\ \A t \in Callers : pc[t] \notin WorkerPcs
  /\ ~workerStarted => pc[Worker] = "off"

\* in_flight_ covers whatever the worker holds.
InFlightInv == pc[Worker] \in {"deliver", "finish", "caught"} => inFlight > 0

\* A held payload was taken, is not settled, and has one holder.
HeldInv ==
  /\ \A t \in Threads : held[t] # 0 => held[t] \in 1..Len(taken) /\ outcome[held[t]] = "none"
  /\ \A t, u \in Threads : held[t] # 0 /\ held[t] = held[u] => t = u

\* Every payload is queued, or held, or settled.
FateInv ==
  /\ \A p \in 1..Len(taken) : outcome[p] # "none" \/ \E t \in Threads : held[t] = p
  /\ \A p \in (Len(taken) + 1)..Len(outcome) : outcome[p] = "none"

\* A drain() that saw the queue empty saw everything queued before it gone.
DrainInv ==
  /\ \A t \in Threads : before[t] <= Len(outcome)
  /\ \A t \in Threads : pc[t] = "drainAwait" => before[t] <= Len(taken)

\* stopping_ only rises, and the worker leaves an empty queue behind.
StopInv ==
  /\ stopMark <= Len(outcome)
  /\ \A t \in Threads : pc[t] \in {"notifyAll", "join"} \/ ret[t] = "joined" => stopping
  /\ pc[Worker] = "exited" => stopping /\ stopMark <= Len(taken)

Inv ==
  /\ TypeOK /\ Conservation /\ PcInv /\ InFlightInv /\ HeldInv /\ FateInv
  /\ DrainInv /\ StopInv /\ DrainTrueMeansAttempted /\ JoinedWorkerIsGone

-----------------------------------------------------------------------------
(* What a step can do to the payloads: nothing, queue one, begin a delivery, *)
(* end a delivery.                                                           *)

Unmoved == UNCHANGED <<queue, outcome, taken, held>>

Queued ==
  /\ UNCHANGED <<taken, held>>
  /\ Len(queue) < Capacity
  /\ queue' \in Seq(Nat) /\ Len(queue') = Len(queue) + 1
  /\ \A i \in 1..Len(queue) : queue'[i] = queue[i]
  /\ queue'[Len(queue) + 1] = Len(outcome) + 1
  /\ outcome' \in Seq(Outcomes) /\ Len(outcome') = Len(outcome) + 1
  /\ \A p \in 1..Len(outcome) : outcome'[p] = outcome[p]
  /\ outcome'[Len(outcome) + 1] = "none"

Began(t) ==
  /\ held[t] = 0 /\ held' = [held EXCEPT ![t] = Len(taken) + 1]
  /\ queue' \in Seq(Nat) /\ Len(queue') = Len(queue) - 1 /\ Len(queue) > 0
  /\ \A i \in 1..Len(queue') : queue'[i] = queue[i + 1]
  /\ taken' \in Seq(Nat) /\ Len(taken') = Len(taken) + 1
  /\ \A i \in 1..Len(taken) : taken'[i] = taken[i]
  /\ taken'[Len(taken) + 1] = Len(taken) + 1
  /\ outcome' = outcome

Ended(t) ==
  /\ held[t] \in 1..Len(taken) /\ held[t] \in 1..Len(outcome)
  /\ held' = [held EXCEPT ![t] = 0]
  /\ outcome' \in Seq(Outcomes) /\ Len(outcome') = Len(outcome)
  /\ outcome'[held[t]] # "none"
  /\ \A p \in 1..Len(outcome) : p # held[t] => outcome'[p] = outcome[p]
  /\ UNCHANGED <<queue, taken>>

\* Take(t) moves the head of the queue to the end of taken and into held[t].
LEMMA TakeBegins ==
  ASSUME TypeOK, Conservation, NEW t \in Threads, Take(t), held[t] = 0, outcome' = outcome
  PROVE  Began(t)
<1> USE DEF TypeOK, DeliveriesOK, Take
<1>1. Len(queue) > 0 /\ Head(queue) = queue[1] /\ Head(queue) \in Nat
  BY HeadTailProperties, EmptySeq, LenProperties
<1>2. queue[1] = Len(taken) + 1
  BY <1>1, LenProperties DEF Conservation
<1>3. /\ queue' \in Seq(Nat) /\ Len(queue') = Len(queue) - 1
      /\ \A i \in 1..Len(queue') : queue'[i] = queue[i + 1]
  BY <1>1, HeadTailProperties
<1>4. /\ taken' \in Seq(Nat) /\ Len(taken') = Len(taken) + 1
      /\ \A i \in 1..Len(taken) : taken'[i] = taken[i]
      /\ taken'[Len(taken) + 1] = Head(queue)
  BY <1>1, AppendProperties
<1>5. QED
  BY <1>1, <1>2, <1>3, <1>4 DEF Began

\* Settle(t, how) writes one entry of outcome and empties held[t].
LEMMA SettleEnds ==
  ASSUME TypeOK, Conservation, HeldInv, NEW t \in Threads, held[t] # 0,
         NEW how \in Outcomes \ {"none"}, Settle(t, how), UNCHANGED <<queue, taken>>
  PROVE  Ended(t)
<1> USE DEF TypeOK, DeliveriesOK, Settle
<1>1. held[t] \in 1..Len(taken)
  BY DEF HeldInv
<1>2. held[t] \in 1..Len(outcome)
  BY <1>1, LenProperties DEF Conservation, accepted
<1>3. QED
  BY <1>1, <1>2, ExceptSeq DEF Ended

\* A push finds no room, or appends the next number and an open outcome.
LEMMA PushQueues ==
  ASSUME TypeOK, NEW t \in Threads, PushLocked(t)
  PROVE  Unmoved \/ Queued
<1> USE DEF TypeOK, DeliveriesOK
<1>1. Len(outcome) + 1 \in Nat /\ "none" \in Outcomes
  BY LenProperties DEF Outcomes
<1>2. UNCHANGED <<taken, held>>
  BY DEF PushLocked
<1>3. CASE /\ Len(queue) < Capacity
           /\ queue' = Append(queue, Len(outcome) + 1) /\ outcome' = Append(outcome, "none")
  BY <1>1, <1>2, <1>3, AppendProperties DEF Queued
<1>4. CASE UNCHANGED <<queue, outcome>>
  BY <1>2, <1>4 DEF Unmoved
<1>5. QED
  BY <1>3, <1>4 DEF PushLocked, accepted

\* A drain()'s delivery ends, whatever its result.
LEMMA DeliverEnds == ASSUME Inv, NEW t \in Threads, DrainDeliver(t) PROVE Ended(t)
<1> USE DEF Inv
<1>1. held[t] # 0 /\ UNCHANGED <<queue, taken>>
  BY DEF DrainDeliver, At, PcInv
<1>2. PICK how \in Outcomes \ {"none"} : Settle(t, how)
  BY DEF DrainDeliver, Outcomes
<1>3. QED
  BY <1>1, <1>2, SettleEnds

\* Every step of the queue is one of the four.
LEMMA Moves ==
  ASSUME Inv, [Next]_vars
  PROVE  Unmoved \/ Queued \/ \E t \in Threads : Began(t) \/ Ended(t)
<1> USE DEF Inv, deliveries
<1>1. Worker \in Threads /\ Callers \subseteq Threads
  BY DEF Threads
<1>2. CASE UNCHANGED vars
  BY <1>2 DEF vars, Unmoved
<1>3. ASSUME NEW t \in Threads, PushStep(t) PROVE Unmoved \/ Queued
  BY <1>3, PushQueues DEF PushStep, PushFull, EnsureWorkerStarted, Notify, Unmoved
<1>4. ASSUME NEW t \in Threads, DrainLocked(t) PROVE Unmoved \/ Began(t)
  <2>1. held[t] = 0 /\ outcome' = outcome
    BY <1>4 DEF DrainLocked, At, PcInv
  <2>2. CASE Take(t)
    BY <2>1, <2>2, TakeBegins
  <2>3. CASE UNCHANGED <<queue, taken, held>>
    BY <2>1, <2>3 DEF Unmoved
  <2>4. QED
    BY <1>4, <2>2, <2>3 DEF DrainLocked
<1>5. ASSUME NEW t \in Threads, DrainDeliver(t) PROVE Ended(t)
  BY <1>5, DeliverEnds
<1>6. CASE WorkerCheck
  <2>1. held[Worker] = 0 /\ outcome' = outcome
    BY <1>1, <1>6 DEF WorkerCheck, At, PcInv
  <2>2. CASE Take(Worker)
    BY <1>1, <2>1, <2>2, TakeBegins
  <2>3. CASE UNCHANGED <<queue, taken, held>>
    BY <2>1, <2>3 DEF Unmoved
  <2>4. QED
    BY <1>1, <1>6, <2>2, <2>3 DEF WorkerCheck
<1>7. CASE WorkerDeliver \/ WorkerCrashes
  <2>1. held[Worker] # 0 /\ UNCHANGED <<queue, taken>>
    BY <1>1, <1>7 DEF WorkerDeliver, WorkerCrashes, At, PcInv
  <2>2. PICK how \in Outcomes \ {"none"} : Settle(Worker, how)
    BY <1>7 DEF WorkerDeliver, WorkerCrashes, Outcomes
  <2>3. QED
    BY <1>1, <2>1, <2>2, SettleEnds
<1>8. ASSUME NEW t \in Threads,
             PushBegin(t) \/ ShutdownBegin(t) \/ ShutdownStep(t) \/ CallerCrashes(t) \/ DrainBegin(t)
               \/ DrainGiveUp(t) \/ DrainAwait(t) \/ Expire(t) \/ HolderDies(t)
      PROVE  Unmoved
  BY <1>8
     DEF PushBegin, ShutdownBegin, ShutdownStep, Stop, NotifyAll, Join, CallerCrashes, DrainBegin,
              DrainGiveUp, DrainAwait, Expire, HolderDies, Unmoved
<1>9. CASE WorkerFinish \/ WorkerLog \/ SpuriousWakeup \/ WorkerLogThrows
  BY <1>9 DEF WorkerFinish, WorkerLog, SpuriousWakeup, WorkerLogThrows, Unmoved
<1>10. QED
  BY <1>1, <1>2, <1>3, <1>4, <1>5, <1>6, <1>7, <1>8, <1>9 DEF Next, DrainStep, WorkerStep

-----------------------------------------------------------------------------
(* The invariant holds initially *)

\* Everything is empty, down and idle at first.
LEMMA InitTypeOK == Init => TypeOK
<1> SUFFICES ASSUME Init PROVE TypeOK
  OBVIOUS
<1>1. DeliveriesOK
  BY DEF Init, DeliveriesOK
<1>2. CountersOK
  BY DEF Init, CountersOK
<1>3. FlagsOK
  BY DEF Init, FlagsOK
<1>4. ThreadsOK
  BY DEF Init, ThreadsOK, Pcs, CallerPcs, WorkerPcs
<1>5. QED
  BY <1>1, <1>2, <1>3, <1>4 DEF TypeOK

\* No thread has called anything yet, so every part of Inv holds.
LEMMA InitInv == Init => Inv
<1> SUFFICES ASSUME Init PROVE Inv
  OBVIOUS
<1>1. Conservation
  BY DEF Init, Conservation, accepted
<1>2. PcInv /\ InFlightInv
  BY ThreadsAssumption DEF Init, PcInv, InFlightInv, WorkerPcs, Threads
<1>3. HeldInv
  BY DEF Init, HeldInv
<1>4. FateInv
  BY DEF Init, FateInv
<1>5. DrainInv /\ DrainTrueMeansAttempted
  BY DEF Init, DrainInv, DrainTrueMeansAttempted
<1>6. StopInv /\ JoinedWorkerIsGone
  <2>1. Len(outcome) = 0
    BY DEF Init
  <2>2. pc[Worker] = "off" /\ \A t \in Threads : pc[t] \in {"idle", "off"} /\ ret[t] = "none"
    BY DEF Init, Threads
  <2>3. stopMark = 0
    BY DEF Init
  <2>4. QED
    BY <2>1, <2>2, <2>3 DEF StopInv, JoinedWorkerIsGone
<1>7. QED
  BY InitTypeOK, <1>1, <1>2, <1>3, <1>4, <1>5, <1>6 DEF Inv

-----------------------------------------------------------------------------
(* Every step preserves it: first the parts that follow from Moves *)

\* The queue and the histories stay sequences, held a payload per thread.
LEMMA StepDeliveriesOK == ASSUME Inv, [Next]_vars PROVE DeliveriesOK'
<1> USE DEF Inv, TypeOK, DeliveriesOK
<1>1. CASE Unmoved
  BY <1>1 DEF Unmoved
<1>2. CASE Queued
  BY <1>2 DEF Queued
<1>3. ASSUME NEW t \in Threads, Began(t) PROVE DeliveriesOK'
  BY <1>3, LenProperties DEF Began
<1>4. ASSUME NEW t \in Threads, Ended(t) PROVE DeliveriesOK'
  BY <1>4 DEF Ended
<1>5. QED
  BY <1>1, <1>2, <1>3, <1>4, Moves

\* FIFO and nothing lost: the queue goes on where taken ends.
LEMMA StepConservation == ASSUME Inv, [Next]_vars PROVE Conservation'
<1>0. /\ Len(queue) \in Nat /\ Len(taken) \in Nat /\ Len(outcome) \in Nat
      /\ Conservation
  BY LenProperties DEF Inv, TypeOK, DeliveriesOK
<1> USE DEF Conservation, accepted
<1>1. CASE Unmoved
  BY <1>0, <1>1 DEF Unmoved
<1>2. CASE Queued
  <2>1. /\ taken' = taken /\ Len(queue') = Len(queue) + 1 /\ Len(outcome') = Len(outcome) + 1
        /\ \A i \in 1..Len(queue) : queue'[i] = queue[i]
        /\ queue'[Len(queue) + 1] = Len(outcome) + 1
    BY <1>2 DEF Queued
  <2>2. ASSUME NEW i \in 1..Len(queue') PROVE queue'[i] = Len(taken') + i
    <3>1. CASE i \in 1..Len(queue)
      BY <1>0, <2>1, <3>1
    <3>2. CASE i = Len(queue) + 1
      BY <1>0, <2>1, <3>2
    <3>3. QED
      BY <1>0, <2>1, <3>1, <3>2
  <2>3. QED
    BY <1>0, <2>1, <2>2
<1>3. ASSUME NEW t \in Threads, Began(t) PROVE Conservation'
  <2>0. /\ Len(queue') = Len(queue) - 1 /\ Len(taken') = Len(taken) + 1 /\ outcome' = outcome
        /\ \A i \in 1..Len(taken) : taken'[i] = taken[i]
        /\ taken'[Len(taken) + 1] = Len(taken) + 1
    BY <1>3 DEF Began
  <2>1. Len(taken') + Len(queue') = Len(outcome')
    BY <1>0, <2>0
  <2>2. \A i \in 1..Len(taken') : taken'[i] = i
    BY <1>0, <2>0
  <2>3. \A i \in 1..Len(queue') : queue'[i] = Len(taken') + i
    BY <1>0, <1>3 DEF Began
  <2>4. QED
    BY <2>1, <2>2, <2>3
<1>4. ASSUME NEW t \in Threads, Ended(t) PROVE Conservation'
  BY <1>0, <1>4 DEF Ended
<1>5. QED
  BY <1>1, <1>2, <1>3, <1>4, Moves

\* One holder each: a payload just begun is past every payload held before.
LEMMA StepHeldInv == ASSUME Inv, [Next]_vars PROVE HeldInv'
<1>0. /\ Len(queue) \in Nat /\ Len(taken) \in Nat /\ Len(outcome) \in Nat
      /\ Len(taken) + Len(queue) = Len(outcome)
      /\ held \in [Threads -> Nat]
      /\ HeldInv
  BY LenProperties DEF Inv, TypeOK, DeliveriesOK, Conservation, accepted
<1> USE DEF HeldInv
<1>1. CASE Unmoved
  BY <1>0, <1>1 DEF Unmoved
<1>2. CASE Queued
  BY <1>0, <1>2 DEF Queued
<1>3. ASSUME NEW t \in Threads, Began(t) PROVE HeldInv'
  BY <1>0, <1>3 DEF Began, FateInv, Inv
<1>4. ASSUME NEW t \in Threads, Ended(t) PROVE HeldInv'
  <2>1. ASSUME NEW u \in Threads, held'[u] # 0
        PROVE  u # t /\ held[u] = held'[u] /\ held[u] # held[t] /\ held[u] \in 1..Len(outcome)
    BY <1>0, <1>4, <2>1 DEF Ended
  <2>2. QED
    BY <1>0, <1>4, <2>1 DEF Ended
<1>5. QED
  BY <1>1, <1>2, <1>3, <1>4, Moves

\* Every payload queued, held or settled.
LEMMA StepFateInv == ASSUME Inv, [Next]_vars PROVE FateInv'
<1>0. /\ Len(queue) \in Nat /\ Len(taken) \in Nat /\ Len(outcome) \in Nat
      /\ Len(taken) + Len(queue) = Len(outcome)
      /\ held \in [Threads -> Nat]
      /\ FateInv
  BY LenProperties DEF Inv, TypeOK, DeliveriesOK, Conservation, accepted
<1> USE DEF FateInv
<1>1. CASE Unmoved
  BY <1>0, <1>1 DEF Unmoved
<1>2. CASE Queued
  <2>1. \A p \in 1..Len(taken) : outcome'[p] = outcome[p]
    BY <1>0, <1>2 DEF Queued
  <2>2. \A p \in (Len(taken') + 1)..Len(outcome') : outcome'[p] = "none"
    BY <1>0, <1>2 DEF Queued
  <2>3. QED
    BY <1>0, <1>2, <2>1, <2>2 DEF Queued
<1>3. ASSUME NEW t \in Threads, Began(t) PROVE FateInv'
  <2>1. held'[t] = Len(taken) + 1 /\ \A u \in Threads : held[u] # 0 => held'[u] = held[u]
    BY <1>0, <1>3 DEF Began
  <2>2. \A p \in 1..Len(taken') : outcome'[p] # "none" \/ \E u \in Threads : held'[u] = p
    BY <1>0, <1>3, <2>1 DEF Began
  <2>3. \A p \in (Len(taken') + 1)..Len(outcome') : outcome'[p] = "none"
    BY <1>0, <1>3 DEF Began
  <2>4. QED
    BY <2>2, <2>3
<1>4. ASSUME NEW t \in Threads, Ended(t) PROVE FateInv'
  <2>1. \A u \in Threads : held[u] # held[t] => held'[u] = held[u]
    BY <1>0, <1>4 DEF Ended
  <2>2. \A p \in 1..Len(taken') : outcome'[p] # "none" \/ \E u \in Threads : held'[u] = p
    BY <1>0, <1>4, <2>1 DEF Ended
  <2>3. \A p \in (Len(taken') + 1)..Len(outcome') : outcome'[p] = "none"
    BY <1>0, <1>4 DEF Ended
  <2>4. QED
    BY <2>2, <2>3
<1>5. QED
  BY <1>1, <1>2, <1>3, <1>4, Moves

\* The histories only grow.
LEMMA Growth ==
  ASSUME Inv, [Next]_vars
  PROVE  /\ Len(taken) \in Nat /\ Len(outcome) \in Nat
         /\ Len(taken') \in Nat /\ Len(outcome') \in Nat
         /\ Len(taken) <= Len(taken')
         /\ Len(outcome) <= Len(outcome') /\ Len(taken') <= Len(outcome')
<1>1. /\ Len(taken) \in Nat /\ Len(outcome) \in Nat /\ Len(taken') \in Nat /\ Len(outcome') \in Nat
      /\ Len(queue') \in Nat
  BY StepDeliveriesOK, LenProperties DEF Inv, TypeOK, DeliveriesOK
<1>2. Len(taken') <= Len(outcome')
  BY <1>1, StepConservation DEF Conservation, accepted
<1>3. Len(taken) <= Len(taken') /\ Len(outcome) <= Len(outcome')
  BY <1>1, Moves DEF Unmoved, Queued, Began, Ended
<1>4. QED
  BY <1>1, <1>2, <1>3

\* A payload taken has a number.
LEMMA TakeHolds ==
  ASSUME Inv, NEW t \in Threads, Take(t)
  PROVE  held' = [held EXCEPT ![t] = Head(queue)] /\ Head(queue) # 0 /\ Head(queue) \in Nat
<1>1. Len(queue) > 0 /\ Head(queue) = queue[1] /\ Len(taken) \in Nat /\ Len(queue) \in Nat
  BY HeadTailProperties, EmptySeq, LenProperties DEF Inv, TypeOK, DeliveriesOK, Take
<1>2. queue[1] = Len(taken) + 1
  BY <1>1 DEF Inv, Conservation
<1>3. QED
  BY <1>1, <1>2 DEF Take

-----------------------------------------------------------------------------
(* The other parts, one step per action *)

\* in_flight_ stays a natural number: only a worker that raised it lowers it.
LEMMA StepCountersOK ==
  ASSUME Inv, [Next]_vars
  PROVE  CountersOK'
<1> USE DEF Inv, TypeOK, DeliveriesOK, CountersOK, flags, calls, Goto, accepted
<1>0. Worker \in Threads /\ Callers \subseteq Threads
  BY DEF Threads
<1>1. CASE UNCHANGED vars
  BY <1>1 DEF vars
<1>2. ASSUME NEW t \in Threads, PushBegin(t) PROVE CountersOK'
  BY <1>2, <1>0 DEF PushBegin
<1>3. ASSUME NEW t \in Threads, PushLocked(t) PROVE CountersOK'
  BY <1>3, <1>0 DEF PushLocked
<1>4. ASSUME NEW t \in Threads, PushFull(t) PROVE CountersOK'
  BY <1>4, <1>0 DEF PushFull, AfterPush
<1>5. ASSUME NEW t \in Threads, EnsureWorkerStarted(t) PROVE CountersOK'
  BY <1>5, <1>0 DEF EnsureWorkerStarted, AfterPush
<1>6. ASSUME NEW t \in Threads, Notify(t) PROVE CountersOK'
  BY <1>6, <1>0 DEF Notify, Wake, AfterPush
<1>7. ASSUME NEW t \in Threads, DrainBegin(t) PROVE CountersOK'
  BY <1>7, <1>0 DEF DrainBegin
<1>8. ASSUME NEW t \in Threads, Expire(t) PROVE CountersOK'
  BY <1>8, <1>0 DEF Expire
<1>9. ASSUME NEW t \in Threads, DrainGiveUp(t) PROVE CountersOK'
  BY <1>9, <1>0 DEF DrainGiveUp, DrainReturn
<1>10. ASSUME NEW t \in Threads, DrainLocked(t) PROVE CountersOK'
  BY <1>10, <1>0 DEF DrainLocked, DrainReturn, Take
<1>11. ASSUME NEW t \in Threads, DrainDeliver(t) PROVE CountersOK'
  BY <1>11, <1>0 DEF DrainDeliver, DrainReturn, Settle
<1>12. ASSUME NEW t \in Threads, DrainAwait(t) PROVE CountersOK'
  BY <1>12, <1>0 DEF DrainAwait, DrainReturn
<1>13. CASE WorkerCheck
  BY <1>13, <1>0 DEF WorkerCheck, Take
<1>14. CASE SpuriousWakeup
  BY <1>14, <1>0 DEF SpuriousWakeup
<1>15. CASE WorkerDeliver
  BY <1>15, <1>0 DEF WorkerDeliver, Settle
<1>16. CASE WorkerFinish
  BY <1>16, <1>0 DEF WorkerFinish, InFlightInv
<1>17. CASE WorkerLog
  BY <1>17, <1>0 DEF WorkerLog
<1>18. ASSUME NEW t \in Threads, ShutdownBegin(t) PROVE CountersOK'
  BY <1>18, <1>0 DEF ShutdownBegin
<1>19. ASSUME NEW t \in Threads, Stop(t) PROVE CountersOK'
  BY <1>19, <1>0 DEF Stop
<1>20. ASSUME NEW t \in Threads, NotifyAll(t) PROVE CountersOK'
  BY <1>20, <1>0 DEF NotifyAll, Wake
<1>21. ASSUME NEW t \in Threads, Join(t) PROVE CountersOK'
  BY <1>21, <1>0 DEF Join
<1>22. ASSUME NEW t \in Threads, CallerCrashes(t) PROVE CountersOK'
  BY <1>22, <1>0 DEF CallerCrashes, Terminate
<1>23. CASE WorkerCrashes
  BY <1>23, <1>0 DEF WorkerCrashes, Terminate, Settle
<1>24. CASE WorkerLogThrows
  BY <1>24, <1>0 DEF WorkerLogThrows, Terminate
<1>25. ASSUME NEW t \in Threads, HolderDies(t) PROVE CountersOK'
  BY <1>25, <1>0 DEF HolderDies
<1>26. QED
  BY <1>0, <1>1, <1>2, <1>3, <1>4, <1>5, <1>6, <1>7, <1>8, <1>9, <1>10, <1>11, <1>12, <1>13,
     <1>14, <1>15, <1>16, <1>17, <1>18, <1>19, <1>20, <1>21, <1>22, <1>23, <1>24, <1>25
     DEF Next, PushStep, DrainStep, ShutdownStep, WorkerStep

\* The flags stay Booleans.
LEMMA StepFlagsOK ==
  ASSUME Inv, [Next]_vars
  PROVE  FlagsOK'
<1> USE DEF Inv, TypeOK, FlagsOK, flags, process, results, Goto
<1>0. Worker \in Threads /\ Callers \subseteq Threads
  BY DEF Threads
<1>1. CASE UNCHANGED vars
  BY <1>1 DEF vars
<1>2. ASSUME NEW t \in Threads, PushBegin(t) PROVE FlagsOK'
  BY <1>2, <1>0 DEF PushBegin
<1>3. ASSUME NEW t \in Threads, PushLocked(t) PROVE FlagsOK'
  BY <1>3, <1>0 DEF PushLocked
<1>4. ASSUME NEW t \in Threads, PushFull(t) PROVE FlagsOK'
  BY <1>4, <1>0 DEF PushFull, AfterPush
<1>5. ASSUME NEW t \in Threads, EnsureWorkerStarted(t) PROVE FlagsOK'
  BY <1>5, <1>0 DEF EnsureWorkerStarted, AfterPush
<1>6. ASSUME NEW t \in Threads, Notify(t) PROVE FlagsOK'
  BY <1>6, <1>0 DEF Notify, Wake, AfterPush
<1>7. ASSUME NEW t \in Threads, DrainBegin(t) PROVE FlagsOK'
  BY <1>7, <1>0 DEF DrainBegin
<1>8. ASSUME NEW t \in Threads, Expire(t) PROVE FlagsOK'
  BY <1>8, <1>0 DEF Expire
<1>9. ASSUME NEW t \in Threads, DrainGiveUp(t) PROVE FlagsOK'
  BY <1>9, <1>0 DEF DrainGiveUp, DrainReturn
<1>10. ASSUME NEW t \in Threads, DrainLocked(t) PROVE FlagsOK'
  BY <1>10, <1>0 DEF DrainLocked, DrainReturn, Take
<1>11. ASSUME NEW t \in Threads, DrainDeliver(t) PROVE FlagsOK'
  BY <1>11, <1>0 DEF DrainDeliver, DrainReturn, Settle
<1>12. ASSUME NEW t \in Threads, DrainAwait(t) PROVE FlagsOK'
  BY <1>12, <1>0 DEF DrainAwait, DrainReturn
<1>13. CASE WorkerCheck
  BY <1>13, <1>0 DEF WorkerCheck, Take
<1>14. CASE SpuriousWakeup
  BY <1>14, <1>0 DEF SpuriousWakeup
<1>15. CASE WorkerDeliver
  BY <1>15, <1>0 DEF WorkerDeliver, Settle
<1>16. CASE WorkerFinish
  BY <1>16, <1>0 DEF WorkerFinish
<1>17. CASE WorkerLog
  BY <1>17, <1>0 DEF WorkerLog
<1>18. ASSUME NEW t \in Threads, ShutdownBegin(t) PROVE FlagsOK'
  BY <1>18, <1>0 DEF ShutdownBegin
<1>19. ASSUME NEW t \in Threads, Stop(t) PROVE FlagsOK'
  BY <1>19, <1>0 DEF Stop
<1>20. ASSUME NEW t \in Threads, NotifyAll(t) PROVE FlagsOK'
  BY <1>20, <1>0 DEF NotifyAll, Wake
<1>21. ASSUME NEW t \in Threads, Join(t) PROVE FlagsOK'
  BY <1>21, <1>0 DEF Join
<1>22. ASSUME NEW t \in Threads, CallerCrashes(t) PROVE FlagsOK'
  BY <1>22, <1>0 DEF CallerCrashes, Terminate
<1>23. CASE WorkerCrashes
  BY <1>23, <1>0 DEF WorkerCrashes, Terminate, Settle
<1>24. CASE WorkerLogThrows
  BY <1>24, <1>0 DEF WorkerLogThrows, Terminate
<1>25. ASSUME NEW t \in Threads, HolderDies(t) PROVE FlagsOK'
  BY <1>25, <1>0 DEF HolderDies
<1>26. QED
  BY <1>0, <1>1, <1>2, <1>3, <1>4, <1>5, <1>6, <1>7, <1>8, <1>9, <1>10, <1>11, <1>12, <1>13,
     <1>14, <1>15, <1>16, <1>17, <1>18, <1>19, <1>20, <1>21, <1>22, <1>23, <1>24, <1>25
     DEF Next, PushStep, DrainStep, ShutdownStep, WorkerStep

\* Every thread stays at a known step.
LEMMA StepThreadsOK ==
  ASSUME Inv, [Next]_vars
  PROVE  ThreadsOK'
<1> USE DEF Inv, TypeOK, ThreadsOK, DeliveriesOK, results, Goto, accepted, Pcs, CallerPcs,
   DrainPcs, ShutdownPcs, WorkerPcs
<1>0. Worker \in Threads /\ Callers \subseteq Threads
  BY DEF Threads
<1>1. CASE UNCHANGED vars
  BY <1>1 DEF vars
<1>2. ASSUME NEW t \in Threads, PushBegin(t) PROVE ThreadsOK'
  BY <1>2, <1>0 DEF PushBegin
<1>3. ASSUME NEW t \in Threads, PushLocked(t) PROVE ThreadsOK'
  BY <1>3, <1>0 DEF PushLocked
<1>4. ASSUME NEW t \in Threads, PushFull(t) PROVE ThreadsOK'
  BY <1>4, <1>0 DEF PushFull, AfterPush
<1>5. ASSUME NEW t \in Threads, EnsureWorkerStarted(t) PROVE ThreadsOK'
  BY <1>5, <1>0 DEF EnsureWorkerStarted, AfterPush
<1>6. ASSUME NEW t \in Threads, Notify(t) PROVE ThreadsOK'
  BY <1>6, <1>0 DEF Notify, Wake, AfterPush
<1>7. ASSUME NEW t \in Threads, DrainBegin(t) PROVE ThreadsOK'
  BY <1>7, <1>0 DEF DrainBegin
<1>8. ASSUME NEW t \in Threads, Expire(t) PROVE ThreadsOK'
  BY <1>8, <1>0 DEF Expire
<1>9. ASSUME NEW t \in Threads, DrainGiveUp(t) PROVE ThreadsOK'
  BY <1>9, <1>0 DEF DrainGiveUp, DrainReturn
<1>10. ASSUME NEW t \in Threads, DrainLocked(t) PROVE ThreadsOK'
  BY <1>10, <1>0 DEF DrainLocked, DrainReturn
<1>11. ASSUME NEW t \in Threads, DrainDeliver(t) PROVE ThreadsOK'
  BY <1>11, <1>0 DEF DrainDeliver, DrainReturn
<1>12. ASSUME NEW t \in Threads, DrainAwait(t) PROVE ThreadsOK'
  BY <1>12, <1>0 DEF DrainAwait, DrainReturn
<1>13. CASE WorkerCheck
  BY <1>13, <1>0 DEF WorkerCheck
<1>14. CASE SpuriousWakeup
  BY <1>14, <1>0 DEF SpuriousWakeup
<1>15. CASE WorkerDeliver
  BY <1>15, <1>0 DEF WorkerDeliver
<1>16. CASE WorkerFinish
  BY <1>16, <1>0 DEF WorkerFinish
<1>17. CASE WorkerLog
  BY <1>17, <1>0 DEF WorkerLog
<1>18. ASSUME NEW t \in Threads, ShutdownBegin(t) PROVE ThreadsOK'
  BY <1>18, <1>0 DEF ShutdownBegin
<1>19. ASSUME NEW t \in Threads, Stop(t) PROVE ThreadsOK'
  BY <1>19, <1>0 DEF Stop
<1>20. ASSUME NEW t \in Threads, NotifyAll(t) PROVE ThreadsOK'
  BY <1>20, <1>0 DEF NotifyAll, Wake
<1>21. ASSUME NEW t \in Threads, Join(t) PROVE ThreadsOK'
  BY <1>21, <1>0 DEF Join
<1>22. ASSUME NEW t \in Threads, CallerCrashes(t) PROVE ThreadsOK'
  BY <1>22, <1>0 DEF CallerCrashes, Terminate
<1>23. CASE WorkerCrashes
  BY <1>23, <1>0 DEF WorkerCrashes, Terminate
<1>24. CASE WorkerLogThrows
  BY <1>24, <1>0 DEF WorkerLogThrows, Terminate
<1>25. ASSUME NEW t \in Threads, HolderDies(t) PROVE ThreadsOK'
  BY <1>25, <1>0 DEF HolderDies
<1>26. QED
  BY <1>0, <1>1, <1>2, <1>3, <1>4, <1>5, <1>6, <1>7, <1>8, <1>9, <1>10, <1>11, <1>12, <1>13,
     <1>14, <1>15, <1>16, <1>17, <1>18, <1>19, <1>20, <1>21, <1>22, <1>23, <1>24, <1>25
     DEF Next, PushStep, DrainStep, ShutdownStep, WorkerStep

\* An empty queue means everything queued so far was taken.
LEMMA EmptyQueue == ASSUME Inv, queue = <<>> PROVE Len(taken) = Len(outcome)
<1>1. Len(queue) = 0 /\ Len(taken) \in Nat /\ Len(outcome) \in Nat
  BY LenProperties DEF Inv, TypeOK, DeliveriesOK
<1>2. QED
  BY <1>1 DEF Inv, Conservation, accepted

\* A thread holds a payload exactly while it delivers one, and only the worker runs run().
LEMMA StepPcInv ==
  ASSUME Inv, [Next]_vars
  PROVE  PcInv'
<1> USE DEF Inv, TypeOK, DeliveriesOK, ThreadsOK, PcInv, Goto, At, deliveries, flags, WorkerPcs
<1>0. Worker \in Threads /\ Callers \subseteq Threads
  BY DEF Threads
<1>1. CASE UNCHANGED vars
  BY <1>1 DEF vars
<1>2. ASSUME NEW t \in Threads, PushBegin(t) PROVE PcInv'
  BY <1>2, <1>0 DEF PushBegin
<1>3. ASSUME NEW t \in Threads, PushLocked(t) PROVE PcInv'
  BY <1>3, <1>0 DEF PushLocked
<1>4. ASSUME NEW t \in Threads, PushFull(t) PROVE PcInv'
  BY <1>4, <1>0 DEF PushFull, AfterPush
<1>5. ASSUME NEW t \in Threads, EnsureWorkerStarted(t) PROVE PcInv'
  <2>1. /\ held' = held /\ pc[t] = "ensure"
        /\ \/ workerStarted' = workerStarted /\ pc' = [pc EXCEPT ![t] = "notify"]
           \/ /\ ~workerStarted /\ workerStarted' = TRUE
              /\ \/ pc' = [pc EXCEPT ![t] = "notify", ![Worker] = "run"]
                 \/ pc' = [pc EXCEPT ![t] = AfterPush(t)]
    BY <1>5 DEF EnsureWorkerStarted
  <2>2. CASE workerStarted' = workerStarted /\ pc' = [pc EXCEPT ![t] = "notify"]
    BY <1>0, <2>1, <2>2
  <2>3. CASE ~workerStarted /\ workerStarted' = TRUE
    <3>1. pc[Worker] = "off"
      BY <2>3
    <3>2. CASE pc' = [pc EXCEPT ![t] = "notify", ![Worker] = "run"]
      BY <1>0, <2>1, <2>3, <3>1, <3>2
    <3>3. CASE pc' = [pc EXCEPT ![t] = AfterPush(t)]
      BY <1>0, <2>1, <2>3, <3>1, <3>3 DEF AfterPush
    <3>4. QED
      BY <2>1, <2>3, <3>2, <3>3
  <2>4. QED
    BY <2>1, <2>2, <2>3
<1>6. ASSUME NEW t \in Threads, Notify(t) PROVE PcInv'
  BY <1>6, <1>0 DEF Notify, Wake, AfterPush
<1>7. ASSUME NEW t \in Threads, DrainBegin(t) PROVE PcInv'
  BY <1>7, <1>0 DEF DrainBegin
<1>8. ASSUME NEW t \in Threads, Expire(t) PROVE PcInv'
  BY <1>8, <1>0 DEF Expire
<1>9. ASSUME NEW t \in Threads, DrainGiveUp(t) PROVE PcInv'
  BY <1>9, <1>0 DEF DrainGiveUp, DrainReturn
<1>10. ASSUME NEW t \in Threads, DrainLocked(t) PROVE PcInv'
  BY <1>10, <1>0, TakeHolds DEF DrainLocked, DrainReturn
<1>11. ASSUME NEW t \in Threads, DrainDeliver(t) PROVE PcInv'
  BY <1>11, <1>0 DEF DrainDeliver, DrainReturn, Settle
<1>12. ASSUME NEW t \in Threads, DrainAwait(t) PROVE PcInv'
  BY <1>12, <1>0 DEF DrainAwait, DrainReturn
<1>13. CASE WorkerCheck
  BY <1>13, <1>0, TakeHolds DEF WorkerCheck
<1>14. CASE SpuriousWakeup
  BY <1>14, <1>0 DEF SpuriousWakeup
<1>15. CASE WorkerDeliver
  BY <1>15, <1>0 DEF WorkerDeliver, Settle
<1>16. CASE WorkerFinish
  BY <1>16, <1>0 DEF WorkerFinish
<1>17. CASE WorkerLog
  BY <1>17, <1>0 DEF WorkerLog
<1>18. ASSUME NEW t \in Threads, ShutdownBegin(t) PROVE PcInv'
  BY <1>18, <1>0 DEF ShutdownBegin
<1>19. ASSUME NEW t \in Threads, Stop(t) PROVE PcInv'
  BY <1>19, <1>0 DEF Stop
<1>20. ASSUME NEW t \in Threads, NotifyAll(t) PROVE PcInv'
  BY <1>20, <1>0 DEF NotifyAll, Wake
<1>21. ASSUME NEW t \in Threads, Join(t) PROVE PcInv'
  BY <1>21, <1>0 DEF Join
<1>22. ASSUME NEW t \in Threads, CallerCrashes(t) PROVE PcInv'
  BY <1>22, <1>0 DEF CallerCrashes, Terminate
<1>23. CASE WorkerCrashes
  BY <1>23, <1>0 DEF WorkerCrashes, Terminate, Settle
<1>24. CASE WorkerLogThrows
  BY <1>24, <1>0 DEF WorkerLogThrows, Terminate
<1>25. ASSUME NEW t \in Threads, HolderDies(t) PROVE PcInv'
  BY <1>25, <1>0 DEF HolderDies
<1>26. QED
  BY <1>0, <1>1, <1>2, <1>3, <1>4, <1>5, <1>6, <1>7, <1>8, <1>9, <1>10, <1>11, <1>12, <1>13,
     <1>14, <1>15, <1>16, <1>17, <1>18, <1>19, <1>20, <1>21, <1>22, <1>23, <1>24, <1>25
     DEF Next, PushStep, DrainStep, ShutdownStep, WorkerStep

\* in_flight_ is raised with the pop and lowered after the delivery.
LEMMA StepInFlightInv ==
  ASSUME Inv, [Next]_vars
  PROVE  InFlightInv'
<1> USE DEF Inv, TypeOK, CountersOK, ThreadsOK, PcInv, InFlightInv, Goto, At, flags, WorkerPcs
<1>0. Worker \in Threads /\ Callers \subseteq Threads
  BY DEF Threads
<1>1. CASE UNCHANGED vars
  BY <1>1 DEF vars
<1>2. ASSUME NEW t \in Threads, PushBegin(t) PROVE InFlightInv'
  BY <1>2, <1>0 DEF PushBegin
<1>3. ASSUME NEW t \in Threads, PushLocked(t) PROVE InFlightInv'
  BY <1>3, <1>0 DEF PushLocked
<1>4. ASSUME NEW t \in Threads, PushFull(t) PROVE InFlightInv'
  BY <1>4, <1>0 DEF PushFull, AfterPush
<1>5. ASSUME NEW t \in Threads, EnsureWorkerStarted(t) PROVE InFlightInv'
  BY <1>5, <1>0 DEF EnsureWorkerStarted, AfterPush
<1>6. ASSUME NEW t \in Threads, Notify(t) PROVE InFlightInv'
  BY <1>6, <1>0 DEF Notify, Wake, AfterPush
<1>7. ASSUME NEW t \in Threads, DrainBegin(t) PROVE InFlightInv'
  BY <1>7, <1>0 DEF DrainBegin
<1>8. ASSUME NEW t \in Threads, Expire(t) PROVE InFlightInv'
  BY <1>8, <1>0 DEF Expire
<1>9. ASSUME NEW t \in Threads, DrainGiveUp(t) PROVE InFlightInv'
  BY <1>9, <1>0 DEF DrainGiveUp, DrainReturn
<1>10. ASSUME NEW t \in Threads, DrainLocked(t) PROVE InFlightInv'
  BY <1>10, <1>0 DEF DrainLocked, DrainReturn
<1>11. ASSUME NEW t \in Threads, DrainDeliver(t) PROVE InFlightInv'
  BY <1>11, <1>0 DEF DrainDeliver, DrainReturn
<1>12. ASSUME NEW t \in Threads, DrainAwait(t) PROVE InFlightInv'
  BY <1>12, <1>0 DEF DrainAwait, DrainReturn
<1>13. CASE WorkerCheck
  BY <1>13, <1>0 DEF WorkerCheck
<1>14. CASE SpuriousWakeup
  BY <1>14, <1>0 DEF SpuriousWakeup
<1>15. CASE WorkerDeliver
  BY <1>15, <1>0 DEF WorkerDeliver
<1>16. CASE WorkerFinish
  BY <1>16, <1>0 DEF WorkerFinish
<1>17. CASE WorkerLog
  BY <1>17, <1>0 DEF WorkerLog
<1>18. ASSUME NEW t \in Threads, ShutdownBegin(t) PROVE InFlightInv'
  BY <1>18, <1>0 DEF ShutdownBegin
<1>19. ASSUME NEW t \in Threads, Stop(t) PROVE InFlightInv'
  BY <1>19, <1>0 DEF Stop
<1>20. ASSUME NEW t \in Threads, NotifyAll(t) PROVE InFlightInv'
  BY <1>20, <1>0 DEF NotifyAll, Wake
<1>21. ASSUME NEW t \in Threads, Join(t) PROVE InFlightInv'
  BY <1>21, <1>0 DEF Join
<1>22. ASSUME NEW t \in Threads, CallerCrashes(t) PROVE InFlightInv'
  BY <1>22, <1>0 DEF CallerCrashes, Terminate
<1>23. CASE WorkerCrashes
  BY <1>23, <1>0 DEF WorkerCrashes, Terminate
<1>24. CASE WorkerLogThrows
  BY <1>24, <1>0 DEF WorkerLogThrows, Terminate
<1>25. ASSUME NEW t \in Threads, HolderDies(t) PROVE InFlightInv'
  BY <1>25, <1>0 DEF HolderDies
<1>26. QED
  BY <1>0, <1>1, <1>2, <1>3, <1>4, <1>5, <1>6, <1>7, <1>8, <1>9, <1>10, <1>11, <1>12, <1>13,
     <1>14, <1>15, <1>16, <1>17, <1>18, <1>19, <1>20, <1>21, <1>22, <1>23, <1>24, <1>25
     DEF Next, PushStep, DrainStep, ShutdownStep, WorkerStep

\* before[t] is behind the queue, and behind taken once the queue was seen empty.
LEMMA StepDrainInv ==
  ASSUME Inv, [Next]_vars
  PROVE  DrainInv'
<1> USE DEF Inv, TypeOK, ThreadsOK, DrainInv, Goto, At, deliveries, results, accepted
<1>0. Worker \in Threads /\ Callers \subseteq Threads
  BY DEF Threads
<1>1. CASE UNCHANGED vars
  BY <1>1 DEF vars
<1>2. ASSUME NEW t \in Threads, PushBegin(t) PROVE DrainInv'
  BY <1>2, <1>0 DEF PushBegin
<1>3. ASSUME NEW t \in Threads, PushLocked(t) PROVE DrainInv'
  BY <1>3, <1>0, Growth DEF PushLocked
<1>4. ASSUME NEW t \in Threads, PushFull(t) PROVE DrainInv'
  BY <1>4, <1>0 DEF PushFull, AfterPush
<1>5. ASSUME NEW t \in Threads, EnsureWorkerStarted(t) PROVE DrainInv'
  BY <1>5, <1>0 DEF EnsureWorkerStarted, AfterPush
<1>6. ASSUME NEW t \in Threads, Notify(t) PROVE DrainInv'
  BY <1>6, <1>0 DEF Notify, Wake, AfterPush
<1>7. ASSUME NEW t \in Threads, DrainBegin(t) PROVE DrainInv'
  BY <1>7, <1>0 DEF DrainBegin
<1>8. ASSUME NEW t \in Threads, Expire(t) PROVE DrainInv'
  BY <1>8, <1>0 DEF Expire
<1>9. ASSUME NEW t \in Threads, DrainGiveUp(t) PROVE DrainInv'
  BY <1>9, <1>0 DEF DrainGiveUp, DrainReturn
<1>10. ASSUME NEW t \in Threads, DrainLocked(t) PROVE DrainInv'
  <2>1. before' = before /\ before[t] <= Len(outcome) /\ outcome' = outcome
    BY <1>10 DEF DrainLocked
  <2>2. CASE queue = <<>>
    BY <1>10, <2>1, <2>2, EmptyQueue, Growth DEF DrainLocked
  <2>3. CASE queue # <<>>
    BY <1>10, <2>1, <2>3, Growth DEF DrainLocked, DrainReturn
  <2>4. QED
    BY <2>2, <2>3
<1>11. ASSUME NEW t \in Threads, DrainDeliver(t) PROVE DrainInv'
  BY <1>11, <1>0, Growth DEF DrainDeliver, DrainReturn
<1>12. ASSUME NEW t \in Threads, DrainAwait(t) PROVE DrainInv'
  BY <1>12, <1>0 DEF DrainAwait, DrainReturn
<1>13. CASE WorkerCheck
  BY <1>13, <1>0, Growth DEF WorkerCheck
<1>14. CASE SpuriousWakeup
  BY <1>14, <1>0 DEF SpuriousWakeup
<1>15. CASE WorkerDeliver
  BY <1>15, <1>0, Growth DEF WorkerDeliver
<1>16. CASE WorkerFinish
  BY <1>16, <1>0 DEF WorkerFinish
<1>17. CASE WorkerLog
  BY <1>17, <1>0 DEF WorkerLog
<1>18. ASSUME NEW t \in Threads, ShutdownBegin(t) PROVE DrainInv'
  BY <1>18, <1>0 DEF ShutdownBegin
<1>19. ASSUME NEW t \in Threads, Stop(t) PROVE DrainInv'
  BY <1>19, <1>0 DEF Stop
<1>20. ASSUME NEW t \in Threads, NotifyAll(t) PROVE DrainInv'
  BY <1>20, <1>0 DEF NotifyAll, Wake
<1>21. ASSUME NEW t \in Threads, Join(t) PROVE DrainInv'
  BY <1>21, <1>0 DEF Join
<1>22. ASSUME NEW t \in Threads, CallerCrashes(t) PROVE DrainInv'
  BY <1>22, <1>0 DEF CallerCrashes, Terminate
<1>23. CASE WorkerCrashes
  BY <1>23, <1>0, Growth DEF WorkerCrashes, Terminate
<1>24. CASE WorkerLogThrows
  BY <1>24, <1>0 DEF WorkerLogThrows, Terminate
<1>25. ASSUME NEW t \in Threads, HolderDies(t) PROVE DrainInv'
  BY <1>25, <1>0 DEF HolderDies
<1>26. QED
  BY <1>0, <1>1, <1>2, <1>3, <1>4, <1>5, <1>6, <1>7, <1>8, <1>9, <1>10, <1>11, <1>12, <1>13,
     <1>14, <1>15, <1>16, <1>17, <1>18, <1>19, <1>20, <1>21, <1>22, <1>23, <1>24, <1>25
     DEF Next, PushStep, DrainStep, ShutdownStep, WorkerStep

\* stopping_ only rises; the worker leaves an empty queue behind.
LEMMA StepStopInv ==
  ASSUME Inv, [Next]_vars
  PROVE  StopInv'
<1> USE DEF Inv, TypeOK, CountersOK, ThreadsOK, StopInv, PcInv, Goto, At, deliveries, flags,
   results, accepted, WorkerPcs
<1>0. Worker \in Threads /\ Callers \subseteq Threads
  BY DEF Threads
<1>1. CASE UNCHANGED vars
  BY <1>1 DEF vars
<1>2. ASSUME NEW t \in Threads, PushBegin(t) PROVE StopInv'
  BY <1>2, <1>0 DEF PushBegin
<1>3. ASSUME NEW t \in Threads, PushLocked(t) PROVE StopInv'
  BY <1>3, <1>0, Growth DEF PushLocked
<1>4. ASSUME NEW t \in Threads, PushFull(t) PROVE StopInv'
  BY <1>4, <1>0 DEF PushFull, AfterPush
<1>5. ASSUME NEW t \in Threads, EnsureWorkerStarted(t) PROVE StopInv'
  BY <1>5, <1>0 DEF EnsureWorkerStarted, AfterPush
<1>6. ASSUME NEW t \in Threads, Notify(t) PROVE StopInv'
  BY <1>6, <1>0 DEF Notify, Wake, AfterPush
<1>7. ASSUME NEW t \in Threads, DrainBegin(t) PROVE StopInv'
  BY <1>7, <1>0 DEF DrainBegin
<1>8. ASSUME NEW t \in Threads, Expire(t) PROVE StopInv'
  BY <1>8, <1>0 DEF Expire
<1>9. ASSUME NEW t \in Threads, DrainGiveUp(t) PROVE StopInv'
  BY <1>9, <1>0 DEF DrainGiveUp, DrainReturn
<1>10. ASSUME NEW t \in Threads, DrainLocked(t) PROVE StopInv'
  BY <1>10, <1>0, Growth DEF DrainLocked, DrainReturn
<1>11. ASSUME NEW t \in Threads, DrainDeliver(t) PROVE StopInv'
  BY <1>11, <1>0, Growth DEF DrainDeliver, DrainReturn
<1>12. ASSUME NEW t \in Threads, DrainAwait(t) PROVE StopInv'
  BY <1>12, <1>0 DEF DrainAwait, DrainReturn
<1>13. CASE WorkerCheck
  <2>1. UNCHANGED <<stopping, stopMark, outcome, ret>>
    BY <1>13 DEF WorkerCheck
  <2>2. CASE queue = <<>>
    BY <1>13, <1>0, <2>1, <2>2, EmptyQueue, Growth DEF WorkerCheck
  <2>3. CASE queue # <<>>
    BY <1>13, <1>0, <2>1, <2>3, Growth DEF WorkerCheck
  <2>4. QED
    BY <2>2, <2>3
<1>14. CASE SpuriousWakeup
  BY <1>14, <1>0 DEF SpuriousWakeup
<1>15. CASE WorkerDeliver
  BY <1>15, <1>0, Growth DEF WorkerDeliver
<1>16. CASE WorkerFinish
  BY <1>16, <1>0 DEF WorkerFinish
<1>17. CASE WorkerLog
  BY <1>17, <1>0 DEF WorkerLog
<1>18. ASSUME NEW t \in Threads, ShutdownBegin(t) PROVE StopInv'
  BY <1>18, <1>0 DEF ShutdownBegin
<1>19. ASSUME NEW t \in Threads, Stop(t) PROVE StopInv'
  BY <1>19, <1>0 DEF Stop
<1>20. ASSUME NEW t \in Threads, NotifyAll(t) PROVE StopInv'
  BY <1>20, <1>0 DEF NotifyAll, Wake
<1>21. ASSUME NEW t \in Threads, Join(t) PROVE StopInv'
  BY <1>21, <1>0 DEF Join
<1>22. ASSUME NEW t \in Threads, CallerCrashes(t) PROVE StopInv'
  BY <1>22, <1>0 DEF CallerCrashes, Terminate
<1>23. CASE WorkerCrashes
  BY <1>23, <1>0, Growth DEF WorkerCrashes, Terminate
<1>24. CASE WorkerLogThrows
  BY <1>24, <1>0 DEF WorkerLogThrows, Terminate
<1>25. ASSUME NEW t \in Threads, HolderDies(t) PROVE StopInv'
  BY <1>25, <1>0 DEF HolderDies
<1>26. QED
  BY <1>0, <1>1, <1>2, <1>3, <1>4, <1>5, <1>6, <1>7, <1>8, <1>9, <1>10, <1>11, <1>12, <1>13,
     <1>14, <1>15, <1>16, <1>17, <1>18, <1>19, <1>20, <1>21, <1>22, <1>23, <1>24, <1>25
     DEF Next, PushStep, DrainStep, ShutdownStep, WorkerStep

\* shutdown() returns only once the worker has left, and none starts after it.
LEMMA StepJoinedWorkerIsGone ==
  ASSUME Inv, [Next]_vars
  PROVE  JoinedWorkerIsGone'
<1> USE DEF Inv, TypeOK, ThreadsOK, StopInv, PcInv, JoinedWorkerIsGone, Goto, At, flags, results,
   WorkerPcs
<1>0. Worker \in Threads /\ Callers \subseteq Threads
  BY DEF Threads
<1>1. CASE UNCHANGED vars
  BY <1>1 DEF vars
<1>2. ASSUME NEW t \in Threads, PushBegin(t) PROVE JoinedWorkerIsGone'
  BY <1>2, <1>0 DEF PushBegin
<1>3. ASSUME NEW t \in Threads, PushLocked(t) PROVE JoinedWorkerIsGone'
  BY <1>3, <1>0 DEF PushLocked
<1>4. ASSUME NEW t \in Threads, PushFull(t) PROVE JoinedWorkerIsGone'
  BY <1>4, <1>0 DEF PushFull, AfterPush
<1>5. ASSUME NEW t \in Threads, EnsureWorkerStarted(t) PROVE JoinedWorkerIsGone'
  BY <1>5, <1>0 DEF EnsureWorkerStarted, AfterPush
<1>6. ASSUME NEW t \in Threads, Notify(t) PROVE JoinedWorkerIsGone'
  BY <1>6, <1>0 DEF Notify, Wake, AfterPush
<1>7. ASSUME NEW t \in Threads, DrainBegin(t) PROVE JoinedWorkerIsGone'
  BY <1>7, <1>0 DEF DrainBegin
<1>8. ASSUME NEW t \in Threads, Expire(t) PROVE JoinedWorkerIsGone'
  BY <1>8, <1>0 DEF Expire
<1>9. ASSUME NEW t \in Threads, DrainGiveUp(t) PROVE JoinedWorkerIsGone'
  BY <1>9, <1>0 DEF DrainGiveUp, DrainReturn
<1>10. ASSUME NEW t \in Threads, DrainLocked(t) PROVE JoinedWorkerIsGone'
  BY <1>10, <1>0 DEF DrainLocked, DrainReturn
<1>11. ASSUME NEW t \in Threads, DrainDeliver(t) PROVE JoinedWorkerIsGone'
  BY <1>11, <1>0 DEF DrainDeliver, DrainReturn
<1>12. ASSUME NEW t \in Threads, DrainAwait(t) PROVE JoinedWorkerIsGone'
  BY <1>12, <1>0 DEF DrainAwait, DrainReturn
<1>13. CASE WorkerCheck
  BY <1>13, <1>0 DEF WorkerCheck
<1>14. CASE SpuriousWakeup
  BY <1>14, <1>0 DEF SpuriousWakeup
<1>15. CASE WorkerDeliver
  BY <1>15, <1>0 DEF WorkerDeliver
<1>16. CASE WorkerFinish
  BY <1>16, <1>0 DEF WorkerFinish
<1>17. CASE WorkerLog
  BY <1>17, <1>0 DEF WorkerLog
<1>18. ASSUME NEW t \in Threads, ShutdownBegin(t) PROVE JoinedWorkerIsGone'
  BY <1>18, <1>0 DEF ShutdownBegin
<1>19. ASSUME NEW t \in Threads, Stop(t) PROVE JoinedWorkerIsGone'
  BY <1>19, <1>0 DEF Stop
<1>20. ASSUME NEW t \in Threads, NotifyAll(t) PROVE JoinedWorkerIsGone'
  BY <1>20, <1>0 DEF NotifyAll, Wake
<1>21. ASSUME NEW t \in Threads, Join(t) PROVE JoinedWorkerIsGone'
  BY <1>21, <1>0 DEF Join
<1>22. ASSUME NEW t \in Threads, CallerCrashes(t) PROVE JoinedWorkerIsGone'
  BY <1>22, <1>0 DEF CallerCrashes, Terminate
<1>23. CASE WorkerCrashes
  BY <1>23, <1>0 DEF WorkerCrashes, Terminate
<1>24. CASE WorkerLogThrows
  BY <1>24, <1>0 DEF WorkerLogThrows, Terminate
<1>25. ASSUME NEW t \in Threads, HolderDies(t) PROVE JoinedWorkerIsGone'
  BY <1>25, <1>0 DEF HolderDies
<1>26. QED
  BY <1>0, <1>1, <1>2, <1>3, <1>4, <1>5, <1>6, <1>7, <1>8, <1>9, <1>10, <1>11, <1>12, <1>13,
     <1>14, <1>15, <1>16, <1>17, <1>18, <1>19, <1>20, <1>21, <1>22, <1>23, <1>24, <1>25
     DEF Next, PushStep, DrainStep, ShutdownStep, WorkerStep

StaysDelivering(u) ==
  pc[u] = "drainDeliver" => DrainDeliver(u) \/ (pc'[u] = "drainDeliver" /\ held'[u] = held[u])

\* A drain() that is delivering stays there until its delivery ends.
LEMMA DelivererStays ==
  ASSUME Inv, [Next]_vars
  PROVE  \A u \in Threads : StaysDelivering(u)
<1> USE DEF StaysDelivering, Inv, TypeOK, DeliveriesOK, ThreadsOK, PcInv, Goto, At, deliveries,
   WorkerPcs
<1>0. Worker \in Threads /\ Callers \subseteq Threads
  BY DEF Threads
<1>1. CASE UNCHANGED vars
  BY <1>1 DEF vars
<1>2. ASSUME NEW t \in Threads, PushBegin(t) PROVE \A u \in Threads : StaysDelivering(u)
  BY <1>2, <1>0 DEF PushBegin
<1>3. ASSUME NEW t \in Threads, PushLocked(t) PROVE \A u \in Threads : StaysDelivering(u)
  BY <1>3, <1>0 DEF PushLocked
<1>4. ASSUME NEW t \in Threads, PushFull(t) PROVE \A u \in Threads : StaysDelivering(u)
  BY <1>4, <1>0 DEF PushFull, AfterPush
<1>5. ASSUME NEW t \in Threads, EnsureWorkerStarted(t) PROVE \A u \in Threads : StaysDelivering(u)
  BY <1>5, <1>0 DEF EnsureWorkerStarted, AfterPush
<1>6. ASSUME NEW t \in Threads, Notify(t) PROVE \A u \in Threads : StaysDelivering(u)
  BY <1>6, <1>0 DEF Notify, Wake, AfterPush
<1>7. ASSUME NEW t \in Threads, DrainBegin(t) PROVE \A u \in Threads : StaysDelivering(u)
  BY <1>7, <1>0 DEF DrainBegin
<1>8. ASSUME NEW t \in Threads, Expire(t) PROVE \A u \in Threads : StaysDelivering(u)
  BY <1>8, <1>0 DEF Expire
<1>9. ASSUME NEW t \in Threads, DrainGiveUp(t) PROVE \A u \in Threads : StaysDelivering(u)
  BY <1>9, <1>0 DEF DrainGiveUp, DrainReturn
<1>10. ASSUME NEW t \in Threads, DrainLocked(t) PROVE \A u \in Threads : StaysDelivering(u)
  BY <1>10, <1>0 DEF DrainLocked, DrainReturn, Take
<1>11. ASSUME NEW t \in Threads, DrainDeliver(t) PROVE \A u \in Threads : StaysDelivering(u)
  BY <1>11, <1>0 DEF DrainDeliver, DrainReturn, Settle
<1>12. ASSUME NEW t \in Threads, DrainAwait(t) PROVE \A u \in Threads : StaysDelivering(u)
  BY <1>12, <1>0 DEF DrainAwait, DrainReturn
<1>13. CASE WorkerCheck
  BY <1>13, <1>0 DEF WorkerCheck, Take
<1>14. CASE SpuriousWakeup
  BY <1>14, <1>0 DEF SpuriousWakeup
<1>15. CASE WorkerDeliver
  BY <1>15, <1>0 DEF WorkerDeliver, Settle
<1>16. CASE WorkerFinish
  BY <1>16, <1>0 DEF WorkerFinish
<1>17. CASE WorkerLog
  BY <1>17, <1>0 DEF WorkerLog
<1>18. ASSUME NEW t \in Threads, ShutdownBegin(t) PROVE \A u \in Threads : StaysDelivering(u)
  BY <1>18, <1>0 DEF ShutdownBegin
<1>19. ASSUME NEW t \in Threads, Stop(t) PROVE \A u \in Threads : StaysDelivering(u)
  BY <1>19, <1>0 DEF Stop
<1>20. ASSUME NEW t \in Threads, NotifyAll(t) PROVE \A u \in Threads : StaysDelivering(u)
  BY <1>20, <1>0 DEF NotifyAll, Wake
<1>21. ASSUME NEW t \in Threads, Join(t) PROVE \A u \in Threads : StaysDelivering(u)
  BY <1>21, <1>0 DEF Join
<1>22. ASSUME NEW t \in Threads, CallerCrashes(t) PROVE \A u \in Threads : StaysDelivering(u)
  BY <1>22, <1>0 DEF CallerCrashes, Terminate
<1>23. CASE WorkerCrashes
  BY <1>23, <1>0 DEF WorkerCrashes, Terminate, Settle
<1>24. CASE WorkerLogThrows
  BY <1>24, <1>0 DEF WorkerLogThrows, Terminate
<1>25. ASSUME NEW t \in Threads, HolderDies(t) PROVE \A u \in Threads : StaysDelivering(u)
  BY <1>25, <1>0 DEF HolderDies
<1>26. QED
  BY <1>0, <1>1, <1>2, <1>3, <1>4, <1>5, <1>6, <1>7, <1>8, <1>9, <1>10, <1>11, <1>12, <1>13,
     <1>14, <1>15, <1>16, <1>17, <1>18, <1>19, <1>20, <1>21, <1>22, <1>23, <1>24, <1>25
     DEF Next, PushStep, DrainStep, ShutdownStep, WorkerStep

StaysTrue(u) ==
  ret'[u] = "true" => DrainAwait(u) \/ (ret[u] = "true" /\ before'[u] = before[u])

\* Only DrainAwait makes a drain() return true.
LEMMA TrueStays ==
  ASSUME Inv, [Next]_vars
  PROVE  \A u \in Threads : StaysTrue(u)
<1> USE DEF StaysTrue, Inv, TypeOK, ThreadsOK, results
<1>0. Worker \in Threads /\ Callers \subseteq Threads
  BY DEF Threads
<1>1. CASE UNCHANGED vars
  BY <1>1 DEF vars
<1>2. ASSUME NEW t \in Threads, PushBegin(t) PROVE \A u \in Threads : StaysTrue(u)
  BY <1>2, <1>0 DEF PushBegin
<1>3. ASSUME NEW t \in Threads, PushLocked(t) PROVE \A u \in Threads : StaysTrue(u)
  BY <1>3, <1>0 DEF PushLocked
<1>4. ASSUME NEW t \in Threads, PushFull(t) PROVE \A u \in Threads : StaysTrue(u)
  BY <1>4, <1>0 DEF PushFull, AfterPush
<1>5. ASSUME NEW t \in Threads, EnsureWorkerStarted(t) PROVE \A u \in Threads : StaysTrue(u)
  BY <1>5, <1>0 DEF EnsureWorkerStarted, AfterPush
<1>6. ASSUME NEW t \in Threads, Notify(t) PROVE \A u \in Threads : StaysTrue(u)
  BY <1>6, <1>0 DEF Notify, Wake, AfterPush
<1>7. ASSUME NEW t \in Threads, DrainBegin(t) PROVE \A u \in Threads : StaysTrue(u)
  BY <1>7, <1>0 DEF DrainBegin
<1>8. ASSUME NEW t \in Threads, Expire(t) PROVE \A u \in Threads : StaysTrue(u)
  BY <1>8, <1>0 DEF Expire
<1>9. ASSUME NEW t \in Threads, DrainGiveUp(t) PROVE \A u \in Threads : StaysTrue(u)
  BY <1>9, <1>0 DEF DrainGiveUp, DrainReturn
<1>10. ASSUME NEW t \in Threads, DrainLocked(t) PROVE \A u \in Threads : StaysTrue(u)
  BY <1>10, <1>0 DEF DrainLocked, DrainReturn
<1>11. ASSUME NEW t \in Threads, DrainDeliver(t) PROVE \A u \in Threads : StaysTrue(u)
  BY <1>11, <1>0 DEF DrainDeliver, DrainReturn
<1>12. ASSUME NEW t \in Threads, DrainAwait(t) PROVE \A u \in Threads : StaysTrue(u)
  BY <1>12, <1>0 DEF DrainAwait, DrainReturn
<1>13. CASE WorkerCheck
  BY <1>13, <1>0 DEF WorkerCheck
<1>14. CASE SpuriousWakeup
  BY <1>14, <1>0 DEF SpuriousWakeup
<1>15. CASE WorkerDeliver
  BY <1>15, <1>0 DEF WorkerDeliver
<1>16. CASE WorkerFinish
  BY <1>16, <1>0 DEF WorkerFinish
<1>17. CASE WorkerLog
  BY <1>17, <1>0 DEF WorkerLog
<1>18. ASSUME NEW t \in Threads, ShutdownBegin(t) PROVE \A u \in Threads : StaysTrue(u)
  BY <1>18, <1>0 DEF ShutdownBegin
<1>19. ASSUME NEW t \in Threads, Stop(t) PROVE \A u \in Threads : StaysTrue(u)
  BY <1>19, <1>0 DEF Stop
<1>20. ASSUME NEW t \in Threads, NotifyAll(t) PROVE \A u \in Threads : StaysTrue(u)
  BY <1>20, <1>0 DEF NotifyAll, Wake
<1>21. ASSUME NEW t \in Threads, Join(t) PROVE \A u \in Threads : StaysTrue(u)
  BY <1>21, <1>0 DEF Join
<1>22. ASSUME NEW t \in Threads, CallerCrashes(t) PROVE \A u \in Threads : StaysTrue(u)
  BY <1>22, <1>0 DEF CallerCrashes, Terminate
<1>23. CASE WorkerCrashes
  BY <1>23, <1>0 DEF WorkerCrashes, Terminate
<1>24. CASE WorkerLogThrows
  BY <1>24, <1>0 DEF WorkerLogThrows, Terminate
<1>25. ASSUME NEW t \in Threads, HolderDies(t) PROVE \A u \in Threads : StaysTrue(u)
  BY <1>25, <1>0 DEF HolderDies
<1>26. QED
  BY <1>0, <1>1, <1>2, <1>3, <1>4, <1>5, <1>6, <1>7, <1>8, <1>9, <1>10, <1>11, <1>12, <1>13,
     <1>14, <1>15, <1>16, <1>17, <1>18, <1>19, <1>20, <1>21, <1>22, <1>23, <1>24, <1>25
     DEF Next, PushStep, DrainStep, ShutdownStep, WorkerStep

\* drain() returns true only when nothing queued before it is left behind.
LEMMA StepDrainTrue == ASSUME Inv, [Next]_vars PROVE DrainTrueMeansAttempted'
<1> SUFFICES ASSUME NEW t \in Threads, ret'[t] = "true", NEW p \in 1..before'[t]
             PROVE  Settled(p)' \/ HeldByDrain(p)'
  BY DEF DrainTrueMeansAttempted
<1>1. /\ outcome \in Seq(Outcomes) /\ outcome' \in Seq(Outcomes) /\ held \in [Threads -> Nat]
      /\ DOMAIN outcome = 1..Len(outcome) /\ DOMAIN outcome' = 1..Len(outcome')
      /\ \A u \in Threads : before[u] \in Nat
  BY StepDeliveriesOK, LenProperties DEF Inv, TypeOK, DeliveriesOK, ThreadsOK
<1>2. ASSUME Settled(p) PROVE Settled(p)'
  <2>1. p \in 1..Len(outcome) /\ outcome[p] # "none"
    BY <1>1, <1>2 DEF Settled
  <2>2. ASSUME NEW u \in Threads, Ended(u) PROVE outcome'[p] # "none"
    BY <2>1, <2>2 DEF Ended
  <2>3. outcome'[p] # "none"
    BY <2>1, <2>2, Moves DEF Unmoved, Queued, Began
  <2>4. QED
    BY <1>1, <2>1, <2>3, Growth DEF Settled
<1>3. ASSUME HeldByDrain(p) PROVE Settled(p)' \/ HeldByDrain(p)'
  <2>1. PICK u \in Threads : held[u] = p /\ pc[u] = "drainDeliver"
    BY <1>3 DEF HeldByDrain
  <2>2. CASE DrainDeliver(u)
    BY <1>1, <2>1, <2>2, DeliverEnds DEF Ended, Settled
  <2>3. CASE pc'[u] = "drainDeliver" /\ held'[u] = held[u]
    BY <2>1, <2>3 DEF HeldByDrain
  <2>4. QED
    BY <2>1, <2>2, <2>3, DelivererStays DEF StaysDelivering
<1>4. CASE ret[t] = "true" /\ before'[t] = before[t]
  BY <1>2, <1>3, <1>4 DEF Inv, DrainTrueMeansAttempted
<1>5. CASE DrainAwait(t)
  <2>1. /\ before'[t] = before[t] /\ pc[t] = "drainAwait"
        /\ t = Worker \/ inFlight = 0
    BY <1>5 DEF DrainAwait, DrainReturn, At, Inv, TypeOK, ThreadsOK
  <2>2. p \in 1..Len(taken)
    BY <1>1, <2>1, Growth DEF Inv, DrainInv
  <2>3. p \in DOMAIN outcome
    BY <1>1, <2>2, LenProperties DEF Inv, TypeOK, DeliveriesOK, Conservation, accepted
  <2>4. Settled(p) \/ \E u \in Threads : held[u] = p
    BY <2>2, <2>3 DEF Inv, FateInv, Settled
  <2>5. ASSUME NEW u \in Threads, held[u] = p PROVE pc[u] = "drainDeliver"
    <3>1. pc[u] \in {"drainDeliver", "deliver"}
      BY <2>2, <2>5 DEF Inv, PcInv
    <3>2. pc[u] # "deliver"
      BY <2>1 DEF Inv, PcInv, InFlightInv, Threads, WorkerPcs
    <3>3. QED
      BY <3>1, <3>2
  <2>6. QED
    BY <1>2, <1>3, <2>4, <2>5 DEF HeldByDrain
<1>6. QED
  BY <1>4, <1>5, TrueStays DEF StaysTrue

-----------------------------------------------------------------------------
(* Theorems *)

\* The invariant is inductive, so it holds in every reachable state.
THEOREM Invariance == Spec => []Inv
<1>1. ASSUME Inv, [Next]_vars PROVE Inv'
  BY <1>1, StepDeliveriesOK, StepCountersOK, StepFlagsOK, StepThreadsOK, StepConservation,
     StepPcInv,
     StepInFlightInv, StepHeldInv, StepFateInv, StepDrainInv, StepStopInv, StepDrainTrue,
     StepJoinedWorkerIsGone DEF Inv, TypeOK
<1>2. QED
  BY InitInv, <1>1, PTL DEF Spec

\* Type correctness of the queue's state, for any number of threads and payloads.
THEOREM TypeCorrect == Spec => []TypeOK
  BY Invariance, PTL DEF Inv

\* Payloads leave the queue in the order push() queued them, none lost and none
\* twice, however worker and drains interleave and whatever fails.
THEOREM Fifo == Spec => []Conservation
  BY Invariance, PTL DEF Inv

\* A popped payload has one holder until its delivery is over, and none after.
THEOREM SingleCustody == Spec => []Custody
<1>1. Inv => Custody
  <2> SUFFICES ASSUME Inv, NEW p \in 1..Len(taken)
               PROVE  /\ Settled(p) => \A t \in Threads : held[t] # p
                      /\ ~Settled(p) => \E t \in Threads : \A u \in Threads : held[u] = p <=> u = t
    BY DEF Custody
  <2>1. p # 0 /\ p \in DOMAIN outcome
    BY LenProperties DEF Inv, TypeOK, DeliveriesOK, Conservation, accepted
  <2>2. ASSUME Settled(p), NEW t \in Threads PROVE held[t] # p
    BY <2>1, <2>2 DEF Inv, HeldInv, Settled
  <2>3. ASSUME ~Settled(p) PROVE \E t \in Threads : \A u \in Threads : held[u] = p <=> u = t
    <3>1. PICK t \in Threads : held[t] = p
      BY <2>1, <2>3 DEF Inv, FateInv, Settled
    <3>2. QED
      BY <2>1, <3>1 DEF Inv, HeldInv
  <2>4. QED
    BY <2>2, <2>3
<1>2. QED
  BY Invariance, <1>1, PTL

\* When drain() returns true, everything queued before the call has been attempted,
\* or is in the hands of another drain().
THEOREM DrainIsComplete == Spec => []DrainTrueMeansAttempted
  BY Invariance, PTL DEF Inv

\* When the worker has left, everything queued before shutdown() has been attempted,
\* or is in the hands of a drain().
THEOREM WorkerFinishesTheQueue == Spec => []WorkerLeavesNothingQueued
<1>1. Inv => WorkerLeavesNothingQueued
  <2> SUFFICES ASSUME Inv, pc[Worker] = "exited", NEW p \in 1..stopMark
               PROVE  Settled(p) \/ HeldByDrain(p)
    BY DEF WorkerLeavesNothingQueued
  <2>1. p \in 1..Len(taken) /\ p \in DOMAIN outcome
    BY LenProperties DEF Inv, TypeOK, DeliveriesOK, CountersOK, Conservation, accepted, StopInv
  <2>2. Settled(p) \/ \E u \in Threads : held[u] = p
    BY <2>1 DEF Inv, FateInv, Settled
  <2>3. ASSUME NEW u \in Threads, held[u] = p PROVE pc[u] = "drainDeliver"
    BY <2>1, <2>3 DEF Inv, PcInv, Threads, WorkerPcs
  <2>4. QED
    BY <2>2, <2>3 DEF HeldByDrain
<1>2. QED
  BY Invariance, <1>1, PTL

\* After shutdown() has returned no worker runs and none starts.
THEOREM NoWorkerAfterShutdown == Spec => []JoinedWorkerIsGone
  BY Invariance, PTL DEF Inv

\* The queue refines Handoff: initial states and steps map to its own.
THEOREM Refinement == Spec => ImplementsHandoff
<1>1. Init => Abstract!Init
  BY DEF Init, Abstract!Init, accepted, Settled
<1>2. ASSUME Inv, [Next]_vars PROVE [Abstract!Next]_(Abstract!vars)
  <2>0. /\ Len(taken) \in Nat /\ Len(queue) \in Nat /\ Len(outcome) \in Nat
        /\ Len(taken) + Len(queue) = Len(outcome)
        /\ DOMAIN outcome = 1..Len(outcome) /\ DOMAIN outcome' = 1..Len(outcome')
    BY <1>2, StepDeliveriesOK, LenProperties DEF Inv, TypeOK, DeliveriesOK, Conservation, accepted
  <2>1. CASE Unmoved
    BY <2>1 DEF Unmoved, Abstract!vars, accepted, Settled
  <2>2. CASE Queued
    <3>1. {p \in DOMAIN outcome' : Settled(p)'} = {p \in DOMAIN outcome : Settled(p)}
      BY <2>0, <2>2 DEF Queued, Settled
    <3>2. Abstract!Accept
      BY <2>0, <2>2, <3>1 DEF Queued, Abstract!Accept, accepted
    <3>3. QED
      BY <3>2 DEF Abstract!Next
  <2>3. ASSUME NEW t \in Threads, Began(t) PROVE Abstract!Begin(t)
    BY <2>0, <2>3 DEF Began, Abstract!Begin, accepted, Settled
  <2>4. ASSUME NEW t \in Threads, Ended(t) PROVE Abstract!End(t)
    <3>1. {p \in DOMAIN outcome' : Settled(p)'} = {p \in DOMAIN outcome : Settled(p)} \cup {held[t]}
      BY <2>0, <2>4 DEF Ended, Settled
    <3>2. QED
      BY <2>0, <2>4, <3>1 DEF Ended, Abstract!End, accepted
  <2>5. QED
    BY <1>2, <2>1, <2>2, <2>3, <2>4, Moves DEF Abstract!Next
<1>3. QED
  BY Invariance, <1>1, <1>2, PTL DEF Spec, ImplementsHandoff, Abstract!Spec

=============================================================================
