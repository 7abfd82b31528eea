--------------------------- MODULE Lifecycle_proofs ---------------------------
(***************************************************************************)
(* Theorems about Lifecycle, for every set of threads, number of objects,  *)
(* calls and resets, and set of faults.                                    *)
(***************************************************************************)
EXTENDS Lifecycle, SequenceTheorems, TLAPS

Passive == {"reporter", "config"}  \* objects that hold no queue, buffer or worker

-----------------------------------------------------------------------------
(* The invariant *)

\* One object: its worker runs only before shutdown() and leaves only then, and what
\* waits after it came too late or could not be sent.
ObjectOK(o) ==
  /\ o.worker = "running" => o.live /\ ~o.stopped
  /\ o.worker = "left" => o.stopped
  /\ ~o.live => o.stopped
  /\ o.of \in Buffers /\ ~o.live => o.waiting = {} \/ o.refused
  /\ o.of \in Queues /\ o.stopped => o.waiting \subseteq o.late \/ o.worker = "failed"
  /\ o.of \in Passive => o.worker = "off"

\* A global that is set points at the live object of its kind, the only one.
SlotInv ==
  /\ \A c \in Globals : g[c] # 0 => objects[g[c]].of = c
  /\ \A i \in DOMAIN objects : objects[i].live => g[objects[i].of] = i

\* What waits before any worker was started is of calls that are about to start one.
HeldInv ==
  \A i \in DOMAIN objects : objects[i].worker = "off" /\ ~objects[i].stopped =>
    \A n \in objects[i].waiting :
      \E t \in Threads : pc[t] = "start" /\ ref[t] = i /\ call[t] = n

\* The infrastructure buffer is built right after the metric buffer, and a reset ends both.
PairInv == phase # "reset" /\ g["infrastructure"] # 0 => g["metric"] # 0

InCalls == {"build", "buildNext", "enter", "inside", "start"}
Pushing == {"inside", "start"}

CallInv ==
  /\ \A t \in Threads : pc[t] \in InCalls => target[t] # "config"
  /\ \A t \in Threads : pc[t] \notin {"idle", "config"} => g["config"] # 0
  /\ \A t \in Threads : pc[t] = "buildNext" => hooked
  /\ \A t \in Threads : pc[t] = "buildNext" /\ target[t] # "reporter" => g["metric"] # 0
  /\ \A t \in Threads : ~raced /\ pc[t] \in Pushing =>
       ref[t] # 0 /\ objects[ref[t]].of \notin Passive

\* A worker reads a configuration that exists; before the hook is registered there is
\* nothing but configurations.
WorkerInv ==
  /\ \A i \in DOMAIN objects : objects[i].worker = "running" => g["config"] # 0
  /\ ~hooked => \A i \in DOMAIN objects : objects[i].of = "config"

\* How far each phase may be; during destruction nobody is in a call, and the globals
\* passed are null.
PhaseInv ==
  /\ phase = "running" => step = 0
  /\ phase = "hook" => step \in 1..6
  /\ phase = "hooked" => step = 1
  /\ phase \in {"statics", "reset"} => step \in 1..8
  /\ phase = "over" => step = 9
  /\ phase \in {"statics", "over", "reset"} => \A t \in Threads : pc[t] = "idle"
  /\ phase \in {"statics", "over"} => \A k \in 1..(step - 1) : g[StaticsOrder[k]] = 0
  /\ phase = "reset" => \A k \in 1..(step - 1) : g[ResetOrder[k]] = 0

\* What the hook has shut down so far; all of it when it ran to its end.
Passed ==
  IF phase = "hook" THEN {HookOrder[k] : k \in 1..(step - 1)}
  ELSE IF phase \in {"hooked", "statics"} /\ ~skipped THEN {HookOrder[k] : k \in 1..6}
  ELSE {}

HookInv ==
  \A i \in DOMAIN objects :
    objects[i].of \in Passed /\ objects[i].born \notin {"hook", "hooked"} => objects[i].stopped

Inv ==
  /\ TypeOK /\ SlotInv /\ HeldInv /\ PairInv /\ CallInv /\ WorkerInv /\ PhaseInv /\ HookInv
  /\ \A i \in DOMAIN objects : ObjectOK(objects[i])

-----------------------------------------------------------------------------
(* One object *)

Capturing == \E t \in Threads : Capture(t)

\* What becomes of an object from one state to the next.
Continues(o, n) ==
  /\ n \in Objects /\ ObjectOK(n)
  /\ n.of = o.of /\ n.born = o.born
  /\ n.live => o.live
  /\ o.stopped => n.stopped
  /\ n.worker = "running" => o.worker = "running" \/ g["config"] # 0
  /\ n.worker = "off" /\ ~n.stopped =>
       o.worker = "off" /\ ~o.stopped /\ (n.waiting = o.waiting \/ Capturing)

\* Where no worker was ever started, shutdown() overtakes whatever waits.
Covered(o) == o.worker = "off" /\ ~o.stopped => o.waiting \subseteq Unfinished

Delivered(o, flushed) == IF o.of \in Buffers THEN flushed ELSE o.worker = "running"
WorkerLeft(o) == IF o.worker = "running" THEN "left" ELSE o.worker
LateAfter(o, flushed) ==
  IF o.stopped \/ Delivered(o, flushed) THEN o.late ELSE o.waiting \cap Unfinished
WaitingAfter(o, flushed) == IF Delivered(o, flushed) THEN {} ELSE o.waiting
RefusedAfter(o, flushed) == o.of \in Buffers /\ ~flushed /\ o.waiting # {}

LEMMA ShutdownIs ==
  ASSUME NEW o \in Objects, NEW flushed
  PROVE  Shutdown(o, flushed) =
           [of |-> o.of, live |-> o.live, worker |-> WorkerLeft(o), stopped |-> TRUE,
            waiting |-> WaitingAfter(o, flushed), late |-> LateAfter(o, flushed),
            refused |-> RefusedAfter(o, flushed), born |-> o.born]
<1> DEFINE worker == WorkerLeft(o)
           waiting == WaitingAfter(o, flushed)
           late == LateAfter(o, flushed)
           refused == RefusedAfter(o, flushed)
<1>1. Shutdown(o, flushed) =
        [o EXCEPT !.stopped = TRUE, !.late = late, !.worker = worker, !.waiting = waiting,
                  !.refused = refused]
  BY DEF Shutdown, Delivered, WorkerLeft, LateAfter, WaitingAfter, RefusedAfter
<1>2. o = [of |-> o.of, live |-> o.live, worker |-> o.worker, stopped |-> o.stopped,
           waiting |-> o.waiting, late |-> o.late, refused |-> o.refused, born |-> o.born]
  BY DEF Objects
<1>3. QED
  BY <1>1, <1>2, Zenon

LEMMA ShutdownFields ==
  ASSUME NEW o \in Objects, NEW flushed \in BOOLEAN
  PROVE  /\ WorkerLeft(o) \in {"off", "failed", "left"}
         /\ WaitingAfter(o, flushed) \in SUBSET Nat /\ LateAfter(o, flushed) \in SUBSET Nat
         /\ RefusedAfter(o, flushed) \in BOOLEAN
  BY DEF Objects, WorkerLeft, WaitingAfter, LateAfter, RefusedAfter

\* A shut down object, live or not, keeps to ObjectOK.
LEMMA ShutIsOK ==
  ASSUME NEW o \in Objects, ObjectOK(o), Covered(o), NEW flushed \in BOOLEAN, NEW live \in BOOLEAN,
         NEW n, n = [of |-> o.of, live |-> live, worker |-> WorkerLeft(o), stopped |-> TRUE,
                     waiting |-> WaitingAfter(o, flushed), late |-> LateAfter(o, flushed),
                     refused |-> RefusedAfter(o, flushed), born |-> o.born]
  PROVE  n \in Objects /\ ObjectOK(n)
<1>1. /\ n.of = o.of /\ n.live = live /\ n.worker = WorkerLeft(o) /\ n.stopped = TRUE
      /\ n.waiting = WaitingAfter(o, flushed) /\ n.late = LateAfter(o, flushed)
      /\ n.refused = RefusedAfter(o, flushed)
  OBVIOUS
<1>2. n \in Objects
  BY ShutdownFields DEF Objects
<1>3. o.of \in Buffers => WaitingAfter(o, flushed) = {} \/ RefusedAfter(o, flushed)
  BY DEF WaitingAfter, RefusedAfter, Delivered
<1>4. o.of \in Queues =>
        WaitingAfter(o, flushed) \subseteq LateAfter(o, flushed) \/ WorkerLeft(o) = "failed"
  <2>1. o.of \in Queues => o.of \notin Buffers
    BY DEF Queues, Buffers
  <2>2. o.worker \in {"off", "running", "failed", "left"}
    BY DEF Objects
  <2>3. CASE o.stopped
    BY <2>1, <2>3 DEF ObjectOK, WaitingAfter, LateAfter, WorkerLeft, Delivered
  <2>4. CASE ~o.stopped
    BY <2>1, <2>2, <2>4 DEF ObjectOK, Covered, WaitingAfter, LateAfter, WorkerLeft, Delivered
  <2>5. QED
    BY <2>3, <2>4 DEF Objects
<1>5. o.of \in Passive => WorkerLeft(o) = "off"
  BY DEF ObjectOK, WorkerLeft
<1>6. WorkerLeft(o) # "running"
  BY ShutdownFields
<1>7. ObjectOK(n)
  <2> HIDE DEF WorkerLeft, WaitingAfter, LateAfter, RefusedAfter
  <2>1. QED
    BY <1>1, <1>3, <1>4, <1>5, <1>6 DEF ObjectOK
<1>8. QED
  BY <1>2, <1>7

LEMMA ShutdownContinues ==
  ASSUME NEW o \in Objects, ObjectOK(o), Covered(o), NEW flushed \in BOOLEAN
  PROVE  Continues(o, Shutdown(o, flushed)) /\ Shutdown(o, flushed).stopped
<1> DEFINE n == Shutdown(o, flushed)
<1>1. o.live \in BOOLEAN
  BY DEF Objects
<1>2. n \in Objects /\ ObjectOK(n)
  BY <1>1, ShutdownIs, ShutIsOK
<1>3. n.of = o.of /\ n.born = o.born /\ n.live = o.live /\ n.stopped = TRUE /\ n.worker = WorkerLeft(o)
  BY ShutdownIs
<1>4. WorkerLeft(o) # "running"
  BY ShutdownFields
<1> HIDE DEF n
<1>5. Continues(o, n) /\ n.stopped
  BY <1>2, <1>3, <1>4 DEF Continues
<1>6. QED
  BY <1>5 DEF n

LEMMA DestroyContinues ==
  ASSUME NEW o \in Objects, ObjectOK(o), Covered(o), NEW flushed \in BOOLEAN
  PROVE  Continues(o, Destroy(o, flushed)) /\ ~Destroy(o, flushed).live
<1> DEFINE n == Destroy(o, flushed)
           w == WaitingAfter(o, flushed)
           l == LateAfter(o, flushed)
           r == RefusedAfter(o, flushed)
           k == WorkerLeft(o)
           s == Shutdown(o, flushed)
<1>1. n = [s EXCEPT !.live = FALSE]
  BY DEF Destroy
<1>2. s =
        [of |-> o.of, live |-> o.live, worker |-> k, stopped |-> TRUE, waiting |-> w, late |-> l,
         refused |-> r, born |-> o.born]
  BY ShutdownIs
<1> HIDE DEF n, w, l, r, k, s
<1>3. n = [of |-> o.of, live |-> FALSE, worker |-> k, stopped |-> TRUE, waiting |-> w, late |-> l,
           refused |-> r, born |-> o.born]
  BY <1>1, <1>2
<1>4. n \in Objects /\ ObjectOK(n)
  BY <1>3, ShutIsOK DEF w, l, r, k
<1>5. n.of = o.of /\ n.born = o.born /\ n.live = FALSE /\ n.stopped = TRUE /\ n.worker # "running"
  BY <1>3, ShutdownFields DEF k
<1>6. Continues(o, n) /\ ~n.live
  BY <1>4, <1>5 DEF Continues
<1>7. QED
  BY <1>6 DEF n

LEMMA DiscardOK ==
  ASSUME NEW o \in Objects, ObjectOK(o)
  PROVE  /\ Discard(o) \in Objects /\ ObjectOK(Discard(o)) /\ Covered(Discard(o))
         /\ Discard(o).of = o.of /\ Discard(o).born = o.born
         /\ Discard(o).live = o.live /\ Discard(o).stopped
<1> DEFINE n == Discard(o)
           r == RefusedAfter(o, TRUE)
           k == WorkerLeft(o)
           w == WaitingAfter(o, TRUE)
           l == LateAfter(o, TRUE)
           s == Shutdown(o, TRUE)
<1>1. n = [s EXCEPT !.waiting = {}, !.late = {}]
  BY DEF Discard
<1>2. s =
        [of |-> o.of, live |-> o.live, worker |-> k, stopped |-> TRUE, waiting |-> w, late |-> l,
         refused |-> r, born |-> o.born]
  BY ShutdownIs
<1>4. k \in {"off", "failed", "left"} /\ r \in BOOLEAN /\ (o.of \in Passive => k = "off")
  BY ShutdownFields DEF ObjectOK, WorkerLeft
<1> HIDE DEF n, w, l, r, k, s
<1>3. n = [of |-> o.of, live |-> o.live, worker |-> k, stopped |-> TRUE, waiting |-> {},
           late |-> {}, refused |-> r, born |-> o.born]
  BY <1>1, <1>2
<1>5. n \in Objects
  BY <1>3, <1>4 DEF Objects
<1>6. ObjectOK(n) /\ Covered(n)
  BY <1>3, <1>4 DEF ObjectOK, Covered
<1>7. QED
  BY <1>3, <1>5, <1>6 DEF n

LEMMA DiscardContinues ==
  ASSUME NEW o \in Objects, ObjectOK(o)
  PROVE  Continues(o, Destroy(Discard(o), TRUE)) /\ ~Destroy(Discard(o), TRUE).live
<1> DEFINE d == Discard(o)
           n == Destroy(d, TRUE)
<1>1. /\ d \in Objects /\ ObjectOK(d) /\ Covered(d) /\ d.of = o.of /\ d.born = o.born
      /\ d.live = o.live /\ d.stopped
  BY DiscardOK
<1> HIDE DEF d
<1>2. Continues(d, n) /\ ~n.live
  BY <1>1, DestroyContinues
<1> HIDE DEF n
<1>3. ~n.live /\ n.stopped /\ n.worker # "running" /\ n \in Objects /\ ObjectOK(n)
      /\ n.of = o.of /\ n.born = o.born
  BY <1>1, <1>2 DEF Continues, ObjectOK
<1>4. Continues(o, n)
  BY <1>3 DEF Continues
<1>5. QED
  BY <1>2, <1>4 DEF d, n

LEMMA AppendedContinues ==
  ASSUME NEW o \in Objects, ObjectOK(o), o.live, NEW k \in Nat, Capturing
  PROVE  Continues(o, Appended(o, k))
<1> DEFINE late == IF o.stopped THEN o.late \cup {k} ELSE o.late
           waiting == o.waiting \cup {k}
           n == Appended(o, k)
<1>1. /\ o.waiting \in SUBSET Nat /\ o.late \in SUBSET Nat /\ o.of \in Globals /\ o.born \in Phases
      /\ o.stopped \in BOOLEAN /\ o.live \in BOOLEAN /\ o.refused \in BOOLEAN
      /\ o.worker \in {"off", "running", "failed", "left"}
  BY DEF Objects
<1>2. n = [o EXCEPT !.waiting = waiting, !.late = late]
  BY DEF Appended
<1>3. /\ late \in SUBSET Nat /\ waiting \in SUBSET Nat
      /\ o.stopped /\ o.waiting \subseteq o.late => waiting \subseteq late
  BY <1>1
<1> HIDE DEF late, waiting, n
<1>4. n = [of |-> o.of, live |-> o.live, worker |-> o.worker, stopped |-> o.stopped,
           waiting |-> waiting, late |-> late, refused |-> o.refused, born |-> o.born]
  BY <1>2 DEF Objects
<1>5. n \in Objects
  BY <1>1, <1>3, <1>4 DEF Objects
<1>6. ObjectOK(n)
  BY <1>1, <1>3, <1>4 DEF ObjectOK
<1>7. Continues(o, n)
  BY <1>1, <1>4, <1>5, <1>6 DEF Continues
<1>8. QED
  BY <1>7 DEF n

LEMMA StartedContinues ==
  ASSUME NEW o \in Objects, ObjectOK(o), o.live, o.of \notin Passive, g["config"] # 0,
         NEW failed \in BOOLEAN
  PROVE  /\ Continues(o, Started(o, failed))
         /\ Started(o, failed).stopped \/ Started(o, failed).worker # "off"
<1> DEFINE worker == IF o.worker = "off" /\ ~o.stopped
                     THEN IF failed THEN "failed" ELSE "running" ELSE o.worker
           n == Started(o, failed)
<1>1. /\ o.stopped \in BOOLEAN /\ o.live \in BOOLEAN
      /\ o.worker \in {"off", "running", "failed", "left"}
  BY DEF Objects
<1>2. n = [o EXCEPT !.worker = worker]
  BY DEF Started
<1>3. /\ worker \in {"off", "running", "failed", "left"} /\ (o.stopped => worker = o.worker)
      /\ (o.stopped \/ worker # "off") /\ (worker = "left" => o.worker = "left")
      /\ worker = "failed" \/ worker = "running" \/ worker = o.worker
      /\ worker = "running" => o.worker = "running" \/ ~o.stopped
  BY <1>1
<1> HIDE DEF worker, n
<1>4. n = [of |-> o.of, live |-> o.live, worker |-> worker, stopped |-> o.stopped,
           waiting |-> o.waiting, late |-> o.late, refused |-> o.refused, born |-> o.born]
  BY <1>2 DEF Objects
<1>5. n \in Objects
  BY <1>3, <1>4 DEF Objects
<1>6. ObjectOK(n)
  BY <1>1, <1>3, <1>4 DEF ObjectOK
<1>7. Continues(o, n) /\ (n.stopped \/ n.worker # "off")
  BY <1>1, <1>3, <1>4, <1>5, <1>6 DEF Continues
<1>8. QED
  BY <1>7 DEF n

LEMMA WorkContinues ==
  ASSUME NEW o \in Objects, ObjectOK(o), o.worker = "running"
  PROVE  Continues(o, [o EXCEPT !.waiting = {}])
  BY DEF Objects, ObjectOK, Continues, Buffers, Queues, Passive, Globals

LEMMA SameContinues ==
  ASSUME NEW o \in Objects, ObjectOK(o) PROVE Continues(o, o)
  BY DEF Continues

LEMMA NewIsOK ==
  ASSUME NEW c \in Globals, phase \in Phases PROVE New(c) \in Objects /\ ObjectOK(New(c))
  BY DEF New, Objects, ObjectOK

-----------------------------------------------------------------------------
(* The orders *)

LEMMA HookOrderIs ==
  /\ Len(HookOrder) = 6 /\ DOMAIN HookOrder = 1..6
  /\ HookOrder[2] = "metric" /\ HookOrder[3] = "infrastructure"
  /\ \A k \in 1..6 : HookOrder[k] = "metric" => k = 2
  /\ {HookOrder[k] : k \in 1..6} = Buffers \cup Queues
  /\ \A k \in 1..6 : HookOrder[k] \in Globals
<1>1. \A k \in 1..6 : k = 1 \/ k = 2 \/ k = 3 \/ k = 4 \/ k = 5 \/ k = 6
  OBVIOUS
<1>2. QED
  BY <1>1 DEF HookOrder, Buffers, Queues, Globals

LEMMA StaticsOrderIs ==
  /\ Len(StaticsOrder) = 8
  /\ \A k \in 1..8 : StaticsOrder[k] \in Globals /\ (StaticsOrder[k] = "config" => k = 8)
  /\ \A c \in Globals : \E k \in 1..8 : StaticsOrder[k] = c
<1>1. \A k \in 1..8 : k = 1 \/ k = 2 \/ k = 3 \/ k = 4 \/ k = 5 \/ k = 6 \/ k = 7 \/ k = 8
  OBVIOUS
<1>2. QED
  BY <1>1 DEF StaticsOrder, Buffers, Queues, Globals

LEMMA ResetOrderIs ==
  /\ Len(ResetOrder) = 8
  /\ \A k \in 1..8 : ResetOrder[k] \in Globals /\ (ResetOrder[k] = "config" => k = 8)
  /\ \A c \in Globals : \E k \in 1..8 : ResetOrder[k] = c
<1>1. \A k \in 1..8 : k = 1 \/ k = 2 \/ k = 3 \/ k = 4 \/ k = 5 \/ k = 6 \/ k = 7 \/ k = 8
  OBVIOUS
<1>2. QED
  BY <1>1 DEF ResetOrder, Buffers, Queues, Globals

-----------------------------------------------------------------------------
(* What a step can do to the objects and the globals *)

Changed(i, n) ==
  /\ i \in DOMAIN objects /\ Continues(objects[i], n)
  /\ objects' = [objects EXCEPT ![i] = n]

Ended(c) ==
  /\ g' = [g EXCEPT ![c] = 0]
  /\ \/ g[c] = 0 /\ UNCHANGED objects
     \/ \E n : Changed(g[c], n) /\ ~n.live

Effect ==
  \/ UNCHANGED <<g, objects>>
  \/ \E c \in Globals : Assign(c)
  \/ UNCHANGED g /\ \E i, n : Changed(i, n)
  \/ \E c \in Globals : Ended(c)

LEMMA Facts ==
  ASSUME Inv
  PROVE  /\ Len(objects) \in Nat /\ DOMAIN objects = 1..Len(objects)
         /\ objects \in [1..Len(objects) -> Objects]
         /\ \A i \in DOMAIN objects :
              objects[i] \in Objects /\ ObjectOK(objects[i]) /\ Covered(objects[i])
         /\ g \in [Globals -> 0..Len(objects)]
         /\ \A c \in Globals : g[c] # 0 => g[c] \in DOMAIN objects
         /\ "config" \in Globals /\ phase \in Phases /\ Flushes \subseteq BOOLEAN
<1>1. \A i \in DOMAIN objects : Covered(objects[i])
  BY DEF Inv, HeldInv, Covered, Unfinished
<1>2. Flushes \subseteq BOOLEAN
  BY DEF Flushes
<1>3. QED
  BY <1>1, <1>2, LenProperties, ElementOfSeq DEF Inv, TypeOK, Globals

LEMMA Effects == ASSUME Inv, [Next]_vars PROVE Effect
<1> USE DEF Effect
<1>1. CASE UNCHANGED vars
  BY <1>1 DEF vars
<1>2. ASSUME NEW t \in Threads,
             CallBegin(t) \/ Initialize(t) \/ Test(t) \/ Enter(t)
      PROVE  UNCHANGED <<g, objects>>
  BY <1>2 DEF CallBegin, Initialize, Test, Enter
<1>3. ASSUME NEW t \in Threads, BuildConfiguration(t) \/ Build(t) \/ BuildNext(t)
      PROVE  \E c \in Globals : Assign(c)
  <2>1. target[t] \in Globals
    BY DEF Inv, TypeOK
  <2>2. First(target[t]) \in Globals
    BY <2>1 DEF First, Globals, Queues, Buffers
  <2>3. CASE BuildConfiguration(t)
    BY <2>3 DEF BuildConfiguration, Globals
  <2>4. CASE Build(t)
    BY <2>2, <2>4 DEF Build
  <2>5. CASE BuildNext(t)
    <3>1. "reporter" \in Globals /\ "infrastructure" \in Globals
      BY DEF Globals, Buffers
    <3>2. QED
      BY <2>5, <3>1 DEF BuildNext
  <2>6. QED
    BY <1>3, <2>3, <2>4, <2>5
<1>4. ASSUME NEW t \in Threads, Capture(t) \/ StartWorker(t) PROVE Effect
  <2>1. /\ ref[t] \in DOMAIN objects /\ objects[ref[t]].of \notin Passive /\ g["config"] # 0
        /\ call[t] \in Nat
    <3>1. pc[t] \in Pushing /\ ~raced /\ pc[t] \notin {"idle", "config"}
      BY <1>4 DEF Capture, StartWorker, At, Pushing
    <3>2. ref[t] \in 0..Len(objects) /\ ref[t] # 0 /\ call[t] \in Nat
      BY <3>1 DEF Inv, CallInv, TypeOK
    <3>3. ref[t] \in DOMAIN objects
      BY <3>2, Facts
    <3>4. QED
      BY <3>1, <3>2, <3>3 DEF Inv, CallInv
  <2>2. CASE UNCHANGED objects
    BY <1>4, <2>2 DEF Capture, StartWorker
  <2>3. CASE Capture(t) /\ ~UNCHANGED objects
    <3>1. /\ objects[ref[t]].live /\ Capturing
          /\ objects' = [objects EXCEPT ![ref[t]] = Appended(@, call[t])]
      BY <2>3 DEF Capture, Capturing
    <3>2. Continues(objects[ref[t]], Appended(objects[ref[t]], call[t]))
      BY <2>1, <3>1, Facts, AppendedContinues
    <3>3. Changed(ref[t], Appended(objects[ref[t]], call[t]))
      BY <2>1, <3>1, <3>2 DEF Changed
    <3>4. QED
      BY <1>4, <3>3 DEF Capture, StartWorker
  <2>4. CASE StartWorker(t) /\ ~UNCHANGED objects
    <3>1. PICK failed \in BOOLEAN :
            objects[ref[t]].live /\ objects' = [objects EXCEPT ![ref[t]] = Started(@, failed)]
      BY <2>4 DEF StartWorker
    <3>2. Continues(objects[ref[t]], Started(objects[ref[t]], failed))
      BY <2>1, <3>1, Facts, StartedContinues
    <3>3. Changed(ref[t], Started(objects[ref[t]], failed))
      BY <2>1, <3>1, <3>2 DEF Changed
    <3>4. QED
      BY <1>4, <3>3 DEF Capture, StartWorker
  <2>5. QED
    BY <1>4, <2>2, <2>3, <2>4
<1>5. CASE Work
  <2>1. PICK i \in DOMAIN objects :
          /\ objects[i].worker = "running"
          /\ objects' = [objects EXCEPT ![i].waiting = {}]
    BY <1>5 DEF Work
  <2>2. Changed(i, [objects[i] EXCEPT !.waiting = {}])
    BY <2>1, Facts, WorkContinues DEF Changed
  <2>3. QED
    BY <1>5, <2>2 DEF Work
<1>6. CASE Exit \/ HookThrows \/ ResetBegin
  BY <1>6 DEF Exit, HookThrows, ResetBegin
<1>7. CASE HookStep
  <2>1. HookOrder[step] \in Globals
    BY <1>7, HookOrderIs DEF HookStep, Inv, PhaseInv
  <2>2. CASE UNCHANGED objects
    BY <1>7, <2>2 DEF HookStep
  <2>3. ASSUME g[HookOrder[step]] # 0, NEW flushed \in BOOLEAN,
               objects' = [objects EXCEPT ![g[HookOrder[step]]] = Shutdown(@, flushed)]
        PROVE  Effect
    <3>1. g[HookOrder[step]] \in DOMAIN objects
      BY <2>1, <2>3, Facts
    <3>2. Changed(g[HookOrder[step]], Shutdown(objects[g[HookOrder[step]]], flushed))
      BY <2>3, <3>1, Facts, ShutdownContinues DEF Changed
    <3>3. QED
      BY <1>7, <3>2 DEF HookStep
  <2>4. QED
    BY <1>7, <2>2, <2>3, Facts DEF HookStep
<1>8. CASE StaticStep
  <2>1. StaticsOrder[step] \in Globals
    BY <1>8, StaticsOrderIs DEF StaticStep, Inv, PhaseInv
  <2>2. Ended(StaticsOrder[step])
    <3>1. PICK flushed \in BOOLEAN :
            DestroyGlobal(StaticsOrder[step], Destroy(objects[g[StaticsOrder[step]]], flushed))
      BY <1>8, Facts DEF StaticStep
    <3>2. QED
      BY <2>1, <3>1, Facts, DestroyContinues DEF DestroyGlobal, Ended, Changed
  <2>3. QED
    BY <2>1, <2>2
<1>9. CASE ResetStep
  <2>1. ResetOrder[step] \in Globals
    BY <1>9, ResetOrderIs DEF ResetStep, Inv, PhaseInv
  <2>2. Ended(ResetOrder[step])
    BY <1>9, <2>1, Facts, DestroyContinues, DiscardContinues
    DEF ResetStep, DestroyGlobal, Ended, Changed
  <2>3. QED
    BY <2>1, <2>2
<1>10. QED
  BY <1>1, <1>2, <1>3, <1>4, <1>5, <1>6, <1>7, <1>8, <1>9 DEF Next

-----------------------------------------------------------------------------
(* Every step preserves the invariant: first the objects and the globals *)

\* What Assign does, by the entries of the sequence.
LEMMA AssignGrows ==
  ASSUME Inv, NEW c \in Globals, Assign(c)
  PROVE  /\ objects' \in Seq(Objects) /\ Len(objects') = Len(objects) + 1
         /\ objects'[Len(objects) + 1] = New(c)
         /\ \E flushed \in BOOLEAN : \A i \in DOMAIN objects :
              objects'[i] = IF i = g[c] THEN Destroy(objects[i], flushed) ELSE objects[i]
<1>0. PICK flushed \in BOOLEAN :
        objects' = Append([i \in DOMAIN objects |->
                             IF i = g[c] THEN Destroy(objects[i], flushed) ELSE objects[i]], New(c))
  BY Facts DEF Assign
<1> DEFINE kept == [i \in DOMAIN objects |->
                      IF i = g[c] THEN Destroy(objects[i], flushed) ELSE objects[i]]
<1>1. \A i \in DOMAIN objects : objects[i] \in Objects /\ Destroy(objects[i], flushed) \in Objects
  BY Facts, DestroyContinues DEF Continues
<1>2. kept \in [1..Len(objects) -> Objects] /\ Len(objects) \in Nat
  BY <1>1, Facts
<1>3. kept \in Seq(Objects)
  BY <1>2, SeqDef
<1>4. Len(kept) = Len(objects)
  BY <1>2, <1>3, LenProperties
<1>5. New(c) \in Objects
  BY Facts, NewIsOK
<1>6. objects' = Append(kept, New(c))
  BY <1>0
<1>7. /\ objects' \in Seq(Objects) /\ Len(objects') = Len(kept) + 1
      /\ \A i \in 1..Len(kept) : objects'[i] = kept[i]
      /\ objects'[Len(kept) + 1] = New(c)
  <2> HIDE DEF kept
  <2>1. QED
    BY <1>3, <1>5, <1>6, AppendProperties
<1>8. QED
  BY <1>2, <1>4, <1>7, Facts

LEMMA ChangedEntries ==
  ASSUME Inv, NEW i, NEW n, Changed(i, n)
  PROVE  /\ objects' \in Seq(Objects) /\ Len(objects') = Len(objects)
         /\ \A k \in DOMAIN objects : objects'[k] = IF k = i THEN n ELSE objects[k]
  BY Facts, ExceptSeq DEF Changed, Continues, Inv, TypeOK

\* Objects are only added, at the end; the others continue.
LEMMA ObjectsGrow ==
  ASSUME Inv, Effect
  PROVE  /\ objects' \in Seq(Objects) /\ Len(objects') \in Nat /\ Len(objects) <= Len(objects')
         /\ DOMAIN objects' = 1..Len(objects')
         /\ \A i \in DOMAIN objects : Continues(objects[i], objects'[i])
         /\ \A i \in DOMAIN objects' : i \notin DOMAIN objects =>
              i = Len(objects) + 1 /\ \E c \in Globals : Assign(c) /\ objects'[i] = New(c)
<1>0. objects \in Seq(Objects) /\ \A i \in DOMAIN objects : Continues(objects[i], objects[i])
  BY Facts, SameContinues DEF Inv, TypeOK
<1>1. CASE UNCHANGED objects
  BY <1>0, <1>1, Facts
<1>2. ASSUME NEW c \in Globals, Assign(c)
      PROVE  /\ objects' \in Seq(Objects) /\ Len(objects') = Len(objects) + 1
             /\ \A i \in DOMAIN objects : Continues(objects[i], objects'[i])
             /\ objects'[Len(objects) + 1] = New(c)
  BY <1>0, <1>2, Facts, AssignGrows, DestroyContinues
<1>3. ASSUME NEW i, NEW n, Changed(i, n)
      PROVE  /\ objects' \in Seq(Objects) /\ Len(objects') = Len(objects)
             /\ \A k \in DOMAIN objects : Continues(objects[k], objects'[k])
  BY <1>0, <1>3, ChangedEntries DEF Changed
<1>4. objects' \in Seq(Objects) => Len(objects') \in Nat /\ DOMAIN objects' = 1..Len(objects')
  BY LenProperties
<1>5. CASE \E c \in Globals : Assign(c)
  BY <1>2, <1>4, <1>5, Facts
<1>6. CASE \E i, n : Changed(i, n)
  BY <1>3, <1>4, <1>6, Facts
<1>7. QED
  BY <1>1, <1>5, <1>6 DEF Effect, Ended

LEMMA StepObjects ==
  ASSUME Inv, Effect
  PROVE  /\ g' \in [Globals -> 0..Len(objects')]
         /\ \A i \in DOMAIN objects' : ObjectOK(objects'[i])
         /\ SlotInv'
<1>0. /\ Len(objects) \in Nat /\ DOMAIN objects = 1..Len(objects)
      /\ g \in [Globals -> 0..Len(objects)]
      /\ \A c \in Globals : g[c] # 0 => g[c] \in DOMAIN objects /\ objects[g[c]].of = c
      /\ \A i \in DOMAIN objects :
           objects[i].of \in Globals /\ (objects[i].live => g[objects[i].of] = i)
  BY Facts DEF Inv, SlotInv, Objects
<1>1. /\ Len(objects') \in Nat /\ Len(objects) <= Len(objects') /\ DOMAIN objects' = 1..Len(objects')
      /\ \A i \in DOMAIN objects : Continues(objects[i], objects'[i])
      /\ \A i \in DOMAIN objects' : i \notin DOMAIN objects =>
           i = Len(objects) + 1 /\ \E c \in Globals : Assign(c) /\ objects'[i] = New(c)
  BY ObjectsGrow
<1>2. \A i \in DOMAIN objects' : ObjectOK(objects'[i])
  BY <1>1, Facts, NewIsOK DEF Continues
<1>3. \A i \in DOMAIN objects : objects'[i].of = objects[i].of /\ (objects'[i].live => objects[i].live)
  BY <1>1 DEF Continues
<1>4. CASE UNCHANGED g /\ Len(objects') = Len(objects)
  BY <1>0, <1>1, <1>2, <1>3, <1>4 DEF SlotInv
<1>5. ASSUME NEW c \in Globals, Assign(c)
      PROVE  g' \in [Globals -> 0..Len(objects')] /\ SlotInv'
  <2>1. /\ g' = [g EXCEPT ![c] = Len(objects) + 1] /\ Len(objects') = Len(objects) + 1
        /\ objects'[Len(objects) + 1].of = c
        /\ g[c] # 0 => ~objects'[g[c]].live
    BY <1>0, <1>5, AssignGrows, DestroyContinues, Facts DEF Assign, New
  <2>2. QED
    BY <1>0, <1>1, <1>3, <2>1 DEF SlotInv
<1>6. ASSUME NEW c \in Globals, Ended(c)
      PROVE  g' \in [Globals -> 0..Len(objects')] /\ SlotInv'
  <2>1. g' = [g EXCEPT ![c] = 0] /\ Len(objects') = Len(objects)
    BY <1>6, ChangedEntries DEF Ended
  <2>2. g[c] # 0 => ~objects'[g[c]].live
    BY <1>0, <1>6, ChangedEntries DEF Ended
  <2>3. QED
    BY <1>0, <1>1, <1>3, <2>1, <2>2 DEF SlotInv
<1>7. ASSUME UNCHANGED g, NEW i, NEW n, Changed(i, n) PROVE Len(objects') = Len(objects)
  BY <1>7, ChangedEntries
<1>8. QED
  BY <1>2, <1>4, <1>5, <1>6, <1>7, <1>0 DEF Effect

-----------------------------------------------------------------------------
(* ... then where the threads and the process stand *)

ControlOK ==
  /\ pc \in [Threads -> Places]
  /\ target \in [Threads -> Globals] /\ ref \in [Threads -> 0..Len(objects)]
  /\ call \in [Threads -> Nat]
  /\ phase \in Phases /\ step \in 0..(Len(StaticsOrder) + 1) /\ calls \in Nat /\ resets \in Nat
  /\ enabled \in BOOLEAN /\ hooked \in BOOLEAN /\ raced \in BOOLEAN /\ skipped \in BOOLEAN

\* A step in a call, and a step of the process.
CallStep(t) ==
  \/ CallBegin(t) \/ BuildConfiguration(t) \/ Initialize(t) \/ Test(t)
  \/ Build(t) \/ BuildNext(t) \/ Enter(t) \/ Capture(t) \/ StartWorker(t)

ProcessStep == Exit \/ HookStep \/ HookThrows \/ StaticStep \/ ResetBegin \/ ResetStep

LEMMA NextSteps == Next <=> (\E t \in Threads : CallStep(t)) \/ Work \/ ProcessStep
  BY DEF Next, CallStep, ProcessStep

\* Which step the process may be at.
LEMMA StepRange ==
  ASSUME Inv
  PROVE  /\ step \in Nat /\ step <= 9
         /\ phase = "running" => step = 0
         /\ phase = "hook" => step \in 1..6
         /\ phase \in {"hooked", "statics", "reset"} => step \in 1..8
  BY Facts DEF Inv, PhaseInv, Phases

\* Calls neither move the process on nor unset a global; only one thread moves.
LEMMA CallsKeep ==
  ASSUME Inv, NEW t \in Threads, CallStep(t)
  PROVE  /\ ~raced /\ UNCHANGED <<phase, step, resets, skipped>> /\ hooked' \in {hooked, TRUE}
         /\ phase \notin {"statics", "over", "reset"}
         /\ \A c \in Globals : g[c] # 0 => g'[c] # 0
         /\ \E where \in Places :
              pc' = [pc EXCEPT ![t] = where]
<1> USE DEF CallStep, CallBegin, BuildConfiguration, Initialize, Test, Build, BuildNext, Enter,
        Capture, StartWorker, Return
<1>1. UNCHANGED <<phase, step, resets, skipped>> /\ ~raced
  BY DEF At, process
<1>2. hooked' \in {hooked, TRUE}
  BY DEF process
<1>3. phase \notin {"statics", "over", "reset"}
  BY DEF At, Calling, Inv, PhaseInv
<1>4. \A c \in Globals : g[c] # 0 => g'[c] # 0
  <2>1. UNCHANGED g \/ \E c : Assign(c)
    OBVIOUS
  <2>2. ASSUME NEW c, Assign(c) PROVE \A d \in Globals : g[d] # 0 => g'[d] # 0
    <3>1. g' = [g EXCEPT ![c] = Len(objects) + 1]
      BY <2>2, Zenon DEF Assign
    <3>2. QED
      BY <3>1, Facts
  <2>3. QED
    BY <2>1, <2>2
<1>5. \E where \in Places : pc' = [pc EXCEPT ![t] = where]
  BY DEF Goto, Places
<1>6. QED
  BY <1>1, <1>2, <1>3, <1>4, <1>5

LEMMA StepControlOK == ASSUME Inv, [Next]_vars PROVE ControlOK'
<1>0. /\ ControlOK /\ Len(objects) \in Nat /\ Len(objects') \in Nat /\ Len(objects) <= Len(objects')
      /\ Len(StaticsOrder) = 8
  BY Effects, ObjectsGrow, Facts, StaticsOrderIs DEF Inv, TypeOK, ControlOK
<1>1. CASE UNCHANGED <<control, process, calls, enabled, raced>>
  BY <1>0, <1>1 DEF ControlOK, control, process
<1>2. ASSUME NEW t \in Threads, CallStep(t) PROVE ControlOK'
  <2>1. pc' \in [Threads -> Places]
    BY <1>0, <1>2, CallsKeep DEF ControlOK
  <2>2. target' \in [Threads -> Globals]
    <3>1. \/ UNCHANGED target
          \/ \E c \in Globals : target' = [target EXCEPT ![t] = c]
      BY <1>2
      DEF CallStep, CallBegin, BuildConfiguration, Initialize, Test, Build, BuildNext, Enter,
          Capture, StartWorker, Return, Globals
    <3>2. QED
      BY <1>0, <3>1 DEF ControlOK
  <2>3. ref' \in [Threads -> 0..Len(objects')]
    <3>1. CASE UNCHANGED ref
      BY <1>0, <3>1 DEF ControlOK
    <3>2. CASE Enter(t)
      <4>1. (IF target[t] = "reporter" THEN "delivery" ELSE target[t]) \in Globals
        BY <1>0 DEF ControlOK, Globals, Queues
      <4>2. \A c \in Globals : g[c] \in 0..Len(objects')
        BY <1>0, Facts
      <4>3. QED
        BY <1>0, <3>2, <4>1, <4>2 DEF Enter, ControlOK
    <3>3. CASE ref' = [ref EXCEPT ![t] = 0]
      BY <1>0, <3>3 DEF ControlOK
    <3>4. QED
      BY <1>2, <3>1, <3>2, <3>3
      DEF CallStep, CallBegin, BuildConfiguration, Initialize, Test, Build, BuildNext, Capture,
          StartWorker, Return
  <2>4. calls' \in Nat /\ enabled' \in BOOLEAN /\ call' \in [Threads -> Nat]
    <3>0. enabled' = enabled \/ enabled' \in BOOLEAN
      BY <1>2
      DEF CallStep, CallBegin, BuildConfiguration, Initialize, Test, Build, BuildNext, Enter,
          Capture, StartWorker
    <3>1. /\ calls' \in {calls, calls + 1}
          /\ \/ UNCHANGED call
             \/ \E n \in {0, calls + 1} : call' = [call EXCEPT ![t] = n]
      BY <1>2
      DEF CallStep, CallBegin, BuildConfiguration, Initialize, Test, Build, BuildNext, Enter,
          Capture, StartWorker, Return
    <3>2. calls' \in Nat /\ call' \in [Threads -> Nat]
      BY <1>0, <3>1 DEF ControlOK
    <3>3. enabled' \in BOOLEAN
      BY <1>0, <3>0 DEF ControlOK
    <3>4. QED
      BY <3>2, <3>3
  <2>7. raced' \in BOOLEAN
    BY <1>0, <1>2
    DEF ControlOK, CallStep, CallBegin, BuildConfiguration, Initialize, Test, Build, BuildNext,
        Enter, Capture, StartWorker, Return, Assign
  <2>5. /\ UNCHANGED <<phase, step, resets, skipped>> /\ hooked' \in BOOLEAN
    BY <1>0, <1>2, CallsKeep DEF ControlOK
  <2>6. QED
    BY <1>0, <2>1, <2>2, <2>3, <2>4, <2>5, <2>7 DEF ControlOK
<1>3. CASE ProcessStep
  <2> USE DEF ProcessStep, Exit, HookStep, HookThrows, StaticStep, ResetBegin, ResetStep
  <2>1. UNCHANGED <<control, enabled, hooked, calls>>
    BY <1>3
  <2>2. phase' \in Phases
    BY <1>0, <1>3 DEF ControlOK, Phases
  <2>5. raced' \in BOOLEAN /\ skipped' \in BOOLEAN
    BY <1>0, <1>3 DEF ControlOK
  <2>6. resets' \in Nat
    <3>1. resets' = resets \/ resets' = resets + 1
      BY <1>3
    <3>2. QED
      BY <1>0, <3>1 DEF ControlOK
  <2>3. step' \in 0..9
    <3>1. CASE StaticStep
      BY <3>1, StepRange
    <3>2. CASE ResetStep
      <4>1. step' = 0 \/ (step' = step + 1 /\ step # 8)
        BY <3>2, ResetOrderIs
      <4>2. phase = "reset"
        BY <3>2
      <4>3. QED
        BY <4>1, <4>2, StepRange
    <3>3. CASE HookStep
      <4>1. phase = "hook" /\ step' \in {1, step + 1, step + 2}
        BY <3>3
      <4>2. QED
        BY <4>1, StepRange
    <3>4. CASE Exit \/ HookThrows \/ ResetBegin
      BY <3>4, StepRange
    <3>5. QED
      BY <1>3, <3>1, <3>2, <3>3, <3>4
  <2>4. QED
    BY <1>0, <2>1, <2>2, <2>3, <2>5, <2>6 DEF ControlOK, control
<1>4. QED
  BY <1>1, <1>2, <1>3, NextSteps DEF vars, Work

\* The step of the process leaves the threads where they are; it unsets the
\* configuration only when every thread is out of the library.
LEMMA ProcessKeeps ==
  ASSUME Inv, ProcessStep
  PROVE  /\ ~raced /\ UNCHANGED <<control, hooked>>
         /\ g' # g => /\ \A t \in Threads : pc[t] = "idle"
                      /\ phase \in {"hooked", "statics", "reset"}
<1> USE DEF ProcessStep, Exit, HookStep, HookThrows, StaticStep, ResetBegin, ResetStep
<1>1. ~raced /\ UNCHANGED <<control, hooked>>
  BY DEF At
<1>2. ASSUME g' # g
      PROVE  (\A t \in Threads : pc[t] = "idle") /\ phase \in {"hooked", "statics", "reset"}
  BY <1>2 DEF OthersOut, Threads, Inv, PhaseInv
<1>3. QED
  BY <1>1, <1>2

LEMMA StepCallInv == ASSUME Inv, [Next]_vars PROVE CallInv'
<1>0. /\ pc \in [Threads -> Places]
      /\ target \in [Threads -> Globals] /\ ref \in [Threads -> 0..Len(objects)]
      /\ DOMAIN objects = 1..Len(objects) /\ Len(objects) \in Nat
      /\ \A i \in DOMAIN objects : objects'[i].of = objects[i].of
  BY Effects, ObjectsGrow, Facts DEF Inv, TypeOK, Continues
<1>c. /\ \A t \in Threads : pc[t] \in InCalls => target[t] # "config"
      /\ \A t \in Threads : pc[t] \notin {"idle", "config"} => g["config"] # 0
      /\ \A t \in Threads : pc[t] = "buildNext" => hooked
      /\ \A t \in Threads : pc[t] = "buildNext" /\ target[t] # "reporter" => g["metric"] # 0
      /\ \A t \in Threads : ~raced /\ pc[t] \in Pushing =>
           ref[t] \in DOMAIN objects /\ objects[ref[t]].of \notin Passive
  BY <1>0 DEF Inv, CallInv
<1>1. CASE UNCHANGED vars
  BY <1>0, <1>c, <1>1 DEF CallInv, vars, control, process
<1>2. CASE Work
  BY <1>0, <1>c, <1>2 DEF CallInv, Work, control, process
<1>3. CASE ProcessStep
  <2>1. ~raced /\ UNCHANGED <<pc, target, ref, hooked>>
    BY <1>3, ProcessKeeps DEF control
  <2>2. g' # g => \A t \in Threads : pc[t] = "idle"
    BY <1>3, ProcessKeeps
  <2>3. CASE g' = g
    BY <1>0, <1>c, <2>1, <2>3 DEF CallInv
  <2>4. CASE \A t \in Threads : pc[t] = "idle"
    BY <2>1, <2>4 DEF CallInv, InCalls, Pushing
  <2>5. QED
    BY <2>2, <2>3, <2>4
<1>4. ASSUME NEW t \in Threads, CallStep(t) PROVE CallInv'
  <2>k. /\ ~raced /\ (hooked => hooked')
        /\ g["config"] # 0 => g'["config"] # 0
        /\ g["metric"] # 0 => g'["metric"] # 0
        /\ \E where : pc' = [pc EXCEPT ![t] = where]
    BY <1>4, CallsKeep DEF Globals, Buffers
  <2>o. \A u \in Threads : u # t => pc'[u] = pc[u] /\ target'[u] = target[u] /\ ref'[u] = ref[u]
    BY <1>0, <1>4, <2>k
    DEF CallStep, CallBegin, BuildConfiguration, Initialize, Test, Build, BuildNext, Enter,
        Capture, StartWorker, Return
  <2>1. pc'[t] \in InCalls => target'[t] # "config"
    BY <1>0, <1>c, <1>4
    DEF CallStep, CallBegin, BuildConfiguration, Initialize, Test, Build, BuildNext, Enter,
        Capture, StartWorker, Return,
        At, Goto, InCalls
  <2>2. pc'[t] \notin {"idle", "config"} => g'["config"] # 0
    <3>1. pc'[t] \notin {"idle", "config"} => g["config"] # 0 \/ BuildConfiguration(t)
      BY <1>0, <1>c, <1>4
      DEF CallStep, CallBegin, Initialize, Test, Build, BuildNext, Enter,
        Capture, StartWorker, Return, At, Goto
    <3>2. BuildConfiguration(t) => g'["config"] # 0
      BY Facts DEF BuildConfiguration, Assign
    <3>3. QED
      BY <2>k, <3>1, <3>2
  <2>3. pc'[t] = "buildNext" => hooked'
    BY <1>0, <1>c, <1>4
    DEF CallStep, CallBegin, BuildConfiguration, Initialize, Test, Build, BuildNext, Enter,
        Capture, StartWorker, Return,
        At, Goto
  <2>m. pc'[t] = "buildNext" /\ target'[t] # "reporter" => g'["metric"] # 0
    <3>1. ASSUME pc'[t] = "buildNext", target'[t] # "reporter"
          PROVE  Build(t) /\ target'[t] = target[t]
      BY <1>0, <1>4, <3>1
      DEF CallStep, CallBegin, BuildConfiguration, Initialize, Test, Build, BuildNext, Enter,
          Capture, StartWorker, Return, At, Goto
    <3>2. ASSUME Build(t), pc'[t] = "buildNext", target[t] # "reporter" PROVE g'["metric"] # 0
      <4>1. target[t] \in {"metric", "infrastructure"}
        BY <1>0, <3>2 DEF Build, At, Goto
      <4>2. Assign("metric") /\ "metric" \in Globals
        BY <3>2, <4>1 DEF Build, First, Globals, Buffers
      <4>3. QED
        BY <4>2, Facts DEF Assign
    <3>3. QED
      BY <3>1, <3>2
  <2>4. ~raced' /\ pc'[t] \in Pushing => ref'[t] # 0 /\ objects'[ref'[t]].of \notin Passive
    <3>1. pc'[t] \in Pushing => Enter(t) \/ (Capture(t) /\ UNCHANGED ref)
      BY <1>0, <1>4
      DEF CallStep, CallBegin, BuildConfiguration, Initialize, Test, Build, BuildNext, Capture,
          StartWorker, Return, At, Goto, Pushing
    <3>2. ASSUME Enter(t), ~raced'
          PROVE  ref'[t] # 0 /\ objects'[ref'[t]].of \notin Passive
      <4> DEFINE c == IF target[t] = "reporter" THEN "delivery" ELSE target[t]
      <4>1. c \in Globals /\ c \notin Passive
        BY <1>0, <1>c, <3>2 DEF Enter, At, InCalls, Globals, Queues, Passive
      <4>2. ref'[t] = g[c] /\ g[c] # 0 /\ objects' = objects
        BY <1>0, <3>2 DEF Enter
      <4>3. objects[g[c]].of = c
        BY <4>1, <4>2 DEF Inv, SlotInv
      <4>4. QED
        BY <4>1, <4>2, <4>3
    <3>3. ASSUME Capture(t), UNCHANGED ref
          PROVE  ref'[t] # 0 /\ objects'[ref'[t]].of \notin Passive
      <4>1. pc[t] \in Pushing
        BY <3>3 DEF Capture, At, Pushing
      <4>2. QED
        BY <1>0, <1>c, <2>k, <3>3, <4>1
    <3>4. QED
      BY <3>1, <3>2, <3>3
  <2>5. QED
    BY <1>0, <1>c, <2>k, <2>o, <2>1, <2>2, <2>3, <2>m, <2>4 DEF CallInv
<1>5. QED
  BY <1>1, <1>2, <1>3, <1>4, NextSteps

\* Before a worker is started, what waits is of calls between their two steps.
LEMMA StepHeldInv == ASSUME Inv, [Next]_vars PROVE HeldInv'
<1>0. /\ pc \in [Threads -> Places] /\ ref \in [Threads -> 0..Len(objects)]
      /\ call \in [Threads -> Nat]
  BY DEF Inv, TypeOK
<1>1. /\ \A i \in DOMAIN objects : Continues(objects[i], objects'[i])
      /\ \A i \in DOMAIN objects' : i \notin DOMAIN objects => objects'[i].waiting = {}
  BY Effects, ObjectsGrow DEF New
<1> SUFFICES ASSUME NEW i \in DOMAIN objects', objects'[i].worker = "off", ~objects'[i].stopped,
                    NEW n \in objects'[i].waiting
             PROVE  \E t \in Threads : pc'[t] = "start" /\ ref'[t] = i /\ call'[t] = n
  BY DEF HeldInv
<1>2. /\ i \in DOMAIN objects /\ objects[i].worker = "off" /\ ~objects[i].stopped
      /\ objects'[i].waiting = objects[i].waiting \/ Capturing
  BY <1>1 DEF Continues
<1>3. ASSUME n \in objects[i].waiting
      PROVE  \E u \in Threads : pc[u] = "start" /\ ref[u] = i /\ call[u] = n
  BY <1>2, <1>3 DEF Inv, HeldInv
<1>4. CASE UNCHANGED control
  <2>1. ~Capturing
    BY <1>0, <1>4 DEF Capturing, Capture, At, Goto, Return, control
  <2>2. QED
    BY <1>2, <1>3, <1>4, <2>1 DEF control
<1>5. ASSUME NEW t \in Threads, CallStep(t)
      PROVE  \E u \in Threads : pc'[u] = "start" /\ ref'[u] = i /\ call'[u] = n
  <2>o. \A u \in Threads : u # t => pc'[u] = pc[u] /\ call'[u] = call[u] /\ ref'[u] = ref[u]
    BY <1>0, <1>5
    DEF CallStep, CallBegin, BuildConfiguration, Initialize, Test, Build, BuildNext, Enter,
        Capture, StartWorker, Return, Goto
  <2>1. CASE Capture(t)
    <3>1. pc[t] = "inside"
      BY <2>1 DEF Capture, At
    <3>2. CASE n \in objects[i].waiting
      BY <1>3, <2>o, <3>1, <3>2
    <3>3. CASE n \notin objects[i].waiting
      <4>1. /\ objects' = [objects EXCEPT ![ref[t]] = Appended(@, call[t])]
            /\ UNCHANGED <<ref, call>> /\ pc' = [pc EXCEPT ![t] = "start"]
        BY <2>1, <3>3 DEF Capture, Goto
      <4>2. ref[t] = i
        BY <1>2, <3>3, <4>1
      <4>3. objects[i] \in Objects /\ objects'[i] = Appended(objects[i], call[t])
        BY <1>2, <4>1, <4>2, Facts
      <4>4. n = call[t]
        BY <3>3, <4>3 DEF Appended, Objects
      <4>5. QED
        BY <1>0, <4>1, <4>2, <4>4
    <3>4. QED
      BY <3>2, <3>3
  <2>2. CASE ~Capture(t)
    <3>1. ~Capturing
      <4>1. ASSUME NEW u \in Threads, Capture(u) PROVE u = t
        <5>1. pc'[u] # pc[u]
          BY <1>0, <4>1 DEF Capture, At, Goto, Return
        <5>2. QED
          BY <2>o, <5>1
      <4>2. QED
        BY <2>2, <4>1 DEF Capturing
    <3>2. n \in objects[i].waiting
      BY <1>2, <3>1
    <3>3. PICK u \in Threads : pc[u] = "start" /\ ref[u] = i /\ call[u] = n
      BY <1>3, <3>2
    <3>4. u # t
      <4>1. ASSUME u = t PROVE FALSE
        <5>1. StartWorker(t)
          BY <1>5, <2>2, <3>3, <4>1
          DEF CallStep, CallBegin, BuildConfiguration, Initialize, Test, Build, BuildNext, Enter, At
        <5>2. objects[i].live
          BY <1>2, Facts DEF ObjectOK
        <5>3. PICK failed \in BOOLEAN :
                objects' = [objects EXCEPT ![i] = Started(@, failed)]
          BY <3>3, <4>1, <5>1, <5>2 DEF StartWorker
        <5>4. objects[i] \in Objects /\ objects'[i] = Started(objects[i], failed)
          BY <1>2, <5>3, Facts
        <5>5. objects'[i].worker = IF failed THEN "failed" ELSE "running"
          BY <1>2, <5>4 DEF Started, Objects
        <5>6. QED
          BY <5>5
      <4>2. QED
        BY <4>1
    <3>5. QED
      BY <2>o, <3>3, <3>4
  <2>3. QED
    BY <2>1, <2>2
<1>6. QED
  BY <1>4, <1>5, ProcessKeeps, NextSteps DEF vars, Work

\* Which global a step of destruction passes.
LEMMA Destructions ==
  ASSUME Inv, ProcessStep, g' # g
  PROVE  /\ step \in 1..8
         /\ \/ g' = [g EXCEPT ![StaticsOrder[step]] = 0] /\ StaticStep
            \/ g' = [g EXCEPT ![ResetOrder[step]] = 0] /\ ResetStep
  BY StepRange
  DEF ProcessStep, Exit, HookStep, HookThrows, StaticStep, ResetBegin, ResetStep, DestroyGlobal

LEMMA StepPhaseInv == ASSUME Inv, [Next]_vars PROVE PhaseInv'
<1> USE DEF PhaseInv
<1>0. /\ PhaseInv /\ g \in [Globals -> 0..Len(objects)]
      /\ Len(HookOrder) = 6 /\ Len(StaticsOrder) = 8 /\ Len(ResetOrder) = 8
  BY Facts, HookOrderIs, StaticsOrderIs, ResetOrderIs DEF Inv
<1>1. CASE UNCHANGED vars \/ Work
  BY <1>0, <1>1 DEF vars, Work, control, process
<1>2. ASSUME NEW t \in Threads, CallStep(t) PROVE PhaseInv'
  BY <1>0, <1>2, CallsKeep
<1>3. CASE Exit \/ HookStep \/ HookThrows \/ ResetBegin
  BY <1>0, <1>3 DEF Exit, HookStep, HookThrows, ResetBegin, At, OthersOut, Threads, control
<1>4. CASE StaticStep
  <2>1. /\ step \in 1..8 /\ StaticsOrder[step] \in Globals
        /\ \A k \in 1..(step - 1) : g[StaticsOrder[k]] = 0
        /\ g' = [g EXCEPT ![StaticsOrder[step]] = 0]
    <3>1. step \in 1..8 /\ phase \in {"hooked", "statics"} /\ (phase = "hooked" => step = 1)
      BY <1>0, <1>4, StepRange DEF StaticStep
    <3>2. \A k \in 1..(step - 1) : g[StaticsOrder[k]] = 0
      BY <1>0, <3>1
    <3>3. g' = [g EXCEPT ![StaticsOrder[step]] = 0]
      BY <1>4 DEF StaticStep, DestroyGlobal
    <3>4. QED
      BY <3>1, <3>2, <3>3, StaticsOrderIs
  <2>2. \A k \in 1..step : StaticsOrder[k] \in Globals /\ g'[StaticsOrder[k]] = 0
    <3>1. \A k \in 1..step : k \in 1..8 /\ (k \in 1..(step - 1) \/ k = step)
      BY <2>1
    <3>2. \A k \in 1..8 : StaticsOrder[k] \in Globals
      BY StaticsOrderIs
    <3>3. \A c \in Globals : g'[c] = IF c = StaticsOrder[step] THEN 0 ELSE g[c]
      BY <1>0, <2>1
    <3>4. QED
      BY <2>1, <3>1, <3>2, <3>3
  <2>3. step' = step + 1 /\ phase' = IF step = 8 THEN "over" ELSE "statics"
    BY <1>0, <1>4 DEF StaticStep
  <2>4. \A t \in Threads : pc'[t] = "idle"
    BY <1>0, <1>4 DEF StaticStep, OthersOut, Threads, control
  <2>5. QED
    BY <2>1, <2>2, <2>3, <2>4
<1>5. CASE ResetStep
  <2>1. /\ step \in 1..8 /\ ResetOrder[step] \in Globals
        /\ \A k \in 1..(step - 1) : g[ResetOrder[k]] = 0
        /\ g' = [g EXCEPT ![ResetOrder[step]] = 0]
    BY <1>0, <1>5, StepRange, ResetOrderIs DEF ResetStep, DestroyGlobal
  <2>2. \A k \in 1..step : ResetOrder[k] \in Globals /\ g'[ResetOrder[k]] = 0
    <3>1. \A k \in 1..step : k \in 1..8 /\ (k \in 1..(step - 1) \/ k = step)
      BY <2>1
    <3>2. \A k \in 1..8 : ResetOrder[k] \in Globals
      BY ResetOrderIs
    <3>3. \A c \in Globals : g'[c] = IF c = ResetOrder[step] THEN 0 ELSE g[c]
      BY <1>0, <2>1
    <3>4. QED
      BY <2>1, <3>1, <3>2, <3>3
  <2>3. /\ phase' = IF step = 8 THEN "running" ELSE "reset"
        /\ step' = IF step = 8 THEN 0 ELSE step + 1
    BY <1>0, <1>5 DEF ResetStep
  <2>4. \A t \in Threads : pc'[t] = "idle"
    BY <1>0, <1>5 DEF ResetStep, control
  <2>5. QED
    BY <2>1, <2>2, <2>3, <2>4
<1>6. QED
  BY <1>1, <1>2, <1>3, <1>4, <1>5, NextSteps DEF ProcessStep

LEMMA StepPairInv == ASSUME Inv, [Next]_vars PROVE PairInv'
<1>0. /\ PairInv /\ g \in [Globals -> 0..Len(objects)] /\ PhaseInv
      /\ "metric" \in Globals /\ "infrastructure" \in Globals
  BY Facts DEF Inv, Globals, Buffers
<1>1. CASE g' = g /\ (phase' = "reset" \/ phase # "reset")
  BY <1>0, <1>1 DEF PairInv
<1>2. CASE UNCHANGED vars \/ Work
  BY <1>0, <1>2 DEF PairInv, vars, Work, process
<1>3. ASSUME NEW t \in Threads, CallStep(t) PROVE PairInv'
  <2>1. (g["metric"] # 0 => g'["metric"] # 0) /\ phase' = phase /\ phase # "reset"
    BY <1>0, <1>3, CallsKeep
  <2>2. CASE g["infrastructure"] # 0 \/ g'["infrastructure"] = 0
    BY <1>0, <2>1, <2>2 DEF PairInv
  <2>3. CASE BuildNext(t) /\ target[t] # "reporter"
    BY <2>1, <2>3 DEF BuildNext, At, Inv, CallInv, PairInv
  <2>4. ASSUME NEW c \in Globals, Assign(c), c # "infrastructure"
        PROVE  g["infrastructure"] = g'["infrastructure"]
    BY <1>0, <2>4 DEF Assign
  <2>5. First(target[t]) # "infrastructure" /\ First(target[t]) \in Globals
    <3>1. target[t] \in Globals
      BY DEF Inv, TypeOK
    <3>2. QED
      BY <3>1 DEF First, Globals, Queues, Buffers
  <2>6. CASE Build(t)
    BY <2>2, <2>4, <2>5, <2>6 DEF Build
  <2>7. CASE BuildConfiguration(t) \/ BuildNext(t)
    BY <2>2, <2>3, <2>4, <2>7 DEF BuildConfiguration, BuildNext, Globals
  <2>8. QED
    BY <1>3, <2>2, <2>6, <2>7
    DEF CallStep, CallBegin, Initialize, Test, Enter, Capture, StartWorker
<1>4. CASE Exit \/ HookStep \/ HookThrows \/ ResetBegin
  BY <1>1, <1>4 DEF Exit, HookStep, HookThrows, ResetBegin
<1>5. CASE StaticStep
  <2>1. step \in 1..8 /\ g' = [g EXCEPT ![StaticsOrder[step]] = 0] /\ phase # "reset"
    BY <1>5, StepRange DEF StaticStep, DestroyGlobal
  <2>2. CASE step = 1
    BY <1>0, <2>1, <2>2 DEF PairInv, StaticsOrder
  <2>3. CASE step # 1
    <3>1. phase = "statics" /\ 1 \in 1..(step - 1)
      BY <1>0, <1>5, <2>1, <2>3 DEF StaticStep, PhaseInv
    <3>2. g[StaticsOrder[1]] = 0 /\ StaticsOrder[1] = "infrastructure"
      BY <1>0, <3>1 DEF PhaseInv, StaticsOrder
    <3>3. g'["infrastructure"] = 0
      BY <1>0, <2>1, <3>2
    <3>4. QED
      BY <3>3 DEF PairInv
  <2>4. QED
    BY <2>2, <2>3
<1>6. CASE ResetStep
  <2>1. CASE step = 8
    <3>1. \A k \in 1..7 : g[ResetOrder[k]] = 0
      BY <1>0, <1>6, <2>1 DEF ResetStep, PhaseInv
    <3>2. g["infrastructure"] = 0
      BY <3>1 DEF ResetOrder
    <3>3. g'["infrastructure"] = 0
      BY <1>0, <1>6, <3>2 DEF ResetStep, DestroyGlobal
    <3>4. QED
      BY <3>3 DEF PairInv
  <2>2. CASE step # 8
    BY <1>6, <2>2, ResetOrderIs DEF ResetStep, PairInv
  <2>3. QED
    BY <2>1, <2>2
<1>7. QED
  BY <1>2, <1>3, <1>4, <1>5, <1>6, NextSteps DEF ProcessStep

\* What is not reachable through a global does not run.
LEMMA AllUnset ==
  ASSUME Inv, Effect, \A c \in Globals : g'[c] = 0, NEW i \in DOMAIN objects'
  PROVE  objects'[i].worker # "running"
<1>1. /\ ObjectOK(objects'[i]) /\ SlotInv' /\ objects'[i] \in Objects /\ i # 0
  BY StepObjects, ObjectsGrow, ElementOfSeq
<1>2. QED
  BY <1>1 DEF ObjectOK, SlotInv, Objects

\* Only these build an object.
LEMMA Builders ==
  ASSUME Inv, [Next]_vars
  PROVE  \/ DOMAIN objects' = DOMAIN objects
         \/ \E t \in Threads : BuildConfiguration(t) \/ Build(t) \/ BuildNext(t)
<1>1. CASE UNCHANGED vars \/ Work
  BY <1>1 DEF vars, Work
<1>2. ASSUME NEW t \in Threads,
             CallBegin(t) \/ Initialize(t) \/ Test(t) \/ Enter(t) \/ Capture(t) \/ StartWorker(t)
      PROVE  DOMAIN objects' = DOMAIN objects
  BY <1>2 DEF CallBegin, Initialize, Test, Enter, Capture, StartWorker
<1>3. CASE ProcessStep
  BY <1>3
  DEF ProcessStep, Exit, HookStep, HookThrows, StaticStep, ResetBegin, ResetStep, DestroyGlobal
<1>4. QED
  BY <1>1, <1>2, <1>3, NextSteps DEF CallStep

LEMMA StepWorkerInv == ASSUME Inv, [Next]_vars PROVE WorkerInv'
<1>e. Effect
  BY Effects
<1>0. /\ \A i \in DOMAIN objects : Continues(objects[i], objects'[i])
      /\ \A i \in DOMAIN objects' : i \notin DOMAIN objects =>
           i = Len(objects) + 1 /\ \E c \in Globals : Assign(c) /\ objects'[i] = New(c)
      /\ g \in [Globals -> 0..Len(objects)] /\ WorkerInv
  BY <1>e, ObjectsGrow, Facts DEF Inv
<1>1. ASSUME NEW i \in DOMAIN objects', objects'[i].worker = "running"
      PROVE  g'["config"] # 0
  <2>1. i \in DOMAIN objects
    BY <1>0, <1>1 DEF New
  <2>2. g["config"] # 0
    BY <1>0, <1>1, <2>1 DEF Continues, WorkerInv
  <2>3. CASE g' = g
    BY <2>2, <2>3
  <2>4. CASE \E t \in Threads : CallStep(t)
    BY <2>2, <2>4, CallsKeep, Facts
  <2>5. ASSUME ProcessStep, g' # g, g'["config"] = 0 PROVE FALSE
    <3>1. step = 8 /\ (StaticStep \/ ResetStep)
      <4>1. PICK c \in Globals :
              /\ g' = [g EXCEPT ![c] = 0]
              /\ c = "config" => step = 8
              /\ StaticStep \/ ResetStep
        <5>1. /\ step \in 1..8
              /\ \/ g' = [g EXCEPT ![StaticsOrder[step]] = 0] /\ StaticStep
                 \/ g' = [g EXCEPT ![ResetOrder[step]] = 0] /\ ResetStep
          BY <2>5, Destructions
        <5>2. StaticsOrder[step] \in Globals /\ (StaticsOrder[step] = "config" => step = 8)
          BY <5>1, StaticsOrderIs
        <5>3. ResetOrder[step] \in Globals /\ (ResetOrder[step] = "config" => step = 8)
          BY <5>1, ResetOrderIs
        <5>4. QED
          BY <5>1, <5>2, <5>3
      <4>2. c = "config"
        BY <1>0, <2>2, <2>5, <4>1, Facts
      <4>3. QED
        BY <4>1, <4>2
    <3>2. CASE StaticStep
      <4>1. \A k \in 1..8 : StaticsOrder[k] \in Globals /\ g'[StaticsOrder[k]] = 0
        BY <1>0, <3>1, <3>2, StaticsOrderIs DEF StaticStep, DestroyGlobal, Inv, PhaseInv
      <4>2. QED
        BY <1>e, <1>1, <4>1, StaticsOrderIs, AllUnset
    <3>3. CASE ResetStep
      <4>1. \A k \in 1..8 : ResetOrder[k] \in Globals /\ g'[ResetOrder[k]] = 0
        BY <1>0, <3>1, <3>3, ResetOrderIs DEF ResetStep, DestroyGlobal, Inv, PhaseInv
      <4>2. QED
        BY <1>e, <1>1, <4>1, ResetOrderIs, AllUnset
    <3>4. QED
      BY <3>1, <3>2, <3>3
  <2>6. QED
    BY <2>3, <2>4, <2>5, NextSteps DEF vars, Work
<1>2. ASSUME ~hooked', NEW i \in DOMAIN objects' PROVE objects'[i].of = "config"
  <2>1. ~hooked
    BY <1>2, CallsKeep, ProcessKeeps, NextSteps DEF vars, Work, process
  <2>2. CASE i \in DOMAIN objects
    BY <1>0, <2>1, <2>2 DEF WorkerInv, Continues
  <2>3. ASSUME NEW t \in Threads, BuildConfiguration(t), i \notin DOMAIN objects
        PROVE  objects'[i].of = "config"
    <3>1. Assign("config") /\ "config" \in Globals
      BY <2>3, Facts DEF BuildConfiguration
    <3>2. objects'[Len(objects) + 1] = New("config") /\ i = Len(objects) + 1
      BY <1>0, <2>3, <3>1, AssignGrows
    <3>3. QED
      BY <3>2 DEF New
  <2>4. ASSUME NEW t \in Threads, Build(t) \/ BuildNext(t) PROVE FALSE
    BY <1>2, <2>1, <2>4 DEF Build, BuildNext, At, Inv, CallInv
  <2>5. QED
    BY <2>2, <2>3, <2>4, Builders
<1>3. QED
  BY <1>1, <1>2 DEF WorkerInv

LEMMA StepHookInv == ASSUME Inv, [Next]_vars PROVE HookInv'
<1>e. Effect
  BY Effects
<1>0. /\ \A i \in DOMAIN objects : Continues(objects[i], objects'[i])
      /\ \A i \in DOMAIN objects' : i \notin DOMAIN objects =>
           \E c \in Globals : Assign(c) /\ objects'[i] = New(c)
      /\ HookInv /\ WorkerInv /\ Len(HookOrder) = 6
      /\ {HookOrder[k] : k \in 1..6} = Buffers \cup Queues
  BY <1>e, ObjectsGrow, HookOrderIs DEF Inv
<1>1. ASSUME Passed' \subseteq Passed,
             phase \in {"hook", "hooked"} \/ Passed' = {} \/ DOMAIN objects' = DOMAIN objects
      PROVE  HookInv'
  BY <1>0, <1>1 DEF HookInv, Continues, New
<1>2. CASE UNCHANGED vars \/ Work
  BY <1>1, <1>2 DEF vars, Work, process, Passed
<1>3. ASSUME NEW t \in Threads, CallStep(t) PROVE HookInv'
  <2>1. Passed' = Passed
    <3>1. phase' = phase /\ step' = step /\ skipped' = skipped
      BY <1>3, CallsKeep
    <3>2. QED
      BY <3>1 DEF Passed
  <2>2. phase \in {"hook", "hooked"} \/ Passed = {}
    BY <1>3, CallsKeep DEF Passed
  <2>3. QED
    BY <1>1, <2>1, <2>2
<1>4. CASE HookThrows \/ StaticStep \/ ResetBegin \/ ResetStep
  <2>1. Passed' \subseteq Passed
    <3>1. CASE HookThrows \/ ResetBegin
      BY <3>1 DEF HookThrows, ResetBegin, Passed
    <3>2. CASE StaticStep
      <4>1. phase \in {"hooked", "statics"} /\ phase' \in {"over", "statics"} /\ skipped' = skipped
        BY <3>2 DEF StaticStep
      <4>2. QED
        BY <4>1 DEF Passed
    <3>3. CASE ResetStep
      <4>1. phase' \in {"running", "reset"}
        BY <3>3 DEF ResetStep
      <4>2. QED
        BY <4>1 DEF Passed
    <3>4. QED
      BY <1>4, <3>1, <3>2, <3>3
  <2>2. DOMAIN objects' = DOMAIN objects
    BY <1>4 DEF HookThrows, StaticStep, ResetBegin, ResetStep, DestroyGlobal
  <2>3. QED
    BY <1>1, <2>1, <2>2
<1>5. CASE Exit
  <2>1. CASE hooked
    <3>1. Passed' = {}
      BY <1>5, <2>1 DEF Exit, Passed
    <3>2. QED
      BY <3>1 DEF HookInv
  <2>2. CASE ~hooked
    <3>1. \A i \in DOMAIN objects' : objects'[i].of = "config"
      BY <1>0, <1>5, <2>2 DEF Exit, WorkerInv
    <3>2. "config" \notin Passed'
      BY <1>0, <1>5, <2>2 DEF Exit, Passed, Buffers, Queues
    <3>3. QED
      BY <3>1, <3>2 DEF HookInv
  <2>3. QED
    BY <2>1, <2>2 DEF Inv, TypeOK
<1>6. CASE HookStep
  <2> DEFINE c == HookOrder[step]
             next == IF c = "metric" /\ g[c] = 0 THEN step + 2 ELSE step + 1
             ended == {HookOrder[k] : k \in step..(next - 1)}
  <2>1. step \in 1..6 /\ phase = "hook" /\ c \in Globals /\ DOMAIN objects' = DOMAIN objects
    BY <1>6, StepRange, HookOrderIs DEF HookStep
  <2>n. /\ next \in {step + 1, step + 2} /\ next \in 2..7
        /\ phase' = IF next > 6 THEN "hooked" ELSE "hook"
        /\ step' = IF next > 6 THEN 1 ELSE next
        /\ skipped' = skipped
    <3>1. c = "metric" => step = 2
      BY <2>1, HookOrderIs
    <3>2. next \in {step + 1, step + 2} /\ next \in 2..7
      BY <2>1, <3>1
    <3>3. QED
      BY <1>0, <1>6, <3>2 DEF HookStep
  <2>2. Passed' \subseteq Passed \cup ended
    <3> HIDE DEF next
    <3>0. Passed = {HookOrder[k] : k \in 1..(step - 1)}
      BY <2>1 DEF Passed
    <3>1. Passed' \subseteq {HookOrder[k] : k \in 1..(next - 1)}
      <4>1. CASE next > 6
        <5>1. next - 1 = 6 /\ phase' = "hooked"
          BY <2>n, <4>1
        <5>2. QED
          BY <5>1 DEF Passed
      <4>2. CASE ~(next > 6)
        BY <2>n, <4>2 DEF Passed
      <4>3. QED
        BY <4>1, <4>2
    <3>2. \A k \in 1..(next - 1) : k \in 1..(step - 1) \/ k \in step..(next - 1)
      BY <2>1, <2>n
    <3>3. QED
      BY <3>0, <3>1, <3>2
  <2>3. ASSUME NEW i \in DOMAIN objects, objects[i].of \in ended PROVE objects'[i].stopped
    <3>1. CASE objects[i].of = c /\ objects[i].live
      <4>1. g[c] = i /\ i # 0
        BY <3>1, Facts DEF Inv, SlotInv
      <4>2. PICK flushed \in BOOLEAN : objects'[i] = Shutdown(objects[i], flushed)
        BY <1>6, <2>1, <4>1, Facts DEF HookStep
      <4>3. QED
        BY <4>2, Facts, ShutdownContinues
    <3>2. CASE ~objects[i].live
      BY <1>0, <2>3, <3>2, Facts DEF ObjectOK, Continues
    <3>3. CASE objects[i].of # c
      <4>1. PICK k \in step..(next - 1) : objects[i].of = HookOrder[k]
        BY <2>3
      <4>2. k # step
        BY <3>3, <4>1
      <4>3. c = "metric" /\ g["metric"] = 0 /\ k = step + 1
        BY <2>1, <4>1, <4>2
      <4>4. k = 3 /\ objects[i].of = "infrastructure"
        BY <2>1, <4>1, <4>3, HookOrderIs
      <4>5. g["infrastructure"] = 0
        BY <2>1, <4>3 DEF Inv, PairInv
      <4>6. ~objects[i].live
        BY <4>4, <4>5, Facts DEF Inv, SlotInv
      <4>7. QED
        BY <3>2, <4>6
    <3>4. QED
      BY <3>1, <3>2, <3>3
  <2> HIDE DEF ended
  <2>4. QED
    BY <1>0, <2>1, <2>2, <2>3 DEF HookInv, Continues
<1>7. QED
  BY <1>2, <1>3, <1>4, <1>5, <1>6, NextSteps DEF ProcessStep

-----------------------------------------------------------------------------
(* The invariant, and what it says *)

LEMMA InitInv == ASSUME Init PROVE Inv
<1> USE DEF Init
<1>1. /\ DOMAIN objects = {} /\ objects \in Seq(Objects) /\ Len(objects) = 0
      /\ Len(StaticsOrder) = 8
  BY StaticsOrderIs
<1>2. TypeOK
  <2>1. /\ g \in [Globals -> 0..Len(objects)] /\ ref \in [Threads -> 0..Len(objects)]
        /\ call \in [Threads -> Nat]
    BY <1>1
  <2>2. /\ pc \in [Threads -> Places]
        /\ target \in [Threads -> Globals]
    BY DEF Globals, Places
  <2>3. phase # "hook" /\ phase \in Phases /\ step \in 0..(Len(StaticsOrder) + 1)
    BY <1>1 DEF Phases
  <2>4. QED
    BY <1>1, <2>1, <2>2, <2>3 DEF TypeOK
<1>3. /\ SlotInv /\ HeldInv /\ WorkerInv /\ HookInv
      /\ \A i \in DOMAIN objects : ObjectOK(objects[i])
  BY <1>1 DEF SlotInv, HeldInv, WorkerInv, HookInv
<1>4. CallInv /\ PhaseInv /\ PairInv
  BY DEF CallInv, PhaseInv, PairInv, InCalls, Pushing, Globals, Buffers
<1>5. QED
  BY <1>2, <1>3, <1>4 DEF Inv

\* The invariant holds of every behaviour, whatever the threads and the bounds.
THEOREM Invariance == Spec => []Inv
<1>1. ASSUME Inv, [Next]_vars PROVE Inv'
  <2>1. Effect
    BY <1>1, Effects
  <2>2. TypeOK'
    <3>1. phase' = "hook" => step' \in DOMAIN HookOrder
      BY <1>1, StepPhaseInv, HookOrderIs DEF PhaseInv
    <3>2. QED
      BY <1>1, <2>1, <3>1, ObjectsGrow, StepObjects, StepControlOK DEF TypeOK, ControlOK
  <2>3. QED
    BY <1>1, <2>1, <2>2, StepObjects, StepHeldInv, StepPairInv, StepCallInv, StepWorkerInv,
       StepPhaseInv, StepHookInv
    DEF Inv
<1>2. QED
  BY <1>1, InitInv, PTL DEF Spec

\* Every global, call and object keeps its type.
THEOREM TypeCorrect == Spec => []TypeOK
  BY Invariance, PTL DEF Inv

\* As long as no two first calls meet, a running worker is the only one of its component,
\* its global points at it and the configuration it reads exists, through first calls, exit,
\* static destruction and reset_for_testing, whatever the other threads are doing.
THEOREM RunningWorkersAreReachable == Spec => []WorkersAreReachable
<1>1. ASSUME Inv PROVE WorkersAreReachable
  <2> SUFFICES ASSUME NEW i \in DOMAIN objects, objects[i].worker = "running"
               PROVE  /\ objects[i].live /\ g[objects[i].of] = i
                      /\ g["config"] # 0 /\ phase # "over"
    BY DEF WorkersAreReachable
  <2>1. objects[i].live /\ g[objects[i].of] = i /\ g["config"] # 0
    BY <1>1 DEF Inv, ObjectOK, SlotInv, WorkerInv
  <2>2. phase = "over" => g["config"] = 0
    <3>1. ASSUME phase = "over" PROVE \A k \in 1..8 : g[StaticsOrder[k]] = 0
      BY <1>1, <3>1 DEF Inv, PhaseInv
    <3>2. QED
      BY <1>1, <3>1, Facts, StaticsOrderIs
  <2>3. QED
    BY <2>1, <2>2
<1>2. QED
  BY <1>1, Invariance, PTL

\* After a hook that ran to its end, the workers left are of objects built since the exit
\* began: whatever the hook did not find was not there before.
THEOREM HookIsThorough == Spec => []HookLeavesNoWorker
<1>1. ASSUME Inv PROVE HookLeavesNoWorker
  <2> SUFFICES ASSUME phase \in {"hooked", "statics"}, ~skipped,
                      NEW i \in DOMAIN objects, objects[i].worker = "running"
               PROVE  objects[i].born \in {"hook", "hooked"}
    BY DEF HookLeavesNoWorker
  <2>1. ~objects[i].stopped /\ objects[i].of \notin Passive /\ objects[i].of \in Globals
    BY <1>1, Facts DEF ObjectOK, Objects
  <2>2. objects[i].of \in Passed
    BY <2>1, HookOrderIs DEF Passed, Globals, Passive
  <2>3. QED
    BY <1>1, <2>1, <2>2 DEF Inv, HookInv
<1>2. QED
  BY <1>1, Invariance, PTL

\* What a queue still holds once it was shut down are captures that were not done when
\* shutdown() came, in whatever order threads append, start the worker and shut down; a
\* capture that had returned before is lost only where no worker could be started. What a
\* buffer that is gone still holds, its last flush could not send.
THEOREM LateCapturesAtMost == Spec => []OnlyLateCapturesAreLost
<1>1. ASSUME Inv PROVE OnlyLateCapturesAreLost
  BY <1>1 DEF Inv, ObjectOK, OnlyLateCapturesAreLost
<1>2. QED
  BY <1>1, Invariance, PTL

=============================================================================
