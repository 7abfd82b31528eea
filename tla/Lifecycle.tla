------------------------------ MODULE Lifecycle ------------------------------
(***************************************************************************)
(* The globals of forge_ops_tracker.cpp: components built by whichever     *)
(* thread first needs them, the exit hook that shuts them down, static     *)
(* destruction after it, and reset_for_testing.                            *)
(*                                                                         *)
(* What shutdown() and discard() do inside a component is in the modules   *)
(* of the components; here each is one step with the contract shown there. *)
(* A capture is two, as it takes the component's lock twice: it appends,   *)
(* then it makes sure of a worker, and shutdown() can come in between.     *)
(* The globals have no lock.  Testing one and assigning it are two steps,  *)
(* and when two threads do so at once the behaviour of the program is      *)
(* undefined: `raced` is set and the model stops.  reset_for_testing and   *)
(* static destruction run when no other thread is inside the library.      *)
(***************************************************************************)
EXTENDS Integers, Sequences

CONSTANTS
  Main,        \* the thread that runs main(), the exit hook and the destructors
  Others,      \* the application's other threads
  MaxObjects,  \* bounds: objects built,
  MaxCalls,    \* calls that capture something,
  MaxResets,   \* calls of reset_for_testing
  Faults       \* "throw": a step of the exit hook throws; "start": a thread cannot be started;
               \* "fail": a last flush does not get through; "full": nothing more is taken

Threads == Others \cup {Main}

ASSUME MainAssumption == Main \notin Others
ASSUME BoundsAssumption == MaxObjects \in Nat /\ MaxCalls \in Nat /\ MaxResets \in Nat
ASSUME FaultsAssumption == Faults \subseteq {"throw", "start", "fail", "full"}

Buffers == {"performance", "metric", "infrastructure"}  \* shutdown() flushes the rest
Queues == {"span", "change", "delivery"}
Globals == Buffers \cup Queues \cup {"reporter", "config"}

\* finish_deliveries_at_exit.
HookOrder == <<"performance", "metric", "infrastructure", "span", "change", "delivery">>

\* The unique_ptr globals are destroyed in the reverse order of their declarations.
StaticsOrder ==
  <<"infrastructure", "metric", "change", "span", "performance", "reporter", "delivery", "config">>

\* Mutant: the configuration goes first.
ResetOrderConfigFirst ==
  <<"config", "performance", "metric", "infrastructure", "span", "change", "reporter", "delivery">>

\* reset_for_testing.
ResetOrder ==
  <<"performance", "metric", "infrastructure", "span", "change", "reporter", "delivery", "config">>

VARIABLES
  g,        \* the object each global points at, 0 for none
  objects,  \* every object built so far
  enabled,  \* Configuration::is_enabled()
  pc,       \* where each thread stands in a call
  target,   \* the component the call is for
  ref,      \* the object the call is inside
  call,     \* the number of the call, which names what it captures
  hooked,   \* the exit hook is registered
  phase,    \* what Main is doing with the process
  step,     \* how far into the order of that phase
  calls, resets,
  \* What happened, for the properties only:
  raced,    \* two threads were at one global at once
  skipped   \* a step of the hook threw, and the rest was skipped

control == <<pc, target, ref, call>>
process == <<hooked, phase, step, resets, skipped>>
vars == <<g, objects, enabled, control, process, calls, raced>>

Phases == {"running", "hook", "hooked", "statics", "over", "reset"}
Objects ==
  [of : Globals, live : BOOLEAN, worker : {"off", "running", "failed", "left"}, stopped : BOOLEAN,
   waiting : SUBSET Nat,  \* the calls whose captures are not delivered yet
   late : SUBSET Nat,     \* the calls that were not done capturing when shutdown() came
   refused : BOOLEAN,     \* the last flush of shutdown() did not get through
   born : Phases]

Places == {"idle", "config", "test", "build", "buildNext", "enter", "inside", "start"}

TypeOK ==
  /\ objects \in Seq(Objects) /\ g \in [Globals -> 0..Len(objects)]
  /\ pc \in [Threads -> Places] /\ target \in [Threads -> Globals]
  /\ ref \in [Threads -> 0..Len(objects)] /\ call \in [Threads -> Nat]
  /\ phase = "hook" => step \in DOMAIN HookOrder
  /\ phase \in Phases /\ step \in 0..(Len(StaticsOrder) + 1) /\ calls \in Nat /\ resets \in Nat
  /\ enabled \in BOOLEAN /\ hooked \in BOOLEAN /\ raced \in BOOLEAN /\ skipped \in BOOLEAN

Init ==
  /\ g = [c \in Globals |-> 0] /\ objects = <<>> /\ enabled = TRUE
  /\ pc = [t \in Threads |-> "idle"] /\ target = [t \in Threads |-> "config"]
  /\ ref = [t \in Threads |-> 0] /\ call = [t \in Threads |-> 0]
  /\ hooked = FALSE /\ phase = "running" /\ step = 0
  /\ calls = 0 /\ resets = 0 /\ raced = FALSE /\ skipped = FALSE

At(t, where) == ~raced /\ pc[t] = where
Goto(t, where) == pc' = [pc EXCEPT ![t] = where]

\* The call returns, and leaves nothing behind in its thread.
Return(t) ==
  /\ Goto(t, "idle") /\ target' = [target EXCEPT ![t] = "config"]
  /\ ref' = [ref EXCEPT ![t] = 0] /\ call' = [call EXCEPT ![t] = 0]

-----------------------------------------------------------------------------
(* What a component does when asked *)

\* The captures that have been appended and have not made sure of a worker.
Unfinished == {call[t] : t \in {u \in Threads : pc[u] = "start"}}

\* How a last flush can end.
Flushes == IF "fail" \in Faults THEN BOOLEAN ELSE {TRUE}

\* shutdown(): no worker afterwards. A queue's worker delivers what waits before it
\* leaves; a buffer is flushed once more, with or without a worker.
Shutdown(o, flushed) ==
  LET delivered == IF o.of \in Buffers THEN flushed ELSE o.worker = "running"
  IN  [o EXCEPT !.stopped = TRUE,
                !.late = IF o.stopped \/ delivered THEN @ ELSE o.waiting \cap Unfinished,
                !.worker = IF @ = "running" THEN "left" ELSE @,
                !.waiting = IF delivered THEN {} ELSE @,
                !.refused = o.of \in Buffers /\ ~flushed /\ o.waiting # {}]

\* discard(): the same, with nothing delivered and nothing kept.
Discard(o) == [Shutdown(o, TRUE) EXCEPT !.waiting = {}, !.late = {}]

\* Mutant: the destructor stops the worker and leaves the rest.
DestroyWithoutShutdown(o, flushed) ==
  [o EXCEPT !.live = FALSE, !.stopped = TRUE, !.worker = IF @ = "running" THEN "left" ELSE @]

\* Every destructor is a shutdown().
Destroy(o, flushed) == [Shutdown(o, flushed) EXCEPT !.live = FALSE]

\* The first section of a push or record.
Appended(o, n) ==
  [o EXCEPT !.waiting = @ \cup {n}, !.late = IF o.stopped THEN @ \cup {n} ELSE @]

\* ensure_worker_started: once, never when stopped, and not again if it failed.
Started(o, failed) ==
  [o EXCEPT !.worker = IF @ = "off" /\ ~o.stopped THEN IF failed THEN "failed" ELSE "running" ELSE @]

New(c) ==
  [of |-> c, live |-> TRUE, worker |-> "off", stopped |-> FALSE, waiting |-> {}, late |-> {},
   refused |-> FALSE, born |-> phase]

\* make_unique and the assignment, which destroys what the global pointed at.
Assign(c) ==
  /\ Len(objects) < MaxObjects
  /\ \E flushed \in Flushes :
       objects' = Append([i \in DOMAIN objects |->
                            IF i = g[c] THEN Destroy(objects[i], flushed) ELSE objects[i]], New(c))
  /\ g' = [g EXCEPT ![c] = Len(objects) + 1]
  /\ raced' = (g[c] # 0)

-----------------------------------------------------------------------------
(* init() and the calls that capture something *)

Calling == phase \in {"running", "hook", "hooked"}

\* configuration() is the first thing every call needs; only captures are counted.
CallBegin(t) ==
  /\ At(t, "idle") /\ Calling
  /\ t = Main => phase # "hook"
  /\ \/ /\ target' = [target EXCEPT ![t] = "config"]
        /\ UNCHANGED <<call, calls>>
     \/ /\ calls < MaxCalls /\ calls' = calls + 1
        /\ call' = [call EXCEPT ![t] = calls']
        /\ \E c \in Globals \ {"config", "delivery"} : target' = [target EXCEPT ![t] = c]
  /\ Goto(t, IF g["config"] = 0 THEN "config" ELSE "test")
  /\ UNCHANGED <<g, objects, enabled, ref, process, raced>>

BuildConfiguration(t) ==
  /\ At(t, "config")
  /\ Assign("config")
  /\ Goto(t, "test")
  /\ UNCHANGED <<enabled, target, ref, call, process, calls>>

\* init(): configure, then ensure_exit_hook.
Initialize(t) ==
  /\ At(t, "test") /\ target[t] = "config"
  /\ enabled' \in BOOLEAN
  /\ hooked' = TRUE
  /\ Return(t)
  /\ UNCHANGED <<g, objects, phase, step, resets, skipped, calls, raced>>

\* Metrics, changes and traces return before they build where nothing is sent;
\* reporter() and performance_flusher() are built all the same.  Both metric
\* calls test g_metric_buffer alone.
Tested(c) == IF c = "infrastructure" THEN "metric" ELSE c

Test(t) ==
  /\ At(t, "test") /\ target[t] # "config"
  /\ \/ /\ ~enabled /\ target[t] \notin {"reporter", "performance"}
        /\ Return(t)
     \/ /\ enabled \/ target[t] \in {"reporter", "performance"}
        /\ Goto(t, IF g[Tested(target[t])] = 0 THEN "build" ELSE "enter")
        /\ UNCHANGED <<target, ref, call>>
  /\ UNCHANGED <<g, objects, enabled, process, calls, raced>>

First(c) ==
  CASE c = "reporter" -> "delivery" [] c = "infrastructure" -> "metric" [] OTHER -> c

\* Mutant: the lazily built components do not register the hook.
BuildWithoutHook(t) ==
  /\ At(t, "build")
  /\ Assign(First(target[t]))
  /\ Goto(t, IF target[t] \in {"reporter", "metric", "infrastructure"} THEN "buildNext" ELSE "enter")
  /\ UNCHANGED <<hooked, enabled, target, ref, call, phase, step, resets, skipped, calls>>

\* ensure_exit_hook, then the object; two globals hold two objects each.
Build(t) ==
  /\ At(t, "build")
  /\ hooked' = TRUE
  /\ Assign(First(target[t]))
  /\ Goto(t, IF target[t] \in {"reporter", "metric", "infrastructure"} THEN "buildNext" ELSE "enter")
  /\ UNCHANGED <<enabled, target, ref, call, phase, step, resets, skipped, calls>>

BuildNext(t) ==
  /\ At(t, "buildNext")
  /\ Assign(IF target[t] = "reporter" THEN "reporter" ELSE "infrastructure")
  /\ Goto(t, "enter")
  /\ UNCHANGED <<enabled, target, ref, call, process, calls>>

\* The global is read again; a metric buffer another thread is still building is null.
Enter(t) ==
  /\ At(t, "enter")
  /\ LET o == g[IF target[t] = "reporter" THEN "delivery" ELSE target[t]]
     IN  /\ ref' = [ref EXCEPT ![t] = o]
         /\ raced' = (o = 0)
  /\ Goto(t, "inside")
  /\ UNCHANGED <<g, objects, enabled, target, call, process, calls>>

\* Reports and durations ask once more whether anything is sent; the other captures
\* did so before their component was built.
AskAgain == {"reporter", "performance"}

\* The append of a push or record, unless nothing is sent or there is no room; a thread
\* that finds its object gone races with the destruction.
Capture(t) ==
  /\ At(t, "inside")
  /\ raced' = ~objects[ref[t]].live
  /\ \/ /\ raced' \/ (~enabled /\ target[t] \in AskAgain) \/ "full" \in Faults
        /\ Return(t)
        /\ UNCHANGED objects
     \/ /\ ~raced' /\ (enabled \/ target[t] \notin AskAgain)
        /\ objects' = [objects EXCEPT ![ref[t]] = Appended(@, call[t])]
        /\ Goto(t, "start")
        /\ UNCHANGED <<target, ref, call>>
  /\ UNCHANGED <<g, enabled, process, calls>>

\* The rest of it, under the lock taken again.
StartWorker(t) ==
  /\ At(t, "start")
  /\ raced' = ~objects[ref[t]].live
  /\ \/ raced' /\ UNCHANGED objects
     \/ /\ ~raced'
        /\ \E failed \in IF "start" \in Faults THEN BOOLEAN ELSE {FALSE} :
             objects' = [objects EXCEPT ![ref[t]] = Started(@, failed)]
  /\ Return(t)
  /\ UNCHANGED <<g, enabled, process, calls>>

\* The worker of an object delivers what waits.
Work ==
  /\ ~raced
  /\ \E i \in DOMAIN objects :
       /\ objects[i].worker = "running" /\ objects[i].waiting # {}
       /\ objects' = [objects EXCEPT ![i].waiting = {}]
  /\ UNCHANGED <<g, enabled, control, process, calls, raced>>

-----------------------------------------------------------------------------
(* The end of the process, and reset_for_testing, on Main *)

OthersOut == \A t \in Others : pc[t] = "idle"

\* Mutant: the hook starts where the last phase stopped.
ExitWithoutReset ==
  /\ At(Main, "idle") /\ phase = "running"
  /\ phase' = IF hooked THEN "hook" ELSE "hooked"
  /\ step' = IF hooked THEN step ELSE 1
  /\ UNCHANGED <<g, objects, enabled, control, hooked, resets, skipped, calls, raced>>

\* return from main() or std::exit(); the hook runs only if it was registered.
Exit ==
  /\ At(Main, "idle") /\ phase = "running"
  /\ phase' = IF hooked THEN "hook" ELSE "hooked"
  /\ step' = 1
  /\ UNCHANGED <<g, objects, enabled, control, hooked, resets, skipped, calls, raced>>

\* Both buffers hang on the test of g_metric_buffer: without one neither is looked
\* at, with one the infrastructure buffer is taken to be there.
HookStep ==
  /\ ~raced /\ phase = "hook"
  /\ LET c == HookOrder[step]
         next == IF c = "metric" /\ g[c] = 0 THEN step + 2 ELSE step + 1
     IN  /\ \E flushed \in Flushes :
              objects' = IF g[c] = 0 THEN objects ELSE [objects EXCEPT ![g[c]] = Shutdown(@, flushed)]
         /\ raced' = (c = "infrastructure" /\ g[c] = 0)
         /\ phase' = IF next > Len(HookOrder) THEN "hooked" ELSE "hook"
         /\ step' = IF next > Len(HookOrder) THEN 1 ELSE next
  /\ UNCHANGED <<g, enabled, control, hooked, resets, skipped, calls>>

HookThrows ==
  /\ ~raced /\ phase = "hook" /\ "throw" \in Faults /\ g[HookOrder[step]] # 0
  /\ phase' = "hooked" /\ step' = 1 /\ skipped' = TRUE
  /\ UNCHANGED <<g, objects, enabled, control, hooked, resets, calls, raced>>

DestroyGlobal(c, last) ==
  /\ objects' = IF g[c] = 0 THEN objects ELSE [objects EXCEPT ![g[c]] = last]
  /\ g' = [g EXCEPT ![c] = 0]

StaticStep ==
  /\ ~raced /\ OthersOut
  /\ (phase = "hooked" /\ pc[Main] = "idle") \/ phase = "statics"
  /\ LET c == StaticsOrder[step] IN
       \E flushed \in Flushes : DestroyGlobal(c, Destroy(objects[g[c]], flushed))
  /\ phase' = IF step = Len(StaticsOrder) THEN "over" ELSE "statics"
  /\ step' = step + 1
  /\ UNCHANGED <<enabled, control, hooked, resets, skipped, calls, raced>>

ResetBegin ==
  /\ At(Main, "idle") /\ OthersOut /\ phase = "running" /\ resets < MaxResets
  /\ phase' = "reset" /\ step' = 1 /\ resets' = resets + 1
  /\ UNCHANGED <<g, objects, enabled, control, hooked, skipped, calls, raced>>

\* The flusher, the buffers and the queues of traces and changes are discarded,
\* the delivery queue is only destroyed.
ResetStep ==
  /\ ~raced /\ phase = "reset"
  /\ LET c == ResetOrder[step]
         o == objects[g[c]]
     IN  DestroyGlobal(c, Destroy(IF c = "delivery" THEN o ELSE Discard(o), TRUE))
  /\ phase' = IF step = Len(ResetOrder) THEN "running" ELSE "reset"
  /\ step' = IF step = Len(ResetOrder) THEN 0 ELSE step + 1
  /\ UNCHANGED <<enabled, control, hooked, resets, skipped, calls, raced>>

-----------------------------------------------------------------------------

Next ==
  \/ \E t \in Threads :
       \/ CallBegin(t) \/ BuildConfiguration(t) \/ Initialize(t) \/ Test(t)
       \/ Build(t) \/ BuildNext(t) \/ Enter(t) \/ Capture(t) \/ StartWorker(t)
  \/ Work \/ Exit \/ HookStep \/ HookThrows \/ StaticStep \/ ResetBegin \/ ResetStep

Spec == Init /\ [][Next]_vars

-----------------------------------------------------------------------------

\* As long as no two first calls meet, a running worker is the only one of its
\* component, its object is the one its global points at, and the configuration
\* it reads exists: at exit, after a reset, and while others are still calling.
WorkersAreReachable ==
  ~raced =>
    \A i \in DOMAIN objects : objects[i].worker = "running" =>
      objects[i].live /\ g[objects[i].of] = i /\ g["config"] # 0 /\ phase # "over"

\* When the hook has run to its end, every worker left belongs to an object built
\* since the exit began: the hook had already passed it, or nothing had been built.
HookLeavesNoWorker ==
  phase \in {"hooked", "statics"} /\ ~skipped =>
    \A i \in DOMAIN objects : objects[i].worker = "running" => objects[i].born \in {"hook", "hooked"}

\* What a queue still holds once it was shut down are captures that were not done when
\* shutdown() came: appended, with no worker made sure of, or appended later. A capture
\* that had returned by then is lost only if the worker could not be started. What a
\* buffer holds when it is gone, its last flush could not send, whenever it came.
OnlyLateCapturesAreLost ==
  ~raced =>
    \A i \in DOMAIN objects :
      /\ objects[i].of \in Queues /\ objects[i].stopped =>
           objects[i].waiting \subseteq objects[i].late \/ objects[i].worker = "failed"
      /\ objects[i].of \in Buffers /\ ~objects[i].live =>
           objects[i].waiting = {} \/ objects[i].refused

=============================================================================
