------------------------- MODULE TracePipeline_proofs -------------------------
(***************************************************************************)
(* Theorems about Tracing and TracePipeline, for every set of callers, any *)
(* number of spans and traces, and every limit.                            *)
(***************************************************************************)
EXTENDS TracePipeline, SpanQueue_proofs

-----------------------------------------------------------------------------
(* The invariant *)

Sorted(s) == \A i, k \in 1..Len(s) : i < k => s[i] < s[k]

\* What is known of the ids: a span is younger than those open around it when it was
\* drawn, which are of the same trace and stacked by age; one that a scope object still
\* holds has not ended, and none ends twice.
DrawnInv ==
  /\ scopes \subseteq 1..(nextId - 1)
  /\ \A id \in 1..(nextId - 1) :
       /\ home[id] <= id /\ Sorted(under[id])
       /\ \A x \in ToSet(under[id]) : x < id /\ home[x] = home[id]
  /\ \A k \in 1..Len(closed) : closed[k].id < nextId /\ closed[k].id \notin scopes
  /\ \A k, m \in 1..Len(closed) : closed[k].id = closed[m].id => k = m

\* An owner ends at most one trace.
OwnersInv == Len(finished) + owners <= made

\* Traces are told apart by their roots.
RootInv ==
  /\ \A t \in Callers : \A b \in trace[t] : b.root < nextId
  /\ \A i \in 1..Len(finished) : finished[i].buffer.root < nextId
  /\ \A t, u \in Callers : \A b \in trace[t], c \in trace[u] :
       b.root = c.root => t = u /\ b = c
  /\ \A i, k \in 1..Len(finished) :
       finished[i].buffer.root = finished[k].buffer.root => i = k
  /\ \A i \in 1..Len(finished), t \in Callers : \A b \in trace[t] :
       finished[i].buffer.root # b.root

\* The span of this id ended in the trace it was drawn for.
ClosedAtHome(id) == [id |-> id, in |-> home[id]] \in ToSet(closed)

\* The stack of an open trace, in the order of age, is what was opened there and has
\* not ended there.  So below a span are those opened around it that have not, and
\* a scope object's span is on the stack of its trace while that is open.
StackOK(b) ==
  /\ Sorted(b.open)
  /\ \A x \in ToSet(b.open) :
       /\ x < nextId /\ home[x] = b.root /\ ~ClosedAtHome(x)
       /\ \A y \in ToSet(b.open) : y < x => y \in ToSet(under[x])
       /\ \A y \in ToSet(under[x]) : ClosedAtHome(y) \/ y \in ToSet(b.open)
  /\ \A id \in scopes : home[id] = b.root => id \in ToSet(b.open)

StackInv == \A t \in Callers : \A b \in trace[t] : StackOK(b)

\* What a buffer holds are spans that have ended there.
SpanInv ==
  \A b \in AllBuffers : \A r \in ToSet(b.spans) : [id |-> r.id, in |-> b.root] \in ToSet(closed)

TraceInv ==
  /\ TraceTypeOK /\ DrawnInv /\ OwnersInv /\ RootInv /\ StackInv /\ SpanInv
  /\ ParentWasOpen /\ PayloadIsTree

\* A payload is a trace that was to be sent, slow enough and ended by the thread that
\* pushes it, and younger than what that thread pushed before.
PushInv ==
  /\ \A i \in 1..Len(finished) : finished[i].sent => finished[i].buffer.send /\ finished[i].slow
  /\ \A k \in 1..Len(payloads) : payloads[k] \in 1..Len(finished) /\ finished[payloads[k]].sent
  /\ \A k, m \in 1..Len(payloads) :
       k < m /\ finished[payloads[k]].by = finished[payloads[m]].by => payloads[k] < payloads[m]
  /\ \A t \in Callers : pc[t] = "push" =>
       /\ arg[t] \in 1..Len(finished) /\ finished[arg[t]].by = t /\ finished[arg[t]].sent
       /\ \A k \in 1..Len(payloads) : finished[payloads[k]].by = t => payloads[k] < arg[t]

-----------------------------------------------------------------------------
(* Sequences *)

\* The members of a sequence, by their places.
LEMMA MemberAt ==
  ASSUME NEW S, NEW s \in Seq(S)
  PROVE  /\ Len(s) \in Nat /\ DOMAIN s = 1..Len(s)
         /\ \A i \in 1..Len(s) : s[i] \in S
         /\ ToSet(s) = {s[i] : i \in 1..Len(s)}
         /\ ToSet(s) \subseteq S
  BY LenProperties, ElementOfSeq DEF ToSet

\* Appending adds one member.
LEMMA AppendSet ==
  ASSUME NEW S, NEW s \in Seq(S), NEW x \in S
  PROVE  /\ Append(s, x) \in Seq(S) /\ Len(Append(s, x)) = Len(s) + 1
         /\ Append(s, x)[Len(s) + 1] = x /\ \A i \in 1..Len(s) : Append(s, x)[i] = s[i]
         /\ ToSet(Append(s, x)) = ToSet(s) \cup {x}
<1>1. /\ Append(s, x) \in Seq(S) /\ Len(Append(s, x)) = Len(s) + 1 /\ Len(s) \in Nat
      /\ Append(s, x)[Len(s) + 1] = x /\ \A i \in 1..Len(s) : Append(s, x)[i] = s[i]
  BY AppendProperties, LenProperties
<1>2. /\ ToSet(s) = {s[i] : i \in 1..Len(s)}
      /\ ToSet(Append(s, x)) = {Append(s, x)[i] : i \in 1..(Len(s) + 1)}
  BY <1>1, MemberAt
<1>3. ASSUME NEW y PROVE y \in ToSet(Append(s, x)) <=> y \in ToSet(s) \cup {x}
  BY <1>1, <1>2
<1>4. QED
  BY <1>1, <1>3

\* The greatest of a set of numbers is its maximum.
LEMMA MaxIs ==
  ASSUME NEW S \in SUBSET Int, NEW m \in S, \A y \in S : y <= m
  PROVE  Max(S) = m
<1>1. \E x \in S : \A y \in S : x >= y
  OBVIOUS
<1>2. Max(S) \in S /\ \A y \in S : Max(S) >= y
  BY <1>1 DEF Max
<1>3. Max(S) >= m /\ m >= Max(S) /\ m \in Int /\ Max(S) \in Int
  BY <1>2
<1>4. QED
  BY <1>3

\* A sorted sequence has an id at one place, which Position finds; without it the
\* sequence is sorted and has all its other members.
LEMMA WithoutSet ==
  ASSUME NEW s \in Seq(Ids), Sorted(s), NEW id
  PROVE  /\ Position(s, id) = 0 <=> id \notin ToSet(s)
         /\ Position(s, id) # 0 => Position(s, id) \in 1..Len(s) /\ s[Position(s, id)] = id
         /\ Without(s, id) \in Seq(Ids) /\ Sorted(Without(s, id))
         /\ ToSet(Without(s, id)) = ToSet(s) \ {id}
<1> DEFINE i == Position(s, id)
<1>1. /\ Len(s) \in Nat /\ DOMAIN s = 1..Len(s) /\ ToSet(s) = {s[k] : k \in 1..Len(s)}
      /\ \A k \in 1..Len(s) : s[k] \in Int
  <2>1. \A k \in 1..Len(s) : s[k] \in Ids
    BY MemberAt
  <2>2. QED
    BY <2>1, MemberAt DEF Ids
<1>2. CASE id \notin ToSet(s)
  <2>1. i = 0
    BY <1>1, <1>2 DEF Position
  <2>2. QED
    BY <1>1, <1>2, <2>1 DEF Without
<1>3. CASE id \in ToSet(s)
  <2>1. i \in 1..Len(s) /\ s[i] = id
    BY <1>1, <1>3 DEF Position
  <2> DEFINE w == Without(s, id)
             n == Len(s) - 1
  <2>2. w = SubSeq(s, 1, i - 1) \o SubSeq(s, i + 1, Len(s))
    <3>1. i # 0
      BY <1>1, <2>1
    <3>2. QED
      BY <3>1, Zenon DEF Without, RemoveAt
  <2>3. /\ SubSeq(s, 1, i - 1) \in Seq(Ids) /\ Len(SubSeq(s, 1, i - 1)) = i - 1
        /\ \A k \in 1..(i - 1) : SubSeq(s, 1, i - 1)[k] = s[k]
    <3>1. 1 \in 1..(Len(s) + 1) /\ i - 1 \in (1 - 1)..Len(s)
      BY <1>1, <2>1
    <3>2. QED
      BY <1>1, <2>1, <3>1, SubSeqProperties
  <2>4. /\ SubSeq(s, i + 1, Len(s)) \in Seq(Ids) /\ Len(SubSeq(s, i + 1, Len(s))) = Len(s) - i
        /\ \A k \in 1..(Len(s) - i) : SubSeq(s, i + 1, Len(s))[k] = s[i + k]
    <3> DEFINE m == i + 1
               b == SubSeq(s, m, Len(s))
    <3>1. m \in Int /\ Len(s) \in Int /\ m <= Len(s) + 1 /\ \A k \in m..Len(s) : s[k] \in Ids
      BY <1>1, <2>1, MemberAt
    <3> HIDE DEF m
    <3>2. /\ b \in Seq(Ids) /\ Len(b) = (IF m <= Len(s) THEN Len(s) - m + 1 ELSE 0)
          /\ \A k \in 1..(Len(s) - m + 1) : b[k] = s[m + k - 1]
      BY <3>1, SubSeqProperties
    <3>3. \A k \in 1..(Len(s) - i) : k \in 1..(Len(s) - m + 1) /\ m + k - 1 = i + k
      BY <1>1, <2>1 DEF m
    <3>4. Len(b) = Len(s) - i
      BY <1>1, <2>1, <3>1, <3>2 DEF m
    <3>5. \A k \in 1..(Len(s) - i) : b[k] = s[i + k]
      BY <3>2, <3>3
    <3>6. QED
      BY <3>2, <3>4, <3>5 DEF m
  <2>5. /\ w \in Seq(Ids) /\ Len(w) = n
        /\ \A k \in 1..n : w[k] = IF k < i THEN s[k] ELSE s[k + 1]
    <3> DEFINE a == SubSeq(s, 1, i - 1)
               b == SubSeq(s, i + 1, Len(s))
    <3>1. /\ a \o b \in Seq(Ids) /\ Len(a \o b) = Len(a) + Len(b)
          /\ \A k \in 1..(Len(a) + Len(b)) : (a \o b)[k] = IF k <= Len(a) THEN a[k] ELSE b[k - Len(a)]
      BY <2>3, <2>4, ConcatProperties
    <3>2. i \in Int /\ Len(a) = i - 1 /\ Len(b) = Len(s) - i /\ w = a \o b
      BY <1>1, <2>1, <2>2, <2>3, <2>4
    <3> HIDE DEF a, b, w, i
    <3>3. ASSUME NEW k \in 1..n PROVE w[k] = IF k < i THEN s[k] ELSE s[k + 1]
      <4>1. w[k] = IF k <= i - 1 THEN a[k] ELSE b[k - (i - 1)]
        <5>1. k \in 1..(Len(a) + Len(b))
          BY <1>1, <3>2
        <5>2. (a \o b)[k] = IF k <= Len(a) THEN a[k] ELSE b[k - Len(a)]
          BY <3>1, <5>1
        <5>3. QED
          BY <3>2, <5>2
      <4>2. CASE k <= i - 1
        <5>1. a[k] = s[k]
          BY <2>3, <3>2, <4>2 DEF a, i
        <5>2. QED
          BY <3>2, <4>1, <4>2, <5>1
      <4>3. CASE ~(k <= i - 1)
        <5>1. k - (i - 1) \in 1..(Len(s) - i) /\ i + (k - (i - 1)) = k + 1
          BY <1>1, <2>1, <3>2, <4>3 DEF i
        <5>2. b[k - (i - 1)] = s[k + 1]
          BY <2>4, <5>1 DEF b, i
        <5>3. QED
          BY <1>1, <3>2, <4>1, <4>3, <5>2
      <4>4. QED
        BY <4>2, <4>3
    <3>4. w \in Seq(Ids) /\ Len(w) = n
      <4>1. w \in Seq(Ids) /\ Len(w) = Len(a) + Len(b)
        BY <3>1, <3>2, Zenon
      <4>2. Len(a) + Len(b) = n
        BY <1>1, <3>2
      <4>3. QED
        BY <4>1, <4>2
    <3>5. QED
      BY <3>3, <3>4
  <2>6. ToSet(w) = {w[k] : k \in 1..n}
    BY <2>5, MemberAt
  <2>7. Sorted(w)
    BY <1>1, <2>1, <2>5 DEF Sorted
  <2>8. ASSUME NEW x PROVE x \in ToSet(w) <=> x \in ToSet(s) \ {id}
    <3>1. ASSUME x \in ToSet(w) PROVE x \in ToSet(s) /\ x # id
      BY <1>1, <2>1, <2>5, <2>6, <3>1 DEF Sorted
    <3>2. ASSUME x \in ToSet(s), x # id PROVE x \in ToSet(w)
      <4>1. PICK k \in 1..Len(s) : s[k] = x
        BY <1>1, <3>2
      <4>2. CASE k < i
        <5>1. k \in 1..n /\ w[k] = x
          BY <1>1, <2>1, <2>5, <4>1, <4>2
        <5>2. QED
          BY <2>6, <5>1
      <4>3. CASE k > i
        <5>1. k - 1 \in 1..n /\ w[k - 1] = x
          BY <1>1, <2>1, <2>5, <4>1, <4>3
        <5>2. QED
          BY <2>6, <5>1
      <4>4. k # i
        BY <2>1, <3>2, <4>1
      <4>5. QED
        BY <1>1, <2>1, <4>2, <4>3, <4>4
    <3>3. QED
      BY <3>1, <3>2
  <2>9. QED
    BY <1>3, <2>1, <2>5, <2>7, <2>8
<1>4. QED
  BY <1>2, <1>3

-----------------------------------------------------------------------------
(* What the types say *)

LEMMA BufferFacts ==
  ASSUME NEW b \in Buffers
  PROVE  /\ b.root \in Ids /\ b.spans \in Seq(SpanRecords) /\ b.open \in Seq(Ids)
         /\ Len(b.spans) \in Nat /\ DOMAIN b.spans = 1..Len(b.spans)
         /\ \A i \in 1..Len(b.spans) : b.spans[i] \in SpanRecords
         /\ ToSet(b.spans) = {b.spans[i] : i \in 1..Len(b.spans)}
         /\ ToSet(b.spans) \subseteq SpanRecords
         /\ Len(b.open) \in Nat
         /\ \A i \in 1..Len(b.open) : b.open[i] \in Ids /\ b.open[i] \in Int
         /\ ToSet(b.open) = {b.open[i] : i \in 1..Len(b.open)}
         /\ ToSet(b.open) \subseteq Ids
<1>1. b.root \in Ids /\ b.spans \in Seq(SpanRecords) /\ b.open \in Seq(Ids)
  BY DEF Buffers
<1>2. \A x \in Ids : x \in Int
  BY DEF Ids
<1>3. QED
  BY <1>1, <1>2, MemberAt

LEMMA IdFacts ==
  ASSUME TraceTypeOK
  PROVE  /\ nextId \in Nat /\ nextId >= 1 /\ Ids \subseteq Nat \ {0} /\ scopes \subseteq Ids
         /\ 1..(nextId - 1) \subseteq Ids
         /\ Len(under) = nextId - 1 /\ DOMAIN under = 1..(nextId - 1)
         /\ Len(home) = nextId - 1 /\ DOMAIN home = 1..(nextId - 1)
         /\ \A id \in 1..(nextId - 1) :
              /\ under[id] \in Seq(Ids) /\ home[id] \in Ids
              /\ Len(under[id]) \in Nat /\ DOMAIN under[id] = 1..Len(under[id])
              /\ ToSet(under[id]) = {under[id][k] : k \in 1..Len(under[id])}
              /\ ToSet(under[id]) \subseteq Ids
         /\ Len(closed) \in Nat /\ DOMAIN closed = 1..Len(closed)
         /\ \A k \in 1..Len(closed) : closed[k].id \in Ids /\ closed[k].in \in Ids
                                      /\ closed[k] = [id |-> closed[k].id, in |-> closed[k].in]
         /\ ToSet(closed) = {closed[k] : k \in 1..Len(closed)}
<1>1. /\ nextId \in 1..(MaxIds + 1) /\ MaxIds \in Nat /\ scopes \subseteq Ids
      /\ under \in Seq(Seq(Ids)) /\ home \in Seq(Ids)
      /\ Len(under) = nextId - 1 /\ Len(home) = nextId - 1
      /\ closed \in Seq(SpanEnds)
  BY TracingAssumption DEF TraceTypeOK
<1>2. nextId \in Nat /\ nextId >= 1 /\ Ids \subseteq Nat \ {0} /\ 1..(nextId - 1) \subseteq Ids
  BY <1>1 DEF Ids
<1>3. /\ DOMAIN under = 1..(nextId - 1) /\ \A id \in 1..(nextId - 1) : under[id] \in Seq(Ids)
  BY <1>1, MemberAt
<1>4. /\ DOMAIN home = 1..(nextId - 1) /\ \A id \in 1..(nextId - 1) : home[id] \in Ids
  BY <1>1, MemberAt
<1>5. /\ Len(closed) \in Nat /\ DOMAIN closed = 1..Len(closed)
      /\ \A k \in 1..Len(closed) : closed[k] \in SpanEnds
      /\ ToSet(closed) = {closed[k] : k \in 1..Len(closed)}
  BY <1>1, MemberAt
<1>6. ASSUME NEW id \in 1..(nextId - 1)
      PROVE  /\ Len(under[id]) \in Nat /\ DOMAIN under[id] = 1..Len(under[id])
             /\ ToSet(under[id]) = {under[id][k] : k \in 1..Len(under[id])}
             /\ ToSet(under[id]) \subseteq Ids
  BY <1>3, <1>6, MemberAt
<1>7. \A k \in 1..Len(closed) : closed[k].id \in Ids /\ closed[k].in \in Ids
                                /\ closed[k] = [id |-> closed[k].id, in |-> closed[k].in]
  BY <1>5 DEF SpanEnds
<1>8. QED
  BY <1>1, <1>2, <1>3, <1>4, <1>5, <1>6, <1>7

LEMMA BufferTypes ==
  ASSUME TraceTypeOK
  PROVE  /\ DOMAIN trace = Callers
         /\ \A t \in Callers : \A b \in trace[t] : b \in Buffers /\ trace[t] = {b}
         /\ Len(finished) \in Nat /\ DOMAIN finished = 1..Len(finished)
         /\ \A i \in 1..Len(finished) : finished[i] \in FinishedTraces /\ finished[i].buffer \in Buffers
         /\ AllBuffers = {finished[i].buffer : i \in 1..Len(finished)} \cup UNION {trace[t] : t \in Callers}
         /\ AllBuffers \subseteq Buffers
<1>1. /\ trace \in [Callers -> SUBSET Buffers] /\ \A t \in Callers : \A b, c \in trace[t] : b = c
      /\ finished \in Seq(FinishedTraces)
  BY DEF TraceTypeOK
<1>2. /\ Len(finished) \in Nat /\ DOMAIN finished = 1..Len(finished)
      /\ \A i \in 1..Len(finished) : finished[i] \in FinishedTraces
      /\ ToSet(finished) = {finished[i] : i \in 1..Len(finished)}
  BY <1>1, MemberAt
<1>3. \A i \in 1..Len(finished) : finished[i].buffer \in Buffers
  BY <1>2 DEF FinishedTraces
<1>4. AllBuffers = {finished[i].buffer : i \in 1..Len(finished)} \cup UNION {trace[t] : t \in Callers}
  BY <1>2 DEF AllBuffers
<1>5. ASSUME NEW t \in Callers, NEW b \in trace[t] PROVE b \in Buffers /\ trace[t] = {b}
  BY <1>1, <1>5
<1>6. QED
  BY <1>1, <1>2, <1>3, <1>4, <1>5

-----------------------------------------------------------------------------
(* What a step can do to the traces: nothing, start one, open a span in one, *)
(* end a span in one, or end one.                                            *)

\* n is s, a sequence over S, with x at its end.
Longer(S, s, x, n) ==
  /\ n \in Seq(S) /\ Len(n) = Len(s) + 1 /\ n[Len(s) + 1] = x /\ \A i \in 1..Len(s) : n[i] = s[i]
  /\ ToSet(n) = ToSet(s) \cup {x}

Drew(root, stack) ==
  /\ nextId \in Ids /\ nextId' = nextId + 1
  /\ Longer(Seq(Ids), under, stack, under') /\ Longer(Ids, home, root, home')

\* The trace open on t, if any, becomes c.
Turned(t, c) == c \in Buffers /\ trace' = [trace EXCEPT ![t] = {c}]

Quiet ==
  /\ UNCHANGED <<trace, drawn, ended, finished>>
  /\ scopes' \subseteq scopes

Started(t, c) ==
  /\ trace[t] = {} /\ Turned(t, c)
  /\ c.root = nextId /\ c.spans = <<>> /\ c.open = <<>>
  /\ Drew(nextId, <<>>)
  /\ UNCHANGED <<scopes, ended, finished>>

Opened(t, b, c) ==
  /\ trace[t] = {b} /\ Turned(t, c)
  /\ c.root = b.root /\ c.spans = b.spans /\ Longer(Ids, b.open, nextId, c.open)
  /\ Drew(b.root, b.open)
  /\ scopes' = scopes \cup {nextId}
  /\ UNCHANGED <<ended, finished>>

\* What is open below an id.
Below(b, id) == {y \in ToSet(b.open) : y < id}

\* The parent that a span is recorded under: the root, or what is open just below it.
Nearest(b, id, parent) ==
  IF Below(b, id) = {} \/ (id # nextId /\ id \notin ToSet(b.open))
  THEN parent = b.root
  ELSE parent \in Below(b, id) /\ \A y \in Below(b, id) : y <= parent

SpanOver(t, b, c, id, parent) ==
  /\ trace[t] = {b} /\ Turned(t, c)
  /\ \/ id \in scopes /\ UNCHANGED drawn
     \/ id = nextId /\ Drew(b.root, b.open)
  /\ scopes' = scopes \ {id}
  /\ c.root = b.root /\ Sorted(c.open) /\ ToSet(c.open) = ToSet(b.open) \ {id}
  /\ Nearest(b, id, parent)
  /\ IF Full(b) THEN c.spans = b.spans /\ dropped' = dropped \cup {id}
     ELSE Longer(SpanRecords, b.spans, [id |-> id, parent |-> parent], c.spans) /\ dropped' = dropped
  /\ Longer(SpanEnds, closed, [id |-> id, in |-> b.root], closed')
  /\ UNCHANGED finished

TraceOver(t, b) ==
  /\ trace[t] = {b} /\ trace' = [trace EXCEPT ![t] = {}]
  /\ \E f \in FinishedTraces : f.buffer = b /\ Longer(FinishedTraces, finished, f, finished')
  /\ UNCHANGED <<scopes, drawn, ended>>

Effect ==
  \/ Quiet
  \/ \E t \in Callers :
       \/ \E c \in Buffers : Started(t, c)
       \/ \E b, c \in Buffers : Opened(t, b, c)
       \/ \E b, c \in Buffers, id \in Ids, parent \in Ids : SpanOver(t, b, c, id, parent)
       \/ \E b \in Buffers : TraceOver(t, b)

\* An id drawn for a trace that is open.
LEMMA DrawIs ==
  ASSUME TraceTypeOK, NEW root \in Ids, NEW stack \in Seq(Ids), Draw(root, stack)
  PROVE  Drew(root, stack)
<1>1. /\ nextId \in Ids /\ nextId' = nextId + 1
      /\ under' = Append(under, stack) /\ home' = Append(home, root)
      /\ under \in Seq(Seq(Ids)) /\ home \in Seq(Ids)
      /\ Len(under) = nextId - 1 /\ Len(home) = nextId - 1
  BY DEF Draw, TraceTypeOK
<1>2. Longer(Seq(Ids), under, stack, under')
  BY <1>1, AppendSet DEF Longer
<1>3. Longer(Ids, home, root, home')
  BY <1>1, AppendSet DEF Longer
<1>4. QED
  BY <1>1, <1>2, <1>3 DEF Drew

\* A record in a buffer leaves the rest of the buffer as it is.
LEMMA RecordIs ==
  ASSUME NEW b \in Buffers, NEW id \in Ids, NEW parent \in Ids
  PROVE  LET c == Record(b, id, parent)
         IN  /\ c \in Buffers /\ c.root = b.root /\ c.open = b.open
             /\ IF Full(b) THEN c.spans = b.spans
                ELSE Longer(SpanRecords, b.spans, [id |-> id, parent |-> parent], c.spans)
<1> DEFINE c == Record(b, id, parent)
           r == [id |-> id, parent |-> parent]
<1>1. b.spans \in Seq(SpanRecords) /\ r \in SpanRecords
  BY BufferFacts DEF SpanRecords
<1>2. CASE Full(b)
  BY <1>2 DEF Record
<1>3. CASE ~Full(b)
  <2>1. c = [b EXCEPT !.spans = Append(@, r)]
    BY <1>3 DEF Record
  <2>2. Append(b.spans, r) \in Seq(SpanRecords) /\ Longer(SpanRecords, b.spans, r, Append(b.spans, r))
    BY <1>1, AppendSet DEF Longer
  <2>3. c \in Buffers /\ c.root = b.root /\ c.open = b.open /\ c.spans = Append(b.spans, r)
    BY <2>1, <2>2 DEF Buffers
  <2>4. QED
    BY <1>3, <2>2, <2>3
<1>4. QED
  BY <1>2, <1>3

\* close() finds the nearest open span below, and takes the id off the stack.
LEMMA CloseIs ==
  ASSUME NEW b \in Buffers, Sorted(b.open), NEW id \in Ids, id # nextId
  PROVE  LET c == Close(b, id)
         IN  /\ c \in Buffers /\ c.root = b.root /\ Sorted(c.open) /\ ToSet(c.open) = ToSet(b.open) \ {id}
             /\ \E parent \in Ids :
                  /\ Nearest(b, id, parent)
                  /\ IF Full(b) THEN c.spans = b.spans
                     ELSE Longer(SpanRecords, b.spans, [id |-> id, parent |-> parent], c.spans)
<1> DEFINE i == Position(b.open, id)
           a == [b EXCEPT !.open = Without(@, id)]
           parent == Inside(b, IF i = 0 THEN 0 ELSE i - 1)
           c == Close(b, id)
<1>1. /\ b.open \in Seq(Ids) /\ Len(b.open) \in Nat
      /\ \A k \in 1..Len(b.open) : b.open[k] \in Ids /\ b.open[k] \in Int
      /\ ToSet(b.open) = {b.open[k] : k \in 1..Len(b.open)}
      /\ b.root \in Ids /\ id \in Int
  <2>1. id \in Int
    BY DEF Ids
  <2>2. QED
    BY <2>1, BufferFacts
<1>2. /\ i = 0 <=> id \notin ToSet(b.open)
      /\ i # 0 => i \in 1..Len(b.open) /\ b.open[i] = id
      /\ Without(b.open, id) \in Seq(Ids) /\ Sorted(Without(b.open, id))
      /\ ToSet(Without(b.open, id)) = ToSet(b.open) \ {id}
  BY <1>1, WithoutSet
<1>3. parent \in Ids /\ Nearest(b, id, parent)
  <2>1. CASE i = 0
    BY <1>1, <1>2, <2>1 DEF Inside, Nearest
  <2>2. CASE i = 1
    <3>1. parent = b.root
      BY <2>2 DEF Inside
    <3>2. Below(b, id) = {}
      BY <1>1, <1>2, <2>2 DEF Below, Sorted
    <3>3. QED
      BY <1>1, <3>1, <3>2 DEF Nearest
  <2>3. CASE i # 0 /\ i # 1
    <3>1. i \in 2..Len(b.open) /\ b.open[i] = id
      BY <1>1, <1>2, <2>3
    <3>2. parent = b.open[i - 1]
      BY <3>1 DEF Inside
    <3>3. parent \in Ids /\ parent \in Below(b, id)
      BY <1>1, <3>1, <3>2 DEF Below, Sorted
    <3>4. ASSUME NEW y \in Below(b, id) PROVE y <= parent
      <4>1. PICK k \in 1..Len(b.open) : b.open[k] = y
        BY <1>1 DEF Below
      <4>2. y < id
        BY DEF Below
      <4>3. k < i
        BY <1>1, <3>1, <4>1, <4>2 DEF Sorted
      <4>4. QED
        BY <1>1, <3>1, <3>2, <4>1, <4>3 DEF Sorted
    <3>5. id \in ToSet(b.open)
      BY <1>1, <3>1
    <3>6. QED
      BY <3>3, <3>4, <3>5 DEF Nearest
  <2>4. QED
    BY <2>1, <2>2, <2>3
<1>4. a \in Buffers /\ a.root = b.root /\ a.spans = b.spans /\ a.open = Without(b.open, id)
  BY <1>2 DEF Buffers
<1>5. c = Record(a, id, parent) /\ (Full(a) <=> Full(b))
  BY <1>4 DEF Close, Full
<1>6. /\ c \in Buffers /\ c.root = a.root /\ c.open = a.open
      /\ IF Full(a) THEN c.spans = a.spans
         ELSE Longer(SpanRecords, a.spans, [id |-> id, parent |-> parent], c.spans)
  <2>1. parent \in Ids /\ a \in Buffers /\ c = Record(a, id, parent)
    BY <1>3, <1>4, <1>5
  <2> HIDE DEF parent, a, c
  <2>2. QED
    BY <2>1, RecordIs
<1>7. QED
  BY <1>2, <1>3, <1>4, <1>5, <1>6

\* record_span() records under what was opened last.
LEMMA LeafIs ==
  ASSUME NEW b \in Buffers, Sorted(b.open), \A x \in ToSet(b.open) : x < nextId
  PROVE  CurrentParent(b) \in Ids /\ Nearest(b, nextId, CurrentParent(b))
<1>1. /\ Len(b.open) \in Nat /\ \A k \in 1..Len(b.open) : b.open[k] \in Ids /\ b.open[k] \in Int
      /\ ToSet(b.open) = {b.open[k] : k \in 1..Len(b.open)} /\ b.root \in Ids
  BY BufferFacts
<1>2. Below(b, nextId) = ToSet(b.open)
  BY DEF Below
<1>3. CASE Len(b.open) = 0
  BY <1>1, <1>2, <1>3 DEF CurrentParent, Inside, Nearest
<1>4. CASE Len(b.open) # 0
  <2>1. CurrentParent(b) = b.open[Len(b.open)] /\ Len(b.open) \in 1..Len(b.open)
    BY <1>1, <1>4 DEF CurrentParent, Inside
  <2>2. \A k \in 1..Len(b.open) : b.open[k] <= b.open[Len(b.open)]
    BY <1>1, <2>1 DEF Sorted
  <2>3. QED
    BY <1>1, <1>2, <2>1, <2>2 DEF Nearest
<1>5. QED
  BY <1>3, <1>4

LEMMA Effects == ASSUME TraceInv, [TraceNext]_traceVars PROVE Effect
<1>0. /\ TraceTypeOK
      /\ \A t \in Callers : \A b \in trace[t] :
           b \in Buffers /\ trace[t] = {b} /\ Sorted(b.open) /\ \A x \in ToSet(b.open) : x < nextId
      /\ trace = [u \in Callers |-> trace[u]] /\ \A x \in scopes : x \in Ids /\ x < nextId
      /\ nextId \in Nat /\ Ids \subseteq Nat \ {0}
  <2>1. TraceTypeOK /\ trace = [u \in Callers |-> trace[u]]
    BY DEF TraceInv, TraceTypeOK
  <2>2. QED
    BY <2>1, BufferTypes, IdFacts DEF TraceInv, StackInv, StackOK, DrawnInv
<1>1. ASSUME NEW t \in Callers, TraceBegin(t) PROVE Effect
  <2>1. CASE UNCHANGED <<trace, drawn>>
    BY <1>1, <2>1 DEF TraceBegin, Effect, Quiet
  <2>2. ASSUME NEW send \in BOOLEAN, Draw(nextId, <<>>),
               trace' = [trace EXCEPT ![t] =
                 {[root |-> nextId, send |-> send, spans |-> <<>>, open |-> <<>>]}]
        PROVE  Effect
    <3> DEFINE c == [root |-> nextId, send |-> send, spans |-> <<>>, open |-> <<>>]
    <3>1. nextId \in Ids /\ <<>> \in Seq(Ids) /\ <<>> \in Seq(SpanRecords)
      BY <2>2 DEF Draw
    <3>2. Drew(nextId, <<>>)
      BY <1>0, <2>2, <3>1, DrawIs
    <3>3. c \in Buffers
      BY <3>1 DEF Buffers
    <3>4. Started(t, c)
      BY <1>1, <2>2, <3>2, <3>3 DEF TraceBegin, Started, Turned
    <3> HIDE DEF c
    <3>5. QED
      BY <3>3, <3>4 DEF Effect
  <2>3. QED
    BY <1>1, <2>1, <2>2 DEF TraceBegin
<1>2. ASSUME NEW t \in Callers, SpanBegin(t) PROVE Effect
  <2>1. PICK b \in trace[t] : /\ Draw(b.root, b.open)
                              /\ trace' = [trace EXCEPT ![t] = {[b EXCEPT !.open = Append(@, nextId)]}]
    BY <1>2 DEF SpanBegin
  <2> DEFINE c == [b EXCEPT !.open = Append(@, nextId)]
  <2>2. b \in Buffers /\ trace[t] = {b} /\ nextId \in Ids
    BY <1>0, <2>1 DEF Draw
  <2>3. Append(b.open, nextId) \in Seq(Ids) /\ Longer(Ids, b.open, nextId, Append(b.open, nextId))
    BY <2>2, BufferFacts, AppendSet DEF Longer
  <2>4. /\ c \in Buffers /\ c.root = b.root /\ c.spans = b.spans
        /\ c.open = Append(b.open, nextId)
    BY <2>2, <2>3 DEF Buffers
  <2>5. Drew(b.root, b.open)
    BY <1>0, <2>1, <2>2, BufferFacts, DrawIs
  <2>6. Opened(t, b, c)
    BY <1>2, <2>1, <2>2, <2>3, <2>4, <2>5 DEF SpanBegin, Opened, Turned
  <2> HIDE DEF c
  <2>7. QED
    BY <2>2, <2>4, <2>6 DEF Effect
<1>3. ASSUME NEW t \in Callers, SpanEnd(t) PROVE Effect
  <2>1. PICK id \in scopes :
          /\ scopes' = scopes \ {id}
          /\ \/ trace[t] = {} /\ UNCHANGED <<trace, ended>>
             \/ \E b \in trace[t] :
                  trace' = [trace EXCEPT ![t] = {Close(b, id)}] /\ EndSpan(b, id)
    BY <1>3 DEF SpanEnd
  <2>2. CASE UNCHANGED <<trace, ended>>
    BY <1>3, <2>1, <2>2 DEF SpanEnd, Effect, Quiet
  <2>3. ASSUME NEW b \in trace[t], trace' = [trace EXCEPT ![t] = {Close(b, id)}], EndSpan(b, id)
        PROVE  Effect
    <3> DEFINE c == Close(b, id)
    <3>1. b \in Buffers /\ trace[t] = {b} /\ id \in Ids /\ id # nextId /\ Sorted(b.open)
      BY <1>0
    <3>2. /\ c \in Buffers /\ c.root = b.root /\ Sorted(c.open) /\ ToSet(c.open) = ToSet(b.open) \ {id}
          /\ \E parent \in Ids :
               /\ Nearest(b, id, parent)
               /\ IF Full(b) THEN c.spans = b.spans
                  ELSE Longer(SpanRecords, b.spans, [id |-> id, parent |-> parent], c.spans)
      BY <3>1, CloseIs
    <3>3. PICK parent \in Ids :
               /\ Nearest(b, id, parent)
               /\ IF Full(b) THEN c.spans = b.spans
                  ELSE Longer(SpanRecords, b.spans, [id |-> id, parent |-> parent], c.spans)
      BY <3>2
    <3>4. Longer(SpanEnds, closed, [id |-> id, in |-> b.root], closed')
      <4>1. closed \in Seq(SpanEnds) /\ [id |-> id, in |-> b.root] \in SpanEnds
        BY <1>0, <3>1, BufferFacts DEF TraceTypeOK, SpanEnds
      <4>2. QED
        BY <2>3, <4>1, AppendSet DEF EndSpan, Longer
    <3>5. /\ trace' = [trace EXCEPT ![t] = {c}] /\ UNCHANGED <<drawn, finished>>
          /\ dropped' = IF Full(b) THEN dropped \cup {id} ELSE dropped
      BY <1>3, <2>3 DEF SpanEnd, EndSpan
    <3> HIDE DEF c
    <3>6. SpanOver(t, b, c, id, parent)
      BY <2>1, <3>1, <3>2, <3>3, <3>4, <3>5 DEF SpanOver, Turned
    <3>7. QED
      BY <3>1, <3>2, <3>6 DEF Effect
  <2>4. QED
    BY <2>1, <2>2, <2>3
<1>4. ASSUME NEW t \in Callers, RecordSpan(t) PROVE Effect
  <2>1. PICK b \in trace[t] :
          /\ Draw(b.root, b.open)
          /\ trace' = [trace EXCEPT ![t] = {Record(b, nextId, CurrentParent(b))}]
          /\ EndSpan(b, nextId)
    BY <1>4 DEF RecordSpan
  <2> DEFINE parent == CurrentParent(b)
             c == Record(b, nextId, parent)
  <2>2. b \in Buffers /\ trace[t] = {b} /\ nextId \in Ids /\ Sorted(b.open)
    BY <1>0, <2>1 DEF Draw
  <2>3. parent \in Ids /\ Nearest(b, nextId, parent)
    BY <1>0, <2>2, LeafIs
  <2>4. /\ c \in Buffers /\ c.root = b.root /\ c.open = b.open
        /\ IF Full(b) THEN c.spans = b.spans
           ELSE Longer(SpanRecords, b.spans, [id |-> nextId, parent |-> parent], c.spans)
    <3> HIDE DEF parent
    <3>1. QED
      BY <2>2, <2>3, RecordIs
  <2>5. Drew(b.root, b.open)
    BY <1>0, <2>1, <2>2, BufferFacts, DrawIs
  <2>6. Longer(SpanEnds, closed, [id |-> nextId, in |-> b.root], closed')
    <3>1. closed \in Seq(SpanEnds) /\ [id |-> nextId, in |-> b.root] \in SpanEnds
      BY <1>0, <2>2, BufferFacts DEF TraceTypeOK, SpanEnds
    <3>2. QED
      BY <2>1, <3>1, AppendSet DEF EndSpan, Longer
  <2>7. /\ trace' = [trace EXCEPT ![t] = {c}] /\ UNCHANGED finished
        /\ dropped' = IF Full(b) THEN dropped \cup {nextId} ELSE dropped
        /\ scopes' = scopes \ {nextId} /\ ToSet(b.open) = ToSet(b.open) \ {nextId}
    <3>1. nextId \notin scopes /\ nextId \notin ToSet(b.open)
      BY <1>0, <2>1
    <3>2. QED
      BY <1>4, <2>1, <3>1 DEF RecordSpan, EndSpan
  <2> HIDE DEF c, parent
  <2>8. SpanOver(t, b, c, nextId, parent)
    BY <2>2, <2>3, <2>4, <2>5, <2>6, <2>7 DEF SpanOver, Turned
  <2>9. QED
    BY <2>2, <2>3, <2>4, <2>8 DEF Effect
<1>5. ASSUME NEW t \in Callers, TraceEnd(t) PROVE Effect
  <2>1. CASE trace[t] = {} /\ UNCHANGED finished
    <3>1. trace' = trace
      BY <1>0, <1>5, <2>1 DEF TraceEnd
    <3>2. QED
      BY <1>5, <2>1, <3>1 DEF TraceEnd, Effect, Quiet
  <2>2. ASSUME NEW b \in trace[t], NEW slow \in BOOLEAN,
               finished' = Append(finished, [buffer |-> b, by |-> t, slow |-> slow, sent |-> Sent(b, slow)])
        PROVE  Effect
    <3> DEFINE f == [buffer |-> b, by |-> t, slow |-> slow, sent |-> Sent(b, slow)]
    <3>1. b \in Buffers /\ trace[t] = {b} /\ Sent(b, slow) \in BOOLEAN
      BY <1>0 DEF Sent
    <3>2. f \in FinishedTraces /\ f.buffer = b
      BY <3>1 DEF FinishedTraces
    <3>3. Longer(FinishedTraces, finished, f, finished')
      BY <1>0, <2>2, <3>2, AppendSet DEF TraceTypeOK, Longer
    <3> HIDE DEF f
    <3>4. TraceOver(t, b)
      BY <1>5, <3>1, <3>2, <3>3 DEF TraceEnd, TraceOver
    <3>5. QED
      BY <3>1, <3>4 DEF Effect
  <2>3. QED
    BY <1>5, <2>1, <2>2 DEF TraceEnd
<1>6. CASE UNCHANGED traceVars
  BY <1>6 DEF traceVars, Effect, Quiet
<1>7. QED
  BY <1>1, <1>2, <1>3, <1>4, <1>5, <1>6 DEF TraceNext, TraceStep

LEMMA InitTraceInv == TraceInit => TraceInv
<1> SUFFICES ASSUME TraceInit PROVE TraceInv
  OBVIOUS
<1>1. /\ trace = [t \in Callers |-> {}] /\ scopes = {} /\ owners = 0 /\ nextId = 1 /\ made = 0
      /\ under = <<>> /\ home = <<>> /\ closed = <<>> /\ dropped = {} /\ finished = <<>>
  BY DEF TraceInit
<1>2. /\ Len(under) = 0 /\ Len(home) = 0 /\ Len(closed) = 0 /\ Len(finished) = 0
      /\ under \in Seq(Seq(Ids)) /\ home \in Seq(Ids) /\ closed \in Seq(SpanEnds)
      /\ finished \in Seq(FinishedTraces)
  BY <1>1
<1>3. TraceTypeOK
  BY <1>1, <1>2, TracingAssumption DEF TraceTypeOK
<1>4. AllBuffers = {}
  BY <1>1, <1>2, <1>3, BufferTypes
<1>5. DrawnInv /\ OwnersInv /\ RootInv /\ StackInv /\ SpanInv
  BY <1>1, <1>2, <1>4 DEF DrawnInv, OwnersInv, RootInv, StackInv, SpanInv
<1>6. ParentWasOpen /\ PayloadIsTree
  BY <1>4 DEF ParentWasOpen, PayloadIsTree
<1>7. QED
  BY <1>3, <1>5, <1>6 DEF TraceInv

LEMMA StepCounts ==
  ASSUME TraceInv, [TraceNext]_traceVars
  PROVE  made' \in 0..MaxOwners /\ owners' \in 0..made' /\ OwnersInv'
<1>1. /\ made \in 0..MaxOwners /\ owners \in 0..made /\ Len(finished) + owners <= made
      /\ MaxOwners \in Nat /\ Len(finished) \in Nat /\ finished \in Seq(FinishedTraces)
  BY BufferTypes, TracingAssumption DEF TraceInv, TraceTypeOK, OwnersInv
<1> USE <1>1
<1>2. ASSUME NEW t \in Callers, TraceBegin(t)
      PROVE  made' \in 0..MaxOwners /\ owners' \in 0..made' /\ OwnersInv'
  BY <1>2 DEF TraceBegin, OwnersInv
<1>3. ASSUME NEW t \in Callers, SpanBegin(t) \/ SpanEnd(t) \/ RecordSpan(t)
      PROVE  made' \in 0..MaxOwners /\ owners' \in 0..made' /\ OwnersInv'
  BY <1>3 DEF SpanBegin, SpanEnd, RecordSpan, OwnersInv
<1>4. ASSUME NEW t \in Callers, TraceEnd(t)
      PROVE  made' \in 0..MaxOwners /\ owners' \in 0..made' /\ OwnersInv'
  <2>1. Len(finished') <= Len(finished) + 1 /\ Len(finished') \in Nat
    <3>1. ASSUME NEW b \in trace[t], NEW slow \in BOOLEAN,
                 finished' = Append(finished, [buffer |-> b, by |-> t, slow |-> slow, sent |-> Sent(b, slow)])
          PROVE  Len(finished') = Len(finished) + 1
      <4> DEFINE f == [buffer |-> b, by |-> t, slow |-> slow, sent |-> Sent(b, slow)]
      <4>1. f \in FinishedTraces
        BY BufferTypes DEF TraceInv, FinishedTraces, Sent
      <4> HIDE DEF f
      <4>2. finished' = Append(finished, f)
        BY <3>1 DEF f
      <4>3. QED
        BY <1>1, <4>1, <4>2, AppendSet
    <3>2. finished' = finished \/ Len(finished') = Len(finished) + 1
      BY <1>4, <3>1, Zenon DEF TraceEnd
    <3>3. QED
      BY <1>1, <3>2
  <2>2. QED
    BY <1>4, <2>1 DEF TraceEnd, OwnersInv
<1>5. CASE UNCHANGED traceVars
  BY <1>5 DEF traceVars, OwnersInv
<1>6. QED
  BY <1>2, <1>3, <1>4, <1>5 DEF TraceNext, TraceStep

LEMMA StepTraceTypeOK == ASSUME TraceInv, [TraceNext]_traceVars PROVE TraceTypeOK'
<1>1. /\ trace \in [Callers -> SUBSET Buffers] /\ \A t \in Callers : \A b, c \in trace[t] : b = c
      /\ scopes \subseteq Ids /\ dropped \subseteq Ids
      /\ nextId \in 1..(MaxIds + 1) /\ MaxIds \in Nat
      /\ under \in Seq(Seq(Ids)) /\ home \in Seq(Ids)
      /\ Len(under) = nextId - 1 /\ Len(home) = nextId - 1
      /\ closed \in Seq(SpanEnds) /\ finished \in Seq(FinishedTraces)
  BY TracingAssumption DEF TraceInv, TraceTypeOK
<1> DEFINE DataOK ==
      /\ scopes \subseteq Ids /\ dropped \subseteq Ids
      /\ closed \in Seq(SpanEnds) /\ finished \in Seq(FinishedTraces)
           CountOK ==
      /\ nextId \in 1..(MaxIds + 1)
      /\ under \in Seq(Seq(Ids)) /\ home \in Seq(Ids)
      /\ Len(under) = nextId - 1 /\ Len(home) = nextId - 1
           HeldOK ==
      trace \in [Callers -> SUBSET Buffers] /\ \A t \in Callers : \A b, c \in trace[t] : b = c
<1>2. ASSUME Quiet PROVE DataOK' /\ CountOK' /\ HeldOK'
  BY <1>1, <1>2 DEF Quiet, drawn, ended
<1>3. ASSUME NEW root, NEW stack, Drew(root, stack) PROVE CountOK'
  BY <1>1, <1>3 DEF Drew, Longer, Ids
<1>4. ASSUME UNCHANGED drawn PROVE CountOK'
  BY <1>1, <1>4 DEF drawn
<1>5. ASSUME NEW t \in Callers, NEW c, Turned(t, c) PROVE HeldOK'
  BY <1>1, <1>5 DEF Turned
<1>6. ASSUME NEW t \in Callers, NEW c, Started(t, c) PROVE DataOK' /\ CountOK' /\ HeldOK'
  <2>1. DataOK'
    BY <1>1, <1>6 DEF Started, ended
  <2>2. QED
    BY <1>3, <1>5, <1>6, <2>1 DEF Started
<1>7. ASSUME NEW t \in Callers, NEW b, NEW c, Opened(t, b, c) PROVE DataOK' /\ CountOK' /\ HeldOK'
  <2>1. DataOK'
    BY <1>1, <1>7 DEF Opened, ended, Drew
  <2>2. QED
    BY <1>3, <1>5, <1>7, <2>1 DEF Opened
<1>8. ASSUME NEW t \in Callers, NEW b, NEW c, NEW id \in Ids, NEW parent, SpanOver(t, b, c, id, parent)
      PROVE  DataOK' /\ CountOK' /\ HeldOK'
  <2>1. DataOK'
    BY <1>1, <1>8 DEF SpanOver, Longer
  <2>2. QED
    BY <1>3, <1>4, <1>5, <1>8, <2>1 DEF SpanOver
<1>9. ASSUME NEW t \in Callers, NEW b, TraceOver(t, b) PROVE DataOK' /\ CountOK' /\ HeldOK'
  <2>1. DataOK' /\ HeldOK'
    BY <1>1, <1>9 DEF TraceOver, Longer, ended
  <2>2. QED
    BY <1>4, <1>9, <2>1 DEF TraceOver
<1>10. DataOK' /\ CountOK' /\ HeldOK'
  <2> HIDE DEF DataOK, CountOK, HeldOK
  <2>1. QED
    BY Effects, <1>2, <1>6, <1>7, <1>8, <1>9 DEF Effect
<1>11. QED
  BY <1>10, StepCounts DEF TraceTypeOK

-----------------------------------------------------------------------------
(* Ids *)

\* Ids are only added, and what is known of one stays.
LEMMA Grows ==
  ASSUME TraceInv, Effect
  PROVE  /\ nextId' \in Nat /\ nextId <= nextId'
         /\ \A x \in 1..(nextId - 1) :
              x \in 1..(nextId' - 1) /\ under'[x] = under[x] /\ home'[x] = home[x]
         /\ Len(closed) <= Len(closed') /\ \A k \in 1..Len(closed) : closed'[k] = closed[k]
         /\ ToSet(closed) \subseteq ToSet(closed')
         /\ dropped \subseteq dropped'
<1>0. /\ nextId \in Nat /\ nextId >= 1 /\ Len(under) = nextId - 1 /\ Len(home) = nextId - 1
      /\ Len(closed) \in Nat
  BY IdFacts DEF TraceInv
<1> DEFINE IdsStay ==
      /\ nextId' \in Nat /\ nextId <= nextId'
      /\ \A x \in 1..(nextId - 1) :
           x \in 1..(nextId' - 1) /\ under'[x] = under[x] /\ home'[x] = home[x]
           EndsStay ==
      /\ Len(closed) <= Len(closed') /\ \A k \in 1..Len(closed) : closed'[k] = closed[k]
      /\ ToSet(closed) \subseteq ToSet(closed')
      /\ dropped \subseteq dropped'
<1>1. ASSUME NEW root, NEW stack, Drew(root, stack) PROVE IdsStay
  BY <1>0, <1>1 DEF Drew, Longer
<1>2. ASSUME UNCHANGED drawn PROVE IdsStay
  BY <1>0, <1>2 DEF drawn
<1>3. ASSUME UNCHANGED ended PROVE EndsStay
  BY <1>0, <1>3 DEF ended
<1>4. ASSUME NEW t, NEW b, NEW c, NEW id, NEW parent, SpanOver(t, b, c, id, parent) PROVE EndsStay
  BY <1>0, <1>4 DEF SpanOver, Longer
<1>5. IdsStay
  <2> HIDE DEF IdsStay
  <2>1. CASE Quiet
    BY <1>2, <2>1 DEF Quiet, drawn
  <2>2. ASSUME NEW t \in Callers, NEW c, Started(t, c) PROVE IdsStay
    BY <1>1, <2>2 DEF Started
  <2>3. ASSUME NEW t \in Callers, NEW b, NEW c, Opened(t, b, c) PROVE IdsStay
    BY <1>1, <2>3 DEF Opened
  <2>4. ASSUME NEW t \in Callers, NEW b, NEW c, NEW id, NEW parent, SpanOver(t, b, c, id, parent)
        PROVE  IdsStay
    BY <1>1, <1>2, <2>4 DEF SpanOver
  <2>5. ASSUME NEW t \in Callers, NEW b, TraceOver(t, b) PROVE IdsStay
    BY <1>2, <2>5 DEF TraceOver
  <2>6. QED
    BY <2>1, <2>2, <2>3, <2>4, <2>5, Zenon DEF Effect
<1>6. EndsStay
  <2> HIDE DEF EndsStay
  <2>1. CASE Quiet
    BY <1>3, <2>1 DEF Quiet
  <2>2. ASSUME NEW t \in Callers, NEW b, NEW c, Started(t, c) \/ Opened(t, b, c) \/ TraceOver(t, b)
        PROVE  EndsStay
    BY <1>3, <2>2 DEF Started, Opened, TraceOver
  <2>3. QED
    BY <1>4, <2>1, <2>2, Zenon DEF Effect
<1>7. QED
  BY <1>5, <1>6

\* A span that ends has not ended before, and has been drawn.
LEMMA EndsOnce ==
  ASSUME TraceInv, NEW t \in Callers, NEW b, NEW c, NEW id \in Ids, NEW parent,
         SpanOver(t, b, c, id, parent)
  PROVE  /\ b \in Buffers /\ b \in trace[t]
         /\ \A k \in 1..Len(closed) : closed[k].id # id
         /\ id \in Nat /\ id >= 1 /\ id < nextId' /\ id <= nextId
         /\ id = nextId \/ id \in scopes
<1>1. /\ nextId \in Nat /\ scopes \subseteq 1..(nextId - 1) /\ Ids \subseteq Nat \ {0}
      /\ \A k \in 1..Len(closed) : closed[k].id < nextId /\ closed[k].id \notin scopes
  BY IdFacts DEF TraceInv, DrawnInv
<1>2. b \in Buffers /\ b \in trace[t]
  BY BufferTypes DEF TraceInv, SpanOver
<1>3. CASE id \in scopes /\ UNCHANGED drawn
  BY <1>1, <1>2, <1>3 DEF drawn
<1>4. CASE id = nextId /\ Drew(b.root, b.open)
  BY <1>1, <1>2, <1>4 DEF Drew
<1>5. QED
  BY <1>3, <1>4 DEF SpanOver

LEMMA StepDrawnInv == ASSUME TraceInv, Effect PROVE DrawnInv'
<1>0. /\ TraceTypeOK /\ DrawnInv /\ nextId \in Nat /\ nextId >= 1 /\ Ids \subseteq Nat \ {0}
      /\ 1..(nextId - 1) \subseteq Ids
      /\ Len(under) = nextId - 1 /\ Len(home) = nextId - 1
      /\ \A id \in 1..(nextId - 1) : ToSet(under[id]) \subseteq Ids
      /\ Len(closed) \in Nat /\ \A k \in 1..Len(closed) : closed[k].id \in Nat
  BY IdFacts DEF TraceInv
<1> DEFINE Aged ==
      \A id \in 1..(nextId - 1) :
       /\ home[id] <= id /\ Sorted(under[id])
       /\ \A x \in ToSet(under[id]) : x < id /\ home[x] = home[id]
           Over ==
      /\ scopes \subseteq 1..(nextId - 1)
      /\ \A k \in 1..Len(closed) : closed[k].id < nextId /\ closed[k].id \notin scopes
      /\ \A k, m \in 1..Len(closed) : closed[k].id = closed[m].id => k = m
<1>1. ASSUME NEW root \in Ids, root <= nextId, NEW stack \in Seq(Ids), Sorted(stack),
             \A x \in ToSet(stack) : x \in Ids /\ x < nextId /\ home[x] = root,
             Drew(root, stack)
      PROVE  Aged'
  <2>1. ASSUME NEW id \in 1..(nextId' - 1)
        PROVE  /\ home'[id] <= id /\ Sorted(under'[id])
               /\ \A x \in ToSet(under'[id]) : x < id /\ home'[x] = home'[id]
    <3>1. /\ nextId' = nextId + 1 /\ under'[nextId] = stack /\ home'[nextId] = root
          /\ \A x \in 1..(nextId - 1) : under'[x] = under[x] /\ home'[x] = home[x]
      BY <1>0, <1>1 DEF Drew, Longer
    <3>2. CASE id = nextId
      <4>1. ASSUME NEW x \in ToSet(stack) PROVE x < nextId /\ home'[x] = root
        <5>1. x \in Nat \ {0} /\ x < nextId /\ home[x] = root
          BY <1>0, <1>1
        <5>2. x \in 1..(nextId - 1)
          BY <1>0, <5>1
        <5>3. QED
          BY <3>1, <5>1, <5>2
      <4>2. QED
        BY <1>1, <3>1, <3>2, <4>1
    <3>3. CASE id # nextId
      <4>1. id \in 1..(nextId - 1)
        BY <1>0, <3>1, <3>3
      <4>2. /\ home[id] <= id /\ Sorted(under[id])
            /\ \A x \in ToSet(under[id]) : x \in 1..(nextId - 1) /\ x < id /\ home[x] = home[id]
        <5>1. ASSUME NEW x \in ToSet(under[id]) PROVE x \in 1..(nextId - 1) /\ x < id /\ home[x] = home[id]
          <6>1. x \in Nat \ {0} /\ x < id /\ home[x] = home[id]
            BY <1>0, <4>1 DEF DrawnInv
          <6>2. QED
            BY <1>0, <4>1, <6>1
        <5>2. QED
          BY <1>0, <4>1, <5>1 DEF DrawnInv
      <4>3. QED
        BY <3>1, <4>1, <4>2
    <3>4. QED
      BY <3>2, <3>3
  <2>2. QED
    BY <2>1
<1>2. ASSUME UNCHANGED drawn PROVE Aged'
  BY <1>0, <1>2 DEF drawn, DrawnInv
<1>3. ASSUME UNCHANGED ended, nextId' >= nextId, nextId' \in Nat,
             \A x \in 1..(nextId - 1) : x \in 1..(nextId' - 1),
             scopes' \subseteq scopes \cup ({nextId} \cap 1..(nextId' - 1))
      PROVE  Over'
  <2>1. closed' = closed
    BY <1>3 DEF ended
  <2>2. scopes' \subseteq 1..(nextId' - 1)
    <3>1. \A x \in scopes : x \in 1..(nextId - 1)
      BY <1>0 DEF DrawnInv
    <3>2. \A x \in 1..(nextId - 1) : x \in 1..(nextId' - 1)
      BY <1>3
    <3>3. QED
      BY <1>3, <3>1, <3>2
  <2>3. \A k \in 1..Len(closed) : closed[k].id < nextId' /\ closed[k].id \notin scopes'
    <3>1. ASSUME NEW k \in 1..Len(closed)
          PROVE closed[k].id \in Nat /\ closed[k].id < nextId /\ closed[k].id \notin scopes
      BY <1>0 DEF DrawnInv
    <3>2. QED
      BY <1>0, <1>3, <3>1
  <2>4. QED
    BY <1>0, <2>1, <2>2, <2>3 DEF DrawnInv
<1>4. ASSUME NEW t \in Callers, NEW b \in trace[t]
      PROVE  /\ b.root \in Ids /\ b.root <= nextId /\ b.open \in Seq(Ids) /\ Sorted(b.open)
             /\ \A x \in ToSet(b.open) : x \in Ids /\ x < nextId /\ home[x] = b.root
  <2>1. b \in Buffers /\ StackOK(b) /\ b.root < nextId
    BY BufferTypes DEF TraceInv, StackInv, RootInv
  <2>2. QED
    <3>1. b.root \in Ids /\ b.open \in Seq(Ids) /\ ToSet(b.open) \subseteq Ids
      BY <2>1, BufferFacts
    <3>2. b.root <= nextId
      BY <1>0, <2>1, <3>1
    <3>3. QED
      BY <2>1, <3>1, <3>2 DEF StackOK
<1>5. /\ nextId' \in Nat /\ nextId' >= nextId
      /\ \A x \in 1..(nextId - 1) : x \in 1..(nextId' - 1)
  BY Grows, <1>0
<1>6. ASSUME Quiet PROVE Aged' /\ Over'
  BY <1>2, <1>3, <1>5, <1>6 DEF Quiet
<1>7. ASSUME NEW t \in Callers, NEW c, Started(t, c) PROVE Aged' /\ Over'
  <2>1. nextId \in Ids /\ Drew(nextId, <<>>) /\ UNCHANGED <<scopes, ended>>
    BY <1>7 DEF Started, Drew
  <2>2. <<>> \in Seq(Ids) /\ Sorted(<<>>) /\ ToSet(<<>>) = {}
    BY DEF Sorted, ToSet
  <2>3. Over'
    BY <1>3, <1>5, <2>1
  <2>4. nextId <= nextId /\ \A x \in ToSet(<<>>) : x \in Ids /\ x < nextId /\ home[x] = nextId
    BY <1>0, <2>2
  <2>5. Aged'
    <3> HIDE DEF Aged
    <3>1. QED
      BY <1>1, <2>1, <2>2, <2>4
  <2>6. QED
    BY <2>3, <2>5
<1>8. ASSUME NEW t \in Callers, NEW b, NEW c, Opened(t, b, c) PROVE Aged' /\ Over'
  <2>1. b \in trace[t] /\ Drew(b.root, b.open) /\ UNCHANGED ended /\ scopes' = scopes \cup {nextId}
    BY <1>8 DEF Opened
  <2>2. Aged'
    BY <1>1, <1>4, <2>1
  <2>3. Over'
    BY <1>0, <1>3, <1>5, <2>1 DEF Drew
  <2>4. QED
    BY <2>2, <2>3
<1>9. ASSUME NEW t \in Callers, NEW b, NEW c, NEW id \in Ids, NEW parent, SpanOver(t, b, c, id, parent)
      PROVE  Aged' /\ Over'
  <2>1. Aged'
    BY <1>1, <1>2, <1>4, <1>9, EndsOnce DEF SpanOver
  <2>2. /\ id < nextId' /\ scopes' = scopes \ {id} /\ \A k \in 1..Len(closed) : closed[k].id # id
        /\ Len(closed') = Len(closed) + 1 /\ closed'[Len(closed) + 1].id = id
        /\ \A k \in 1..Len(closed) : closed'[k] = closed[k]
    <3>1. id < nextId' /\ \A k \in 1..Len(closed) : closed[k].id # id
      BY <1>9, EndsOnce
    <3>2. scopes' = scopes \ {id} /\ Longer(SpanEnds, closed, [id |-> id, in |-> b.root], closed')
      BY <1>9 DEF SpanOver
    <3>3. QED
      BY <3>1, <3>2 DEF Longer
  <2>3. Over'
    <3>1. scopes' \subseteq 1..(nextId' - 1)
      <4>1. \A x \in scopes : x \in 1..(nextId - 1)
        BY <1>0 DEF DrawnInv
      <4>2. \A x \in 1..(nextId - 1) : x \in 1..(nextId' - 1)
        BY <1>5
      <4>3. QED
        BY <2>2, <4>1, <4>2
    <3>2. ASSUME NEW k \in 1..Len(closed') PROVE closed'[k].id < nextId' /\ closed'[k].id \notin scopes'
      <4>1. CASE k = Len(closed) + 1
        BY <2>2, <4>1
      <4>2. CASE k # Len(closed) + 1
        <5>1. k \in 1..Len(closed) /\ closed'[k].id = closed[k].id
          BY <1>0, <2>2, <4>2
        <5>2. QED
          BY <1>0, <1>5, <2>2, <5>1 DEF DrawnInv
      <4>3. QED
        BY <4>1, <4>2
    <3>3. \A k, m \in 1..Len(closed') : closed'[k].id = closed'[m].id => k = m
      BY <1>0, <2>2 DEF DrawnInv
    <3>4. QED
      BY <3>1, <3>2, <3>3
  <2>4. QED
    BY <2>1, <2>3
<1>10. ASSUME NEW t \in Callers, NEW b, TraceOver(t, b) PROVE Aged' /\ Over'
  BY <1>2, <1>3, <1>5, <1>10 DEF TraceOver
<1>11. Aged' /\ Over'
  <2> HIDE DEF Aged, Over
  <2>1. QED
    BY <1>6, <1>7, <1>8, <1>9, <1>10 DEF Effect
<1>12. QED
  BY <1>11 DEF DrawnInv

-----------------------------------------------------------------------------
(* Buffers *)

\* No other trace has the root of this one.
Fresh(t, c) ==
  /\ c.root < nextId'
  /\ \A u \in Callers : u # t => \A d \in trace[u] : d.root # c.root
  /\ \A i \in 1..Len(finished) : finished[i].buffer.root # c.root

\* What an open trace becomes keeps its root, which is no other trace's.
LEMMA StaysFresh ==
  ASSUME TraceInv, Effect, NEW t \in Callers, NEW b \in trace[t], NEW c, c.root = b.root
  PROVE  Fresh(t, c)
<1>1. /\ b.root < nextId /\ nextId \in Nat /\ nextId' \in Nat /\ nextId <= nextId' /\ b.root \in Nat
  BY BufferTypes, BufferFacts, IdFacts, Grows DEF TraceInv, RootInv
<1>2. QED
  BY <1>1 DEF TraceInv, RootInv, Fresh

LEMMA StartsFresh ==
  ASSUME TraceInv, NEW t \in Callers, NEW c, Started(t, c)
  PROVE  Fresh(t, c)
<1>1. nextId \in Nat /\ c.root = nextId /\ nextId' = nextId + 1
  BY IdFacts DEF TraceInv, Started, Drew
<1>2. \A u \in Callers : \A d \in trace[u] : d.root \in Nat /\ d.root < nextId
  BY BufferTypes, BufferFacts, IdFacts DEF TraceInv, RootInv
<1>3. \A i \in 1..Len(finished) : finished[i].buffer.root \in Nat /\ finished[i].buffer.root < nextId
  BY BufferTypes, BufferFacts, IdFacts DEF TraceInv, RootInv
<1>4. QED
  BY <1>1, <1>2, <1>3 DEF Fresh

\* Whatever a step does, the buffers are those there were, but for one that may have
\* become another, or is new.
LEMMA TurnedBuffers ==
  ASSUME TraceInv, Effect, NEW t \in Callers, NEW c, Turned(t, c), Fresh(t, c), UNCHANGED finished
  PROVE  /\ RootInv'
         /\ \A x \in AllBuffers' : x = c \/ (x \in AllBuffers /\ x.root # c.root)
<1>1. /\ \A u \in Callers : trace'[u] = IF u = t THEN {c} ELSE trace[u]
      /\ Len(finished) \in Nat /\ finished' = finished /\ c.root < nextId'
      /\ ToSet(finished) = {finished[i] : i \in 1..Len(finished)}
  BY BufferTypes DEF TraceInv, Turned, Fresh, ToSet
<1>2. \A x \in AllBuffers' : x = c \/ (x \in AllBuffers /\ x.root # c.root)
  BY <1>1 DEF AllBuffers, Fresh
<1>3. nextId \in Nat /\ nextId' \in Nat /\ nextId <= nextId'
  BY IdFacts, Grows DEF TraceInv
<1>4. ASSUME NEW u \in Callers, NEW d \in trace[u] PROVE d.root < nextId'
  <2>1. d.root \in Nat /\ d.root < nextId
    BY BufferTypes, BufferFacts, IdFacts DEF TraceInv, RootInv
  <2>2. QED
    BY <1>3, <2>1
<1>5. ASSUME NEW i \in 1..Len(finished) PROVE finished[i].buffer.root < nextId'
  <2>1. finished[i].buffer.root \in Nat /\ finished[i].buffer.root < nextId
    BY BufferTypes, BufferFacts, IdFacts DEF TraceInv, RootInv
  <2>2. QED
    BY <1>3, <2>1
<1>6. \A u, v \in Callers : \A a \in trace'[u], d \in trace'[v] : a.root = d.root => u = v /\ a = d
  BY <1>1 DEF Fresh, TraceInv, RootInv
<1>7. \A i, k \in 1..Len(finished) : finished[i].buffer.root = finished[k].buffer.root => i = k
  BY DEF TraceInv, RootInv
<1>8. \A i \in 1..Len(finished), u \in Callers : \A d \in trace'[u] : finished[i].buffer.root # d.root
  BY <1>1 DEF Fresh, TraceInv, RootInv
<1>9. \A u \in Callers : \A d \in trace'[u] : d.root < nextId'
  BY <1>1, <1>4
<1>10. RootInv'
  BY <1>1, <1>5, <1>6, <1>7, <1>8, <1>9 DEF RootInv
<1>11. QED
  BY <1>2, <1>10

LEMMA SameBuffers ==
  ASSUME TraceInv, Effect, Quiet
  PROVE  RootInv' /\ AllBuffers' = AllBuffers
<1>1. /\ trace' = trace /\ finished' = finished /\ nextId' = nextId
  BY DEF Quiet, drawn
<1>2. RootInv
  BY DEF TraceInv
<1>3. QED
  BY <1>1, <1>2 DEF RootInv, AllBuffers

LEMMA EndedBuffers ==
  ASSUME TraceInv, Effect, NEW t \in Callers, NEW b, TraceOver(t, b)
  PROVE  RootInv' /\ AllBuffers' = AllBuffers
<1>1. PICK f \in FinishedTraces : f.buffer = b /\ Longer(FinishedTraces, finished, f, finished')
  BY DEF TraceOver
<1>2. /\ \A u \in Callers : trace'[u] = IF u = t THEN {} ELSE trace[u]
      /\ trace[t] = {b} /\ nextId' = nextId
      /\ Len(finished) \in Nat /\ Len(finished') = Len(finished) + 1
      /\ finished'[Len(finished) + 1].buffer = b
      /\ \A i \in 1..Len(finished) : finished'[i] = finished[i]
      /\ ToSet(finished') = ToSet(finished) \cup {f}
  BY <1>1, BufferTypes DEF TraceInv, TraceOver, drawn, Longer
<1>3. AllBuffers' = AllBuffers
  <2>1. ASSUME NEW x \in AllBuffers' PROVE x \in AllBuffers
    BY <1>1, <1>2 DEF AllBuffers
  <2>2. ASSUME NEW x \in AllBuffers PROVE x \in AllBuffers'
    BY <1>1, <1>2 DEF AllBuffers
  <2>3. QED
    BY <2>1, <2>2
<1>4. RootInv
  BY DEF TraceInv
<1>5. ASSUME NEW i \in 1..Len(finished')
      PROVE  \/ i \in 1..Len(finished) /\ finished'[i] = finished[i]
             \/ i = Len(finished) + 1 /\ finished'[i].buffer = b
  BY <1>2
<1>6. \A i \in 1..Len(finished') : finished'[i].buffer.root < nextId'
  BY <1>2, <1>4, <1>5 DEF RootInv
<1>7. \A i, k \in 1..Len(finished') : finished'[i].buffer.root = finished'[k].buffer.root => i = k
  BY <1>2, <1>4, <1>5 DEF RootInv
<1>8. \A i \in 1..Len(finished'), u \in Callers : \A d \in trace'[u] : finished'[i].buffer.root # d.root
  BY <1>2, <1>4, <1>5 DEF RootInv
<1>9. QED
  BY <1>2, <1>3, <1>4, <1>6, <1>7, <1>8 DEF RootInv

\* What becomes of the buffers in a step: all stay, or one is started, opens a span,
\* or records one.
LEMMA StepBuffers ==
  ASSUME TraceInv, Effect
  PROVE  /\ RootInv'
         /\ \/ (Quiet \/ \E t \in Callers, b \in Buffers : TraceOver(t, b)) /\ AllBuffers' = AllBuffers
            \/ \E t \in Callers, c \in Buffers :
                 /\ \A x \in AllBuffers' : x = c \/ (x \in AllBuffers /\ x.root # c.root)
                 /\ \/ Started(t, c)
                    \/ \E b \in Buffers : Opened(t, b, c)
                    \/ \E b \in Buffers, id \in Ids, parent \in Ids : SpanOver(t, b, c, id, parent)
<1>1. ASSUME NEW t \in Callers, NEW c \in Buffers, Started(t, c)
      PROVE  RootInv' /\ \A x \in AllBuffers' : x = c \/ (x \in AllBuffers /\ x.root # c.root)
  BY <1>1, StartsFresh, TurnedBuffers DEF Started
<1>2. ASSUME NEW t \in Callers, NEW b, NEW c, Opened(t, b, c)
      PROVE  RootInv' /\ \A x \in AllBuffers' : x = c \/ (x \in AllBuffers /\ x.root # c.root)
  <2>1. b \in trace[t] /\ c.root = b.root /\ Turned(t, c) /\ UNCHANGED finished
    BY <1>2 DEF Opened
  <2>2. QED
    BY <2>1, StaysFresh, TurnedBuffers
<1>3. ASSUME NEW t \in Callers, NEW b, NEW c, NEW id, NEW parent, SpanOver(t, b, c, id, parent)
      PROVE  RootInv' /\ \A x \in AllBuffers' : x = c \/ (x \in AllBuffers /\ x.root # c.root)
  <2>1. b \in trace[t] /\ c.root = b.root /\ Turned(t, c) /\ UNCHANGED finished
    BY <1>3 DEF SpanOver
  <2>2. QED
    BY <2>1, StaysFresh, TurnedBuffers
<1>4. QED
  BY <1>1, <1>2, <1>3, SameBuffers, EndedBuffers DEF Effect

-----------------------------------------------------------------------------
(* Parents *)

\* Where a sequence of ends has an id.
EndAt(s, id) == LET at == {k \in DOMAIN s : s[k].id = id}
                IN  IF at = {} THEN 0 ELSE CHOOSE k \in at : TRUE

LEMMA EndAtIs ==
  ASSUME NEW s \in Seq(SpanEnds), \A k, m \in 1..Len(s) : s[k].id = s[m].id => k = m, NEW id
  PROVE  /\ EndAt(s, id) \in Nat /\ EndAt(s, id) <= Len(s)
         /\ \A k \in 1..Len(s) : s[k].id = id <=> EndAt(s, id) = k
<1>1. Len(s) \in Nat /\ DOMAIN s = 1..Len(s)
  BY MemberAt
<1> DEFINE at == {k \in 1..Len(s) : s[k].id = id}
<1>2. EndAt(s, id) = IF at = {} THEN 0 ELSE CHOOSE k \in at : TRUE
  BY <1>1 DEF EndAt
<1>3. CASE at = {}
  BY <1>1, <1>2, <1>3
<1>4. CASE at # {}
  <2>1. EndAt(s, id) \in at
    BY <1>2, <1>4
  <2>2. QED
    BY <1>1, <2>1
<1>5. QED
  BY <1>3, <1>4

\* What EndedBefore and RightParent say, of any ends, homes and surroundings.
Before(s, homes, x, id) ==
  EndAt(s, x) # 0 /\ EndAt(s, x) < EndAt(s, id) /\ s[EndAt(s, x)].in = homes[x]

Around(s, homes, stacks, id) ==
  {k \in DOMAIN stacks[id] : ~Before(s, homes, stacks[id][k], id)}

Right(s, homes, stacks, r, root) ==
  r.parent = IF homes[r.id] = root /\ Around(s, homes, stacks, r.id) # {}
             THEN stacks[r.id][Max(Around(s, homes, stacks, r.id))] ELSE root

LEMMA RightIs ==
  ASSUME NEW r, NEW root
  PROVE  /\ RightParent(r, root) <=> Right(closed, home, under, r, root)
         /\ RightParent(r, root)' <=> Right(closed', home', under', r, root)
  BY Zenon DEF RightParent, EndedBefore, EndOf, EndAt, Before, Around, Right

\* A span that has ended keeps its place among the ends; one that has not ends later.
LEMMA EndStays ==
  ASSUME TraceInv, Effect, TraceTypeOK', DrawnInv', NEW x
  PROVE  /\ EndAt(closed, x) \in Nat /\ EndAt(closed', x) \in Nat
         /\ EndAt(closed, x) # 0 => EndAt(closed', x) = EndAt(closed, x) /\ EndAt(closed, x) \in 1..Len(closed)
         /\ EndAt(closed, x) = 0 => EndAt(closed', x) = 0 \/ EndAt(closed', x) > Len(closed)
         /\ \A k \in 1..Len(closed) : closed[k].id = x <=> EndAt(closed, x) = k
         /\ \A k \in 1..Len(closed') : closed'[k].id = x <=> EndAt(closed', x) = k
<1>1. /\ closed \in Seq(SpanEnds) /\ closed' \in Seq(SpanEnds)
      /\ \A k, m \in 1..Len(closed) : closed[k].id = closed[m].id => k = m
      /\ \A k, m \in 1..Len(closed') : closed'[k].id = closed'[m].id => k = m
  BY DEF TraceInv, TraceTypeOK, DrawnInv
<1>3. /\ EndAt(closed, x) \in Nat /\ EndAt(closed, x) <= Len(closed)
      /\ \A k \in 1..Len(closed) : closed[k].id = x <=> EndAt(closed, x) = k
  BY <1>1, EndAtIs
<1>4. /\ EndAt(closed', x) \in Nat /\ EndAt(closed', x) <= Len(closed')
      /\ \A k \in 1..Len(closed') : closed'[k].id = x <=> EndAt(closed', x) = k
  BY <1>1, EndAtIs
<1>5. /\ Len(closed) \in Nat /\ Len(closed') \in Nat /\ Len(closed) <= Len(closed')
      /\ \A k \in 1..Len(closed) : closed'[k] = closed[k]
  BY <1>1, Grows, LenProperties
<1>6. EndAt(closed, x) # 0 => EndAt(closed', x) = EndAt(closed, x) /\ EndAt(closed, x) \in 1..Len(closed)
  BY <1>3, <1>4, <1>5
<1>7. EndAt(closed, x) = 0 => EndAt(closed', x) = 0 \/ EndAt(closed', x) > Len(closed)
  BY <1>3, <1>4, <1>5
<1>8. QED
  BY <1>3, <1>4, <1>6, <1>7

LEMMA BeforeStays ==
  ASSUME TraceInv, Effect, TraceTypeOK', DrawnInv', NEW id, EndAt(closed, id) # 0,
         NEW x \in 1..(nextId - 1)
  PROVE  Before(closed', home', x, id) <=> Before(closed, home, x, id)
<1>1. /\ EndAt(closed, x) \in Nat /\ EndAt(closed', x) \in Nat
      /\ EndAt(closed, id) \in 1..Len(closed) /\ EndAt(closed', id) = EndAt(closed, id)
      /\ EndAt(closed, x) # 0 => EndAt(closed', x) = EndAt(closed, x) /\ EndAt(closed, x) \in 1..Len(closed)
      /\ EndAt(closed, x) = 0 => EndAt(closed', x) = 0 \/ EndAt(closed', x) > Len(closed)
  BY EndStays
<1>2. home'[x] = home[x] /\ Len(closed) \in Nat /\ \A k \in 1..Len(closed) : closed'[k] = closed[k]
  BY Grows, IdFacts DEF TraceInv
<1>3. CASE EndAt(closed, x) # 0
  BY <1>1, <1>2, <1>3 DEF Before
<1>4. CASE EndAt(closed, x) = 0
  BY <1>1, <1>2, <1>4 DEF Before
<1>5. QED
  BY <1>3, <1>4

\* The spans around one are younger.
LEMMA AroundDrawn ==
  ASSUME TraceInv, NEW id \in 1..(nextId - 1), NEW x \in ToSet(under[id])
  PROVE  x \in 1..(nextId - 1) /\ x < id /\ home[x] = home[id]
<1>1. nextId \in Nat /\ Ids \subseteq Nat \ {0} /\ ToSet(under[id]) \subseteq Ids
  BY IdFacts DEF TraceInv
<1>2. x < id /\ home[x] = home[id]
  BY DEF TraceInv, DrawnInv
<1>3. x \in Ids
  BY <1>1
<1>4. x \in Nat \ {0}
  BY <1>1, <1>3
<1>5. x \in 1..(nextId - 1)
  BY <1>1, <1>2, <1>4
<1>6. QED
  BY <1>2, <1>5

\* A parent that was right when a span ended stays so.
LEMMA RightParentStays ==
  ASSUME TraceInv, Effect, TraceTypeOK', DrawnInv', NEW r, NEW root,
         r.id \in 1..(nextId - 1), EndAt(closed, r.id) # 0, RightParent(r, root)
  PROVE  RightParent(r, root)'
<1> DEFINE id == r.id
<1>1. under'[id] = under[id] /\ home'[id] = home[id] /\ id \in 1..(nextId - 1)
  BY Grows
<1>2. ASSUME NEW k \in DOMAIN under[id]
      PROVE  Before(closed', home', under[id][k], id) <=> Before(closed, home, under[id][k], id)
  <2>1. under[id][k] \in ToSet(under[id])
    BY <1>1, IdFacts DEF TraceInv
  <2>2. under[id][k] \in 1..(nextId - 1)
    BY <1>1, <2>1, AroundDrawn
  <2>3. QED
    BY <2>2, BeforeStays
<1>3. Around(closed', home', under', id) = Around(closed, home, under, id)
  BY <1>1, <1>2 DEF Around
<1>4. Right(closed, home, under, r, root)
  BY RightIs
<1>5. Right(closed', home', under', r, root)
  BY <1>1, <1>3, <1>4 DEF Right
<1>6. QED
  BY <1>5, RightIs

\* Where a span ends, the spans that ended before it in their own trace are those
\* closed at home.
LEMMA BeforeTheLast ==
  ASSUME TraceInv, Effect, TraceTypeOK', DrawnInv',
         NEW t \in Callers, NEW b, NEW c, NEW id \in Ids, NEW parent, SpanOver(t, b, c, id, parent),
         NEW x \in 1..(nextId - 1), x # id
  PROVE  Before(closed', home', x, id) <=> ClosedAtHome(x)
<1>1. /\ Len(closed) \in Nat /\ Len(closed') = Len(closed) + 1
      /\ closed'[Len(closed) + 1].id = id
      /\ \A k \in 1..Len(closed) : closed'[k] = closed[k]
      /\ home'[x] = home[x]
  BY IdFacts, Grows DEF TraceInv, SpanOver, Longer
<1>2. EndAt(closed', id) = Len(closed) + 1
  BY <1>1, EndStays
<1>3. /\ EndAt(closed, x) \in Nat /\ EndAt(closed', x) \in Nat
      /\ EndAt(closed, x) # 0 => EndAt(closed', x) = EndAt(closed, x) /\ EndAt(closed, x) \in 1..Len(closed)
      /\ EndAt(closed, x) = 0 => EndAt(closed', x) = 0 \/ EndAt(closed', x) > Len(closed)
      /\ \A k \in 1..Len(closed) : closed[k].id = x <=> EndAt(closed, x) = k
      /\ EndAt(closed', x) # Len(closed) + 1
  BY <1>1, EndStays
<1>4. ClosedAtHome(x) <=> \E k \in 1..Len(closed) : closed[k].id = x /\ closed[k].in = home[x]
  <2>1. ToSet(closed) = {closed[k] : k \in 1..Len(closed)}
    BY IdFacts DEF TraceInv
  <2>2. \A k \in 1..Len(closed) : closed[k] = [id |-> closed[k].id, in |-> closed[k].in]
    BY IdFacts DEF TraceInv
  <2>3. QED
    BY <2>1, <2>2 DEF ClosedAtHome
<1>5. ClosedAtHome(x) <=> EndAt(closed, x) # 0 /\ closed[EndAt(closed, x)].in = home[x]
  BY <1>1, <1>3, <1>4
<1>6. CASE EndAt(closed, x) # 0
  BY <1>1, <1>2, <1>3, <1>5, <1>6 DEF Before
<1>7. CASE EndAt(closed, x) = 0
  <2>1. \A k \in 1..Len(closed') : closed'[k].id = x <=> EndAt(closed', x) = k
    BY EndStays
  <2>2. EndAt(closed', x) <= Len(closed')
    <3>1. closed' \in Seq(SpanEnds) /\ \A k, m \in 1..Len(closed') : closed'[k].id = closed'[m].id => k = m
      BY DEF TraceTypeOK, DrawnInv
    <3>2. QED
      BY <3>1, EndAtIs
  <2>3. EndAt(closed', x) = 0
    BY <1>1, <1>3, <1>7, <2>2
  <2>4. QED
    BY <1>5, <1>7, <2>3 DEF Before
<1>8. QED
  BY <1>6, <1>7

\* The innermost of the surroundings that are still open.
LEMMA InnermostIs ==
  ASSUME NEW s, NEW homes, NEW stacks, NEW r, NEW root, NEW below, NEW stack \in Seq(Ids),
         stacks[r.id] = stack, Sorted(stack), below \subseteq ToSet(stack),
         \A x \in ToSet(stack) : x \in below <=> ~Before(s, homes, x, r.id),
         homes[r.id] = root,
         below = {} => r.parent = root,
         below # {} => r.parent \in below /\ \A y \in below : y <= r.parent
  PROVE  Right(s, homes, stacks, r, root)
<1> DEFINE around == Around(s, homes, stacks, r.id)
<1>1. /\ Len(stack) \in Nat /\ DOMAIN stack = 1..Len(stack)
      /\ \A k \in 1..Len(stack) : stack[k] \in Ids
      /\ ToSet(stack) = {stack[k] : k \in 1..Len(stack)}
      /\ \A x \in Ids : x \in Int
  <2>1. \A x \in Ids : x \in Int
    BY DEF Ids
  <2>2. QED
    BY <2>1, MemberAt
<1>2. around = {k \in 1..Len(stack) : stack[k] \in below}
  BY <1>1 DEF Around
<1>3. CASE below = {}
  BY <1>2, <1>3 DEF Right
<1>4. CASE below # {}
  <2>1. PICK m \in 1..Len(stack) : stack[m] = r.parent
    BY <1>1, <1>4
  <2>2. m \in around /\ around \subseteq Int
    BY <1>1, <1>2, <1>4, <2>1
  <2>3. ASSUME NEW k \in around PROVE k <= m
    <3>1. k \in 1..Len(stack) /\ stack[k] <= stack[m] /\ stack[k] \in Int /\ stack[m] \in Int
      BY <1>1, <1>2, <1>4, <2>1
    <3>2. CASE m < k
      BY <3>1, <3>2 DEF Sorted
    <3>3. QED
      BY <1>1, <3>1, <3>2
  <2>4. Max(around) = m
    <3> HIDE DEF around
    <3>1. QED
      BY <2>2, <2>3, MaxIs
  <2>5. QED
    BY <2>1, <2>2, <2>4 DEF Right
<1>5. QED
  BY <1>3, <1>4

\* A span that ends gets the right parent.
LEMMA NewParent ==
  ASSUME TraceInv, Effect, TraceTypeOK', DrawnInv',
         NEW t \in Callers, NEW b, NEW c, NEW id \in Ids, NEW parent, SpanOver(t, b, c, id, parent)
  PROVE  RightParent([id |-> id, parent |-> parent], b.root)'
<1> DEFINE r == [id |-> id, parent |-> parent]
<1>0. /\ b \in Buffers /\ b \in trace[t] /\ StackOK(b) /\ Nearest(b, id, parent)
      /\ nextId \in Nat /\ Ids \subseteq Nat \ {0} /\ b.open \in Seq(Ids) /\ ToSet(b.open) \subseteq Ids
      /\ scopes \subseteq 1..(nextId - 1) /\ r.id = id /\ r.parent = parent
  BY EndsOnce, BufferFacts, IdFacts DEF TraceInv, StackInv, SpanOver, DrawnInv
<1> HIDE DEF r
<1>1. ASSUME NEW x \in ToSet(b.open) PROVE x \in 1..(nextId - 1) /\ ~ClosedAtHome(x)
  <2>1. x \in Nat \ {0} /\ x < nextId /\ ~ClosedAtHome(x)
    BY <1>0 DEF StackOK
  <2>2. QED
    BY <1>0, <2>1
<1>2. CASE id \in scopes /\ UNCHANGED drawn
  <2>1. id \in 1..(nextId - 1) /\ id # nextId /\ home' = home /\ under' = under
    BY <1>0, <1>2 DEF drawn
  <2>2. CASE id \notin ToSet(b.open)
    <3>1. home[id] # b.root
      BY <1>0, <1>2, <2>2 DEF StackOK
    <3>2. parent = b.root
      BY <1>0, <2>1, <2>2 DEF Nearest
    <3>3. Right(closed', home', under', r, b.root)
      BY <1>0, <2>1, <3>1, <3>2 DEF Right
    <3>4. QED
      BY <3>3, RightIs DEF r
  <2>3. CASE id \in ToSet(b.open)
    <3>1. home[id] = b.root /\ under[id] \in Seq(Ids) /\ Sorted(under[id])
      BY <1>0, <2>1, <2>3, IdFacts DEF StackOK, TraceInv, DrawnInv
    <3>2. Below(b, id) \subseteq ToSet(under[id])
      BY <1>0, <2>3 DEF StackOK, Below
    <3>3. ASSUME NEW x \in ToSet(under[id])
          PROVE  x \in Below(b, id) <=> ~Before(closed', home', x, id)
      <4>1. x \in 1..(nextId - 1) /\ x < id /\ x # id
        BY <1>0, <2>1, AroundDrawn
      <4>2. Before(closed', home', x, id) <=> ClosedAtHome(x)
        BY <4>1, BeforeTheLast
      <4>3. x \in ToSet(b.open) <=> ~ClosedAtHome(x)
        BY <1>0, <2>3 DEF StackOK
      <4>4. QED
        BY <4>1, <4>2, <4>3 DEF Below
    <3>4. /\ Below(b, id) = {} => parent = b.root
          /\ Below(b, id) # {} => parent \in Below(b, id) /\ \A y \in Below(b, id) : y <= parent
      BY <1>0, <2>3 DEF Nearest
    <3>5. Right(closed', home', under', r, b.root)
      BY <1>0, <2>1, <3>1, <3>2, <3>3, <3>4, InnermostIs
    <3>6. QED
      BY <3>5, RightIs DEF r
  <2>4. QED
    BY <2>2, <2>3
<1>3. CASE id = nextId /\ Drew(b.root, b.open)
  <2>1. under'[id] = b.open /\ home'[id] = b.root
    BY <1>3, IdFacts DEF Drew, Longer, TraceInv
  <2>2. Below(b, id) = ToSet(b.open) /\ Sorted(b.open)
    BY <1>0, <1>3 DEF StackOK, Below
  <2>3. ASSUME NEW x \in ToSet(b.open)
        PROVE  x \in Below(b, id) <=> ~Before(closed', home', x, id)
    <3>1. x \in 1..(nextId - 1) /\ x # id /\ ~ClosedAtHome(x)
      BY <1>0, <1>1, <1>3
    <3>2. QED
      BY <2>2, <3>1, BeforeTheLast
  <2>4. /\ Below(b, id) = {} => parent = b.root
        /\ Below(b, id) # {} => parent \in Below(b, id) /\ \A y \in Below(b, id) : y <= parent
    BY <1>0, <1>3 DEF Nearest
  <2>5. Right(closed', home', under', r, b.root)
    BY <1>0, <2>1, <2>2, <2>3, <2>4, InnermostIs
  <2>6. QED
    BY <2>5, RightIs DEF r
<1>4. QED
  BY <1>2, <1>3 DEF SpanOver

\* What a buffer holds after a step: what it held, and the span that ended.
LEMMA NewSpans ==
  ASSUME NEW t, NEW b, NEW c, NEW id, NEW parent, SpanOver(t, b, c, id, parent)
  PROVE  ToSet(c.spans) \subseteq ToSet(b.spans) \cup {[id |-> id, parent |-> parent]}
  BY DEF SpanOver, Longer

\* A recorded span has ended.
LEMMA RecordedEnded ==
  ASSUME TraceInv, NEW b \in AllBuffers, NEW r \in ToSet(b.spans)
  PROVE  /\ r.id \in 1..(nextId - 1) /\ EndAt(closed, r.id) # 0 /\ r \in SpanRecords
         /\ \E k \in 1..Len(closed) : closed[k].id = r.id
<1>1. PICK k \in 1..Len(closed) : closed[k].id = r.id
  <2>1. [id |-> r.id, in |-> b.root] \in ToSet(closed)
    BY DEF TraceInv, SpanInv
  <2>2. ToSet(closed) = {closed[k] : k \in 1..Len(closed)}
    BY IdFacts DEF TraceInv
  <2>3. QED
    BY <2>1, <2>2
<1>2. /\ closed \in Seq(SpanEnds) /\ nextId \in Nat /\ Len(closed) \in Nat
      /\ \A i, m \in 1..Len(closed) : closed[i].id = closed[m].id => i = m
      /\ closed[k].id < nextId /\ closed[k].id \in Nat \ {0}
  BY IdFacts DEF TraceInv, TraceTypeOK, DrawnInv
<1>3. EndAt(closed, r.id) = k
  BY <1>1, <1>2, EndAtIs
<1>4. r \in SpanRecords
  BY BufferTypes, BufferFacts DEF TraceInv
<1>5. QED
  BY <1>1, <1>2, <1>3, <1>4

LEMMA StepSpanInv == ASSUME TraceInv, Effect PROVE SpanInv'
<1>0. SpanInv /\ ToSet(closed) \subseteq ToSet(closed')
  BY Grows DEF TraceInv
<1>1. CASE AllBuffers' = AllBuffers
  BY <1>0, <1>1 DEF SpanInv
<1>2. ASSUME NEW t \in Callers, NEW c \in Buffers,
             \A x \in AllBuffers' : x = c \/ (x \in AllBuffers /\ x.root # c.root),
             \A r \in ToSet(c.spans) : [id |-> r.id, in |-> c.root] \in ToSet(closed')
      PROVE  SpanInv'
  BY <1>0, <1>2 DEF SpanInv
<1>3. ASSUME NEW t \in Callers, NEW c, Started(t, c)
      PROVE  \A r \in ToSet(c.spans) : [id |-> r.id, in |-> c.root] \in ToSet(closed')
  BY <1>3 DEF Started, ToSet
<1>4. ASSUME NEW t \in Callers, NEW b, NEW c, Opened(t, b, c)
      PROVE  \A r \in ToSet(c.spans) : [id |-> r.id, in |-> c.root] \in ToSet(closed')
  <2>1. b \in AllBuffers /\ c.spans = b.spans /\ c.root = b.root
    BY <1>4 DEF Opened, AllBuffers
  <2>2. QED
    BY <1>0, <2>1 DEF SpanInv
<1>5. ASSUME NEW t \in Callers, NEW b, NEW c, NEW id, NEW parent, SpanOver(t, b, c, id, parent)
      PROVE  \A r \in ToSet(c.spans) : [id |-> r.id, in |-> c.root] \in ToSet(closed')
  <2>1. b \in AllBuffers /\ c.root = b.root
    BY <1>5 DEF SpanOver, AllBuffers
  <2>2. [id |-> id, in |-> b.root] \in ToSet(closed')
    BY <1>5 DEF SpanOver, Longer
  <2>3. QED
    BY <1>0, <1>5, <2>1, <2>2, NewSpans DEF SpanInv
<1>6. QED
  BY <1>1, <1>2, <1>3, <1>4, <1>5, StepBuffers

LEMMA StepParentWasOpen ==
  ASSUME TraceInv, Effect, TraceTypeOK', DrawnInv'
  PROVE  ParentWasOpen'
<1>1. ASSUME NEW b \in AllBuffers, NEW r \in ToSet(b.spans) PROVE RightParent(r, b.root)'
  <2>1. RightParent(r, b.root) /\ r.id \in 1..(nextId - 1) /\ EndAt(closed, r.id) # 0
    BY RecordedEnded DEF TraceInv, ParentWasOpen
  <2>2. QED
    BY <2>1, RightParentStays
<1>2. ASSUME NEW b \in AllBuffers' PROVE \A r \in ToSet(b.spans) : RightParent(r, b.root)'
  <2>1. CASE b \in AllBuffers
    BY <1>1, <2>1
  <2>2. ASSUME NEW t \in Callers, Started(t, b) PROVE \A r \in ToSet(b.spans) : RightParent(r, b.root)'
    BY <2>2 DEF Started, ToSet
  <2>3. ASSUME NEW t \in Callers, NEW a, Opened(t, a, b)
        PROVE  \A r \in ToSet(b.spans) : RightParent(r, b.root)'
    <3>1. a \in AllBuffers /\ b.spans = a.spans /\ b.root = a.root
      BY <2>3 DEF Opened, AllBuffers
    <3>2. QED
      BY <1>1, <3>1
  <2>4. ASSUME NEW t \in Callers, NEW a, NEW id \in Ids, NEW parent, SpanOver(t, a, b, id, parent)
        PROVE  \A r \in ToSet(b.spans) : RightParent(r, b.root)'
    <3>1. a \in AllBuffers /\ b.root = a.root
      BY <2>4 DEF SpanOver, AllBuffers
    <3>2. RightParent([id |-> id, parent |-> parent], a.root)'
      BY <2>4, NewParent
    <3>3. QED
      BY <1>1, <2>4, <3>1, <3>2, NewSpans
  <2>5. QED
    BY <2>1, <2>2, <2>3, <2>4, StepBuffers
<1>3. QED
  BY <1>2 DEF ParentWasOpen

-----------------------------------------------------------------------------
(* Trees *)

\* What PayloadIsTree says of one buffer, when these ids have been dropped.
TreeOK(b, lost) ==
  /\ Len(b.spans) < MaxSpans
  /\ \A r \in ToSet(b.spans) :
       /\ r.parent = b.root \/ r.parent < r.id
       /\ \/ r.parent \in lost \cup ToSet(b.open) \cup {b.root}
          \/ \E s \in ToSet(b.spans) : s.id = r.parent

LEMMA TreeIs ==
  ASSUME NEW b \in Buffers, NEW lost
  PROVE  TreeOK(b, lost) <=>
           /\ Len(Payload(b)) <= MaxSpans
           /\ \A r \in ToSet(b.spans) :
                /\ r.parent = b.root \/ r.parent < r.id
                /\ r.parent \in {s.id : s \in ToSet(Payload(b))} \cup lost \cup ToSet(b.open)
<1> DEFINE top == [id |-> b.root, parent |-> 0]
           S == SpanRecords \cup {top}
<1>1. b.spans \in Seq(SpanRecords) /\ Len(b.spans) \in Nat /\ MaxSpans \in Nat
  BY BufferFacts, TracingAssumption
<1>2. b.spans \in Seq(S) /\ <<top>> \in Seq(S) /\ Len(<<top>>) = 1 /\ <<top>>[1] = top
  <2>1. \A i \in 1..Len(b.spans) : b.spans[i] \in SpanRecords
    BY BufferFacts
  <2> HIDE DEF top
  <2>2. QED
    BY <1>1, <2>1
<1> HIDE DEF top, S
<1>3. /\ Payload(b) \in Seq(S) /\ Len(Payload(b)) = 1 + Len(b.spans)
      /\ \A i \in 1..(1 + Len(b.spans)) : Payload(b)[i] = IF i <= 1 THEN top ELSE b.spans[i - 1]
  <2>1. Payload(b) = <<top>> \o b.spans
    BY DEF Payload, top
  <2>2. QED
    BY <1>1, <1>2, <2>1, ConcatProperties
<1>4. ToSet(Payload(b)) = ToSet(b.spans) \cup {top}
  <2>1. ToSet(Payload(b)) = {Payload(b)[i] : i \in 1..(1 + Len(b.spans))}
    BY <1>3, MemberAt
  <2>2. ToSet(b.spans) = {b.spans[i] : i \in 1..Len(b.spans)}
    BY BufferFacts
  <2>3. ASSUME NEW x \in ToSet(Payload(b)) PROVE x \in ToSet(b.spans) \cup {top}
    BY <1>1, <1>3, <2>1, <2>2
  <2>4. ASSUME NEW i \in 1..Len(b.spans) PROVE b.spans[i] \in ToSet(Payload(b))
    <3>1. i + 1 \in 1..(1 + Len(b.spans)) /\ Payload(b)[i + 1] = b.spans[i]
      BY <1>1, <1>3
    <3>2. QED
      BY <2>1, <3>1
  <2>5. top \in ToSet(Payload(b))
    BY <1>1, <1>3, <2>1
  <2>6. QED
    BY <2>2, <2>3, <2>4, <2>5
<1>5. top.id = b.root
  BY DEF top
<1>6. ASSUME NEW p
      PROVE  p \in {s.id : s \in ToSet(Payload(b))} <=> p = b.root \/ \E s \in ToSet(b.spans) : s.id = p
  BY <1>4, <1>5
<1>7. Len(b.spans) < MaxSpans <=> Len(Payload(b)) <= MaxSpans
  BY <1>1, <1>3
<1>8. QED
  BY <1>6, <1>7 DEF TreeOK

Distinct ==
  \A b, c \in AllBuffers : \A i \in DOMAIN b.spans, k \in DOMAIN c.spans :
    b.spans[i].id = c.spans[k].id => b = c /\ i = k

LEMMA StepTrees ==
  ASSUME TraceInv, Effect, TraceTypeOK'
  PROVE  \A b \in AllBuffers' : b \in Buffers /\ TreeOK(b, dropped')
<1>0. dropped \subseteq dropped' /\ MaxSpans \in Nat \ {0}
  BY Grows, TracingAssumption
<1>1. ASSUME NEW b \in AllBuffers PROVE b \in Buffers /\ TreeOK(b, dropped) /\ TreeOK(b, dropped')
  <2>1. b \in Buffers
    BY BufferTypes DEF TraceInv
  <2>2. TreeOK(b, dropped)
    BY <2>1, TreeIs DEF TraceInv, PayloadIsTree
  <2>3. QED
    BY <1>0, <2>1, <2>2 DEF TreeOK
<1>2. ASSUME NEW t \in Callers, NEW c \in Buffers, Started(t, c) PROVE TreeOK(c, dropped')
  BY <1>0, <1>2 DEF Started, TreeOK, ToSet
<1>3. ASSUME NEW t \in Callers, NEW b, NEW c \in Buffers, Opened(t, b, c) PROVE TreeOK(c, dropped')
  <2>1. /\ b \in AllBuffers /\ c.spans = b.spans /\ c.root = b.root
        /\ ToSet(b.open) \subseteq ToSet(c.open)
    BY <1>3 DEF Opened, AllBuffers, Longer
  <2>2. QED
    BY <1>1, <2>1 DEF TreeOK
<1>4. ASSUME NEW t \in Callers, NEW b, NEW c \in Buffers, NEW id, NEW parent, SpanOver(t, b, c, id, parent)
      PROVE  TreeOK(c, dropped')
  <2>1. b \in AllBuffers /\ c.root = b.root /\ ToSet(c.open) = ToSet(b.open) \ {id}
    BY <1>4 DEF SpanOver, AllBuffers
  <2>2. TreeOK(b, dropped) /\ b \in Buffers /\ Len(b.spans) \in Nat
    BY <1>1, <2>1, BufferFacts
  <2>3. \/ Full(b) /\ c.spans = b.spans /\ dropped' = dropped \cup {id}
        \/ /\ ~Full(b) /\ Longer(SpanRecords, b.spans, [id |-> id, parent |-> parent], c.spans)
           /\ dropped' = dropped
    BY <1>4 DEF SpanOver
  <2>4. Len(c.spans) < MaxSpans
    BY <1>0, <2>2, <2>3 DEF Full, Longer, TreeOK
  <2>5. id \in dropped' \/ \E s \in ToSet(c.spans) : s.id = id
    BY <2>3 DEF Longer
  <2>6. ToSet(b.spans) \subseteq ToSet(c.spans)
    BY <2>3 DEF Longer
  <2>7. ASSUME NEW r \in ToSet(b.spans)
        PROVE  /\ r.parent = c.root \/ r.parent < r.id
               /\ \/ r.parent \in dropped' \cup ToSet(c.open) \cup {c.root}
                  \/ \E s \in ToSet(c.spans) : s.id = r.parent
    BY <1>0, <2>1, <2>2, <2>5, <2>6 DEF TreeOK
  <2>8. parent = c.root \/ (parent < id /\ parent \in ToSet(c.open))
    <3>1. parent = b.root \/ (parent \in ToSet(b.open) /\ parent < id)
      BY <1>4 DEF SpanOver, Nearest, Below
    <3>2. CASE parent \in ToSet(b.open) /\ parent < id /\ parent # b.root
      <4>1. parent # id
        <5>1. parent \in Ids
          BY <2>2, <3>2, BufferFacts
        <5>2. parent \in Int
          BY <5>1 DEF Ids
        <5>3. QED
          BY <3>2, <5>2
      <4>2. QED
        BY <2>1, <3>2, <4>1
    <3>3. QED
      BY <2>1, <3>1, <3>2
  <2>9. \A r \in ToSet(c.spans) :
          /\ r.parent = c.root \/ r.parent < r.id
          /\ \/ r.parent \in dropped' \cup ToSet(c.open) \cup {c.root}
             \/ \E s \in ToSet(c.spans) : s.id = r.parent
    BY <1>4, <2>7, <2>8, NewSpans
  <2>10. QED
    BY <2>4, <2>9 DEF TreeOK
<1>5. QED
  BY <1>1, <1>2, <1>3, <1>4, StepBuffers

LEMMA StepDistinct == ASSUME TraceInv, Effect PROVE Distinct'
<1>1. /\ Distinct
      /\ \A b \in AllBuffers : Len(b.spans) \in Nat /\ DOMAIN b.spans = 1..Len(b.spans)
                               /\ ToSet(b.spans) = {b.spans[i] : i \in 1..Len(b.spans)}
  BY BufferTypes, BufferFacts DEF TraceInv, PayloadIsTree, Distinct
<1>2. CASE AllBuffers' = AllBuffers
  BY <1>1, <1>2 DEF Distinct
<1>3. ASSUME NEW t \in Callers, NEW c, \A x \in AllBuffers' : x = c \/ (x \in AllBuffers /\ x.root # c.root),
             NEW b \in AllBuffers, c.spans = b.spans, c.root = b.root
      PROVE  Distinct'
  BY <1>1, <1>3 DEF Distinct
<1>4. ASSUME NEW t \in Callers, NEW c, \A x \in AllBuffers' : x = c \/ (x \in AllBuffers /\ x.root # c.root),
             Started(t, c)
      PROVE  Distinct'
  <2>1. DOMAIN c.spans = {}
    BY <1>4 DEF Started
  <2>2. QED
    BY <1>1, <1>4, <2>1 DEF Distinct
<1>5. ASSUME NEW t \in Callers, NEW b, NEW c \in Buffers, NEW id \in Ids, NEW parent,
             SpanOver(t, b, c, id, parent), ~Full(b),
             \A x \in AllBuffers' : x = c \/ (x \in AllBuffers /\ x.root # c.root)
      PROVE  Distinct'
  <2>1. b \in AllBuffers /\ c.root = b.root
    BY <1>5 DEF SpanOver, AllBuffers
  <2>2. ASSUME NEW x \in AllBuffers, NEW i \in DOMAIN x.spans PROVE x.spans[i].id # id
    <3>1. \A k \in 1..Len(closed) : closed[k].id # id
      BY <1>5, EndsOnce
    <3>2. x.spans[i] \in ToSet(x.spans)
      BY <1>1
    <3>3. QED
      BY <3>1, <3>2, RecordedEnded
  <2>3. /\ Len(c.spans) = Len(b.spans) + 1 /\ c.spans[Len(b.spans) + 1].id = id
        /\ \A i \in 1..Len(b.spans) : c.spans[i] = b.spans[i]
    BY <1>5 DEF SpanOver, Longer
  <2>4. Len(b.spans) \in Nat /\ DOMAIN b.spans = 1..Len(b.spans) /\ DOMAIN c.spans = 1..(Len(b.spans) + 1)
    BY <2>3, <1>1, <2>1, BufferFacts
  <2>5. ASSUME NEW i \in DOMAIN c.spans
        PROVE  (i \in DOMAIN b.spans /\ c.spans[i] = b.spans[i]) \/ (i = Len(b.spans) + 1 /\ c.spans[i].id = id)
    BY <2>3, <2>4
  <2>6. ASSUME NEW x \in AllBuffers, x.root # c.root, NEW i \in DOMAIN c.spans, NEW k \in DOMAIN x.spans
        PROVE  c.spans[i].id # x.spans[k].id
    <3>1. CASE i \in DOMAIN b.spans /\ c.spans[i] = b.spans[i]
      BY <1>1, <2>1, <2>6, <3>1 DEF Distinct
    <3>2. CASE c.spans[i].id = id
      BY <2>2, <3>2
    <3>3. QED
      BY <2>5, <3>1, <3>2
  <2>7. ASSUME NEW i \in DOMAIN c.spans, NEW k \in DOMAIN c.spans, c.spans[i].id = c.spans[k].id
        PROVE  i = k
    BY <1>1, <2>1, <2>2, <2>5, <2>7 DEF Distinct
  <2>8. QED
    BY <1>1, <1>5, <2>6, <2>7 DEF Distinct
<1>6. ASSUME NEW t \in Callers, NEW b, NEW c, Opened(t, b, c)
      PROVE  b \in AllBuffers /\ c.spans = b.spans /\ c.root = b.root
  BY <1>6 DEF Opened, AllBuffers
<1>7. ASSUME NEW t \in Callers, NEW b, NEW c, NEW id, NEW parent, SpanOver(t, b, c, id, parent), Full(b)
      PROVE  b \in AllBuffers /\ c.spans = b.spans /\ c.root = b.root
  BY <1>7 DEF SpanOver, AllBuffers
<1>8. QED
  BY <1>2, <1>3, <1>4, <1>5, <1>6, <1>7, StepBuffers

LEMMA StepPayloadIsTree == ASSUME TraceInv, Effect, TraceTypeOK' PROVE PayloadIsTree'
<1>1. \A b \in AllBuffers' :
        /\ Len(Payload(b)) <= MaxSpans
        /\ \A r \in ToSet(b.spans) :
             /\ r.parent = b.root \/ r.parent < r.id
             /\ r.parent \in {s.id : s \in ToSet(Payload(b))} \cup dropped' \cup ToSet(b.open)
  BY StepTrees, TreeIs
<1>2. QED
  BY <1>1, StepDistinct DEF PayloadIsTree, Distinct

-----------------------------------------------------------------------------
(* Stacks *)

\* What was true of a stack stays so, when what leaves it has ended in its trace.
LEMMA StackShrinks ==
  ASSUME TraceInv, Effect, NEW d \in Buffers, StackOK(d),
         NEW c \in Buffers, Sorted(c.open), c.root = d.root, ToSet(c.open) \subseteq ToSet(d.open),
         \A x \in ToSet(c.open) : ~ClosedAtHome(x)',
         \A x \in ToSet(d.open) : x \in ToSet(c.open) \/ ClosedAtHome(x)',
         \A id \in scopes' : home'[id] = c.root => id \in ToSet(c.open)
  PROVE  StackOK(c)'
<1>1. /\ nextId \in Nat /\ nextId' \in Nat /\ nextId <= nextId' /\ Ids \subseteq Nat \ {0}
      /\ ToSet(closed) \subseteq ToSet(closed') /\ ToSet(d.open) \subseteq Ids
      /\ \A x \in 1..(nextId - 1) : under'[x] = under[x] /\ home'[x] = home[x]
  BY IdFacts, Grows, BufferFacts DEF TraceInv
<1>2. ASSUME NEW x \in ToSet(c.open)
      PROVE  /\ x < nextId' /\ home'[x] = c.root
             /\ \A y \in ToSet(c.open) : y < x => y \in ToSet(under'[x])
             /\ \A y \in ToSet(under'[x]) : ClosedAtHome(y)' \/ y \in ToSet(c.open)
  <2>1. x \in ToSet(d.open) /\ x \in Nat \ {0} /\ x < nextId
    BY <1>1 DEF StackOK
  <2>2. x \in 1..(nextId - 1) /\ x < nextId'
    BY <1>1, <2>1
  <2>3. under'[x] = under[x] /\ home'[x] = c.root
    BY <1>1, <2>1, <2>2 DEF StackOK
  <2>4. \A y \in ToSet(c.open) : y < x => y \in ToSet(under'[x])
    BY <2>1, <2>3 DEF StackOK
  <2>5. ASSUME NEW y \in ToSet(under[x]) PROVE ClosedAtHome(y)' \/ y \in ToSet(c.open)
    <3>1. y \in 1..(nextId - 1)
      BY <2>2, AroundDrawn
    <3>2. home'[y] = home[y]
      BY <1>1, <3>1
    <3>3. CASE ClosedAtHome(y)
      BY <1>1, <3>2, <3>3 DEF ClosedAtHome
    <3>4. CASE y \in ToSet(d.open)
      BY <3>4
    <3>5. QED
      BY <2>1, <3>3, <3>4 DEF StackOK
  <2>6. QED
    BY <2>2, <2>3, <2>4, <2>5
<1>3. QED
  BY <1>2 DEF StackOK

\* Where no span ends, what is closed at home stays the same.
LEMMA ClosedSame ==
  ASSUME TraceInv, Effect, UNCHANGED closed, NEW x \in 1..(nextId - 1)
  PROVE  ClosedAtHome(x)' <=> ClosedAtHome(x)
  BY Grows DEF ClosedAtHome

\* The stack of another trace.
LEMMA OtherStacks ==
  ASSUME TraceInv, Effect, NEW d \in Buffers, StackOK(d), UNCHANGED closed,
         \A id \in scopes' : id \in scopes \/ (id = nextId /\ home'[id] # d.root)
  PROVE  StackOK(d)'
<1>1. /\ nextId \in Nat /\ Ids \subseteq Nat \ {0} /\ scopes \subseteq 1..(nextId - 1)
      /\ ToSet(d.open) \subseteq Ids
      /\ \A x \in 1..(nextId - 1) : home'[x] = home[x]
  BY IdFacts, Grows, BufferFacts DEF TraceInv, DrawnInv
<1>2. ASSUME NEW x \in ToSet(d.open) PROVE ~ClosedAtHome(x)'
  <2>1. x \in Nat \ {0} /\ x < nextId /\ ~ClosedAtHome(x)
    BY <1>1 DEF StackOK
  <2>2. x \in 1..(nextId - 1)
    BY <1>1, <2>1
  <2>3. QED
    BY <2>1, <2>2, ClosedSame
<1>3. \A id \in scopes' : home'[id] = d.root => id \in ToSet(d.open)
  BY <1>1 DEF StackOK
<1>4. Sorted(d.open)
  BY DEF StackOK
<1>5. QED
  BY <1>2, <1>3, <1>4, StackShrinks

\* The stack a span is pushed on.
LEMMA StackPush ==
  ASSUME TraceInv, Effect, NEW t \in Callers, NEW b \in Buffers, NEW c \in Buffers, Opened(t, b, c)
  PROVE  StackOK(c)'
<1>1. /\ nextId \in Nat /\ nextId' = nextId + 1 /\ Ids \subseteq Nat \ {0} /\ scopes \subseteq 1..(nextId - 1)
      /\ ToSet(b.open) \subseteq Ids /\ Len(b.open) \in Nat
      /\ \A i \in 1..Len(b.open) : b.open[i] \in Ids /\ b.open[i] \in ToSet(b.open)
      /\ \A x \in 1..(nextId - 1) : under'[x] = under[x] /\ home'[x] = home[x]
  <2>1. /\ nextId \in Nat /\ Ids \subseteq Nat \ {0} /\ scopes \subseteq 1..(nextId - 1)
        /\ nextId' = nextId + 1
    BY IdFacts DEF TraceInv, DrawnInv, Opened, Drew
  <2>2. \A x \in 1..(nextId - 1) : under'[x] = under[x] /\ home'[x] = home[x]
    BY Grows
  <2>3. /\ ToSet(b.open) \subseteq Ids /\ Len(b.open) \in Nat
        /\ \A i \in 1..Len(b.open) : b.open[i] \in Ids /\ b.open[i] \in ToSet(b.open)
    BY BufferFacts
  <2>4. QED
    BY <2>1, <2>2, <2>3
<1>2. /\ c.root = b.root /\ ToSet(c.open) = ToSet(b.open) \cup {nextId} /\ scopes' = scopes \cup {nextId}
      /\ Len(c.open) = Len(b.open) + 1 /\ c.open[Len(b.open) + 1] = nextId
      /\ \A i \in 1..Len(b.open) : c.open[i] = b.open[i]
      /\ closed' = closed
  BY DEF Opened, Longer, ended
<1>3. under'[nextId] = b.open /\ home'[nextId] = b.root
  BY IdFacts DEF TraceInv, Opened, Drew, Longer
<1>4. StackOK(b)
  BY DEF TraceInv, StackInv, Opened
<1>5. ASSUME NEW x \in ToSet(b.open)
      PROVE  x \in 1..(nextId - 1) /\ x < nextId /\ under'[x] = under[x] /\ home'[x] = b.root
  <2>1. x \in Nat \ {0} /\ x < nextId /\ home[x] = b.root
    BY <1>1, <1>4 DEF StackOK
  <2>2. x \in 1..(nextId - 1)
    BY <1>1, <2>1
  <2>3. QED
    BY <1>1, <2>1, <2>2
<1>6. Sorted(c.open)
  <2>1. ASSUME NEW i \in 1..Len(c.open), NEW k \in 1..Len(c.open), i < k PROVE c.open[i] < c.open[k]
    <3>1. i \in 1..Len(b.open) /\ c.open[i] = b.open[i]
      BY <1>1, <1>2, <2>1
    <3>2. CASE k \in 1..Len(b.open)
      BY <1>2, <1>4, <2>1, <3>1, <3>2 DEF StackOK, Sorted
    <3>3. CASE k = Len(b.open) + 1
      BY <1>1, <1>2, <1>5, <3>1, <3>3
    <3>4. QED
      BY <1>1, <1>2, <3>2, <3>3
  <2>2. QED
    BY <2>1 DEF Sorted
<1>7. ASSUME NEW x \in ToSet(c.open)
      PROVE  /\ x < nextId' /\ home'[x] = c.root /\ ~ClosedAtHome(x)'
             /\ \A y \in ToSet(c.open) : y < x => y \in ToSet(under'[x])
             /\ \A y \in ToSet(under'[x]) : ClosedAtHome(y)' \/ y \in ToSet(c.open)
  <2>1. CASE x = nextId
    <3>1. ~ClosedAtHome(x)'
      <4>1. ToSet(closed) = {closed[k] : k \in 1..Len(closed)} /\ \A k \in 1..Len(closed) : closed[k].id < nextId
        BY IdFacts DEF TraceInv, DrawnInv
      <4>2. \A e \in ToSet(closed) : e.id # nextId
        BY <1>1, <4>1
      <4>3. QED
        BY <1>2, <2>1, <4>2 DEF ClosedAtHome
    <3>2. QED
      BY <1>1, <1>2, <1>3, <2>1, <3>1
  <2>2. CASE x \in ToSet(b.open)
    <3>1. x \in 1..(nextId - 1) /\ x < nextId /\ x < nextId' /\ under'[x] = under[x] /\ home'[x] = c.root
      BY <1>1, <1>2, <1>5, <2>2
    <3>2. ~ClosedAtHome(x)'
      BY <1>2, <1>4, <2>2, <3>1, ClosedSame DEF StackOK
    <3>3. \A y \in ToSet(c.open) : y < x => y \in ToSet(under'[x])
      BY <1>1, <1>2, <1>4, <2>2, <3>1 DEF StackOK
    <3>4. ASSUME NEW y \in ToSet(under[x]) PROVE ClosedAtHome(y)' \/ y \in ToSet(c.open)
      <4>1. y \in 1..(nextId - 1)
        BY <3>1, AroundDrawn
      <4>2. ClosedAtHome(y) \/ y \in ToSet(b.open)
        BY <1>4, <2>2 DEF StackOK
      <4>3. QED
        BY <1>2, <4>1, <4>2, ClosedSame
    <3>5. QED
      BY <3>1, <3>2, <3>3, <3>4
  <2>3. QED
    BY <1>2, <2>1, <2>2
<1>8. ASSUME NEW id \in scopes', home'[id] = c.root PROVE id \in ToSet(c.open)
  <2>1. CASE id = nextId
    BY <1>2, <2>1
  <2>2. CASE id \in scopes
    BY <1>1, <1>2, <1>4, <1>8, <2>2 DEF StackOK
  <2>3. QED
    BY <1>2, <2>1, <2>2
<1>9. QED
  BY <1>6, <1>7, <1>8 DEF StackOK

\* The stack of the trace a span ends in, and those of the others.
LEMMA StackPop ==
  ASSUME TraceInv, Effect, NEW t \in Callers, NEW b \in Buffers, NEW c \in Buffers,
         NEW id \in Ids, NEW parent, SpanOver(t, b, c, id, parent)
  PROVE  /\ StackOK(c)'
         /\ \A u \in Callers : u # t => \A d \in trace[u] : StackOK(d)'
<1>1. /\ nextId \in Nat /\ Ids \subseteq Nat \ {0} /\ scopes \subseteq 1..(nextId - 1)
      /\ \A x \in 1..(nextId - 1) : home'[x] = home[x]
  BY IdFacts, Grows DEF TraceInv, DrawnInv
<1>2. /\ b \in trace[t] /\ c.root = b.root /\ Sorted(c.open) /\ ToSet(c.open) = ToSet(b.open) \ {id}
      /\ scopes' = scopes \ {id}
      /\ ToSet(closed') = ToSet(closed) \cup {[id |-> id, in |-> b.root]}
  BY DEF SpanOver, Longer
<1>3. ASSUME NEW x \in 1..(nextId - 1)
      PROVE  ClosedAtHome(x)' <=> ClosedAtHome(x) \/ (x = id /\ home[x] = b.root)
  BY <1>1, <1>2 DEF ClosedAtHome
<1>4. ASSUME NEW u \in Callers, NEW d \in trace[u]
      PROVE  /\ d \in Buffers /\ StackOK(d)
             /\ \A x \in ToSet(d.open) : x \in 1..(nextId - 1) /\ home[x] = d.root /\ ~ClosedAtHome(x)
  <2>1. d \in Buffers /\ StackOK(d) /\ ToSet(d.open) \subseteq Ids
    BY BufferTypes, BufferFacts DEF TraceInv, StackInv
  <2>2. ASSUME NEW x \in ToSet(d.open) PROVE x \in 1..(nextId - 1)
    <3>1. x \in Nat \ {0} /\ x < nextId
      BY <1>1, <2>1 DEF StackOK
    <3>2. QED
      BY <1>1, <3>1
  <2>3. QED
    BY <2>1, <2>2 DEF StackOK
<1>5. StackOK(c)'
  <2>1. StackOK(b) /\ ToSet(c.open) \subseteq ToSet(b.open)
    BY <1>2, <1>4
  <2>2. \A x \in ToSet(c.open) : ~ClosedAtHome(x)'
    BY <1>2, <1>3, <1>4
  <2>3. \A x \in ToSet(b.open) : x \in ToSet(c.open) \/ ClosedAtHome(x)'
    BY <1>2, <1>3, <1>4
  <2>4. \A i \in scopes' : home'[i] = c.root => i \in ToSet(c.open)
    BY <1>1, <1>2, <1>4 DEF StackOK
  <2>5. QED
    BY <1>2, <2>1, <2>2, <2>3, <2>4, StackShrinks
<1>6. ASSUME NEW u \in Callers, u # t, NEW d \in trace[u] PROVE StackOK(d)'
  <2>1. d \in Buffers /\ StackOK(d) /\ d.root # b.root /\ Sorted(d.open)
    BY <1>2, <1>4, <1>6 DEF TraceInv, RootInv, StackOK
  <2>2. \A x \in ToSet(d.open) : ~ClosedAtHome(x)'
    BY <1>3, <1>4, <2>1
  <2>3. \A i \in scopes' : home'[i] = d.root => i \in ToSet(d.open)
    BY <1>1, <1>2, <2>1 DEF StackOK
  <2>4. QED
    BY <2>1, <2>2, <2>3, StackShrinks
<1>7. QED
  BY <1>5, <1>6

LEMMA StepStackInv == ASSUME TraceInv, Effect PROVE StackInv'
<1>0. \A u \in Callers : \A d \in trace[u] : d \in Buffers /\ StackOK(d) /\ d.root \in Nat /\ d.root < nextId
  BY BufferTypes, BufferFacts, IdFacts DEF TraceInv, StackInv, RootInv
<1>1. ASSUME UNCHANGED closed, scopes' \subseteq scopes, NEW u \in Callers, NEW d \in trace[u]
      PROVE  StackOK(d)'
  BY <1>0, <1>1, OtherStacks
<1>2. CASE Quiet
  BY <1>1, <1>2 DEF StackInv, Quiet, ended
<1>3. ASSUME NEW t \in Callers, NEW b, TraceOver(t, b) PROVE StackInv'
  <2>1. \A u \in Callers : trace'[u] \subseteq trace[u]
    BY <1>3, BufferTypes DEF TraceInv, TraceOver
  <2>2. QED
    BY <1>1, <1>3, <2>1 DEF StackInv, TraceOver, ended
<1>4. ASSUME NEW t \in Callers, NEW c, Turned(t, c), StackOK(c)',
             \A u \in Callers : u # t => \A d \in trace[u] : StackOK(d)'
      PROVE  StackInv'
  <2>1. \A u \in Callers : trace'[u] = IF u = t THEN {c} ELSE trace[u]
    BY <1>4, BufferTypes DEF TraceInv, Turned
  <2>2. QED
    BY <1>4, <2>1 DEF StackInv
<1>5. ASSUME NEW t \in Callers, NEW c, Started(t, c) PROVE StackInv'
  <2>1. UNCHANGED <<closed, scopes>> /\ Turned(t, c) /\ c.root = nextId /\ c.open = <<>>
    BY <1>5 DEF Started, ended
  <2>2. \A id \in scopes' : home'[id] # c.root
    <3>1. /\ nextId \in Nat /\ scopes \subseteq 1..(nextId - 1) /\ 1..(nextId - 1) \subseteq Ids
          /\ Ids \subseteq Nat \ {0}
          /\ \A id \in 1..(nextId - 1) : home[id] \in Ids /\ home[id] <= id /\ home'[id] = home[id]
      BY IdFacts, Grows DEF TraceInv, DrawnInv
    <3>2. ASSUME NEW id \in scopes PROVE home'[id] # nextId
      <4>1. id \in 1..(nextId - 1) /\ home'[id] \in Nat /\ home'[id] <= id
        BY <3>1
      <4>2. QED
        BY <3>1, <4>1
    <3>3. QED
      BY <2>1, <3>2
  <2>3. StackOK(c)'
    BY <2>1, <2>2 DEF StackOK, Sorted, ToSet
  <2>4. QED
    BY <1>1, <1>4, <2>1, <2>3
<1>6. ASSUME NEW t \in Callers, NEW b \in Buffers, NEW c \in Buffers, Opened(t, b, c) PROVE StackInv'
  <2>1. b \in trace[t] /\ Turned(t, c) /\ UNCHANGED closed /\ scopes' = scopes \cup {nextId}
    BY <1>6 DEF Opened, ended
  <2>2. home'[nextId] = b.root
    BY <1>6, IdFacts DEF TraceInv, Opened, Drew, Longer
  <2>3. ASSUME NEW u \in Callers, u # t, NEW d \in trace[u] PROVE StackOK(d)'
    <3>1. d.root # b.root
      BY <2>1, <2>3 DEF TraceInv, RootInv
    <3>2. QED
      BY <1>0, <2>1, <2>2, <3>1, OtherStacks
  <2>4. QED
    BY <1>4, <1>6, <2>1, <2>3, StackPush
<1>7. ASSUME NEW t \in Callers, NEW b \in Buffers, NEW c \in Buffers, NEW id \in Ids, NEW parent,
             SpanOver(t, b, c, id, parent)
      PROVE  StackInv'
  BY <1>4, <1>7, StackPop DEF SpanOver
<1>8. QED
  BY <1>2, <1>3, <1>5, <1>6, <1>7 DEF Effect

-----------------------------------------------------------------------------
(* Theorems about Tracing *)

\* The invariant of the traces is inductive, so it holds in every reachable state.
THEOREM TraceInvariance == TraceSpec => []TraceInv
<1>1. ASSUME TraceInv, [TraceNext]_traceVars PROVE TraceInv'
  <2>1. Effect /\ TraceTypeOK' /\ OwnersInv'
    BY <1>1, Effects, StepTraceTypeOK, StepCounts
  <2>2. DrawnInv' /\ RootInv' /\ StackInv' /\ SpanInv'
    BY <1>1, <2>1, StepDrawnInv, StepBuffers, StepStackInv, StepSpanInv
  <2>3. ParentWasOpen' /\ PayloadIsTree'
    BY <1>1, <2>1, <2>2, StepParentWasOpen, StepPayloadIsTree
  <2>4. QED
    BY <2>1, <2>2, <2>3 DEF TraceInv
<1>2. QED
  BY InitTraceInv, <1>1, PTL DEF TraceSpec

-----------------------------------------------------------------------------
(* Traces and the queue together *)

\* What the traces do beside the queue is what they do alone.
LEMMA TraceSteps == ASSUME [Next]_vars PROVE [TraceNext]_traceVars
<1>1. ASSUME NEW t \in Callers, InApplication(t) PROVE TraceNext
  BY <1>1 DEF InApplication, TraceNext
<1>2. ASSUME NEW t \in Callers, EndAndPush(t) PROVE TraceNext
  BY <1>2 DEF EndAndPush, TraceNext
<1>3. CASE UNCHANGED vars
  BY <1>3 DEF vars
<1>4. QED
  BY <1>1, <1>2, <1>3 DEF Next

\* An owner's end leaves the finished traces alone or appends its own.
LEMMA EndAppends ==
  ASSUME TraceInv, NEW t \in Callers, TraceEnd(t), finished' # finished
  PROVE  /\ Len(finished') = Len(finished) + 1
         /\ \A i \in 1..Len(finished) : finished'[i] = finished[i]
         /\ finished'[Len(finished) + 1].by = t
         /\ finished'[Len(finished) + 1].sent =>
              finished'[Len(finished) + 1].buffer.send /\ finished'[Len(finished) + 1].slow
<1>1. PICK b \in trace[t], slow \in BOOLEAN :
        finished' = Append(finished, [buffer |-> b, by |-> t, slow |-> slow, sent |-> Sent(b, slow)])
  BY DEF TraceEnd
<1> DEFINE f == [buffer |-> b, by |-> t, slow |-> slow, sent |-> Sent(b, slow)]
<1>2. b \in Buffers /\ Sent(b, slow) \in BOOLEAN
  BY BufferTypes DEF TraceInv, Sent
<1>3. f \in FinishedTraces
  BY <1>2 DEF FinishedTraces
<1>4. f.by = t /\ (f.sent => f.buffer.send /\ f.slow)
  BY DEF Sent
<1> HIDE DEF f
<1>5. finished \in Seq(FinishedTraces) /\ finished' = Append(finished, f)
  BY <1>1 DEF f, TraceInv, TraceTypeOK
<1>6. QED
  BY <1>3, <1>4, <1>5, AppendSet

\* What the queue does beside the traces is what it does alone: a trace's number is a
\* payload, because no owner ends two.
LEMMA QueueSteps == ASSUME TraceInv, TraceInv', [Next]_vars PROVE [QueueNext]_queueVars
<1>1. ASSUME NEW t \in Callers, EndAndPush(t) PROVE QueueNext \/ UNCHANGED queueVars
  <2>1. CASE finished' # finished /\ PushBegin(t, Len(finished'))
    <3>1. Len(finished') = Len(finished) + 1 /\ Len(finished) \in Nat
      BY <1>1, <2>1, EndAppends, BufferTypes DEF EndAndPush, TraceInv
    <3>2. /\ made' \in 0..MaxOwners /\ owners' \in 0..made' /\ Len(finished') + owners' <= made'
          /\ MaxOwners \in Nat
      BY TracingAssumption DEF TraceInv, TraceTypeOK, OwnersInv
    <3>3. Len(finished') \in Payloads
      BY <3>1, <3>2, PayloadsAssumption
    <3>4. QED
      BY <2>1, <3>3 DEF QueueNext
  <2>2. QED
    BY <1>1, <2>1 DEF EndAndPush
<1>2. ASSUME NEW t \in Callers, InApplication(t) PROVE UNCHANGED queueVars
  BY <1>2 DEF InApplication
<1>3. CASE QueueStep
  BY <1>3 DEF QueueNext
<1>4. CASE UNCHANGED vars
  BY <1>4 DEF vars
<1>5. QED
  BY <1>1, <1>2, <1>3, <1>4 DEF Next

\* A step leaves the payloads to the push() that brings one, and nobody else's
\* argument changes.
LEMMA QueueStays ==
  ASSUME Inv, QueueStep
  PROVE  \/ /\ payloads' = payloads
            /\ \A u \in Callers : pc'[u] = "push" => pc[u] = "push" /\ arg'[u] = arg[u]
         \/ \E t \in Callers :
              /\ pc[t] = "push" /\ payloads' = Append(payloads, arg[t])
              /\ \A u \in Callers :
                   pc'[u] = "push" => u # t /\ pc[u] = "push" /\ arg'[u] = arg[u]
<1> DEFINE Keeps == /\ payloads' = payloads
                    /\ \A u \in Callers : pc'[u] = "push" => pc[u] = "push" /\ arg'[u] = arg[u]
<1>1. /\ Callers \subseteq Threads /\ Worker \in Threads /\ Worker \notin Callers
      /\ pc \in [Threads -> Pcs] /\ arg \in [Callers -> Payloads \cup {0}]
  BY ThreadsAssumption DEF Inv, QueueTypeOK, Threads
<1> USE <1>1 DEF At, Goto, fates
<1>2. ASSUME NEW t \in Callers, PushLocked(t)
      PROVE  Keeps \/ (/\ pc[t] = "push" /\ payloads' = Append(payloads, arg[t])
                       /\ \A u \in Callers :
                            pc'[u] = "push" => u # t /\ pc[u] = "push" /\ arg'[u] = arg[u])
  BY <1>2 DEF PushLocked
<1>3. ASSUME NEW t \in Callers, EnsureWorkerStarted(t) PROVE Keeps
  BY <1>3 DEF EnsureWorkerStarted
<1>4. ASSUME NEW t \in Callers, Notify(t) PROVE Keeps
  BY <1>4 DEF Notify, Wake
<1>5. ASSUME NEW t \in Callers, StopBegin(t) PROVE Keeps
  BY <1>5 DEF StopBegin
<1>6. ASSUME NEW t \in Callers, StopLocked(t) PROVE Keeps
  BY <1>6 DEF StopLocked
<1>7. ASSUME NEW t \in Callers, NotifyAll(t) PROVE Keeps
  BY <1>7 DEF NotifyAll, Wake
<1>8. ASSUME NEW t \in Callers, Join(t) PROVE Keeps
  BY <1>8 DEF Join
<1>9. ASSUME WorkerCheck \/ SpuriousWakeup \/ WorkerDeliver \/ WorkerLog PROVE Keeps
  <2>1. /\ UNCHANGED <<payloads, arg>>
        /\ \E where \in Pcs : pc' = [pc EXCEPT ![Worker] = where]
    BY <1>9 DEF WorkerCheck, SpuriousWakeup, WorkerDeliver, WorkerLog, Pcs, WorkerPcs
  <2>2. QED
    BY <2>1
<1>10. QED
  BY <1>2, <1>3, <1>4, <1>5, <1>6, <1>7, <1>8, <1>9 DEF QueueStep

\* A trace that ends changes none that ended before.
LEMMA FinishedStay ==
  ASSUME TraceInv, [TraceNext]_traceVars
  PROVE  /\ Len(finished) <= Len(finished') /\ Len(finished') \in Nat
         /\ \A i \in 1..Len(finished) : finished'[i] = finished[i]
         /\ \A i \in 1..Len(finished') : i \in 1..Len(finished) \/
              (finished'[i].sent => finished'[i].buffer.send /\ finished'[i].slow)
<1>0. Len(finished) \in Nat
  BY BufferTypes DEF TraceInv
<1>1. ASSUME NEW t \in Callers, TraceEnd(t), finished' # finished
      PROVE  /\ Len(finished) <= Len(finished') /\ Len(finished') \in Nat
             /\ \A i \in 1..Len(finished) : finished'[i] = finished[i]
             /\ \A i \in 1..Len(finished') : i \in 1..Len(finished) \/
                  (finished'[i].sent => finished'[i].buffer.send /\ finished'[i].slow)
  <2>1. /\ Len(finished') = Len(finished) + 1
        /\ \A i \in 1..Len(finished) : finished'[i] = finished[i]
        /\ finished'[Len(finished) + 1].sent =>
             finished'[Len(finished) + 1].buffer.send /\ finished'[Len(finished) + 1].slow
    BY <1>1, EndAppends
  <2>2. \A i \in 1..Len(finished') : i \in 1..Len(finished) \/ i = Len(finished) + 1
    BY <1>0, <2>1
  <2>3. QED
    BY <1>0, <2>1, <2>2
<1>2. finished' = finished \/ \E t \in Callers : TraceEnd(t) /\ finished' # finished
  BY DEF TraceNext, TraceStep, TraceBegin, SpanBegin, SpanEnd, RecordSpan, traceVars
<1>3. QED
  BY <1>0, <1>1, <1>2

\* What the queue's own steps keep of PushInv.
LEMMA PushedInOrder ==
  ASSUME Inv, TraceInv, PushInv, QueueStep, UNCHANGED finished
  PROVE  PushInv'
<1>1. /\ payloads \in Seq(Payloads) /\ Len(payloads) \in Nat
      /\ \A t \in Callers : pc[t] = "push" => arg[t] \in Payloads
  BY LenProperties DEF Inv, QueueTypeOK, PcInv
<1>2. CASE /\ payloads' = payloads
           /\ \A u \in Callers : pc'[u] = "push" => pc[u] = "push" /\ arg'[u] = arg[u]
  BY <1>2 DEF PushInv
<1>3. ASSUME NEW t \in Callers, pc[t] = "push", payloads' = Append(payloads, arg[t]),
             \A u \in Callers : pc'[u] = "push" => u # t /\ pc[u] = "push" /\ arg'[u] = arg[u]
      PROVE  PushInv'
  <2>1. /\ Len(payloads') = Len(payloads) + 1 /\ payloads'[Len(payloads) + 1] = arg[t]
        /\ \A k \in 1..Len(payloads) : payloads'[k] = payloads[k]
    BY <1>1, <1>3, AppendSet
  <2>2. /\ arg[t] \in 1..Len(finished) /\ finished[arg[t]].by = t /\ finished[arg[t]].sent
        /\ \A k \in 1..Len(payloads) : finished[payloads[k]].by = t => payloads[k] < arg[t]
    BY <1>3 DEF PushInv
  <2>3. \A k \in 1..Len(payloads') : k \in 1..Len(payloads) \/ k = Len(payloads')
    BY <1>1, <2>1
  <2>4. \A k \in 1..Len(payloads') :
          payloads'[k] \in 1..Len(finished') /\ finished'[payloads'[k]].sent
    BY <2>1, <2>2, <2>3 DEF PushInv
  <2>5. ASSUME NEW k \in 1..Len(payloads'), NEW m \in 1..Len(payloads'), k < m,
               finished'[payloads'[k]].by = finished'[payloads'[m]].by
        PROVE  payloads'[k] < payloads'[m]
    <3>1. k \in 1..Len(payloads) /\ payloads'[k] = payloads[k]
      BY <1>1, <2>1, <2>5
    <3>2. CASE m \in 1..Len(payloads)
      BY <2>1, <2>5, <3>1, <3>2 DEF PushInv
    <3>3. CASE m = Len(payloads')
      BY <2>1, <2>2, <2>5, <3>1, <3>3
    <3>4. QED
      BY <2>3, <3>2, <3>3
  <2>6. ASSUME NEW u \in Callers, pc'[u] = "push"
        PROVE  /\ arg'[u] \in 1..Len(finished') /\ finished'[arg'[u]].by = u /\ finished'[arg'[u]].sent
               /\ \A k \in 1..Len(payloads') :
                    finished'[payloads'[k]].by = u => payloads'[k] < arg'[u]
    <3>1. /\ u # t /\ arg'[u] = arg[u]
          /\ arg[u] \in 1..Len(finished) /\ finished[arg[u]].by = u /\ finished[arg[u]].sent
          /\ \A k \in 1..Len(payloads) : finished[payloads[k]].by = u => payloads[k] < arg[u]
      BY <1>3, <2>6 DEF PushInv
    <3>2. finished[payloads'[Len(payloads')]].by # u
      BY <2>1, <2>2, <3>1
    <3>3. QED
      BY <2>1, <2>3, <3>1, <3>2
  <2>7. \A i \in 1..Len(finished') :
          finished'[i].sent => finished'[i].buffer.send /\ finished'[i].slow
    BY DEF PushInv
  <2>8. QED
    BY <2>4, <2>5, <2>6, <2>7 DEF PushInv
<1>4. QED
  BY <1>2, <1>3, QueueStays

\* A trace that ends is younger than every one pushed so far.
LEMMA StepPushInv == ASSUME Inv, TraceInv, PushInv, [Next]_vars PROVE PushInv'
<1>0. /\ Len(finished) \in Nat /\ Len(payloads) \in Nat
      /\ Callers \subseteq Threads /\ DOMAIN pc = Threads /\ DOMAIN arg = Callers
  BY BufferTypes, LenProperties DEF TraceInv, Inv, QueueTypeOK, Threads
<1>1. /\ Len(finished) <= Len(finished') /\ Len(finished') \in Nat
      /\ \A i \in 1..Len(finished) : finished'[i] = finished[i]
      /\ \A i \in 1..Len(finished') : finished'[i].sent => finished'[i].buffer.send /\ finished'[i].slow
  BY TraceSteps, FinishedStay DEF PushInv
<1>2. \A i \in 1..Len(finished) : i \in 1..Len(finished')
  BY <1>0, <1>1
<1>3. CASE UNCHANGED queueVars
  <2>1. payloads' = payloads /\ pc' = pc /\ arg' = arg
    BY <1>3 DEF queueVars, fates
  <2>2. /\ \A k \in 1..Len(payloads) :
             payloads[k] \in 1..Len(finished') /\ finished'[payloads[k]].sent
        /\ \A k \in 1..Len(payloads) : finished'[payloads[k]] = finished[payloads[k]]
    BY <1>1, <1>2 DEF PushInv
  <2>3. ASSUME NEW t \in Callers, pc[t] = "push"
        PROVE  /\ arg[t] \in 1..Len(finished') /\ finished'[arg[t]].by = t
               /\ finished'[arg[t]].sent
               /\ \A k \in 1..Len(payloads) :
                    finished'[payloads[k]].by = t => payloads[k] < arg[t]
    BY <1>1, <1>2, <2>2, <2>3 DEF PushInv
  <2>4. \A k, m \in 1..Len(payloads) :
          k < m /\ finished'[payloads[k]].by = finished'[payloads[m]].by => payloads[k] < payloads[m]
    BY <2>2 DEF PushInv
  <2>5. QED
    BY <1>1, <2>1, <2>2, <2>3, <2>4 DEF PushInv
<1>4. ASSUME NEW t \in Callers, TraceEnd(t), finished' # finished,
             finished'[Len(finished')].sent, PushBegin(t, Len(finished'))
      PROVE  PushInv'
  <2>1. /\ payloads' = payloads
        /\ arg'[t] = Len(finished')
        /\ \A u \in Callers : u # t => arg'[u] = arg[u] /\ pc'[u] = pc[u]
    BY <1>0, <1>4 DEF PushBegin, Goto, fates
  <2>2. /\ Len(finished') = Len(finished) + 1 /\ Len(finished') \in 1..Len(finished')
        /\ finished'[Len(finished')].by = t
    BY <1>0, <1>4, EndAppends
  <2>3. /\ \A k \in 1..Len(payloads) : payloads[k] \in 1..Len(finished)
        /\ \A k \in 1..Len(payloads) : payloads[k] < Len(finished')
    BY <1>0, <2>2 DEF PushInv
  <2>4. \A k \in 1..Len(payloads') :
          payloads'[k] \in 1..Len(finished') /\ finished'[payloads'[k]].sent
    BY <1>1, <1>2, <2>1 DEF PushInv
  <2>5. \A k, m \in 1..Len(payloads') :
          k < m /\ finished'[payloads'[k]].by = finished'[payloads'[m]].by => payloads'[k] < payloads'[m]
    BY <1>1, <2>1, <2>3 DEF PushInv
  <2>6. ASSUME NEW u \in Callers, pc'[u] = "push"
        PROVE  /\ arg'[u] \in 1..Len(finished') /\ finished'[arg'[u]].by = u /\ finished'[arg'[u]].sent
               /\ \A k \in 1..Len(payloads') :
                    finished'[payloads'[k]].by = u => payloads'[k] < arg'[u]
    <3>1. CASE u = t
      BY <1>4, <2>1, <2>2, <2>3, <3>1
    <3>2. CASE u # t
      <4>1. /\ arg'[u] = arg[u]
            /\ arg[u] \in 1..Len(finished) /\ finished[arg[u]].by = u /\ finished[arg[u]].sent
            /\ \A k \in 1..Len(payloads) : finished[payloads[k]].by = u => payloads[k] < arg[u]
        BY <2>1, <2>6, <3>2 DEF PushInv
      <4>2. QED
        BY <1>1, <1>2, <2>1, <2>3, <4>1
    <3>3. QED
      BY <3>1, <3>2
  <2>7. QED
    BY <1>1, <2>4, <2>5, <2>6 DEF PushInv
<1>5. CASE QueueStep /\ UNCHANGED traceVars
  <2>1. UNCHANGED finished
    BY <1>5 DEF traceVars
  <2>2. QED
    BY <1>5, <2>1, PushedInOrder
<1>6. ASSUME NEW t \in Callers, EndAndPush(t) PROVE PushInv'
  BY <1>3, <1>4, <1>6 DEF EndAndPush
<1>7. ASSUME NEW t \in Callers, InApplication(t) PROVE PushInv'
  BY <1>3, <1>7 DEF InApplication
<1>8. CASE UNCHANGED vars
  BY <1>3, <1>8 DEF vars
<1>9. QED
  BY <1>5, <1>6, <1>7, <1>8 DEF Next

-----------------------------------------------------------------------------
(* Theorems about TracePipeline *)

\* The pipeline never does to the traces what Tracing alone would not.
LEMMA PipelineTraces == Spec => TraceSpec
<1>1. Init => TraceInit
  BY DEF Init
<1>2. QED
  BY <1>1, TraceSteps, PTL DEF Spec, TraceSpec

\* Nor to the queue what SpanQueue alone, with any push() at any time, would not.
LEMMA PipelineQueue == Spec => QueueSpec
<1>1. Init => QueueInit
  BY DEF Init
<1>2. Spec => []TraceInv
  BY PipelineTraces, TraceInvariance, PTL
<1>3. QED
  BY <1>1, <1>2, QueueSteps, PTL DEF Spec, QueueSpec

\* The invariants of the traces, of the queue and of what one hands to the other hold
\* together in every reachable state.
THEOREM PipelineInvariance == Spec => [](TraceInv /\ Inv /\ PushInv)
<1>1. Spec => []TraceInv
  BY PipelineTraces, TraceInvariance, PTL
<1>2. Spec => []Inv
  BY PipelineQueue, Invariance, PTL
<1>3. Init => PushInv
  <2>1. ASSUME Init PROVE PushInv
    <3>1. /\ finished = <<>> /\ payloads = <<>> /\ \A t \in Callers : pc[t] = "idle"
      BY <2>1, ThreadsAssumption DEF Init, TraceInit, QueueInit, Threads
    <3>2. Len(finished) = 0 /\ Len(payloads) = 0
      BY <3>1
    <3>3. QED
      BY <3>1, <3>2 DEF PushInv
  <2>2. QED
    BY <2>1
<1>4. QED
  BY <1>1, <1>2, <1>3, StepPushInv, PTL DEF Spec

\* Type correctness of the traces and the queue, for any number of threads, spans,
\* traces and stops and any limits.
THEOREM PipelineTypeCorrect == Spec => []TypeOK
  BY PipelineInvariance, PTL DEF TypeOK, TraceInv, Inv

\* Every recorded span's parent is the innermost of the spans open around it when it
\* started that were still open when it ended, else the root, whatever order the
\* scope objects are destroyed in and on whatever thread.
THEOREM ParentsWereOpen == Spec => []ParentWasOpen
  BY PipelineInvariance, PTL DEF TraceInv

\* What a buffer holds is within max_spans and hangs together below its root but for
\* spans dropped or still open, and no span is recorded twice, in one trace or in two.
THEOREM PayloadsAreTrees == Spec => []PayloadIsTree
  BY PipelineInvariance, PTL DEF TraceInv

\* What is queued are traces that were to be sent and slow enough, no trace twice, and
\* one thread's traces in the order they ended.
THEOREM SlowTracesSentOnce == Spec => []SlowTracesOnce
<1>1. ASSUME TraceInv, Inv, PushInv PROVE SlowTracesOnce
  <2>1. DOMAIN payloads = 1..Len(payloads) /\ Len(payloads) \in Nat
    BY <1>1, LenProperties DEF Inv, QueueTypeOK
  <2>2. \A k \in DOMAIN payloads :
          finished[payloads[k]].buffer.send /\ finished[payloads[k]].slow
    BY <1>1, <2>1 DEF PushInv
  <2>3. \A k, m \in DOMAIN payloads :
          k < m /\ finished[payloads[k]].by = finished[payloads[m]].by => payloads[k] < payloads[m]
    BY <1>1, <2>1 DEF PushInv
  <2>4. ASSUME NEW k \in DOMAIN payloads, NEW m \in DOMAIN payloads, k # m
        PROVE  finished[payloads[k]].buffer.root # finished[payloads[m]].buffer.root
    <3>1. payloads[k] \in 1..Len(finished) /\ payloads[m] \in 1..Len(finished)
      BY <1>1, <2>1 DEF PushInv
    <3>2. payloads[k] # payloads[m]
      <4>1. SUFFICES ASSUME payloads[k] = payloads[m] PROVE FALSE
        OBVIOUS
      <4>2. k < m \/ m < k
        BY <2>1, <2>4
      <4>3. payloads[k] < payloads[m] \/ payloads[m] < payloads[k]
        BY <2>3, <4>1, <4>2
      <4>4. QED
        BY <3>1, <4>1, <4>3
    <3>3. QED
      BY <1>1, <3>1, <3>2 DEF TraceInv, RootInv
  <2>5. QED
    BY <2>2, <2>3, <2>4 DEF SlowTracesOnce
<1>2. QED
  BY <1>1, PipelineInvariance, PTL

\* In the pipeline too a worker that left has settled what was queued before the stop,
\* and none runs or starts after shutdown() or discard() has returned.
THEOREM PipelineStop == Spec => []StopIsClean
  BY PipelineInvariance, PTL DEF Inv

\* In the pipeline too the queue implements the bounded handoff.
THEOREM PipelineHandoff == Spec => ImplementsHandoff
  BY PipelineQueue, Refinement, PTL

=============================================================================
