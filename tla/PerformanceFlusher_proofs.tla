----------------------- MODULE PerformanceFlusher_proofs -----------------------
(***************************************************************************)
(* Theorems about PerformanceFlusher, for every set of callers, names and  *)
(* durations, every limit, number of calls and set of faults.  First, sums *)
(* over finite sets: the library's induction theorems take an operator;    *)
(* here a set of counterexamples takes its place, of which FiniteMinimum   *)
(* finds a minimal one.                                                    *)
(***************************************************************************)
EXTENDS PerformanceFlusher, FiniteSetsExt, FiniteSetTheorems, SequenceTheorems, TLAPS

-----------------------------------------------------------------------------
(* Sums over finite sets, as MapThenSumSet folds them *)

\* The durations of the entries of l that are in S.
Total(l, S) == MapThenSumSet(LAMBDA i : l[i].ms, S)

Pick(S) == CHOOSE x \in S : TRUE

\* The recursive function behind Total.
IsTally(f, l, S) ==
  f = [s \in SUBSET S |-> IF s = {} THEN 0 ELSE l[Pick(s)].ms + f[s \ {Pick(s)}]]

Tally(l, S) == CHOOSE f : IsTally(f, l, S)

-----------------------------------------------------------------------------

\* Among subsets of a finite set, some have no smaller one beside them.
LEMMA FiniteMinimum ==
  ASSUME NEW S, IsFiniteSet(S), NEW B \in SUBSET (SUBSET S), B # {}
  PROVE  \E T \in B : \A U \in SUBSET T : U # T => U \notin B
<1>1. IsWellFoundedOn(StrictSubsetOrdering(S), SUBSET S)
  BY FS_StrictSubsetOrderingWellFounded, FS_FiniteSubsetsOfFinite
<1>2. PICK T \in B : \A U \in B : <<U, T>> \notin StrictSubsetOrdering(S)
  BY <1>1, WFMin
<1>3. ASSUME NEW U \in SUBSET T, U # T, U \in B PROVE FALSE
  BY <1>2, <1>3 DEF StrictSubsetOrdering
<1>4. QED
  BY <1>3

LEMMA PickIn == ASSUME NEW S, S # {} PROVE Pick(S) \in S
  BY DEF Pick

LEMMA TotalIsTally == ASSUME NEW l, NEW S PROVE Total(l, S) = Tally(l, S)[S]
  BY DEF Total, MapThenSumSet, MapThenFoldSet, Tally, IsTally, Pick

\* Two tallies agree where both are defined.
LEMMA TallyUnique ==
  ASSUME NEW l, NEW S, IsFiniteSet(S), NEW R, NEW T, S \subseteq R, S \subseteq T,
         NEW f, IsTally(f, l, R), NEW g, IsTally(g, l, T)
  PROVE  f[S] = g[S]
<1> DEFINE B == {s \in SUBSET S : f[s] # g[s]}
<1>1. ASSUME B # {} PROVE FALSE
  <2>0. B \in SUBSET (SUBSET S)
    OBVIOUS
  <2>1. PICK s \in B : \A u \in SUBSET s : u # s => u \notin B
    <3> HIDE DEF B
    <3>1. QED
      BY <1>1, <2>0, FiniteMinimum
  <2>2. s \in SUBSET R /\ s \in SUBSET T /\ f[s] # g[s]
    BY <2>1
  <2>3. CASE s = {}
    BY <2>2, <2>3 DEF IsTally
  <2>4. CASE s # {}
    <3>1. s \ {Pick(s)} \in SUBSET s /\ s \ {Pick(s)} # s /\ s \ {Pick(s)} \in SUBSET S
      BY <2>1, <2>4, PickIn
    <3>2. f[s \ {Pick(s)}] = g[s \ {Pick(s)}]
      BY <2>1, <3>1
    <3>3. f[s] = l[Pick(s)].ms + f[s \ {Pick(s)}]
      BY <2>2, <2>4 DEF IsTally
    <3>4. g[s] = l[Pick(s)].ms + g[s \ {Pick(s)}]
      BY <2>2, <2>4 DEF IsTally
    <3>5. QED
      BY <2>2, <3>2, <3>3, <3>4
  <2>5. QED
    BY <2>3, <2>4
<1>2. QED
  BY <1>1

\* Where there is a tally, the total takes one element off at a time.
LEMMA TallyStep ==
  ASSUME NEW l, NEW S, IsFiniteSet(S), S # {}, \E f : IsTally(f, l, S)
  PROVE  Total(l, S) = l[Pick(S)].ms + Total(l, S \ {Pick(S)})
<1> DEFINE R == S \ {Pick(S)}
           f == Tally(l, S)
           g == [s \in SUBSET R |-> f[s]]
<1>1. IsTally(f, l, S)
  BY DEF Tally
<1>2. \A s \in SUBSET R : f[s] = IF s = {} THEN 0 ELSE l[Pick(s)].ms + f[s \ {Pick(s)}]
  BY <1>1 DEF IsTally
<1>3. IsTally(g, l, R)
  <2>1. ASSUME NEW s \in SUBSET R PROVE s \ {Pick(s)} \in SUBSET R
    OBVIOUS
  <2>2. \A s \in SUBSET R :
          g[s] = IF s = {} THEN 0 ELSE l[Pick(s)].ms + g[s \ {Pick(s)}]
    BY <1>2, <2>1
  <2> HIDE DEF f
  <2>3. QED
    BY <2>2 DEF IsTally
<1>4. IsTally(Tally(l, R), l, R)
  BY <1>3 DEF Tally
<1>5. IsFiniteSet(R)
  BY FS_RemoveElement
<1>6. f[R] = Tally(l, R)[R]
  BY <1>1, <1>4, <1>5, TallyUnique
<1>7. f[S] = l[Pick(S)].ms + f[R]
  BY <1>1 DEF IsTally
<1>8. QED
  BY <1>6, <1>7, TotalIsTally

\* Every finite set has a tally.
LEMMA TallyExists == ASSUME NEW l, NEW S, IsFiniteSet(S) PROVE \E f : IsTally(f, l, S)
<1> DEFINE B == {s \in SUBSET S : ~ \E f : IsTally(f, l, s)}
<1>1. ASSUME B # {} PROVE FALSE
  <2>0. B \in SUBSET (SUBSET S)
    OBVIOUS
  <2>1. PICK T \in B : \A u \in SUBSET T : u # T => u \notin B
    <3> HIDE DEF B
    <3>1. QED
      BY <1>1, <2>0, FiniteMinimum
  <2>2. IsFiniteSet(T)
    BY FS_Subset
  <2> DEFINE h == [s \in SUBSET T |->
                     IF s = {} THEN 0 ELSE l[Pick(s)].ms + Total(l, s \ {Pick(s)})]
  <2>3. Total(l, {}) = 0
    <3>1. IsTally([s \in SUBSET {} |-> 0], l, {})
      BY DEF IsTally
    <3>2. IsTally(Tally(l, {}), l, {})
      BY <3>1 DEF Tally
    <3>3. QED
      BY <3>2, TotalIsTally DEF IsTally
  <2>4. ASSUME NEW s \in SUBSET T, s # T PROVE h[s] = Total(l, s)
    <3>1. CASE s = {}
      BY <2>3, <3>1
    <3>2. CASE s # {}
      <4>1. IsFiniteSet(s) /\ \E f : IsTally(f, l, s)
        BY <2>1, <2>2, <2>4, FS_Subset
      <4>2. QED
        BY <3>2, <4>1, TallyStep
    <3>3. QED
      BY <3>1, <3>2
  <2>5. ASSUME NEW s \in SUBSET T, s # {} PROVE Total(l, s \ {Pick(s)}) = h[s \ {Pick(s)}]
    <3>1. s \ {Pick(s)} \in SUBSET T /\ s \ {Pick(s)} # T
      BY <2>5, PickIn
    <3>2. QED
      BY <2>4, <3>1
  <2>6. \A s \in SUBSET T : h[s] = IF s = {} THEN 0 ELSE l[Pick(s)].ms + h[s \ {Pick(s)}]
    BY <2>5
  <2>7. h = [s \in SUBSET T |-> h[s]]
    OBVIOUS
  <2> HIDE DEF h
  <2>8. IsTally(h, l, T)
    BY <2>6, <2>7 DEF IsTally
  <2>9. QED
    BY <2>1, <2>8
<1>2. QED
  BY <1>1

-----------------------------------------------------------------------------
(* What Total satisfies *)

LEMMA TotalEmpty == ASSUME NEW l PROVE Total(l, {}) = 0
<1>1. IsTally(Tally(l, {}), l, {})
  BY FS_EmptySet, TallyExists DEF Tally
<1>2. QED
  BY <1>1, TotalIsTally DEF IsTally

LEMMA TotalPick ==
  ASSUME NEW l, NEW S, IsFiniteSet(S), S # {}
  PROVE  Total(l, S) = l[Pick(S)].ms + Total(l, S \ {Pick(S)})
  BY TallyExists, TallyStep

LEMMA TotalNat ==
  ASSUME NEW l, NEW S, IsFiniteSet(S), \A i \in S : l[i].ms \in Nat
  PROVE  Total(l, S) \in Nat
<1> DEFINE B == {s \in SUBSET S : Total(l, s) \notin Nat}
<1>1. ASSUME B # {} PROVE FALSE
  <2>0. B \in SUBSET (SUBSET S)
    OBVIOUS
  <2>1. PICK s \in B : \A u \in SUBSET s : u # s => u \notin B
    <3> HIDE DEF B
    <3>1. QED
      BY <1>1, <2>0, FiniteMinimum
  <2>2. s # {}
    BY TotalEmpty
  <2>3. s \ {Pick(s)} \in SUBSET s /\ s \ {Pick(s)} # s /\ Pick(s) \in S
    BY <2>2, PickIn
  <2>4. Total(l, s \ {Pick(s)}) \in Nat /\ l[Pick(s)].ms \in Nat
    BY <2>1, <2>3
  <2>5. Total(l, s) = l[Pick(s)].ms + Total(l, s \ {Pick(s)})
    BY <2>2, TotalPick, FS_Subset
  <2>6. QED
    BY <2>4, <2>5
<1>2. QED
  BY <1>1

\* Any element can be taken off, not only the one the fold picks.
LEMMA TotalRemove ==
  ASSUME NEW l, NEW S, IsFiniteSet(S), \A i \in S : l[i].ms \in Nat, NEW x \in S
  PROVE  Total(l, S) = l[x].ms + Total(l, S \ {x})
<1> DEFINE B == {s \in SUBSET S : \E e \in s : Total(l, s) # l[e].ms + Total(l, s \ {e})}
<1>1. ASSUME B # {} PROVE FALSE
  <2>0. B \in SUBSET (SUBSET S)
    OBVIOUS
  <2>1. PICK s \in B : \A u \in SUBSET s : u # s => u \notin B
    <3> HIDE DEF B
    <3>1. QED
      BY <1>1, <2>0, FiniteMinimum
  <2>2. PICK e \in s : Total(l, s) # l[e].ms + Total(l, s \ {e})
    BY <2>1
  <2> DEFINE p == Pick(s)
             rest == (s \ {p}) \ {e}
  <2>3. p \in s /\ IsFiniteSet(s)
    BY <2>2, PickIn, FS_Subset
  <2>4. Total(l, s) = l[p].ms + Total(l, s \ {p})
    BY <2>2, <2>3, TotalPick
  <2>5. p # e
    BY <2>2, <2>4
  <2>6. Total(l, s \ {p}) = l[e].ms + Total(l, rest)
    <3>1. s \ {p} \in SUBSET s /\ s \ {p} # s /\ e \in s \ {p}
      BY <2>3, <2>5
    <3>2. s \ {p} \notin B
      BY <2>1, <3>1
    <3>3. QED
      BY <3>1, <3>2
  <2>7. Total(l, s \ {e}) = l[p].ms + Total(l, rest)
    <3>1. s \ {e} \in SUBSET s /\ s \ {e} # s /\ p \in s \ {e} /\ (s \ {e}) \ {p} = rest
      BY <2>3, <2>5
    <3>2. s \ {e} \notin B
      BY <2>1, <3>1
    <3>3. QED
      BY <3>1, <3>2
  <2>8. l[p].ms \in Nat /\ l[e].ms \in Nat /\ Total(l, rest) \in Nat
    <3>1. IsFiniteSet(rest) /\ rest \subseteq S
      BY <2>3, FS_Subset
    <3>2. QED
      BY <2>3, <3>1, TotalNat
  <2>9. QED
    BY <2>2, <2>4, <2>6, <2>7, <2>8
<1>2. QED
  BY <1>1

LEMMA TotalAdd ==
  ASSUME NEW l, NEW S, IsFiniteSet(S), NEW x, x \notin S,
         \A i \in S \cup {x} : l[i].ms \in Nat
  PROVE  Total(l, S \cup {x}) = l[x].ms + Total(l, S)
<1>1. IsFiniteSet(S \cup {x}) /\ (S \cup {x}) \ {x} = S
  BY FS_AddElement
<1>2. QED
  BY <1>1, TotalRemove

\* The total of a set is that of a part and of the rest.
LEMMA TotalDifference ==
  ASSUME NEW l, NEW S, IsFiniteSet(S), \A i \in S : l[i].ms \in Nat, NEW T \in SUBSET S
  PROVE  Total(l, S) = Total(l, T) + Total(l, S \ T)
<1> DEFINE B == {s \in SUBSET T : Total(l, S) # Total(l, s) + Total(l, S \ s)}
<1>0. IsFiniteSet(T)
  BY FS_Subset
<1>1. ASSUME B # {} PROVE FALSE
  <2>0. B \in SUBSET (SUBSET T)
    OBVIOUS
  <2>1. PICK s \in B : \A u \in SUBSET s : u # s => u \notin B
    <3> HIDE DEF B
    <3>1. QED
      BY <1>0, <1>1, <2>0, FiniteMinimum
  <2>2. s # {}
    <3>1. Total(l, S) \in Nat
      BY TotalNat
    <3>2. Total(l, {}) + Total(l, S \ {}) = Total(l, S)
      <4>1. S \ {} = S
        OBVIOUS
      <4>2. Total(l, S \ {}) = Total(l, S)
        BY <4>1
      <4>3. QED
        BY <3>1, <4>2, TotalEmpty
    <3>3. Total(l, S) # Total(l, s) + Total(l, S \ s)
      BY <2>1
    <3>4. QED
      BY <3>2, <3>3
  <2> DEFINE p == Pick(s)
             left == s \ {p}
  <2>3. /\ p \in s /\ p \in S /\ left \in SUBSET s /\ left # s
        /\ left \in SUBSET S /\ s \in SUBSET S
    BY <2>2, PickIn
  <2>4. Total(l, S) = Total(l, left) + Total(l, S \ left)
    <3>1. left \notin B
      BY <2>1, <2>3
    <3>2. QED
      BY <2>3, <3>1
  <2>5. Total(l, s) = l[p].ms + Total(l, left)
    <3>1. IsFiniteSet(s) /\ \A i \in s : l[i].ms \in Nat
      BY <2>3, FS_Subset
    <3>2. QED
      BY <2>3, <3>1, TotalRemove
  <2>6. Total(l, S \ left) = l[p].ms + Total(l, S \ s)
    <3>1. IsFiniteSet(S \ left) /\ p \in S \ left /\ (S \ left) \ {p} = S \ s
      BY <2>3, FS_Difference
    <3>2. QED
      BY <3>1, TotalRemove
  <2>7. /\ l[p].ms \in Nat /\ Total(l, left) \in Nat /\ Total(l, S \ s) \in Nat
    <3>1. IsFiniteSet(left) /\ IsFiniteSet(S \ s)
      BY <2>3, FS_Subset, FS_Difference
    <3>2. QED
      BY <2>3, <3>1, TotalNat
  <2>8. QED
    BY <2>1, <2>4, <2>5, <2>6, <2>7
<1>2. QED
  BY <1>1

\* Only the durations in the set matter: a log that grew has the same total there.
LEMMA TotalSame ==
  ASSUME NEW l, NEW m, NEW S, IsFiniteSet(S), \A i \in S : l[i].ms = m[i].ms
  PROVE  Total(l, S) = Total(m, S)
<1> DEFINE B == {s \in SUBSET S : Total(l, s) # Total(m, s)}
<1>1. ASSUME B # {} PROVE FALSE
  <2>0. B \in SUBSET (SUBSET S)
    OBVIOUS
  <2>1. PICK s \in B : \A u \in SUBSET s : u # s => u \notin B
    <3> HIDE DEF B
    <3>1. QED
      BY <1>1, <2>0, FiniteMinimum
  <2>2. s # {}
    BY <2>1, TotalEmpty
  <2>3. /\ Pick(s) \in S /\ s \ {Pick(s)} \in SUBSET s /\ s \ {Pick(s)} # s
        /\ IsFiniteSet(s)
    BY <2>2, PickIn, FS_Subset
  <2>4. Total(l, s \ {Pick(s)}) = Total(m, s \ {Pick(s)})
    BY <2>1, <2>3
  <2>5. QED
    BY <2>1, <2>2, <2>3, <2>4, TotalPick
<1>2. QED
  BY <1>1

-----------------------------------------------------------------------------
(* Buckets, without the state *)

Entries == [name : Names, ms : Durations]

\* Describes, of any log.
Tallies(bucket, l, R) ==
  /\ bucket.count = Cardinality(R)
  /\ bucket.sum = Total(l, R)
  /\ \A label \in Labels :
       bucket.histogram[label] = Cardinality({i \in R : HistogramBucketFor(l[i].ms) = label})

LEMMA DescribesTallies ==
  ASSUME NEW bucket, NEW R PROVE Describes(bucket, R) <=> Tallies(bucket, log, R)
  BY DEF Describes, Tallies, Total, MapThenSumSet, MapThenFoldSet

LEMMA LabelOfDuration == ASSUME NEW ms \in Nat PROVE HistogramBucketFor(ms) \in Labels
<1> DEFINE fits == {b \in kHistogramBoundariesMs : ms <= b}
<1>1. CASE fits = {}
  BY <1>1 DEF HistogramBucketFor, Labels
<1>2. CASE fits # {}
  <2>1. \E x \in fits : \A y \in fits : x =< y
    BY <1>2 DEF kHistogramBoundariesMs
  <2>2. Min(fits) \in fits
    BY <2>1 DEF Min
  <2>3. QED
    BY <1>2, <2>2 DEF HistogramBucketFor, Labels
<1>3. QED
  BY <1>1, <1>2

LEMMA NoBucketTallies == ASSUME NEW l PROVE NoBucket \in Bucket /\ Tallies(NoBucket, l, {})
<1>1. \A label \in Labels : {i \in {} : HistogramBucketFor(l[i].ms) = label} = {}
  OBVIOUS
<1>2. QED
  BY <1>1, FS_EmptySet, TotalEmpty DEF NoBucket, Bucket, Tallies

\* One duration more.
LEMMA TallyAdd ==
  ASSUME NEW bucket \in Bucket, NEW l \in Seq(Entries), NEW e \in Entries,
         NEW R \in SUBSET (1..Len(l)), Tallies(bucket, l, R)
  PROVE  /\ WithDuration(bucket, e.ms) \in Bucket
         /\ Tallies(WithDuration(bucket, e.ms), Append(l, e), R \cup {Len(l) + 1})
<1> DEFINE m == Append(l, e)
           n == Len(l) + 1
           mine == HistogramBucketFor(e.ms)
           at(x, k, label) == {i \in x : HistogramBucketFor(k[i].ms) = label}
           more == WithDuration(bucket, e.ms)
<1>1. /\ n \in Nat /\ n \notin R /\ IsFiniteSet(R) /\ m[n] = e
      /\ \A i \in R : m[i] = l[i]
      /\ \A i \in R \cup {n} : m[i].ms \in Nat
  <2>1. Len(l) \in Nat /\ IsFiniteSet(1..Len(l))
    BY LenProperties, FS_Interval
  <2>2. IsFiniteSet(R)
    BY <2>1, FS_Subset
  <2>3. m[n] = e /\ \A i \in 1..Len(l) : m[i] = l[i] /\ l[i] \in Entries
    BY <2>1, AppendProperties, ElementOfSeq
  <2>4. \A d \in Entries : d.ms \in Nat
    BY FlusherBoundsAssumption DEF Entries
  <2>5. \A i \in R : m[i] = l[i] /\ m[i] \in Entries
    BY <2>3
  <2>6. \A i \in R \cup {n} : m[i].ms \in Nat
    BY <2>3, <2>4, <2>5
  <2>7. n \in Nat /\ n \notin R
    BY <2>1
  <2>8. QED
    BY <2>2, <2>3, <2>5, <2>6, <2>7
<1>2. e.ms \in Nat /\ mine \in Labels
  BY LabelOfDuration, FlusherBoundsAssumption DEF Entries
<1>3. more \in Bucket
  <2>1. mine \in Labels /\ bucket.histogram \in [Labels -> Nat]
    BY <1>2 DEF Bucket
  <2> HIDE DEF mine
  <2>2. [bucket.histogram EXCEPT ![mine] = @ + 1] \in [Labels -> Nat]
    BY <2>1
  <2> USE DEF mine
  <2>3. QED
    BY <1>2, <2>2 DEF WithDuration, Bucket
<1>4. more.count = Cardinality(R \cup {n})
  <2>1. Cardinality(R \cup {n}) = Cardinality(R) + 1
    BY <1>1, FS_AddElement
  <2>2. more.count = bucket.count + 1
    BY DEF WithDuration
  <2>3. QED
    BY <2>1, <2>2 DEF Tallies
<1>5. more.sum = Total(m, R \cup {n})
  <2>1. Total(m, R \cup {n}) = m[n].ms + Total(m, R)
    BY <1>1, TotalAdd
  <2>2. Total(m, R) = Total(l, R)
    BY <1>1, TotalSame
  <2>3. more.sum = bucket.sum + e.ms /\ bucket.sum \in Nat /\ bucket.sum = Total(l, R)
    BY DEF WithDuration, Bucket, Tallies
  <2>4. QED
    BY <1>1, <1>2, <2>1, <2>2, <2>3
<1>6. ASSUME NEW label \in Labels
      PROVE  more.histogram[label] = Cardinality(at(R \cup {n}, m, label))
  <2>1. at(R, l, label) \subseteq R /\ n \notin at(R, l, label) /\ IsFiniteSet(at(R, l, label))
    BY <1>1, FS_Subset
  <2>2. at(R \cup {n}, m, label) =
          IF label = mine THEN at(R, l, label) \cup {n} ELSE at(R, l, label)
    BY <1>1
  <2>3. bucket.histogram[label] = Cardinality(at(R, l, label)) /\ bucket.histogram \in [Labels -> Nat]
    BY DEF Tallies, Bucket
  <2>4. more.histogram[label] =
          IF label = mine THEN bucket.histogram[label] + 1 ELSE bucket.histogram[label]
    BY <2>3 DEF WithDuration
  <2>5. Cardinality(at(R, l, label) \cup {n}) = Cardinality(at(R, l, label)) + 1
    BY <2>1, FS_AddElement
  <2>6. QED
    BY <2>2, <2>3, <2>4, <2>5
<1>7. QED
  BY <1>3, <1>4, <1>5, <1>6 DEF Tallies

\* What was sent is taken off: what is left describes the rest.
LEMMA TallyWithout ==
  ASSUME NEW bucket \in Bucket, NEW sent \in Bucket, NEW l, NEW R, IsFiniteSet(R),
         \A i \in R : l[i].ms \in Nat, NEW S \in SUBSET R,
         Tallies(bucket, l, R), Tallies(sent, l, S)
  PROVE  Tallies(Without(bucket, sent), l, R \ S)
<1> DEFINE at(x, label) == {i \in x : HistogramBucketFor(l[i].ms) = label}
<1>1. /\ IsFiniteSet(S) /\ IsFiniteSet(R \ S)
      /\ Cardinality(R) \in Nat /\ Cardinality(S) \in Nat /\ Cardinality(R \ S) \in Nat
      /\ Cardinality(R \ S) = Cardinality(R) - Cardinality(S)
  <2>1. IsFiniteSet(S) /\ IsFiniteSet(R \ S) /\ R \cap S = S
    BY FS_Subset
  <2>2. QED
    BY <2>1, FS_Difference, FS_CardinalityType
<1>2. Monus(bucket.count, sent.count) = Cardinality(R \ S)
  BY <1>1 DEF Tallies, Monus
<1>3. CASE Cardinality(R \ S) = 0
  <2>1. R \ S = {} /\ Without(bucket, sent) = NoBucket
    BY <1>1, <1>2, <1>3, FS_EmptySet DEF Without
  <2>2. QED
    BY <2>1, NoBucketTallies
<1>4. CASE Cardinality(R \ S) # 0
  <2> DEFINE left == Without(bucket, sent)
  <2>1. left = [ count |-> Monus(bucket.count, sent.count),
                 sum |-> Monus(bucket.sum, sent.sum),
                 max |-> bucket.max,
                 histogram |-> [b \in Labels |-> Monus(bucket.histogram[b], sent.histogram[b])] ]
    BY <1>2, <1>4 DEF Without
  <2>2. left.sum = Total(l, R \ S)
    <3>1. Total(l, R) = Total(l, S) + Total(l, R \ S)
      BY TotalDifference
    <3>2. Total(l, S) \in Nat /\ Total(l, R \ S) \in Nat
      BY <1>1, TotalNat
    <3>3. QED
      BY <2>1, <3>1, <3>2 DEF Tallies, Monus
  <2>3. ASSUME NEW label \in Labels PROVE left.histogram[label] = Cardinality(at(R \ S, label))
    <3>1. /\ at(R \ S, label) = at(R, label) \ at(S, label)
          /\ at(S, label) = at(R, label) \cap at(S, label)
          /\ at(R, label) \subseteq R /\ at(S, label) \subseteq S
      OBVIOUS
    <3>2. IsFiniteSet(at(R, label)) /\ IsFiniteSet(at(S, label)) /\ IsFiniteSet(at(R \ S, label))
      BY <1>1, <3>1, FS_Subset
    <3>3. Cardinality(at(R \ S, label)) = Cardinality(at(R, label)) - Cardinality(at(S, label))
      <4> DEFINE inR == at(R, label)
                 inS == at(S, label)
      <4>1. at(R \ S, label) = inR \ inS /\ inS = inR \cap inS /\ IsFiniteSet(inR)
        BY <3>1, <3>2
      <4> HIDE DEF inR, inS
      <4>2. Cardinality(inR \ inS) = Cardinality(inR) - Cardinality(inR \cap inS)
        BY <4>1, FS_Difference
      <4>3. Cardinality(at(R \ S, label)) = Cardinality(inR) - Cardinality(inS)
        BY <4>1, <4>2, Zenon
      <4>4. QED
        BY <4>3 DEF inR, inS
    <3>4. /\ Cardinality(at(R, label)) \in Nat /\ Cardinality(at(S, label)) \in Nat
          /\ Cardinality(at(R \ S, label)) \in Nat
      BY <3>2, FS_CardinalityType
    <3>5. /\ bucket.histogram[label] = Cardinality(at(R, label))
          /\ sent.histogram[label] = Cardinality(at(S, label))
      BY DEF Tallies
    <3>6. left.histogram[label] = Monus(bucket.histogram[label], sent.histogram[label])
      BY <2>1
    <3>7. QED
      BY <3>3, <3>4, <3>5, <3>6 DEF Monus
  <2>4. left.count = Cardinality(R \ S)
    BY <1>2, <2>1
  <2>5. QED
    BY <2>2, <2>3, <2>4 DEF Tallies
<1>5. QED
  BY <1>3, <1>4

\* Only the entries in the set matter.
LEMMA TallySame ==
  ASSUME NEW bucket, NEW l, NEW m, NEW R, IsFiniteSet(R), \A i \in R : l[i] = m[i],
         Tallies(bucket, l, R)
  PROVE  Tallies(bucket, m, R)
<1>1. Total(l, R) = Total(m, R)
  BY TotalSame
<1>2. \A label \in Labels : {i \in R : HistogramBucketFor(l[i].ms) = label}
                          = {i \in R : HistogramBucketFor(m[i].ms) = label}
  OBVIOUS
<1>3. QED
  BY <1>1, <1>2 DEF Tallies

LEMMA WithoutType ==
  ASSUME NEW bucket \in Bucket, NEW sent \in Bucket
  PROVE  /\ Without(bucket, sent) \in Bucket
         /\ Without(bucket, sent).count = 0 => Without(bucket, sent) = NoBucket
<1>1. \A a, b \in Nat : Monus(a, b) \in Nat
  BY DEF Monus
<1>2. \A label \in Labels : bucket.histogram[label] \in Nat /\ sent.histogram[label] \in Nat
  BY DEF Bucket
<1>3. NoBucket \in Bucket
  BY NoBucketTallies
<1>4. QED
  BY <1>1, <1>2, <1>3 DEF Without, Bucket

-----------------------------------------------------------------------------
(* The invariant *)

FlushPcs == {"flush", "deliver", "log"}
ClosePcs == {"stop", "join", "close"}

\* Who stands where; shutdown() and discard() run one at a time.
PcInv ==
  /\ \A t \in Callers : pc[t] \in {"idle", "ensure"} \cup FlushPcs \cup ClosePcs
  /\ pc[Worker] \in {"off", "run", "caught", "exited"} \cup FlushPcs
  /\ ~workerStarted => pc[Worker] = "off"
  /\ \A t \in Callers : pc[t] \in ClosePcs => closing[t] # "no"
  /\ \A t, u \in Callers : closing[t] # "no" /\ closing[u] # "no" => t = u
  /\ \A t \in Callers : closing[t] # "no" => closed = "no"

Flying == {t \in Threads : InFlight(t)}

\* A sample under way is of a stretch of the log; while flushes do not overlap it is
\* the only one, and its period is the beginning of the current one.
FlightInv ==
  /\ periodStart <= sentUpTo /\ mark <= recorded
  /\ \A t \in Threads : from[t] <= upto[t] /\ upto[t] <= recorded /\ upto[t] <= sentUpTo
  /\ ~overlapped => \A t \in Flying : from[t] = periodStart
  /\ ~overlapped => \A t, u \in Flying : t = u

\* What is neither sent nor dropped, of one name.
Open(name) == RecordsOf(name, (periodStart + 1)..recorded) \ excused

\* A bucket's maximum covers what it counts.
MaxInv ==
  ~overlapped => \A name \in Names : \A i \in Open(name) : log[i].ms <= buckets[name].max

\* Only discard() drops durations of a period that is not over.
ExcusedInv ==
  /\ \A i \in excused : i <= recorded
  /\ ~overlapped /\ ~discarded => \A i \in excused : i <= periodStart

\* Past its snapshot, shutdown() has sent what was recorded before it.
SendInv ==
  \A t \in Callers : closing[t] = "shutdown" /\ pc[t] \in {"deliver", "log"} =>
    mark <= sentUpTo \/ discarded

Inv ==
  /\ TypeOK /\ PcInv /\ FlightInv /\ MaxInv /\ ExcusedInv /\ SendInv
  /\ BucketsAddUp /\ SampleMatchesPeriod /\ MaxCoversPeriod /\ ReportedOnce /\ ShutdownReports

-----------------------------------------------------------------------------
(* What a step can do to the data: nothing, record a duration, begin to      *)
(* deliver, end a delivery, or drop everything.                              *)

Quiet ==
  /\ UNCHANGED <<buckets, periodStart, log, receipts, excused, overlapped, sentUpTo, batches>>
  /\ Flying' = Flying

Tallied(name, ms) ==
  /\ recorded < MaxRecords
  /\ buckets' = [buckets EXCEPT ![name] = WithDuration(@, ms)]
  /\ log' = Append(log, [name |-> name, ms |-> ms])
  /\ UNCHANGED <<periodStart, receipts, excused, overlapped, sentUpTo, batches>>
  /\ Flying' = Flying

Took(t) ==
  /\ snapshot' = [snapshot EXCEPT ![t] = buckets]
  /\ from' = [from EXCEPT ![t] = periodStart]
  /\ upto' = [upto EXCEPT ![t] = recorded]
  /\ sentUpTo' = Max({sentUpTo, recorded})
  /\ overlapped' = (overlapped \/ Flying # {})
  /\ Flying' = Flying \cup {t}
  /\ UNCHANGED <<buckets, periodStart, log, receipts, excused>>

Kept == UNCHANGED <<buckets, periodStart, receipts, excused>>

Delivered(t) ==
  /\ RemoveSent(t)
  /\ receipts' = [i \in Records |-> IF i \in Period(t) THEN receipts[i] + 1 ELSE receipts[i]]
  /\ UNCHANGED excused

GivenUp(t) ==
  /\ RemoveSent(t)
  /\ excused' = excused \cup Period(t)
  /\ UNCHANGED receipts

Ended(t) ==
  /\ t \in Flying /\ Flying' = Flying \ {t}
  /\ Forget(t)
  /\ Kept \/ Delivered(t) \/ GivenUp(t)
  /\ UNCHANGED <<log, overlapped, sentUpTo>>

Dropped ==
  /\ buckets' = NoBuckets /\ discarded'
  /\ excused' = excused \cup (periodStart + 1)..recorded
  /\ overlapped' = (overlapped \/ Flying # {})
  /\ Flying' = Flying
  /\ UNCHANGED <<periodStart, log, receipts, sentUpTo, batches>>

Effect ==
  \/ Quiet \/ Dropped
  \/ \E name \in Names, ms \in Durations : Tallied(name, ms)
  \/ \E t \in Threads : Took(t) \/ Ended(t)

\* A thread that moves between places where it delivers nothing changes nobody's delivery.
LEMMA Moved ==
  ASSUME Inv, NEW t \in Threads, NEW where, pc[t] # "deliver", where # "deliver",
         pc' = [pc EXCEPT ![t] = where]
  PROVE  Flying' = Flying
  BY DEF Inv, TypeOK, ThreadsOK, Flying, InFlight

LEMMA FlushReturnMoves ==
  ASSUME Inv, NEW t \in Threads, FlushReturn(t) \/ FlushException(t)
  PROVE  \E where \in {"run", "idle", "caught"} : pc' = [pc EXCEPT ![t] = where]
  BY DEF FlushReturn, FlushException, Goto

LEMMA Effects == ASSUME Inv, [Next]_vars PROVE Effect
<1> USE DEF history, batches, calls, tally, flags, closings
<1>0. Worker \in Threads /\ Callers \subseteq Threads /\ DOMAIN pc = Threads
  BY DEF Threads, Inv, TypeOK, ThreadsOK
<1>1. CASE UNCHANGED vars
  BY <1>1 DEF vars, Effect, Quiet, Flying, InFlight
<1>2. ASSUME NEW t \in Callers, Record(t) PROVE Effect
  <2>1. PICK name \in Names, ms \in Durations :
          /\ buckets' = [buckets EXCEPT ![name] = WithDuration(@, ms)]
          /\ log' = Append(log, [name |-> name, ms |-> ms])
    BY <1>2 DEF Record
  <2>2. Flying' = Flying
    BY <1>0, <1>2, Moved DEF Record, At, Goto
  <2>3. Tallied(name, ms)
    BY <1>2, <2>1, <2>2 DEF Record, Tallied
  <2>4. QED
    BY <2>3 DEF Effect
<1>3. ASSUME NEW t \in Callers, EnsureWorkerStarted(t) PROVE Effect
  <2>1. Flying' = Flying
    <3>1. pc[t] = "ensure" /\ (~workerStarted => pc[Worker] = "off")
      BY <1>3 DEF EnsureWorkerStarted, At, Inv, PcInv
    <3>2. QED
      BY <1>0, <1>3, <3>1 DEF EnsureWorkerStarted, Flying, InFlight, Goto
  <2>2. QED
    BY <1>3, <2>1 DEF EnsureWorkerStarted, Effect, Quiet
<1>4. ASSUME NEW t \in Threads, FlushSnapshot(t) PROVE Effect
  <2>1. CASE buckets = NoBuckets /\ FlushReturn(t) /\ UNCHANGED <<batches, overlapped, sentUpTo>>
    <3>1. Flying' = Flying
      BY <1>4, <2>1, FlushReturnMoves, Moved DEF FlushSnapshot, At
    <3>2. QED
      BY <1>4, <2>1, <3>1 DEF FlushSnapshot, Effect, Quiet
  <2>2. CASE buckets # NoBuckets /\ Goto(t, "deliver")
    <3>1. Flying' = Flying \cup {t}
      BY <1>0, <2>2 DEF Flying, InFlight, Goto
    <3>2. (\E u \in Threads : InFlight(u)) <=> Flying # {}
      BY DEF Flying
    <3>3. Took(t)
      BY <1>4, <2>2, <3>1, <3>2 DEF FlushSnapshot, Took
    <3>4. QED
      BY <3>3 DEF Effect
  <2>3. QED
    BY <1>4, <2>1, <2>2 DEF FlushSnapshot
<1>5. ASSUME NEW t \in Threads, FlushSettle(t) \/ FlushThrows(t) PROVE Effect
  <2>1. t \in Flying
    BY <1>5 DEF FlushSettle, FlushThrows, At, Flying, InFlight
  <2>2. \E where \in {"run", "idle", "caught", "log"} : pc' = [pc EXCEPT ![t] = where]
    BY <1>5, FlushReturnMoves DEF FlushSettle, FlushThrows, LetGo, Goto
  <2>3. Flying' = Flying \ {t}
    BY <1>0, <2>2 DEF Flying, InFlight
  <2>4. Kept \/ Delivered(t) \/ GivenUp(t)
    BY <1>5 DEF FlushSettle, FlushThrows, LetGo, Kept, Delivered, GivenUp
  <2>5. Forget(t) /\ UNCHANGED <<log, overlapped, sentUpTo>>
    BY <1>5 DEF FlushSettle, FlushThrows
  <2>6. QED
    BY <2>1, <2>3, <2>4, <2>5 DEF Effect, Ended
<1>6. ASSUME NEW t \in Threads, FlushLog(t) PROVE Effect
  <2>1. Flying' = Flying
    BY <1>6, FlushReturnMoves, Moved DEF FlushLog, At
  <2>2. QED
    BY <1>6, <2>1 DEF FlushLog, Effect, Quiet
<1>7. ASSUME NEW t \in Callers, DiscardLocked(t) PROVE Effect
  <2>1. Flying' = Flying
    BY <1>0, <1>7, FlushReturnMoves, Moved DEF DiscardLocked, At
  <2>2. (\E u \in Threads : InFlight(u)) <=> Flying # {}
    BY DEF Flying
  <2>3. Dropped
    BY <1>7, <2>1, <2>2 DEF DiscardLocked, Dropped
  <2>4. QED
    BY <2>3 DEF Effect
<1>8. ASSUME NEW t \in Callers,
             FlushBegin(t) \/ Stop(t) \/ Join(t) \/ \E how \in {"shutdown", "discard"} : CloseBegin(t, how)
      PROVE  Effect
  <2>1. Flying' = Flying
    BY <1>0, <1>8, Moved DEF FlushBegin, Stop, Join, CloseBegin, At, Goto
  <2>2. QED
    BY <1>8, <2>1 DEF FlushBegin, Stop, Join, CloseBegin, Effect, Quiet
<1>9. ASSUME NEW t \in Callers, ShutdownLocked(t) PROVE Effect
  <2>1. Flying' = Flying
    BY <1>0, <1>9, FlushReturnMoves, Moved DEF ShutdownLocked, At, Goto
  <2>2. QED
    BY <1>9, <2>1 DEF ShutdownLocked, Effect, Quiet
<1>10. CASE WorkerStep
  <2>1. Flying' = Flying
    BY <1>0, <1>10, Moved DEF WorkerStep, WorkerLoop, WorkerCaught, At, Goto, Flying, InFlight
  <2>2. QED
    BY <1>10, <2>1 DEF WorkerStep, WorkerLoop, WorkerCaught, Effect, Quiet
<1>11. QED
  BY <1>1, <1>2, <1>3, <1>4, <1>5, <1>6, <1>7, <1>8, <1>9, <1>10 DEF Next, FlushStep, CloseStep

-----------------------------------------------------------------------------
(* Every step preserves the invariant: first what follows from Effects *)

LEMMA Facts ==
  ASSUME Inv
  PROVE  /\ recorded \in Nat /\ MaxRecords \in Nat /\ recorded <= MaxRecords
         /\ DOMAIN log = 1..recorded
         /\ \A i \in 1..recorded : log[i] \in Entries /\ log[i].ms \in Nat
         /\ periodStart \in Nat /\ periodStart <= recorded /\ sentUpTo \in Nat
         /\ \A t \in Threads : from[t] \in Nat /\ upto[t] \in Nat /\ upto[t] <= recorded
         /\ \A i \in excused : i \in 1..recorded
         /\ Flying \subseteq Threads
<1>1. log \in Seq(Entries) /\ recorded <= MaxRecords
  BY DEF Inv, TypeOK, HistoryOK, Entries
<1>2. recorded \in Nat /\ DOMAIN log = 1..recorded /\ \A i \in 1..recorded : log[i] \in Entries
  BY <1>1, LenProperties, ElementOfSeq DEF recorded
<1>3. \A d \in Entries : d.ms \in Nat
  BY FlusherBoundsAssumption DEF Entries
<1>4. \A i \in excused : i \in 1..recorded
  BY <1>2, FlusherBoundsAssumption DEF Inv, TypeOK, HistoryOK, ExcusedInv, Records
<1>5. periodStart \in 0..recorded /\ sentUpTo \in Nat
  BY DEF Inv, TypeOK, TallyOK, HistoryOK
<1>6. QED
  BY <1>1, <1>2, <1>3, <1>4, <1>5, FlusherBoundsAssumption
  DEF Inv, TypeOK, BatchesOK, FlightInv, Flying

LEMMA MaxOfTwo ==
  ASSUME NEW a \in Nat, NEW b \in Nat
  PROVE  Max({a, b}) \in Nat /\ Max({a, b}) >= a /\ Max({a, b}) >= b
<1>1. \E x \in {a, b} : \A y \in {a, b} : x >= y
  OBVIOUS
<1>2. Max({a, b}) \in {a, b} /\ \A y \in {a, b} : Max({a, b}) >= y
  BY <1>1 DEF Max
<1>3. QED
  BY <1>2

\* The log only grows, at its end.
LEMMA LogGrows ==
  ASSUME Inv, Effect
  PROVE  /\ log' \in Seq(Entries) /\ recorded' \in Nat /\ recorded <= recorded'
         /\ recorded' <= MaxRecords /\ DOMAIN log' = 1..recorded'
         /\ \A i \in 1..recorded : log'[i] = log[i]
<1>0. log \in Seq(Entries)
  BY DEF Inv, TypeOK, HistoryOK, Entries
<1>1. CASE log' = log
  BY <1>0, <1>1, Facts DEF recorded
<1>2. ASSUME NEW name \in Names, NEW ms \in Durations, Tallied(name, ms)
      PROVE  /\ log' \in Seq(Entries) /\ recorded' = recorded + 1
             /\ recorded + 1 <= MaxRecords /\ DOMAIN log' = 1..recorded'
             /\ \A i \in 1..recorded : log'[i] = log[i]
  <2>1. [name |-> name, ms |-> ms] \in Entries
    BY DEF Entries
  <2>2. log' = Append(log, [name |-> name, ms |-> ms]) /\ recorded < MaxRecords
    BY <1>2 DEF Tallied
  <2>3. /\ log' \in Seq(Entries) /\ Len(log') = Len(log) + 1
        /\ \A i \in 1..Len(log) : log'[i] = log[i]
    BY <1>0, <2>1, <2>2, AppendProperties
  <2>4. DOMAIN log' = 1..Len(log')
    BY <2>3, LenProperties
  <2>5. QED
    BY <2>2, <2>3, <2>4, Facts DEF recorded
<1>3. QED
  BY <1>1, <1>2, Facts DEF Effect, Quiet, Took, Ended, Dropped

LEMMA OverlapStays == ASSUME Effect, ~overlapped' PROVE ~overlapped
  BY DEF Effect, Quiet, Tallied, Took, Ended, Dropped

\* The types of the data, and of what a delivery states.
DataOK ==
  /\ buckets \in [Names -> Bucket]
  /\ \A name \in Names : buckets[name].count = 0 => buckets[name] = NoBucket
  /\ periodStart \in 0..recorded /\ periodStart <= sentUpTo /\ sentUpTo \in Nat
  /\ overlapped \in BOOLEAN /\ BatchesOK
  /\ receipts \in [Records -> Nat] /\ excused \subseteq Records
  /\ \A t \in Threads : from[t] <= upto[t] /\ upto[t] <= recorded /\ upto[t] <= sentUpTo

LEMMA RemoveSentType ==
  ASSUME Inv, NEW t \in Threads, RemoveSent(t)
  PROVE  /\ buckets' \in [Names -> Bucket]
         /\ \A name \in Names : buckets'[name].count = 0 => buckets'[name] = NoBucket
<1>1. \A name \in Names : buckets[name] \in Bucket /\ snapshot[t][name] \in Bucket
  BY DEF Inv, TypeOK, TallyOK, BatchesOK
<1>2. \A name \in Names : /\ Without(buckets[name], snapshot[t][name]) \in Bucket
                          /\ Without(buckets[name], snapshot[t][name]).count = 0 =>
                               Without(buckets[name], snapshot[t][name]) = NoBucket
  BY <1>1, WithoutType
<1>3. QED
  BY <1>2 DEF RemoveSent

LEMMA StepDataOK == ASSUME Inv, Effect PROVE DataOK'
<1>0. /\ buckets \in [Names -> Bucket]
      /\ \A name \in Names : buckets[name].count = 0 => buckets[name] = NoBucket
      /\ periodStart \in 0..recorded /\ periodStart <= sentUpTo /\ sentUpTo \in Nat
      /\ overlapped \in BOOLEAN
      /\ snapshot \in [Threads -> [Names -> Bucket]]
      /\ from \in [Threads -> Nat] /\ upto \in [Threads -> Nat]
      /\ receipts \in [Records -> Nat] /\ excused \subseteq Records
      /\ \A t \in Threads : from[t] <= upto[t] /\ upto[t] <= recorded /\ upto[t] <= sentUpTo
  BY DEF Inv, TypeOK, TallyOK, FlagsOK, BatchesOK, HistoryOK, FlightInv
<1>e. /\ NoBuckets \in [Names -> Bucket]
      /\ \A name \in Names : NoBuckets[name] = NoBucket
  BY NoBucketTallies DEF NoBuckets
<1>g. recorded' \in Nat /\ recorded <= recorded' /\ recorded \in Nat
  BY LogGrows, Facts
<1> USE DEF DataOK, BatchesOK
<1>1. CASE Quiet
  BY <1>0, <1>1, <1>g DEF Quiet, batches
<1>2. ASSUME NEW name \in Names, NEW ms \in Durations, Tallied(name, ms) PROVE DataOK'
  <2>1. buckets[name] \in Bucket /\ ms \in Nat
    BY <1>0, FlusherBoundsAssumption
  <2>2. WithDuration(buckets[name], ms) \in Bucket /\ WithDuration(buckets[name], ms).count # 0
    <3>1. HistogramBucketFor(ms) \in Labels
      BY <2>1, LabelOfDuration
    <3>2. [buckets[name].histogram EXCEPT ![HistogramBucketFor(ms)] = @ + 1] \in [Labels -> Nat]
      BY <2>1, <3>1 DEF Bucket
    <3>3. QED
      BY <2>1, <3>2 DEF WithDuration, Bucket
  <2>3. /\ buckets' \in [Names -> Bucket]
        /\ \A n \in Names : buckets'[n].count = 0 => buckets'[n] = NoBucket
    BY <1>0, <1>2, <2>2 DEF Tallied
  <2>4. UNCHANGED <<periodStart, receipts, excused, overlapped, sentUpTo, snapshot, from, upto>>
    BY <1>2 DEF Tallied, batches
  <2>5. QED
    BY <1>0, <1>g, <2>3, <2>4
<1>3. ASSUME NEW t \in Threads, Took(t) PROVE DataOK'
  <2>1. /\ sentUpTo' \in Nat /\ sentUpTo' >= sentUpTo /\ sentUpTo' >= recorded
    BY <1>0, <1>3, <1>g, MaxOfTwo DEF Took
  <2>2. /\ snapshot' \in [Threads -> [Names -> Bucket]]
        /\ from' \in [Threads -> Nat] /\ upto' \in [Threads -> Nat]
        /\ recorded' = recorded
    BY <1>0, <1>3, <1>g DEF Took, recorded
  <2>3. \A u \in Threads : from'[u] <= upto'[u] /\ upto'[u] <= recorded' /\ upto'[u] <= sentUpTo'
    BY <1>0, <1>3, <1>g, <2>1, <2>2 DEF Took
  <2>4. overlapped' \in BOOLEAN
    BY <1>3 DEF Took
  <2>5. UNCHANGED <<buckets, periodStart, receipts, excused>>
    BY <1>3 DEF Took
  <2>6. QED
    BY <1>0, <1>g, <2>1, <2>2, <2>3, <2>4, <2>5
<1>4. ASSUME NEW t \in Threads, Ended(t) PROVE DataOK'
  <2>1. /\ snapshot' \in [Threads -> [Names -> Bucket]]
        /\ from' \in [Threads -> Nat] /\ upto' \in [Threads -> Nat]
        /\ \A u \in Threads : from'[u] <= upto'[u] /\ upto'[u] <= recorded /\ upto'[u] <= sentUpTo
    BY <1>0, <1>4, <1>e, <1>g DEF Ended, Forget
  <2>2. recorded' = recorded /\ UNCHANGED <<overlapped, sentUpTo>>
    BY <1>4 DEF Ended, recorded
  <2>3. Period(t) \subseteq Records
    BY <1>0, Facts DEF Period, Records
  <2>4. CASE Kept
    BY <1>0, <2>1, <2>2, <2>4 DEF Kept
  <2>5. CASE Delivered(t) \/ GivenUp(t)
    <3>1. RemoveSent(t) /\ periodStart' = upto[t]
      BY <2>5 DEF Delivered, GivenUp, RemoveSent
    <3>2. receipts' \in [Records -> Nat] /\ excused' \subseteq Records
      BY <1>0, <2>3, <2>5 DEF Delivered, GivenUp
    <3>3. QED
      BY <1>0, <1>g, <2>1, <2>2, <3>1, <3>2, RemoveSentType
  <2>6. QED
    BY <1>4, <2>4, <2>5 DEF Ended
<1>5. CASE Dropped
  <2>1. (periodStart + 1)..recorded \subseteq Records
    BY <1>0, Facts DEF Records
  <2>2. excused' \subseteq Records
    BY <1>0, <1>5, <2>1 DEF Dropped
  <2>3. recorded' = recorded /\ overlapped' \in BOOLEAN
    BY <1>5 DEF Dropped, recorded
  <2>4. UNCHANGED <<periodStart, receipts, sentUpTo, snapshot, from, upto>> /\ buckets' = NoBuckets
    BY <1>5 DEF Dropped, batches
  <2>5. QED
    BY <1>0, <1>e, <2>2, <2>3, <2>4
<1>6. QED
  BY <1>1, <1>2, <1>3, <1>4, <1>5 DEF Effect

\* What is open, and what a sample under way is about, by their entries.
Sample(t, name) == RecordsOf(name, Period(t)) \ excused

LEMMA OpenNow ==
  ASSUME Inv, NEW name \in Names
  PROVE  /\ Open(name) = {i \in 1..recorded : /\ i > periodStart /\ i \notin excused
                                              /\ log[i].name = name}
         /\ IsFiniteSet(Open(name)) /\ Open(name) \in SUBSET (1..recorded)
         /\ \A i \in Open(name) : log[i].ms \in Nat
<1>1. Open(name) = {i \in 1..recorded : /\ i > periodStart /\ i \notin excused
                                        /\ log[i].name = name}
  BY Facts DEF Open, RecordsOf
<1>2. IsFiniteSet(1..recorded)
  <2>1. 1 \in Int /\ recorded \in Int
    BY Facts
  <2>2. QED
    BY <2>1, FS_Interval
<1>3. Open(name) \in SUBSET (1..recorded)
  BY <1>1
<1>4. IsFiniteSet(Open(name))
  BY <1>2, <1>3, FS_Subset
<1>5. QED
  BY <1>1, <1>3, <1>4, Facts

LEMMA OpenNext ==
  ASSUME Inv, Effect, NEW name \in Names
  PROVE  Open(name)' = {i \in 1..recorded' : /\ i > periodStart' /\ i \notin excused'
                                             /\ log'[i].name = name}
<1>1. periodStart' \in Nat /\ recorded' \in Nat /\ DOMAIN log' = 1..recorded'
  BY LogGrows, StepDataOK DEF DataOK
<1>2. QED
  BY <1>1 DEF Open, RecordsOf

LEMMA SampleNow ==
  ASSUME Inv, NEW name \in Names, NEW t \in Threads
  PROVE  /\ Sample(t, name) = {i \in 1..recorded : /\ i > from[t] /\ i <= upto[t]
                                                   /\ i \notin excused /\ log[i].name = name}
         /\ IsFiniteSet(Sample(t, name)) /\ Sample(t, name) \in SUBSET (1..recorded)
<1>1. Sample(t, name) = {i \in 1..recorded : /\ i > from[t] /\ i <= upto[t]
                                             /\ i \notin excused /\ log[i].name = name}
  BY Facts DEF Sample, RecordsOf, Period
<1>0. recorded \in Nat
  BY Facts
<1>2. IsFiniteSet(1..recorded)
  BY <1>0, FS_Interval
<1>3. Sample(t, name) \in SUBSET (1..recorded)
  BY <1>1
<1>4. IsFiniteSet(Sample(t, name))
  BY <1>2, <1>3, FS_Subset
<1>5. QED
  BY <1>1, <1>3, <1>4

LEMMA SampleNext ==
  ASSUME Inv, Effect, NEW name \in Names, NEW t \in Threads
  PROVE  Sample(t, name)' = {i \in 1..recorded' : /\ i > from'[t] /\ i <= upto'[t]
                                                  /\ i \notin excused' /\ log'[i].name = name}
<1>1. /\ recorded' \in Nat /\ DOMAIN log' = 1..recorded'
      /\ from'[t] \in Nat /\ upto'[t] \in Nat /\ upto'[t] <= recorded'
  BY LogGrows, StepDataOK DEF DataOK, BatchesOK
<1>2. QED
  BY <1>1 DEF Sample, RecordsOf, Period

\* While nothing overlaps, a sample in flight is of the first of what is open.
LEMMA SampleIsOpen ==
  ASSUME Inv, ~overlapped, NEW t \in Flying, NEW name \in Names
  PROVE  /\ Sample(t, name) \in SUBSET Open(name)
         /\ Open(name) \ Sample(t, name) = {i \in Open(name) : i > upto[t]}
<1>1. t \in Threads /\ from[t] = periodStart
  BY DEF Flying, Inv, FlightInv
<1>2. QED
  BY <1>1, OpenNow, SampleNow, Facts

\* Both as they are claimed and with Tallies.
LEMMA BucketsTally ==
  ASSUME Inv, ~overlapped, NEW name \in Names
  PROVE  /\ buckets[name] \in Bucket /\ Tallies(buckets[name], log, Open(name))
         /\ \A i \in Open(name) : log[i].ms <= buckets[name].max
  BY DescribesTallies DEF Inv, TypeOK, TallyOK, BucketsAddUp, MaxInv, Open

LEMMA SamplesTally ==
  ASSUME Inv, ~overlapped, NEW t \in Flying, NEW name \in Names
  PROVE  /\ snapshot[t][name] \in Bucket /\ Tallies(snapshot[t][name], log, Sample(t, name))
         /\ \A i \in Sample(t, name) : log[i].ms <= snapshot[t][name].max
  BY DescribesTallies
  DEF Inv, TypeOK, BatchesOK, SampleMatchesPeriod, MaxCoversPeriod, Sample, Flying

LEMMA StepBuckets ==
  ASSUME Inv, Effect, ~overlapped', NEW name \in Names
  PROVE  /\ Tallies(buckets'[name], log', Open(name)')
         /\ \A i \in Open(name)' : log'[i].ms <= buckets'[name].max
<1>0. ~overlapped
  BY OverlapStays
<1>t. /\ buckets[name] \in Bucket /\ Tallies(buckets[name], log, Open(name))
      /\ \A i \in Open(name) : log[i].ms <= buckets[name].max
  BY <1>0, BucketsTally
<1>1. CASE Open(name)' = Open(name) /\ log' = log /\ buckets'[name] = buckets[name]
  BY <1>t, <1>1
<1>2. CASE Quiet
  BY <1>1, <1>2, OpenNow, OpenNext DEF Quiet, recorded
<1>3. ASSUME NEW n \in Names, NEW ms \in Durations, Tallied(n, ms)
      PROVE  /\ Tallies(buckets'[name], log', Open(name)')
             /\ \A i \in Open(name)' : log'[i].ms <= buckets'[name].max
  <2> DEFINE e == [name |-> n, ms |-> ms]
  <2>1. /\ log' = Append(log, e) /\ e \in Entries /\ log \in Seq(Entries)
        /\ UNCHANGED <<periodStart, excused>>
        /\ buckets' = [buckets EXCEPT ![n] = WithDuration(@, ms)]
    BY <1>3 DEF Tallied, Entries, Inv, TypeOK, HistoryOK
  <2>2. /\ recorded' = recorded + 1 /\ log'[recorded + 1] = e
        /\ \A i \in 1..recorded : log'[i] = log[i]
    BY <2>1, AppendProperties DEF recorded
  <2>3. recorded + 1 \notin excused /\ recorded + 1 > periodStart /\ recorded \in Nat
    BY Facts
  <2>4. Open(name)' = IF n = name THEN Open(name) \cup {recorded + 1} ELSE Open(name)
    <3>1. Open(name)' = {i \in 1..(recorded + 1) : /\ i > periodStart /\ i \notin excused
                                                   /\ log'[i].name = name}
      BY <2>1, <2>2, OpenNext
    <3>2. \A i : i \in 1..(recorded + 1) <=> i \in 1..recorded \/ i = recorded + 1
      BY <2>3
    <3>3. \A i \in 1..recorded : log'[i].name = log[i].name
      BY <2>2
    <3>4. log'[recorded + 1].name = n
      BY <2>2
    <3>5. Open(name) = {i \in 1..recorded : /\ i > periodStart /\ i \notin excused
                                            /\ log[i].name = name}
      BY OpenNow
    <3>6. QED
      BY <2>3, <3>1, <3>2, <3>3, <3>4, <3>5
  <2>5. CASE n = name
    <3>1. buckets'[name] = WithDuration(buckets[name], ms)
      BY <2>1, <2>5 DEF Inv, TypeOK, TallyOK
    <3>2. Tallies(WithDuration(buckets[name], e.ms), log', Open(name) \cup {recorded + 1})
      BY <1>t, <2>1, OpenNow, TallyAdd DEF recorded
    <3>3. \A i \in Open(name) \cup {recorded + 1} : log'[i].ms <= buckets'[name].max
      <4>1. /\ buckets'[name].max >= buckets[name].max /\ buckets'[name].max >= ms
            /\ buckets'[name].max \in Nat /\ buckets[name].max \in Nat /\ ms \in Nat
        BY <1>t, <3>1, FlusherBoundsAssumption DEF WithDuration, Bucket
      <4>2. ASSUME NEW i \in Open(name) PROVE log'[i].ms <= buckets'[name].max
        BY <1>t, <2>2, <4>1, OpenNow
      <4>3. log'[recorded + 1].ms <= buckets'[name].max
        BY <2>2, <4>1
      <4>4. QED
        BY <4>2, <4>3
    <3>4. QED
      BY <2>4, <2>5, <3>1, <3>2, <3>3
  <2>6. CASE n # name
    <3>1. buckets'[name] = buckets[name] /\ \A i \in Open(name) : log[i] = log'[i]
      BY <2>1, <2>2, <2>6, OpenNow DEF Inv, TypeOK, TallyOK
    <3>2. Tallies(buckets[name], log', Open(name))
      BY <1>t, <3>1, OpenNow, TallySame
    <3>3. QED
      BY <1>t, <2>4, <2>6, <3>1, <3>2
  <2>7. QED
    BY <2>5, <2>6
<1>4. ASSUME NEW t \in Threads, Took(t)
      PROVE  Open(name)' = Open(name) /\ log' = log /\ buckets'[name] = buckets[name]
  BY <1>4, OpenNow, OpenNext DEF Took, recorded
<1>5. ASSUME NEW t \in Threads, Ended(t)
      PROVE  /\ Tallies(buckets'[name], log', Open(name)')
             /\ \A i \in Open(name)' : log'[i].ms <= buckets'[name].max
  <2>1. t \in Flying /\ log' = log /\ recorded' = recorded
    BY <1>5 DEF Ended, recorded
  <2>2. CASE Kept
    BY <1>1, <2>1, <2>2, OpenNow, OpenNext DEF Kept
  <2>3. CASE Delivered(t) \/ GivenUp(t)
    <3>1. /\ buckets'[name] = Without(buckets[name], snapshot[t][name])
          /\ periodStart' = upto[t]
      BY <2>3 DEF Delivered, GivenUp, RemoveSent
    <3>2. \A i \in 1..recorded : i > upto[t] => (i \in excused' <=> i \in excused)
      BY <1>5, <2>3, Facts DEF Delivered, GivenUp, Period
    <3>3. upto[t] >= periodStart /\ upto[t] \in Nat /\ periodStart \in Nat
      BY <1>0, <2>1, Facts DEF Inv, FlightInv
    <3>4. Open(name)' = {i \in Open(name) : i > upto[t]}
      BY <2>1, <3>1, <3>2, <3>3, OpenNow, OpenNext
    <3>5. Open(name)' = Open(name) \ Sample(t, name) /\ Sample(t, name) \in SUBSET Open(name)
      BY <1>0, <2>1, <3>4, SampleIsOpen
    <3>6. snapshot[t][name] \in Bucket /\ Tallies(snapshot[t][name], log, Sample(t, name))
      BY <1>0, <2>1, SamplesTally
    <3>7. Tallies(buckets'[name], log', Open(name)')
      BY <1>t, <2>1, <3>1, <3>5, <3>6, OpenNow, TallyWithout
    <3>8. ASSUME NEW i \in Open(name)' PROVE log'[i].ms <= buckets'[name].max
      <4>1. i \in Open(name)
        BY <3>4
      <4>2. CASE Monus(buckets[name].count, snapshot[t][name].count) # 0
        BY <1>t, <2>1, <3>1, <4>1, <4>2 DEF Without
      <4>3. CASE Monus(buckets[name].count, snapshot[t][name].count) = 0
        <5>1. buckets'[name].count = 0
          BY <3>1, <4>3 DEF Without, NoBucket
        <5>2. Cardinality(Open(name)') = 0 /\ IsFiniteSet(Open(name)')
          BY <3>4, <3>7, <5>1, OpenNow, FS_Subset DEF Tallies
        <5>3. QED
          BY <5>2, FS_EmptySet
      <4>4. QED
        BY <4>2, <4>3
    <3>9. QED
      BY <3>7, <3>8
  <2>4. QED
    BY <1>5, <2>2, <2>3 DEF Ended
<1>6. ASSUME Dropped
      PROVE  /\ Tallies(buckets'[name], log', Open(name)')
             /\ \A i \in Open(name)' : log'[i].ms <= buckets'[name].max
  <2>1. Open(name)' = {}
    BY <1>6, Facts, OpenNext DEF Dropped, recorded
  <2>2. buckets'[name] = NoBucket
    BY <1>6 DEF Dropped, NoBuckets
  <2>3. QED
    BY <2>1, <2>2, NoBucketTallies
<1>7. QED
  BY <1>1, <1>2, <1>3, <1>4, <1>5, <1>6 DEF Effect

\* While nothing overlaps there is one delivery, of the beginning of the period.
LEMMA StepFlight ==
  ASSUME Inv, Effect, ~overlapped'
  PROVE  /\ \A t \in Flying' : from'[t] = periodStart'
         /\ \A t, u \in Flying' : t = u
<1>0. /\ ~overlapped
      /\ \A t \in Flying : from[t] = periodStart
      /\ \A t, u \in Flying : t = u
      /\ Flying \subseteq Threads /\ DOMAIN from = Threads
  BY Facts, OverlapStays DEF Inv, FlightInv, TypeOK, BatchesOK
<1>1. CASE Quiet \/ Dropped \/ \E name \in Names, ms \in Durations : Tallied(name, ms)
  BY <1>0, <1>1 DEF Quiet, Dropped, Tallied, batches
<1>2. ASSUME NEW t \in Threads, Took(t)
      PROVE  Flying' = {t} /\ from'[t] = periodStart /\ periodStart' = periodStart
  BY <1>0, <1>2 DEF Took
<1>3. ASSUME NEW t \in Threads, Ended(t) PROVE Flying' = {}
  BY <1>0, <1>3 DEF Ended
<1>4. QED
  BY <1>1, <1>2, <1>3 DEF Effect

LEMMA StepSamples ==
  ASSUME Inv, Effect, ~overlapped', NEW t \in Flying', NEW name \in Names
  PROVE  /\ Tallies(snapshot'[t][name], log', Sample(t, name)')
         /\ \A i \in Sample(t, name)' : log'[i].ms <= snapshot'[t][name].max
<1>t. t \in Threads
  BY DEF Flying
<1>0. /\ ~overlapped /\ Flying \subseteq Threads
      /\ recorded \in Nat /\ upto[t] <= recorded
      /\ snapshot \in [Threads -> [Names -> Bucket]]
      /\ DOMAIN from = Threads /\ DOMAIN upto = Threads
      /\ t \in Threads
  BY <1>t, Facts, OverlapStays DEF Inv, TypeOK, BatchesOK
<1>1. ASSUME t \in Flying, UNCHANGED <<excused, batches>>
      PROVE  /\ Tallies(snapshot'[t][name], log', Sample(t, name)')
             /\ \A i \in Sample(t, name)' : log'[i].ms <= snapshot'[t][name].max
  <2>1. /\ \A i \in 1..recorded : log'[i] = log[i]
        /\ recorded' \in Nat /\ recorded <= recorded'
    BY LogGrows
  <2>2. UNCHANGED <<excused, snapshot, from, upto>>
    BY <1>1 DEF batches
  <2>3. Sample(t, name)' = Sample(t, name)
    <3>1. from[t] \in Nat /\ upto[t] \in Nat
      BY <1>0, Facts
    <3>2. \A i : i \in 1..recorded' /\ i <= upto[t] <=> i \in 1..recorded /\ i <= upto[t]
      BY <1>0, <2>1, <3>1
    <3>3. Sample(t, name)' = {i \in 1..recorded' : /\ i > from[t] /\ i <= upto[t]
                                                   /\ i \notin excused /\ log'[i].name = name}
      BY <1>0, <2>2, SampleNext
    <3>4. QED
      BY <1>0, <2>1, <3>2, <3>3, SampleNow
  <2>4. /\ Tallies(snapshot[t][name], log, Sample(t, name))
        /\ \A i \in Sample(t, name) : log[i].ms <= snapshot[t][name].max
    BY <1>0, <1>1, SamplesTally
  <2>5. IsFiniteSet(Sample(t, name)) /\ \A i \in Sample(t, name) : log[i] = log'[i]
    BY <1>0, <2>1, SampleNow
  <2>6. Tallies(snapshot[t][name], log', Sample(t, name))
    BY <2>4, <2>5, TallySame
  <2>7. QED
    BY <2>2, <2>3, <2>4, <2>5, <2>6
<1>2. CASE Quiet \/ \E n \in Names, ms \in Durations : Tallied(n, ms)
  BY <1>1, <1>2 DEF Quiet, Tallied
<1>3. CASE Dropped
  BY <1>0, <1>3 DEF Dropped
<1>4. ASSUME NEW u \in Threads, Took(u)
      PROVE  /\ Tallies(snapshot'[t][name], log', Sample(t, name)')
             /\ \A i \in Sample(t, name)' : log'[i].ms <= snapshot'[t][name].max
  <2>1. t = u /\ log' = log /\ excused' = excused /\ recorded' = recorded
    BY <1>0, <1>4 DEF Took, recorded
  <2>2. snapshot'[t] = buckets /\ from'[t] = periodStart /\ upto'[t] = recorded
    BY <1>0, <1>4, <2>1 DEF Took
  <2>3. Sample(t, name)' = Open(name)
    <3>1. Sample(t, name)' = {i \in 1..recorded : /\ i > periodStart /\ i <= recorded
                                                  /\ i \notin excused /\ log[i].name = name}
      BY <1>0, <2>1, <2>2, SampleNext
    <3>2. QED
      BY <1>0, <3>1, OpenNow
  <2>4. QED
    BY <1>0, <2>1, <2>2, <2>3, BucketsTally
<1>5. ASSUME NEW u \in Threads, Ended(u) PROVE FALSE
  BY <1>0, <1>5 DEF Ended, Inv, FlightInv
<1>6. QED
  BY <1>2, <1>3, <1>4, <1>5 DEF Effect

\* A period that is over was reported once, or dropped.
LEMMA StepReported == ASSUME Inv, Effect, ~overlapped' PROVE ReportedOnce'
<1>0. /\ ~overlapped /\ receipts \in [Records -> Nat]
      /\ \A i \in Records : /\ i <= periodStart => receipts[i] = 1 \/ i \in excused
                            /\ i > periodStart => receipts[i] = 0
  BY OverlapStays DEF Inv, TypeOK, HistoryOK, ReportedOnce
<1> SUFFICES ASSUME NEW i \in Records
             PROVE  /\ i <= periodStart' => receipts'[i] = 1 \/ i \in excused'
                    /\ i > periodStart' => receipts'[i] = 0
  BY DEF ReportedOnce
<1>i. /\ i <= periodStart => receipts[i] = 1 \/ i \in excused
      /\ i > periodStart => receipts[i] = 0
  BY <1>0
<1>1. ASSUME UNCHANGED <<periodStart, receipts>>, excused \subseteq excused'
      PROVE  /\ i <= periodStart' => receipts'[i] = 1 \/ i \in excused'
             /\ i > periodStart' => receipts'[i] = 0
  BY <1>i, <1>1
<1>2. ASSUME NEW t \in Threads, Ended(t)
      PROVE  /\ i <= periodStart' => receipts'[i] = 1 \/ i \in excused'
             /\ i > periodStart' => receipts'[i] = 0
  <2>1. /\ from[t] = periodStart /\ periodStart <= upto[t]
        /\ periodStart \in Nat /\ upto[t] \in Nat /\ i \in Nat
    BY <1>0, <1>2, Facts DEF Ended, Inv, FlightInv, Records
  <2>2. i \in Period(t) <=> i > periodStart /\ i <= upto[t]
    BY <2>1 DEF Period
  <2>3. CASE Kept
    BY <1>1, <2>3 DEF Kept
  <2>4. CASE Delivered(t)
    <3>1. periodStart' = upto[t] /\ excused' = excused
      BY <2>4 DEF Delivered, RemoveSent
    <3>2. receipts'[i] = IF i \in Period(t) THEN receipts[i] + 1 ELSE receipts[i]
      BY <2>4 DEF Delivered
    <3>3. QED
      BY <1>0, <1>i, <2>1, <2>2, <3>1, <3>2
  <2>5. CASE GivenUp(t)
    <3>1. periodStart' = upto[t] /\ excused' = excused \cup Period(t) /\ receipts' = receipts
      BY <2>5 DEF GivenUp, RemoveSent
    <3>2. QED
      BY <1>i, <2>1, <2>2, <3>1
  <2>6. QED
    BY <1>2, <2>3, <2>4, <2>5 DEF Ended
<1>3. QED
  BY <1>1, <1>2 DEF Effect, Quiet, Tallied, Took, Dropped

LEMMA StepExcused ==
  ASSUME Inv, Effect, discarded => discarded' PROVE ExcusedInv'
<1>0. /\ \A i \in excused : i \in 1..recorded
      /\ ~overlapped /\ ~discarded => \A i \in excused : i <= periodStart
      /\ ~overlapped' => ~overlapped
      /\ recorded \in Nat /\ recorded' \in Nat /\ recorded <= recorded' /\ periodStart \in Nat
  BY Facts, LogGrows, OverlapStays DEF Inv, ExcusedInv
<1>1. CASE UNCHANGED <<excused, periodStart>>
  BY <1>0, <1>1 DEF ExcusedInv
<1>2. CASE Dropped
  BY <1>0, <1>2 DEF Dropped, ExcusedInv
<1>3. ASSUME NEW t \in Threads, Ended(t) PROVE ExcusedInv'
  <2>1. /\ upto[t] \in Nat /\ upto[t] <= recorded /\ from[t] \in Nat
        /\ ~overlapped => periodStart <= upto[t]
    BY <1>3, Facts DEF Ended, Inv, FlightInv
  <2>2. \A i \in Period(t) : i \in Nat /\ i <= upto[t]
    BY <2>1 DEF Period
  <2>3. CASE Kept
    BY <1>1, <2>3 DEF Kept
  <2>4. CASE Delivered(t) \/ GivenUp(t)
    <3>1. periodStart' = upto[t] /\ excused' \subseteq excused \cup Period(t)
      BY <2>4 DEF Delivered, GivenUp, RemoveSent
    <3>2. QED
      BY <1>0, <2>1, <2>2, <3>1 DEF ExcusedInv
  <2>5. QED
    BY <1>3, <2>3, <2>4 DEF Ended
<1>4. QED
  BY <1>1, <1>2, <1>3 DEF Effect, Quiet, Tallied, Took

-----------------------------------------------------------------------------
(* ... and then what depends on where the threads stand *)

CountersOK ==
  /\ failures \in 0..(MaxFailures - 1)
  /\ workerStarted \in BOOLEAN /\ stopping \in BOOLEAN /\ discarded \in BOOLEAN
  /\ process \in {"up", "aborted"}
  /\ flushes \in Nat /\ closes \in Nat /\ mark \in Nat /\ mark <= recorded

LEMMA StepCountersOK ==
  ASSUME Inv, [Next]_vars PROVE CountersOK' /\ (discarded => discarded')
<1>0. /\ CountersOK /\ MaxFailures \in Nat \ {0} /\ recorded \in Nat
      /\ recorded' \in Nat /\ recorded <= recorded'
  BY Facts, LogGrows, Effects, FlusherBoundsAssumption
  DEF Inv, TypeOK, TallyOK, FlagsOK, ThreadsOK, HistoryOK, FlightInv, CountersOK
<1> DEFINE P == CountersOK' /\ (discarded => discarded')
<1> USE DEF CountersOK, tally, flags, calls, closings
<1>1. CASE UNCHANGED vars
  BY <1>0, <1>1 DEF vars
<1>2. ASSUME NEW t \in Callers, Record(t) \/ EnsureWorkerStarted(t) PROVE P
  <2>1. UNCHANGED <<failures, stopping, discarded, process, flushes, closes, mark>>
    BY <1>2 DEF Record, EnsureWorkerStarted
  <2>2. workerStarted' \in BOOLEAN
    BY <1>0, <1>2 DEF Record, EnsureWorkerStarted
  <2>3. QED
    BY <1>0, <2>1, <2>2
<1>3. ASSUME NEW t \in Callers,
             FlushBegin(t) \/ Join(t) \/ \E how \in {"shutdown", "discard"} : CloseBegin(t, how)
      PROVE  P
  BY <1>0, <1>3 DEF FlushBegin, Join, CloseBegin
<1>4. ASSUME NEW t \in Callers, Stop(t) PROVE P
  BY <1>0, <1>4 DEF Stop
<1>5. ASSUME NEW t \in Callers, ShutdownLocked(t) \/ DiscardLocked(t) PROVE P
  <2>1. UNCHANGED <<workerStarted, stopping, process, flushes, closes, mark>>
    BY <1>5 DEF ShutdownLocked, DiscardLocked
  <2>2. failures' \in 0..(MaxFailures - 1)
    BY <1>0, <1>5 DEF ShutdownLocked, DiscardLocked
  <2>3. discarded' \in BOOLEAN /\ (discarded => discarded')
    BY <1>0, <1>5 DEF ShutdownLocked, DiscardLocked
  <2>4. QED
    BY <1>0, <2>1, <2>2, <2>3
<1>6. ASSUME NEW t \in Threads, FlushSnapshot(t) \/ FlushThrows(t) \/ FlushLog(t) PROVE P
  BY <1>0, <1>6 DEF FlushSnapshot, FlushThrows, FlushLog
<1>7. ASSUME NEW t \in Threads, FlushSettle(t) PROVE P
  <2>1. failures' \in 0..(MaxFailures - 1)
    BY <1>0, <1>7 DEF FlushSettle, LetGo, RetriesLeft
  <2>2. UNCHANGED <<flags, process, calls, mark>>
    BY <1>7 DEF FlushSettle
  <2>3. QED
    BY <1>0, <2>1, <2>2
<1>8. CASE WorkerStep
  BY <1>0, <1>8 DEF WorkerStep, WorkerLoop, WorkerCaught
<1>9. QED
  BY <1>1, <1>2, <1>3, <1>4, <1>5, <1>6, <1>7, <1>8 DEF Next, FlushStep, CloseStep

\* How a flush() ends, or a shutdown() or discard() with it.
Returned(t) ==
  /\ \E where \in {"run", "idle", "caught"} :
       /\ pc' = [pc EXCEPT ![t] = where]
       /\ where = "idle" <=> t \in Callers
  /\ \/ /\ t \in Callers /\ closing[t] # "no"
        /\ closed' = closing[t] /\ closing' = [closing EXCEPT ![t] = "no"]
     \/ UNCHANGED <<closing, closed>> /\ (t \in Callers => closing[t] = "no")

LEMMA Returns ==
  ASSUME NEW t \in Threads, FlushReturn(t) \/ FlushException(t) PROVE Returned(t)
  BY FlusherThreadsAssumption DEF FlushReturn, FlushException, Returned, Goto, Threads

\* How the places of the threads, and the closing calls, change.
Places ==
  \/ UNCHANGED <<pc, closing, closed, workerStarted>>
  \/ \E t \in Callers, where \in {"idle", "ensure", "flush"} :
       /\ pc[t] \in {"idle", "ensure"}
       /\ pc' = [pc EXCEPT ![t] = where]
       /\ UNCHANGED <<closing, closed, workerStarted>>
  \/ \E t \in Callers :
       /\ pc[t] = "ensure" /\ ~workerStarted /\ workerStarted'
       /\ \/ pc' = [pc EXCEPT ![t] = "idle", ![Worker] = "run"]
          \/ pc' = [pc EXCEPT ![t] = "idle"]
       /\ UNCHANGED <<closing, closed>>
  \/ \E t \in Threads :
       /\ pc[t] \in FlushPcs \cup {"close"}
       /\ Returned(t)
       /\ UNCHANGED workerStarted
  \/ \E t \in Threads, where \in {"deliver", "log"} :
       /\ pc[t] \in {"flush", "deliver"}
       /\ pc' = [pc EXCEPT ![t] = where]
       /\ UNCHANGED <<closing, closed, workerStarted>>
  \/ \E t \in Callers, how \in {"shutdown", "discard"} :
       /\ \A u \in Callers : closing[u] = "no"
       /\ closing' = [closing EXCEPT ![t] = how] /\ closed' = "no"
       /\ pc' = [pc EXCEPT ![t] = "stop"]
       /\ UNCHANGED workerStarted
  \/ \E t \in Callers, where \in {"join", "close", "flush"} :
       /\ pc[t] \in ClosePcs
       /\ pc' = [pc EXCEPT ![t] = where]
       /\ UNCHANGED <<closing, closed, workerStarted>>
  \/ \E where \in {"run", "flush", "exited"} :
       /\ pc[Worker] \in {"run", "caught"}
       /\ pc' = [pc EXCEPT ![Worker] = where]
       /\ UNCHANGED <<closing, closed, workerStarted>>

LEMMA StepPlaces == ASSUME Inv, [Next]_vars PROVE Places
<1> USE DEF flags, closings, FlushPcs, ClosePcs
<1>0. Worker \in Threads /\ Callers \subseteq Threads
  BY DEF Threads
<1>1. CASE UNCHANGED vars
  BY <1>1 DEF vars, Places
<1>2. ASSUME NEW t \in Callers, Record(t) \/ FlushBegin(t) PROVE Places
  BY <1>2 DEF Record, FlushBegin, At, Goto, Places
<1>3. ASSUME NEW t \in Callers, EnsureWorkerStarted(t) PROVE Places
  BY <1>3 DEF EnsureWorkerStarted, At, Goto, Places
<1>4. ASSUME NEW t \in Threads, FlushSnapshot(t) PROVE Places
  <2>1. pc[t] = "flush" /\ UNCHANGED workerStarted
    BY <1>4 DEF FlushSnapshot, At
  <2>2. \/ Returned(t)
        \/ pc' = [pc EXCEPT ![t] = "deliver"] /\ UNCHANGED <<closing, closed>>
    BY <1>4, Returns DEF FlushSnapshot, Goto
  <2>3. QED
    BY <2>1, <2>2 DEF Places
<1>5. ASSUME NEW t \in Threads, FlushSettle(t) \/ FlushThrows(t) PROVE Places
  <2>1. pc[t] = "deliver" /\ UNCHANGED workerStarted
    BY <1>5 DEF FlushSettle, FlushThrows, At
  <2>2. \/ Returned(t)
        \/ pc' = [pc EXCEPT ![t] = "log"] /\ UNCHANGED <<closing, closed>>
    BY <1>5, Returns DEF FlushSettle, FlushThrows, LetGo, Goto
  <2>3. QED
    BY <2>1, <2>2 DEF Places
<1>6. ASSUME NEW t \in Threads, FlushLog(t) PROVE Places
  <2>1. pc[t] = "log" /\ UNCHANGED workerStarted /\ Returned(t)
    BY <1>6, Returns DEF FlushLog, At
  <2>2. QED
    BY <2>1 DEF Places
<1>7. ASSUME NEW t \in Callers, Stop(t) \/ Join(t) PROVE Places
  BY <1>7 DEF Stop, Join, At, Goto, Places
<1>8. ASSUME NEW t \in Callers, ShutdownLocked(t) \/ DiscardLocked(t) PROVE Places
  <2>1. pc[t] = "close" /\ UNCHANGED workerStarted
    BY <1>8 DEF ShutdownLocked, DiscardLocked, At
  <2>2. \/ Returned(t)
        \/ pc' = [pc EXCEPT ![t] = "flush"] /\ UNCHANGED <<closing, closed>>
    BY <1>0, <1>8, Returns DEF ShutdownLocked, DiscardLocked, Goto
  <2>3. QED
    BY <1>0, <2>1, <2>2 DEF Places
<1>9. ASSUME NEW t \in Callers, NEW how \in {"shutdown", "discard"}, CloseBegin(t, how)
      PROVE  Places
  BY <1>9 DEF CloseBegin, Goto, Places
<1>10. CASE WorkerStep
  BY <1>10 DEF WorkerStep, WorkerLoop, WorkerCaught, At, Goto, Places
<1>11. QED
  BY <1>1, <1>2, <1>3, <1>4, <1>5, <1>6, <1>7, <1>8, <1>9, <1>10 DEF Next, FlushStep, CloseStep

LEMMA StepPcInv ==
  ASSUME Inv, Places
  PROVE  /\ pc' \in [Threads -> Pcs] /\ closing' \in [Callers -> Closings]
         /\ closed' \in Closings /\ PcInv'
<1> USE DEF FlushPcs, ClosePcs
<1>0. /\ pc \in [Threads -> Pcs] /\ closing \in [Callers -> Closings] /\ closed \in Closings
      /\ Threads = Callers \cup {Worker} /\ Worker \notin Callers /\ PcInv
  BY FlusherThreadsAssumption DEF Inv, TypeOK, ThreadsOK, Threads
<1> DEFINE P == /\ pc' \in [Threads -> Pcs] /\ closing' \in [Callers -> Closings]
                /\ closed' \in Closings /\ PcInv'
<1>1. CASE UNCHANGED <<pc, closing, closed, workerStarted>>
  BY <1>0, <1>1 DEF PcInv
<1>2. ASSUME NEW t \in Callers, UNCHANGED <<closing, closed, workerStarted>>,
             \E where \in {"idle", "ensure", "flush"} : pc' = [pc EXCEPT ![t] = where]
      PROVE  P
  BY <1>0, <1>2 DEF PcInv, Pcs
<1>3. ASSUME NEW t \in Callers, UNCHANGED <<closing, closed>>, workerStarted',
             \/ pc' = [pc EXCEPT ![t] = "idle", ![Worker] = "run"]
             \/ pc' = [pc EXCEPT ![t] = "idle"]
      PROVE  P
  BY <1>0, <1>3 DEF PcInv, Pcs
<1>4. ASSUME NEW t \in Threads, Returned(t), UNCHANGED workerStarted,
             pc[t] \in FlushPcs \cup {"close"}
      PROVE  P
  <2>1. PICK where \in {"run", "idle", "caught"} :
          pc' = [pc EXCEPT ![t] = where] /\ (where = "idle" <=> t \in Callers)
    BY <1>4 DEF Returned
  <2>2. pc' \in [Threads -> Pcs]
    BY <1>0, <2>1 DEF Pcs
  <2>3. CASE /\ t \in Callers /\ closing[t] # "no"
             /\ closed' = closing[t] /\ closing' = [closing EXCEPT ![t] = "no"]
    <3>1. \A u \in Callers : closing'[u] = "no"
      BY <1>0, <2>3 DEF PcInv
    <3>2. closing' \in [Callers -> Closings] /\ closed' \in Closings
      BY <1>0, <2>3 DEF Closings
    <3>3. \A u \in Callers : pc[u] \in ClosePcs => u = t
      BY <1>0, <2>3 DEF PcInv
    <3>4. \A u \in Callers : pc'[u] \notin ClosePcs
      BY <1>0, <2>1, <2>3, <3>3
    <3>5. QED
      BY <1>0, <1>4, <2>1, <2>2, <2>3, <3>1, <3>2, <3>4 DEF PcInv
  <2>4. CASE UNCHANGED <<closing, closed>>
    BY <1>0, <1>4, <2>1, <2>2, <2>4 DEF PcInv
  <2>5. QED
    BY <1>4, <2>3, <2>4 DEF Returned
<1>5. ASSUME NEW t \in Threads, UNCHANGED <<closing, closed, workerStarted>>,
             \E where \in {"deliver", "log"} : pc' = [pc EXCEPT ![t] = where],
             pc[t] \in {"flush", "deliver"}
      PROVE  P
  BY <1>0, <1>5 DEF PcInv, Pcs
<1>6. ASSUME NEW t \in Callers, NEW how \in {"shutdown", "discard"}, UNCHANGED workerStarted,
             \A u \in Callers : closing[u] = "no",
             closing' = [closing EXCEPT ![t] = how], closed' = "no",
             pc' = [pc EXCEPT ![t] = "stop"]
      PROVE  P
  BY <1>0, <1>6 DEF PcInv, Pcs, Closings
<1>7. ASSUME NEW t \in Callers, UNCHANGED <<closing, closed, workerStarted>>,
             \E where \in {"join", "close", "flush"} : pc' = [pc EXCEPT ![t] = where],
             pc[t] \in ClosePcs
      PROVE  P
  BY <1>0, <1>7 DEF PcInv, Pcs
<1>8. ASSUME UNCHANGED <<closing, closed, workerStarted>>, pc[Worker] \in {"run", "caught"},
             \E where \in {"run", "flush", "exited"} : pc' = [pc EXCEPT ![Worker] = where]
      PROVE  P
  BY <1>0, <1>8 DEF PcInv, Pcs
<1>9. QED
  BY <1>1, <1>2, <1>3, <1>4, <1>5, <1>6, <1>7, <1>8 DEF Places

-----------------------------------------------------------------------------
(* What shutdown() has sent by the time it returns *)

LEMMA SentUpToGrows == ASSUME Inv, Effect PROVE sentUpTo' \in Nat /\ sentUpTo <= sentUpTo'
<1>1. sentUpTo \in Nat /\ recorded \in Nat
  BY Facts
<1>2. ASSUME NEW t \in Threads, Took(t) PROVE sentUpTo' \in Nat /\ sentUpTo <= sentUpTo'
  BY <1>1, <1>2, MaxOfTwo DEF Took
<1>3. CASE sentUpTo' = sentUpTo
  BY <1>1, <1>3
<1>4. QED
  BY <1>2, <1>3 DEF Effect, Quiet, Tallied, Ended, Dropped

\* While nothing was dropped, a flush() that finds no bucket has nothing left to send.
LEMMA NothingLeft ==
  ASSUME Inv, ~overlapped, ~discarded, buckets = NoBuckets PROVE mark <= sentUpTo
<1>0. /\ recorded \in Nat /\ periodStart \in Nat /\ sentUpTo \in Nat /\ mark \in Nat
      /\ periodStart <= sentUpTo /\ mark <= recorded
  BY Facts DEF Inv, FlightInv, TypeOK, HistoryOK
<1>1. ASSUME recorded > periodStart PROVE FALSE
  <2> DEFINE name == log[recorded].name
  <2>1. recorded \in 1..recorded /\ log[recorded] \in Entries
    BY <1>0, <1>1, Facts
  <2>2. name \in Names
    BY <2>1 DEF Entries
  <2>3. recorded \notin excused
    BY <1>0, <1>1 DEF Inv, ExcusedInv
  <2>4. recorded \in Open(name)
    BY <1>1, <2>1, <2>2, <2>3, OpenNow
  <2>5. Cardinality(Open(name)) = 0 /\ IsFiniteSet(Open(name))
    BY <2>2, BucketsTally, OpenNow DEF Tallies, NoBuckets, NoBucket
  <2>6. QED
    BY <2>4, <2>5, FS_EmptySet
<1>2. QED
  BY <1>0, <1>1

\* What a step does to the calls that close: none returns, one stops the worker, or one
\* returns, having found nothing to send, or past its snapshot, or with all discarded.
Closing ==
  \/ closed' \in {closed, "no"} /\ UNCHANGED mark
  \/ \E t \in Callers : closing[t] # "no" /\ UNCHANGED closed
  \/ \E t \in Callers :
       /\ closing[t] # "no" /\ closed' = closing[t]
       /\ buckets = NoBuckets \/ pc[t] \in {"deliver", "log"} \/ discarded'
       /\ UNCHANGED mark

LEMMA StepClosing == ASSUME Inv, [Next]_vars PROVE Closing
<1> USE DEF closings
<1>0. Callers \subseteq Threads
  BY DEF Threads
<1>1. CASE UNCHANGED vars
  BY <1>1 DEF vars, Closing
<1>2. ASSUME NEW t \in Callers,
             \/ Record(t) \/ EnsureWorkerStarted(t) \/ FlushBegin(t) \/ Join(t)
             \/ \E how \in {"shutdown", "discard"} : CloseBegin(t, how)
      PROVE  Closing
  BY <1>2 DEF Record, EnsureWorkerStarted, FlushBegin, Join, CloseBegin, Closing
<1>3. ASSUME NEW t \in Threads, FlushSnapshot(t) PROVE Closing
  <2>1. UNCHANGED mark
    BY <1>3 DEF FlushSnapshot
  <2>2. (buckets = NoBuckets /\ Returned(t)) \/ UNCHANGED closed
    BY <1>3, Returns DEF FlushSnapshot
  <2>3. QED
    BY <2>1, <2>2 DEF Returned, Closing
<1>4. ASSUME NEW t \in Threads, FlushSettle(t) \/ FlushThrows(t) \/ FlushLog(t) PROVE Closing
  <2>1. UNCHANGED mark /\ pc[t] \in {"deliver", "log"}
    BY <1>4 DEF FlushSettle, FlushThrows, FlushLog, At
  <2>2. Returned(t) \/ UNCHANGED closed
    BY <1>4, Returns DEF FlushSettle, FlushThrows, FlushLog, LetGo
  <2>3. QED
    BY <2>1, <2>2 DEF Returned, Closing
<1>5. ASSUME NEW t \in Callers, Stop(t) PROVE Closing
  <2>1. closing[t] # "no" /\ UNCHANGED closed
    BY <1>5 DEF Stop, At, Inv, PcInv, ClosePcs
  <2>2. QED
    BY <2>1 DEF Closing
<1>6. ASSUME NEW t \in Callers, ShutdownLocked(t) \/ DiscardLocked(t) PROVE Closing
  <2>1. UNCHANGED mark
    BY <1>6 DEF ShutdownLocked, DiscardLocked
  <2>2. (discarded' /\ Returned(t)) \/ UNCHANGED closed
    BY <1>0, <1>6, Returns DEF ShutdownLocked, DiscardLocked, flags
  <2>3. QED
    BY <2>1, <2>2 DEF Returned, Closing
<1>7. CASE WorkerStep
  BY <1>7 DEF WorkerStep, WorkerLoop, WorkerCaught, Closing
<1>8. QED
  BY <1>1, <1>2, <1>3, <1>4, <1>5, <1>6, <1>7 DEF Next, FlushStep, CloseStep

LEMMA StepShutdownReports == ASSUME Inv, [Next]_vars PROVE ShutdownReports'
<1> SUFFICES ASSUME ~overlapped', closed' = "shutdown", ~discarded'
             PROVE  mark' <= sentUpTo'
  BY DEF ShutdownReports
<1>0. /\ ~overlapped /\ ~discarded
      /\ sentUpTo \in Nat /\ sentUpTo' \in Nat /\ sentUpTo <= sentUpTo' /\ mark \in Nat
  BY Effects, OverlapStays, SentUpToGrows, StepCountersOK, Facts DEF Inv, TypeOK, HistoryOK
<1>1. CASE closed' = closed /\ UNCHANGED mark
  BY <1>0, <1>1 DEF Inv, ShutdownReports
<1>2. ASSUME NEW t \in Callers, closing[t] # "no", UNCHANGED closed PROVE FALSE
  BY <1>2 DEF Inv, PcInv
<1>3. ASSUME NEW t \in Callers, closed' = closing[t], UNCHANGED mark,
             buckets = NoBuckets \/ pc[t] \in {"deliver", "log"}
      PROVE  mark' <= sentUpTo'
  <2>1. mark <= sentUpTo
    BY <1>0, <1>3, NothingLeft DEF Inv, SendInv
  <2>2. QED
    BY <1>0, <1>3, <2>1
<1>4. Closing
  BY StepClosing
<1>5. QED
  BY <1>1, <1>2, <1>3, <1>4 DEF Closing

LEMMA StepSendInv == ASSUME Inv, [Next]_vars PROVE SendInv'
<1> SUFFICES ASSUME NEW t \in Callers, closing'[t] = "shutdown", pc'[t] \in {"deliver", "log"},
                    ~discarded'
             PROVE  mark' <= sentUpTo'
  BY DEF SendInv
<1>0. /\ ~discarded /\ Callers \subseteq Threads
      /\ pc \in [Threads -> Pcs] /\ closing \in [Callers -> Closings]
      /\ sentUpTo \in Nat /\ sentUpTo' \in Nat /\ sentUpTo <= sentUpTo'
      /\ mark \in Nat /\ recorded \in Nat /\ mark <= recorded
  BY Effects, SentUpToGrows, StepCountersOK, Facts
  DEF Inv, TypeOK, ThreadsOK, HistoryOK, FlightInv, Threads
<1>1. closing[t] = "shutdown"
  <2>1. ASSUME NEW u \in Callers, NEW how, closing' = [closing EXCEPT ![u] = how],
               pc' = [pc EXCEPT ![u] = "stop"]
        PROVE  closing[t] = "shutdown"
    BY <1>0, <2>1
  <2>2. ASSUME NEW u \in Callers, closing' = [closing EXCEPT ![u] = "no"]
        PROVE  closing[t] = "shutdown"
    BY <1>0, <2>2
  <2>3. QED
    BY <2>1, <2>2, StepPlaces DEF Places, Returned
<1>2. \A u \in Callers : closing[u] # "no" => u = t
  BY <1>1 DEF Inv, PcInv
<1>3. CASE \E u \in Callers : Stop(u)
  BY <1>0, <1>2, <1>3 DEF Stop, At, Goto, Inv, PcInv, ClosePcs
<1>4. CASE UNCHANGED mark /\ pc[t] \in {"deliver", "log"}
  BY <1>0, <1>1, <1>4 DEF Inv, SendInv
<1>5. ASSUME UNCHANGED mark, sentUpTo' = Max({sentUpTo, recorded}) PROVE mark' <= sentUpTo'
  BY <1>0, <1>5, MaxOfTwo
<1>6. \/ \E u \in Callers : Stop(u)
      \/ UNCHANGED mark /\ (pc[t] \in {"deliver", "log"} \/ FlushSnapshot(t))
  <2> USE DEF closings
  <2>1. CASE UNCHANGED vars
    BY <2>1 DEF vars
  <2>2. ASSUME NEW u \in Callers,
               \/ Record(u) \/ FlushBegin(u) \/ Join(u)
               \/ \E how \in {"shutdown", "discard"} : CloseBegin(u, how)
        PROVE  UNCHANGED mark /\ pc[t] \in {"deliver", "log"}
    BY <1>0, <2>2 DEF Record, FlushBegin, Join, CloseBegin, Goto
  <2>3. ASSUME NEW u \in Callers, EnsureWorkerStarted(u)
        PROVE  UNCHANGED mark /\ pc[t] \in {"deliver", "log"}
    BY <1>0, <2>3, FlusherThreadsAssumption DEF EnsureWorkerStarted, Goto
  <2>4. ASSUME NEW u \in Threads, FlushSettle(u) \/ FlushThrows(u) \/ FlushLog(u) \/ FlushSnapshot(u)
        PROVE  UNCHANGED mark /\ (pc[t] \in {"deliver", "log"} \/ FlushSnapshot(t))
    <3>1. UNCHANGED mark /\ (pc[u] \in {"deliver", "log"} \/ FlushSnapshot(u))
      BY <2>4 DEF FlushSettle, FlushThrows, FlushLog, FlushSnapshot, At
    <3>2. u # t => pc'[t] = pc[t]
      <4>1. \E where : pc' = [pc EXCEPT ![u] = where]
        BY <2>4, Returns
        DEF FlushSettle, FlushThrows, FlushLog, FlushSnapshot, LetGo, Goto, Returned
      <4>2. QED
        BY <1>0, <4>1
    <3>3. QED
      BY <3>1, <3>2
  <2>5. ASSUME NEW u \in Callers, ShutdownLocked(u) \/ DiscardLocked(u)
        PROVE  UNCHANGED mark /\ pc[t] \in {"deliver", "log"}
    <3>1. \E where \in {"run", "idle", "caught", "flush"} : pc' = [pc EXCEPT ![u] = where]
      BY <1>0, <2>5, Returns DEF ShutdownLocked, DiscardLocked, Goto, Returned
    <3>2. QED
      BY <1>0, <2>5, <3>1 DEF ShutdownLocked, DiscardLocked
  <2>6. CASE WorkerStep
    BY <1>0, <2>6, FlusherThreadsAssumption DEF WorkerStep, WorkerLoop, WorkerCaught, Goto
  <2>7. QED
    BY <2>1, <2>2, <2>3, <2>4, <2>5, <2>6 DEF Next, FlushStep, CloseStep
<1>7. CASE UNCHANGED mark /\ FlushSnapshot(t)
  <2>1. CASE buckets = NoBuckets /\ FlushReturn(t)
    BY <1>0, <2>1, Returns DEF Returned
  <2>2. CASE sentUpTo' = Max({sentUpTo, recorded})
    BY <1>5, <1>7, <2>2
  <2>3. QED
    BY <1>7, <2>1, <2>2 DEF FlushSnapshot
<1>8. QED
  BY <1>3, <1>4, <1>6, <1>7

-----------------------------------------------------------------------------
(* The invariant, and what it says *)

LEMMA InitInv == ASSUME Init PROVE Inv
<1> USE DEF Init
<1>0. /\ Len(log) = 0 /\ log \in Seq(Entries) /\ DOMAIN log = {}
      /\ Worker \notin Callers /\ Threads = Callers \cup {Worker}
      /\ MaxRecords \in Nat /\ MaxFailures \in Nat \ {0}
  BY FlusherThreadsAssumption, FlusherBoundsAssumption DEF Threads
<1>1. NoBuckets \in [Names -> Bucket] /\ \A name \in Names : NoBuckets[name] = NoBucket
  BY NoBucketTallies DEF NoBuckets
<1>2. TypeOK
  <2>1. TallyOK
    BY <1>0, <1>1 DEF TallyOK, recorded
  <2>2. FlagsOK /\ BatchesOK
    BY <1>1 DEF FlagsOK, BatchesOK
  <2>3. ThreadsOK
    BY DEF ThreadsOK, Pcs, Closings
  <2>4. HistoryOK
    BY <1>0 DEF HistoryOK, recorded, Entries
  <2>5. QED
    BY <2>1, <2>2, <2>3, <2>4 DEF TypeOK
<1>3. \A t \in Threads : pc[t] # "deliver"
  BY <1>0
<1>4. PcInv /\ FlightInv /\ SendInv
  <2>1. PcInv
    <3>1. /\ \A t \in Callers : pc[t] = "idle" /\ closing[t] = "no"
          /\ pc[Worker] = "off" /\ closed = "no"
      BY <1>0
    <3> HIDE DEF Init
    <3>2. QED
      BY <3>1 DEF PcInv, ClosePcs
  <2>2. Flying = {}
    BY <1>3 DEF Flying, InFlight
  <2>3. FlightInv
    BY <1>0, <2>2 DEF FlightInv, recorded
  <2>4. QED
    BY <2>1, <2>3 DEF SendInv
<1>5. \A name, range : RecordsOf(name, range) = {}
  BY <1>0 DEF RecordsOf
<1>6. MaxInv /\ ExcusedInv
  BY <1>5 DEF MaxInv, ExcusedInv, Open
<1>7. BucketsAddUp
  <2>1. ASSUME NEW name \in Names
        PROVE  Describes(buckets[name], RecordsOf(name, (periodStart + 1)..recorded) \ excused)
    <3>1. RecordsOf(name, (periodStart + 1)..recorded) \ excused = {}
      BY <1>5
    <3>2. QED
      BY <1>1, <3>1, NoBucketTallies, DescribesTallies
  <2>2. QED
    BY <2>1 DEF BucketsAddUp
<1>8. SampleMatchesPeriod /\ MaxCoversPeriod
  BY <1>3 DEF SampleMatchesPeriod, MaxCoversPeriod, InFlight
<1>9. ReportedOnce /\ ShutdownReports
  BY DEF ReportedOnce, ShutdownReports, Records
<1>10. QED
  BY <1>2, <1>4, <1>6, <1>7, <1>8, <1>9 DEF Inv

LEMMA StepInv == ASSUME Inv, [Next]_vars PROVE Inv'
<1>0. Effect /\ Places
  BY Effects, StepPlaces
<1>1. TypeOK' /\ PcInv'
  <2>1. DataOK' /\ CountersOK'
    BY <1>0, StepDataOK, StepCountersOK
  <2>2. pc' \in [Threads -> Pcs] /\ closing' \in [Callers -> Closings] /\ closed' \in Closings /\ PcInv'
    BY <1>0, StepPcInv
  <2>3. log' \in Seq([name : Names, ms : Durations]) /\ recorded' <= MaxRecords
    BY <1>0, LogGrows DEF Entries
  <2>4. QED
    BY <2>1, <2>2, <2>3
    DEF DataOK, CountersOK, TypeOK, TallyOK, FlagsOK, ThreadsOK, BatchesOK, HistoryOK
<1>2. FlightInv'
  BY <1>0, StepDataOK, StepCountersOK, StepFlight DEF DataOK, CountersOK, FlightInv
<1>3. MaxInv'
  BY <1>0, StepBuckets DEF MaxInv
<1>4. ExcusedInv' /\ SendInv' /\ ShutdownReports'
  BY <1>0, StepExcused, StepCountersOK, StepSendInv, StepShutdownReports
<1>5. BucketsAddUp'
  <2>1. ASSUME ~overlapped', NEW name \in Names
        PROVE  Describes(buckets[name], Open(name))'
    <3>1. Tallies(buckets'[name], log', Open(name)')
      BY <1>0, <2>1, StepBuckets
    <3>2. QED
      BY <3>1 DEF Describes, Tallies, Total, MapThenSumSet, MapThenFoldSet
  <2>2. QED
    BY <2>1 DEF BucketsAddUp, Open
<1>6. SampleMatchesPeriod'
  <2>1. ASSUME ~overlapped', NEW t \in Flying', NEW name \in Names
        PROVE  Describes(snapshot[t][name], Sample(t, name))'
    <3>1. Tallies(snapshot'[t][name], log', Sample(t, name)')
      BY <1>0, <2>1, StepSamples
    <3>2. QED
      BY <3>1 DEF Describes, Tallies, Total, MapThenSumSet, MapThenFoldSet
  <2>2. QED
    BY <2>1 DEF SampleMatchesPeriod, Flying, Sample
<1>7. MaxCoversPeriod'
  BY <1>0, StepSamples DEF MaxCoversPeriod, Flying, Sample
<1>8. ReportedOnce'
  BY <1>0, StepReported, OverlapStays DEF ReportedOnce
<1>9. QED
  BY <1>1, <1>2, <1>3, <1>4, <1>5, <1>6, <1>7, <1>8 DEF Inv

\* The invariant holds of every behaviour, for any threads, names, durations and faults.
THEOREM Invariance == Spec => []Inv
<1>1. Init => Inv
  BY InitInv
<1>2. Inv /\ [Next]_vars => Inv'
  BY StepInv
<1>3. QED
  BY <1>1, <1>2, PTL DEF Spec

\* Every variable keeps its type: no bucket that counts nothing remains in buckets_, the
\* period never begins after what is recorded, and failures stay below the limit.
THEOREM TypeCorrect == Spec => []TypeOK
  BY Invariance, PTL DEF Inv

\* Until flushes overlap, buckets_ describe exactly what was recorded in the current
\* period and neither sent nor dropped, in count, sum and histogram: however records land
\* beside a delivery, remove_sent() forgets nothing and counts nothing twice.
THEOREM BucketsDescribe == Spec => []BucketsAddUp
  BY Invariance, PTL DEF Inv

\* Until flushes overlap, a sample under way describes exactly the durations recorded in
\* the period it states, whatever was recorded since.
THEOREM SamplesDescribe == Spec => []SampleMatchesPeriod
  BY Invariance, PTL DEF Inv

\* Until flushes overlap, max_duration_ms is never below a duration its sample counts,
\* though remove_sent() never lowers it.
THEOREM MaxCovers == Spec => []MaxCoversPeriod
  BY Invariance, PTL DEF Inv

\* Until flushes overlap, the durations of the periods that are over were reported once or
\* dropped on purpose, and those of the current one were not reported, through every mix of
\* failures, retries, rejections and exceptions.
THEOREM ReportsOnce == Spec => []ReportedOnce
  BY Invariance, PTL DEF Inv

\* Until flushes overlap, what was recorded when shutdown() stopped the worker was in a
\* sample by the time it returns, unless discard() took it.
THEOREM ShutdownSends == Spec => []ShutdownReports
  BY Invariance, PTL DEF Inv

=============================================================================
