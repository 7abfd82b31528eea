--------------------------- MODULE Scanners_proofs ---------------------------
(***************************************************************************)
(* The scanners written by hand in strict_privacy.cpp, sql_statement.cpp    *)
(* and pii_scrubber.cpp find what the patterns they stand for find, and a   *)
(* masked statement holds no string literal: in every text over every       *)
(* alphabet, and for every length the patterns name.                        *)
(* The library's induction theorems take an operator; here the least        *)
(* counterexample takes their place.                                        *)
(***************************************************************************)
EXTENDS StrictPrivacy, SqlStatement, PiiScrubber, Change, SequenceTheorems, FiniteSetTheorems,
        WellFoundedInduction, TLAPS

-----------------------------------------------------------------------------
(* Texts: runs, what is found, and what lies between two places *)

\* Every set of natural numbers has a least element.
LEMMA Least ==
  ASSUME NEW B \in SUBSET Nat, B # {}
  PROVE  \E m \in B : \A k \in B : m <= k
<1>1. PICK m \in B : \A k \in B : <<k, m>> \notin OpToRel(<, Nat)
  BY NatLessThanWellFounded, WFMin, Zenon
<1>2. ASSUME NEW k \in B, k < m PROVE FALSE
  BY <1>1, <1>2 DEF OpToRel
<1> QED
  BY <1>2

\* ... and every bounded one has a greatest.
LEMMA Greatest ==
  ASSUME NEW B \in SUBSET Int, B # {}, NEW top \in Int, \A k \in B : k <= top
  PROVE  \E m \in B : \A k \in B : k <= m
<1> DEFINE C == {top - k : k \in B}
<1>1. C \in SUBSET Nat /\ C # {}
  <2>1. PICK k \in B : TRUE
    OBVIOUS
  <2>2. top - k \in C
    OBVIOUS
  <2>3. C \in SUBSET Nat
    OBVIOUS
  <2> QED
    BY <2>2, <2>3
<1>2. PICK c \in C : \A d \in C : c <= d
  <2> HIDE DEF C
  <2> QED
    BY <1>1, Least
<1>3. PICK m \in B : c = top - m
  OBVIOUS
<1>4. ASSUME NEW k \in B PROVE k <= m
  <2>1. top - k \in C
    OBVIOUS
  <2> QED
    BY <1>2, <1>3, <2>1
<1> QED
  BY <1>4

\* Min and Max, whose definitions choose, of sets that have a least or a greatest
\* element; and the converse.
LEMMA MinOf ==
  ASSUME NEW B \in SUBSET Nat, B # {}
  PROVE  Min(B) \in B /\ \A k \in B : Min(B) <= k
BY Least DEF Min

LEMMA MaxOf ==
  ASSUME NEW B \in SUBSET Int, B # {}, NEW top \in Int, \A k \in B : k <= top
  PROVE  Max(B) \in B /\ \A k \in B : k <= Max(B)
<1>1. \E m \in B : \A k \in B : m >= k
  <2>1. PICK m \in B : \A k \in B : k <= m
    BY Greatest
  <2> QED
    BY <2>1
<1>2. Max(B) \in B /\ \A k \in B : Max(B) >= k
  BY <1>1 DEF Max
<1> QED
  BY <1>2

LEMMA MaxIsThat ==
  ASSUME NEW B \in SUBSET Int, NEW m \in B, \A k \in B : k <= m
  PROVE  Max(B) = m
<1> DEFINE x == Max(B)
<1>1. x \in B /\ m <= x
  BY MaxOf
<1>2. m \in Int /\ x \in Int /\ x <= m
  BY <1>1
<1> HIDE DEF x
<1> QED
  BY <1>1, <1>2 DEF x

LEMMA MinIsThat ==
  ASSUME NEW B \in SUBSET Nat, NEW m \in B, \A k \in B : m <= k
  PROVE  Min(B) = m
<1> DEFINE x == Min(B)
<1>1. x \in B /\ x <= m
  BY MinOf
<1>2. m \in Nat /\ x \in Nat /\ m <= x
  BY <1>1
<1> HIDE DEF x
<1> QED
  BY <1>1, <1>2 DEF x

\* Induction up to n, and from n down, with a set for the hypothesis.
LEMMA UpTo ==
  ASSUME NEW n \in Nat, NEW P, 0 \in P, \A k \in 1 .. n : k - 1 \in P => k \in P
  PROVE  \A k \in 0 .. n : k \in P
<1> DEFINE B == {k \in 0 .. n : k \notin P}
<1>1. ASSUME B # {} PROVE FALSE
  <2>1. B \in SUBSET Nat
    OBVIOUS
  <2>2. PICK m \in B : \A k \in B : m <= k
    <3> HIDE DEF B
    <3> QED
      BY <1>1, <2>1, Least
  <2>3. m \in 1 .. n /\ m - 1 \in 0 .. n /\ m - 1 \notin B
    BY <2>2
  <2> QED
    BY <2>2, <2>3
<1> QED
  BY <1>1

LEMMA DownFrom ==
  ASSUME NEW n \in Nat, NEW P, \A k \in 1 .. n : (\A j \in k + 1 .. n : j \in P) => k \in P
  PROVE  \A k \in 1 .. n : k \in P
<1> DEFINE B == {k \in 1 .. n : k \notin P}
<1>1. ASSUME B # {} PROVE FALSE
  <2>1. B \in SUBSET Int /\ n \in Int /\ \A k \in B : k <= n
    OBVIOUS
  <2>2. PICK m \in B : \A k \in B : k <= m
    <3> HIDE DEF B
    <3> QED
      BY <1>1, <2>1, Greatest
  <2>3. \A j \in m + 1 .. n : j \notin B
    BY <2>2
  <2> QED
    BY <2>2, <2>3
<1> QED
  BY <1>1

-----------------------------------------------------------------------------
(* Positions *)

\* Where At finds a byte of a class, it finds it in the text.
LEMMA AtIn ==
  ASSUME NEW S, NEW s \in Seq(S), NEW i \in Int, NEW C, At(s, i) \in C, NoByte \notin C
  PROVE  i \in 1 .. Len(s) /\ At(s, i) = s[i]
BY DEF At

LEMMA AtIs ==
  ASSUME NEW S, NEW s \in Seq(S), NEW i \in 1 .. Len(s)
  PROVE  At(s, i) = s[i]
BY DEF At

\* A run from i on ends at the first byte that is not in C.
LEMMA RunEndIs ==
  ASSUME NEW S, NEW s \in Seq(S), NEW i \in Nat \ {0}, NEW C, NoByte \notin C
  PROVE  /\ RunEnd(s, i, C) \in Nat /\ RunEnd(s, i, C) >= i
         /\ At(s, RunEnd(s, i, C)) \notin C
         /\ \A k \in i .. RunEnd(s, i, C) - 1 : k \in 1 .. Len(s) /\ s[k] \in C /\ At(s, k) \in C
         /\ RunEnd(s, i, C) > i => RunEnd(s, i, C) <= Len(s) + 1
<1> DEFINE B == {j \in i .. i + Len(s) : At(s, j) \notin C}
           r == RunEnd(s, i, C)
<1>1. i + Len(s) \in B
  BY DEF At
<1>2. B \in SUBSET Nat
  OBVIOUS
<1>3. r \in B /\ \A k \in B : r <= k
  <2>1. r = Min(B)
    BY DEF RunEnd
  <2> HIDE DEF B, r
  <2> QED
    BY <1>1, <1>2, <2>1, MinOf
<1>4. ASSUME NEW k \in i .. r - 1 PROVE k \in 1 .. Len(s) /\ s[k] \in C /\ At(s, k) \in C
  <2>1. k \in i .. i + Len(s) /\ k \notin B
    BY <1>3
  <2>2. At(s, k) \in C
    BY <2>1
  <2> QED
    BY <2>2, AtIn
<1>5. ASSUME r > i PROVE r <= Len(s) + 1
  <2>1. r - 1 \in i .. r - 1
    BY <1>3, <1>5
  <2> QED
    BY <1>3, <1>4, <2>1
<1> QED
  BY <1>3, <1>4, <1>5

\* ... and is the only place that is the first.
LEMMA RunEndIsThat ==
  ASSUME NEW S, NEW s \in Seq(S), NEW i \in Nat \ {0}, NEW C, NoByte \notin C,
         NEW j \in Nat, j >= i, All(s, i, j, C), At(s, j) \notin C
  PROVE  RunEnd(s, i, C) = j
<1> DEFINE r == RunEnd(s, i, C)
<1>1. /\ r \in Nat /\ r >= i /\ At(s, r) \notin C
      /\ \A k \in i .. r - 1 : At(s, k) \in C
  BY RunEndIs
<1>2. ~ (r < j)
  BY <1>1 DEF All
<1>3. ~ (j < r)
  BY <1>1
<1> HIDE DEF r
<1> QED
  BY <1>1, <1>2, <1>3 DEF r

\* Whatever lies in a run ends no later than the run does.
LEMMA RunBounds ==
  ASSUME NEW S, NEW s \in Seq(S), NEW i \in Nat \ {0}, NEW C, NoByte \notin C,
         NEW j \in Int, All(s, i, j, C)
  PROVE  j <= RunEnd(s, i, C)
<1>1. RunEnd(s, i, C) \in Nat /\ RunEnd(s, i, C) >= i /\ At(s, RunEnd(s, i, C)) \notin C
  BY RunEndIs
<1> QED
  BY <1>1 DEF All

\* What is found is the first byte of C from i on; 0 if there is none.
LEMMA FindIs ==
  ASSUME NEW S, NEW s \in Seq(S), NEW i \in Nat \ {0}, NEW C
  PROVE  \/ /\ Find(s, i, C) \in i .. Len(s) /\ s[Find(s, i, C)] \in C
            /\ \A k \in i .. Find(s, i, C) - 1 : s[k] \notin C
         \/ /\ Find(s, i, C) = 0
            /\ \A k \in i .. Len(s) : s[k] \notin C
<1> DEFINE B == {j \in i .. Len(s) : s[j] \in C}
<1>1. CASE B = {}
  BY <1>1 DEF Find
<1>2. CASE B # {}
  <2>1. Find(s, i, C) = Min(B)
    BY <1>2 DEF Find
  <2>2. B \in SUBSET Nat
    OBVIOUS
  <2> DEFINE m == Min(B)
  <2>3. m \in B /\ \A k \in B : m <= k
    <3> HIDE DEF B
    <3> QED
      BY <1>2, <2>2, MinOf
  <2> HIDE DEF m
  <2>4. m \in i .. Len(s) /\ s[m] \in C
    BY <2>3
  <2>5. \A k \in i .. m - 1 : s[k] \notin C
    BY <2>3, <2>4
  <2> QED
    BY <2>1, <2>4, <2>5 DEF m
<1> QED
  BY <1>1, <1>2

\* What lies between two places of a text.
LEMMA BetweenIs ==
  ASSUME NEW S, NEW s \in Seq(S), NEW i \in 1 .. Len(s) + 1, NEW j \in i .. Len(s) + 1
  PROVE  /\ Between(s, i, j) \in Seq(S) /\ Len(Between(s, i, j)) = j - i
         /\ \A k \in 1 .. j - i : Between(s, i, j)[k] = s[i + k - 1]
<1>1. \A k \in i .. j - 1 : s[k] \in S
  OBVIOUS
<1>2. /\ SubSeq(s, i, j - 1) \in Seq(S)
      /\ Len(SubSeq(s, i, j - 1)) = IF i <= j - 1 THEN j - 1 - i + 1 ELSE 0
      /\ \A k \in 1 .. j - 1 - i + 1 : SubSeq(s, i, j - 1)[k] = s[i + k - 1]
  BY <1>1, SubSeqProperties
<1> QED
  BY <1>2 DEF Between

-----------------------------------------------------------------------------
(* The classes of bytes *)

\* What stands off the ends of a text, and the marks inside emails, uuids and numbers,
\* are no letters, digits or word bytes.
LEMMA NotBytes ==
  \A c \in {NoByte, "@", ".", "-", "+"} : c \notin Letters /\ c \notin Digits
BY SMT DEF NoByte, Digits, DigitOrder, Letters, Lowers, Uppers, LowerOrder, UpperOrder, Range

\* The letters that numbers use are letters and no digits.
LEMMA ExponentBytes ==
  \A c \in {"e", "E", "x", "X", "b", "B"} : c \in Letters /\ c \notin Digits
BY SMT DEF NoByte, Digits, DigitOrder, Letters, Lowers, Uppers, LowerOrder, UpperOrder, Range

LEMMA HexLetters == {"a", "b", "c", "d", "e", "f", "A", "B", "C", "D", "E", "F"} \subseteq Letters
BY SMT DEF NoByte, Digits, DigitOrder, Letters, Lowers, Uppers, LowerOrder, UpperOrder, Range

\* How the classes of bytes lie in each other.
LEMMA ClassesNest == Digits \subseteq Hexes /\ Hexes \subseteq Words /\ Letters \subseteq Words
<1>1. Digits \subseteq Words /\ Letters \subseteq Words
  BY Zenon DEF Words
<1>2. Digits \subseteq Hexes
  BY Zenon DEF Hexes
<1>3. Hexes = Digits \cup {"a", "b", "c", "d", "e", "f", "A", "B", "C", "D", "E", "F"}
  BY SMT DEF Hexes
<1> QED
  BY <1>1, <1>2, <1>3, HexLetters, SMT

LEMMA NotWords == \A c \in {NoByte, "@", ".", "-", "+"} : c \notin Words
<1>1. \A c \in {NoByte, "@", ".", "-", "+"} : c # "_"
  BY Zenon DEF NoByte
<1> QED
  BY <1>1, NotBytes, Zenon DEF Words

\* An email's two sides: the at sign ends the local part, and neither runs off the text.
LEMMA LocalParts ==
  /\ "@" \notin LocalPart /\ NoByte \notin LocalPart /\ NoByte \notin Domain
  /\ Letters \subseteq Domain /\ "." \in Domain
<1>1. "@" \notin LocalPart
  BY NotBytes, Zenon DEF LocalPart
<1>2. NoByte \notin LocalPart
  <2>1. NoByte \notin Letters /\ NoByte \notin Digits
    BY NotBytes
  <2> QED
   BY <2>1, Zenon DEF LocalPart, NoByte
<1>3. NoByte \notin Domain
  <2>1. NoByte \notin Letters /\ NoByte \notin Digits
    BY NotBytes
  <2> QED
   BY <2>1, Zenon DEF Domain, NoByte
<1> QED
  BY <1>1, <1>2, <1>3 DEF Domain

LEMMA ClassFacts ==
  /\ \A C \in {Digits, Letters, Words, Hexes} : NoByte \notin C
  /\ Digits \subseteq Words /\ Hexes \subseteq Words /\ Letters \subseteq Words
  /\ "." \notin Words /\ "-" \notin Words /\ "@" \notin Words
  BY NotWords, ClassesNest

-----------------------------------------------------------------------------
(* Where one match ends: the code's scan beside its pattern *)

\* The end of the longest match of a pattern, as Longest takes it; 0 for none.
LongestOf(ends) == IF ends = {} THEN 0 ELSE Max(ends)

LEMMA LongestIs ==
  ASSUME NEW ends \in SUBSET Int, NEW e \in Int, \A j \in ends : j <= e,
         e \in ends \/ (e = 0 /\ ends = {})
  PROVE  LongestOf(ends) = e
<1>1. CASE ends = {}
  BY <1>1 DEF LongestOf
<1>2. CASE ends # {}
  <2>1. Max(ends) = e
    BY <1>2, MaxIsThat
  <2> QED
    BY <1>2, <2>1 DEF LongestOf
<1> QED
  BY <1>1, <1>2

\* A hex id ends where its pattern's longest match does (strict_privacy.cpp's
\* hex_id_end()).
LEMMA HexIdEndIs ==
  ASSUME NEW S, NEW s \in Seq(S), NEW i \in 1 .. Len(s)
  PROVE  HexIdEnd(s, i) = LET ends == {j \in i + 1 .. Len(s) + 1 : IsHexId(s, i, j)}
                          IN  IF ends = {} THEN 0 ELSE Max(ends)
<1> DEFINE ends == {j \in i + 1 .. Len(s) + 1 : IsHexId(s, i, j)}
           end  == RunEnd(s, i + 2, Hexes)
<1>0. NoByte \notin Hexes /\ HexIdDigits \in Nat /\ Len(s) \in Nat
  BY ClassFacts, StrictAssumption
<1>1. /\ end \in Nat /\ end >= i + 2 /\ At(s, end) \notin Hexes
      /\ \A k \in i + 2 .. end - 1 : At(s, k) \in Hexes
      /\ end > i + 2 => end <= Len(s) + 1
  BY <1>0, RunEndIs
<1> HIDE DEF end
<1>2. ASSUME NEW j \in ends PROVE j <= end /\ end - (i + 2) >= HexIdDigits /\ s[i] = "0" /\ At(s, i + 1) = "x"
  <2>1. j \in Int /\ All(s, i + 2, j, Hexes) /\ j - i >= 2 + HexIdDigits /\ s[i] = "0" /\ At(s, i + 1) = "x"
    BY DEF IsHexId
  <2>2. j <= end
    BY <1>0, <2>1, RunBounds DEF end
  <2> QED
    BY <1>0, <1>1, <2>1, <2>2
<1>3. CASE s[i] = "0" /\ At(s, i + 1) = "x" /\ end - (i + 2) >= HexIdDigits
  <2>1. i + 1 <= Len(s)
    BY <1>3 DEF At, NoByte
  <2>2. end \in i + 1 .. Len(s) + 1
    BY <1>0, <1>1, <2>1
  <2>3. end \in ends
    BY <1>0, <1>1, <1>3, <2>2 DEF IsHexId, All
  <2>4. Max(ends) = end
    <3>1. ends \in SUBSET Int
      OBVIOUS
    <3> HIDE DEF ends
    <3> QED
      BY <1>2, <2>3, <3>1, MaxIsThat
  <2> HIDE DEF ends
  <2>5. HexIdEnd(s, i) = end
    BY <1>3 DEF HexIdEnd, end
  <2> QED
    BY <2>3, <2>4, <2>5 DEF ends
<1>4. CASE ~(s[i] = "0" /\ At(s, i + 1) = "x" /\ end - (i + 2) >= HexIdDigits)
  <2>1. ends = {}
    BY <1>2, <1>4
  <2>2. HexIdEnd(s, i) = 0
    BY <1>4 DEF HexIdEnd, end
  <2> QED
    BY <2>1, <2>2
<1> QED
  BY <1>3, <1>4

\* A whole number ends where its pattern's longest match does (number_run_end()).
LEMMA NumberRunEndIs ==
  ASSUME NEW S, NEW s \in Seq(S), NEW i \in 1 .. Len(s)
  PROVE  NumberRunEnd(s, i) =
           LongestOf({j \in i + 1 .. Len(s) + 1 : IsWholeNumber(s, i, j)})
<1> DEFINE ends == {j \in i + 1 .. Len(s) + 1 : IsWholeNumber(s, i, j)}
           end  == RunEnd(s, i, Digits)
           Free == s[i] \in Digits /\ At(s, i - 1) \notin Words /\ At(s, end) \notin Words
<1>0. NoByte \notin Digits /\ Digits \subseteq Words /\ Len(s) \in Nat
  BY ClassFacts
<1>1. /\ end \in Nat /\ end >= i /\ At(s, end) \notin Digits
      /\ \A k \in i .. end - 1 : At(s, k) \in Digits
      /\ end > i => end <= Len(s) + 1
  BY <1>0, RunEndIs
<1> HIDE DEF end
<1>2. ASSUME NEW j \in ends PROVE j = end /\ Free
  <2>1. j \in Nat /\ j > i /\ All(s, i, j, Digits) /\ At(s, i - 1) \notin Words /\ At(s, j) \notin Words
    BY DEF IsWholeNumber
  <2>2. j = end
    BY <1>0, <2>1, RunEndIsThat DEF end
  <2>3. At(s, i) = s[i] /\ At(s, i) \in Digits
    BY <2>1, AtIs DEF All
  <2> QED
    BY <2>1, <2>2, <2>3
<1>3. CASE Free
  <2>1. At(s, i) = s[i]
    BY AtIs
  <2>2. end > i
    BY <1>1, <1>3, <2>1
  <2>3. end \in ends
    BY <1>0, <1>1, <1>3, <2>2 DEF IsWholeNumber, All
  <2>4. NumberRunEnd(s, i) = end
    BY <1>3 DEF NumberRunEnd, end
  <2>5. \A j \in ends : j <= end
    BY <1>1, <1>2
  <2>6. ends \in SUBSET Int
    OBVIOUS
  <2> HIDE DEF ends
  <2> QED
    BY <1>1, <2>3, <2>4, <2>5, <2>6, LongestIs DEF ends
<1>4. CASE ~Free
  <2>1. ends = {}
    BY <1>2, <1>4
  <2>2. NumberRunEnd(s, i) = 0
    BY <1>4 DEF NumberRunEnd, end
  <2> QED
    BY <2>1, <2>2 DEF LongestOf
<1> QED
  BY <1>3, <1>4

\* A quoted run ends where its pattern's longest match does (replace_quoted()).
LEMMA QuotedRunIs ==
  ASSUME NEW S, NEW s \in Seq(S), NEW i \in 1 .. Len(s), NEW quote, quote # NoByte,
         NEW atWordBoundary \in BOOLEAN
  PROVE  QuotedRun(s, i, quote, atWordBoundary) =
           LongestOf({j \in i + 1 .. Len(s) + 1 : IsQuoted(s, i, j, quote, atWordBoundary)})
<1> DEFINE stops == {quote, "\r", "\n"}
           ends == {j \in i + 1 .. Len(s) + 1 : IsQuoted(s, i, j, quote, atWordBoundary)}
           end  == Find(s, i + 1, stops)
           Free == /\ s[i] = quote /\ At(s, end) = quote
                   /\ atWordBoundary => At(s, i - 1) \notin Words /\ At(s, end + 1) \notin Words
<1>0. Len(s) \in Nat /\ quote \in stops
  OBVIOUS
<1>1. \/ /\ end \in i + 1 .. Len(s) /\ s[end] \in stops
         /\ \A k \in i + 1 .. end - 1 : s[k] \notin stops
      \/ /\ end = 0
         /\ \A k \in i + 1 .. Len(s) : s[k] \notin stops
  <2>1. i + 1 \in Nat \ {0}
    OBVIOUS
  <2> HIDE DEF stops
  <2> QED
    BY <2>1, FindIs
<1>2. ASSUME NEW j \in ends PROVE j = end + 1 /\ Free
  <2>1. /\ j \in i + 1 .. Len(s) + 1
        /\ i + 1 < j /\ s[i] = quote /\ At(s, j - 1) = quote
        /\ \A k \in i + 1 .. j - 2 : s[k] \notin stops
        /\ atWordBoundary => At(s, i - 1) \notin Words /\ At(s, j) \notin Words
    BY DEF IsQuoted
  <2> HIDE DEF end, stops
  <2>2. j - 1 \in i + 1 .. Len(s) /\ s[j - 1] = quote
    BY <2>1, AtIs
  <2>3. end = j - 1
    BY <1>0, <1>1, <2>1, <2>2
  <2> QED
    BY <2>1, <2>3
<1>3. CASE Free
  <2>1. end \in i + 1 .. Len(s) /\ \A k \in i + 1 .. end - 1 : s[k] \notin stops
    <3>1. end # 0
      BY <1>3 DEF At
    <3> HIDE DEF end, stops
    <3> QED
      BY <1>1, <3>1
  <2>2. end + 1 \in ends
    <3> HIDE DEF end
    <3> DEFINE e == end + 1
    <3>1. e \in i + 1 .. Len(s) + 1 /\ i + 1 < e /\ e - 1 = end /\ e - 2 = end - 1
      BY <2>1
    <3>2. At(s, e - 1) = quote /\ \A k \in i + 1 .. e - 2 : s[k] \notin {quote, "\r", "\n"}
      BY <1>3, <2>1, <3>1
    <3>3. s[i] = quote /\ (atWordBoundary => At(s, i - 1) \notin Words /\ At(s, e) \notin Words)
      BY <1>3, Zenon
    <3>4. IsQuoted(s, i, e, quote, atWordBoundary)
      <4> HIDE DEF e
      <4> QED
        BY <3>1, <3>2, <3>3, Zenon DEF IsQuoted
    <3> QED
      BY <3>1, <3>4
  <2>3. QuotedRun(s, i, quote, atWordBoundary) = end + 1
    BY <1>3 DEF QuotedRun
  <2>4. \A j \in ends : j <= end + 1
    <3> HIDE DEF end
    <3> QED
      BY <1>2, <2>1
  <2>5. ends \in SUBSET Int /\ end + 1 \in Int
    BY <2>1
  <2> HIDE DEF ends, end, stops
  <2> QED
    BY <2>2, <2>3, <2>4, <2>5, LongestIs DEF ends
<1>4. CASE ~Free
  <2>1. ends = {}
    BY <1>2, <1>4
  <2>2. QuotedRun(s, i, quote, atWordBoundary) = 0
    BY <1>4 DEF QuotedRun
  <2> QED
    BY <2>1, <2>2 DEF LongestOf
<1> QED
  BY <1>3, <1>4

\* The recursive function of where a uuid's groups end is what its equation says.
LEMMA GroupEndDefined ==
  GroupEnd = [k \in 0 .. Len(UuidGroups) |->
                IF k = 0 THEN -1 ELSE GroupEnd[k - 1] + 1 + UuidGroups[k]]
<1> DEFINE n == Len(UuidGroups)
           Def(f, m) == f = [k \in 0 .. m |-> IF k = 0 THEN -1 ELSE f[k - 1] + 1 + UuidGroups[k]]
           P == {m \in 0 .. n : \E f : Def(f, m)}
<1>1. n \in Nat
  BY StrictAssumption
<1>2. 0 \in P
  <2>1. Def([k \in 0 .. 0 |-> -1], 0)
    OBVIOUS
  <2> HIDE DEF Def
  <2> QED
    BY <1>1, <2>1
<1>3. ASSUME NEW m \in 1 .. n, m - 1 \in P PROVE m \in P
  <2>1. PICK f : Def(f, m - 1)
    BY <1>3
  <2> DEFINE g == [k \in 0 .. m |-> IF k = m THEN f[m - 1] + 1 + UuidGroups[m] ELSE f[k]]
  <2>2. Def(g, m)
    <3>1. \A k \in 0 .. m - 1 : g[k] = f[k]
      OBVIOUS
    <3>2. \A k \in 0 .. m - 1 : f[k] = IF k = 0 THEN -1 ELSE f[k - 1] + 1 + UuidGroups[k]
      BY <2>1
    <3>3. g[m] = g[m - 1] + 1 + UuidGroups[m]
      BY <3>1
    <3>4. \A k \in 0 .. m : g[k] = IF k = 0 THEN -1 ELSE g[k - 1] + 1 + UuidGroups[k]
      <4> HIDE DEF g
      <4> QED
        BY <3>1, <3>2, <3>3
    <3>5. g = [k \in 0 .. m |-> g[k]]
      OBVIOUS
    <3> HIDE DEF g
    <3> QED
      BY <3>4, <3>5
  <2> HIDE DEF Def, g
  <2> QED
    BY <2>2
<1>4. n \in P
  <2> HIDE DEF P, n
  <2>1. \A m \in 0 .. n : m \in P
    BY <1>1, <1>2, <1>3, UpTo
  <2> QED
    BY <1>1, <2>1
<1>5. \E f : Def(f, n)
  BY <1>4
<1>6. Def(CHOOSE f : Def(f, n), n)
  <2> HIDE DEF Def
  <2> QED
    BY <1>5
<1> QED
  BY <1>6 DEF GroupEnd

\* A uuid's groups follow one another, so that a later one ends further on.
LEMMA GroupEndIs ==
  LET n == Len(UuidGroups)
  IN  /\ n \in Nat \ {0} /\ GroupEnd[0] = -1
      /\ \A k \in 0 .. n : GroupEnd[k] \in Int
      /\ \A k \in 1 .. n : /\ UuidGroups[k] \in Nat \ {0}
                           /\ GroupEnd[k] = GroupEnd[k - 1] + 1 + UuidGroups[k]
      /\ \A a, b \in 0 .. n : a < b => GroupEnd[a] < GroupEnd[b]
<1> DEFINE n == Len(UuidGroups)
<1>1. n \in Nat \ {0} /\ \A k \in 1 .. n : UuidGroups[k] \in Nat \ {0}
  BY StrictAssumption, EmptySeq, ElementOfSeq
<1> HIDE DEF n
<1>2. GroupEnd[0] = -1 /\ \A k \in 1 .. n : GroupEnd[k] = GroupEnd[k - 1] + 1 + UuidGroups[k]
  BY <1>1, GroupEndDefined DEF n
<1>3. \A k \in 0 .. n : GroupEnd[k] \in Int
  <2> DEFINE P == {k \in 0 .. n : GroupEnd[k] \in Int}
  <2>1. 0 \in P
    BY <1>1, <1>2
  <2>2. ASSUME NEW k \in 1 .. n, k - 1 \in P PROVE k \in P
    BY <1>1, <1>2, <2>2
  <2>3. \A k \in 0 .. n : k \in P
    <3> HIDE DEF P
    <3> QED
      BY <1>1, <2>1, <2>2, UpTo
  <2> QED
    BY <2>3
<1>4. \A b \in 0 .. n : \A a \in 0 .. n : a < b => GroupEnd[a] < GroupEnd[b]
  <2> DEFINE P == {b \in 0 .. n : \A a \in 0 .. n : a < b => GroupEnd[a] < GroupEnd[b]}
  <2>1. 0 \in P
    BY <1>1
  <2>2. ASSUME NEW b \in 1 .. n, b - 1 \in P PROVE b \in P
    <3>1. GroupEnd[b - 1] < GroupEnd[b] /\ GroupEnd[b] \in Int /\ GroupEnd[b - 1] \in Int
      BY <1>1, <1>2, <1>3
    <3>2. ASSUME NEW a \in 0 .. n, a < b PROVE GroupEnd[a] < GroupEnd[b]
      <4>1. a = b - 1 \/ GroupEnd[a] < GroupEnd[b - 1]
        BY <1>1, <2>2, <3>2
      <4> QED
        BY <1>1, <1>3, <3>1, <4>1
    <3> QED
      BY <3>2
  <2>3. \A k \in 0 .. n : k \in P
    <3> HIDE DEF P
    <3> QED
      BY <1>1, <2>1, <2>2, UpTo
  <2> QED
    BY <2>3
<1> QED
  BY <1>1, <1>2, <1>3, <1>4 DEF n

\* The runs of hex digits between a uuid's dashes are what their equation says.
LEMMA HexRunsDefined ==
  ASSUME NEW s, NEW i
  PROVE  HexRuns(s, i) = [k \in 0 .. Len(UuidGroups) |->
                IF k = 0 THEN i - 1 ELSE RunEnd(s, HexRuns(s, i)[k - 1] + 1, Hexes)]
<1> DEFINE n == Len(UuidGroups)
           Def(f, m) == f = [k \in 0 .. m |-> IF k = 0 THEN i - 1 ELSE RunEnd(s, f[k - 1] + 1, Hexes)]
           P == {m \in 0 .. n : \E f : Def(f, m)}
<1>1. n \in Nat
  BY StrictAssumption
<1>2. 0 \in P
  <2>1. Def([k \in 0 .. 0 |-> i - 1], 0)
    OBVIOUS
  <2> HIDE DEF Def
  <2> QED
    BY <1>1, <2>1
<1>3. ASSUME NEW m \in 1 .. n, m - 1 \in P PROVE m \in P
  <2>1. PICK f : Def(f, m - 1)
    BY <1>3
  <2> DEFINE g == [k \in 0 .. m |-> IF k = m THEN RunEnd(s, f[m - 1] + 1, Hexes) ELSE f[k]]
  <2>2. Def(g, m)
    <3>1. \A k \in 0 .. m - 1 : g[k] = f[k]
      OBVIOUS
    <3>2. \A k \in 0 .. m - 1 : f[k] = IF k = 0 THEN i - 1 ELSE RunEnd(s, f[k - 1] + 1, Hexes)
      BY <2>1
    <3>3. g[m] = RunEnd(s, g[m - 1] + 1, Hexes)
      BY <3>1
    <3>4. \A k \in 0 .. m : g[k] = IF k = 0 THEN i - 1 ELSE RunEnd(s, g[k - 1] + 1, Hexes)
      <4> HIDE DEF g
      <4> QED
        BY <3>1, <3>2, <3>3
    <3>5. g = [k \in 0 .. m |-> g[k]]
      OBVIOUS
    <3> HIDE DEF g
    <3> QED
      BY <3>4, <3>5
  <2> HIDE DEF Def, g
  <2> QED
    BY <2>2
<1>4. n \in P
  <2> HIDE DEF P, n
  <2>1. \A m \in 0 .. n : m \in P
    BY <1>1, <1>2, <1>3, UpTo
  <2> QED
    BY <1>1, <2>1
<1>5. \E f : Def(f, n)
  BY <1>4
<1>6. Def(CHOOSE f : Def(f, n), n)
  <2> HIDE DEF Def
  <2> QED
    BY <1>5
<1> QED
  BY <1>6 DEF HexRuns

LEMMA HexRunsIs ==
  ASSUME NEW S, NEW s \in Seq(S), NEW i \in 1 .. Len(s)
  PROVE  LET n == Len(UuidGroups)
             e == HexRuns(s, i)
         IN  /\ e[0] = i - 1
             /\ \A k \in 1 .. n : e[k] = RunEnd(s, e[k - 1] + 1, Hexes)
             /\ \A k \in 0 .. n : e[k] \in Nat
<1> DEFINE n == Len(UuidGroups)
           e == HexRuns(s, i)
           P == {k \in 0 .. n : e[k] \in Nat}
<1>1. n \in Nat /\ NoByte \notin Hexes
  BY StrictAssumption, ClassFacts
<1>2. e[0] = i - 1 /\ \A k \in 1 .. n : e[k] = RunEnd(s, e[k - 1] + 1, Hexes)
  <2>1. e = [k \in 0 .. n |-> IF k = 0 THEN i - 1 ELSE RunEnd(s, e[k - 1] + 1, Hexes)]
    BY HexRunsDefined
  <2> HIDE DEF e, n
  <2> QED
    BY <1>1, <2>1
<1> HIDE DEF e, n
<1>3. 0 \in P
  BY <1>1, <1>2
<1>4. ASSUME NEW k \in 1 .. n, k - 1 \in P PROVE k \in P
  <2>1. e[k - 1] + 1 \in Nat \ {0}
    BY <1>4
  <2>2. RunEnd(s, e[k - 1] + 1, Hexes) \in Nat
    BY <1>1, <2>1, RunEndIs
  <2> QED
    BY <1>1, <1>2, <2>2
<1>5. \A k \in 0 .. n : k \in P
  <2> HIDE DEF P
  <2> QED
    BY <1>1, <1>3, <1>4, UpTo
<1> QED
  BY <1>2, <1>5 DEF e, n

\* A uuid ends where its pattern's longest match does: the code compares byte by byte at
\* fixed offsets, the pattern takes one run of hex digits after the other.
LEMMA UuidEndIs ==
  ASSUME NEW S, NEW s \in Seq(S), NEW i \in 1 .. Len(s)
  PROVE  UuidEnd(s, i) = LongestOf({j \in i + 1 .. Len(s) + 1 : IsUuid(s, i, j)})
<1> DEFINE n == Len(UuidGroups)
           L == UuidLength
           e == HexRuns(s, i)
           E == GroupEnd
           IsAt(offset) == IF offset \in Dashes THEN At(s, i + offset) = "-"
                                                ELSE At(s, i + offset) \in Hexes
           Fits == /\ At(s, i - 1) \notin Words
                   /\ \A offset \in 0 .. L - 1 : IsAt(offset)
                   /\ At(s, i + L) \notin Words
           ends == {j \in i + 1 .. Len(s) + 1 : IsUuid(s, i, j)}
<1>0. NoByte \notin Hexes /\ "-" \notin Hexes /\ Hexes \subseteq Words /\ Len(s) \in Nat
  BY ClassFacts
<1>1. /\ n \in Nat \ {0} /\ E[0] = -1
      /\ \A k \in 0 .. n : E[k] \in Int
      /\ \A k \in 1 .. n : UuidGroups[k] \in Nat \ {0} /\ E[k] = E[k - 1] + 1 + UuidGroups[k]
      /\ \A a, b \in 0 .. n : a < b => E[a] < E[b]
  BY GroupEndIs
<1>2. e[0] = i - 1 /\ \A k \in 1 .. n : e[k] = RunEnd(s, e[k - 1] + 1, Hexes)
  BY HexRunsIs
<1>3. \A k \in 0 .. n : e[k] \in Nat
  BY HexRunsIs
<1>4. L = E[n]
  BY DEF UuidLength
<1>5. Dashes = {E[k] : k \in 1 .. n - 1}
  BY DEF Dashes
<1>6. \A j : IsUuid(s, i, j) <=>
         /\ At(s, i - 1) \notin Words /\ At(s, j) \notin Words /\ j = e[n]
         /\ \A k \in 1 .. n : e[k] = e[k - 1] + 1 + UuidGroups[k]
         /\ \A k \in 1 .. n - 1 : At(s, e[k]) = "-"
  BY DEF IsUuid
<1>7. UuidEnd(s, i) = IF Fits THEN i + L ELSE 0
  BY DEF UuidEnd
<1> HIDE DEF n, L, e, E
<1>a. ASSUME NEW a \in 0 .. n, NEW b \in 0 .. n, a <= b PROVE E[a] <= E[b]
  <2>1. a = b \/ a < b
    BY <1>1, <1>a
  <2> QED
    BY <1>1, <2>1
<1>b. \A k \in 0 .. n : E[k] >= -1 /\ E[k] <= L
  <2>1. ASSUME NEW k \in 0 .. n PROVE E[0] <= E[k] /\ E[k] <= E[n]
    BY <1>1, <1>a
  <2> QED
    BY <1>1, <1>4, <2>1
<1>c. \A k \in 1 .. n : E[k - 1] + 1 < E[k]
  <2>1. ASSUME NEW k \in 1 .. n PROVE E[k - 1] + 1 < E[k]
    <3>1. E[k - 1] \in Int /\ UuidGroups[k] \in Nat \ {0} /\ E[k] = E[k - 1] + 1 + UuidGroups[k]
      BY <1>1
    <3> QED
      BY <3>1
  <2> QED
    BY <2>1
<1>8. ASSUME NEW j, IsUuid(s, i, j) PROVE j = i + L /\ Fits
  <2> DEFINE P == {k \in 0 .. n : e[k] = i + E[k]}
  <2>1. 0 \in P
    BY <1>1, <1>2
  <2>2. ASSUME NEW k \in 1 .. n, k - 1 \in P PROVE k \in P
    <3>1. e[k] = e[k - 1] + 1 + UuidGroups[k] /\ E[k] = E[k - 1] + 1 + UuidGroups[k]
      BY <1>1, <1>6, <1>8
    <3>2. e[k - 1] = i + E[k - 1] /\ E[k - 1] \in Int /\ UuidGroups[k] \in Int
      BY <1>1, <2>2
    <3>3. i + E[k - 1] + 1 + UuidGroups[k] = i + (E[k - 1] + 1 + UuidGroups[k])
      BY <3>2
    <3>4. e[k] = i + E[k]
      BY <3>1, <3>2, <3>3
    <3> QED
      BY <3>4, <1>1
  <2>3. \A k \in 0 .. n : e[k] = i + E[k]
    <3>1. \A k \in 0 .. n : k \in P
      <4> HIDE DEF P
      <4> QED
        BY <1>1, <2>1, <2>2, UpTo
    <3> QED
      BY <3>1
  <2>4. j = i + L
    BY <1>1, <1>4, <1>6, <1>8, <2>3
  <2>5. ASSUME NEW offset \in 0 .. L - 1 PROVE IsAt(offset)
    <3>1. CASE offset \in Dashes
      <4>1. PICK k \in 1 .. n - 1 : offset = E[k]
        BY <1>5, <3>1
      <4>2. At(s, e[k]) = "-" /\ e[k] = i + E[k]
        BY <1>1, <1>6, <1>8, <2>3
      <4> QED
        BY <3>1, <4>1, <4>2
    <3>2. CASE offset \notin Dashes
      <4> DEFINE B == {k \in 0 .. n : offset <= E[k]}
      <4>1. B \in SUBSET Nat /\ n \in B
        BY <1>1, <1>4
      <4>2. PICK k \in B : \A m \in B : k <= m
        <5> HIDE DEF B
        <5> QED
          BY <4>1, Least
      <4>3. k \in 1 .. n /\ offset <= E[k] /\ E[k - 1] < offset
        <5>1. k # 0
          BY <1>1
        <5>2. k - 1 \in 0 .. n /\ k - 1 \notin B
          BY <1>1, <4>2, <5>1
        <5> QED
          BY <1>1, <5>1, <5>2
      <4>4. offset # E[k]
        <5>1. CASE k = n
          BY <1>1, <1>4, <5>1
        <5>2. CASE k # n
          BY <1>1, <1>5, <3>2, <4>3, <5>2
        <5> QED
          BY <5>1, <5>2
      <4>5. i + offset \in e[k - 1] + 1 .. e[k] - 1
        BY <1>1, <2>3, <4>3, <4>4
      <4>6. e[k - 1] + 1 \in Nat \ {0} /\ e[k] = RunEnd(s, e[k - 1] + 1, Hexes)
        <5>1. k - 1 \in 0 .. n
          BY <1>1, <4>3
        <5>2. e[k - 1] \in Nat
          BY <1>3, <5>1
        <5> QED
          BY <1>2, <4>3, <5>2
      <4>7. At(s, i + offset) \in Hexes
        BY <1>0, <4>5, <4>6, RunEndIs
      <4> QED
        BY <3>2, <4>7
    <3> QED
      BY <3>1, <3>2
  <2> QED
    BY <1>6, <1>8, <2>4, <2>5
<1>9. ASSUME Fits PROVE i + L \in ends
  <2> DEFINE P == {k \in 0 .. n : e[k] = i + E[k]}
  <2>1. 0 \in P
    BY <1>1, <1>2
  <2>2. ASSUME NEW k \in 1 .. n, k - 1 \in P PROVE k \in P
    <3>1. e[k] = RunEnd(s, i + E[k - 1] + 1, Hexes) /\ i + E[k - 1] + 1 \in Nat \ {0}
      BY <1>1, <1>2, <1>3, <2>2, SMTT(30)
    <3>2. /\ E[k - 1] \in Int /\ E[k] \in Int /\ E[k - 1] + 1 < E[k] /\ E[k] <= L
          /\ L \in Int /\ E[k - 1] >= -1
      BY <1>1, <1>4, <1>b, <1>c
    <3>3. All(s, i + E[k - 1] + 1, i + E[k], Hexes)
      <4>1. ASSUME NEW p \in i + E[k - 1] + 1 .. i + E[k] - 1 PROVE At(s, p) \in Hexes
        <5>1. p - i \in 0 .. L - 1 /\ i + (p - i) = p /\ E[k - 1] < p - i /\ p - i < E[k]
          BY <3>2
        <5>2. p - i \notin Dashes
          <6>1. ASSUME NEW m \in 1 .. n - 1, p - i = E[m] PROVE FALSE
            <7>1. m \in 0 .. n /\ k - 1 \in 0 .. n /\ k \in 0 .. n /\ k \in Int /\ m \in Int
              BY <1>1
            <7>2. m <= k - 1 \/ k <= m
              BY <7>1
            <7>3. E[m] <= E[k - 1] \/ E[k] <= E[m]
              BY <1>a, <7>1, <7>2
            <7> QED
              BY <1>1, <5>1, <6>1, <7>1, <7>3
          <6> QED
            BY <1>5, <6>1
        <5> QED
          BY <1>9, <5>1, <5>2
      <4> DEFINE from == i + E[k - 1] + 1
                 to == i + E[k]
      <4>2. \A p \in from .. to - 1 : At(s, p) \in Hexes
        <5> HIDE DEF IsAt
        <5> QED
          BY <3>2, <4>1
      <4> HIDE DEF from, to
      <4>3. All(s, from, to, Hexes)
        BY <4>2 DEF All
      <4> QED
        BY <4>3 DEF from, to
    <3>4. At(s, i + E[k]) \notin Hexes
      <4>1. CASE k = n
        BY <1>0, <1>4, <1>9, <4>1
      <4>2. CASE k # n
        <5>1. E[k] \in Dashes
          BY <1>1, <1>5, <4>2
        <5>2. E[k] \in 0 .. L - 1
          BY <1>1, <1>4, <3>2, <4>2
        <5>3. At(s, i + E[k]) = "-"
          BY <1>9, <5>1, <5>2
        <5> QED
          BY <1>0, <5>3
      <4> QED
        BY <4>1, <4>2
    <3>5. RunEnd(s, i + E[k - 1] + 1, Hexes) = i + E[k]
      <4>1. i + E[k] \in Nat /\ i + E[k] >= i + E[k - 1] + 1
        BY <3>1, <3>2
      <4> QED
        BY <1>0, <3>1, <3>3, <3>4, <4>1, RunEndIsThat
    <3> QED
      BY <3>1, <3>5
  <2>3. \A k \in 0 .. n : e[k] = i + E[k]
    <3>1. \A k \in 0 .. n : k \in P
      <4> HIDE DEF P
      <4> QED
        BY <1>1, <2>1, <2>2, UpTo
    <3> QED
      BY <3>1
  <2>4. \A k \in 1 .. n : e[k] = e[k - 1] + 1 + UuidGroups[k]
    <3>1. ASSUME NEW k \in 1 .. n PROVE e[k] = e[k - 1] + 1 + UuidGroups[k]
      <4>1. E[k] = E[k - 1] + 1 + UuidGroups[k] /\ e[k] = i + E[k] /\ e[k - 1] = i + E[k - 1]
        BY <1>1, <2>3
      <4>2. E[k - 1] \in Int /\ UuidGroups[k] \in Int
        BY <1>1
      <4> QED
        BY <4>1, <4>2
    <3> QED
      BY <3>1
  <2>5. \A k \in 1 .. n - 1 : At(s, e[k]) = "-"
    <3>1. ASSUME NEW k \in 1 .. n - 1 PROVE At(s, e[k]) = "-"
      <4>1. k \in 0 .. n /\ 0 < k /\ k < n /\ 0 \in 0 .. n /\ n \in 0 .. n
        BY <1>1
      <4>2. E[0] < E[k] /\ E[k] < E[n] /\ E[k] \in Int /\ E[n] \in Int
        BY <1>1, <4>1
      <4>3. E[k] \in 0 .. L - 1
        BY <1>1, <1>4, <4>2
      <4>4. E[k] \in Dashes
        BY <1>5
      <4> QED
        BY <1>9, <2>3, <4>1, <4>3, <4>4
    <3> QED
      BY <3>1
  <2>6. i + L = e[n]
    BY <1>1, <1>4, <2>3
  <2>7. IsUuid(s, i, i + L)
    BY <1>6, <1>9, <2>4, <2>5, <2>6
  <2>8. i + L \in i + 1 .. Len(s) + 1
    <3>1. E[n - 1] \in Int /\ E[n] \in Int /\ E[n - 1] + 1 < E[n] /\ E[n - 1] >= -1
      BY <1>1, <1>b, <1>c
    <3>2. L \in Int /\ L >= 1 /\ L - 1 \in 0 .. L - 1
      BY <1>4, <3>1
    <3>3. L - 1 \notin Dashes
      <4>1. ASSUME NEW m \in 1 .. n - 1, L - 1 = E[m] PROVE FALSE
        <5>1. m \in 0 .. n /\ n - 1 \in 0 .. n /\ m <= n - 1
          BY <1>1
        <5>2. E[m] <= E[n - 1] /\ E[m] \in Int
          BY <1>1, <1>a, <5>1
        <5> QED
          BY <1>4, <3>1, <4>1, <5>2
      <4> QED
        BY <1>5, <4>1
    <3>4. At(s, i + (L - 1)) \in Hexes
      BY <1>9, <3>2, <3>3
    <3>5. i + (L - 1) \in 1 .. Len(s)
      BY <1>0, <3>2, <3>4, AtIn
    <3> QED
      BY <3>2, <3>5
  <2> QED
    BY <2>7, <2>8
<1>10. CASE Fits
  <2>1. i + L \in ends /\ ends \in SUBSET Int /\ \A j \in ends : j = i + L
    BY <1>8, <1>9, <1>10
  <2>2. UuidEnd(s, i) = i + L
    BY <1>7, <1>10
  <2> HIDE DEF ends
  <2>3. i + L \in Int /\ \A j \in ends : j <= i + L
    BY <1>1, <1>4, <2>1
  <2> QED
    BY <2>1, <2>2, <2>3, LongestIs DEF ends
<1>11. CASE ~Fits
  <2>1. ends = {}
    BY <1>8, <1>11
  <2>2. UuidEnd(s, i) = 0
    BY <1>7, <1>11
  <2> QED
    BY <2>1, <2>2 DEF LongestOf
<1> QED
  BY <1>10, <1>11

-----------------------------------------------------------------------------
(* The loop that replaces matches *)

\* The loop of Replace, its matches and what they become being tables.
IsRewriting(f, s, end, piece) ==
  f = [i \in 1 .. Len(s) + 1 |->
         IF i > Len(s) THEN <<>>
         ELSE IF end[i] = 0 THEN <<s[i]>> \o f[i + 1]
                            ELSE piece[i] \o f[end[i]]]

Rewriting(s, end, piece) == CHOOSE f : IsRewriting(f, s, end, piece)

\* Where every match goes forward, the loop ends.
LEMMA RewritingDefined ==
  ASSUME NEW S, NEW s \in Seq(S), NEW end, NEW piece,
         \A i \in 1 .. Len(s) : end[i] = 0 \/ end[i] \in i + 1 .. Len(s) + 1
  PROVE  IsRewriting(Rewriting(s, end, piece), s, end, piece)
<1> DEFINE n == Len(s)
           Body(f, i) == IF i > n THEN <<>>
                         ELSE IF end[i] = 0 THEN <<s[i]>> \o f[i + 1]
                                            ELSE piece[i] \o f[end[i]]
           From(f, m) == f = [i \in m .. n + 1 |-> Body(f, i)]
           P == {k \in 0 .. n : \E f : From(f, n + 1 - k)}
<1>1. n \in Nat
  OBVIOUS
<1> HIDE DEF n
<1>2. 0 \in P
  <2> DEFINE f == [i \in n + 1 .. n + 1 |-> <<>>]
  <2>1. \A i \in n + 1 .. n + 1 : i > n
    BY <1>1
  <2>2. From(f, n + 1)
    BY <2>1
  <2>3. n + 1 - 0 = n + 1
    BY <1>1
  <2> HIDE DEF From
  <2> QED
    BY <1>1, <2>2, <2>3
<1>3. ASSUME NEW k \in 1 .. n, k - 1 \in P PROVE k \in P
  <2> DEFINE m == n + 1 - k
  <2>0. m \in 1 .. n /\ n + 1 - (k - 1) = m + 1
    BY <1>1
  <2>1. PICK f : From(f, m + 1)
    BY <1>3, <2>0
  <2> HIDE DEF m
  <2> DEFINE g == [i \in m .. n + 1 |-> IF i = m THEN Body(f, m) ELSE f[i]]
  <2>2. \A i \in m + 1 .. n + 1 : g[i] = f[i] /\ i \in m .. n + 1
    BY <1>1, <2>0
  <2>3. \A i \in m + 1 .. n + 1 : f[i] = Body(f, i)
    <3> HIDE DEF Body
    <3> QED
      BY <2>1
  <2>4. ASSUME NEW i \in m .. n + 1 PROVE Body(f, i) = Body(g, i)
    <3>1. CASE i > n
      BY <3>1
    <3>2. CASE i <= n
      <4>1. i \in 1 .. n /\ i + 1 \in m + 1 .. n + 1
        BY <1>1, <2>0, <3>2
      <4>2. end[i] = 0 \/ end[i] \in m + 1 .. n + 1
        BY <1>1, <2>0, <4>1 DEF n
      <4> HIDE DEF g
      <4> QED
        BY <2>2, <4>1, <4>2
    <3> QED
      BY <1>1, <2>0, <3>1, <3>2
  <2>5. ASSUME NEW i \in m .. n + 1 PROVE g[i] = Body(g, i)
    <3>1. g[i] = IF i = m THEN Body(f, m) ELSE f[i]
      OBVIOUS
    <3>2. i = m \/ i \in m + 1 .. n + 1
      BY <1>1, <2>0
    <3> HIDE DEF g, Body
    <3> QED
      BY <2>3, <2>4, <3>1, <3>2
  <2>6. From(g, m)
    <3>1. g = [i \in m .. n + 1 |-> g[i]]
      OBVIOUS
    <3> HIDE DEF g, Body
    <3> QED
      BY <2>5, <3>1
  <2> HIDE DEF From, g
  <2> QED
    BY <1>1, <2>6 DEF m
<1>4. \E f : From(f, 1)
  <2>1. \A k \in 0 .. n : k \in P
    <3> HIDE DEF P
    <3> QED
      BY <1>1, <1>2, <1>3, UpTo
  <2>2. n \in 0 .. n /\ n + 1 - n = 1
    BY <1>1
  <2> HIDE DEF From
  <2> QED
    BY <2>1, <2>2
<1>5. \E f : IsRewriting(f, s, end, piece)
  BY <1>4 DEF IsRewriting, n
<1> QED
  BY <1>5 DEF Rewriting

\* What the loop makes of a text from each place on.
LEMMA RewritingStep ==
  ASSUME NEW S, NEW s \in Seq(S), NEW end, NEW piece,
         \A i \in 1 .. Len(s) : end[i] = 0 \/ end[i] \in i + 1 .. Len(s) + 1
  PROVE  LET f == Rewriting(s, end, piece)
         IN  /\ f[Len(s) + 1] = <<>>
             /\ \A i \in 1 .. Len(s) :
                  f[i] = IF end[i] = 0 THEN <<s[i]>> \o f[i + 1] ELSE piece[i] \o f[end[i]]
<1> DEFINE f == Rewriting(s, end, piece)
<1>1. IsRewriting(f, s, end, piece)
  BY RewritingDefined
<1> HIDE DEF f
<1>2. \A i \in 1 .. Len(s) + 1 :
        f[i] = IF i > Len(s) THEN <<>>
               ELSE IF end[i] = 0 THEN <<s[i]>> \o f[i + 1] ELSE piece[i] \o f[end[i]]
  BY <1>1 DEF IsRewriting
<1>3. Len(s) + 1 \in 1 .. Len(s) + 1 /\ Len(s) + 1 > Len(s) /\ Len(s) \in Nat
  OBVIOUS
<1>4. f[Len(s) + 1] = <<>>
  BY <1>2, <1>3
<1>5. ASSUME NEW i \in 1 .. Len(s)
      PROVE  f[i] = IF end[i] = 0 THEN <<s[i]>> \o f[i + 1] ELSE piece[i] \o f[end[i]]
  BY <1>2, <1>3
<1> QED
  BY <1>4, <1>5 DEF f

\* What comes out is a text of the bytes of the text and of the replacements.
LEMMA RewritingType ==
  ASSUME NEW S, NEW s \in Seq(S), NEW end, NEW piece,
         \A i \in 1 .. Len(s) : end[i] = 0 \/ end[i] \in i + 1 .. Len(s) + 1,
         \A i \in 1 .. Len(s) : end[i] # 0 => piece[i] \in Seq(S)
  PROVE  \A i \in 1 .. Len(s) + 1 : Rewriting(s, end, piece)[i] \in Seq(S)
<1> DEFINE f == Rewriting(s, end, piece)
           n == Len(s)
           P == {i \in 1 .. n + 1 : f[i] \in Seq(S)}
<1>1. f[n + 1] = <<>> /\ n \in Nat
  BY RewritingStep
<1>2. \A i \in 1 .. n : f[i] = IF end[i] = 0 THEN <<s[i]>> \o f[i + 1] ELSE piece[i] \o f[end[i]]
  BY RewritingStep
<1> HIDE DEF f
<1>3. ASSUME NEW i \in 1 .. n + 1, \A j \in i + 1 .. n + 1 : j \in P PROVE i \in P
  <2>1. CASE i = n + 1
    BY <1>1, <2>1, EmptySeq
  <2>2. CASE i # n + 1
    <3>1. i \in 1 .. n /\ f[i + 1] \in Seq(S) /\ <<s[i]>> \in Seq(S)
      BY <1>1, <1>3, <2>2
    <3>2. CASE end[i] = 0
      <4>1. <<s[i]>> \o f[i + 1] \in Seq(S)
        BY <3>1, ConcatProperties
      <4> QED
        BY <1>2, <3>1, <3>2, <4>1
    <3>3. CASE end[i] # 0
      <4>1. piece[i] \in Seq(S) /\ f[end[i]] \in Seq(S)
        BY <1>1, <1>3, <3>1, <3>3
      <4>2. piece[i] \o f[end[i]] \in Seq(S)
        BY <4>1, ConcatProperties
      <4>3. f[i] = piece[i] \o f[end[i]]
        BY <1>2, <3>1, <3>3
      <4> QED
        BY <4>2, <4>3
    <3> QED
      BY <3>2, <3>3
  <2> QED
    BY <2>1, <2>2
<1>4. \A i \in 1 .. n + 1 : i \in P
  <2>1. n + 1 \in Nat
    BY <1>1
  <2> HIDE DEF P, n
  <2> QED
    BY <1>3, <2>1, DownFrom
<1> QED
  BY <1>4 DEF f

\* What no match begins in is copied as it stands.
LEMMA CopiedThrough ==
  ASSUME NEW S, NEW s \in Seq(S), NEW end, NEW piece,
         \A i \in 1 .. Len(s) : end[i] = 0 \/ end[i] \in i + 1 .. Len(s) + 1,
         \A i \in 1 .. Len(s) : end[i] # 0 => piece[i] \in Seq(S),
         NEW i \in 1 .. Len(s), NEW r \in i .. Len(s) + 1, \A k \in i .. r - 1 : end[k] = 0
  PROVE  Rewriting(s, end, piece)[i] = Between(s, i, r) \o Rewriting(s, end, piece)[r]
<1> DEFINE n == Len(s)
           f == Rewriting(s, end, piece)
           P == {m \in Nat : f[r - m] = Between(s, r - m, r) \o f[r]}
<1>1. /\ n \in Nat
      /\ \A k \in 1 .. n : f[k] = IF end[k] = 0 THEN <<s[k]>> \o f[k + 1] ELSE piece[k] \o f[end[k]]
  BY RewritingStep
<1>2. \A k \in 1 .. n + 1 : f[k] \in Seq(S)
  BY RewritingType
<1> HIDE DEF f
<1>3. 0 \in P
  <2>1. Between(s, r, r) = <<>>
    BY SubSeqEmpty DEF Between
  <2>2. <<>> \o f[r] = f[r]
    BY <1>2, ConcatEmptySeq
  <2>3. r - 0 = r /\ 0 \in Nat
    OBVIOUS
  <2> QED
    BY <2>1, <2>2, <2>3
<1>4. ASSUME NEW m \in 1 .. r - i, m - 1 \in P PROVE m \in P
  <2> DEFINE k == r - m
  <2>1. k \in i .. r - 1 /\ k \in 1 .. n /\ r - (m - 1) = k + 1 /\ k + 1 \in 1 .. n + 1 /\ m \in Nat
    BY <1>1
  <2>2. f[k + 1] = Between(s, k + 1, r) \o f[r]
    BY <1>4, <2>1
  <2>3. f[k] = <<s[k]>> \o f[k + 1]
    BY <1>1, <2>1
  <2>4. Between(s, k, r) = <<s[k]>> \o Between(s, k + 1, r)
    <3>1. r - 1 \in k .. Len(s) /\ k \in 1 .. Len(s)
      BY <2>1
    <3> HIDE DEF k
    <3>2. SubSeq(s, k, r - 1) = <<s[k]>> \o SubSeq(s, k + 1, r - 1)
      BY <3>1, SubSeqRecursiveFirst
    <3> QED
      BY <3>2 DEF Between
  <2>5. <<s[k]>> \in Seq(S) /\ Between(s, k + 1, r) \in Seq(S) /\ f[r] \in Seq(S)
    <3>1. s[k] \in S /\ k + 1 \in 1 .. Len(s) + 1 /\ r \in k + 1 .. Len(s) + 1
      BY <2>1
    <3>2. Between(s, k + 1, r) \in Seq(S)
      BY <3>1, BetweenIs
    <3> QED
      BY <1>2, <3>1, <3>2
  <2> HIDE DEF k
  <2>6. (<<s[k]>> \o Between(s, k + 1, r)) \o f[r] = <<s[k]>> \o (Between(s, k + 1, r) \o f[r])
    <3> DEFINE a == <<s[k]>>
               b == Between(s, k + 1, r)
               c == f[r]
    <3>1. a \in Seq(S) /\ b \in Seq(S) /\ c \in Seq(S)
      BY <2>5
    <3> HIDE DEF a, b, c
    <3>2. (a \o b) \o c = a \o (b \o c)
      BY <3>1, ConcatAssociative, SMTT(30)
    <3> QED
      BY <3>2 DEF a, b, c
  <2>7. f[k] = Between(s, k, r) \o f[r]
    BY <2>2, <2>3, <2>4, <2>6, Zenon
  <2> QED
    BY <2>1, <2>7 DEF k
<1>5. r - i \in 0 .. r - i /\ r - i \in Nat /\ r - (r - i) = i
  OBVIOUS
<1>6. r - i \in P
  <2>1. \A m \in 0 .. r - i : m \in P
    <3> HIDE DEF P
    <3> QED
      BY <1>3, <1>4, <1>5, UpTo
  <2> QED
    BY <1>5, <2>1
<1> QED
  BY <1>5, <1>6 DEF f

-----------------------------------------------------------------------------
(* Emails, whose scan passes over what it has read *)

\* An email ends where its pattern's longest match does (email_at()): the last dot with
\* enough letters behind it is the one the greedy pattern backs up to.
LEMMA EmailAtIs ==
  ASSUME NEW S, NEW s \in Seq(S), NEW i \in 1 .. Len(s)
  PROVE  EmailAt(s, i) = LongestOf({j \in i + 1 .. Len(s) + 1 : IsEmail(s, i, j)})
<1> DEFINE ends == {j \in i + 1 .. Len(s) + 1 : IsEmail(s, i, j)}
           at == RunEnd(s, i, LocalPart)
           top == RunEnd(s, at + 1, Domain)
           tld(d) == RunEnd(s, d + 1, Letters)
           dots == {d \in at + 2 .. top - 1 : s[d] = "." /\ tld(d) - (d + 1) >= MinTld}
           last == Max(dots)
           Starts == at # i /\ At(s, at) = "@"
<1>0. /\ Len(s) \in Nat /\ MinTld \in Nat
      /\ NoByte \notin LocalPart /\ NoByte \notin Domain /\ NoByte \notin Letters
      /\ "@" \notin LocalPart /\ "." \in Domain /\ "." \notin Letters
  BY StrictAssumption, LocalParts, NotBytes
<1>a. EmailAt(s, i) = IF ~Starts \/ dots = {} THEN 0 ELSE tld(last)
  BY DEF EmailAt
<1>1. /\ at \in Nat /\ at >= i /\ (at > i => at <= Len(s) + 1)
      /\ \A k \in i .. at - 1 : At(s, k) \in LocalPart
  BY <1>0, RunEndIs
<1> HIDE DEF at
<1>2. /\ top \in Nat /\ top >= at + 1 /\ (top > at + 1 => top <= Len(s) + 1)
      /\ \A k \in at + 1 .. top - 1 : k \in 1 .. Len(s) /\ At(s, k) \in Domain
  <2>1. at + 1 \in Nat \ {0}
    BY <1>1
  <2> QED
    BY <1>0, <2>1, RunEndIs
<1> HIDE DEF top
<1>3. ASSUME NEW d \in Nat
      PROVE  /\ tld(d) \in Nat /\ tld(d) >= d + 1 /\ At(s, tld(d)) \notin Letters
             /\ (tld(d) > d + 1 => tld(d) <= Len(s) + 1)
             /\ \A k \in d + 1 .. tld(d) - 1 : At(s, k) \in Letters
  <2>1. d + 1 \in Nat \ {0}
    OBVIOUS
  <2> QED
    BY <1>0, <2>1, RunEndIs
<1>4. \A d \in dots : d \in Nat /\ d \in 1 .. Len(s) /\ At(s, d) = "." /\ at + 2 <= d /\ d <= top - 1
  BY <1>1, <1>2 DEF At
<1>5. ASSUME NEW j \in ends
      PROVE  Starts /\ \E d \in dots : j <= tld(d)
  <2>1. PICK a \in i + 1 .. j - 1, d \in i + 1 .. j - 1 :
            /\ a + 1 < d /\ d + MinTld < j
            /\ All(s, i, a, LocalPart) /\ At(s, a) = "@"
            /\ All(s, a + 1, d, Domain) /\ At(s, d) = "." /\ All(s, d + 1, j, Letters)
    BY DEF IsEmail
  <2>2. j \in Nat /\ a \in Nat /\ d \in Nat
    OBVIOUS
  <2>3. a = at
    BY <1>0, <2>1, <2>2, RunEndIsThat DEF at
  <2>4. All(s, at + 1, d + 1, Domain)
    BY <1>0, <2>1, <2>2, <2>3 DEF All
  <2>5. d + 1 <= top
    BY <1>0, <1>1, <2>2, <2>4, RunBounds DEF top
  <2>6. j <= tld(d)
    BY <1>0, <2>1, <2>2, RunBounds
  <2>7. s[d] = "."
    BY <1>0, <1>2, <2>1, <2>2, <2>3, <2>5 DEF At
  <2>8. d \in at + 2 .. top - 1 /\ tld(d) - (d + 1) >= MinTld
    <3> HIDE DEF tld
    <3>1. tld(d) \in Nat
      BY <1>3, <2>2
    <3> QED
      BY <1>0, <1>1, <1>2, <2>1, <2>2, <2>3, <2>5, <2>6, <3>1
  <2> QED
    BY <2>1, <2>2, <2>3, <2>6, <2>7, <2>8
<1>6. ASSUME Starts, dots # {}
      PROVE  last \in dots /\ \A d \in dots : d <= last /\ tld(d) <= tld(last)
  <2> HIDE DEF dots, tld
  <2>1. last \in dots /\ \A d \in dots : d <= last
    <3>1. dots \in SUBSET Int /\ top \in Int /\ \A d \in dots : d <= top
      BY <1>2, <1>4
    <3> QED
      BY <1>6, <3>1, MaxOf
  <2>2. ASSUME NEW d \in dots PROVE tld(d) <= tld(last)
    <3>1. last \in Nat /\ d \in Nat /\ d <= last /\ At(s, last) = "."
      BY <1>4, <2>1
    <3>2. /\ tld(d) \in Nat /\ tld(last) \in Nat /\ tld(last) >= last + 1
          /\ \A k \in d + 1 .. tld(d) - 1 : At(s, k) \in Letters
      BY <1>3, <3>1
    <3> HIDE DEF last
    <3>3. d = last \/ tld(d) <= last
      BY <1>0, <3>1, <3>2
    <3> QED
      BY <3>1, <3>2, <3>3
  <2> QED
    BY <2>1, <2>2
<1>7. ASSUME Starts, dots # {} PROVE tld(last) \in ends
  <2> DEFINE j == tld(last)
  <2>1. /\ last \in Nat /\ last \in 1 .. Len(s) /\ At(s, last) = "." /\ at + 2 <= last
        /\ last <= top - 1 /\ j - (last + 1) >= MinTld
    BY <1>4, <1>6, <1>7
  <2>2. /\ j \in Nat /\ j >= last + 1 /\ (j > last + 1 => j <= Len(s) + 1)
        /\ \A k \in last + 1 .. j - 1 : At(s, k) \in Letters
    BY <1>3, <2>1
  <2> HIDE DEF j, last
  <2>3. j \in i + 1 .. Len(s) + 1 /\ at \in i + 1 .. j - 1 /\ last \in i + 1 .. j - 1
    BY <1>0, <1>1, <1>7, <2>1, <2>2
  <2>4. at + 1 < last /\ last + MinTld < j
    BY <1>0, <1>1, <2>1, <2>2
  <2>5. All(s, i, at, LocalPart) /\ All(s, at + 1, last, Domain) /\ All(s, last + 1, j, Letters)
    <3>1. All(s, i, at, LocalPart)
      BY <1>1 DEF All
    <3>2. All(s, at + 1, last, Domain)
      BY <1>1, <1>2, <2>1 DEF All
    <3>3. All(s, last + 1, j, Letters)
      BY <2>2 DEF All
    <3> QED
      BY <3>1, <3>2, <3>3
  <2>6. IsEmail(s, i, j)
    BY <1>7, <2>1, <2>3, <2>4, <2>5 DEF IsEmail
  <2> QED
    BY <2>3, <2>6 DEF j
<1> DEFINE e == EmailAt(s, i)
<1>8. e \in Int /\ (\A j \in ends : j <= e) /\ (e \in ends \/ (e = 0 /\ ends = {}))
  <2>1. CASE Starts /\ dots # {}
    <3>1. e = tld(last)
      BY <1>a, <2>1
    <3>2. e \in ends
      BY <1>7, <2>1, <3>1
    <3>3. ASSUME NEW j \in ends PROVE j <= e
      <4>1. PICK d \in dots : j <= tld(d)
        BY <1>5
      <4>2. tld(d) <= tld(last) /\ d \in Nat /\ last \in Nat
        BY <1>4, <1>6, <2>1
      <4>3. tld(d) \in Int /\ tld(last) \in Int /\ j \in Int
        BY <1>3, <4>2
      <4> HIDE DEF tld, dots, last
      <4> QED
        BY <3>1, <4>1, <4>2, <4>3
    <3> QED
      BY <3>2, <3>3
  <2>2. CASE ~(Starts /\ dots # {})
    <3>1. e = 0
      BY <1>a, <2>2
    <3>2. ends = {}
      BY <1>5, <2>2
    <3> QED
      BY <3>1, <3>2
  <2> QED
    BY <2>1, <2>2
<1>9. ends \in SUBSET Int
  OBVIOUS
<1> HIDE DEF ends, e
<1>10. LongestOf(ends) = e
  BY <1>8, <1>9, LongestIs
<1> QED
  BY <1>10 DEF ends, e

\* Where a match ends that was found as the longest: further on, in the text.
LEMMA LongestEnds ==
  ASSUME NEW n \in Nat, NEW i \in 1 .. n, NEW ends \in SUBSET (i + 1 .. n + 1)
  PROVE  LongestOf(ends) = 0 \/ LongestOf(ends) \in i + 1 .. n + 1
<1>1. CASE ends = {}
  BY <1>1 DEF LongestOf
<1>2. CASE ends # {}
  <2>1. ends \in SUBSET Int /\ n + 1 \in Int /\ \A k \in ends : k <= n + 1
    OBVIOUS
  <2>2. Max(ends) \in ends
    BY <1>2, <2>1, MaxOf
  <2> QED
    BY <1>2, <2>2 DEF LongestOf
<1> QED
  BY <1>1, <1>2

\* Where the run of local-part bytes that begins at i is no email, no email
\* begins inside it either: the "@" looked at and all behind it are the same.
LEMMA NoEmailInside ==
  ASSUME NEW S, NEW s \in Seq(S), NEW i \in 1 .. Len(s), EmailAt(s, i) = 0,
         RunEnd(s, i, LocalPart) > i, NEW k \in i .. RunEnd(s, i, LocalPart) - 1
  PROVE  k \in 1 .. Len(s) /\ EmailAt(s, k) = 0 /\ RunEnd(s, k, LocalPart) = RunEnd(s, i, LocalPart)
<1> DEFINE r == RunEnd(s, i, LocalPart)
           top == RunEnd(s, r + 1, Domain)
           dots == {d \in r + 2 .. top - 1 : s[d] = "." /\ RunEnd(s, d + 1, Letters) - (d + 1) >= MinTld}
<1>0. NoByte \notin LocalPart /\ NoByte \notin Letters /\ "." \notin Letters
  BY LocalParts, NotBytes
<1>1. /\ r \in Nat /\ r >= i /\ At(s, r) \notin LocalPart
      /\ \A m \in i .. r - 1 : m \in 1 .. Len(s) /\ At(s, m) \in LocalPart
  BY <1>0, RunEndIs
<1>2. RunEnd(s, k, LocalPart) = r /\ k \in 1 .. Len(s) /\ k # r
  <2>1. k \in Nat \ {0} /\ r >= k /\ k # r
    BY <1>1
  <2>2. All(s, k, r, LocalPart)
    BY <1>1, <2>1 DEF All
  <2> HIDE DEF r
  <2> QED
    BY <1>0, <1>1, <2>1, <2>2, RunEndIsThat
<1>3. At(s, r) # "@" \/ dots = {}
  <2>1. ASSUME At(s, r) = "@", dots # {} PROVE FALSE
    <3>1. EmailAt(s, i) = RunEnd(s, Max(dots) + 1, Letters)
      BY <1>1, <2>1 DEF EmailAt
    <3>2. Max(dots) \in Nat
      <4>1. r + 1 \in Nat \ {0}
        BY <1>1
      <4>2. top \in Nat
        BY <4>1, LocalParts, RunEndIs
      <4> HIDE DEF top, r
      <4>3. dots \in SUBSET Int /\ top \in Int /\ \A d \in dots : d <= top
        BY <1>1, <4>2
      <4>4. Max(dots) \in dots
        <5> HIDE DEF dots
        <5> QED
          BY <2>1, <4>3, MaxOf
      <4> QED
        BY <1>1, <4>2, <4>4
    <3> HIDE DEF dots
    <3>3. Max(dots) + 1 \in Nat \ {0}
      BY <3>2
    <3>4. RunEnd(s, Max(dots) + 1, Letters) >= Max(dots) + 1 /\ RunEnd(s, Max(dots) + 1, Letters) \in Nat
      BY <1>0, <3>3, RunEndIs
    <3> QED
      BY <3>1, <3>2, <3>4
  <2> QED
    BY <2>1
<1>4. EmailAt(s, k) = 0
  <2>1. EmailAt(s, k) = IF r = k \/ At(s, r) # "@" \/ dots = {} THEN 0 ELSE RunEnd(s, Max(dots) + 1, Letters)
    BY <1>2 DEF EmailAt
  <2> HIDE DEF r, dots
  <2> QED
    BY <1>3, <2>1
<1> QED
  BY <1>2, <1>4

-----------------------------------------------------------------------------
(* The five passes over a message agree with the server's *)

\* What the patterns make of a text.
MatchedEmails(s) == ReplaceLongest(s, LAMBDA i, j : IsEmail(s, i, j), LAMBDA i, e : <<"<email>">>)
MatchedQuotes(s, quote, atWordBoundary) ==
  ReplaceLongest(s, LAMBDA i, j : IsQuoted(s, i, j, quote, atWordBoundary), LAMBDA i, e : <<"<str>">>)
MatchedHexIds(s) == ReplaceLongest(s, LAMBDA i, j : IsHexId(s, i, j), LAMBDA i, e : <<"0", "x">>)
MatchedUuids(s) == ReplaceLongest(s, LAMBDA i, j : IsUuid(s, i, j), LAMBDA i, e : <<"<uuid>">>)
MatchedNumbers(s) == ReplaceLongest(s, LAMBDA i, j : IsWholeNumber(s, i, j), LAMBDA i, e : <<"<n>">>)

\* The code passes over a whole run of local-part bytes where no email begins; the
\* pattern's engine tries every place in it.  They replace the same emails.
LEMMA EmailsAgree ==
  ASSUME NEW S, NEW s \in Seq(S)
  PROVE  ReplaceEmails(s) = MatchedEmails(s)
<1> DEFINE n == Len(s)
           Skip(i) == IF s[i] \in LocalPart
                        THEN IF EmailAt(s, i) > 0 THEN EmailAt(s, i) ELSE RunEnd(s, i, LocalPart)
                        ELSE 0
           T == S \cup {"<email>"}
           e1 == [i \in 1 .. n |-> Skip(i)]
           p1 == [i \in 1 .. n |-> IF EmailAt(s, i) > 0 THEN <<"<email>">> ELSE Between(s, i, e1[i])]
           e2 == [i \in 1 .. n |-> LongestOf({j \in i + 1 .. n + 1 : IsEmail(s, i, j)})]
           p2 == [i \in 1 .. n |-> <<"<email>">>]
           f1 == Rewriting(s, e1, p1)
           f2 == Rewriting(s, e2, p2)
<1>0. n \in Nat /\ NoByte \notin LocalPart /\ s \in Seq(T)
  BY LocalParts
<1>1. \A i \in 1 .. n : e2[i] = EmailAt(s, i) /\ (e2[i] = 0 \/ e2[i] \in i + 1 .. n + 1)
  <2>1. ASSUME NEW i \in 1 .. n PROVE e2[i] = EmailAt(s, i) /\ (e2[i] = 0 \/ e2[i] \in i + 1 .. n + 1)
    <3>1. e2[i] = EmailAt(s, i)
      BY EmailAtIs
    <3> DEFINE ends == {j \in i + 1 .. n + 1 : IsEmail(s, i, j)}
    <3>2. ends \in SUBSET (i + 1 .. n + 1) /\ e2[i] = LongestOf(ends)
      OBVIOUS
    <3> HIDE DEF ends, n, e2
    <3> QED
      BY <1>0, <3>1, <3>2, LongestEnds
  <2> QED
    BY <2>1
<1>2. ASSUME NEW i \in 1 .. n
      PROVE  /\ s[i] \in LocalPart => /\ RunEnd(s, i, LocalPart) \in i + 1 .. n + 1
                                      /\ \A k \in i .. RunEnd(s, i, LocalPart) - 1 : s[k] \in LocalPart
             /\ s[i] \notin LocalPart => RunEnd(s, i, LocalPart) = i
  <2> DEFINE r == RunEnd(s, i, LocalPart)
  <2>1. /\ r \in Nat /\ r >= i /\ At(s, r) \notin LocalPart
        /\ \A k \in i .. r - 1 : s[k] \in LocalPart
        /\ r > i => r <= n + 1
    BY <1>0, RunEndIs
  <2>2. At(s, i) = s[i]
    BY AtIs
  <2> HIDE DEF r
  <2>3. s[i] \in LocalPart => r # i
    BY <2>1, <2>2
  <2>4. s[i] \notin LocalPart => r = i
    BY <2>1
  <2> QED
    BY <1>0, <2>1, <2>3, <2>4 DEF r
<1>3. \A i \in 1 .. n : e1[i] = 0 \/ e1[i] \in i + 1 .. n + 1
  <2>1. ASSUME NEW i \in 1 .. n PROVE e1[i] = 0 \/ e1[i] \in i + 1 .. n + 1
    <3>1. e1[i] = Skip(i)
      OBVIOUS
    <3>2. e2[i] = EmailAt(s, i) /\ (e2[i] = 0 \/ e2[i] \in i + 1 .. n + 1)
      BY <1>1
    <3> HIDE DEF e1, e2
    <3> QED
      BY <1>0, <1>2, <3>1, <3>2
  <2> QED
    BY <2>1
<1>4. \A i \in 1 .. n : p2[i] \in Seq(T)
  OBVIOUS
<1>5. /\ f1[n + 1] = <<>>
      /\ \A i \in 1 .. n : f1[i] = IF e1[i] = 0 THEN <<s[i]>> \o f1[i + 1] ELSE p1[i] \o f1[e1[i]]
  <2> HIDE DEF e1, p1
  <2> QED
    BY <1>3, RewritingStep
<1>6. /\ f2[n + 1] = <<>>
      /\ \A i \in 1 .. n : f2[i] = IF e2[i] = 0 THEN <<s[i]>> \o f2[i + 1] ELSE p2[i] \o f2[e2[i]]
  <2>1. \A i \in 1 .. n : e2[i] = 0 \/ e2[i] \in i + 1 .. n + 1
    BY <1>1
  <2> HIDE DEF e2, p2
  <2> QED
    BY <2>1, RewritingStep
<1>7. \A i \in 1 .. n + 1 : f2[i] \in Seq(T)
  <2>1. \A i \in 1 .. n : e2[i] = 0 \/ e2[i] \in i + 1 .. n + 1
    BY <1>1
  <2>2. \A i \in 1 .. n : e2[i] # 0 => p2[i] \in Seq(T)
    BY <1>4
  <2> HIDE DEF e2, p2, T
  <2> QED
    BY <1>0, <2>1, <2>2, RewritingType
\* A run that is no email is copied, at once or byte by byte.
<1>8. ASSUME NEW i \in 1 .. n, s[i] \in LocalPart, EmailAt(s, i) = 0
      PROVE  f2[i] = Between(s, i, RunEnd(s, i, LocalPart)) \o f2[RunEnd(s, i, LocalPart)]
  <2> DEFINE r == RunEnd(s, i, LocalPart)
  <2>1. r \in i + 1 .. n + 1
    BY <1>2, <1>8
  <2>2. \A k \in i .. r - 1 : k \in 1 .. n /\ e2[k] = 0
    <3>1. ASSUME NEW k \in i .. r - 1 PROVE k \in 1 .. n /\ e2[k] = 0
      <4>1. k \in 1 .. n /\ EmailAt(s, k) = 0
        BY <1>8, <2>1, NoEmailInside
      <4> QED
        BY <1>1, <4>1
    <3> QED
      BY <3>1
  <2>3. /\ s \in Seq(T) /\ i \in 1 .. Len(s) /\ r \in i .. Len(s) + 1
        /\ \A k \in 1 .. Len(s) : e2[k] = 0 \/ e2[k] \in k + 1 .. Len(s) + 1
    BY <1>0, <1>1, <2>1
  <2>4. \A k \in 1 .. Len(s) : e2[k] # 0 => p2[k] \in Seq(T)
    BY <1>4
  <2> HIDE DEF r, e2, p2, T, n
  <2>5. Rewriting(s, e2, p2)[i] = Between(s, i, r) \o Rewriting(s, e2, p2)[r]
    <3> HIDE DEF f2
    <3> QED
      BY <2>2, <2>3, <2>4, CopiedThrough, SMTT(30)
  <2> QED
    BY <2>5 DEF r
<1>9. \A i \in 1 .. n + 1 : f1[i] = f2[i]
  <2> DEFINE P == {i \in 1 .. n + 1 : f1[i] = f2[i]}
  <2>1. ASSUME NEW i \in 1 .. n + 1, \A j \in i + 1 .. n + 1 : j \in P PROVE i \in P
    <3>1. CASE i = n + 1
      BY <1>5, <1>6, <3>1
    <3>2. CASE i \in 1 .. n /\ s[i] \notin LocalPart
      <4>1. EmailAt(s, i) = 0
        BY <1>2, <3>2 DEF EmailAt
      <4>2. e1[i] = 0 /\ e2[i] = 0
        BY <1>1, <3>2, <4>1
      <4> HIDE DEF e1, e2, f1, f2
      <4>3. f1[i] = <<s[i]>> \o f1[i + 1] /\ f2[i] = <<s[i]>> \o f2[i + 1]
        BY <1>5, <1>6, <3>2, <4>2
      <4>4. f1[i + 1] = f2[i + 1]
        BY <1>0, <2>1, <3>2
      <4> QED
        BY <4>3, <4>4
    <3>3. CASE i \in 1 .. n /\ s[i] \in LocalPart /\ EmailAt(s, i) # 0
      <4>1. EmailAt(s, i) \in i + 1 .. n + 1 /\ e2[i] = EmailAt(s, i) /\ EmailAt(s, i) > 0
        <5>1. e2[i] = EmailAt(s, i) /\ (e2[i] = 0 \/ e2[i] \in i + 1 .. n + 1)
          BY <1>1, <3>3
        <5> HIDE DEF e2, n
        <5> QED
          BY <1>0, <3>3, <5>1
      <4>2. e1[i] = EmailAt(s, i) /\ p1[i] = <<"<email>">> /\ p2[i] = <<"<email>">>
        BY <3>3, <4>1
      <4> HIDE DEF e1, e2, f1, f2, p1, p2
      <4>3. f1[i] = <<"<email>">> \o f1[e2[i]] /\ f2[i] = <<"<email>">> \o f2[e2[i]]
        BY <1>5, <1>6, <3>3, <4>1, <4>2
      <4>4. f1[e2[i]] = f2[e2[i]]
        BY <2>1, <4>1
      <4> QED
        BY <4>3, <4>4
    <3>4. CASE i \in 1 .. n /\ s[i] \in LocalPart /\ EmailAt(s, i) = 0
      <4> DEFINE r == RunEnd(s, i, LocalPart)
      <4>1. r \in i + 1 .. n + 1 /\ r # 0
        BY <1>2, <3>4
      <4>2. e1[i] = r /\ p1[i] = Between(s, i, r)
        BY <3>4
      <4> HIDE DEF e1, e2, f1, f2, p1, p2, r
      <4>3. f1[i] = Between(s, i, r) \o f1[r]
        BY <1>5, <3>4, <4>1, <4>2
      <4>4. f2[i] = Between(s, i, r) \o f2[r]
        BY <1>8, <3>4 DEF r
      <4>5. f1[r] = f2[r]
        BY <2>1, <4>1
      <4> QED
        BY <4>3, <4>4, <4>5
    <3> QED
      BY <1>0, <3>1, <3>2, <3>3, <3>4
  <2>2. \A i \in 1 .. n + 1 : i \in P
    <3>1. n + 1 \in Nat
      BY <1>0
    <3> HIDE DEF P, n
    <3> QED
      BY <2>1, <3>1, DownFrom
  <2> QED
    BY <2>2
\* Both scanners are such a loop.
<1> DEFINE By(i, e) == IF EmailAt(s, i) > 0 THEN <<"<email>">> ELSE Between(s, i, e)
           Skipped(i) == LET end(j) == IF EmailAt(s, j) > 0 THEN EmailAt(s, j) ELSE RunEnd(s, j, LocalPart)
                         IN  IF s[i] \in LocalPart THEN end(i) ELSE 0
           OneScan(f, i) == IF i > Len(s) THEN <<>>
                            ELSE LET end == Skipped(i)
                                 IN  IF end = 0 THEN <<s[i]>> \o f[i + 1] ELSE By(i, end) \o f[end]
           Scan(f) == [i \in 1 .. Len(s) + 1 |-> OneScan(f, i)]
           L == [i \in 1 .. Len(s) |->
                   LET ends == {j \in i + 1 .. Len(s) + 1 : IsEmail(s, i, j)}
                   IN  IF ends = {} THEN 0 ELSE Max(ends)]
           OneMatch(f, i) == IF i > Len(s) THEN <<>>
                             ELSE LET end == L[i]
                                  IN  IF end = 0 THEN <<s[i]>> \o f[i + 1] ELSE <<"<email>">> \o f[end]
           Match(f) == [i \in 1 .. Len(s) + 1 |-> OneMatch(f, i)]
           Rewritten(f, e, p, i) == IF i > Len(s) THEN <<>>
                                    ELSE IF e[i] = 0 THEN <<s[i]>> \o f[i + 1] ELSE p[i] \o f[e[i]]
<1>10. ReplaceEmails(s) = (CHOOSE f : f = Scan(f))[1]
  BY DEF ReplaceEmails, Replace
<1>11. MatchedEmails(s) = (CHOOSE f : f = Match(f))[1]
  BY DEF MatchedEmails, ReplaceLongest, Replace, Longest
<1>12. (CHOOSE f : f = Scan(f)) = f1
  <2>1. ASSUME NEW f PROVE f = Scan(f) <=> IsRewriting(f, s, e1, p1)
    <3>1. \A i \in 1 .. Len(s) : Skipped(i) = e1[i]
      OBVIOUS
    <3>2. \A i \in 1 .. Len(s) : By(i, e1[i]) = p1[i]
      OBVIOUS
    <3>3. ASSUME NEW i \in 1 .. Len(s) + 1 PROVE OneScan(f, i) = Rewritten(f, e1, p1, i)
      <4>1. CASE i > Len(s)
        BY <4>1
      <4>2. CASE ~(i > Len(s))
        <5>1. i \in 1 .. Len(s)
          BY <1>0, <4>2
        <5> HIDE DEF Skipped, By, e1, p1
        <5> QED
          BY <3>1, <3>2, <5>1
      <4> QED
        BY <4>1, <4>2
    <3> HIDE DEF OneScan, Rewritten, e1, p1
    <3> QED
      BY <3>3 DEF IsRewriting, Rewritten
  <2> HIDE DEF Scan, e1, p1
  <2> QED
    BY <2>1, Zenon DEF Rewriting
<1>13. (CHOOSE f : f = Match(f)) = f2
  <2>1. ASSUME NEW f PROVE f = Match(f) <=> IsRewriting(f, s, e2, p2)
    <3>1. \A i \in 1 .. Len(s) : L[i] = e2[i]
      BY DEF LongestOf
    <3>2. \A i \in 1 .. Len(s) : p2[i] = <<"<email>">>
      OBVIOUS
    <3>3. ASSUME NEW i \in 1 .. Len(s) + 1 PROVE OneMatch(f, i) = Rewritten(f, e2, p2, i)
      <4>1. CASE i > Len(s)
        BY <4>1
      <4>2. CASE ~(i > Len(s))
        <5>1. i \in 1 .. Len(s)
          BY <1>0, <4>2
        <5> HIDE DEF L, e2, p2
        <5> QED
          BY <3>1, <3>2, <5>1
      <4> QED
        BY <4>1, <4>2
    <3> HIDE DEF OneMatch, Rewritten, e2, p2
    <3> QED
      BY <3>3 DEF IsRewriting, Rewritten
  <2> HIDE DEF Match, e2, p2
  <2> QED
    BY <2>1, Zenon DEF Rewriting
<1>14. f1[1] = f2[1]
  <2>1. 1 \in 1 .. n + 1
    BY <1>0
  <2> QED
    BY <1>9, <2>1
<1> HIDE DEF Scan, Match, f1, f2
<1> QED
  BY <1>10, <1>11, <1>12, <1>13, <1>14
\* Every hex id the pattern finds is replaced, and nothing else.
LEMMA HexIdsAgree ==
  ASSUME NEW S, NEW s \in Seq(S)
  PROVE  ReplaceHexIds(s) = MatchedHexIds(s)
<1> DEFINE Longer(i) == LET ends == {j \in i + 1 .. Len(s) + 1 : IsHexId(s, i, j)}
                         IN  IF ends = {} THEN 0 ELSE Max(ends)
           L == [i \in 1 .. Len(s) |-> Longer(i)]
           By(i, e) == <<"0", "x">>
           Scan(f) == [i \in 1 .. Len(s) + 1 |->
                         IF i > Len(s) THEN <<>>
                         ELSE LET end == HexIdEnd(s, i)
                              IN  IF end = 0 THEN <<s[i]>> \o f[i + 1] ELSE By(i, end) \o f[end]]
           Match(f) == [i \in 1 .. Len(s) + 1 |->
                         IF i > Len(s) THEN <<>>
                         ELSE LET end == L[i]
                              IN  IF end = 0 THEN <<s[i]>> \o f[i + 1] ELSE By(i, end) \o f[end]]
<1>1. ASSUME NEW f PROVE Scan(f) = Match(f)
  <2>1. \A i \in 1 .. Len(s) : HexIdEnd(s, i) = L[i]
    BY HexIdEndIs
  <2> HIDE DEF L
  <2> QED
    BY <2>1
<1>2. (CHOOSE f : f = Scan(f))[1] = (CHOOSE f : f = Match(f))[1]
  <2> HIDE DEF Scan, Match
  <2>1. \A f : f = Scan(f) <=> f = Match(f)
    BY <1>1
  <2> QED
    BY <2>1, Zenon
<1>3. ReplaceHexIds(s) = (CHOOSE f : f = Scan(f))[1]
  BY DEF ReplaceHexIds, Replace
<1>4. MatchedHexIds(s) = (CHOOSE f : f = Match(f))[1]
  BY DEF MatchedHexIds, ReplaceLongest, Replace, Longest
<1> QED
  BY <1>2, <1>3, <1>4

\* So it is for quoted values,
LEMMA QuotedAgree ==
  ASSUME NEW S, NEW s \in Seq(S), NEW quote, quote # NoByte, NEW atWordBoundary \in BOOLEAN
  PROVE  ReplaceQuoted(s, quote, atWordBoundary) = MatchedQuotes(s, quote, atWordBoundary)
<1> DEFINE L == [i \in 1 .. Len(s) |->
                   LET ends == {j \in i + 1 .. Len(s) + 1 : IsQuoted(s, i, j, quote, atWordBoundary)}
                   IN  IF ends = {} THEN 0 ELSE Max(ends)]
           Scan(f) == [i \in 1 .. Len(s) + 1 |->
                         IF i > Len(s) THEN <<>>
                         ELSE LET end == QuotedRun(s, i, quote, atWordBoundary)
                              IN  IF end = 0 THEN <<s[i]>> \o f[i + 1] ELSE <<"<str>">> \o f[end]]
           Match(f) == [i \in 1 .. Len(s) + 1 |->
                         IF i > Len(s) THEN <<>>
                         ELSE LET end == L[i]
                              IN  IF end = 0 THEN <<s[i]>> \o f[i + 1] ELSE <<"<str>">> \o f[end]]
<1>1. ASSUME NEW f PROVE Scan(f) = Match(f)
  <2>1. \A i \in 1 .. Len(s) : QuotedRun(s, i, quote, atWordBoundary) = L[i]
    BY QuotedRunIs DEF LongestOf
  <2> HIDE DEF L
  <2> QED
    BY <2>1
<1>2. (CHOOSE f : f = Scan(f))[1] = (CHOOSE f : f = Match(f))[1]
  <2> HIDE DEF Scan, Match
  <2>1. \A f : f = Scan(f) <=> f = Match(f)
    BY <1>1
  <2> QED
    BY <2>1, Zenon
<1>3. ReplaceQuoted(s, quote, atWordBoundary) = (CHOOSE f : f = Scan(f))[1]
  BY DEF ReplaceQuoted, Replace
<1>4. MatchedQuotes(s, quote, atWordBoundary) = (CHOOSE f : f = Match(f))[1]
  BY DEF MatchedQuotes, ReplaceLongest, Replace, Longest
<1> QED
  BY <1>2, <1>3, <1>4

\* ... for uuids,
LEMMA UuidsAgree ==
  ASSUME NEW S, NEW s \in Seq(S)
  PROVE  ReplaceUuids(s) = MatchedUuids(s)
<1> DEFINE L == [i \in 1 .. Len(s) |->
                   LET ends == {j \in i + 1 .. Len(s) + 1 : IsUuid(s, i, j)}
                   IN  IF ends = {} THEN 0 ELSE Max(ends)]
           Scan(f) == [i \in 1 .. Len(s) + 1 |->
                         IF i > Len(s) THEN <<>>
                         ELSE LET end == UuidEnd(s, i)
                              IN  IF end = 0 THEN <<s[i]>> \o f[i + 1] ELSE <<"<uuid>">> \o f[end]]
           Match(f) == [i \in 1 .. Len(s) + 1 |->
                         IF i > Len(s) THEN <<>>
                         ELSE LET end == L[i]
                              IN  IF end = 0 THEN <<s[i]>> \o f[i + 1] ELSE <<"<uuid>">> \o f[end]]
<1>1. ASSUME NEW f PROVE Scan(f) = Match(f)
  <2>1. \A i \in 1 .. Len(s) : UuidEnd(s, i) = L[i]
    BY UuidEndIs DEF LongestOf
  <2> HIDE DEF L
  <2> QED
    BY <2>1
<1>2. (CHOOSE f : f = Scan(f))[1] = (CHOOSE f : f = Match(f))[1]
  <2> HIDE DEF Scan, Match
  <2>1. \A f : f = Scan(f) <=> f = Match(f)
    BY <1>1
  <2> QED
    BY <2>1, Zenon
<1>3. ReplaceUuids(s) = (CHOOSE f : f = Scan(f))[1]
  BY DEF ReplaceUuids, Replace
<1>4. MatchedUuids(s) = (CHOOSE f : f = Match(f))[1]
  BY DEF MatchedUuids, ReplaceLongest, Replace, Longest
<1> QED
  BY <1>2, <1>3, <1>4

\* ... and for whole numbers, though the code copies a run of digits at once.
LEMMA NumbersAgree ==
  ASSUME NEW S, NEW s \in Seq(S)
  PROVE  ReplaceNumbers(s) = MatchedNumbers(s)
<1> DEFINE L == [i \in 1 .. Len(s) |->
                   LET ends == {j \in i + 1 .. Len(s) + 1 : IsWholeNumber(s, i, j)}
                   IN  IF ends = {} THEN 0 ELSE Max(ends)]
           Scan(f) == [i \in 1 .. Len(s) + 1 |->
                         IF i > Len(s) THEN <<>>
                         ELSE LET end == NumberRunEnd(s, i)
                              IN  IF end = 0 THEN <<s[i]>> \o f[i + 1] ELSE <<"<n>">> \o f[end]]
           Match(f) == [i \in 1 .. Len(s) + 1 |->
                         IF i > Len(s) THEN <<>>
                         ELSE LET end == L[i]
                              IN  IF end = 0 THEN <<s[i]>> \o f[i + 1] ELSE <<"<n>">> \o f[end]]
<1>1. ASSUME NEW f PROVE Scan(f) = Match(f)
  <2>1. \A i \in 1 .. Len(s) : NumberRunEnd(s, i) = L[i]
    BY NumberRunEndIs DEF LongestOf
  <2> HIDE DEF L
  <2> QED
    BY <2>1
<1>2. (CHOOSE f : f = Scan(f))[1] = (CHOOSE f : f = Match(f))[1]
  <2> HIDE DEF Scan, Match
  <2>1. \A f : f = Scan(f) <=> f = Match(f)
    BY <1>1
  <2> QED
    BY <2>1, Zenon
<1>3. ReplaceNumbers(s) = (CHOOSE f : f = Scan(f))[1]
  BY DEF ReplaceNumbers, Replace
<1>4. MatchedNumbers(s) = (CHOOSE f : f = Match(f))[1]
  BY DEF MatchedNumbers, ReplaceLongest, Replace, Longest
<1> QED
  BY <1>2, <1>3, <1>4

LEMMA QuotesAreBytes == "\"" # NoByte /\ "'" # NoByte
BY Zenon DEF NoByte

\* A message's fingerprint is the server's for every message: each pass of
\* strict_privacy.cpp over a text replaces just what the server's pattern matches.
THEOREM Agreement ==
  ASSUME NEW S, NEW s \in Seq(S)
  PROVE  AgreesWithTheServer(s)
<1>1. ReplaceEmails(s) = MatchedEmails(s)
  BY EmailsAgree
<1>2. ReplaceQuoted(s, "\"", FALSE) = MatchedQuotes(s, "\"", FALSE)
  <2>1. FALSE \in BOOLEAN
    OBVIOUS
  <2> QED
    BY <2>1, QuotesAreBytes, QuotedAgree, Zenon
<1>3. ReplaceQuoted(s, "'", TRUE) = MatchedQuotes(s, "'", TRUE)
  <2>1. TRUE \in BOOLEAN
    OBVIOUS
  <2> QED
    BY <2>1, QuotesAreBytes, QuotedAgree, Zenon
<1>4. ReplaceHexIds(s) = MatchedHexIds(s)
  BY HexIdsAgree
<1>5. ReplaceUuids(s) = MatchedUuids(s)
  BY UuidsAgree
<1>6. ReplaceNumbers(s) = MatchedNumbers(s)
  BY NumbersAgree
<1> QED
  BY <1>1, <1>2, <1>3, <1>4, <1>5, <1>6, Zenon
  DEF AgreesWithTheServer, MatchedEmails, MatchedQuotes, MatchedHexIds, MatchedUuids,
      MatchedNumbers, ReplaceLongest, Replace, Longest

-----------------------------------------------------------------------------
(* Numbers in a statement *)

\* The classes of bytes that a statement's numbers are read by.
LEMMA NumberBytes ==
  /\ Digits \subseteq Words /\ Hexes \subseteq Words /\ {"0", "1"} \subseteq Digits
  /\ NoByte \notin Digits /\ NoByte \notin Hexes /\ NoByte \notin Words
  /\ \A c \in {"e", "E", "x", "X", "b", "B"} : c \in Words /\ c \notin Digits
  /\ "." \notin Digits /\ "." \notin Words
<1>1. {"0", "1"} \subseteq Digits
  BY SMT DEF Digits, DigitOrder, Range
<1>2. \A c \in {"e", "E", "x", "X", "b", "B"} : c \in Words /\ c \notin Digits
  BY ExponentBytes, ClassesNest
<1> QED
  BY <1>1, <1>2, ClassesNest, NotWords, NotBytes

\* Where an exponent ends that begins at i: past a sign and all the digits.
LEMMA ExponentEndIs ==
  ASSUME NEW S, NEW s \in Seq(S), NEW i \in Nat \ {0}
  PROVE  LET k == IF At(s, i + 1) \in {"+", "-"} THEN i + 2 ELSE i + 1
             e == ExponentEnd(s, i)
         IN  /\ e = 0 \/ (e \in Nat /\ k < e /\ e <= Len(s) + 1)
             /\ e > 0 => At(s, i) \in {"e", "E"} /\ All(s, k, e, Digits) /\ At(s, e) \notin Digits
             /\ \A j \in Nat : /\ At(s, i) \in {"e", "E"} /\ k < j /\ All(s, k, j, Digits)
                               /\ At(s, j) \notin Digits
                               => j = e
<1> DEFINE k == IF At(s, i + 1) \in {"+", "-"} THEN i + 2 ELSE i + 1
           end == RunEnd(s, k, Digits)
<1>1. k \in Nat \ {0}
  OBVIOUS
<1>2. ExponentEnd(s, i) = IF At(s, i) \in {"e", "E"} /\ end > k THEN end ELSE 0
  BY DEF ExponentEnd
<1> HIDE DEF k
<1>3. /\ end \in Nat /\ end >= k /\ At(s, end) \notin Digits /\ All(s, k, end, Digits)
      /\ end > k => end <= Len(s) + 1
  BY <1>1, NumberBytes, RunEndIs DEF All
<1>4. ASSUME NEW j \in Nat, k < j, All(s, k, j, Digits), At(s, j) \notin Digits
      PROVE  j = end
  BY <1>1, <1>4, NumberBytes, RunEndIsThat
<1> HIDE DEF end
<1> QED
  BY <1>1, <1>2, <1>3, <1>4 DEF k

\* Where a fraction ends: past the digits behind its dot, of which there is one at least.
LEMMA FractionEndIs ==
  ASSUME NEW S, NEW s \in Seq(S), NEW dot \in Nat \ {0}
  PROVE  LET e == FractionEnd(s, dot)
         IN  /\ e = 0 \/ (e \in Nat /\ dot + 1 < e /\ e <= Len(s) + 1)
             /\ e > 0 => At(s, dot) = "." /\ All(s, dot + 1, e, Digits) /\ At(s, e) \notin Digits
             /\ \A j \in Nat : /\ At(s, dot) = "." /\ dot + 1 < j /\ All(s, dot + 1, j, Digits)
                               /\ At(s, j) \notin Digits
                               => j = e
<1> DEFINE end == RunEnd(s, dot + 1, Digits)
           e == FractionEnd(s, dot)
<1>1. dot + 1 \in Nat \ {0}
  OBVIOUS
<1>2. /\ end \in Nat /\ end >= dot + 1 /\ At(s, end) \notin Digits /\ All(s, dot + 1, end, Digits)
      /\ end > dot + 1 => end <= Len(s) + 1
  BY <1>1, NumberBytes, RunEndIs DEF All
<1>3. ASSUME NEW j \in Nat, dot + 1 < j, All(s, dot + 1, j, Digits), At(s, j) \notin Digits
      PROVE  j = end
  BY <1>1, <1>3, NumberBytes, RunEndIsThat
<1>4. e = IF At(s, dot) = "." /\ At(s, dot + 1) \in Digits THEN end ELSE 0
  BY DEF FractionEnd
<1>5. At(s, dot + 1) \in Digits => end > dot + 1
  <2> HIDE DEF end
  <2> QED
    BY <1>2
<1>6. \A j \in Nat : dot + 1 < j /\ All(s, dot + 1, j, Digits) => At(s, dot + 1) \in Digits
  BY <1>1 DEF All
<1> HIDE DEF end, e
<1>7. e = 0 \/ (e \in Nat /\ dot + 1 < e /\ e <= Len(s) + 1)
  BY <1>2, <1>4, <1>5
<1>8. e > 0 => At(s, dot) = "." /\ All(s, dot + 1, e, Digits) /\ At(s, e) \notin Digits
  BY <1>2, <1>4
<1>9. \A j \in Nat : /\ At(s, dot) = "." /\ dot + 1 < j /\ All(s, dot + 1, j, Digits)
                     /\ At(s, j) \notin Digits
                     => j = e
  BY <1>3, <1>4, <1>6
<1> QED
  BY <1>7, <1>8, <1>9 DEF e

\* The five readings of what stands at i, in the order they are tried.
RadixEnd(s, i) ==
  LET radix == CASE At(s, i + 1) \in {"x", "X"} -> Hexes
                 [] At(s, i + 1) \in {"b", "B"} -> {"0", "1"}
                 [] OTHER -> {}
      end == RunEnd(s, i + 2, radix)
  IN  IF s[i] = "0" /\ end > i + 2 THEN end ELSE 0

WholeEnd(s, i) == IF RunEnd(s, i, Digits) > i THEN RunEnd(s, i, Digits) ELSE 0

\* A hex or binary number ends where the run of its digits does.
LEMMA RadixEndIs ==
  ASSUME NEW S, NEW s \in Seq(S), NEW i \in 1 .. Len(s)
  PROVE  LET e == RadixEnd(s, i)
             Is(j) == /\ At(s, i) = "0" /\ j > i + 2
                      /\ \/ At(s, i + 1) \in {"x", "X"} /\ All(s, i + 2, j, Hexes)
                         \/ At(s, i + 1) \in {"b", "B"} /\ All(s, i + 2, j, {"0", "1"})
         IN  /\ e = 0 \/ (e \in Nat /\ i + 2 < e /\ e <= Len(s) + 1)
             /\ e > 0 => Is(e)
             /\ \A j \in Nat : Is(j) /\ At(s, j) \notin Words => j = e
<1> DEFINE radix == CASE At(s, i + 1) \in {"x", "X"} -> Hexes
                      [] At(s, i + 1) \in {"b", "B"} -> {"0", "1"}
                      [] OTHER -> {}
           end == RunEnd(s, i + 2, radix)
           e == RadixEnd(s, i)
           Is(j) == /\ At(s, i) = "0" /\ j > i + 2
                    /\ \/ At(s, i + 1) \in {"x", "X"} /\ All(s, i + 2, j, Hexes)
                       \/ At(s, i + 1) \in {"b", "B"} /\ All(s, i + 2, j, {"0", "1"})
<1>1. i + 2 \in Nat \ {0} /\ At(s, i) = s[i] /\ Len(s) \in Nat
  BY AtIs
<1>2. NoByte \notin radix /\ radix \subseteq Words
  BY NumberBytes
<1>3. e = IF s[i] = "0" /\ end > i + 2 THEN end ELSE 0
  BY DEF RadixEnd
<1>4. /\ At(s, i + 1) \in {"x", "X"} => radix = Hexes
      /\ At(s, i + 1) \in {"b", "B"} => radix = {"0", "1"}
      /\ At(s, i + 1) \notin {"x", "X", "b", "B"} => radix = {}
  OBVIOUS
<1> HIDE DEF radix
<1>5. /\ end \in Nat /\ end >= i + 2 /\ At(s, end) \notin radix /\ All(s, i + 2, end, radix)
      /\ end > i + 2 => end <= Len(s) + 1
  BY <1>1, <1>2, RunEndIs DEF All
<1>6. ASSUME NEW j \in Nat, i + 2 < j, All(s, i + 2, j, radix), At(s, j) \notin Words
      PROVE  j = end
  BY <1>1, <1>2, <1>6, RunEndIsThat
<1>7. end > i + 2 => radix # {}
  <2> HIDE DEF end
  <2> QED
    BY <1>5 DEF All
<1> HIDE DEF end, e
<1>8. e = 0 \/ (e \in Nat /\ i + 2 < e /\ e <= Len(s) + 1)
  BY <1>3, <1>5
<1>9. ASSUME e > 0 PROVE Is(e)
  <2>1. e = end /\ s[i] = "0" /\ end > i + 2
    BY <1>3, <1>9
  <2>2. At(s, i + 1) \in {"x", "X", "b", "B"}
    BY <1>4, <1>7, <2>1
  <2> QED
    BY <1>1, <1>4, <1>5, <2>1, <2>2
<1>10. ASSUME NEW j \in Nat, Is(j), At(s, j) \notin Words PROVE j = e
  <2>1. All(s, i + 2, j, radix)
    BY <1>4, <1>10
  <2> QED
    BY <1>1, <1>3, <1>6, <1>10, <2>1
<1> QED
  BY <1>8, <1>9, <1>10 DEF e

LEMMA WholeEndIs ==
  ASSUME NEW S, NEW s \in Seq(S), NEW i \in 1 .. Len(s)
  PROVE  LET e == RunEnd(s, i, Digits)
         IN  /\ e \in Nat /\ i <= e /\ e <= Len(s) + 1 /\ All(s, i, e, Digits) /\ At(s, e) \notin Digits
             /\ \A j \in Nat : i <= j /\ All(s, i, j, Digits) /\ At(s, j) \notin Digits => j = e
<1> DEFINE e == RunEnd(s, i, Digits)
<1>1. /\ e \in Nat /\ i <= e /\ All(s, i, e, Digits) /\ At(s, e) \notin Digits
      /\ e > i => e <= Len(s) + 1
  BY NumberBytes, RunEndIs DEF All
<1>2. ASSUME NEW j \in Nat, i <= j, All(s, i, j, Digits), At(s, j) \notin Digits PROVE j = e
  BY <1>2, NumberBytes, RunEndIsThat
<1> HIDE DEF e
<1> QED
  BY <1>1, <1>2 DEF e

\* What number_end() reads at i, in the order it tries them.
Readings(s, i) ==
  LET fraction == FractionEnd(s, RunEnd(s, i, Digits))
      whole    == WholeEnd(s, i)
  IN  << RadixEnd(s, i), IF fraction > 0 THEN ExponentEnd(s, fraction) ELSE 0, fraction,
         IF whole > 0 THEN ExponentEnd(s, whole) ELSE 0, whole >>

\* The readings that end at a word boundary.
Stands(s, i) == {k \in 1 .. 5 : Readings(s, i)[k] > 0 /\ EndsHere(s, Readings(s, i)[k])}

\* The pattern ends where one of the readings does.
LEMMA NumberIsAReading ==
  ASSUME NEW S, NEW s \in Seq(S), NEW i \in 1 .. Len(s), NEW j \in i + 1 .. Len(s) + 1,
         IsNumber(s, i, j), EndsHere(s, j)
  PROVE  \E k \in Stands(s, i) : Readings(s, i)[k] = j
<1> DEFINE whole == RunEnd(s, i, Digits)
           fraction == FractionEnd(s, whole)
           r == Readings(s, i)
<1>0. /\ Len(s) \in Nat /\ j \in Nat /\ j > 0 /\ At(s, j) \notin Words /\ At(s, j) \notin Digits
      /\ At(s, j) \notin {"e", "E"}
  BY NumberBytes DEF EndsHere
<1>1. /\ r[1] = RadixEnd(s, i) /\ r[3] = fraction
      /\ fraction > 0 => r[2] = ExponentEnd(s, fraction)
      /\ whole > i => r[5] = whole /\ (whole > 0 => r[4] = ExponentEnd(s, whole))
  BY DEF Readings, WholeEnd
<1>2. ASSUME NEW k \in 1 .. 5, r[k] = j PROVE \E m \in Stands(s, i) : Readings(s, i)[m] = j
  BY <1>0, <1>2 DEF Stands, EndsHere
<1> HIDE DEF whole, fraction, r
<1>3. CASE /\ At(s, i) = "0" /\ j > i + 2
           /\ \/ At(s, i + 1) \in {"x", "X"} /\ All(s, i + 2, j, Hexes)
              \/ At(s, i + 1) \in {"b", "B"} /\ All(s, i + 2, j, {"0", "1"})
  <2>1. j = RadixEnd(s, i)
    BY <1>0, <1>3, RadixEndIs
  <2> QED
    BY <1>1, <1>2, <2>1
<1>4. CASE \E p, q \in i .. j :
             /\ p <= q /\ i < q
             /\ All(s, i, p, Digits)
             /\ p = q \/ (At(s, p) = "." /\ q > p + 1 /\ All(s, p + 1, q, Digits))
             /\ \/ q = j
                \/ /\ At(s, q) \in {"e", "E"}
                   /\ LET k == IF At(s, q + 1) \in {"+", "-"} THEN q + 2 ELSE q + 1
                      IN  k < j /\ All(s, k, j, Digits)
  <2>1. PICK p, q \in i .. j :
             /\ p <= q /\ i < q
             /\ All(s, i, p, Digits)
             /\ p = q \/ (At(s, p) = "." /\ q > p + 1 /\ All(s, p + 1, q, Digits))
             /\ \/ q = j
                \/ /\ At(s, q) \in {"e", "E"}
                   /\ LET k == IF At(s, q + 1) \in {"+", "-"} THEN q + 2 ELSE q + 1
                      IN  k < j /\ All(s, k, j, Digits)
    BY <1>4
  <2>2. p \in Nat \ {0} /\ q \in Nat \ {0} /\ At(s, q) \notin Digits
    BY <1>0, <2>1, NumberBytes
  <2>3. CASE p = q
    <3>1. q = whole /\ whole > i /\ whole > 0
      BY <2>1, <2>2, <2>3, WholeEndIs DEF whole
    <3>2. CASE q = j
      BY <1>1, <1>2, <3>1, <3>2
    <3>3. CASE q # j
      <4>1. j = ExponentEnd(s, q)
        BY <1>0, <2>1, <2>2, <3>3, ExponentEndIs
      <4> QED
        BY <1>1, <1>2, <3>1, <4>1
    <3> QED
      BY <3>2, <3>3
  <2>4. CASE p # q
    <3>1. At(s, p) = "." /\ q > p + 1 /\ All(s, p + 1, q, Digits)
      BY <2>1, <2>4
    <3>2. p = whole
      BY <2>1, <2>2, <3>1, NumberBytes, WholeEndIs DEF whole
    <3>3. q = fraction
      BY <2>2, <3>1, <3>2, FractionEndIs DEF fraction
    <3>4. CASE q = j
      BY <1>1, <1>2, <3>3, <3>4
    <3>5. CASE q # j
      <4>1. j = ExponentEnd(s, q)
        BY <1>0, <2>1, <2>2, <3>5, ExponentEndIs
      <4> QED
        BY <1>1, <1>2, <2>2, <3>3, <4>1
    <3> QED
      BY <3>4, <3>5
  <2> QED
    BY <2>3, <2>4
<1>5. \/ /\ At(s, i) = "0" /\ j > i + 2
         /\ \/ At(s, i + 1) \in {"x", "X"} /\ All(s, i + 2, j, Hexes)
            \/ At(s, i + 1) \in {"b", "B"} /\ All(s, i + 2, j, {"0", "1"})
      \/ \E p, q \in i .. j :
             /\ p <= q /\ i < q
             /\ All(s, i, p, Digits)
             /\ p = q \/ (At(s, p) = "." /\ q > p + 1 /\ All(s, p + 1, q, Digits))
             /\ \/ q = j
                \/ /\ At(s, q) \in {"e", "E"}
                   /\ LET k == IF At(s, q + 1) \in {"+", "-"} THEN q + 2 ELSE q + 1
                      IN  k < j /\ All(s, k, j, Digits)
  BY DEF IsNumber
<1> QED
  BY <1>3, <1>4, <1>5

\* Every reading there is keeps to the pattern.
LEMMA ReadingIsANumber ==
  ASSUME NEW S, NEW s \in Seq(S), NEW i \in 1 .. Len(s), NEW k \in 1 .. 5,
         Readings(s, i)[k] > 0
  PROVE  Readings(s, i)[k] \in i + 1 .. Len(s) + 1 /\ IsNumber(s, i, Readings(s, i)[k])
<1> DEFINE whole == RunEnd(s, i, Digits)
           fraction == FractionEnd(s, whole)
           r == Readings(s, i)
<1>0. Len(s) \in Nat /\ NoByte \notin {"e", "E", "."}
  BY DEF NoByte
<1>1. /\ r[1] = RadixEnd(s, i) /\ r[3] = fraction
      /\ r[2] = IF fraction > 0 THEN ExponentEnd(s, fraction) ELSE 0
      /\ r[5] = IF whole > i THEN whole ELSE 0
      /\ r[4] = IF r[5] > 0 THEN ExponentEnd(s, r[5]) ELSE 0
  BY DEF Readings, WholeEnd
<1> HIDE DEF r
<1>2. /\ whole \in Nat /\ i <= whole /\ whole <= Len(s) + 1 /\ whole \in Nat \ {0}
      /\ All(s, i, whole, Digits) /\ At(s, whole) \notin Digits
  BY WholeEndIs
<1> HIDE DEF whole
<1>3. /\ fraction = 0 \/ (fraction \in Nat \ {0} /\ whole + 1 < fraction /\ fraction <= Len(s) + 1)
      /\ fraction > 0 => At(s, whole) = "." /\ All(s, whole + 1, fraction, Digits)
  BY <1>2, FractionEndIs
<1> HIDE DEF fraction
<1>4. CASE k = 1
  <2>1. /\ r[1] \in Nat /\ i + 2 < r[1] /\ r[1] <= Len(s) + 1
        /\ At(s, i) = "0" /\ r[1] > i + 2
        /\ \/ At(s, i + 1) \in {"x", "X"} /\ All(s, i + 2, r[1], Hexes)
           \/ At(s, i + 1) \in {"b", "B"} /\ All(s, i + 2, r[1], {"0", "1"})
    BY <1>1, <1>4, RadixEndIs DEF r
  <2> QED
    BY <1>0, <1>4, <2>1 DEF IsNumber, r
<1> DEFINE Decimal(p, q, j) ==
             /\ p <= q /\ i < q
             /\ All(s, i, p, Digits)
             /\ p = q \/ (At(s, p) = "." /\ q > p + 1 /\ All(s, p + 1, q, Digits))
             /\ \/ q = j
                \/ /\ At(s, q) \in {"e", "E"}
                   /\ LET m == IF At(s, q + 1) \in {"+", "-"} THEN q + 2 ELSE q + 1
                      IN  m < j /\ All(s, m, j, Digits)
<1>5. ASSUME NEW j \in i + 1 .. Len(s) + 1, NEW p \in i .. j, NEW q \in i .. j, Decimal(p, q, j)
      PROVE  IsNumber(s, i, j)
  BY <1>5 DEF IsNumber
<1>6. CASE k = 5
  <2>1. r[5] = whole /\ whole > i
    BY <1>1, <1>6 DEF r
  <2>2. Decimal(whole, whole, whole)
    BY <1>2, <2>1
  <2> HIDE DEF Decimal
  <2> QED
    BY <1>0, <1>2, <1>5, <1>6, <2>1, <2>2 DEF r
<1>7. CASE k = 3
  <2>1. r[3] = fraction /\ fraction > 0
    BY <1>1, <1>7 DEF r
  <2>2. Decimal(whole, fraction, fraction)
    BY <1>2, <1>3, <2>1
  <2> HIDE DEF Decimal
  <2> QED
    BY <1>0, <1>2, <1>3, <1>5, <1>7, <2>1, <2>2 DEF r
<1>8. ASSUME NEW q \in Nat \ {0}, q <= Len(s) + 1, i < q, ExponentEnd(s, q) > 0
      PROVE  LET e == ExponentEnd(s, q)
                 m == IF At(s, q + 1) \in {"+", "-"} THEN q + 2 ELSE q + 1
             IN  e \in i + 1 .. Len(s) + 1 /\ q < e /\ At(s, q) \in {"e", "E"} /\ m < e /\ All(s, m, e, Digits)
  <2> DEFINE e == ExponentEnd(s, q)
             m == IF At(s, q + 1) \in {"+", "-"} THEN q + 2 ELSE q + 1
  <2>1. e \in Nat /\ m < e /\ e <= Len(s) + 1 /\ At(s, q) \in {"e", "E"} /\ All(s, m, e, Digits)
    BY <1>8, ExponentEndIs
  <2> HIDE DEF e
  <2>2. e \in i + 1 .. Len(s) + 1 /\ q < e
    BY <1>0, <1>8, <2>1
  <2> QED
    BY <2>1, <2>2 DEF e
<1>9. CASE k = 2
  <2> DEFINE e == ExponentEnd(s, fraction)
             m == IF At(s, fraction + 1) \in {"+", "-"} THEN fraction + 2 ELSE fraction + 1
  <2>1. r[2] = e /\ fraction > 0 /\ e > 0
    BY <1>1, <1>9 DEF r
  <2>2. e \in i + 1 .. Len(s) + 1 /\ fraction < e /\ At(s, fraction) \in {"e", "E"} /\ m < e /\ All(s, m, e, Digits)
    BY <1>2, <1>3, <1>8, <2>1
  <2> HIDE DEF e
  <2>3. Decimal(whole, fraction, e)
    BY <1>2, <1>3, <2>1, <2>2
  <2>4. whole \in i .. e /\ fraction \in i .. e
    BY <1>2, <1>3, <2>1, <2>2
  <2> HIDE DEF Decimal
  <2> QED
    BY <1>5, <1>9, <2>1, <2>2, <2>3, <2>4 DEF r
<1>10. CASE k = 4
  <2> DEFINE e == ExponentEnd(s, whole)
             m == IF At(s, whole + 1) \in {"+", "-"} THEN whole + 2 ELSE whole + 1
  <2>1. r[4] = e /\ whole > i /\ e > 0
    BY <1>1, <1>10 DEF r
  <2>2. e \in i + 1 .. Len(s) + 1 /\ whole < e /\ At(s, whole) \in {"e", "E"} /\ m < e /\ All(s, m, e, Digits)
    BY <1>2, <1>8, <2>1
  <2> HIDE DEF e
  <2>3. Decimal(whole, whole, e)
    BY <1>2, <2>1, <2>2
  <2>4. whole \in i .. e
    BY <1>2, <2>1, <2>2
  <2> HIDE DEF Decimal
  <2> QED
    BY <1>5, <1>10, <2>1, <2>2, <2>3, <2>4 DEF r
<1> QED
  BY <1>4, <1>6, <1>7, <1>9, <1>10

\* Of two readings that stand, the one tried first is the longer.
LEMMA ReadingsInOrder ==
  ASSUME NEW S, NEW s \in Seq(S), NEW i \in 1 .. Len(s), s[i] \in Digits \cup {"."},
         NEW k \in Stands(s, i), NEW m \in Stands(s, i), k < m
  PROVE  Readings(s, i)[m] <= Readings(s, i)[k]
<1> DEFINE whole == RunEnd(s, i, Digits)
           fraction == FractionEnd(s, whole)
           r == Readings(s, i)
<1>1. /\ r[1] = RadixEnd(s, i) /\ r[3] = fraction
      /\ r[2] = IF fraction > 0 THEN ExponentEnd(s, fraction) ELSE 0
      /\ r[5] = IF whole > i THEN whole ELSE 0
      /\ r[4] = IF r[5] > 0 THEN ExponentEnd(s, r[5]) ELSE 0
  BY DEF Readings, WholeEnd
<1>a. /\ k \in 1 .. 5 /\ m \in 1 .. 5 /\ r[k] > 0 /\ r[m] > 0
      /\ At(s, r[k]) \notin Words /\ At(s, r[m]) \notin Words
  BY DEF Stands, EndsHere
<1> HIDE DEF r
<1>2. /\ whole \in Nat /\ i <= whole /\ whole \in Nat \ {0}
      /\ \A j \in Nat : i <= j /\ All(s, i, j, Digits) /\ At(s, j) \notin Digits => j = whole
  BY WholeEndIs
<1> HIDE DEF whole
<1>3. /\ fraction = 0 \/ (fraction \in Nat \ {0} /\ whole + 1 < fraction)
      /\ fraction > 0 => At(s, whole) = "."
  BY <1>2, FractionEndIs
<1> HIDE DEF fraction
<1>4. k # 1
  <2>1. ASSUME k = 1 PROVE FALSE
    <3>1. At(s, i) = "0" /\ At(s, i + 1) \in {"x", "X", "b", "B"}
      BY <1>1, <1>a, <2>1, RadixEndIs
    <3>2. whole = i + 1
      <4>1. All(s, i, i + 1, Digits) /\ At(s, i + 1) \notin Digits
        BY <3>1, NumberBytes DEF All
      <4> QED
        BY <1>2, <4>1
    <3>3. fraction = 0 /\ At(s, whole) \notin {"e", "E"} /\ At(s, whole) \in Words
      BY <1>3, <3>1, <3>2, NumberBytes
    <3>4. r[2] = 0 /\ r[3] = 0 /\ r[5] = whole
      BY <1>1, <3>2, <3>3
    <3>5. r[4] = 0
      BY <1>1, <1>2, <3>3, <3>4, ExponentEndIs
    <3> QED
      BY <1>a, <2>1, <3>3, <3>4, <3>5
  <2> QED
    BY <2>1
<1>5. ASSUME r[2] > 0 PROVE fraction < r[2] /\ fraction > 0 /\ r[2] \in Nat /\ At(s, fraction) \in Words
  <2>1. fraction \in Nat \ {0} /\ r[2] = ExponentEnd(s, fraction)
    BY <1>1, <1>3, <1>5
  <2>2. At(s, fraction) \in {"e", "E"} /\ r[2] \in Nat /\ fraction < r[2]
    BY <1>5, <2>1, ExponentEndIs
  <2> QED
    BY <2>1, <2>2, NumberBytes
<1>6. ASSUME r[4] > 0 PROVE fraction = 0 /\ r[5] = whole /\ At(s, r[5]) \in Words
  <2>1. r[5] = whole /\ r[4] = ExponentEnd(s, whole)
    BY <1>1, <1>2, <1>6
  <2>2. At(s, whole) \in {"e", "E"}
    BY <1>2, <1>6, <2>1, ExponentEndIs
  <2>3. fraction = 0
    BY <1>3, <2>2
  <2> QED
    BY <2>1, <2>2, <2>3, NumberBytes
<1>7. CASE k = 2
  <2>1. m \in {3, 4, 5} /\ r[2] > 0
    BY <1>a, <1>7
  <2>2. m # 3
    BY <1>1, <1>5, <1>a, <2>1
  <2>3. m # 4
    BY <1>5, <1>6, <1>a, <2>1
  <2>4. m = 5 => r[5] = whole /\ r[5] <= r[2]
    BY <1>1, <1>2, <1>3, <1>5, <1>a, <2>1
  <2> QED
    BY <1>7, <2>1, <2>2, <2>3, <2>4 DEF r
<1>8. CASE k = 3
  <2>1. m \in {4, 5} /\ fraction > 0
    BY <1>1, <1>a, <1>8
  <2>2. m # 4
    BY <1>6, <1>a, <2>1
  <2>3. m = 5 => r[5] = whole /\ r[5] <= r[3]
    BY <1>1, <1>2, <1>3, <1>a, <2>1
  <2> QED
    BY <1>8, <2>1, <2>2, <2>3 DEF r
<1>9. k # 4
  <2>1. ASSUME k = 4 PROVE FALSE
    <3>1. m = 5 /\ r[4] > 0
      BY <1>a, <2>1
    <3> QED
      BY <1>6, <1>a, <3>1
  <2> QED
    BY <2>1
<1> QED
  BY <1>4, <1>7, <1>8, <1>9, <1>a

\* Every number of a statement is found where the other SDKs' pattern finds it and as long,
\* in each of its readings: number_end() tries the longer ones first.
THEOREM NumbersFound ==
  ASSUME NEW S, NEW s \in Seq(S)
  PROVE  HidesNumbers(s)
<1>1. ASSUME NEW i \in 1 .. Len(s), s[i] \in Digits \cup {"."}
      PROVE  NumberEnd(s, i) = LongestOf({j \in i + 1 .. Len(s) + 1 : IsNumber(s, i, j) /\ EndsHere(s, j)})
  <2> DEFINE ends == {j \in i + 1 .. Len(s) + 1 : IsNumber(s, i, j) /\ EndsHere(s, j)}
             r == Readings(s, i)
             stands == Stands(s, i)
  <2>1. NumberEnd(s, i) = IF stands = {} THEN 0 ELSE r[Min(stands)]
    <3>1. DOMAIN r = 1 .. 5
      BY DEF Readings
    <3>2. NumberEnd(s, i) = LET t == {k \in DOMAIN r : r[k] > 0 /\ EndsHere(s, r[k])}
                            IN  IF t = {} THEN 0 ELSE r[Min(t)]
      BY DEF NumberEnd, Readings, RadixEnd, WholeEnd
    <3> HIDE DEF r
    <3> QED
      BY <3>1, <3>2 DEF Stands, r
  <2>2. \A j \in ends : j \in Int /\ \E k \in stands : r[k] = j
    BY NumberIsAReading
  <2>3. \A k \in stands : r[k] \in ends /\ k \in Nat
    BY ReadingIsANumber DEF Stands
  <2>4. \A k, m \in stands : k < m => r[m] <= r[k]
    BY <1>1, ReadingsInOrder
  <2>5. ends \in SUBSET Int /\ stands \in SUBSET Nat
    BY <2>3
  <2> HIDE DEF ends, r, stands
  <2> DEFINE e == NumberEnd(s, i)
  <2>6. CASE stands = {}
    <3>1. ends = {} /\ e = 0
      BY <2>1, <2>2, <2>6
    <3> QED
      BY <3>1 DEF LongestOf, ends
  <2>7. CASE stands # {}
    <3>1. Min(stands) \in stands /\ \A k \in stands : Min(stands) <= k
      BY <2>5, <2>7, MinOf
    <3>2. e = r[Min(stands)] /\ e \in ends
      BY <2>1, <2>3, <2>7, <3>1
    <3> HIDE DEF e
    <3>3. ASSUME NEW j \in ends PROVE j <= e
      <4>1. PICK k \in stands : r[k] = j
        BY <2>2
      <4>2. k = Min(stands) \/ Min(stands) < k
        <5> DEFINE a == Min(stands)
        <5>1. a \in Nat /\ k \in Nat /\ a <= k
          BY <2>5, <3>1
        <5> HIDE DEF a
        <5>2. k = a \/ a < k
          BY <5>1
        <5> QED
          BY <5>2 DEF a
      <4>3. j = e \/ j <= e
        BY <2>4, <3>1, <3>2, <4>1, <4>2
      <4> QED
        BY <2>5, <4>3
    <3>4. LongestOf(ends) = e
      BY <2>5, <3>2, <3>3, LongestIs
    <3> QED
      BY <3>4 DEF ends, e
  <2> QED
    BY <2>6, <2>7
<1>2. DOMAIN s = 1 .. Len(s)
  OBVIOUS
<1>3. ASSUME NEW i \in DOMAIN s, s[i] \in Digits \cup {"."}
      PROVE  NumberEnd(s, i) =
               [a \in 1 .. Len(s) |->
                  LET ends == {j \in a + 1 .. Len(s) + 1 : IsNumber(s, a, j) /\ EndsHere(s, j)}
                  IN  IF ends = {} THEN 0 ELSE Max(ends)][i]
  BY <1>1, <1>2, <1>3 DEF LongestOf
<1> QED
  BY <1>3 DEF HidesNumbers, Longest

-----------------------------------------------------------------------------
(* IBANs *)

LEMMA IbanClass == NoByte \notin IbanBytes
<1>1. NoByte \notin Uppers
  BY NotBytes DEF Letters
<1> QED
  BY <1>1, NotBytes DEF IbanBytes

LEMMA ScrubConstants ==
  /\ CompactMin \in Nat \ {0} /\ CompactMax \in Nat \ {0} /\ GroupSize \in Nat \ {0}
  /\ GroupsMin \in Nat \ {0} /\ GroupsMax \in Nat \ {0}
BY ScrubAssumption

\* The greatest of a bounded set of counts, or one less than the least count.
LEMMA GreatestOr ==
  ASSUME NEW low \in Int, NEW high \in Int, NEW B \in SUBSET (low .. high)
  PROVE  LET m == Max(B \cup {low - 1})
         IN  /\ m \in Int /\ m >= low - 1 /\ (m >= low => m \in B)
             /\ \A k \in B : k <= m
<1> DEFINE C == B \cup {low - 1}
           m == Max(C)
           top == IF high >= low - 1 THEN high ELSE low - 1
<1>1. C \in SUBSET Int /\ C # {} /\ top \in Int /\ \A k \in C : k <= top
  OBVIOUS
<1>2. m \in C /\ \A k \in C : k <= m
  <2> HIDE DEF C, top
  <2> QED
    BY <1>1, MaxOf
<1> HIDE DEF m
<1>3. m \in Int /\ m >= low - 1 /\ (m >= low => m \in B) /\ \A k \in B : k <= m
  BY <1>2
<1> QED
  BY <1>3 DEF m

\* Where an IBAN may begin: two capitals, two digits, no word byte before them.
IbanStarts(s, i) ==
  At(s, i - 1) \notin Words /\ All(s, i, i + 2, Uppers) /\ All(s, i + 2, i + 4, Digits)

\* Where an IBAN's two patterns may end.
CompactEnds(s, i) == {j \in i + 1 .. Len(s) + 1 : IsCompactIban(s, i, j)}
SpacedEnds(s, i) == {j \in i + 1 .. Len(s) + 1 : IsSpacedIban(s, i, j)}

\* The candidate's compact part as iban_candidate_end() computes it.
CompactCount(s, i) ==
  LET rest == i + 4
      run  == Min({RunEnd(s, rest, IbanBytes) - rest, CompactMax})
  IN  Max({k \in CompactMin .. run : IsWordBoundary(s, rest + k)} \cup {CompactMin - 1})

\* The compact form: the code takes the longest count of bytes that ends at a boundary.
LEMMA CompactIs ==
  ASSUME NEW S, NEW s \in Seq(S), NEW i \in 1 .. Len(s), IbanStarts(s, i)
  PROVE  /\ CompactCount(s, i) \in Int
         /\ CompactCount(s, i) >= CompactMin =>
              i + 4 + CompactCount(s, i) = LongestOf(CompactEnds(s, i))
         /\ CompactCount(s, i) < CompactMin => CompactEnds(s, i) = {}
         /\ CompactEnds(s, i) # {} => LongestOf(CompactEnds(s, i)) > 0
<1> DEFINE rest == i + 4
           end  == RunEnd(s, rest, IbanBytes)
           run  == Min({end - rest, CompactMax})
           B    == {k \in CompactMin .. run : IsWordBoundary(s, rest + k)}
           m    == CompactCount(s, i)
           ends == CompactEnds(s, i)
<1>0. Len(s) \in Nat /\ rest \in Nat \ {0} /\ NoByte \notin IbanBytes
  BY IbanClass
<1>1. /\ end \in Nat /\ end >= rest /\ (end > rest => end <= Len(s) + 1)
      /\ \A k \in rest .. end - 1 : At(s, k) \in IbanBytes
  BY <1>0, RunEndIs
<1> HIDE DEF end, rest
<1>2. run \in Nat /\ run <= end - rest /\ run <= CompactMax /\ (run = end - rest \/ run = CompactMax)
  <2> DEFINE D == {end - rest, CompactMax}
  <2>1. D \in SUBSET Nat /\ D # {} /\ end - rest \in D /\ CompactMax \in D
    BY <1>0, <1>1, ScrubConstants
  <2> HIDE DEF D
  <2>2. Min(D) \in D /\ \A k \in D : Min(D) <= k
    BY <2>1, MinOf
  <2> QED
    BY <1>0, <1>1, <2>1, <2>2 DEF D
<1> HIDE DEF run
<1>3. m \in Int /\ m >= CompactMin - 1 /\ (m >= CompactMin => m \in B) /\ \A k \in B : k <= m
  <2>1. m = Max(B \cup {CompactMin - 1})
    BY DEF CompactCount, run, end, rest
  <2>2. B \in SUBSET (CompactMin .. run) /\ CompactMin \in Int /\ run \in Int
    BY <1>2, ScrubConstants
  <2> HIDE DEF B, m
  <2> QED
    BY <2>1, <2>2, GreatestOr
<1> HIDE DEF m
<1>4. ASSUME NEW j \in ends PROVE j - rest \in B /\ j \in Int
  <2>1. /\ j \in Nat /\ j - rest \in CompactMin .. CompactMax /\ All(s, rest, j, IbanBytes)
        /\ IsWordBoundary(s, j)
    BY DEF CompactEnds, IsCompactIban, rest
  <2>2. j <= end
    BY <1>0, <2>1, RunBounds DEF end
  <2>3. rest + (j - rest) = j /\ j - rest \in CompactMin .. run
    BY <1>0, <1>1, <1>2, <2>1, <2>2, ScrubConstants
  <2> QED
    BY <2>1, <2>3
<1>5. ASSUME NEW k \in B PROVE rest + k \in ends
  <2> DEFINE j == rest + k
  <2>1. j - rest = k /\ k \in CompactMin .. CompactMax /\ IsWordBoundary(s, j) /\ j <= end /\ j > rest /\ j \in Nat
    BY <1>0, <1>1, <1>2, ScrubConstants
  <2> HIDE DEF j
  <2>2. All(s, rest, j, IbanBytes)
    BY <1>0, <1>1, <2>1 DEF All
  <2>3. j \in i + 1 .. Len(s) + 1
    BY <1>0, <1>1, <2>1 DEF rest
  <2>4. IsCompactIban(s, i, j)
    BY <2>1, <2>2 DEF IsCompactIban, IbanStarts, rest
  <2> QED
    BY <2>3, <2>4 DEF CompactEnds, j
<1> HIDE DEF B, ends
<1>6. ASSUME m >= CompactMin PROVE rest + m = LongestOf(ends) /\ LongestOf(ends) > 0
  <2>1. rest + m \in ends /\ \A j \in ends : j \in Int /\ j <= rest + m
    BY <1>0, <1>3, <1>4, <1>5, <1>6
  <2>2. ends \in SUBSET Int /\ rest + m \in Int
    BY <1>0, <1>3, <2>1
  <2>3. LongestOf(ends) = rest + m
    BY <2>1, <2>2, LongestIs
  <2> QED
    BY <1>0, <1>3, <1>6, <2>3, ScrubConstants
<1>7. ASSUME m < CompactMin PROVE ends = {}
  <2>1. ASSUME NEW j \in ends PROVE FALSE
    <3>1. j - rest \in B /\ j - rest <= m /\ j - rest >= CompactMin
      BY <1>3, <1>4, <1>2, ScrubConstants DEF B
    <3> QED
      BY <1>0, <1>3, <1>4, <1>7, <2>1, <3>1, ScrubConstants
  <2> QED
    BY <2>1
<1> QED
  BY <1>3, <1>6, <1>7, ScrubConstants DEF m, ends, rest

\* Where the group after g whole ones begins in the spaced form.
After(i, g) == i + 4 + (GroupSize + 1) * g

\* How many whole groups there are, up to GroupsMax.
GroupCount(s, i) ==
  Max({g \in 0 .. GroupsMax : \A h \in 0 .. g - 1 : IsIbanGroup(s, After(i, h))})

\* How long the shorter group behind them is; 0 if there is none.
TailCount(s, p) ==
  IF At(s, p) # Space THEN 0
  ELSE Max({t \in 1 .. Min({RunEnd(s, p + 1, IbanBytes) - p - 1, GroupSize}) :
              IsWordBoundary(s, p + 1 + t)} \cup {1 - 1})

\* Whether the form may end behind g whole groups.
Stops(s, i, g) == TailCount(s, After(i, g)) > 0 \/ IsWordBoundary(s, After(i, g))

SpacedCount(s, i) ==
  Max({g \in GroupsMin .. GroupCount(s, i) : Stops(s, i, g)} \cup {GroupsMin - 1})

LEMMA AfterIs ==
  ASSUME NEW i \in Nat, NEW g \in Nat
  PROVE  /\ After(i, g) \in Nat \ {0} /\ After(i, g) >= i + 4
         /\ After(i, g + 1) = After(i, g) + GroupSize + 1
         /\ \A h \in Nat : h < g => After(i, h) + GroupSize + 1 <= After(i, g)
<1>1. (GroupSize + 1) * g \in Nat
  BY ScrubConstants
<1>2. (GroupSize + 1) * (g + 1) = (GroupSize + 1) * g + (GroupSize + 1)
  BY ScrubConstants
<1>3. ASSUME NEW h \in Nat, h < g PROVE (GroupSize + 1) * h + (GroupSize + 1) <= (GroupSize + 1) * g
  <2>1. PICK d \in Nat : g = h + 1 + d
    <3>1. g - (h + 1) \in Nat /\ g = h + 1 + (g - (h + 1))
      BY <1>3
    <3> QED
      BY <3>1
  <2>2. (GroupSize + 1) * (h + 1 + d) = (GroupSize + 1) * h + (GroupSize + 1) + (GroupSize + 1) * d
    BY ScrubConstants
  <2>3. (GroupSize + 1) * d \in Nat /\ (GroupSize + 1) * h \in Nat
    BY ScrubConstants
  <2> QED
    BY <2>1, <2>2, <2>3, ScrubConstants
<1>4. \A h \in Nat : (GroupSize + 1) * h \in Nat
  BY ScrubConstants
<1> QED
  BY <1>1, <1>2, <1>3, <1>4, ScrubConstants DEF After

\* The whole groups are those before the first that is none.
LEMMA GroupCountIs ==
  ASSUME NEW S, NEW s \in Seq(S), NEW i \in 1 .. Len(s)
  PROVE  /\ GroupCount(s, i) \in 0 .. GroupsMax
         /\ \A g \in 0 .. GroupsMax :
              g <= GroupCount(s, i) <=> \A h \in 0 .. g - 1 : IsIbanGroup(s, After(i, h))
<1> DEFINE Holds(g) == \A h \in 0 .. g - 1 : IsIbanGroup(s, After(i, h))
           B == {g \in 0 .. GroupsMax : Holds(g)}
           m == GroupCount(s, i)
<1>1. 0 \in B
  BY ScrubConstants
<1>2. B \in SUBSET Int /\ GroupsMax \in Int /\ \A g \in B : g <= GroupsMax
  BY ScrubConstants
<1>3. m \in B /\ \A g \in B : g <= m
  <2>1. m = Max(B)
    BY DEF GroupCount
  <2> HIDE DEF B, m
  <2> QED
    BY <1>1, <1>2, <2>1, MaxOf
<1>4. m \in 0 .. GroupsMax /\ Holds(m)
  BY <1>3
<1> HIDE DEF m
<1>5. ASSUME NEW g \in 0 .. GroupsMax PROVE g <= m <=> Holds(g)
  <2>1. ASSUME g <= m PROVE Holds(g)
    BY <1>4, <2>1, ScrubConstants
  <2>2. ASSUME Holds(g) PROVE g <= m
    BY <1>3, <2>2
  <2> QED
    BY <2>1, <2>2
<1> QED
  BY <1>4, <1>5 DEF m

\* The shorter group ends at the last boundary it can reach.
LEMMA TailCountIs ==
  ASSUME NEW S, NEW s \in Seq(S), NEW p \in Nat \ {0}
  PROVE  LET t == TailCount(s, p)
         IN  /\ t \in Nat
             /\ t > 0 => /\ At(s, p) = Space /\ t \in 1 .. GroupSize /\ p + 1 + t <= Len(s) + 1
                         /\ All(s, p + 1, p + 1 + t, IbanBytes) /\ IsWordBoundary(s, p + 1 + t)
             /\ \A j \in Nat : /\ At(s, p) = Space /\ j - p \in 2 .. GroupSize + 1
                               /\ All(s, p + 1, j, IbanBytes) /\ IsWordBoundary(s, j)
                               => t > 0 /\ j <= p + 1 + t
<1> DEFINE end == RunEnd(s, p + 1, IbanBytes)
           run == Min({end - p - 1, GroupSize})
           B   == {t \in 1 .. run : IsWordBoundary(s, p + 1 + t)}
           m   == TailCount(s, p)
<1>0. p + 1 \in Nat \ {0} /\ NoByte \notin IbanBytes /\ Len(s) \in Nat
  BY IbanClass
<1>1. /\ end \in Nat /\ end >= p + 1 /\ (end > p + 1 => end <= Len(s) + 1)
      /\ \A k \in p + 1 .. end - 1 : At(s, k) \in IbanBytes
  BY <1>0, RunEndIs
<1> HIDE DEF end
<1>2. run \in Nat /\ run <= end - p - 1 /\ run <= GroupSize /\ (run = end - p - 1 \/ run = GroupSize)
  <2> DEFINE D == {end - p - 1, GroupSize}
  <2>1. D \in SUBSET Nat /\ D # {} /\ end - p - 1 \in D /\ GroupSize \in D
    BY <1>0, <1>1, ScrubConstants
  <2> HIDE DEF D
  <2>2. Min(D) \in D /\ \A k \in D : Min(D) <= k
    BY <2>1, MinOf
  <2> QED
    BY <1>0, <1>1, <2>1, <2>2 DEF D
<1> HIDE DEF run
<1>3. CASE At(s, p) # Space
  <2>1. m = 0
    BY <1>3 DEF TailCount
  <2> HIDE DEF m
  <2> QED
    BY <1>3, <2>1 DEF m
<1>4. CASE At(s, p) = Space
  <2>1. m = Max(B \cup {1 - 1})
    BY <1>4 DEF TailCount, run, end
  <2>2. m \in Int /\ m >= 1 - 1 /\ (m >= 1 => m \in B) /\ \A k \in B : k <= m
    <3>1. B \in SUBSET (1 .. run) /\ 1 \in Int /\ run \in Int
      BY <1>2
    <3> HIDE DEF B, m
    <3> QED
      BY <2>1, <3>1, GreatestOr
  <2> HIDE DEF m
  <2>3. m \in Nat
    BY <2>2
  <2>4. ASSUME m > 0
        PROVE  /\ m \in 1 .. GroupSize /\ p + 1 + m <= Len(s) + 1
               /\ All(s, p + 1, p + 1 + m, IbanBytes) /\ IsWordBoundary(s, p + 1 + m)
    <3>1. m \in 1 .. run /\ IsWordBoundary(s, p + 1 + m)
      BY <2>2, <2>4
    <3>2. m \in 1 .. GroupSize /\ p + 1 + m <= end
      BY <1>0, <1>1, <1>2, <3>1, ScrubConstants
    <3>3. p + 1 + m <= Len(s) + 1
      BY <1>0, <1>1, <3>1, <3>2
    <3>4. All(s, p + 1, p + 1 + m, IbanBytes)
      BY <1>0, <1>1, <3>1, <3>2 DEF All
    <3> QED
      BY <3>1, <3>2, <3>3, <3>4
  <2>5. ASSUME NEW j \in Nat, j - p \in 2 .. GroupSize + 1, All(s, p + 1, j, IbanBytes),
               IsWordBoundary(s, j)
        PROVE  m > 0 /\ j <= p + 1 + m
    <3>1. j <= end
      BY <1>0, <2>5, RunBounds DEF end
    <3> DEFINE t == j - p - 1
    <3>2. p + 1 + t = j /\ t \in 1 .. run
      BY <1>0, <1>1, <1>2, <2>5, <3>1, ScrubConstants
    <3> HIDE DEF t
    <3>3. t \in B
      BY <2>5, <3>2
    <3>4. t <= m
      BY <2>2, <3>3
    <3> QED
      BY <2>2, <3>2, <3>4
  <2> QED
    BY <1>4, <2>3, <2>4, <2>5 DEF m
<1> QED
  BY <1>3, <1>4

\* A whole group at p lies in the text.
LEMMA GroupLiesIn ==
  ASSUME NEW S, NEW s \in Seq(S), NEW p \in Nat, IsIbanGroup(s, p)
  PROVE  p + GroupSize \in 1 .. Len(s)
<1>1. All(s, p + 1, p + 1 + GroupSize, IbanBytes)
  BY Zenon DEF IsIbanGroup
<1>2. At(s, p + GroupSize) \in IbanBytes
  BY <1>1, ScrubConstants DEF All
<1> QED
  BY <1>2, IbanClass, ScrubConstants, AtIn

\* Where the spaced form ends, as iban_candidate_end() finds it.
SpacedEnd(s, i) ==
  LET p == After(i, SpacedCount(s, i))
  IN  IF TailCount(s, p) > 0 THEN p + 1 + TailCount(s, p) ELSE p

\* The spaced form: the code gives back groups from the last, the pattern's longest match is
\* the first it then comes to.
LEMMA SpacedIs ==
  ASSUME NEW S, NEW s \in Seq(S), NEW i \in 1 .. Len(s), IbanStarts(s, i)
  PROVE  /\ SpacedCount(s, i) >= GroupsMin => SpacedEnd(s, i) = LongestOf(SpacedEnds(s, i))
         /\ ~(SpacedCount(s, i) >= GroupsMin) => LongestOf(SpacedEnds(s, i)) = 0
<1> DEFINE ends == SpacedEnds(s, i)
           m == SpacedCount(s, i)
           B == {g \in GroupsMin .. GroupCount(s, i) : Stops(s, i, g)}
           p == After(i, m)
           t == TailCount(s, p)
           e == SpacedEnd(s, i)
           Behind(g, j) == \/ j = After(i, g)
                           \/ /\ At(s, After(i, g)) = Space /\ j - After(i, g) \in 2 .. GroupSize + 1
                              /\ All(s, After(i, g) + 1, j, IbanBytes)
<1>0. Len(s) \in Nat /\ i \in Nat /\ GroupCount(s, i) \in 0 .. GroupsMax
  BY GroupCountIs
<1>1. m \in Int /\ m >= GroupsMin - 1 /\ (m >= GroupsMin => m \in B) /\ \A g \in B : g <= m
  <2>1. m = Max(B \cup {GroupsMin - 1})
    BY DEF SpacedCount
  <2>2. B \in SUBSET (GroupsMin .. GroupCount(s, i)) /\ GroupsMin \in Int /\ GroupCount(s, i) \in Int
    BY <1>0, ScrubConstants
  <2> HIDE DEF B, m
  <2> QED
    BY <2>1, <2>2, GreatestOr
<1> HIDE DEF m
<1>2. ASSUME NEW j \in ends
      PROVE  /\ j \in Nat /\ j \in i + 1 .. Len(s) + 1 /\ IsWordBoundary(s, j)
             /\ \E g \in GroupsMin .. GroupsMax :
                  (\A h \in 0 .. g - 1 : IsIbanGroup(s, After(i, h))) /\ Behind(g, j)
  BY DEF SpacedEnds, IsSpacedIban, After
<1>3. ASSUME NEW j \in ends
      PROVE  \E g \in B : Behind(g, j) /\ j \in Nat /\ IsWordBoundary(s, j)
  <2>1. PICK g \in GroupsMin .. GroupsMax :
               (\A h \in 0 .. g - 1 : IsIbanGroup(s, After(i, h))) /\ Behind(g, j)
    BY <1>2
  <2>2. j \in Nat /\ IsWordBoundary(s, j) /\ g \in 0 .. GroupsMax /\ g \in Nat
    BY <1>2, ScrubConstants
  <2>3. g \in GroupsMin .. GroupCount(s, i)
    BY <1>0, <2>1, <2>2, GroupCountIs
  <2>4. After(i, g) \in Nat \ {0}
    BY <1>0, <2>2, AfterIs
  <2>5. Stops(s, i, g)
    <3>1. CASE j = After(i, g)
      BY <2>2, <3>1 DEF Stops
    <3>2. CASE j # After(i, g)
      BY <2>1, <2>2, <2>4, <3>2, TailCountIs DEF Stops
    <3> QED
      BY <3>1, <3>2
  <2> QED
    BY <2>1, <2>2, <2>3, <2>5
<1>4. ASSUME m >= GroupsMin PROVE e \in ends /\ \A j \in ends : j \in Int /\ j <= e
  <2>1. m \in GroupsMin .. GroupCount(s, i) /\ Stops(s, i, m) /\ m \in Nat /\ m \in Nat \ {0}
    BY <1>0, <1>1, <1>4, ScrubConstants
  <2>2. p \in Nat \ {0} /\ p >= i + 4
    BY <1>0, <2>1, AfterIs
  <2>3. e = IF t > 0 THEN p + 1 + t ELSE p
    BY DEF SpacedEnd, m
  <2>4. m \in GroupsMin .. GroupsMax /\ \A h \in 0 .. m - 1 : IsIbanGroup(s, After(i, h))
    BY <1>0, <2>1, GroupCountIs, ScrubConstants
  <2>5. p <= Len(s) + 1
    <3> DEFINE q == After(i, m - 1)
    <3>1. m - 1 \in Nat /\ m - 1 \in 0 .. m - 1 /\ (m - 1) + 1 = m
      BY <2>1
    <3>2. q \in Nat /\ p = q + GroupSize + 1 /\ IsIbanGroup(s, q)
      BY <1>0, <2>4, <3>1, AfterIs
    <3> HIDE DEF p, q
    <3> QED
      BY <1>0, <3>2, GroupLiesIn, ScrubConstants
  <2>6. /\ t \in Nat
        /\ t > 0 => /\ At(s, p) = Space /\ t \in 1 .. GroupSize /\ p + 1 + t <= Len(s) + 1
                    /\ All(s, p + 1, p + 1 + t, IbanBytes) /\ IsWordBoundary(s, p + 1 + t)
        /\ \A j \in Nat : /\ At(s, p) = Space /\ j - p \in 2 .. GroupSize + 1
                          /\ All(s, p + 1, j, IbanBytes) /\ IsWordBoundary(s, j)
                          => t > 0 /\ j <= p + 1 + t
    BY <2>2, TailCountIs
  <2>7. e \in Nat /\ p <= e /\ e \in i + 1 .. Len(s) + 1 /\ IsWordBoundary(s, e) /\ Behind(m, e)
    <3>1. CASE t > 0
      <4>1. e = p + 1 + t
        BY <2>3, <3>1
      <4> HIDE DEF e, t, p
      <4>2. e \in Nat /\ p <= e /\ e \in i + 1 .. Len(s) + 1 /\ e - p \in 2 .. GroupSize + 1
        BY <1>0, <2>2, <2>6, <3>1, <4>1, ScrubConstants
      <4>3. IsWordBoundary(s, e) /\ All(s, p + 1, e, IbanBytes) /\ At(s, p) = Space
        BY <2>6, <3>1, <4>1
      <4> QED
        BY <4>2, <4>3 DEF p
    <3>2. CASE ~(t > 0)
      <4>1. e = p
        BY <2>3, <3>2
      <4>2. IsWordBoundary(s, p)
        BY <2>1, <3>2 DEF Stops
      <4> HIDE DEF e, t
      <4>3. Behind(m, e)
        BY <4>1
      <4> HIDE DEF p, Behind
      <4> QED
        BY <1>0, <2>2, <2>5, <4>1, <4>2, <4>3
    <3> QED
      BY <3>1, <3>2
  <2>8. e \in ends
    <3> HIDE DEF e
    <3>1. IsSpacedIban(s, i, e)
      BY <2>4, <2>7 DEF IsSpacedIban, IbanStarts, After
    <3> QED
      BY <2>7, <3>1 DEF SpacedEnds
  <2>9. ASSUME NEW j \in ends PROVE j \in Int /\ j <= e
    <3>1. PICK g \in B : Behind(g, j) /\ j \in Nat /\ IsWordBoundary(s, j)
      BY <1>3
    <3>2. g <= m /\ g \in Nat
      BY <1>0, <1>1, ScrubConstants
    <3>3. CASE g = m
      <4>1. j = p \/ (At(s, p) = Space /\ j - p \in 2 .. GroupSize + 1 /\ All(s, p + 1, j, IbanBytes))
        BY <3>1, <3>3
      <4> HIDE DEF e, t, p
      <4>2. CASE j = p
        BY <2>7, <3>1, <4>2
      <4>3. CASE j # p
        <5>1. t > 0 /\ j <= p + 1 + t
          BY <2>6, <3>1, <4>1, <4>3
        <5> QED
          BY <2>3, <3>1, <5>1
      <4> QED
        BY <4>2, <4>3
    <3>4. CASE g # m
      <4>1. g < m
        BY <2>1, <3>2, <3>4
      <4>2. After(i, g) + GroupSize + 1 <= p /\ After(i, g) \in Nat
        BY <1>0, <2>1, <3>2, <4>1, AfterIs
      <4>3. j <= After(i, g) + GroupSize + 1
        BY <3>1, <4>2, ScrubConstants
      <4> HIDE DEF e, p
      <4> QED
        BY <2>2, <2>7, <3>1, <4>2, <4>3, ScrubConstants
    <3> QED
      BY <3>3, <3>4
  <2> QED
    BY <2>8, <2>9
<1> HIDE DEF e
<1>5. ASSUME m >= GroupsMin PROVE e = LongestOf(ends)
  <2>1. e \in ends /\ (\A j \in ends : j \in Int /\ j <= e)
    BY <1>4, <1>5
  <2>2. ends \in SUBSET Int /\ e \in Int
    BY <2>1
  <2> HIDE DEF ends
  <2> QED
    BY <2>1, <2>2, LongestIs
<1>6. ASSUME ~(m >= GroupsMin) PROVE LongestOf(ends) = 0
  <2>1. B = {}
    BY <1>0, <1>1, <1>6, ScrubConstants
  <2>2. ends = {}
    <3> HIDE DEF B, ends
    <3> QED
      BY <1>3, <2>1
  <2> QED
    BY <2>2 DEF LongestOf
<1> QED
  BY <1>5, <1>6 DEF m, e, ends

\* Every IBAN candidate of a message is the one the pattern finds, compact before spaced,
\* whatever the lengths are (pii_scrubber.cpp's iban_candidate_end()).
THEOREM IbansFound ==
  ASSUME NEW S, NEW s \in Seq(S)
  PROVE  FindsIbans(s)
<1>1. ASSUME NEW i \in 1 .. Len(s)
      PROVE  IbanCandidateEnd(s, i) =
               IF LongestOf(CompactEnds(s, i)) > 0 THEN LongestOf(CompactEnds(s, i))
                                                   ELSE LongestOf(SpacedEnds(s, i))
  <2> DEFINE c == CompactCount(s, i)
             g == SpacedCount(s, i)
  <2>1. IbanCandidateEnd(s, i) =
          CASE IbanStarts(s, i) /\ c >= CompactMin -> i + 4 + c
            [] IbanStarts(s, i) /\ c < CompactMin /\ g >= GroupsMin -> SpacedEnd(s, i)
            [] OTHER -> 0
    BY DEF IbanCandidateEnd, IbanStarts, CompactCount, SpacedCount, SpacedEnd, GroupCount, Stops,
           TailCount, After, GivesBack
  <2> HIDE DEF c, g
  <2>2. CASE ~IbanStarts(s, i)
    <3>1. CompactEnds(s, i) = {} /\ SpacedEnds(s, i) = {}
      BY <2>2 DEF CompactEnds, SpacedEnds, IsCompactIban, IsSpacedIban, IbanStarts
    <3>2. IbanCandidateEnd(s, i) = 0
      BY <2>1, <2>2
    <3> QED
      BY <3>1, <3>2 DEF LongestOf
  <2>3. CASE IbanStarts(s, i) /\ c >= CompactMin
    <3>2. i + 4 + c = LongestOf(CompactEnds(s, i)) /\ c \in Int
      BY <2>3, CompactIs DEF c
    <3>0. ~(c < CompactMin)
      BY <2>3, <3>2, ScrubConstants
    <3>1. IbanCandidateEnd(s, i) = i + 4 + c
      BY <2>1, <2>3, <3>0
    <3> QED
      BY <2>3, <3>1, <3>2, ScrubConstants
  <2>4. CASE IbanStarts(s, i) /\ ~(c >= CompactMin)
    <3>1. c < CompactMin /\ CompactEnds(s, i) = {}
      <4>1. c \in Int /\ (c < CompactMin => CompactEnds(s, i) = {})
        BY <2>4, CompactIs DEF c
      <4> QED
        BY <2>4, <4>1, ScrubConstants
    <3>2. IbanCandidateEnd(s, i) = IF g >= GroupsMin THEN SpacedEnd(s, i) ELSE 0
      BY <2>1, <2>4, <3>1
    <3>3. IbanCandidateEnd(s, i) = LongestOf(SpacedEnds(s, i))
      BY <2>4, <3>2, SpacedIs DEF g
    <3> QED
      BY <3>1, <3>3 DEF LongestOf
  <2> QED
    BY <2>2, <2>3, <2>4
<1>2. DOMAIN s = 1 .. Len(s)
  OBVIOUS
<1> QED
  BY <1>1, <1>2 DEF FindsIbans, Longest, LongestOf, CompactEnds, SpacedEnds

-----------------------------------------------------------------------------
(* Literals in a statement: where they end *)

\* A walk through a text that stops somewhere: next is where it goes from each place, 0 where
\* it stops, and last what it comes to there.
IsWalk(f, n, next, last) ==
  f = [j \in 1 .. n |-> IF next[j] = 0 THEN last[j] ELSE f[next[j]]]

\* A walk that only goes forward is what its equation says.
LEMMA WalkDefined ==
  ASSUME NEW n \in Nat, NEW next, NEW last, \A j \in 1 .. n : next[j] = 0 \/ next[j] \in j + 1 .. n
  PROVE  \E f : IsWalk(f, n, next, last)
<1> DEFINE Body(f, j) == IF next[j] = 0 THEN last[j] ELSE f[next[j]]
           From(f, m) == f = [j \in m .. n |-> Body(f, j)]
           P == {k \in 0 .. n : \E f : From(f, n + 1 - k)}
<1>1. 0 \in P
  <2> DEFINE f == [j \in n + 1 .. n |-> 0]
  <2>1. f = [j \in n + 1 .. n |-> Body(f, j)]
    OBVIOUS
  <2>2. From(f, n + 1) /\ n + 1 - 0 = n + 1
    BY <2>1
  <2> HIDE DEF From
  <2> QED
    BY <2>2
<1>2. ASSUME NEW k \in 1 .. n, k - 1 \in P PROVE k \in P
  <2> DEFINE m == n + 1 - k
  <2>0. m \in 1 .. n /\ n + 1 - (k - 1) = m + 1
    OBVIOUS
  <2>1. PICK f : From(f, m + 1)
    BY <1>2, <2>0
  <2> HIDE DEF m
  <2> DEFINE g == [j \in m .. n |-> IF j = m THEN Body(f, m) ELSE f[j]]
  <2>2. \A j \in m + 1 .. n : g[j] = f[j] /\ j \in m .. n
    BY <2>0
  <2>3. \A j \in m + 1 .. n : f[j] = Body(f, j)
    <3> HIDE DEF Body
    <3> QED
      BY <2>1
  <2>4. ASSUME NEW j \in m .. n PROVE Body(f, j) = Body(g, j)
    <3>1. j \in 1 .. n
      BY <2>0
    <3>2. next[j] = 0 \/ next[j] \in m + 1 .. n
      BY <2>0, <3>1
    <3> HIDE DEF g
    <3> QED
      BY <2>2, <3>2
  <2>5. ASSUME NEW j \in m .. n PROVE g[j] = Body(g, j)
    <3>1. g[j] = IF j = m THEN Body(f, m) ELSE f[j]
      OBVIOUS
    <3>2. j = m \/ j \in m + 1 .. n
      BY <2>0
    <3> HIDE DEF g, Body
    <3> QED
      BY <2>3, <2>4, <3>1, <3>2
  <2>6. From(g, m)
    <3>1. g = [j \in m .. n |-> g[j]]
      OBVIOUS
    <3> HIDE DEF g, Body
    <3> QED
      BY <2>5, <3>1
  <2> HIDE DEF From, g
  <2> QED
    BY <2>6 DEF m
<1>3. \A k \in 0 .. n : k \in P
  <2> HIDE DEF P
  <2> QED
    BY <1>1, <1>2, UpTo
<1>4. \E f : From(f, 1)
  <2>1. n \in 0 .. n /\ n + 1 - n = 1
    OBVIOUS
  <2> HIDE DEF From
  <2> QED
    BY <1>3, <2>1
<1> QED
  BY <1>4 DEF IsWalk

\* How QuotedEnd goes through a text that the quote at `open` opened.
QuotedNext(s, open) ==
  [j \in 1 .. Len(s) + 2 |->
     IF j > Len(s) THEN 0
     ELSE IF s[j] = Backslash THEN j + 2
     ELSE IF s[j] # s[open] THEN j + 1
     ELSE IF At(s, j + 1) = s[open] THEN j + 2 ELSE 0]

QuotedLast(s) == [j \in 1 .. Len(s) + 2 |-> IF j > Len(s) THEN Len(s) + 1 ELSE j + 1]

QuotedFrom(s, open) == CHOOSE f : IsWalk(f, Len(s) + 2, QuotedNext(s, open), QuotedLast(s))

\* What QuotedEnd finds from each place on.
LEMMA QuotedFromIs ==
  ASSUME NEW S, NEW s \in Seq(S), NEW open \in 1 .. Len(s)
  PROVE  LET e == QuotedFrom(s, open)
         IN  /\ QuotedEnd(s, open) = e[open + 1]
             /\ \A j \in 1 .. Len(s) + 2 :
                  e[j] = IF j > Len(s) THEN Len(s) + 1
                         ELSE IF s[j] = Backslash THEN e[j + 2]
                         ELSE IF s[j] # s[open] THEN e[j + 1]
                         ELSE IF At(s, j + 1) = s[open] THEN e[j + 2] ELSE j + 1
<1> DEFINE n == Len(s) + 2
           next == QuotedNext(s, open)
           last == QuotedLast(s)
           Body(f) == [j \in 1 .. n |->
                         IF j > Len(s) THEN Len(s) + 1
                         ELSE IF s[j] = Backslash THEN f[j + 2]
                         ELSE IF s[j] # s[open] THEN f[j + 1]
                         ELSE IF At(s, j + 1) = s[open] THEN f[j + 2] ELSE j + 1]
           Step(f) == [j \in 1 .. n |-> IF next[j] = 0 THEN last[j] ELSE f[next[j]]]
           e == QuotedFrom(s, open)
<1>0. n \in Nat /\ Len(s) \in Nat
  OBVIOUS
<1>1. \A j \in 1 .. n : next[j] = 0 \/ next[j] \in j + 1 .. n
  BY DEF QuotedNext
<1>2. ASSUME NEW f PROVE Step(f) = Body(f)
  BY DEF QuotedNext, QuotedLast
<1>3. e = Step(e)
  <2>1. \E f : IsWalk(f, n, next, last)
    <3> HIDE DEF n, next, last
    <3> QED
      BY <1>0, <1>1, WalkDefined
  <2>2. IsWalk(e, n, next, last)
    BY <2>1 DEF QuotedFrom
  <2> QED
    BY <2>2 DEF IsWalk
<1>4. e = Body(e)
  <2> HIDE DEF Step, Body, e
  <2> QED
    BY <1>2, <1>3
<1>5. QuotedEnd(s, open) = (CHOOSE f : f = Body(f))[open + 1]
  BY DEF QuotedEnd
<1>6. (CHOOSE f : f = Body(f)) = e
  <2>1. e = CHOOSE f : f = Step(f)
    BY DEF QuotedFrom, IsWalk
  <2>2. \A f : f = Step(f) <=> f = Body(f)
    <3> HIDE DEF Step, Body
    <3> QED
      BY <1>2
  <2> HIDE DEF Step, Body, e
  <2> QED
    BY <2>1, <2>2, Zenon
<1> HIDE DEF e
<1>7. \A j \in 1 .. n : e[j] = Body(e)[j]
  <2> HIDE DEF Body
  <2> QED
    BY <1>4
<1>8. QuotedEnd(s, open) = e[open + 1]
  <2> HIDE DEF Body
  <2> QED
    BY <1>5, <1>6
<1> QED
  BY <1>7, <1>8 DEF e

\* The text that a quote opens ends past the quote and within the statement.
LEMMA QuotedEndBounds ==
  ASSUME NEW S, NEW s \in Seq(S), NEW open \in 1 .. Len(s)
  PROVE  /\ QuotedEnd(s, open) \in open + 1 .. Len(s) + 1
         /\ \A j \in 1 .. Len(s) + 2 : QuotedFrom(s, open)[j] \in 1 .. Len(s) + 1
         /\ \A j \in 1 .. Len(s) : QuotedFrom(s, open)[j] \in j + 1 .. Len(s) + 1
<1> DEFINE n == Len(s)
           e == QuotedFrom(s, open)
           P == {j \in 1 .. n + 2 : e[j] \in 1 .. n + 1 /\ (j <= n => e[j] \in j + 1 .. n + 1)}
<1>0. n \in Nat
  OBVIOUS
<1>1. /\ QuotedEnd(s, open) = e[open + 1]
      /\ \A j \in 1 .. n + 2 :
           e[j] = IF j > n THEN n + 1
                  ELSE IF s[j] = Backslash THEN e[j + 2]
                  ELSE IF s[j] # s[open] THEN e[j + 1]
                  ELSE IF At(s, j + 1) = s[open] THEN e[j + 2] ELSE j + 1
  BY QuotedFromIs
<1> HIDE DEF e
<1>2. ASSUME NEW k \in 1 .. n + 2, \A j \in k + 1 .. n + 2 : j \in P PROVE k \in P
  <2>1. CASE k > n
    <3>1. e[k] = n + 1 /\ ~(k <= n)
      BY <1>0, <1>1, <2>1
    <3> QED
      BY <1>0, <2>1, <3>1
  <2>2. CASE k <= n
    <3>1. k + 1 \in k + 1 .. n + 2 /\ k + 2 \in k + 1 .. n + 2
      BY <1>0, <2>2
    <3>2. e[k + 1] \in k + 1 .. n + 1 /\ e[k + 2] \in k + 1 .. n + 1
      <4>1. k + 1 \in P /\ k + 2 \in P
        BY <1>2, <3>1
      <4>2. k + 1 > n => e[k + 1] = n + 1
        BY <1>1, <3>1
      <4>3. k + 2 > n => e[k + 2] = n + 1
        BY <1>1, <3>1
      <4> QED
        BY <1>0, <2>2, <4>1, <4>2, <4>3
    <3>3. e[k] = e[k + 1] \/ e[k] = e[k + 2] \/ e[k] = k + 1
      BY <1>0, <1>1, <2>2
    <3> QED
      BY <1>0, <2>2, <3>2, <3>3
  <2> QED
    BY <1>0, <2>1, <2>2
<1>3. \A j \in 1 .. n + 2 : j \in P
  <2>1. n + 2 \in Nat
    BY <1>0
  <2> HIDE DEF P
  <2> QED
    BY <1>2, <2>1, DownFrom
<1>4. e[open + 1] \in open + 1 .. n + 1
  <2>1. open + 1 \in P
    BY <1>0, <1>3
  <2>2. open + 1 > n => e[open + 1] = n + 1
    BY <1>0, <1>1
  <2> QED
    BY <1>0, <2>1, <2>2
<1> QED
  BY <1>0, <1>1, <1>3, <1>4 DEF e

\* The letters that may stand before a quote, but for U&.
QuotePrefixes == {"E", "e", "X", "x", "N", "n", "B", "b"}

\* What is and what is not a quote, a mask, or a prefix.
LEMMA QuoteBytes ==
  /\ "'" \notin Words /\ "'" \notin QuotePrefixes /\ "'" # "U" /\ "'" # "u" /\ "'" # NoByte /\ "'" # "$"
  /\ "'" \notin Digits \cup {"."} /\ "'" # "&" /\ "?" # "'"
  /\ QuotePrefixes \subseteq Words /\ "U" \in Words /\ "u" \in Words
  /\ "U" \notin QuotePrefixes /\ "u" \notin QuotePrefixes /\ "&" \notin QuotePrefixes
  /\ "?" \notin Words \cup {"$", ".", "&", NoByte}
<1>1. /\ "'" \notin Letters /\ "'" \notin Digits /\ "?" \notin Letters /\ "?" \notin Digits
      /\ QuotePrefixes \subseteq Letters /\ "U" \in Letters /\ "u" \in Letters
  BY SMT DEF Digits, DigitOrder, Letters, Lowers, Uppers, LowerOrder, UpperOrder, Range, QuotePrefixes
<1>2. /\ "'" \notin QuotePrefixes /\ "'" # "U" /\ "'" # "u" /\ "'" # NoByte /\ "'" # "$" /\ "'" # "."
      /\ "'" # "&" /\ "?" # "'" /\ "U" \notin QuotePrefixes /\ "u" \notin QuotePrefixes /\ "&" \notin QuotePrefixes
      /\ "?" \notin {"$", ".", "&", NoByte}
  BY SMT DEF QuotePrefixes, NoByte
<1>3. "'" # "_" /\ "?" # "_"
  BY Zenon
<1> QED
  BY <1>1, <1>2, <1>3, Zenon DEF Words

\* The bytes themselves, for those that the definitions of the classes do not tell apart.
Alphanumerics == {"a", "b", "c", "d", "e", "f", "g", "h", "i", "j", "k", "l", "m", "n", "o", "p",
                  "q", "r", "s", "t", "u", "v", "w", "x", "y", "z", "A", "B", "C", "D", "E", "F",
                  "G", "H", "I", "J", "K", "L", "M", "N", "O", "P", "Q", "R", "S", "T", "U", "V",
                  "W", "X", "Y", "Z", "0", "1", "2", "3", "4", "5", "6", "7", "8", "9"}

LEMMA AlphanumericsAre == Letters \subseteq Alphanumerics /\ Digits \subseteq Alphanumerics
BY SMT DEF Digits, DigitOrder, Letters, Lowers, Uppers, LowerOrder, UpperOrder, Range, Alphanumerics

LEMMA DoubleQuoteBytes ==
  /\ DoubleQuote \notin Words \cup {"$", ".", "'", "&", "?", NoByte}
  /\ Backslash # "'" /\ Backslash # DoubleQuote
<1>1. DoubleQuote \notin {"$", ".", "'", "&", "?", NoByte} /\ Backslash # "'" /\ Backslash # DoubleQuote
  BY Zenon DEF DoubleQuote, Backslash, NoByte
<1>2. DoubleQuote \notin Alphanumerics /\ DoubleQuote # "_"
  BY Zenon DEF DoubleQuote, Alphanumerics
<1> QED
  BY <1>1, <1>2, AlphanumericsAre, Zenon DEF Words

\* No word runs on into i.
Apart(s, i) == At(s, i - 1) \notin Words \cup {"$"}

\* A literal with its prefix: where its quote is.
Quoted(s, i, q) ==
  \/ q = i
  \/ q = i + 1 /\ s[i] \in QuotePrefixes /\ Apart(s, i)
  \/ q = i + 2 /\ s[i] \in {"U", "u"} /\ At(s, i + 1) = "&" /\ Apart(s, i)

\* StringQuote finds the one place where the quote can be.
LEMMA StringQuoteIs ==
  ASSUME NEW S, NEW s \in Seq(S), NEW i \in 1 .. Len(s)
  PROVE  /\ StringQuote(s, i) # 0 =>
              /\ StringQuote(s, i) \in i .. Len(s) /\ s[StringQuote(s, i)] = "'"
              /\ Quoted(s, i, StringQuote(s, i))
         /\ \A q \in i .. Len(s) : s[q] = "'" /\ Quoted(s, i, q) => StringQuote(s, i) = q
         /\ s[i] \notin QuotePrefixes \cup {"U", "u", "'"} => StringQuote(s, i) = 0
<1> DEFINE quote == CASE s[i] = "'" -> i
                      [] s[i] \in {"E", "e", "X", "x", "N", "n", "B", "b"} -> i + 1
                      [] s[i] \in {"U", "u"} /\ At(s, i + 1) = "&" -> i + 2
                      [] OTHER -> 0
           value == IF At(s, quote) = "'" /\ (quote = i \/ At(s, i - 1) \notin Words \cup {"$"})
                      THEN quote ELSE 0
<1>0. StringQuote(s, i) = value
  BY DEF StringQuote
<1>1. s[i] = "'" => quote = i
  BY QuoteBytes DEF QuotePrefixes
<1>2. s[i] \in QuotePrefixes => quote = i + 1
  BY QuoteBytes DEF QuotePrefixes
<1>3. s[i] \in {"U", "u"} /\ At(s, i + 1) = "&" => quote = i + 2
  BY QuoteBytes DEF QuotePrefixes
<1>4. s[i] # "'" /\ s[i] \notin QuotePrefixes /\ ~(s[i] \in {"U", "u"} /\ At(s, i + 1) = "&") => quote = 0
  BY DEF QuotePrefixes
<1> HIDE DEF quote
<1>5. value # 0 => /\ value = quote /\ At(s, quote) = "'" /\ quote \in {i, i + 1, i + 2}
                   /\ quote = i \/ Apart(s, i)
  BY <1>1, <1>2, <1>3, <1>4 DEF Apart
<1>6. At(s, quote) = "'" /\ (quote = i \/ Apart(s, i)) => value = quote
  BY DEF Apart
<1>7. At(s, 0) # "'"
  BY QuoteBytes DEF At
<1> HIDE DEF value
<1>8. ASSUME value # 0 PROVE value \in i .. Len(s) /\ s[value] = "'" /\ Quoted(s, i, value)
  <2>1. value \in 1 .. Len(s) /\ s[value] = "'"
    BY <1>5, <1>8, QuoteBytes DEF At
  <2> QED
    BY <1>1, <1>2, <1>3, <1>4, <1>5, <1>8, <2>1 DEF Quoted
<1>9. ASSUME NEW q \in i .. Len(s), s[q] = "'", Quoted(s, i, q) PROVE value = q
  <2>1. At(s, q) = "'" /\ (q = i \/ Apart(s, i))
    BY <1>9, AtIs DEF Quoted
  <2>2. quote = q
    BY <1>1, <1>2, <1>3, <1>9 DEF Quoted
  <2> QED
    BY <1>6, <2>1, <2>2
<1>10. s[i] \notin QuotePrefixes \cup {"U", "u", "'"} => value = 0
  BY <1>4, <1>5, <1>7
<1> QED
  BY <1>0, <1>8, <1>9, <1>10

\* Where the quote stands of the string literal that begins at i, by either database's rules.
OpenedAt(s, i, mysql) == IF mysql /\ s[i] = DoubleQuote THEN i ELSE StringQuote(s, i)

\* A literal is a quoted one, or else what begins with its byte: a dollar-quoted body or a
\* number that stands apart.
LEMMA OpenedAtIs ==
  ASSUME NEW S, NEW s \in Seq(S), NEW i \in 1 .. Len(s), NEW mysql \in BOOLEAN
  PROVE  /\ OpenedAt(s, i, mysql) # 0 =>
              /\ OpenedAt(s, i, mysql) \in i .. Len(s) /\ Quoted(s, i, OpenedAt(s, i, mysql))
              /\ \/ s[OpenedAt(s, i, mysql)] = "'"
                 \/ mysql /\ OpenedAt(s, i, mysql) = i /\ s[i] = DoubleQuote
              /\ LiteralEnd(s, i, mysql) = QuotedEnd(s, OpenedAt(s, i, mysql))
         /\ \A q \in i .. Len(s) : s[q] = "'" /\ Quoted(s, i, q) => OpenedAt(s, i, mysql) = q
         /\ mysql /\ s[i] = DoubleQuote => OpenedAt(s, i, mysql) = i
         /\ OpenedAt(s, i, mysql) = 0 =>
              LiteralEnd(s, i, mysql) =
                IF s[i] = "$" THEN DollarEnd(s, i)
                ELSE IF s[i] \in Digits \cup {"."} /\ At(s, i - 1) \notin Words \cup {"$", "."}
                THEN NumberEnd(s, i) ELSE 0
         /\ s[i] \in Digits \cup {".", "$"} => OpenedAt(s, i, mysql) = 0
<1> DEFINE q == OpenedAt(s, i, mysql)
           end == CASE q > 0 -> QuotedEnd(s, q)
                    [] q = 0 /\ s[i] = "$" -> DollarEnd(s, i)
                    [] q = 0 /\ s[i] \in Digits \cup {"."} ->
                         IF At(s, i - 1) \in Words \cup {"$", "."} THEN 0 ELSE NumberEnd(s, i)
                    [] OTHER -> 0
<1>1. LiteralEnd(s, i, mysql) = end
  BY DEF LiteralEnd, OpenedAt
<1>2. q # 0 => /\ q \in i .. Len(s) /\ Quoted(s, i, q)
               /\ s[q] = "'" \/ (mysql /\ q = i /\ s[i] = DoubleQuote)
  BY StringQuoteIs DEF OpenedAt, Quoted
<1>3. \A p \in i .. Len(s) : s[p] = "'" /\ Quoted(s, i, p) => q = p
  <2> SUFFICES ASSUME NEW p \in i .. Len(s), s[p] = "'", Quoted(s, i, p) PROVE q = p
    OBVIOUS
  <2>1. StringQuote(s, i) = p
    BY StringQuoteIs
  <2>2. p = i \/ s[i] \in Words
    BY QuoteBytes DEF Quoted
  <2>3. s[i] # DoubleQuote
    BY <2>2, DoubleQuoteBytes
  <2> QED
    BY <2>1, <2>3 DEF OpenedAt
<1>4. mysql /\ s[i] = DoubleQuote => q = i
  BY DEF OpenedAt
<1>5. s[i] \in Digits \cup {".", "$"} => q = 0
  <2> SUFFICES ASSUME s[i] \in Digits \cup {".", "$"} PROVE q = 0
    OBVIOUS
  <2>1. s[i] \notin QuotePrefixes \cup {"U", "u", "'"}
    <3>1. "U" \notin Digits /\ "u" \notin Digits /\ "." \notin QuotePrefixes \cup {"U", "u"}
          /\ "$" \notin QuotePrefixes \cup {"U", "u"} /\ \A c \in QuotePrefixes : c \notin Digits
      BY SMT DEF QuotePrefixes, Digits, DigitOrder, Range
    <3> QED
      BY <3>1, QuoteBytes
  <2>2. s[i] # DoubleQuote
    <3>1. Digits \subseteq Words
      BY ClassesNest
    <3> QED
      BY <3>1, DoubleQuoteBytes
  <2> QED
    BY <2>1, <2>2, StringQuoteIs DEF OpenedAt
<1> HIDE DEF q
<1>6. q # 0 => end = QuotedEnd(s, q)
  BY <1>2
<1>7. q = 0 => end = IF s[i] = "$" THEN DollarEnd(s, i)
                     ELSE IF s[i] \in Digits \cup {"."} /\ At(s, i - 1) \notin Words \cup {"$", "."}
                     THEN NumberEnd(s, i) ELSE 0
  <2>1. "$" \notin Digits \cup {"."}
    BY SMT DEF Digits, DigitOrder, Range
  <2> QED
    BY <2>1
<1> HIDE DEF end
<1> QED
  BY <1>1, <1>2, <1>3, <1>4, <1>5, <1>6, <1>7 DEF q

\* A dollar-quoted body ends past its tag and within the statement; it is one whenever a
\* tag is opened.
LEMMA DollarEndBounds ==
  ASSUME NEW S, NEW s \in Seq(S), NEW i \in 1 .. Len(s), s[i] = "$"
  PROVE  /\ DollarEnd(s, i) = 0 \/ DollarEnd(s, i) \in i + 1 .. Len(s) + 1
         /\ DollarEnd(s, i) = 0 <=> At(s, RunEnd(s, i + 1, Letters \cup {"_"})) # "$"
<1> DEFINE C == Letters \cup {"_"}
           j == RunEnd(s, i + 1, C)
           tag == SubSeq(s, i, j)
           closes == {k \in j + 1 .. Len(s) + i - j : SubSeq(s, k, k + j - i) = tag}
           end == CASE At(s, j) # "$" -> 0
                    [] At(s, j) = "$" /\ closes = {} -> Len(s) + 1
                    [] OTHER -> Min(closes) + Len(tag)
<1>1. DollarEnd(s, i) = end
  BY DEF DollarEnd
<1>2. NoByte \notin C
  <2>1. NoByte # "_"
    BY Zenon DEF NoByte
  <2> QED
    BY <2>1, NotBytes
<1>3. j \in Nat /\ j >= i + 1
  <2> HIDE DEF C
  <2> QED
    BY <1>2, RunEndIs
<1>4. CASE At(s, j) # "$"
  <2>1. end = 0
    <3> HIDE DEF j, closes
    <3> QED
      BY <1>4
  <2> HIDE DEF end
  <2> QED
    BY <1>1, <1>4, <2>1, Zenon
<1>5. CASE At(s, j) = "$"
  <2>1. j \in 1 .. Len(s)
    <3>1. NoByte # "$"
      BY DEF NoByte
    <3> HIDE DEF j
    <3> QED
      BY <1>3, <1>5, <3>1 DEF At
  <2> HIDE DEF j
  <2>2. Len(tag) = j - i + 1
    BY <1>3, <2>1
  <2> HIDE DEF tag
  <2>3. CASE closes = {}
    <3>1. end = Len(s) + 1
      <4> HIDE DEF closes
      <4> QED
        BY <1>5, <2>3
    <3>2. end \in i + 1 .. Len(s) + 1 /\ end # 0
      <4> HIDE DEF end
      <4> QED
        BY <3>1
    <3> HIDE DEF end
    <3> QED
      BY <1>1, <1>5, <3>2, Zenon DEF j
  <2>4. CASE closes # {}
    <3>1. closes \in SUBSET Nat
      BY <1>3, <2>1
    <3>2. Min(closes) \in closes
      BY <2>4, <3>1, MinOf
    <3>3. Min(closes) \in j + 1 .. Len(s) + i - j
      BY <3>2
    <3>4. end = Min(closes) + Len(tag)
      <4> HIDE DEF closes
      <4> QED
        BY <1>5, <2>4
    <3>5. end \in i + 1 .. Len(s) + 1 /\ end # 0
      <4> HIDE DEF closes, end
      <4> QED
        BY <1>3, <2>1, <2>2, <3>3, <3>4
    <3> HIDE DEF end
    <3> QED
      BY <1>1, <1>5, <3>5, Zenon DEF j
  <2> QED
    BY <2>3, <2>4
<1> QED
  BY <1>4, <1>5

\* What number_end() finds is a number, and it finds one where there is one.
LEMMA NumberEndBounds ==
  ASSUME NEW S, NEW s \in Seq(S), NEW i \in 1 .. Len(s), s[i] \in Digits \cup {"."}
  PROVE  /\ NumberEnd(s, i) # 0 =>
              /\ NumberEnd(s, i) \in i + 1 .. Len(s) + 1
              /\ IsNumber(s, i, NumberEnd(s, i)) /\ EndsHere(s, NumberEnd(s, i))
         /\ \A j \in i + 1 .. Len(s) + 1 : IsNumber(s, i, j) /\ EndsHere(s, j) => NumberEnd(s, i) # 0
<1> DEFINE ends == {j \in i + 1 .. Len(s) + 1 : IsNumber(s, i, j) /\ EndsHere(s, j)}
<1>1. NumberEnd(s, i) = IF ends = {} THEN 0 ELSE Max(ends)
  <2> DEFINE Ending(k) == LET found == {j \in k + 1 .. Len(s) + 1 : IsNumber(s, k, j) /\ EndsHere(s, j)}
                          IN  IF found = {} THEN 0 ELSE Max(found)
             longest == [k \in 1 .. Len(s) |-> Ending(k)]
  <2>1. HidesNumbers(s)
    BY NumbersFound
  <2>2. \A k \in DOMAIN s : s[k] \in Digits \cup {"."} => NumberEnd(s, k) = longest[k]
    BY <2>1 DEF HidesNumbers, Longest
  <2>3. longest[i] = Ending(i)
    OBVIOUS
  <2>4. i \in DOMAIN s
    OBVIOUS
  <2> HIDE DEF longest
  <2>5. NumberEnd(s, i) = Ending(i)
    <3> HIDE DEF Ending
    <3> QED
      BY <2>2, <2>3, <2>4
  <2> QED
    BY <2>5
<1>2. ends # {} => Max(ends) \in ends
  <2>1. ends \in SUBSET Int /\ Len(s) + 1 \in Int /\ \A k \in ends : k <= Len(s) + 1
    OBVIOUS
  <2> HIDE DEF ends
  <2> QED
    BY <2>1, MaxOf
<1>3. \A j \in ends : j # 0
  OBVIOUS
<1>4. \A j \in i + 1 .. Len(s) + 1 : IsNumber(s, i, j) /\ EndsHere(s, j) => j \in ends
  OBVIOUS
<1>5. \A j \in ends : j \in i + 1 .. Len(s) + 1 /\ IsNumber(s, i, j) /\ EndsHere(s, j)
  OBVIOUS
<1> HIDE DEF ends
<1> QED
  BY <1>1, <1>2, <1>3, <1>4, <1>5

\* A literal ends past its beginning and within the statement.
LEMMA LiteralEndBounds ==
  ASSUME NEW S, NEW s \in Seq(S), NEW i \in 1 .. Len(s), NEW mysql \in BOOLEAN
  PROVE  LiteralEnd(s, i, mysql) = 0 \/ LiteralEnd(s, i, mysql) \in i + 1 .. Len(s) + 1
<1> DEFINE q == OpenedAt(s, i, mysql)
           e == LiteralEnd(s, i, mysql)
<1>1. CASE q # 0
  <2>1. q \in i .. Len(s) /\ e = QuotedEnd(s, q)
    BY <1>1, OpenedAtIs
  <2>2. QuotedEnd(s, q) \in q + 1 .. Len(s) + 1
    <3> HIDE DEF q
    <3> QED
      BY <2>1, QuotedEndBounds
  <2> HIDE DEF q, e
  <2> QED
    BY <2>1, <2>2 DEF e
<1>2. CASE q = 0
  <2>1. e = IF s[i] = "$" THEN DollarEnd(s, i)
            ELSE IF s[i] \in Digits \cup {"."} /\ At(s, i - 1) \notin Words \cup {"$", "."}
            THEN NumberEnd(s, i) ELSE 0
    BY <1>2, OpenedAtIs
  <2> HIDE DEF e
  <2> QED
    BY <2>1, DollarEndBounds, NumberEndBounds DEF e
<1> QED
  BY <1>1, <1>2

\* Which byte of s each byte of what is made of it stands for: mark stands for a match, every
\* other byte for itself.  place[k] is where the loop is as it writes the k-th byte, and past
\* the end when it has written the last.
IsWay(s, end, mark, out, place) ==
  LET n == Len(out)
  IN  /\ out \in Seq({s[i] : i \in 1 .. Len(s)} \cup {mark})
      /\ place \in [1 .. n + 1 -> 1 .. Len(s) + 1]
      /\ place[n + 1] = Len(s) + 1
      /\ \A k \in 1 .. n :
           /\ place[k] \in 1 .. Len(s)
           /\ IF end[place[k]] = 0 THEN out[k] = s[place[k]] /\ place[k + 1] = place[k] + 1
                                   ELSE out[k] = mark /\ place[k + 1] = end[place[k]]

\* The loop leaves such a way.
LEMMA WayFrom ==
  ASSUME NEW S, NEW s \in Seq(S), NEW end, NEW mark,
         \A i \in 1 .. Len(s) : end[i] = 0 \/ end[i] \in i + 1 .. Len(s) + 1
  PROVE  LET f == Rewriting(s, end, [i \in 1 .. Len(s) |-> <<mark>>])
         IN  \E place : IsWay(s, end, mark, f[1], place) /\ place[1] = 1
<1> DEFINE n == Len(s)
           piece == [i \in 1 .. n |-> <<mark>>]
           f == Rewriting(s, end, piece)
           T == {s[i] : i \in 1 .. n} \cup {mark}
           Way(i, place) == IsWay(s, end, mark, f[i], place) /\ place[1] = i
           P == {i \in 1 .. n + 1 : \E place : Way(i, place)}
<1>0. n \in Nat
  OBVIOUS
<1>1. f[n + 1] = <<>>
  BY RewritingStep
<1>2. ASSUME NEW i \in 1 .. n
      PROVE  f[i] = IF end[i] = 0 THEN <<s[i]>> \o f[i + 1] ELSE <<mark>> \o f[end[i]]
  <2>1. f[i] = IF end[i] = 0 THEN <<s[i]>> \o f[i + 1] ELSE piece[i] \o f[end[i]]
    BY RewritingStep
  <2>2. piece[i] = <<mark>>
    OBVIOUS
  <2> QED
    BY <2>1, <2>2
<1> HIDE DEF f, piece
<1>3. n + 1 \in P
  <2> DEFINE place == [k \in 1 .. 1 |-> n + 1]
  <2>1. Way(n + 1, place)
    BY <1>0, <1>1 DEF IsWay
  <2> QED
    BY <1>0, <2>1
<1>4. ASSUME NEW i \in 1 .. n, \A j \in i + 1 .. n + 1 : j \in P PROVE i \in P
  <2> DEFINE nx == IF end[i] = 0 THEN i + 1 ELSE end[i]
             c == IF end[i] = 0 THEN s[i] ELSE mark
  <2>1. nx \in i + 1 .. n + 1 /\ f[i] = <<c>> \o f[nx] /\ c \in T
    <3>1. CASE end[i] = 0
      <4>1. nx = i + 1 /\ c = s[i]
        BY <3>1
      <4>2. s[i] \in T
        OBVIOUS
      <4>3. f[i] = <<s[i]>> \o f[i + 1]
        BY <1>2, <3>1
      <4>4. i + 1 \in i + 1 .. n + 1
        BY <1>0
      <4> HIDE DEF nx, c, T
      <4> QED
        BY <4>1, <4>2, <4>3, <4>4
    <3>2. CASE end[i] # 0
      <4>1. nx = end[i] /\ c = mark
        BY <3>2
      <4> HIDE DEF nx, c
      <4> QED
        BY <1>2, <3>2, <4>1
    <3> QED
      BY <3>1, <3>2
  <2>2. PICK old : Way(nx, old)
    <3> HIDE DEF nx
    <3> QED
      BY <1>4, <2>1
  <2> DEFINE m == Len(f[nx])
             place == [k \in 1 .. m + 2 |-> IF k = 1 THEN i ELSE old[k - 1]]
  <2>3. /\ f[nx] \in Seq(T) /\ m \in Nat /\ old \in [1 .. m + 1 -> 1 .. n + 1]
        /\ old[m + 1] = n + 1 /\ old[1] = nx
        /\ \A k \in 1 .. m :
             /\ old[k] \in 1 .. n
             /\ IF end[old[k]] = 0 THEN f[nx][k] = s[old[k]] /\ old[k + 1] = old[k] + 1
                                   ELSE f[nx][k] = mark /\ old[k + 1] = end[old[k]]
    <3>1. IsWay(s, end, mark, f[nx], old) /\ old[1] = nx
      BY <2>2
    <3>2. f[nx] \in Seq(T)
      BY <3>1, Zenon DEF IsWay
    <3> HIDE DEF nx
    <3> QED
      BY <3>1, <3>2, LenProperties DEF IsWay
  <2>4. /\ f[i] \in Seq(T) /\ Len(f[i]) = m + 1 /\ f[i][1] = c
        /\ \A k \in 2 .. m + 1 : f[i][k] = f[nx][k - 1]
    <3> HIDE DEF nx, c, T
    <3>1. <<c>> \in Seq(T)
      BY <2>1
    <3>2. <<c>> \o f[nx] \in Seq(T)
      BY <2>3, <3>1, ConcatProperties
    <3> QED
      BY <2>1, <2>3, <3>1, <3>2
  <2>5. place \in [1 .. m + 2 -> 1 .. n + 1] /\ place[m + 2] = n + 1 /\ place[1] = i
    <3> HIDE DEF nx, m
    <3> QED
      BY <2>3
  <2>6. ASSUME NEW k \in 1 .. m + 1
        PROVE  /\ place[k] \in 1 .. n
               /\ IF end[place[k]] = 0 THEN f[i][k] = s[place[k]] /\ place[k + 1] = place[k] + 1
                                       ELSE f[i][k] = mark /\ place[k + 1] = end[place[k]]
    <3>1. CASE k = 1
      <4>1. place[1] = i /\ place[2] = nx
        <5> HIDE DEF nx, m
        <5> QED
          BY <2>3
      <4> HIDE DEF place, m
      <4> QED
        BY <2>4, <3>1, <4>1
    <3>2. CASE k # 1
      <4>1. k - 1 \in 1 .. m
        BY <2>3, <3>2
      <4>2. place[k] = old[k - 1] /\ place[k + 1] = old[k] /\ f[i][k] = f[nx][k - 1]
        <5> HIDE DEF nx, m
        <5> QED
          BY <2>3, <2>4, <3>2
      <4> HIDE DEF place, m, nx
      <4> QED
        BY <2>3, <4>1, <4>2
    <3> QED
      BY <3>1, <3>2
  <2>7. Way(i, place)
    <3> HIDE DEF place, m, f, nx, c
    <3> QED
      BY <1>0, <2>3, <2>4, <2>5, <2>6 DEF IsWay
  <2> HIDE DEF place, Way
  <2> QED
    BY <1>0, <2>7
<1>5. \A i \in 1 .. n + 1 : i \in P
  <2>1. n + 1 \in Nat
    BY <1>0
  <2>2. ASSUME NEW i \in 1 .. n + 1, \A j \in i + 1 .. n + 1 : j \in P PROVE i \in P
    <3> HIDE DEF P
    <3> QED
      BY <1>0, <1>3, <1>4, <2>2
  <2> HIDE DEF P
  <2> QED
    BY <2>1, <2>2, DownFrom
<1> QED
  <2> HIDE DEF Way
  <2>1. \E place : Way(1, place)
    BY <1>0, <1>5
  <2> QED
    BY <2>1 DEF Way, f, piece

\* The ends of the literals of s.
Ends(s, mysql) == [i \in 1 .. Len(s) |-> LiteralEnd(s, i, mysql)]

\* The masked text, byte by byte.
LEMMA MaskedIs ==
  ASSUME NEW S, NEW s \in Seq(S), NEW mysql \in BOOLEAN
  PROVE  /\ \A i \in 1 .. Len(s) : Ends(s, mysql)[i] = 0 \/ Ends(s, mysql)[i] \in i + 1 .. Len(s) + 1
         /\ \E place : IsWay(s, Ends(s, mysql), "?", Masked(s, mysql), place) /\ place[1] = 1
<1> DEFINE E == Ends(s, mysql)
           By(i, e) == <<"?">>
           piece == [i \in 1 .. Len(s) |-> <<"?">>]
           Scan(f) == [i \in 1 .. Len(s) + 1 |->
                         IF i > Len(s) THEN <<>>
                         ELSE LET end == LiteralEnd(s, i, mysql)
                              IN  IF end = 0 THEN <<s[i]>> \o f[i + 1] ELSE By(i, end) \o f[end]]
           Match(f) == [i \in 1 .. Len(s) + 1 |->
                         IF i > Len(s) THEN <<>>
                         ELSE IF E[i] = 0 THEN <<s[i]>> \o f[i + 1] ELSE piece[i] \o f[E[i]]]
<1>1. ASSUME NEW f PROVE Scan(f) = Match(f)
  <2>1. \A i \in 1 .. Len(s) : LiteralEnd(s, i, mysql) = E[i] /\ piece[i] = <<"?">>
    BY DEF Ends
  <2> HIDE DEF E, piece
  <2> QED
    BY <2>1
<1>2. (CHOOSE f : f = Scan(f))[1] = (CHOOSE f : f = Match(f))[1]
  <2> HIDE DEF Scan, Match
  <2>1. \A f : f = Scan(f) <=> f = Match(f)
    BY <1>1
  <2> QED
    BY <2>1, Zenon
<1>3. Masked(s, mysql) = (CHOOSE f : f = Scan(f))[1]
  BY DEF Masked, Replace
<1>4. Rewriting(s, E, piece) = CHOOSE f : f = Match(f)
  BY DEF Rewriting, IsRewriting
<1>5. \A i \in 1 .. Len(s) : E[i] = 0 \/ E[i] \in i + 1 .. Len(s) + 1
  <2>1. \A i \in 1 .. Len(s) : E[i] = LiteralEnd(s, i, mysql)
    BY DEF Ends
  <2> HIDE DEF E
  <2> QED
    BY <2>1, LiteralEndBounds
<1> HIDE DEF E
<1>6. \E place : IsWay(s, E, "?", Rewriting(s, E, piece)[1], place) /\ place[1] = 1
  BY <1>5, WayFrom
<1>7. Masked(s, mysql) = Rewriting(s, E, piece)[1]
  <2> HIDE DEF Scan, Match, piece
  <2> QED
    BY <1>2, <1>3, <1>4
<1> HIDE DEF piece
<1> QED
  BY <1>5, <1>6, <1>7 DEF E

-----------------------------------------------------------------------------
(* Masking twice *)

\* What is copied is copied as it stands.
LEMMA CopiedRun ==
  ASSUME NEW S, NEW s \in Seq(S), NEW end, NEW mark, NEW out, NEW place, IsWay(s, end, mark, out, place),
         NEW k \in 1 .. Len(out) + 1, NEW d \in Nat, k + d <= Len(out) + 1,
         \A x \in k .. k + d - 1 : out[x] # mark
  PROVE  /\ \A x \in 0 .. d : place[k + x] = place[k] + x
         /\ \A x \in 0 .. d - 1 : /\ place[k] + x \in 1 .. Len(s) /\ end[place[k] + x] = 0
                                  /\ out[k + x] = s[place[k] + x]
<1> DEFINE n == Len(out)
           P == {x \in 0 .. d : place[k + x] = place[k] + x}
<1>1. /\ n \in Nat /\ Len(s) \in Nat
      /\ place \in [1 .. n + 1 -> 1 .. Len(s) + 1]
      /\ \A x \in 1 .. n :
           /\ place[x] \in 1 .. Len(s)
           /\ IF end[place[x]] = 0 THEN out[x] = s[place[x]] /\ place[x + 1] = place[x] + 1
                                   ELSE out[x] = mark /\ place[x + 1] = end[place[x]]
  BY LenProperties DEF IsWay
<1>2. ASSUME NEW x \in k .. k + d - 1
      PROVE  /\ place[x] \in 1 .. Len(s) /\ end[place[x]] = 0
             /\ out[x] = s[place[x]] /\ place[x + 1] = place[x] + 1
  <2>1. x \in 1 .. n
    BY <1>1
  <2> HIDE DEF n
  <2> QED
    BY <1>1, <2>1
<1>3. 0 \in P
  <2>1. place[k] \in 1 .. Len(s) + 1
    BY <1>1
  <2> QED
    BY <2>1
<1>4. ASSUME NEW x \in 1 .. d, x - 1 \in P PROVE x \in P
  <2>1. k + (x - 1) \in k .. k + d - 1 /\ (k + (x - 1)) + 1 = k + x
    OBVIOUS
  <2>2. place[k + x] = place[k + (x - 1)] + 1
    BY <1>2, <2>1
  <2>3. place[k + (x - 1)] = place[k] + (x - 1) /\ place[k] \in 1 .. Len(s) + 1
    BY <1>1, <1>4
  <2> QED
    BY <2>2, <2>3
<1>5. \A x \in 0 .. d : x \in P
  <2> HIDE DEF P
  <2> QED
    BY <1>3, <1>4, UpTo
<1>6. ASSUME NEW x \in 0 .. d - 1
      PROVE  /\ place[k] + x \in 1 .. Len(s) /\ end[place[k] + x] = 0
             /\ out[k + x] = s[place[k] + x]
  <2>1. k + x \in k .. k + d - 1 /\ x \in 0 .. d
    OBVIOUS
  <2>2. place[k + x] = place[k] + x
    BY <1>5, <2>1
  <2> QED
    BY <1>2, <2>1, <2>2
<1> QED
  BY <1>5, <1>6

\* What a number is made of; it ends in a word byte.
LEMMA NumberSpells ==
  ASSUME NEW S, NEW s \in Seq(S), NEW i \in 1 .. Len(s), NEW j \in i + 1 .. Len(s) + 1, IsNumber(s, i, j)
  PROVE  /\ \A x \in i .. j - 1 : s[x] \in Words \cup {".", "+", "-"}
         /\ s[j - 1] \in Words
<1> DEFINE C == Words \cup {".", "+", "-"}
<1>0. /\ Digits \subseteq C /\ Hexes \subseteq C /\ "0" \in C /\ {"0", "1"} \subseteq C
      /\ \A c \in {"e", "E", "x", "X", "b", "B", ".", "+", "-"} : c \in C
  BY NumberBytes
<1>1. \A x \in 1 .. Len(s) : At(s, x) = s[x]
  BY AtIs
<1>2. CASE At(s, i) = "0" /\ j > i + 2 /\
           \/ At(s, i + 1) \in {"x", "X"} /\ All(s, i + 2, j, Hexes)
           \/ At(s, i + 1) \in {"b", "B"} /\ All(s, i + 2, j, {"0", "1"})
  <2>1. \A x \in i + 2 .. j - 1 : At(s, x) \in Hexes \/ At(s, x) \in {"0", "1"}
    BY <1>2 DEF All
  <2>2. \A x \in i .. j - 1 : At(s, x) \in C
    BY <1>0, <1>2, <2>1
  <2>3. At(s, j - 1) \in Words
    BY <1>2, <2>1, NumberBytes
  <2> HIDE DEF C
  <2>4. \A x \in i .. j - 1 : x \in 1 .. Len(s)
    OBVIOUS
  <2> QED
    BY <1>1, <2>2, <2>3, <2>4 DEF C
<1>3. CASE \E p, q \in i .. j :
             /\ p <= q /\ i < q
             /\ All(s, i, p, Digits)
             /\ p = q \/ (At(s, p) = "." /\ q > p + 1 /\ All(s, p + 1, q, Digits))
             /\ \/ q = j
                \/ /\ At(s, q) \in {"e", "E"}
                   /\ LET k == IF At(s, q + 1) \in {"+", "-"} THEN q + 2 ELSE q + 1
                      IN  k < j /\ All(s, k, j, Digits)
  <2>1. PICK p \in i .. j, q \in i .. j :
             /\ p <= q /\ i < q
             /\ All(s, i, p, Digits)
             /\ p = q \/ (At(s, p) = "." /\ q > p + 1 /\ All(s, p + 1, q, Digits))
             /\ \/ q = j
                \/ /\ At(s, q) \in {"e", "E"}
                   /\ LET k == IF At(s, q + 1) \in {"+", "-"} THEN q + 2 ELSE q + 1
                      IN  k < j /\ All(s, k, j, Digits)
    BY <1>3
  <2>2. \A x \in i .. q - 1 : At(s, x) \in Digits \/ At(s, x) = "."
    BY <2>1 DEF All
  <2>3. At(s, q - 1) \in Digits
    BY <2>1 DEF All
  <2>4. CASE q = j
    <3>1. \A x \in i .. j - 1 : At(s, x) \in C
      BY <1>0, <2>2, <2>4
    <3>2. At(s, j - 1) \in Words
      BY <2>3, <2>4, NumberBytes
    <3> HIDE DEF C
    <3>3. \A x \in i .. j - 1 : x \in 1 .. Len(s)
      OBVIOUS
    <3> QED
      BY <1>1, <3>1, <3>2, <3>3 DEF C
  <2>5. CASE q # j
    <3> DEFINE k == IF At(s, q + 1) \in {"+", "-"} THEN q + 2 ELSE q + 1
    <3>1. At(s, q) \in {"e", "E"} /\ k < j /\ All(s, k, j, Digits)
      BY <2>1, <2>5
    <3>2. k = q + 1 \/ (k = q + 2 /\ At(s, q + 1) \in {"+", "-"})
      OBVIOUS
    <3> HIDE DEF k
    <3>3. \A x \in k .. j - 1 : At(s, x) \in Digits
      BY <3>1 DEF All
    <3>4. \A x \in i .. j - 1 : At(s, x) \in C
      BY <1>0, <2>2, <3>1, <3>2, <3>3
    <3>5. At(s, j - 1) \in Words
      BY <3>1, <3>2, <3>3, NumberBytes
    <3> HIDE DEF C
    <3>6. \A x \in i .. j - 1 : x \in 1 .. Len(s)
      OBVIOUS
    <3> QED
      BY <1>1, <3>4, <3>5, <3>6 DEF C
  <2> QED
    BY <2>4, <2>5
<1> QED
  BY <1>2, <1>3 DEF IsNumber

\* A number is one wherever it stands.
LEMMA NumberMoves ==
  ASSUME NEW s, NEW t, NEW i \in Int, NEW j \in Int, NEW d \in Int,
         \A x \in i .. j - 1 : At(t, x + d) = At(s, x), IsNumber(s, i, j)
  PROVE  IsNumber(t, i + d, j + d)
<1>0. ASSUME NEW a \in Int, NEW b \in Int, NEW C, i <= a, b <= j, All(s, a, b, C)
      PROVE  All(t, a + d, b + d, C)
  <2> SUFFICES ASSUME NEW x \in a + d .. b + d - 1 PROVE At(t, x) \in C
    BY DEF All
  <2>1. x - d \in a .. b - 1 /\ x - d \in i .. j - 1 /\ (x - d) + d = x
    BY <1>0
  <2>2. At(t, (x - d) + d) = At(s, x - d)
    BY <2>1
  <2> QED
    BY <1>0, <2>1, <2>2 DEF All
<1>2. CASE At(s, i) = "0" /\ j > i + 2 /\
           \/ At(s, i + 1) \in {"x", "X"} /\ All(s, i + 2, j, Hexes)
           \/ At(s, i + 1) \in {"b", "B"} /\ All(s, i + 2, j, {"0", "1"})
  <2>1. At(t, i + d) = At(s, i) /\ At(t, (i + d) + 1) = At(s, i + 1) /\ j + d > (i + d) + 2
    <3>1. i \in i .. j - 1 /\ i + 1 \in i .. j - 1 /\ (i + 1) + d = (i + d) + 1
      BY <1>2
    <3>2. At(t, (i + 1) + d) = At(s, i + 1)
      BY <3>1
    <3> QED
      BY <1>2, <3>1, <3>2
  <2>2. All(s, i + 2, j, Hexes) => All(t, (i + d) + 2, j + d, Hexes)
    <3>1. All(s, i + 2, j, Hexes) => All(t, (i + 2) + d, j + d, Hexes)
      BY <1>0
    <3>2. (i + 2) + d = (i + d) + 2
      OBVIOUS
    <3> QED
      BY <3>1, <3>2
  <2>3. All(s, i + 2, j, {"0", "1"}) => All(t, (i + d) + 2, j + d, {"0", "1"})
    <3>1. All(s, i + 2, j, {"0", "1"}) => All(t, (i + 2) + d, j + d, {"0", "1"})
      BY <1>0
    <3>2. (i + 2) + d = (i + d) + 2
      OBVIOUS
    <3> QED
      BY <3>1, <3>2
  <2> QED
    BY <1>2, <2>1, <2>2, <2>3 DEF IsNumber
<1>3. CASE \E p, q \in i .. j :
             /\ p <= q /\ i < q
             /\ All(s, i, p, Digits)
             /\ p = q \/ (At(s, p) = "." /\ q > p + 1 /\ All(s, p + 1, q, Digits))
             /\ \/ q = j
                \/ /\ At(s, q) \in {"e", "E"}
                   /\ LET k == IF At(s, q + 1) \in {"+", "-"} THEN q + 2 ELSE q + 1
                      IN  k < j /\ All(s, k, j, Digits)
  <2> DEFINE Expo(u, q, e) == /\ At(u, q) \in {"e", "E"}
                              /\ LET k == IF At(u, q + 1) \in {"+", "-"} THEN q + 2 ELSE q + 1
                                 IN  k < e /\ All(u, k, e, Digits)
             Frac(u, p, q) == p = q \/ (At(u, p) = "." /\ q > p + 1 /\ All(u, p + 1, q, Digits))
  <2>1. PICK p \in i .. j, q \in i .. j :
             /\ p <= q /\ i < q
             /\ All(s, i, p, Digits)
             /\ Frac(s, p, q)
             /\ q = j \/ Expo(s, q, j)
    BY <1>3
  <2>2. p + d \in i + d .. j + d /\ q + d \in i + d .. j + d /\ p + d <= q + d /\ i + d < q + d
    BY <2>1
  <2>3. All(t, i + d, p + d, Digits)
    BY <1>0, <2>1
  <2>4. Frac(t, p + d, q + d)
    <3>1. CASE p = q
      BY <3>1
    <3>2. CASE p # q
      <4>1. At(s, p) = "." /\ q > p + 1 /\ All(s, p + 1, q, Digits)
        BY <2>1, <3>2
      <4>2. p \in i .. j - 1 /\ (p + 1) + d = (p + d) + 1 /\ q + d > (p + d) + 1
        BY <4>1
      <4>3. All(t, (p + 1) + d, q + d, Digits)
        BY <1>0, <4>1
      <4> QED
        BY <4>1, <4>2, <4>3
    <3> QED
      BY <3>1, <3>2
  <2>5. ASSUME Expo(s, q, j) PROVE Expo(t, q + d, j + d)
    <3> DEFINE k == IF At(s, q + 1) \in {"+", "-"} THEN q + 2 ELSE q + 1
               l == IF At(t, (q + d) + 1) \in {"+", "-"} THEN (q + d) + 2 ELSE (q + d) + 1
    <3>1. At(s, q) \in {"e", "E"} /\ k < j /\ All(s, k, j, Digits)
      BY <2>5
    <3>2. k \in Int /\ k >= q + 1
      OBVIOUS
    <3>3. q \in i .. j - 1 /\ q + 1 \in i .. j - 1 /\ (q + 1) + d = (q + d) + 1
      <4> HIDE DEF k
      <4> QED
        BY <3>1, <3>2
    <3>4. At(t, q + d) = At(s, q) /\ At(t, (q + d) + 1) = At(s, q + 1)
      <4>1. At(t, (q + 1) + d) = At(s, q + 1)
        BY <3>3
      <4> QED
        BY <3>3, <4>1
    <3>5. l = k + d
      BY <3>4
    <3>6. l < j + d /\ All(t, l, j + d, Digits)
      <4> HIDE DEF k, l
      <4>1. All(t, k + d, j + d, Digits)
        BY <1>0, <3>1, <3>2, <3>3
      <4> QED
        BY <3>1, <3>2, <3>5, <4>1
    <3> QED
      BY <3>1, <3>4, <3>6
  <2>6. q + d = j + d \/ Expo(t, q + d, j + d)
    BY <2>1, <2>5
  <2> QED
    BY <2>2, <2>3, <2>4, <2>6 DEF IsNumber
<1> QED
  BY <1>2, <1>3 DEF IsNumber

LEMMA DollarByte == "$" \notin Words
<1>1. "$" \notin Alphanumerics /\ "$" # "_"
  BY Zenon DEF Alphanumerics
<1> QED
  BY <1>1, AlphanumericsAre, Zenon DEF Words

\* Behind a byte that belongs to a word and begins nothing, a literal begins in no letter.
LEMMA LiteralsStandApart ==
  ASSUME NEW S, NEW s \in Seq(S), NEW i \in 1 .. Len(s), NEW mysql \in BOOLEAN,
         At(s, i - 1) \in Words, s[i] \in Words
  PROVE  LiteralEnd(s, i, mysql) = 0
<1> DEFINE q == OpenedAt(s, i, mysql)
<1>1. q = 0
  <2> SUFFICES ASSUME q # 0 PROVE FALSE
    OBVIOUS
  <2>1. Quoted(s, i, q) /\ (s[q] = "'" \/ (q = i /\ s[i] = DoubleQuote))
    BY OpenedAtIs
  <2>2. ~Apart(s, i)
    BY DEF Apart
  <2>3. q = i
    BY <2>1, <2>2 DEF Quoted
  <2> QED
    BY <2>1, <2>3, QuoteBytes, DoubleQuoteBytes
<1>2. s[i] # "$"
  BY DollarByte
<1> QED
  BY <1>1, <1>2, OpenedAtIs

\* What a second masking finds stands behind a mask of the first.
THEOREM FinalMask ==
  ASSUME NEW S, NEW s \in Seq(S), NEW mysql \in BOOLEAN
  PROVE  MaskIsFinal(s, mysql)
<1> DEFINE once == Masked(s, mysql)
           E == Ends(s, mysql)
           T == {s[i] : i \in 1 .. Len(s)} \cup {"?"}
           n == Len(once)
<1>1. PICK place : IsWay(s, E, "?", once, place) /\ place[1] = 1
  BY MaskedIs
<1>2. \A i \in 1 .. Len(s) : E[i] = LiteralEnd(s, i, mysql)
  BY DEF Ends
<1>3. \A i \in 1 .. Len(s) : E[i] = 0 \/ E[i] \in i + 1 .. Len(s) + 1
  BY MaskedIs
<1> HIDE DEF once, E
<1>4. /\ once \in Seq(T) /\ n \in Nat /\ Len(s) \in Nat
      /\ place \in [1 .. n + 1 -> 1 .. Len(s) + 1] /\ place[n + 1] = Len(s) + 1
  <2>1. once \in Seq(T)
    BY <1>1, Zenon DEF IsWay
  <2> QED
    BY <1>1, <2>1, LenProperties DEF IsWay
<1>5. ASSUME NEW k \in 1 .. n
      PROVE  /\ place[k] \in 1 .. Len(s)
             /\ IF E[place[k]] = 0 THEN once[k] = s[place[k]] /\ place[k + 1] = place[k] + 1
                                   ELSE once[k] = "?" /\ place[k + 1] = E[place[k]]
  BY <1>1 DEF IsWay
<1>6. ASSUME NEW k \in 1 .. n
      PROVE  once[k] # "'" /\ (mysql => once[k] # DoubleQuote)
  <2> DEFINE i == place[k]
  <2>0. i \in 1 .. Len(s)
    BY <1>5
  <2>1. CASE E[i] # 0
    BY <1>5, <2>1, QuoteBytes, DoubleQuoteBytes
  <2>2. CASE E[i] = 0
    <3>1. once[k] = s[i] /\ LiteralEnd(s, i, mysql) = 0
      BY <1>2, <1>5, <2>2
    <3> HIDE DEF i
    <3>2. OpenedAt(s, i, mysql) = 0
      <4> SUFFICES ASSUME OpenedAt(s, i, mysql) # 0 PROVE FALSE
        OBVIOUS
      <4> DEFINE q == OpenedAt(s, i, mysql)
      <4>1. q \in i .. Len(s) /\ LiteralEnd(s, i, mysql) = QuotedEnd(s, q)
        BY <2>0, OpenedAtIs
      <4> HIDE DEF q
      <4>2. QuotedEnd(s, q) \in q + 1 .. Len(s) + 1
        BY <2>0, <4>1, QuotedEndBounds
      <4> QED
        BY <2>0, <3>1, <4>1, <4>2
    <3>3. s[i] # "'"
      <4> SUFFICES ASSUME s[i] = "'" PROVE FALSE
        OBVIOUS
      <4>1. OpenedAt(s, i, mysql) = i
        BY <2>0, OpenedAtIs DEF Quoted
      <4> QED
        BY <2>0, <3>2, <4>1
    <3>4. mysql => s[i] # DoubleQuote
      <4>1. OpenedAt(s, i, mysql) # i
        BY <2>0, <3>2
      <4> QED
        BY <4>1, Zenon DEF OpenedAt
    <3> QED
      BY <3>1, <3>3, <3>4
  <2> QED
    BY <2>1, <2>2
<1>7. ASSUME NEW k \in 1 .. n, LiteralEnd(once, k, mysql) # 0, At(once, k - 1) # "?" PROVE FALSE
  <2> DEFINE i == place[k]
  <2>0. i \in 1 .. Len(s)
    BY <1>5
  <2>1. OpenedAt(once, k, mysql) = 0
    <3> SUFFICES ASSUME OpenedAt(once, k, mysql) # 0 PROVE FALSE
      OBVIOUS
    <3> DEFINE q == OpenedAt(once, k, mysql)
    <3>1. q \in k .. n /\ (s = s) /\ (once[q] = "'" \/ (mysql /\ q = k /\ once[k] = DoubleQuote))
      BY <1>4, OpenedAtIs
    <3> HIDE DEF q
    <3> QED
      BY <1>4, <1>6, <3>1
  <2>2. LiteralEnd(once, k, mysql) =
          IF once[k] = "$" THEN DollarEnd(once, k)
          ELSE IF once[k] \in Digits \cup {"."} /\ At(once, k - 1) \notin Words \cup {"$", "."}
          THEN NumberEnd(once, k) ELSE 0
    BY <1>4, <2>1, OpenedAtIs
  <2>3. once[k] \in Digits \cup {".", "$"}
    BY <1>7, <2>2
  <2>4. "?" \notin Digits \cup {".", "$"} /\ Digits \subseteq Words
    BY QuoteBytes, NumberBytes
  <2>5. E[i] = 0 /\ once[k] = s[i] /\ place[k + 1] = i + 1 /\ LiteralEnd(s, i, mysql) = 0
    BY <1>2, <1>5, <2>3, <2>4
  <2> HIDE DEF i
  <2>6. At(s, i - 1) = At(once, k - 1)
    <3>1. CASE k = 1
      <4>1. i = 1
        BY <1>1, <3>1 DEF i
      <4> QED
        BY <3>1, <4>1 DEF At
    <3>2. CASE k # 1
      <4>1. k - 1 \in 1 .. n /\ (k - 1) + 1 = k
        BY <1>4, <3>2
      <4>2. At(once, k - 1) = once[k - 1]
        BY <1>4, <4>1 DEF At
      <4>3. once[k - 1] = s[place[k - 1]] /\ i = place[k - 1] + 1 /\ place[k - 1] \in 1 .. Len(s)
        BY <1>5, <1>7, <4>1, <4>2 DEF i
      <4> QED
        BY <4>2, <4>3 DEF At
    <3> QED
      BY <3>1, <3>2
  <2>7. OpenedAt(s, i, mysql) = 0
    BY <2>0, <2>3, <2>5, OpenedAtIs
  <2>8. LiteralEnd(s, i, mysql) =
          IF s[i] = "$" THEN DollarEnd(s, i)
          ELSE IF s[i] \in Digits \cup {"."} /\ At(s, i - 1) \notin Words \cup {"$", "."}
          THEN NumberEnd(s, i) ELSE 0
    BY <2>0, <2>7, OpenedAtIs
  <2>9. ASSUME NEW d \in Nat, k + d <= n + 1, \A x \in k .. k + d - 1 : once[x] # "?"
        PROVE  /\ place[k + d] = i + d
               /\ \A x \in 0 .. d - 1 : i + x \in 1 .. Len(s) /\ once[k + x] = s[i + x]
    <3>1. k \in 1 .. Len(once) + 1
      BY <1>4
    <3>2. /\ \A x \in 0 .. d : place[k + x] = place[k] + x
          /\ \A x \in 0 .. d - 1 : place[k] + x \in 1 .. Len(s) /\ once[k + x] = s[place[k] + x]
      BY <1>1, <2>9, <3>1, CopiedRun
    <3> QED
      BY <3>2, SMTT(30) DEF i
  <2>10. CASE once[k] = "$"
    <3> DEFINE C == Letters \cup {"_"}
               j == RunEnd(once, k + 1, C)
    <3>1. At(once, j) = "$"
      BY <1>4, <1>7, <2>2, <2>10, DollarEndBounds
    <3>2. NoByte \notin C /\ "?" \notin C /\ NoByte # "$" /\ "$" \notin C
      <4>1. NoByte \notin Words /\ "?" \notin Words
        BY NumberBytes, QuoteBytes
      <4>2. C \subseteq Words
        BY Zenon DEF Words
      <4>3. NoByte # "$"
        BY DEF NoByte
      <4> HIDE DEF C
      <4> QED
        BY <4>1, <4>2, <4>3, DollarByte
    <3>3. /\ j \in Nat /\ j >= k + 1
          /\ \A x \in k + 1 .. j - 1 : x \in 1 .. n /\ once[x] \in C
      <4> HIDE DEF C
      <4>1. k + 1 \in Nat \ {0}
        OBVIOUS
      <4>2. /\ j \in Nat /\ j >= k + 1
            /\ \A x \in k + 1 .. j - 1 : x \in 1 .. Len(once) /\ once[x] \in C /\ At(once, x) \in C
        BY <1>4, <3>2, <4>1, RunEndIs
      <4> QED
        BY <4>2
    <3> HIDE DEF j, C
    <3>4. j \in k + 1 .. n /\ once[j] = "$"
      BY <1>4, <3>1, <3>2, <3>3 DEF At
    <3> DEFINE d == j - k
    <3>5. \A x \in k .. k + (d + 1) - 1 : once[x] # "?"
      BY <2>10, <2>4, <3>2, <3>3, <3>4
    <3>6. \A x \in 0 .. d : i + x \in 1 .. Len(s) /\ once[k + x] = s[i + x]
      <4>1. d + 1 \in Nat /\ k + (d + 1) <= n + 1 /\ (d + 1) - 1 = d
        BY <1>4, <3>4
      <4> HIDE DEF d
      <4> QED
        BY <2>9, <3>5, <4>1
    <3>7. At(s, i + d) = "$"
      <4>1. d \in 0 .. d /\ k + d = j
        BY <3>4
      <4> HIDE DEF d
      <4> QED
        BY <3>4, <3>6, <4>1 DEF At
    <3>8. All(s, i + 1, i + d, C)
      <4> SUFFICES ASSUME NEW x \in i + 1 .. (i + d) - 1 PROVE At(s, x) \in C
        BY Zenon DEF All
      <4>1. x - i \in 0 .. d /\ i + (x - i) = x /\ k + (x - i) \in k + 1 .. j - 1
        BY <2>0, <3>4
      <4>2. x \in 1 .. Len(s) /\ s[x] = once[k + (x - i)]
        BY <3>6, <4>1
      <4> QED
        BY <3>3, <4>1, <4>2, AtIs
    <3>9. RunEnd(s, i + 1, C) = i + d
      <4>1. i + 1 \in Nat \ {0} /\ i + d \in Nat /\ i + d >= i + 1
        BY <2>0, <3>4
      <4> HIDE DEF d
      <4> QED
        BY <3>2, <3>7, <3>8, <4>1, RunEndIsThat
    <3>10. DollarEnd(s, i) # 0
      <4>1. s[i] = "$"
        BY <2>5, <2>10
      <4>2. At(s, RunEnd(s, i + 1, Letters \cup {"_"})) = "$"
        BY <3>7, <3>9 DEF C
      <4> QED
        BY <2>0, <4>1, <4>2, DollarEndBounds
    <3> QED
      BY <2>5, <2>8, <2>10, <3>10
  <2>11. CASE once[k] # "$"
    <3> DEFINE e == NumberEnd(once, k)
    <3>1. once[k] \in Digits \cup {"."} /\ At(once, k - 1) \notin Words \cup {"$", "."} /\ e # 0
      BY <1>7, <2>2, <2>11
    <3>2. e \in k + 1 .. n + 1 /\ IsNumber(once, k, e) /\ EndsHere(once, e)
      BY <1>4, <3>1, NumberEndBounds
    <3> HIDE DEF e
    <3>3. (\A x \in k .. e - 1 : once[x] \in Words \cup {".", "+", "-"}) /\ once[e - 1] \in Words
      BY <1>4, <3>2, NumberSpells
    <3> DEFINE d == e - k
    <3>4. "?" \notin Words \cup {".", "+", "-"}
      BY QuoteBytes
    <3>5. place[e] = i + d /\ \A x \in 0 .. d - 1 : i + x \in 1 .. Len(s) /\ once[k + x] = s[i + x]
      <4>1. d \in Nat /\ k + d <= n + 1 /\ k + d = e
        BY <1>4, <3>2
      <4>2. \A x \in k .. k + d - 1 : once[x] # "?"
        <5>1. k + d - 1 = e - 1
          BY <4>1
        <5> HIDE DEF d
        <5> QED
          BY <3>3, <3>4, <5>1
      <4> HIDE DEF d
      <4> QED
        BY <2>9, <4>1, <4>2
    <3>6. IsNumber(s, i, i + d)
      <4>1. \A x \in k .. e - 1 : At(s, x + (i - k)) = At(once, x)
        <5> SUFFICES ASSUME NEW x \in k .. e - 1 PROVE At(s, x + (i - k)) = At(once, x)
          OBVIOUS
        <5>1. x - k \in 0 .. d - 1 /\ k + (x - k) = x /\ i + (x - k) = x + (i - k) /\ x \in 1 .. n
          BY <1>4, <2>0, <3>2
        <5>2. i + (x - k) \in 1 .. Len(s) /\ once[k + (x - k)] = s[i + (x - k)]
          BY <3>5, <5>1
        <5> QED
          BY <5>1, <5>2 DEF At
      <4>2. k \in Int /\ e \in Int /\ i - k \in Int /\ k + (i - k) = i /\ e + (i - k) = i + d
        BY <2>0, <3>2
      <4>3. IsNumber(s, k + (i - k), e + (i - k))
        BY <3>2, <4>1, <4>2, NumberMoves
      <4> QED
        BY <4>2, <4>3
    <3>7. i + d \in i + 1 .. Len(s) + 1
      <4>1. e \in 1 .. n + 1
        BY <1>4, <3>2
      <4>2. place[e] \in 1 .. Len(s) + 1
        BY <1>4, <4>1
      <4> QED
        BY <2>0, <3>2, <3>5, <4>2
    <3>8. EndsHere(s, i + d)
      <4>1. CASE e = n + 1
        <5>1. i + d = Len(s) + 1
          BY <1>4, <3>5, <4>1
        <5>2. At(s, Len(s) + 1) = NoByte
          BY <1>4 DEF At
        <5> HIDE DEF d
        <5> QED
          BY <5>1, <5>2, NumberBytes DEF EndsHere
      <4>2. CASE e # n + 1
        <5>1. e \in 1 .. n /\ once[e] \notin Words
          BY <1>4, <3>2, <4>2, SMTT(30) DEF EndsHere, At
        <5> DEFINE l == i + d
        <5>2. l = place[e] /\ l \in 1 .. Len(s)
          BY <1>5, <3>5, <5>1
        <5>3. CASE E[l] = 0
          <6>1. s[l] = once[e]
            BY <1>5, <5>1, <5>2, <5>3
          <6> HIDE DEF l
          <6>2. EndsHere(s, l)
            BY <5>1, <5>2, <6>1 DEF EndsHere, At
          <6> QED
            BY <6>2 DEF l
        <5>4. CASE E[l] # 0
          <6>1. At(s, l - 1) \in Words
            <7>1. d - 1 \in 0 .. d - 1 /\ k + (d - 1) = e - 1 /\ i + (d - 1) = l - 1
              BY <2>0, <3>2
            <7> HIDE DEF d, l
            <7>2. l - 1 \in 1 .. Len(s) /\ s[l - 1] = once[e - 1]
              BY <3>5, <7>1
            <7> QED
              BY <3>3, <7>2 DEF At
          <6> HIDE DEF l
          <6>2. s[l] \notin Words
            BY <1>2, <5>2, <5>4, <6>1, LiteralsStandApart
          <6>3. EndsHere(s, l)
            BY <5>2, <6>2 DEF EndsHere, At
          <6> QED
            BY <6>3 DEF l
        <5> QED
          BY <5>3, <5>4
      <4> QED
        BY <4>1, <4>2
    <3>9. NumberEnd(s, i) # 0
      <4> HIDE DEF d
      <4>1. s[i] \in Digits \cup {"."}
        BY <2>5, <3>1
      <4> QED
        BY <2>0, <3>6, <3>7, <3>8, <4>1, NumberEndBounds
    <3> QED
      BY <2>5, <2>6, <2>8, <2>11, <3>1, <3>9
  <2> QED
    BY <2>10, <2>11
<1>8. \A k \in 1 .. n : LiteralEnd(once, k, mysql) > 0 => At(once, k - 1) = "?"
  BY <1>7
<1> QED
  BY <1>4, <1>8 DEF MaskIsFinal, once

-----------------------------------------------------------------------------
(* Cutting between characters *)

\* The cut keeps whole characters, as many as fit, of every text (mask()).
LEMMA CutKeeps ==
  ASSUME NEW S, NEW s \in Seq(S)
  PROVE  CutsWhole(s)
<1> DEFINE B == {k \in 0 .. MaxLength : k = 0 \/ At(s, k + 1) \notin Continuations}
           cut == Max(B)
           kept == Len(Cut(s)) - 3
<1>0. MaxLength \in Nat /\ Len(s) \in Nat
  BY SqlAssumption
<1>1. CASE Len(s) <= MaxLength
  <2>1. Cut(s) = s
    BY <1>0, <1>1 DEF Cut
  <2> QED
    BY <1>1, <2>1 DEF CutsWhole
<1>2. CASE ~(Len(s) <= MaxLength)
  <2>1. B \in SUBSET Int /\ B # {} /\ MaxLength \in Int /\ \A k \in B : k <= MaxLength
    <3>1. 0 \in B
      BY <1>0
    <3> QED
      BY <1>0, <3>1
  <2>2. cut \in B /\ \A k \in B : k <= cut
    <3> HIDE DEF B
    <3> QED
      BY <2>1, MaxOf
  <2>3. cut \in 0 .. MaxLength /\ (cut = 0 \/ At(s, cut + 1) \notin Continuations)
    BY <2>2
  <2>4. \A k \in cut + 1 .. MaxLength : At(s, k + 1) \in Continuations
    <3> SUFFICES ASSUME NEW k \in cut + 1 .. MaxLength, At(s, k + 1) \notin Continuations PROVE FALSE
      OBVIOUS
    <3>1. k \in B
      BY <2>3
    <3> HIDE DEF B
    <3> QED
      BY <2>2, <2>3, <3>1
  <2>5. Cut(s) = SubSeq(s, 1, cut) \o <<".", ".", ".">>
    <3>1. Len(s) > MaxLength
      BY <1>0, <1>2
    <3> QED
      BY <3>1, Zenon DEF Cut
  <2> HIDE DEF cut, B
  <2>6. SubSeq(s, 1, cut) \in Seq(S) /\ Len(SubSeq(s, 1, cut)) = cut
    BY <1>0, <1>2, <2>3
  <2>7. kept = cut
    BY <2>3, <2>5, <2>6
  <2>8. SubSeq(Cut(s), 1, cut) = SubSeq(s, 1, cut)
    <3> DEFINE a == SubSeq(s, 1, cut)
               b == <<".", ".", ".">>
    <3>1. a \in Seq(S \cup {"."}) /\ b \in Seq(S \cup {"."}) /\ Len(a) = cut
      BY <2>6
    <3> HIDE DEF a, b
    <3>2. /\ SubSeq(a \o b, 1, cut) \in Seq(S \cup {"."}) /\ Len(SubSeq(a \o b, 1, cut)) = cut
          /\ \A k \in 1 .. cut : SubSeq(a \o b, 1, cut)[k] = a[k]
      BY <2>3, <3>1
    <3>3. SubSeq(a \o b, 1, cut) = a
      BY <2>3, <3>1, <3>2
    <3> QED
      BY <2>5, <3>3 DEF a, b
  <2> HIDE DEF kept
  <2>9. kept \in Nat /\ kept <= MaxLength
    BY <2>3, <2>7
  <2> QED
    BY <1>2, <2>3, <2>4, <2>7, <2>8, <2>9 DEF CutsWhole, kept
<1> QED
  BY <1>1, <1>2

\* Counting up through a text, a set of its places grows one by one.
LEMMA Nth ==
  ASSUME NEW n \in Nat, NEW L \in SUBSET (1 .. n), NEW m \in Nat, m < Cardinality(L)
  PROVE  \E i \in L : Cardinality({k \in L : k < i}) = m
<1> DEFINE Below(i) == {k \in L : k < i}
           B == {i \in 1 .. n + 1 : Cardinality(Below(i)) > m}
<1>1. IsFiniteSet(L)
  <2>1. IsFiniteSet(1 .. n)
    BY FS_Interval
  <2> QED
    BY <2>1, FS_Subset
<1>2. \A i \in Int : IsFiniteSet(Below(i)) /\ Cardinality(Below(i)) \in Nat
  <2> SUFFICES ASSUME NEW i \in Int PROVE IsFiniteSet(Below(i)) /\ Cardinality(Below(i)) \in Nat
    OBVIOUS
  <2>1. Below(i) \subseteq L
    OBVIOUS
  <2> HIDE DEF Below
  <2>2. IsFiniteSet(Below(i))
    BY <1>1, <2>1, FS_Subset
  <2> QED
    BY <2>2, FS_CardinalityType
<1>0. \A k \in L : k \in 1 .. n
  OBVIOUS
<1>3. Below(n + 1) = L /\ Below(1) = {}
  <2>1. \A k \in L : k < n + 1 /\ ~(k < 1)
    BY <1>0
  <2> QED
    BY <2>1, Zenon
<1>4. B # {} /\ B \in SUBSET Nat
  <2>1. n + 1 \in B
    <3> HIDE DEF Below
    <3> QED
      BY <1>3
  <2>2. \A k \in B : k \in Nat
    <3> HIDE DEF Below
    <3> QED
      OBVIOUS
  <2> HIDE DEF B
  <2> QED
    BY <2>1, <2>2
<1>5. Min(B) \in B /\ \A k \in B : Min(B) <= k
  <2> HIDE DEF B
  <2> QED
    BY <1>4, MinOf
<1> DEFINE j == Min(B)
<1>6. j \in 1 .. n + 1 /\ Cardinality(Below(j)) > m /\ \A k \in 1 .. n + 1 : Cardinality(Below(k)) > m => j <= k
  <2> HIDE DEF j, Below
  <2> QED
    BY <1>5 DEF j
<1> HIDE DEF j, B
<1>7. j # 1
  <2> HIDE DEF Below
  <2> QED
    BY <1>3, <1>6, FS_EmptySet
<1> DEFINE i == j - 1
<1>8. i \in 1 .. n /\ i + 1 = j
  BY <1>6, <1>7
<1>9. ~(Cardinality(Below(i)) > m) /\ Cardinality(Below(i)) \in Nat
  <2>1. i \in 1 .. n + 1 /\ ~(j <= i) /\ i \in Int
    BY <1>8
  <2> HIDE DEF i, Below
  <2> QED
    BY <1>2, <1>6, <2>1
<1>10. i \in L
  <2> SUFFICES ASSUME i \notin L PROVE FALSE
    OBVIOUS
  <2>1. Below(j) = Below(i)
    <3>1. \A k \in L : k < j <=> k < i
      <4> SUFFICES ASSUME NEW k \in L PROVE k < j <=> k < i
        OBVIOUS
      <4>1. k \in 1 .. n /\ k # i
        BY <1>0
      <4> HIDE DEF i
      <4> QED
        BY <1>8, <4>1
    <3> HIDE DEF i
    <3> QED
      BY <3>1, Zenon
  <2> HIDE DEF i, Below
  <2> QED
    BY <1>6, <1>9, <2>1
<1>11. Below(j) = Below(i) \cup {i} /\ i \notin Below(i)
  <2>1. \A k \in L : k < j <=> k < i \/ k = i
    <3> SUFFICES ASSUME NEW k \in L PROVE k < j <=> k < i \/ k = i
      OBVIOUS
    <3>1. k \in 1 .. n
      BY <1>0
    <3> HIDE DEF i
    <3> QED
      BY <1>8, <3>1
  <2>2. ~(i < i)
    BY <1>8
  <2> HIDE DEF i
  <2> QED
    BY <1>10, <2>1, <2>2
<1>12. Cardinality(Below(j)) = Cardinality(Below(i)) + 1
  <2>1. IsFiniteSet(Below(i))
    BY <1>2, <1>8
  <2> HIDE DEF Below, i
  <2> QED
    BY <1>11, <2>1, FS_AddElement
<1>13. Cardinality(Below(i)) = m
  <2> HIDE DEF Below, i
  <2> QED
    BY <1>6, <1>9, <1>12
<1> QED
  BY <1>10, <1>13

\* A text that is stripped is empty when it had nothing else.
LEMMA StripIs ==
  ASSUME NEW S, NEW s \in Seq(S), NEW C
  PROVE  /\ Strip(s, C) \in Seq(S)
         /\ Strip(s, C) = <<>> <=> Range(s) \subseteq C
<1> DEFINE kept == {i \in DOMAIN s : s[i] \notin C}
           lo == Min(kept)
           hi == Max(kept)
<1>0. Len(s) \in Nat /\ DOMAIN s = 1 .. Len(s)
  OBVIOUS
<1>1. CASE kept = {}
  <2>1. Strip(s, C) = <<>>
    BY <1>1 DEF Strip
  <2>2. Range(s) \subseteq C
    BY <1>1 DEF Range
  <2> QED
    BY <2>1, <2>2, EmptySeq
<1>2. CASE kept # {}
  <2>1. kept \in SUBSET Nat /\ kept \in SUBSET Int /\ Len(s) \in Int /\ \A k \in kept : k <= Len(s)
    BY <1>0
  <2>2. lo \in kept /\ hi \in kept /\ \A k \in kept : k <= hi /\ lo <= k
    <3> HIDE DEF kept
    <3> QED
      BY <1>2, <2>1, MinOf, MaxOf
  <2>3. lo \in 1 .. Len(s) /\ hi \in 1 .. Len(s) /\ lo <= hi
    <3>1. \A k \in kept : k \in 1 .. Len(s)
      BY <1>0
    <3> HIDE DEF kept
    <3> QED
      BY <2>2, <3>1
  <2>4. Strip(s, C) = SubSeq(s, lo, hi)
    BY <1>2 DEF Strip
  <2>5. ~(Range(s) \subseteq C)
    <3>1. lo \in DOMAIN s /\ s[lo] \notin C
      BY <2>2
    <3> HIDE DEF lo
    <3> QED
      BY <3>1 DEF Range
  <2> HIDE DEF lo, hi
  <2>6. SubSeq(s, lo, hi) \in Seq(S) /\ Len(SubSeq(s, lo, hi)) = hi - lo + 1
    BY <2>3
  <2>7. Strip(s, C) # <<>>
    <3>1. Len(SubSeq(s, lo, hi)) # 0
      BY <2>3, <2>6
    <3>2. Len(<<>>) = 0
      OBVIOUS
    <3> QED
      BY <2>4, <3>1, <3>2, Zenon
  <2> QED
    BY <2>4, <2>5, <2>6, <2>7
<1> QED
  BY <1>1, <1>2

LEMMA MinOfTwo ==
  ASSUME NEW a \in Nat, NEW b \in Nat
  PROVE  Min({a, b}) = IF a <= b THEN a ELSE b
<1>1. {a, b} \in SUBSET Nat
  OBVIOUS
<1>2. a <= b => Min({a, b}) = a
  BY <1>1, MinIsThat
<1>3. ~(a <= b) => Min({a, b}) = b
  BY <1>1, MinIsThat
<1> QED
  BY <1>2, <1>3

\* A title is cut to its first MaxTitle characters.
LEMMA TitleKeeps ==
  ASSUME NEW S, NEW s \in Seq(S), NoByte \notin Continuations
  PROVE  TitleIsWhole(s)
<1> DEFINE w == Trim(s)
           L == Leads(w)
           Under(i) == {k \in L : k < i}
           beyond == {i \in L : Cardinality(Under(i)) = MaxTitle}
           title == Utf8Prefix(w, MaxTitle)
<1>1. w \in Seq(S) /\ (w = <<>> <=> Range(s) \subseteq Spaces)
  BY StripIs DEF Trim
<1>2. w = <<>> => BuildChange("deploy", s) = {}
  BY DEF BuildChange
<1>3. w # <<>> => BuildChange("deploy", s) = {[kind |-> NormalizeKind("deploy"), title |-> title]}
  BY DEF BuildChange
<1> HIDE DEF w
<1>4. Len(w) \in Nat /\ DOMAIN w = 1 .. Len(w)
  BY <1>1
<1>5. L \in SUBSET (1 .. Len(w)) /\ IsFiniteSet(L) /\ Cardinality(L) \in Nat
  <2>1. L \subseteq 1 .. Len(w) /\ IsFiniteSet(1 .. Len(w))
    BY <1>4, FS_Interval DEF Leads
  <2> HIDE DEF L
  <2>2. IsFiniteSet(L)
    BY <2>1, FS_Subset
  <2> QED
    BY <2>1, <2>2, FS_CardinalityType
<1>6. title = IF beyond = {} THEN w ELSE Between(w, 1, CHOOSE i \in beyond : TRUE)
  BY DEF Utf8Prefix
<1>7. MaxTitle \in Nat
  BY ChangeAssumption
<1>8. /\ IsPrefix(title, w)
      /\ Cardinality(Leads(title)) = Min({MaxTitle, Cardinality(L)})
      /\ At(w, Len(title) + 1) \notin Continuations
  <2>1. CASE beyond = {}
    <3>1. title = w
      BY <1>6, <2>1
    <3>2. Cardinality(L) <= MaxTitle
      <4> SUFFICES ASSUME MaxTitle < Cardinality(L) PROVE FALSE
        <5> HIDE DEF L
        <5> QED
          BY <1>5, <1>7
      <4> HIDE DEF L
      <4>1. \E i \in L : Cardinality({k \in L : k < i}) = MaxTitle
        BY <1>4, <1>5, <1>7, Nth
      <4> QED
        BY <2>1, <4>1
    <3>3. Min({MaxTitle, Cardinality(L)}) = Cardinality(L)
      <4> HIDE DEF L
      <4> QED
        BY <1>5, <1>7, <3>2, MinOfTwo
    <3>4. IsPrefix(w, w)
      BY <1>4 DEF IsPrefix
    <3>5. At(w, Len(w) + 1) = NoByte
      BY <1>4 DEF At
    <3> HIDE DEF title
    <3> QED
      BY <3>1, <3>3, <3>4, <3>5
  <2>2. CASE beyond # {}
    <3> DEFINE i == CHOOSE i \in beyond : TRUE
    <3>1. i \in beyond /\ title = Between(w, 1, i)
      BY <1>6, <2>2
    <3> HIDE DEF i
    <3>2. i \in 1 .. Len(w) /\ w[i] \notin Continuations /\ Cardinality(Under(i)) = MaxTitle
      <4>1. i \in L /\ Cardinality(Under(i)) = MaxTitle
        BY <3>1
      <4>2. i \in 1 .. Len(w) /\ w[i] \notin Continuations
        BY <1>4, <4>1 DEF Leads
      <4> QED
        BY <4>1, <4>2
    <3>3. title \in Seq(S) /\ Len(title) = i - 1 /\ \A k \in 1 .. i - 1 : title[k] = w[k]
      <4>1. 1 \in 1 .. Len(w) + 1 /\ i \in 1 .. Len(w) + 1
        BY <1>4, <3>2
      <4>2. /\ Between(w, 1, i) \in Seq(S) /\ Len(Between(w, 1, i)) = i - 1
            /\ \A k \in 1 .. i - 1 : Between(w, 1, i)[k] = w[1 + k - 1]
        BY <1>1, <4>1, BetweenIs
      <4>3. \A k \in 1 .. i - 1 : 1 + k - 1 = k
        OBVIOUS
      <4> QED
        BY <3>1, <4>2, <4>3
    <3> HIDE DEF title
    <3>4. Leads(title) = Under(i)
      <4>1. DOMAIN title = 1 .. i - 1
        BY <3>3
      <4> QED
        BY <1>4, <3>2, <3>3, <4>1 DEF Leads
    <3>5. MaxTitle <= Cardinality(L)
      <4>1. Under(i) \subseteq L
        OBVIOUS
      <4> HIDE DEF L, Under
      <4>2. Cardinality(Under(i)) <= Cardinality(L)
        BY <1>5, <4>1, FS_Subset
      <4> QED
        BY <3>2, <4>2
    <3>6. Min({MaxTitle, Cardinality(L)}) = MaxTitle
      <4> HIDE DEF L
      <4> QED
        BY <1>5, <1>7, <3>5, MinOfTwo
    <3>7. IsPrefix(title, w)
      <4>1. Len(title) <= Len(w) /\ \A k \in 1 .. Len(title) : title[k] = w[k]
        BY <3>2, <3>3
      <4>2. SubSeq(title, 1, Len(title)) = SubSeq(w, 1, Len(title))
        BY <1>1, <3>3, <4>1
      <4> QED
        BY <4>1, <4>2 DEF IsPrefix
    <3>8. At(w, Len(title) + 1) \notin Continuations
      BY <3>2, <3>3 DEF At
    <3> HIDE DEF L, Under
    <3> QED
      BY <3>2, <3>4, <3>6, <3>7, <3>8
  <2> QED
    BY <2>1, <2>2
<1> HIDE DEF title
<1>9. BuildChange("deploy", s) = {} <=> Range(s) \subseteq Spaces
  BY <1>1, <1>2, <1>3
<1>10. \A change \in BuildChange("deploy", s) : change.title = title
  BY <1>2, <1>3
<1> QED
  BY <1>8, <1>9, <1>10 DEF TitleIsWhole, w

-----------------------------------------------------------------------------
(* A masked statement holds no string literal *)

\* The reading of a statement goes byte by byte.
LEMMA ReadingIs ==
  ASSUME NEW S, NEW s \in Seq(S), NEW mysql
  PROVE  /\ Reading(s, mysql)[0] = [mode |-> "code", quote |-> NoByte, out |-> <<>>]
         /\ \A k \in 1 .. Len(s) :
              Reading(s, mysql)[k] = ReadByte(Reading(s, mysql)[k - 1], s[k], mysql)
<1> DEFINE n == Len(s)
           start == [mode |-> "code", quote |-> NoByte, out |-> <<>>]
           Following(f, k) == IF k = 0 THEN start ELSE ReadByte(f[k - 1], s[k], mysql)
           To(f, m) == f = [k \in 0 .. m |-> Following(f, k)]
           P == {m \in 0 .. n : \E f : To(f, m)}
           R == Reading(s, mysql)
<1>0. n \in Nat
  OBVIOUS
<1>1. R = CHOOSE f : To(f, n)
  BY DEF Reading
<1> HIDE DEF n, R, start
<1>2. 0 \in P
  <2> DEFINE f == [k \in 0 .. 0 |-> start]
  <2>1. \A k \in 0 .. 0 : Following(f, k) = start
    BY <1>0
  <2>2. To(f, 0)
    <3> HIDE DEF Following
    <3> QED
      BY <2>1
  <2> HIDE DEF To
  <2> QED
    BY <1>0, <2>2
<1>3. ASSUME NEW m \in 1 .. n, m - 1 \in P PROVE m \in P
  <2>1. PICK f : To(f, m - 1)
    BY <1>3
  <2> DEFINE g == [k \in 0 .. m |-> IF k = m THEN Following(f, m) ELSE f[k]]
  <2>2. \A k \in 0 .. m - 1 : g[k] = f[k]
    <3> HIDE DEF Following
    <3> QED
      BY <1>0
  <2>3. \A k \in 0 .. m - 1 : f[k] = Following(f, k)
    <3> HIDE DEF Following
    <3> QED
      BY <2>1
  <2>4. ASSUME NEW k \in 0 .. m PROVE Following(f, k) = Following(g, k)
    <3>1. CASE k = 0
      BY <3>1
    <3>2. CASE k # 0
      <4>1. k - 1 \in 0 .. m - 1
        BY <1>0, <3>2
      <4>2. f[k - 1] = g[k - 1]
        <5> HIDE DEF g
        <5> QED
          BY <2>2, <4>1
      <4> HIDE DEF g
      <4> QED
        BY <4>2, Zenon
    <3> QED
      BY <3>1, <3>2
  <2>5. ASSUME NEW k \in 0 .. m PROVE g[k] = Following(g, k)
    <3>1. g[k] = IF k = m THEN Following(f, m) ELSE f[k]
      <4> HIDE DEF Following
      <4> QED
        OBVIOUS
    <3>2. k = m \/ k \in 0 .. m - 1
      BY <1>0
    <3> HIDE DEF g, Following
    <3> QED
      BY <2>3, <2>4, <3>1, <3>2
  <2>6. To(g, m)
    <3>1. g = [k \in 0 .. m |-> g[k]]
      <4> HIDE DEF Following
      <4> QED
        OBVIOUS
    <3> HIDE DEF g, Following
    <3> QED
      BY <2>5, <3>1
  <2> HIDE DEF To, g
  <2> QED
    BY <1>0, <2>6
<1>4. \E f : To(f, n)
  <2>1. \A m \in 0 .. n : m \in P
    <3> HIDE DEF P
    <3> QED
      BY <1>0, <1>2, <1>3, UpTo
  <2>2. n \in 0 .. n
    BY <1>0
  <2> HIDE DEF To
  <2> QED
    BY <2>1, <2>2
<1>5. To(R, n)
  <2> HIDE DEF To
  <2> QED
    BY <1>1, <1>4
<1>6. \A k \in 0 .. n : R[k] = Following(R, k)
  <2> HIDE DEF Following
  <2> QED
    BY <1>5
<1>7. R[0] = start
  BY <1>0, <1>6
<1>8. \A k \in 1 .. n : R[k] = ReadByte(R[k - 1], s[k], mysql)
  BY <1>0, <1>6
<1> QED
  BY <1>7, <1>8 DEF R, n, start

\* What has been read so far.
Now(mode, quote, out) == [mode |-> mode, quote |-> quote, out |-> out]

\* Whether c opens a string literal where one can begin.
Opens(c, mysql) == c = "'" \/ (mysql /\ c = DoubleQuote)

\* One byte more, in a literal,
LEMMA ReadInside ==
  ASSUME NEW q, NEW out, NEW c, NEW mysql, q # Backslash
  PROVE  /\ ReadByte(Now("escape", q, out), c, mysql) = Now("string", q, out)
         /\ c = Backslash => ReadByte(Now("string", q, out), c, mysql) = Now("escape", q, out)
         /\ c = q => ReadByte(Now("string", q, out), c, mysql) = Now("closed", q, out)
         /\ c # Backslash /\ c # q => ReadByte(Now("string", q, out), c, mysql) = Now("string", q, out)
         /\ c = q => ReadByte(Now("closed", q, out), c, mysql) = Now("string", q, out)
<1>1. ReadByte(Now("escape", q, out), c, mysql) = Now("string", q, out)
  BY DEF ReadByte, Now
<1>2. c = Backslash => ReadByte(Now("string", q, out), c, mysql) = Now("escape", q, out)
  BY DEF ReadByte, Now
<1>3. c = q => ReadByte(Now("string", q, out), c, mysql) = Now("closed", q, out)
  BY DEF ReadByte, Now
<1>4. c # Backslash /\ c # q => ReadByte(Now("string", q, out), c, mysql) = Now("string", q, out)
  BY DEF ReadByte, Now
<1>5. c = q => ReadByte(Now("closed", q, out), c, mysql) = Now("string", q, out)
  BY DEF ReadByte, Now
<1> QED
  BY <1>1, <1>2, <1>3, <1>4, <1>5

\* ... and outside one.
LEMMA ReadOutside ==
  ASSUME NEW mode, NEW q, NEW out, NEW c, NEW mysql, mode = "code" \/ (mode = "closed" /\ c # q)
  PROVE  /\ Opens(c, mysql) =>
              ReadByte(Now(mode, q, out), c, mysql) =
                Now("string", c, SubSeq(out, 1, Len(out) - PrefixLength(out, c)) \o <<"?">>)
         /\ ~Opens(c, mysql) => ReadByte(Now(mode, q, out), c, mysql) = Now("code", q, Append(out, c))
<1>1. ASSUME Opens(c, mysql)
      PROVE  ReadByte(Now(mode, q, out), c, mysql) =
                Now("string", c, SubSeq(out, 1, Len(out) - PrefixLength(out, c)) \o <<"?">>)
  BY <1>1 DEF ReadByte, Now, Opens
<1>2. ASSUME ~Opens(c, mysql)
      PROVE  ReadByte(Now(mode, q, out), c, mysql) = Now("code", q, Append(out, c))
  BY <1>2 DEF ReadByte, Now, Opens
<1> QED
  BY <1>1, <1>2

\* A literal between quotes q was read up to e, and out has been written: e stands behind the
\* closing quote, or the statement is over.
ReadPast(s, R, e, q, out) ==
  \E mode : R[e - 1] = Now(mode, q, out) /\ (e <= Len(s) => mode = "closed")

\* From inside a literal the reading comes to its end with nothing written, and finds it
\* where the mask does.
LEMMA ReadToEnd ==
  ASSUME NEW S, NEW s \in Seq(S), NEW mysql, NEW open \in 1 .. Len(s), s[open] # Backslash, NEW out
  PROVE  \A j \in 1 .. Len(s) + 1 :
           /\ QuotedFrom(s, open)[j] <= Len(s) =>
                /\ s[QuotedFrom(s, open)[j] - 1] = s[open]
                /\ s[QuotedFrom(s, open)[j]] # s[open]
           /\ Reading(s, mysql)[j - 1] = Now("string", s[open], out) =>
                ReadPast(s, Reading(s, mysql), QuotedFrom(s, open)[j], s[open], out)
<1> DEFINE n == Len(s)
           q == s[open]
           e == QuotedFrom(s, open)
           R == Reading(s, mysql)
           Ok(j) == /\ e[j] <= n => s[e[j] - 1] = q /\ s[e[j]] # q
                    /\ R[j - 1] = Now("string", q, out) =>
                         \E mode : R[e[j] - 1] = Now(mode, q, out) /\ (e[j] <= n => mode = "closed")
           P == {j \in 1 .. n + 2 : j <= n + 1 => Ok(j)}
<1>0. n \in Nat
  OBVIOUS
<1>1. \A j \in 1 .. n + 2 :
        e[j] = IF j > n THEN n + 1
               ELSE IF s[j] = Backslash THEN e[j + 2]
               ELSE IF s[j] # q THEN e[j + 1]
               ELSE IF At(s, j + 1) = q THEN e[j + 2] ELSE j + 1
  BY QuotedFromIs
<1>2. \A k \in 1 .. n : R[k] = ReadByte(R[k - 1], s[k], mysql)
  BY ReadingIs
<1>3. \A j \in 1 .. n + 2 : e[j] \in 1 .. n + 1
  BY QuotedEndBounds
<1> HIDE DEF e, R
<1>4. \A c : /\ ReadByte(Now("escape", q, out), c, mysql) = Now("string", q, out)
             /\ c = Backslash => ReadByte(Now("string", q, out), c, mysql) = Now("escape", q, out)
             /\ c = q => ReadByte(Now("string", q, out), c, mysql) = Now("closed", q, out)
             /\ c # Backslash /\ c # q =>
                  ReadByte(Now("string", q, out), c, mysql) = Now("string", q, out)
             /\ c = q => ReadByte(Now("closed", q, out), c, mysql) = Now("string", q, out)
  <2> HIDE DEF q
  <2>1. q # Backslash
    BY DEF q
  <2> QED
    BY <2>1, ReadInside
<1> HIDE DEF q
<1>5. ASSUME NEW j \in 1 .. n + 2, \A k \in j + 1 .. n + 2 : k \in P PROVE j \in P
  <2> SUFFICES ASSUME j <= n + 1 PROVE Ok(j)
    OBVIOUS
  <2>1. CASE j = n + 1
    <3>1. e[j] = n + 1 /\ ~(e[j] <= n) /\ e[j] - 1 = j - 1
      BY <1>0, <1>1, <2>1
    <3> QED
      BY <3>1
  <2>2. CASE j <= n
    <3>0. j \in 1 .. n /\ (j - 1) + 1 = j /\ (j + 1) - 1 = j /\ ~(j > n) /\ j + 1 \in 1 .. n + 2
      BY <1>0, <2>2
    <3>1. Ok(j + 1)
      <4>1. j + 1 \in j + 1 .. n + 2 /\ j + 1 <= n + 1
        BY <1>0, <2>2
      <4> HIDE DEF Ok
      <4> QED
        BY <1>5, <4>1
    <3>2. j + 2 <= n + 1 => Ok(j + 2)
      <4>1. j + 2 \in j + 1 .. n + 2
        BY <1>0, <2>2
      <4> HIDE DEF Ok
      <4> QED
        BY <1>5, <4>1
    <3>3. R[j] = ReadByte(R[j - 1], s[j], mysql)
      BY <1>2, <3>0
    <3>4. ASSUME e[j] = e[j + 1], R[j - 1] = Now("string", q, out) => R[j] = Now("string", q, out)
          PROVE  Ok(j)
      BY <3>0, <3>1, <3>4
    <3>5. ASSUME e[j] = e[j + 2], s[j] = Backslash \/ At(s, j + 1) = q,
                 j + 1 \in 1 .. n => (R[j - 1] = Now("string", q, out) => R[j + 1] = Now("string", q, out)),
                 j = n => (R[j - 1] = Now("string", q, out) => \E mode : R[j] = Now(mode, q, out))
          PROVE  Ok(j)
      <4>1. CASE j = n
        <5>1. e[j] = n + 1
          BY <1>0, <1>1, <3>5, <4>1
        <5>2. ~(e[j] <= n) /\ e[j] - 1 = j
          BY <1>0, <4>1, <5>1
        <5> QED
          BY <3>5, <4>1, <5>2
      <4>2. CASE j # n
        <5>1. j + 1 \in 1 .. n /\ j + 2 <= n + 1 /\ (j + 2) - 1 = j + 1
          BY <1>0, <2>2, <4>2
        <5> QED
          BY <3>2, <3>5, <5>1
      <4> QED
        BY <4>1, <4>2
    <3>6. CASE s[j] = Backslash
      <4>1. e[j] = e[j + 2]
        BY <1>1, <3>0, <3>6
      <4>2. R[j - 1] = Now("string", q, out) => R[j] = Now("escape", q, out)
        BY <1>4, <3>3, <3>6
      <4>3. j + 1 \in 1 .. n => (R[j - 1] = Now("string", q, out) => R[j + 1] = Now("string", q, out))
        <5>1. j + 1 \in 1 .. n => R[j + 1] = ReadByte(R[j], s[j + 1], mysql)
          BY <1>2, <3>0
        <5> QED
          BY <1>4, <4>2, <5>1
      <4> HIDE DEF Ok
      <4> QED
        BY <3>5, <3>6, <4>1, <4>2, <4>3
    <3>7. CASE s[j] # Backslash /\ s[j] # q
      <4>1. e[j] = e[j + 1]
        BY <1>1, <3>0, <3>7
      <4>2. R[j - 1] = Now("string", q, out) => R[j] = Now("string", q, out)
        BY <1>4, <3>3, <3>7
      <4> HIDE DEF Ok
      <4> QED
        BY <3>4, <4>1, <4>2
    <3>8. CASE s[j] # Backslash /\ s[j] = q
      <4>1. R[j - 1] = Now("string", q, out) => R[j] = Now("closed", q, out)
        BY <1>4, <3>3, <3>8
      <4>2. CASE At(s, j + 1) = q
        <5>1. e[j] = e[j + 2]
          BY <1>1, <3>0, <3>8, <4>2
        <5>2. j + 1 \in 1 .. n => (R[j - 1] = Now("string", q, out) => R[j + 1] = Now("string", q, out))
          <6>1. j + 1 \in 1 .. n => R[j + 1] = ReadByte(R[j], s[j + 1], mysql) /\ s[j + 1] = q
            BY <1>2, <3>0, <4>2 DEF At
          <6> QED
            BY <1>4, <4>1, <6>1
        <5> HIDE DEF Ok
        <5> QED
          BY <3>5, <4>1, <4>2, <5>1, <5>2
      <4>3. CASE At(s, j + 1) # q
        <5>1. e[j] = j + 1 /\ e[j] - 1 = j
          BY <1>1, <3>0, <3>8, <4>3
        <5>2. j + 1 <= n => s[j + 1] # q
          BY <1>0, <3>0, <4>3 DEF At
        <5> QED
          BY <3>8, <4>1, <5>1, <5>2
      <4> QED
        BY <4>2, <4>3
    <3> QED
      BY <3>6, <3>7, <3>8
  <2> QED
    BY <1>0, <2>1, <2>2
<1>6. \A j \in 1 .. n + 2 : j \in P
  <2>1. n + 2 \in Nat
    BY <1>0
  <2> HIDE DEF P
  <2> QED
    BY <1>5, <2>1, DownFrom
<1>7. \A j \in 1 .. n + 1 : Ok(j)
  <2> HIDE DEF Ok
  <2> QED
    BY <1>0, <1>6
<1> QED
  BY <1>7 DEF q, e, R, ReadPast

\* Where there are no numbers and no dollar quotes, a literal is a quoted one.
LEMMA QuotedLiteral ==
  ASSUME NEW S, NEW s \in Seq(S), NEW i \in 1 .. Len(s), NEW mysql \in BOOLEAN,
         s[i] \notin Digits \cup {".", "$"}
  PROVE  LET q == OpenedAt(s, i, mysql)
         IN  /\ LiteralEnd(s, i, mysql) = 0 <=> q = 0
             /\ q # 0 => /\ q \in i .. Len(s) /\ Quoted(s, i, q) /\ Opens(s[q], mysql)
                         /\ q # i => s[q] = "'"
                         /\ s[q] \notin Words \cup {"$"} /\ s[q] # Backslash
                         /\ LiteralEnd(s, i, mysql) = QuotedFrom(s, q)[q + 1]
             /\ q = 0 => ~Opens(s[i], mysql)
             /\ \A p \in i .. Len(s) : s[p] = "'" /\ Quoted(s, i, p) => q = p
<1> DEFINE q == OpenedAt(s, i, mysql)
<1>1. /\ q # 0 => /\ q \in i .. Len(s) /\ Quoted(s, i, q)
                  /\ s[q] = "'" \/ (mysql /\ q = i /\ s[i] = DoubleQuote)
                  /\ LiteralEnd(s, i, mysql) = QuotedEnd(s, q)
      /\ \A p \in i .. Len(s) : s[p] = "'" /\ Quoted(s, i, p) => q = p
  BY OpenedAtIs
<1>2. q = 0 => LiteralEnd(s, i, mysql) = 0
  BY OpenedAtIs
<1>3. q = 0 => ~Opens(s[i], mysql)
  <2>1. s[i] = "'" => q # 0
    <3>1. Quoted(s, i, i) /\ i \in i .. Len(s) /\ i # 0
      BY DEF Quoted
    <3> HIDE DEF q
    <3> QED
      BY <1>1, <3>1
  <2>2. mysql /\ s[i] = DoubleQuote => q = i
    BY Zenon DEF OpenedAt
  <2>3. i # 0
    OBVIOUS
  <2> HIDE DEF q
  <2> QED
    BY <2>1, <2>2, <2>3, Zenon DEF Opens
<1> HIDE DEF q
<1>4. ASSUME q # 0 PROVE QuotedEnd(s, q) # 0 /\ QuotedEnd(s, q) = QuotedFrom(s, q)[q + 1]
  <2>1. q \in 1 .. Len(s)
    BY <1>1, <1>4
  <2>2. QuotedEnd(s, q) \in q + 1 .. Len(s) + 1 /\ QuotedEnd(s, q) = QuotedFrom(s, q)[q + 1]
    BY <2>1, QuotedEndBounds, QuotedFromIs
  <2> QED
    BY <2>1, <2>2
<1>5. ASSUME q # 0 PROVE Opens(s[q], mysql) /\ (q # i => s[q] = "'")
  BY <1>1, <1>5, Zenon DEF Opens
<1>6. ASSUME q # 0 PROVE s[q] \notin Words \cup {"$"} /\ s[q] # Backslash
  <2>1. s[q] = "'" \/ s[q] = DoubleQuote
    BY <1>1, <1>6, Zenon
  <2> QED
    BY <2>1, QuoteBytes, DoubleQuoteBytes
<1> QED
  BY <1>1, <1>2, <1>3, <1>4, <1>5, <1>6 DEF q

\* A masked statement is the one without its string literals, read byte by byte.
THEOREM StringsHidden ==
  ASSUME NEW S, NEW s \in Seq(S), NEW mysql \in BOOLEAN
  PROVE  HidesStrings(s, mysql)
<1> SUFFICES ASSUME Range(s) \cap (Digits \cup {".", "$"}) = {}
             PROVE  Masked(s, mysql) = WithoutLiterals(s, mysql)
  BY DEF HidesStrings
<1> DEFINE once == Masked(s, mysql)
           E == Ends(s, mysql)
           T == {s[i] : i \in 1 .. Len(s)} \cup {"?"}
           W == Words \cup {"$"}
           n == Len(once)
           R == Reading(s, mysql)
           O(i) == OpenedAt(s, i, mysql)
           Out(k) == SubSeq(once, 1, k)
<1>1. PICK place : IsWay(s, E, "?", once, place) /\ place[1] = 1
  BY MaskedIs
<1>2. \A i \in 1 .. Len(s) : E[i] = LiteralEnd(s, i, mysql)
  BY DEF Ends
<1>3. \A i \in 1 .. Len(s) : E[i] = 0 \/ E[i] \in i + 1 .. Len(s) + 1
  BY MaskedIs
<1>4. /\ R[0] = Now("code", NoByte, <<>>)
      /\ \A k \in 1 .. Len(s) : R[k] = ReadByte(R[k - 1], s[k], mysql)
  BY ReadingIs DEF Now
<1>5. ASSUME NEW i \in 1 .. Len(s)
      PROVE  /\ E[i] = 0 <=> O(i) = 0
             /\ O(i) # 0 => /\ O(i) \in i .. Len(s) /\ Quoted(s, i, O(i)) /\ Opens(s[O(i)], mysql)
                            /\ O(i) # i => s[O(i)] = "'"
                            /\ s[O(i)] \notin W /\ s[O(i)] # Backslash
                            /\ E[i] = QuotedFrom(s, O(i))[O(i) + 1]
             /\ O(i) = 0 => ~Opens(s[i], mysql)
             /\ \A p \in i .. Len(s) : s[p] = "'" /\ Quoted(s, i, p) => O(i) = p
  <2>1. s[i] \notin Digits \cup {".", "$"}
    BY DEF Range
  <2> QED
    BY <1>2, <2>1, QuotedLiteral
<1> HIDE DEF once, E, R, O
<1>6. /\ once \in Seq(T) /\ n \in Nat /\ Len(s) \in Nat
      /\ place \in [1 .. n + 1 -> 1 .. Len(s) + 1] /\ place[n + 1] = Len(s) + 1
  <2>1. once \in Seq(T)
    BY <1>1, Zenon DEF IsWay
  <2> QED
    BY <1>1, <2>1, LenProperties DEF IsWay
<1>7. ASSUME NEW k \in 1 .. n
      PROVE  /\ place[k] \in 1 .. Len(s)
             /\ IF E[place[k]] = 0 THEN once[k] = s[place[k]] /\ place[k + 1] = place[k] + 1
                                   ELSE once[k] = "?" /\ place[k + 1] = E[place[k]]
  BY <1>1 DEF IsWay
<1>8. ASSUME NEW k \in 1 .. n
      PROVE  At(once, k - 1) \in W <=> At(s, place[k] - 1) \in W
  <2>1. CASE k = 1
    BY <1>1, <2>1 DEF At
  <2>2. CASE k # 1
    <3> DEFINE i == place[k - 1]
    <3>1. k - 1 \in 1 .. n /\ (k - 1) + 1 = k
      BY <1>6, <2>2
    <3>2. /\ i \in 1 .. Len(s)
          /\ IF E[i] = 0 THEN once[k - 1] = s[i] /\ place[k] = i + 1
                         ELSE once[k - 1] = "?" /\ place[k] = E[i]
      BY <1>7, <3>1
    <3>3. At(once, k - 1) = once[k - 1] /\ place[k] \in 1 .. Len(s)
      BY <1>6, <1>7, <3>1 DEF At
    <3> HIDE DEF i
    <3>4. CASE E[i] = 0
      BY <3>2, <3>3, <3>4 DEF At
    <3>5. CASE E[i] # 0
      <4> DEFINE q == O(i)
      <4>1. q \in i .. Len(s) /\ s[q] \notin W /\ s[q] # Backslash /\ E[i] = QuotedFrom(s, q)[q + 1]
        BY <1>5, <3>2, <3>5
      <4> HIDE DEF q
      <4>2. q \in 1 .. Len(s) /\ q + 1 \in 1 .. Len(s) + 1
        BY <3>2, <4>1
      <4>3. E[i] <= Len(s) => s[E[i] - 1] = s[q]
        <5>1. \A j \in 1 .. Len(s) + 1 :
                QuotedFrom(s, q)[j] <= Len(s) => s[QuotedFrom(s, q)[j] - 1] = s[q]
          BY <4>1, <4>2, ReadToEnd, ZenonT(30)
        <5> QED
          BY <4>1, <4>2, <5>1
      <4>4. s[E[i] - 1] \notin W /\ At(s, E[i] - 1) = s[E[i] - 1]
        <5>1. E[i] \in i + 1 .. Len(s) + 1 /\ E[i] <= Len(s)
          BY <1>3, <3>2, <3>3, <3>5
        <5>2. E[i] - 1 \in 1 .. Len(s)
          BY <3>2, <5>1
        <5> QED
          BY <4>1, <4>3, <5>1, <5>2, AtIs
      <4>5. "?" \notin W
        BY QuoteBytes
      <4> HIDE DEF W
      <4> QED
        BY <3>2, <3>3, <3>5, <4>4, <4>5
    <3> QED
      BY <3>4, <3>5
  <2> QED
    BY <2>1, <2>2
<1>9. ASSUME NEW k \in 0 .. n
      PROVE  /\ Out(k) \in Seq(T) /\ Len(Out(k)) = k
             /\ \A x \in Int : x <= k => At(Out(k), x) = At(once, x)
  <2>1. Out(k) \in Seq(T) /\ Len(Out(k)) = k /\ \A x \in 1 .. k : Out(k)[x] = once[x]
    BY <1>6
  <2> HIDE DEF Out
  <2> QED
    BY <1>6, <2>1 DEF At
<1>10. ASSUME NEW k \in 1 .. n, E[place[k]] = 0
       PROVE  Append(Out(k - 1), s[place[k]]) = Out(k)
  <2>1. s[place[k]] = once[k]
    BY <1>7, <1>10
  <2>2. Append(Out(k - 1), once[k]) = Out(k)
    BY <1>6
  <2> QED
    BY <2>1, <2>2
<1>11. ASSUME NEW k \in 1 .. n, E[place[k]] # 0
       PROVE  Out(k - 1) \o <<"?">> = Out(k)
  <2>1. "?" = once[k]
    BY <1>7, <1>11
  <2>2. Out(k - 1) \o <<once[k]>> = Out(k)
    BY <1>6
  <2> QED
    BY <2>1, <2>2
<1> DEFINE Ready(k) == \E mode, quote :
                         /\ R[place[k] - 1] = Now(mode, quote, Out(k - 1))
                         /\ place[k] <= Len(s) =>
                              mode = "code" \/ (mode = "closed" /\ s[place[k]] # quote)
           P == {k \in 0 .. n : Ready(k + 1)}
<1>12. 0 \in P
  <2>1. Out(0) = <<>> /\ 0 + 1 = 1 /\ 1 - 1 = 0
    BY <1>6
  <2> HIDE DEF Out
  <2>2. R[place[1] - 1] = Now("code", NoByte, Out(1 - 1))
    BY <1>1, <1>4, <2>1
  <2>3. Ready(1)
    BY <2>2
  <2> HIDE DEF Ready
  <2> QED
    BY <1>6, <2>1, <2>3
<1>13. ASSUME NEW k \in 1 .. n, Ready(k), E[place[k]] = 0 PROVE Ready(k + 1)
  <2> DEFINE i == place[k]
  <2>1. i \in 1 .. Len(s) /\ place[k + 1] = i + 1 /\ (i + 1) - 1 = i /\ (k + 1) - 1 = k
    BY <1>7, <1>13
  <2>2. PICK mode, quote : /\ R[i - 1] = Now(mode, quote, Out(k - 1))
                           /\ mode = "code" \/ (mode = "closed" /\ s[i] # quote)
    BY <1>13, <2>1
  <2>3. ~Opens(s[i], mysql)
    BY <1>5, <1>13, <2>1
  <2>4. R[i] = Now("code", quote, Append(Out(k - 1), s[i]))
    <3> HIDE DEF Out, i
    <3>1. ReadByte(Now(mode, quote, Out(k - 1)), s[i], mysql) = Now("code", quote, Append(Out(k - 1), s[i]))
      BY <2>2, <2>3, ReadOutside
    <3> QED
      BY <1>4, <2>1, <2>2, <3>1
  <2>5. Append(Out(k - 1), s[i]) = Out(k)
    BY <1>10, <1>13
  <2> HIDE DEF Out, i
  <2>6. R[place[k + 1] - 1] = Now("code", quote, Out((k + 1) - 1))
    BY <2>1, <2>4, <2>5
  <2> QED
    BY <2>6
\* No prefix stands before a literal that begins with its quote: the loop would have taken it.
<1>14. ASSUME NEW k \in 1 .. n, O(place[k]) = place[k]
       PROVE  PrefixLength(Out(k - 1), s[place[k]]) = 0
  <2> DEFINE i == place[k]
             out == Out(k - 1)
             Behind(x) == At(out, (k - 1) - x)
  <2>1. i \in 1 .. Len(s) /\ k - 1 \in 0 .. n
    BY <1>6, <1>7
  <2>2. /\ Len(out) = k - 1
        /\ \A x \in {0, 1, 2} : Behind(x) = At(once, (k - 1) - x)
    <3>1. Len(out) = k - 1 /\ \A x \in Int : x <= k - 1 => At(out, x) = At(once, x)
      BY <1>9, <2>1
    <3> HIDE DEF out
    <3> QED
      BY <3>1
  \* A byte that was written and is no mask was copied.
  <2>3. ASSUME NEW x \in 1 .. k - 1, At(once, x) # "?"
        PROVE  /\ place[x] \in 1 .. Len(s) /\ s[place[x]] = At(once, x) /\ place[x + 1] = place[x] + 1
               /\ E[place[x]] = 0
    <3>1. x \in 1 .. n /\ At(once, x) = once[x]
      BY <1>6 DEF At
    <3> QED
      BY <1>7, <2>3, <3>1
  <2>4. ASSUME s[i] = "'", At(once, k - 1) \in QuotePrefixes, At(once, (k - 1) - 1) \notin W PROVE FALSE
    <3>1. k - 1 \in 1 .. k - 1 /\ At(once, k - 1) # "?" /\ k - 1 \in 1 .. n /\ (k - 1) + 1 = k
      <4>1. NoByte \notin QuotePrefixes /\ "?" \notin QuotePrefixes
        BY QuoteBytes, NumberBytes
      <4>2. k - 1 # 0
        BY <1>6, <2>4, <4>1 DEF At
      <4> QED
        BY <1>6, <2>4, <4>1, <4>2
    <3> DEFINE h == place[k - 1]
    <3>2. h \in 1 .. Len(s) /\ s[h] \in QuotePrefixes /\ i = h + 1 /\ E[h] = 0
      BY <2>3, <2>4, <3>1
    <3>3. At(s, h - 1) \notin W
      BY <1>8, <2>4, <3>1
    <3> HIDE DEF h, i
    <3>4. Quoted(s, h, i)
      BY <3>2, <3>3 DEF Quoted, Apart
    <3>5. O(h) = i
      BY <1>5, <2>1, <2>4, <3>2, <3>4
    <3> QED
      BY <1>5, <2>1, <3>2, <3>5
  <2>5. ASSUME s[i] = "'", At(once, k - 1) = "&", At(once, (k - 1) - 1) \in {"U", "u"},
               At(once, (k - 1) - 2) \notin W
        PROVE  FALSE
    <3>1. /\ k - 1 \in 1 .. k - 1 /\ At(once, k - 1) # "?" /\ (k - 1) + 1 = k
          /\ k - 2 \in 1 .. k - 1 /\ k - 2 \in 1 .. n /\ (k - 2) + 1 = k - 1 /\ (k - 1) - 1 = k - 2
          /\ At(once, k - 2) # "?" /\ (k - 1) - 2 = (k - 2) - 1
      <4>1. NoByte # "&" /\ NoByte # "U" /\ NoByte # "u" /\ "?" # "&" /\ "?" # "U" /\ "?" # "u"
        BY DEF NoByte
      <4>2. (k - 1) - 1 = k - 2 /\ (k - 1) - 2 = (k - 2) - 1 /\ (k - 1) + 1 = k /\ (k - 2) + 1 = k - 1
        OBVIOUS
      <4>3. At(once, k - 2) \in {"U", "u"}
        BY <2>5, <4>2
      <4>4. k - 1 \in 1 .. n /\ k - 2 \in 1 .. n
        BY <1>6, <2>5, <4>1, <4>3 DEF At
      <4> QED
        BY <2>5, <4>1, <4>2, <4>3, <4>4
    <3> DEFINE h == place[k - 2]
               g == place[k - 1]
    <3>2. g \in 1 .. Len(s) /\ s[g] = "&" /\ i = g + 1
      BY <2>3, <2>5, <3>1
    <3>3. h \in 1 .. Len(s) /\ s[h] \in {"U", "u"} /\ g = h + 1 /\ E[h] = 0
      BY <2>3, <2>5, <3>1
    <3>4. At(s, h - 1) \notin W
      BY <1>8, <2>5, <3>1
    <3> HIDE DEF h, g, i
    <3>5. Quoted(s, h, i)
      BY <3>2, <3>3, <3>4 DEF Quoted, Apart, At
    <3>6. O(h) = i
      BY <1>5, <2>1, <2>5, <3>2, <3>3, <3>5
    <3> QED
      BY <1>5, <2>1, <3>3, <3>6
  <2> HIDE DEF out, i
  <2>6. /\ ~(s[i] = "'" /\ Behind(0) \in QuotePrefixes /\ Behind(1) \notin W)
        /\ ~(s[i] = "'" /\ Behind(0) = "&" /\ Behind(1) \in {"U", "u"} /\ Behind(2) \notin W)
    <3>1. (k - 1) - 0 = k - 1
      OBVIOUS
    <3> HIDE DEF W
    <3> QED
      BY <2>2, <2>4, <2>5, <3>1
  <2>7. PrefixLength(out, s[i]) = 0
    <3>1. At(out, Len(out)) = Behind(0) /\ At(out, Len(out) - 1) = Behind(1) /\ At(out, Len(out) - 2) = Behind(2)
      BY <2>2
    <3> HIDE DEF Behind
    <3> QED
      BY <2>6, <3>1, Zenon DEF PrefixLength, QuotePrefixes
  <2> QED
    BY <2>7 DEF out, i
\* A quote takes its prefix along.
<1>15. ASSUME NEW k \in 1 .. n, Ready(k), O(place[k]) # 0
       PROVE  R[O(place[k])] = Now("string", s[O(place[k])], Out(k))
  <2> DEFINE i == place[k]
             q == O(i)
             out == Out(k - 1)
  <2>1. i \in 1 .. Len(s) /\ E[i] # 0
    BY <1>5, <1>7, <1>15
  <2>2. /\ q \in i .. Len(s) /\ Quoted(s, i, q) /\ Opens(s[q], mysql) /\ (q # i => s[q] = "'")
    BY <1>5, <1>15, <2>1
  <2>3. PICK mode, quote : /\ R[i - 1] = Now(mode, quote, out)
                           /\ mode = "code" \/ (mode = "closed" /\ s[i] # quote)
    BY <1>15, <2>1
  <2>4. /\ out \in Seq(T) /\ Len(out) = k - 1 /\ At(out, k - 1) = At(once, k - 1)
        /\ out \o <<"?">> = Out(k)
    <3>1. k - 1 \in 0 .. n
      BY <1>6
    <3>2. out \in Seq(T) /\ Len(out) = k - 1 /\ \A x \in Int : x <= k - 1 => At(out, x) = At(once, x)
      BY <1>9, <3>1
    <3>3. out \o <<"?">> = Out(k)
      BY <1>11, <2>1
    <3> HIDE DEF out, Out
    <3> QED
      BY <3>2, <3>3
  <2>5. q = i => PrefixLength(out, s[i]) = 0
    BY <1>14
  <2>6. Apart(s, i) => At(out, k - 1) \notin W
    BY <1>8, <2>4 DEF Apart
  <2> HIDE DEF out, Out, i, q
  <2>7. \A c : SubSeq(out, 1, Len(out) - 0) = out
    BY <2>4
  <2>8. CASE q = i
    <3>1. R[i] = ReadByte(R[i - 1], s[i], mysql)
      BY <1>4, <2>1
    <3>2. ReadByte(Now(mode, quote, out), s[i], mysql) =
            Now("string", s[i], SubSeq(out, 1, Len(out) - PrefixLength(out, s[i])) \o <<"?">>)
      BY <2>2, <2>3, <2>8, ReadOutside
    <3> QED
      BY <2>3, <2>4, <2>5, <2>7, <2>8, <3>1, <3>2 DEF i, q
  <2>9. CASE q = i + 1 /\ s[i] \in QuotePrefixes /\ Apart(s, i)
    <3> DEFINE out1 == Append(out, s[i])
    <3>1. R[i] = ReadByte(R[i - 1], s[i], mysql) /\ R[q] = ReadByte(R[i], s[q], mysql)
      <4>1. q \in 1 .. Len(s) /\ q - 1 = i
        BY <2>1, <2>2, <2>9
      <4> QED
        BY <1>4, <2>1, <4>1
    <3>2. ~Opens(s[i], mysql)
      BY <2>9, QuoteBytes, DoubleQuoteBytes DEF Opens
    <3>3. R[i] = Now("code", quote, out1)
      BY <2>3, <3>1, <3>2, ReadOutside
    <3>4. Len(out1) = k /\ At(out1, k) = s[i] /\ At(out1, k - 1) = At(out, k - 1) /\ SubSeq(out1, 1, k - 1) = out
      BY <2>4 DEF At
    <3> HIDE DEF out1
    <3>5. PrefixLength(out1, s[q]) = 1
      <4>1. s[q] = "'" /\ At(out1, Len(out1)) \in QuotePrefixes /\ At(out1, Len(out1) - 1) \notin W
        BY <2>1, <2>2, <2>6, <2>9, <3>4
      <4>2. At(out1, Len(out1)) # "&"
        BY <4>1, QuoteBytes
      <4> QED
        BY <4>1, <4>2 DEF PrefixLength, QuotePrefixes
    <3>6. R[q] = Now("string", s[q], SubSeq(out1, 1, Len(out1) - PrefixLength(out1, s[q])) \o <<"?">>)
      BY <2>2, <3>1, <3>3, ReadOutside
    <3> QED
      BY <2>4, <3>4, <3>5, <3>6 DEF i, q
  <2>10. CASE q = i + 2 /\ s[i] \in {"U", "u"} /\ At(s, i + 1) = "&" /\ Apart(s, i)
    <3> DEFINE out1 == Append(out, s[i])
               out2 == Append(out1, s[i + 1])
    <3>1. /\ R[i] = ReadByte(R[i - 1], s[i], mysql) /\ R[i + 1] = ReadByte(R[i], s[i + 1], mysql)
          /\ R[q] = ReadByte(R[i + 1], s[q], mysql) /\ s[i + 1] = "&"
      <4>1. q \in 1 .. Len(s) /\ q - 1 = i + 1 /\ i + 1 \in 1 .. Len(s) /\ (i + 1) - 1 = i
        BY <2>1, <2>2, <2>10
      <4>2. s[i + 1] = "&"
        BY <2>10, <4>1 DEF At
      <4> QED
        BY <1>4, <2>1, <4>1, <4>2
    <3>2. ~Opens(s[i], mysql) /\ ~Opens(s[i + 1], mysql)
      BY <2>10, <3>1, QuoteBytes, DoubleQuoteBytes DEF Opens
    <3>3. R[i] = Now("code", quote, out1)
      BY <2>3, <3>1, <3>2, ReadOutside
    <3>4. R[i + 1] = Now("code", quote, out2)
      BY <3>1, <3>2, <3>3, ReadOutside
    <3>5. /\ Len(out2) = k + 1 /\ At(out2, k + 1) = "&" /\ At(out2, k) = s[i]
          /\ At(out2, k - 1) = At(out, k - 1) /\ SubSeq(out2, 1, k - 1) = out
      BY <2>4, <3>1 DEF At
    <3> HIDE DEF out1, out2
    <3>6. PrefixLength(out2, s[q]) = 2
      <4>1. /\ s[q] = "'" /\ At(out2, Len(out2)) = "&" /\ At(out2, Len(out2) - 1) \in {"U", "u"}
            /\ At(out2, Len(out2) - 2) \notin W
        BY <2>1, <2>2, <2>6, <2>10, <3>5
      <4>2. At(out2, Len(out2)) \notin QuotePrefixes
        BY <4>1, QuoteBytes
      <4> QED
        BY <4>1, <4>2 DEF PrefixLength, QuotePrefixes
    <3>7. R[q] = Now("string", s[q], SubSeq(out2, 1, Len(out2) - PrefixLength(out2, s[q])) \o <<"?">>)
      BY <2>2, <3>1, <3>4, ReadOutside
    <3>8. (k + 1) - 2 = k - 1
      OBVIOUS
    <3> QED
      BY <2>4, <3>5, <3>6, <3>7, <3>8 DEF i, q
  <2> QED
    BY <2>2, <2>8, <2>9, <2>10 DEF Quoted
<1>16. ASSUME NEW k \in 1 .. n, Ready(k), E[place[k]] # 0 PROVE Ready(k + 1)
  <2> DEFINE i == place[k]
             q == O(i)
             e == QuotedFrom(s, q)
  <2>1. i \in 1 .. Len(s) /\ q # 0 /\ place[k + 1] = E[i] /\ (k + 1) - 1 = k
    BY <1>5, <1>7, <1>16
  <2>2. q \in i .. Len(s) /\ s[q] # Backslash /\ E[i] = e[q + 1]
    BY <1>5, <2>1
  <2>3. R[q] = Now("string", s[q], Out(k))
    BY <1>15, <1>16, <2>1
  <2> HIDE DEF i, q, Out
  <2>4. q \in 1 .. Len(s) /\ q + 1 \in 1 .. Len(s) + 1 /\ (q + 1) - 1 = q
    BY <2>1, <2>2
  <2>5. /\ e[q + 1] <= Len(s) => s[e[q + 1]] # s[q]
        /\ R[(q + 1) - 1] = Now("string", s[q], Out(k)) =>
             \E mode : /\ R[e[q + 1] - 1] = Now(mode, s[q], Out(k))
                       /\ e[q + 1] <= Len(s) => mode = "closed"
    <3> DEFINE out == Out(k)
    <3>1. \A j \in 1 .. Len(s) + 1 :
            /\ QuotedFrom(s, q)[j] <= Len(s) =>
                 /\ s[QuotedFrom(s, q)[j] - 1] = s[q]
                 /\ s[QuotedFrom(s, q)[j]] # s[q]
            /\ Reading(s, mysql)[j - 1] = Now("string", s[q], out) =>
                 ReadPast(s, Reading(s, mysql), QuotedFrom(s, q)[j], s[q], out)
      <4> HIDE DEF out
      <4> QED
        BY <2>2, <2>4, ReadToEnd
    <3> HIDE DEF e
    <3> QED
      BY <2>4, <3>1 DEF R, e, ReadPast
  <2> HIDE DEF e
  <2>6. PICK mode : /\ R[E[i] - 1] = Now(mode, s[q], Out(k))
                    /\ E[i] <= Len(s) => mode = "closed" /\ s[E[i]] # s[q]
    BY <2>2, <2>3, <2>4, <2>5
  <2>7. /\ R[place[k + 1] - 1] = Now(mode, s[q], Out((k + 1) - 1))
        /\ place[k + 1] <= Len(s) => mode = "closed" /\ s[place[k + 1]] # s[q]
    BY <2>1, <2>6
  <2> QED
    BY <2>7
<1>17. \A k \in 0 .. n : k \in P
  <2>1. ASSUME NEW k \in 1 .. n, k - 1 \in P PROVE k \in P
    <3>1. (k - 1) + 1 = k /\ k \in 0 .. n
      OBVIOUS
    <3>2. Ready(k)
      <4> HIDE DEF Ready
      <4> QED
        BY <2>1, <3>1
    <3>3. Ready(k + 1)
      <4> HIDE DEF Ready
      <4> QED
        BY <1>13, <1>16, <3>2
    <3> HIDE DEF Ready
    <3> QED
      BY <3>1, <3>3
  <2> HIDE DEF P
  <2> QED
    BY <1>6, <1>12, <2>1, UpTo
<1>18. Ready(n + 1)
  <2>1. n \in 0 .. n
    BY <1>6
  <2> HIDE DEF Ready
  <2> QED
    BY <1>17, <2>1
<1>19. R[Len(s)].out = Out(n)
  <2>1. place[n + 1] - 1 = Len(s) /\ (n + 1) - 1 = n
    BY <1>6
  <2>2. PICK mode, quote : R[place[n + 1] - 1] = Now(mode, quote, Out((n + 1) - 1))
    BY <1>18
  <2> HIDE DEF Out
  <2> QED
    BY <2>1, <2>2 DEF Now
<1>20. Out(n) = once
  BY <1>6
<1> QED
  BY <1>19, <1>20 DEF WithoutLiterals, R, once

-----------------------------------------------------------------------------
(* Card numbers *)

\* Digits and what may stand between them.
LEMMA CardBytes ==
  /\ NoByte \notin Digits /\ NoByte \notin Separators /\ NoByte \notin Words
  /\ Digits \subseteq Words
  /\ \A c \in Separators : c \notin Words /\ c \notin Digits
<1>1. "-" \notin Words /\ "-" \notin Digits
  BY NotWords, NotBytes
<1>2. Space \notin Words
  <2>1. Space \notin Alphanumerics /\ Space # "_"
    BY Zenon DEF Space, Alphanumerics
  <2> QED
    BY <2>1, AlphanumericsAre, Zenon DEF Words
<1>3. NoByte \notin Separators
  BY Zenon DEF NoByte, Separators, Space
<1> QED
  BY <1>1, <1>2, <1>3, ClassFacts, Zenon DEF Separators

\* A run goes on with a digit, or with a separator before a digit.
JoinsOn(s, e) == At(s, e) \in Digits \/ (At(s, e) \in Separators /\ At(s, e + 1) \in Digits)

\* Where what is joined from a digit on ends.
DigitsEnd(s, i) == Min({e \in i + 1 .. Len(s) + 1 : ~JoinsOn(s, e)})

\* It ends behind a digit, and holds digits and single separators between them.
LEMMA DigitsEndIs ==
  ASSUME NEW S, NEW s \in Seq(S), NEW i \in 1 .. Len(s), s[i] \in Digits
  PROVE  /\ DigitsEnd(s, i) \in i + 1 .. Len(s) + 1
         /\ At(s, DigitsEnd(s, i)) \notin Digits
         /\ s[DigitsEnd(s, i) - 1] \in Digits
         /\ \A e \in i .. DigitsEnd(s, i) - 1 :
              /\ s[e] \in Digits \cup Separators
              /\ s[e] \in Separators => e > i /\ s[e - 1] \in Digits /\ s[e + 1] \in Digits
         /\ ~JoinsOn(s, DigitsEnd(s, i))
<1> DEFINE n == Len(s)
           B == {e \in i + 1 .. n + 1 : ~JoinsOn(s, e)}
           full == DigitsEnd(s, i)
<1>0. n \in Nat
  OBVIOUS
<1>1. n + 1 \in B
  BY CardBytes DEF JoinsOn, At
<1>2. full \in B /\ \A e \in B : full <= e
  <2>1. full = Min(B) /\ B \in SUBSET Nat
    BY DEF DigitsEnd
  <2> HIDE DEF B, full
  <2> QED
    BY <1>1, <2>1, MinOf
<1>3. ASSUME NEW e \in i + 1 .. full - 1 PROVE JoinsOn(s, e)
  BY <1>2
<1>4. full \in i + 1 .. n + 1 /\ ~JoinsOn(s, full)
  BY <1>2
<1> HIDE DEF full, B
<1>5. ASSUME NEW e \in i .. full - 1
      PROVE  /\ e \in 1 .. n /\ s[e] \in Digits \cup Separators
             /\ s[e] \in Separators => e > i /\ s[e + 1] \in Digits /\ e + 1 \in 1 .. n
  <2>1. CASE e = i
    BY <2>1, CardBytes
  <2>2. CASE e # i
    <3>1. JoinsOn(s, e) /\ e \in 1 .. n
      BY <1>3, <1>4, <2>2
    <3>2. At(s, e) = s[e]
      BY <3>1, AtIs
    <3>3. s[e] \in Separators => At(s, e + 1) \in Digits
      BY <3>1, <3>2, CardBytes DEF JoinsOn
    <3>4. s[e] \in Separators => s[e + 1] \in Digits /\ e + 1 \in 1 .. n
      BY <3>1, <3>3, CardBytes DEF At
    <3> QED
      BY <2>2, <3>1, <3>2, <3>4 DEF JoinsOn
  <2> QED
    BY <2>1, <2>2
<1>6. ASSUME NEW e \in i .. full - 1, s[e] \in Separators PROVE s[e - 1] \in Digits
  <2>1. e > i /\ e - 1 \in i .. full - 1
    BY <1>4, <1>5, <1>6
  <2>2. s[e - 1] \in Separators => s[(e - 1) + 1] \in Digits
    BY <1>5, <2>1
  <2>3. (e - 1) + 1 = e
    BY <1>6
  <2>4. s[e - 1] \notin Separators
    BY <1>6, <2>2, <2>3, CardBytes
  <2> QED
    BY <1>5, <2>1, <2>4
<1>7. At(s, full) \notin Digits
  BY <1>4 DEF JoinsOn
<1>8. s[full - 1] \in Digits
  <2>1. full - 1 \in i .. full - 1 /\ (full - 1) + 1 = full
    BY <1>4
  <2>2. s[full - 1] \in Separators => s[full] \in Digits /\ full \in 1 .. n
    BY <1>5, <2>1
  <2>3. s[full - 1] \notin Separators
    BY <1>7, <2>2, AtIs
  <2> QED
    BY <1>5, <2>1, <2>3
<1> QED
  BY <1>4, <1>5, <1>6, <1>7, <1>8 DEF full

\* Where card numbers may be looked for.
BeginsDigits(s, i) == s[i] \in Digits /\ At(s, i - 1) \notin Words

\* The runs that are searched are the pattern's: the code takes all that is joined, then
\* gives back what a word byte follows up to the last separator (scrub_card_numbers()).
LEMMA DigitRunIs ==
  ASSUME NEW S, NEW s \in Seq(S), NEW i \in 1 .. Len(s)
  PROVE  LET run == RunOfDigits(s, i)
         IN  /\ LongestOf({j \in i + 1 .. Len(s) + 1 : IsDigitRun(s, i, j)}) =
                  IF BeginsDigits(s, i) /\ run.isRun THEN run.end ELSE 0
             /\ run.isRun \in BOOLEAN
             /\ BeginsDigits(s, i) =>
                  /\ run.end \in i + 1 .. Len(s) + 1
                  /\ ~run.isRun => \A k \in i .. run.end - 1 : s[k] \in Digits
<1> DEFINE n == Len(s)
           full == DigitsEnd(s, i)
           seps == {e \in i .. full - 1 : s[e] \in Separators}
           run  == RunOfDigits(s, i)
           ends == {j \in i + 1 .. n + 1 : IsDigitRun(s, i, j)}
<1>0. n \in Nat /\ ends \in SUBSET Int
  OBVIOUS
<1>1. run = CASE At(s, full) \notin Words -> [end |-> full, isRun |-> TRUE]
              [] At(s, full) \in Words /\ seps # {} -> [end |-> Max(seps), isRun |-> TRUE]
              [] OTHER -> [end |-> full, isRun |-> FALSE]
  BY DEF RunOfDigits, DigitsEnd, JoinsOn
<1>2. /\ At(s, full) \notin Words => run.end = full /\ run.isRun = TRUE
      /\ At(s, full) \in Words /\ seps # {} => run.end = Max(seps) /\ run.isRun = TRUE
      /\ At(s, full) \in Words /\ seps = {} => run.end = full /\ run.isRun = FALSE
  <2> HIDE DEF run, full, seps
  <2> QED
    BY <1>1
<1>3. CASE ~BeginsDigits(s, i)
  <2>1. ends = {}
    BY <1>3 DEF BeginsDigits, IsDigitRun
  <2> HIDE DEF ends, run, full, seps
  <2> QED
    BY <1>2, <1>3, <2>1 DEF LongestOf, ends, run
<1>4. CASE BeginsDigits(s, i)
  <2>1. /\ full \in i + 1 .. n + 1 /\ At(s, full) \notin Digits /\ s[full - 1] \in Digits
        /\ \A e \in i .. full - 1 :
             /\ s[e] \in Digits \cup Separators
             /\ s[e] \in Separators => e > i /\ s[e - 1] \in Digits /\ s[e + 1] \in Digits
        /\ ~JoinsOn(s, full)
    BY <1>4, DigitsEndIs DEF BeginsDigits
  <2> HIDE DEF full
  <2>2. ASSUME NEW j \in i + 1 .. n + 1, IsDigitRun(s, i, j) PROVE j <= full
    <3>1. SUFFICES ASSUME j > full PROVE FALSE
      BY <2>1
    <3>2. full \in i .. j - 1 /\ full \in i + 1 .. j - 1 /\ full \in 1 .. n /\ full + 1 \in Int
      BY <2>1, <2>2, <3>1
    <3>3. s[full] \in Separators
      <4>1. At(s, full) \in Digits \cup Separators
        BY <2>2, <3>2 DEF IsDigitRun, All
      <4> QED
        BY <2>1, <3>2, <4>1, AtIs
    <3>4. At(s, full) \in Separators /\ At(s, full + 1) \notin Digits
      BY <2>1, <3>2, <3>3, AtIs DEF JoinsOn
    <3>5. full # j - 1
      BY <2>1, <2>2 DEF IsDigitRun
    <3>6. full + 1 \in i .. j - 1 /\ full + 1 \in i + 1 .. j - 1 /\ full + 1 \in 1 .. n
      BY <3>2, <3>5
    <3>7. At(s, full + 1) \in Digits \cup Separators
      BY <2>2, <3>6 DEF IsDigitRun, All
    <3>8. s[full + 1] \in Separators
      BY <3>4, <3>6, <3>7, AtIs
    <3>9. s[(full + 1) - 1] \in Digits
      BY <2>2, <3>6, <3>8 DEF IsDigitRun
    <3>10. (full + 1) - 1 = full
      BY <3>2
    <3> QED
      BY <3>3, <3>9, <3>10, CardBytes
  <2>3. ASSUME NEW j \in i + 1 .. full, At(s, j) \notin Words, s[j - 1] \in Digits
        PROVE  j \in ends
    <3>1. j \in i + 1 .. n + 1 /\ j - 1 \in 1 .. n
      BY <2>1
    <3>2. At(s, j - 1) \in Digits
      BY <2>3, <3>1, AtIs
    <3>3. ASSUME NEW k \in i .. j - 1 PROVE At(s, k) \in Digits \cup Separators
      <4>1. k \in 1 .. n /\ k \in i .. full - 1
        BY <2>1, <3>1
      <4> QED
        BY <2>1, <4>1, AtIs
    <3>4. \A k \in i + 1 .. j - 1 : s[k] \in Separators => s[k - 1] \in Digits
      BY <2>1, <3>1
    <3> QED
      BY <1>4, <2>3, <3>1, <3>2, <3>3, <3>4 DEF IsDigitRun, All, BeginsDigits
  <2>4. ASSUME NEW j \in ends, At(s, full) \in Words PROVE j \in seps
    <3>1. j \in i + 1 .. n + 1 /\ IsDigitRun(s, i, j)
      OBVIOUS
    <3>2. At(s, j) \notin Words
      BY <3>1 DEF IsDigitRun
    <3>3. j # full
      BY <2>4, <3>2
    <3>4. j \in i .. full - 1 /\ j \in 1 .. n
      BY <2>1, <2>2, <3>1, <3>3
    <3>5. s[j] \notin Words
      BY <3>2, <3>4, AtIs
    <3> QED
      BY <2>1, <3>4, <3>5, CardBytes
  <2>5. CASE At(s, full) \notin Words
    <3>1. full \in ends
      <4>1. full \in i + 1 .. full
        BY <2>1
      <4> HIDE DEF ends
      <4> QED
        BY <2>1, <2>3, <2>5, <4>1
    <3>2. \A j \in ends : j <= full
      BY <2>2
    <3> HIDE DEF ends
    <3>3. LongestOf(ends) = full
      BY <1>0, <2>1, <3>1, <3>2, LongestIs
    <3> HIDE DEF run
    <3> QED
      BY <1>2, <1>4, <2>1, <2>5, <3>3 DEF ends, run
  <2>6. CASE At(s, full) \in Words /\ seps # {}
    <3> DEFINE m == Max(seps)
    <3>1. seps \in SUBSET Int /\ full \in Int /\ \A e \in seps : e <= full
      BY <2>1
    <3>2. m \in seps /\ \A e \in seps : e <= m
      <4> HIDE DEF seps
      <4> QED
        BY <2>6, <3>1, MaxOf
    <3> HIDE DEF m
    <3>3. m \in i .. full - 1 /\ s[m] \in Separators
      BY <3>2
    <3>4. m \in i + 1 .. full /\ m \in 1 .. n /\ s[m - 1] \in Digits
      BY <2>1, <3>3
    <3>5. At(s, m) \notin Words
      BY <3>3, <3>4, AtIs, CardBytes
    <3>6. m \in ends
      <4> HIDE DEF ends
      <4> QED
        BY <2>3, <3>4, <3>5
    <3>7. \A j \in ends : j <= m
      <4> HIDE DEF ends, seps
      <4> QED
        BY <2>4, <2>6, <3>2
    <3>8. LongestOf(ends) = m
      <4> HIDE DEF ends
      <4> QED
        BY <1>0, <3>4, <3>6, <3>7, LongestIs
    <3>9. run.end = m /\ run.isRun = TRUE
      <4> HIDE DEF run, seps
      <4> QED
        BY <1>2, <2>6 DEF m
    <3>10. m \in i + 1 .. n + 1
      BY <2>1, <3>4
    <3> HIDE DEF run, ends
    <3> QED
      BY <1>4, <3>8, <3>9, <3>10 DEF ends, run
  <2>7. CASE At(s, full) \in Words /\ seps = {}
    <3>1. ends = {}
      <4> HIDE DEF ends, seps
      <4> QED
        BY <2>4, <2>7
    <3>2. LongestOf(ends) = 0
      BY <3>1 DEF LongestOf
    <3>3. run.end = full /\ run.isRun = FALSE
      <4> HIDE DEF run, seps
      <4> QED
        BY <1>2, <2>7
    <3>4. \A k \in i .. full - 1 : s[k] \in Digits
      BY <2>1, <2>7
    <3> HIDE DEF run, ends
    <3> QED
      BY <1>4, <2>1, <3>2, <3>3, <3>4 DEF ends, run
  <2> HIDE DEF run, ends, seps
  <2> QED
    BY <2>5, <2>6, <2>7
<1> QED
  BY <1>3, <1>4

\* Nothing begins inside a run of digits.
LEMMA NoRunInside ==
  ASSUME NEW S, NEW s \in Seq(S), NEW k \in 2 .. Len(s), s[k - 1] \in Digits
  PROVE  ~BeginsDigits(s, k)
<1>1. At(s, k - 1) = s[k - 1]
  BY AtIs
<1> QED
  BY <1>1, CardBytes DEF BeginsDigits

\* Within a run, a card number ends where the longest whole groups that spell one end
\* (scrub_card_numbers_in()).
LEMMA CardEndIs ==
  ASSUME NEW S, NEW run \in Seq(S), NEW i \in 1 .. Len(run)
  PROVE  /\ CardEnd(run, i) = LongestOf({j \in i + 1 .. Len(run) + 1 : IsCard(run, i, j)})
         /\ CardEnd(run, i) = 0 \/ CardEnd(run, i) \in i + 1 .. Len(run) + 1
<1> DEFINE ends == {j \in i + 1 .. Len(run) + 1 : IsCard(run, i, j)}
           Number(j) == IsCardNumber(Only(Between(run, i, j), Digits))
           whole == {j \in i + 1 .. Len(run) + 1 : At(run, j) \notin Digits /\ Number(j)}
<1>1. CardEnd(run, i) = IF At(run, i - 1) \in Digits \/ whole = {} THEN 0 ELSE Max(whole)
  BY DEF CardEnd
<1>2. ASSUME NEW j PROVE IsCard(run, i, j) <=> /\ At(run, i - 1) \notin Digits
                                               /\ At(run, j) \notin Digits /\ Number(j)
  BY DEF IsCard
<1> HIDE DEF Number
<1>3. ASSUME At(run, i - 1) \in Digits PROVE CardEnd(run, i) = LongestOf(ends)
  <2>1. ends = {}
    BY <1>2, <1>3
  <2> HIDE DEF ends, whole
  <2> QED
    BY <1>1, <1>3, <2>1 DEF LongestOf
<1>4. ASSUME At(run, i - 1) \notin Digits PROVE CardEnd(run, i) = LongestOf(ends)
  <2>1. ends = whole
    BY <1>2, <1>4
  <2> HIDE DEF ends, whole
  <2> QED
    BY <1>1, <1>4, <2>1 DEF LongestOf
<1>5. LongestOf(ends) = 0 \/ LongestOf(ends) \in i + 1 .. Len(run) + 1
  <2>1. ends \in SUBSET (i + 1 .. Len(run) + 1) /\ Len(run) \in Nat
    OBVIOUS
  <2> HIDE DEF ends
  <2> QED
    BY <2>1, LongestEnds
<1> HIDE DEF ends
<1>6. CardEnd(run, i) = LongestOf(ends)
  BY <1>3, <1>4
<1> QED
  BY <1>5, <1>6 DEF ends

\* What the pattern makes of a run.
MatchedCards(run) ==
  ReplaceLongest(run, LAMBDA a, b : IsCard(run, a, b), LAMBDA a, b : <<"[CARD]">>)

\* Where the cards of a run end.
CardEnds(run) == [i \in 1 .. Len(run) |-> CardEnd(run, i)]

CardMarks(s) == [i \in 1 .. Len(s) |-> <<"[CARD]">>]

\* The code and the pattern replace the same cards of a run.
LEMMA CardsAgreeIn ==
  ASSUME NEW S, NEW run \in Seq(S)
  PROVE  /\ ScrubCardNumbersIn(run) = MatchedCards(run)
         /\ ScrubCardNumbersIn(run) = Rewriting(run, CardEnds(run), CardMarks(run))[1]
         /\ ScrubCardNumbersIn(run) \in Seq(S \cup {"[CARD]"})
<1> DEFINE n == Len(run)
           T == S \cup {"[CARD]"}
           L == [i \in 1 .. n |->
                   LET ends == {j \in i + 1 .. n + 1 : IsCard(run, i, j)}
                   IN  IF ends = {} THEN 0 ELSE Max(ends)]
           e == [i \in 1 .. n |-> CardEnd(run, i)]
           p == [i \in 1 .. n |-> <<"[CARD]">>]
           Scan(f) == [i \in 1 .. n + 1 |->
                         IF i > n THEN <<>>
                         ELSE LET end == CardEnd(run, i)
                              IN  IF end = 0 THEN <<run[i]>> \o f[i + 1] ELSE <<"[CARD]">> \o f[end]]
           Match(f) == [i \in 1 .. n + 1 |->
                         IF i > n THEN <<>>
                         ELSE LET end == L[i]
                              IN  IF end = 0 THEN <<run[i]>> \o f[i + 1] ELSE <<"[CARD]">> \o f[end]]
           Rewritten(f, i) == IF i > n THEN <<>>
                              ELSE IF e[i] = 0 THEN <<run[i]>> \o f[i + 1] ELSE p[i] \o f[e[i]]
<1>0. n \in Nat /\ run \in Seq(T)
  OBVIOUS
<1>1. ASSUME NEW f PROVE Scan(f) = Match(f) /\ Scan(f) = [i \in 1 .. n + 1 |-> Rewritten(f, i)]
  <2>1. \A i \in 1 .. n : CardEnd(run, i) = L[i]
    BY CardEndIs DEF LongestOf
  <2>2. \A i \in 1 .. n : e[i] = CardEnd(run, i) /\ p[i] = <<"[CARD]">>
    OBVIOUS
  <2>3. \A i \in 1 .. n + 1 : i > n \/ i \in 1 .. n
    BY <1>0
  <2> HIDE DEF L, e, p, n
  <2>4. Scan(f) = Match(f)
    BY <2>1, <2>3
  <2>5. Scan(f) = [i \in 1 .. n + 1 |-> Rewritten(f, i)]
    BY <2>2, <2>3
  <2> QED
    BY <2>4, <2>5
<1>2. (CHOOSE f : f = Scan(f))[1] = (CHOOSE f : f = Match(f))[1]
  <2> HIDE DEF Scan, Match
  <2>1. \A f : f = Scan(f) <=> f = Match(f)
    BY <1>1
  <2> QED
    BY <2>1, Zenon
<1>3. ScrubCardNumbersIn(run) = (CHOOSE f : f = Scan(f))[1]
  BY DEF ScrubCardNumbersIn, Replace
<1>4. MatchedCards(run) = (CHOOSE f : f = Match(f))[1]
  BY DEF MatchedCards, ReplaceLongest, Replace, Longest
<1>5. (CHOOSE f : f = Scan(f)) = Rewriting(run, e, p)
  <2>1. ASSUME NEW f PROVE f = Scan(f) <=> IsRewriting(f, run, e, p)
    <3>1. IsRewriting(f, run, e, p) <=> f = [i \in 1 .. n + 1 |-> Rewritten(f, i)]
      BY DEF IsRewriting
    <3> HIDE DEF Scan, Rewritten, e, p
    <3> QED
      BY <1>1, <3>1
  <2> HIDE DEF Scan, e, p
  <2> QED
    BY <2>1, Zenon DEF Rewriting
<1>6. Rewriting(run, e, p)[1] \in Seq(T)
  <2>1. \A i \in 1 .. n : e[i] = 0 \/ e[i] \in i + 1 .. n + 1
    BY CardEndIs
  <2>2. \A i \in 1 .. n : e[i] # 0 => p[i] \in Seq(T)
    OBVIOUS
  <2>3. 1 \in 1 .. n + 1
    BY <1>0
  <2> HIDE DEF e, p, T
  <2> QED
    BY <1>0, <2>1, <2>2, <2>3, RewritingType
<1>7. e = CardEnds(run) /\ p = CardMarks(run)
  BY DEF CardEnds, CardMarks
<1> HIDE DEF Scan, Match, e, p
<1> QED
  BY <1>2, <1>3, <1>4, <1>5, <1>6, <1>7

\* Where the runs end that the code goes over at once, and what becomes of them.
PassedTo(s) == [i \in 1 .. Len(s) |-> IF BeginsDigits(s, i) THEN RunOfDigits(s, i).end ELSE 0]

PassedPieces(s) ==
  [i \in 1 .. Len(s) |-> IF RunOfDigits(s, i).isRun THEN ScrubCardNumbersIn(Between(s, i, PassedTo(s)[i]))
                                                    ELSE Between(s, i, PassedTo(s)[i])]

\* The code's loop over a message, as a rewriting.
LEMMA ScrubCardsIs ==
  ASSUME NEW S, NEW s \in Seq(S)
  PROVE  ScrubCardNumbers(s) = Rewriting(s, PassedTo(s), PassedPieces(s))[1]
<1> DEFINE e1 == PassedTo(s)
           p1 == PassedPieces(s)
           Skip(i) == IF s[i] \in Digits /\ At(s, i - 1) \notin Words THEN RunOfDigits(s, i).end ELSE 0
           By(i, e) == IF RunOfDigits(s, i).isRun THEN ScrubCardNumbersIn(Between(s, i, e))
                                                  ELSE Between(s, i, e)
           OneScan(f, i) == IF i > Len(s) THEN <<>>
                            ELSE LET end == Skip(i)
                                 IN  IF end = 0 THEN <<s[i]>> \o f[i + 1] ELSE By(i, end) \o f[end]
           Scan(f) == [i \in 1 .. Len(s) + 1 |-> OneScan(f, i)]
           Rewritten(f, e, p, i) == IF i > Len(s) THEN <<>>
                                    ELSE IF e[i] = 0 THEN <<s[i]>> \o f[i + 1] ELSE p[i] \o f[e[i]]
<1>1. ScrubCardNumbers(s) = (CHOOSE f : f = Scan(f))[1]
  BY DEF ScrubCardNumbers, Replace
<1>2. (CHOOSE f : f = Scan(f)) = Rewriting(s, e1, p1)
  <2>1. ASSUME NEW f PROVE f = Scan(f) <=> IsRewriting(f, s, e1, p1)
    <3>1. \A i \in 1 .. Len(s) : Skip(i) = e1[i]
      BY DEF BeginsDigits, PassedTo
    <3>2. \A i \in 1 .. Len(s) : By(i, e1[i]) = p1[i]
      BY DEF PassedPieces
    <3>3. ASSUME NEW i \in 1 .. Len(s) + 1 PROVE OneScan(f, i) = Rewritten(f, e1, p1, i)
      <4>1. i > Len(s) \/ i \in 1 .. Len(s)
        OBVIOUS
      <4> HIDE DEF Skip, By, e1, p1
      <4> QED
        BY <3>1, <3>2, <4>1
    <3> HIDE DEF OneScan, Rewritten, e1, p1
    <3> QED
      BY <3>3 DEF IsRewriting, Rewritten
  <2> HIDE DEF Scan, e1, p1
  <2> QED
    BY <2>1, Zenon DEF Rewriting
<1> HIDE DEF Scan
<1> QED
  BY <1>1, <1>2

\* Card numbers are looked for in the runs that the pattern matches and replaced as the
\* pattern replaces them, though the code passes over what is no run at once
\* (scrub_card_numbers()).
THEOREM CardsFound ==
  ASSUME NEW S, NEW s \in Seq(S)
  PROVE  FindsCards(s)
<1> DEFINE n == Len(s)
           T == S \cup {"[CARD]"}
           run(i) == RunOfDigits(s, i)
           ends(i) == {j \in i + 1 .. n + 1 : IsDigitRun(s, i, j)}
           e1 == [i \in 1 .. n |-> IF BeginsDigits(s, i) THEN run(i).end ELSE 0]
           p1 == [i \in 1 .. n |-> IF run(i).isRun THEN ScrubCardNumbersIn(Between(s, i, e1[i]))
                                                   ELSE Between(s, i, e1[i])]
           e2 == [i \in 1 .. n |-> LongestOf(ends(i))]
           p2 == [i \in 1 .. n |-> MatchedCards(Between(s, i, e2[i]))]
           f1 == Rewriting(s, e1, p1)
           f2 == Rewriting(s, e2, p2)
<1>0. n \in Nat /\ s \in Seq(T)
  OBVIOUS
<1>1. ASSUME NEW i \in 1 .. n
      PROVE  /\ e1[i] = IF BeginsDigits(s, i) THEN run(i).end ELSE 0
             /\ e2[i] = IF BeginsDigits(s, i) /\ run(i).isRun THEN run(i).end ELSE 0
             /\ BeginsDigits(s, i) =>
                  /\ run(i).end \in i + 1 .. n + 1
                  /\ ~run(i).isRun => \A k \in i .. run(i).end - 1 : s[k] \in Digits
  <2>1. e2[i] = LongestOf(ends(i))
    OBVIOUS
  <2>2. e1[i] = IF BeginsDigits(s, i) THEN run(i).end ELSE 0
    OBVIOUS
  <2>3. /\ LongestOf(ends(i)) = IF BeginsDigits(s, i) /\ run(i).isRun THEN run(i).end ELSE 0
        /\ BeginsDigits(s, i) =>
             /\ run(i).end \in i + 1 .. n + 1
             /\ ~run(i).isRun => \A k \in i .. run(i).end - 1 : s[k] \in Digits
    BY DigitRunIs
  <2> HIDE DEF e1, e2, ends, run
  <2> QED
    BY <2>1, <2>2, <2>3
<1>2. \A i \in 1 .. n : e1[i] = 0 \/ e1[i] \in i + 1 .. n + 1
  <2> HIDE DEF e1, e2, run
  <2> QED
    BY <1>1
<1>3. \A i \in 1 .. n : e2[i] = 0 \/ e2[i] \in i + 1 .. n + 1
  <2> HIDE DEF e1, e2, run
  <2> QED
    BY <1>1
<1>4. ASSUME NEW i \in 1 .. n, e2[i] # 0
      PROVE  /\ p2[i] = ScrubCardNumbersIn(Between(s, i, e2[i]))
             /\ p2[i] \in Seq(T)
  <2>1. p2[i] = MatchedCards(Between(s, i, e2[i]))
    OBVIOUS
  <2>2. Between(s, i, e2[i]) \in Seq(S)
    <3>1. e2[i] \in i .. Len(s) + 1 /\ i \in 1 .. Len(s) + 1
      <4> HIDE DEF e2
      <4> QED
        BY <1>0, <1>3, <1>4
    <3> HIDE DEF e2
    <3> QED
      BY <3>1, BetweenIs
  <2> HIDE DEF e2, p2, T
  <2> QED
    BY <2>1, <2>2, CardsAgreeIn DEF T
<1>5. /\ f1[n + 1] = <<>>
      /\ \A i \in 1 .. n : f1[i] = IF e1[i] = 0 THEN <<s[i]>> \o f1[i + 1] ELSE p1[i] \o f1[e1[i]]
  <2> HIDE DEF e1, p1
  <2> QED
    BY <1>2, RewritingStep
<1>6. /\ f2[n + 1] = <<>>
      /\ \A i \in 1 .. n : f2[i] = IF e2[i] = 0 THEN <<s[i]>> \o f2[i + 1] ELSE p2[i] \o f2[e2[i]]
  <2> HIDE DEF e2, p2
  <2> QED
    BY <1>3, RewritingStep
<1>7. ASSUME NEW i \in 1 .. n, BeginsDigits(s, i), ~run(i).isRun
      PROVE  f2[i] = Between(s, i, run(i).end) \o f2[run(i).end]
  <2> DEFINE r == run(i).end
  <2>1. r \in i + 1 .. n + 1 /\ \A k \in i .. r - 1 : s[k] \in Digits
    <3> HIDE DEF e1, e2, run
    <3> QED
      BY <1>1, <1>7
  <2> HIDE DEF r
  <2>2. ASSUME NEW k \in i .. r - 1 PROVE e2[k] = 0
    <3>1. CASE k = i
      <4> HIDE DEF e1, e2, run
      <4> QED
        BY <1>1, <1>7, <3>1
    <3>2. CASE k # i
      <4>1. k \in 2 .. n /\ k \in 1 .. n /\ k - 1 \in i .. r - 1
        BY <1>0, <2>1, <3>2
      <4>2. ~BeginsDigits(s, k)
        BY <2>1, <4>1, NoRunInside
      <4> HIDE DEF e1, e2, run
      <4> QED
        BY <1>1, <4>1, <4>2
    <3> QED
      BY <3>1, <3>2
  <2>3. r \in i .. Len(s) + 1
    BY <2>1
  <2>4. \A k \in 1 .. Len(s) : e2[k] # 0 => p2[k] \in Seq(T)
    BY <1>4
  <2> HIDE DEF e2, p2, T
  <2>5. \A k \in i .. r - 1 : e2[k] = 0
    BY <2>2
  <2>6. s \in Seq(T) /\ i \in 1 .. Len(s) /\ \A k \in 1 .. Len(s) : e2[k] = 0 \/ e2[k] \in k + 1 .. Len(s) + 1
    BY <1>0, <1>3
  <2>7. f2[i] = Between(s, i, r) \o f2[r]
    <3>1. Rewriting(s, e2, p2)[i] = Between(s, i, r) \o Rewriting(s, e2, p2)[r]
      <4> HIDE DEF n, f1, f2
      <4> QED
        BY <2>3, <2>4, <2>5, <2>6, CopiedThrough, SMTT(30)
    <3> QED
      BY <3>1
  <2> QED
    BY <2>7 DEF r
<1>8. \A i \in 1 .. n + 1 : f1[i] = f2[i]
  <2> DEFINE P == {i \in 1 .. n + 1 : f1[i] = f2[i]}
  <2>1. ASSUME NEW i \in 1 .. n + 1, \A j \in i + 1 .. n + 1 : j \in P PROVE i \in P
    <3>1. CASE i = n + 1
      BY <1>5, <1>6, <3>1
    <3>2. CASE i \in 1 .. n /\ ~BeginsDigits(s, i)
      <4>1. e1[i] = 0 /\ e2[i] = 0
        <5> HIDE DEF e1, e2, run
        <5> QED
          BY <1>1, <3>2
      <4> HIDE DEF e1, e2, f1, f2
      <4>2. f1[i] = <<s[i]>> \o f1[i + 1] /\ f2[i] = <<s[i]>> \o f2[i + 1]
        BY <1>5, <1>6, <3>2, <4>1
      <4>3. f1[i + 1] = f2[i + 1]
        BY <1>0, <2>1, <3>2
      <4> QED
        BY <4>2, <4>3
    <3>3. CASE i \in 1 .. n /\ BeginsDigits(s, i) /\ run(i).isRun
      <4>1. e1[i] = run(i).end /\ e2[i] = run(i).end /\ run(i).end \in i + 1 .. n + 1 /\ e2[i] # 0
        <5> HIDE DEF e1, e2, run
        <5> QED
          BY <1>1, <3>3
      <4>2. p1[i] = p2[i]
        <5>1. p1[i] = ScrubCardNumbersIn(Between(s, i, e1[i]))
          BY <3>3
        <5> HIDE DEF e1, e2, p1, p2, run
        <5> QED
          BY <1>4, <3>3, <4>1, <5>1
      <4> HIDE DEF e1, e2, f1, f2, p1, p2, run
      <4>3. f1[i] = p2[i] \o f1[run(i).end] /\ f2[i] = p2[i] \o f2[run(i).end]
        BY <1>5, <1>6, <3>3, <4>1, <4>2
      <4>4. f1[run(i).end] = f2[run(i).end]
        BY <2>1, <4>1
      <4> QED
        BY <4>3, <4>4
    <3>4. CASE i \in 1 .. n /\ BeginsDigits(s, i) /\ ~run(i).isRun
      <4>1. e1[i] = run(i).end /\ run(i).end \in i + 1 .. n + 1 /\ e1[i] # 0
        <5> HIDE DEF e1, e2, run
        <5> QED
          BY <1>1, <3>4
      <4>2. p1[i] = Between(s, i, e1[i])
        BY <3>4
      <4> HIDE DEF e1, e2, f1, f2, p1, p2, run
      <4>3. f1[i] = Between(s, i, run(i).end) \o f1[run(i).end]
        BY <1>5, <3>4, <4>1, <4>2
      <4>4. f2[i] = Between(s, i, run(i).end) \o f2[run(i).end]
        BY <1>7, <3>4
      <4>5. f1[run(i).end] = f2[run(i).end]
        BY <2>1, <4>1
      <4> QED
        BY <4>3, <4>4, <4>5
    <3>5. i = n + 1 \/ i \in 1 .. n
      BY <1>0
    <3> HIDE DEF P, run
    <3> QED
      BY <3>1, <3>2, <3>3, <3>4, <3>5
  <2>2. \A i \in 1 .. n + 1 : i \in P
    <3>1. n + 1 \in Nat
      BY <1>0
    <3> HIDE DEF P, n
    <3> QED
      BY <2>1, <3>1, DownFrom
  <2> QED
    BY <2>2
\* Both are such a loop.
<1> DEFINE L == [i \in 1 .. Len(s) |->
                   LET found == {j \in i + 1 .. Len(s) + 1 : IsDigitRun(s, i, j)}
                   IN  IF found = {} THEN 0 ELSE Max(found)]
           CardsOf(i, e) == ReplaceLongest(Between(s, i, e),
                            LAMBDA a, b : IsCard(Between(s, i, e), a, b), LAMBDA a, b : <<"[CARD]">>)
           OneMatch(f, i) == IF i > Len(s) THEN <<>>
                             ELSE LET end == L[i]
                                  IN  IF end = 0 THEN <<s[i]>> \o f[i + 1] ELSE CardsOf(i, end) \o f[end]
           Match(f) == [i \in 1 .. Len(s) + 1 |-> OneMatch(f, i)]
           Rewritten(f, e, p, i) == IF i > Len(s) THEN <<>>
                                    ELSE IF e[i] = 0 THEN <<s[i]>> \o f[i + 1] ELSE p[i] \o f[e[i]]
           Matched == ReplaceLongest(s, LAMBDA i, j : IsDigitRun(s, i, j),
                        LAMBDA i, e : ReplaceLongest(Between(s, i, e),
                          LAMBDA a, b : IsCard(Between(s, i, e), a, b), LAMBDA a, b : <<"[CARD]">>))
<1>9. ASSUME NEW i, NEW e PROVE CardsOf(i, e) = MatchedCards(Between(s, i, e))
  BY DEF MatchedCards
<1>10. ScrubCardNumbers(s) = f1[1]
  BY ScrubCardsIs DEF PassedTo, PassedPieces
<1>11. Matched = (CHOOSE f : f = Match(f))[1]
  BY DEF ReplaceLongest, Replace, Longest
<1>13. (CHOOSE f : f = Match(f)) = f2
  <2>1. ASSUME NEW f PROVE f = Match(f) <=> IsRewriting(f, s, e2, p2)
    <3>1. \A i \in 1 .. Len(s) : L[i] = e2[i]
      BY DEF LongestOf
    <3>2. ASSUME NEW i \in 1 .. Len(s) PROVE CardsOf(i, e2[i]) = p2[i]
      <4>1. p2[i] = MatchedCards(Between(s, i, e2[i]))
        OBVIOUS
      <4> HIDE DEF CardsOf, e2, p2
      <4> QED
        BY <1>9, <4>1
    <3>3. ASSUME NEW i \in 1 .. Len(s) + 1 PROVE OneMatch(f, i) = Rewritten(f, e2, p2, i)
      <4>1. i > Len(s) \/ i \in 1 .. Len(s)
        BY <1>0
      <4> HIDE DEF L, CardsOf, e2, p2
      <4> QED
        BY <3>1, <3>2, <4>1
    <3> HIDE DEF OneMatch, Rewritten, e2, p2
    <3> QED
      BY <3>3 DEF IsRewriting, Rewritten
  <2> HIDE DEF Match, e2, p2
  <2> QED
    BY <2>1, Zenon DEF Rewriting
<1>14. f1[1] = f2[1]
  <2>1. 1 \in 1 .. n + 1
    BY <1>0
  <2> QED
    BY <1>8, <2>1
<1>15. ScrubCardNumbers(s) = Matched
  <2> HIDE DEF Match, Matched, f1, f2
  <2> QED
    BY <1>10, <1>11, <1>13, <1>14
<1> QED
  BY <1>15 DEF FindsCards

\* The stretch from i to r has the same matches in the text and alone.
SameMatches(end, piece, i, r, ew, pw) ==
  \A k \in 1 .. r - i : /\ ew[k] = 0 \/ ew[k] \in k + 1 .. r - i + 1
                        /\ end[i + k - 1] = IF ew[k] = 0 THEN 0 ELSE ew[k] + i - 1
                        /\ pw[k] = piece[i + k - 1]

\* x is a, with b behind it.
GoesOn(x, a, b) == x = a \o b

\* A stretch of a text whose matches are those of the whole becomes what it becomes alone.
LEMMA RewritingWithin ==
  ASSUME NEW S, NEW s, NEW end, NEW piece, NEW i, NEW r, NEW ew, NEW pw,
         s \in Seq(S), i \in 1 .. Len(s), r \in i .. Len(s) + 1,
         \A k \in 1 .. Len(s) : end[k] = 0 \/ end[k] \in k + 1 .. Len(s) + 1,
         \A k \in 1 .. Len(s) : piece[k] \in Seq(S),
         SameMatches(end, piece, i, r, ew, pw)
  PROVE  GoesOn(Rewriting(s, end, piece)[i],
                Rewriting(Between(s, i, r), ew, pw)[1], Rewriting(s, end, piece)[r])
<1> DEFINE n == Len(s)
           m == r - i
           w == Between(s, i, r)
           f == Rewriting(s, end, piece)
           g == Rewriting(w, ew, pw)
           P == {k \in 1 .. m + 1 : f[i + k - 1] = g[k] \o f[r]}
<1>0. \A k \in 1 .. m : /\ ew[k] = 0 \/ ew[k] \in k + 1 .. m + 1
                        /\ end[i + k - 1] = IF ew[k] = 0 THEN 0 ELSE ew[k] + i - 1
                        /\ pw[k] = piece[i + k - 1]
  BY DEF SameMatches
<1>1. n \in Nat /\ m \in Nat
  OBVIOUS
<1>2. w \in Seq(S) /\ Len(w) = m /\ \A k \in 1 .. m : w[k] = s[i + k - 1]
  <2>1. i \in 1 .. Len(s) + 1 /\ r \in i .. Len(s) + 1
    OBVIOUS
  <2>2. w \in Seq(S) /\ Len(w) = r - i /\ \A k \in 1 .. r - i : w[k] = s[i + k - 1]
    BY <2>1, BetweenIs
  <2> QED
    BY <2>2
<1>3. /\ \A k \in 1 .. n : f[k] = IF end[k] = 0 THEN <<s[k]>> \o f[k + 1] ELSE piece[k] \o f[end[k]]
      /\ \A k \in 1 .. n + 1 : f[k] \in Seq(S)
  BY RewritingStep, RewritingType
<1>4. \A k \in 1 .. Len(w) : /\ ew[k] = 0 \/ ew[k] \in k + 1 .. Len(w) + 1
                             /\ pw[k] \in Seq(S)
  <2>1. ASSUME NEW k \in 1 .. m PROVE pw[k] \in Seq(S)
    <3>1. i + k - 1 \in 1 .. Len(s)
      OBVIOUS
    <3> QED
      BY <1>0, <3>1
  <2> HIDE DEF w
  <2> QED
    BY <1>0, <1>2, <2>1
<1> HIDE DEF f, w
<1>5. /\ g[m + 1] = <<>>
      /\ \A k \in 1 .. m : g[k] = IF ew[k] = 0 THEN <<w[k]>> \o g[k + 1] ELSE pw[k] \o g[ew[k]]
  <2>1. w \in Seq(S) /\ \A k \in 1 .. Len(w) : ew[k] = 0 \/ ew[k] \in k + 1 .. Len(w) + 1
    BY <1>2, <1>4
  <2> HIDE DEF m, n, P
  <2>2. /\ Rewriting(w, ew, pw)[Len(w) + 1] = <<>>
        /\ \A k \in 1 .. Len(w) : Rewriting(w, ew, pw)[k] =
             IF ew[k] = 0 THEN <<w[k]>> \o Rewriting(w, ew, pw)[k + 1] ELSE pw[k] \o Rewriting(w, ew, pw)[ew[k]]
    BY <2>1, RewritingStep, SMTT(30)
  <2> QED
    BY <1>2, <2>2
<1>6. \A k \in 1 .. m + 1 : g[k] \in Seq(S)
  BY <1>2, <1>4, RewritingType
<1> HIDE DEF g
<1>7. m + 1 \in P
  <2>1. i + (m + 1) - 1 = r /\ r \in 1 .. n + 1
    OBVIOUS
  <2>2. <<>> \o f[r] = f[r]
    BY <1>3, <2>1, ConcatEmptySeq
  <2>3. f[i + (m + 1) - 1] = g[m + 1] \o f[r]
    BY <1>5, <2>1, <2>2
  <2>4. m + 1 \in 1 .. m + 1
    BY <1>1
  <2> QED
    BY <2>3, <2>4
<1>8. ASSUME NEW k \in 1 .. m, \A j \in k + 1 .. m + 1 : j \in P PROVE k \in P
  <2> DEFINE x == i + k - 1
  <2>1. x \in 1 .. n /\ x + 1 = i + (k + 1) - 1 /\ r \in 1 .. n + 1 /\ k + 1 \in k + 1 .. m + 1
    BY <1>1
  <2>2. end[x] = (IF ew[k] = 0 THEN 0 ELSE ew[k] + i - 1) /\ pw[k] = piece[x] /\ w[k] = s[x]
    BY <1>0, <1>2
  <2>3. CASE ew[k] = 0
    <3>1. end[x] = 0
      BY <2>2, <2>3
    <3> HIDE DEF x
    <3>2. f[x] = <<s[x]>> \o f[x + 1]
      BY <1>3, <2>1, <3>1
    <3>3. f[x + 1] = g[k + 1] \o f[r]
      BY <1>8, <2>1
    <3>4. g[k] = <<s[x]>> \o g[k + 1]
      BY <1>5, <2>2, <2>3
    <3>5. <<s[x]>> \in Seq(S) /\ g[k + 1] \in Seq(S) /\ f[r] \in Seq(S)
      <4>1. k + 1 \in 1 .. m + 1
        BY <1>1
      <4> QED
        BY <1>3, <1>6, <2>1, <4>1
    <3>6. f[x] = g[k] \o f[r]
      <4> DEFINE a == <<s[x]>>
                 b == g[k + 1]
                 c == f[r]
      <4>1. a \in Seq(S) /\ b \in Seq(S) /\ c \in Seq(S)
        BY <3>5
      <4> HIDE DEF a, b, c, m, n, P
      <4>2. (a \o b) \o c = a \o (b \o c)
        BY <4>1, ConcatAssociative, SMTT(30)
      <4> QED
        BY <3>2, <3>3, <3>4, <4>2 DEF a, b, c
    <3>7. k \in 1 .. m + 1
      BY <1>1
    <3>8. f[i + k - 1] = g[k] \o f[r]
      BY <3>6 DEF x
    <3> QED
      BY <3>7, <3>8
  <2>4. CASE ew[k] # 0
    <3>1. end[x] = ew[k] + i - 1 /\ ew[k] \in k + 1 .. m + 1 /\ end[x] # 0
      <4>1. ew[k] \in k + 1 .. r - i + 1
        BY <1>0, <2>4
      <4> HIDE DEF x
      <4> QED
        BY <1>1, <2>2, <2>4, <4>1
    <3> HIDE DEF x
    <3>2. f[x] = piece[x] \o f[end[x]]
      BY <1>3, <2>1, <3>1
    <3>3. f[end[x]] = g[ew[k]] \o f[r]
      <4>1. ew[k] \in P
        BY <1>8, <3>1
      <4>2. end[x] = i + ew[k] - 1
        BY <1>1, <3>1
      <4> QED
        BY <4>1, <4>2
    <3>4. g[k] = piece[x] \o g[ew[k]]
      BY <1>5, <2>2, <2>4
    <3>5. piece[x] \in Seq(S) /\ g[ew[k]] \in Seq(S) /\ f[r] \in Seq(S)
      <4>1. ew[k] \in 1 .. m + 1
        BY <1>1, <3>1
      <4> QED
        BY <1>3, <1>6, <2>1, <4>1
    <3>6. f[x] = g[k] \o f[r]
      <4> DEFINE a == piece[x]
                 b == g[ew[k]]
                 c == f[r]
      <4>1. a \in Seq(S) /\ b \in Seq(S) /\ c \in Seq(S)
        BY <3>5
      <4> HIDE DEF a, b, c, m, n, P
      <4>2. (a \o b) \o c = a \o (b \o c)
        BY <4>1, ConcatAssociative, SMTT(30)
      <4> QED
        BY <3>2, <3>3, <3>4, <4>2 DEF a, b, c
    <3>7. k \in 1 .. m + 1
      BY <1>1
    <3>8. f[i + k - 1] = g[k] \o f[r]
      BY <3>6 DEF x
    <3> QED
      BY <3>7, <3>8
  <2> QED
    BY <2>3, <2>4
<1>9. \A k \in 1 .. m + 1 : k \in P
  <2>1. m + 1 \in Nat
    BY <1>1
  <2>2. ASSUME NEW k \in 1 .. m + 1, \A j \in k + 1 .. m + 1 : j \in P PROVE k \in P
    <3>1. k = m + 1 \/ k \in 1 .. m
      BY <1>1
    <3> HIDE DEF P
    <3> QED
      BY <1>7, <1>8, <2>2, <3>1
  <2> HIDE DEF P, m
  <2> QED
    BY <2>1, <2>2, DownFrom
<1>10. 1 \in 1 .. m + 1 /\ i + 1 - 1 = i
  BY <1>1
<1> QED
  BY <1>9, <1>10 DEF f, g, w, GoesOn

\* Two runs that overlap end where the later one does.
LEMMA RunsJoin ==
  ASSUME NEW S, NEW s \in Seq(S), NEW i \in 1 .. Len(s), NEW r \in i + 1 .. Len(s) + 1, IsDigitRun(s, i, r),
         NEW x \in i .. r - 1, NEW a \in 1 .. x, NEW b \in x + 1 .. Len(s) + 1, IsDigitRun(s, a, b)
  PROVE  IsDigitRun(s, i, b)
<1>1. ASSUME NEW k \in i .. b - 1 PROVE At(s, k) \in Digits \cup Separators
  <2>1. k \in i .. r - 1 \/ k \in a .. b - 1
    OBVIOUS
  <2> QED
    BY <2>1 DEF IsDigitRun, All
<1>2. ASSUME NEW k \in i + 1 .. b - 1, s[k] \in Separators PROVE s[k - 1] \in Digits
  <2>1. k \in i + 1 .. r - 1 \/ k \in a + 1 .. b - 1
    OBVIOUS
  <2> QED
    BY <1>2, <2>1 DEF IsDigitRun
<1> QED
  BY <1>1, <1>2 DEF IsDigitRun, All

\* A card number in one of the runs of digits.
CardAt(s, i, j) == /\ \E a \in 1 .. i, b \in j .. Len(s) + 1 : IsDigitRun(s, a, b)
                   /\ IsCard(s, i, j)

\* Where the card numbers of a text end, whichever run they are in.
AllCardEnds(s) == [i \in 1 .. Len(s) |-> LongestOf({j \in i + 1 .. Len(s) + 1 : CardAt(s, i, j)})]

\* No run of digits goes on beyond i from before it.
Clear(s, i) == \A a \in 1 .. i - 1, b \in i + 1 .. Len(s) + 1 : ~IsDigitRun(s, a, b)

\* The cards of a run are those of the text that begin in it.
LEMMA CardsOfRun ==
  ASSUME NEW S, NEW s \in Seq(S), NEW i \in 1 .. Len(s), NEW r \in i + 1 .. Len(s) + 1, IsDigitRun(s, i, r),
         \A b \in i + 1 .. Len(s) + 1 : IsDigitRun(s, i, b) => b <= r,
         NEW k \in 1 .. r - i
  PROVE  LET w == Between(s, i, r)
         IN  AllCardEnds(s)[i + k - 1] = IF CardEnds(w)[k] = 0 THEN 0 ELSE CardEnds(w)[k] + i - 1
<1> DEFINE n == Len(s)
           w == Between(s, i, r)
           m == r - i
           x == i + k - 1
           inText == {j \in x + 1 .. n + 1 : CardAt(s, x, j)}
           inRun  == {j \in k + 1 .. m + 1 : IsCard(w, k, j)}
<1>1. n \in Nat /\ m \in Nat /\ x \in i .. r - 1 /\ x \in 1 .. n
  OBVIOUS
<1>2. w \in Seq(S) /\ Len(w) = m /\ \A y \in 1 .. m : w[y] = s[i + y - 1]
  <2>1. i \in 1 .. Len(s) + 1 /\ r \in i .. Len(s) + 1
    OBVIOUS
  <2>2. w \in Seq(S) /\ Len(w) = r - i /\ \A y \in 1 .. r - i : w[y] = s[i + y - 1]
    BY <2>1, BetweenIs
  <2> QED
    BY <2>2
<1>3. /\ At(s, i - 1) \notin Digits /\ At(s, r) \notin Digits
  BY CardBytes DEF IsDigitRun
<1>4. ASSUME NEW y \in 0 .. m + 1 PROVE At(w, y) \in Digits <=> At(s, i + y - 1) \in Digits /\ y \in 1 .. m
  <2>1. CASE y \in 1 .. m
    <3>1. i + y - 1 \in 1 .. n
      BY <1>1, <2>1
    <3>2. At(w, y) = w[y] /\ At(s, i + y - 1) = s[i + y - 1]
      <4> HIDE DEF w
      <4> QED
        BY <1>2, <2>1, <3>1, AtIs
    <3> QED
      BY <1>2, <2>1, <3>2
  <2>2. CASE y \notin 1 .. m
    <3> HIDE DEF w
    <3>1. At(w, y) = NoByte
      BY <1>2, <2>2 DEF At
    <3> QED
      BY <2>2, <3>1, CardBytes
  <2> QED
    BY <2>1, <2>2
<1>5. At(w, k - 1) \notin Digits <=> At(s, x - 1) \notin Digits
  <2>1. CASE k = 1
    <3>1. x - 1 = i - 1 /\ k - 1 \in 0 .. m + 1 /\ k - 1 \notin 1 .. m
      BY <2>1
    <3> HIDE DEF w, x, m
    <3> QED
      BY <1>3, <1>4, <3>1
  <2>2. CASE k # 1
    <3>1. k - 1 \in 1 .. m /\ k - 1 \in 0 .. m + 1 /\ i + (k - 1) - 1 = x - 1
      BY <2>2
    <3>2. At(w, k - 1) \in Digits <=> At(s, i + (k - 1) - 1) \in Digits
      <4> HIDE DEF w, x, m
      <4> QED
        BY <1>4, <3>1
    <3> HIDE DEF w, x, m
    <3> QED
      BY <3>1, <3>2
  <2> QED
    BY <2>1, <2>2
<1>6. ASSUME NEW j \in k + 1 .. m + 1
      PROVE  /\ At(w, j) \notin Digits <=> At(s, i + j - 1) \notin Digits
             /\ Between(w, k, j) = Between(s, x, i + j - 1)
  <2>1. At(w, j) \notin Digits <=> At(s, i + j - 1) \notin Digits
    <3>1. CASE j = m + 1
      <4>1. i + j - 1 = r /\ j \in 0 .. m + 1 /\ j \notin 1 .. m
        BY <3>1
      <4> HIDE DEF w, x, m
      <4> QED
        BY <1>3, <1>4, <4>1
    <3>2. CASE j # m + 1
      <4>1. j \in 1 .. m /\ j \in 0 .. m + 1
        BY <3>2
      <4> HIDE DEF w, x, m
      <4> QED
        BY <1>4, <4>1
    <3> QED
      BY <3>1, <3>2
  <2>2. Between(w, k, j) = Between(s, x, i + j - 1)
    <3> DEFINE z == i + j - 1
    <3>1. /\ k \in 1 .. Len(w) + 1 /\ j \in k .. Len(w) + 1
          /\ x \in 1 .. Len(s) + 1 /\ z \in x .. Len(s) + 1 /\ z - x = j - k
      <4> HIDE DEF w
      <4> QED
        BY <1>1, <1>2
    <3> HIDE DEF w, z, x
    <3>2. /\ Between(w, k, j) \in Seq(S) /\ Len(Between(w, k, j)) = j - k
          /\ \A y \in 1 .. j - k : Between(w, k, j)[y] = w[k + y - 1]
      BY <1>2, <3>1, BetweenIs, ZenonT(30)
    <3>3. /\ Between(s, x, z) \in Seq(S) /\ Len(Between(s, x, z)) = j - k
          /\ \A y \in 1 .. z - x : Between(s, x, z)[y] = s[x + y - 1]
      BY <3>1, BetweenIs
    <3>4. ASSUME NEW y \in 1 .. j - k PROVE Between(w, k, j)[y] = Between(s, x, z)[y]
      <4>1. k + y - 1 \in 1 .. m /\ i + (k + y - 1) - 1 = x + y - 1
        BY DEF x
      <4>2. w[k + y - 1] = s[i + (k + y - 1) - 1]
        BY <1>2, <4>1
      <4> HIDE DEF m
      <4> QED
        BY <3>1, <3>2, <3>3, <4>1, <4>2
    <3>5. Between(w, k, j) = Between(s, x, z)
      BY <3>2, <3>3, <3>4, SeqEqual
    <3> QED
      BY <3>5 DEF z
  <2> QED
    BY <2>1, <2>2
<1>7. ASSUME NEW j \in k + 1 .. m + 1
      PROVE  IsCard(w, k, j) <=> IsCard(s, x, i + j - 1)
  <2> HIDE DEF w, x, m
  <2> QED
    BY <1>5, <1>6 DEF IsCard
<1>8. ASSUME NEW j \in inRun PROVE i + j - 1 \in inText
  <2>1. j \in k + 1 .. m + 1 /\ IsCard(w, k, j)
    OBVIOUS
  <2>2. i + j - 1 \in x + 1 .. n + 1 /\ r \in i + j - 1 .. n + 1 /\ i \in 1 .. x
    BY <1>1, <2>1
  <2>3. IsCard(s, x, i + j - 1)
    BY <1>7, <2>1
  <2>4. CardAt(s, x, i + j - 1)
    <3> HIDE DEF x
    <3> QED
      BY <2>2, <2>3 DEF CardAt
  <2> HIDE DEF x
  <2> QED
    BY <2>2, <2>4
<1>9. ASSUME NEW j \in inText PROVE j - i + 1 \in inRun
  <2>1. j \in x + 1 .. n + 1 /\ CardAt(s, x, j)
    OBVIOUS
  <2> HIDE DEF x, inText, inRun
  <2>2. PICK a \in 1 .. x, b \in j .. n + 1 : IsDigitRun(s, a, b)
    BY <2>1 DEF CardAt
  <2>3. b \in x + 1 .. Len(s) + 1 /\ b \in i + 1 .. Len(s) + 1
    BY <1>1, <2>1
  <2>4. IsDigitRun(s, i, b)
    BY <1>1, <2>2, <2>3, RunsJoin
  <2>5. j <= r
    BY <2>1, <2>3, <2>4
  <2>6. j - i + 1 \in k + 1 .. m + 1 /\ i + (j - i + 1) - 1 = j
    BY <2>1, <2>5 DEF x
  <2>7. IsCard(s, x, j)
    BY <2>1 DEF CardAt
  <2>8. IsCard(w, k, j - i + 1)
    <3> DEFINE z == j - i + 1
    <3>1. z \in k + 1 .. m + 1 /\ i + z - 1 = j
      BY <2>6
    <3> HIDE DEF z, w, m
    <3>2. IsCard(w, k, z) <=> IsCard(s, x, i + z - 1)
      BY <1>7, <3>1
    <3> QED
      BY <2>7, <3>1, <3>2 DEF z
  <2> HIDE DEF w, m
  <2> QED
    BY <2>6, <2>8 DEF inRun
<1>10. AllCardEnds(s)[x] = LongestOf(inText)
  BY <1>1 DEF AllCardEnds
<1>11. CardEnds(w)[k] = LongestOf(inRun)
  <2>1. k \in 1 .. Len(w)
    BY <1>2
  <2> HIDE DEF w
  <2>2. CardEnd(w, k) = LongestOf({j \in k + 1 .. Len(w) + 1 : IsCard(w, k, j)})
    BY <1>2, <2>1, CardEndIs
  <2> HIDE DEF m
  <2> QED
    BY <1>2, <2>1, <2>2 DEF CardEnds
<1>12. LongestOf(inText) = IF LongestOf(inRun) = 0 THEN 0 ELSE LongestOf(inRun) + i - 1
  <2>1. inText \in SUBSET (1 .. n + 1) /\ inRun \in SUBSET (1 .. m + 1)
    BY <1>1
  <2>2. inText \in SUBSET Int /\ inRun \in SUBSET Int
    BY <2>1
  <2>3. CASE inRun = {}
    <3>1. inText = {}
      <4> HIDE DEF inText, inRun
      <4> QED
        BY <1>9, <2>3
    <3> HIDE DEF inText, inRun
    <3> QED
      BY <2>3, <3>1 DEF LongestOf
  <2>4. CASE inRun # {}
    <3> DEFINE top == Max(inRun)
    <3>1. top \in inRun /\ \A j \in inRun : j <= top
      <4>1. \A j \in inRun : j <= m + 1
        OBVIOUS
      <4>2. m + 1 \in Int
        BY <1>1
      <4> HIDE DEF inRun, m
      <4> QED
        BY <2>2, <2>4, <4>1, <4>2, MaxOf
    <3> HIDE DEF top
    <3>2. LongestOf(inRun) = top
      <4> HIDE DEF inRun
      <4> QED
        BY <2>2, <3>1, LongestIs
    <3>3. top \in Int /\ top # 0
      BY <3>1
    <3>4. i + top - 1 \in inText
      <4> HIDE DEF inText, inRun
      <4> QED
        BY <1>8, <3>1
    <3>5. ASSUME NEW j \in inText PROVE j <= i + top - 1
      <4>1. j - i + 1 \in inRun /\ j \in Int
        <5> HIDE DEF inText, inRun
        <5> QED
          BY <1>9, <2>2
      <4>2. j - i + 1 <= top
        <5> HIDE DEF inText, inRun
        <5> QED
          BY <3>1, <4>1
      <4> HIDE DEF inText, inRun
      <4> QED
        BY <3>3, <4>1, <4>2
    <3>6. LongestOf(inText) = i + top - 1
      <4> HIDE DEF inText, inRun
      <4> QED
        BY <2>2, <3>4, <3>5, LongestIs
    <3> HIDE DEF inText, inRun
    <3> QED
      BY <3>2, <3>3, <3>6
  <2> QED
    BY <2>3, <2>4
<1> HIDE DEF inText, inRun, x, w
<1>13. AllCardEnds(s)[x] = IF CardEnds(w)[k] = 0 THEN 0 ELSE CardEnds(w)[k] + i - 1
  BY <1>10, <1>11, <1>12
<1> QED
  BY <1>13 DEF x, w

\* Where the loop comes by a place that begins no run, no card begins there, and none of
\* the runs from before goes on behind it.
LEMMA ClearStep ==
  ASSUME NEW S, NEW s \in Seq(S), NEW i \in 1 .. Len(s), Clear(s, i), ~BeginsDigits(s, i)
  PROVE  AllCardEnds(s)[i] = 0 /\ Clear(s, i + 1)
<1>1. ASSUME NEW b PROVE ~IsDigitRun(s, i, b)
  BY DEF IsDigitRun, BeginsDigits
<1>2. ASSUME NEW j \in i + 1 .. Len(s) + 1, CardAt(s, i, j) PROVE FALSE
  <2>1. PICK a \in 1 .. i, b \in j .. Len(s) + 1 : IsDigitRun(s, a, b)
    BY <1>2 DEF CardAt
  <2>2. a # i
    BY <1>1, <2>1
  <2>3. a \in 1 .. i - 1 /\ b \in i + 1 .. Len(s) + 1
    BY <2>2
  <2> QED
    BY <2>1, <2>3 DEF Clear
<1>3. AllCardEnds(s)[i] = 0
  <2>1. {j \in i + 1 .. Len(s) + 1 : CardAt(s, i, j)} = {}
    BY <1>2
  <2> QED
    BY <2>1 DEF AllCardEnds, LongestOf
<1>4. ASSUME NEW a \in 1 .. i + 1 - 1, NEW b \in i + 1 + 1 .. Len(s) + 1 PROVE ~IsDigitRun(s, a, b)
  <2>1. CASE a = i
    BY <1>1, <2>1
  <2>2. CASE a # i
    <3>1. a \in 1 .. i - 1 /\ b \in i + 1 .. Len(s) + 1
      BY <2>2
    <3> QED
      BY <3>1 DEF Clear
  <2> QED
    BY <2>1, <2>2
<1> QED
  BY <1>3, <1>4 DEF Clear

\* Behind a run that was searched, no run goes on.
LEMMA ClearBehindRun ==
  ASSUME NEW S, NEW s \in Seq(S), NEW i \in 1 .. Len(s), Clear(s, i),
         NEW r \in i + 1 .. Len(s) + 1, IsDigitRun(s, i, r),
         \A b \in i + 1 .. Len(s) + 1 : IsDigitRun(s, i, b) => b <= r
  PROVE  Clear(s, r)
<1>1. ASSUME NEW a \in 1 .. r - 1, NEW b \in r + 1 .. Len(s) + 1, IsDigitRun(s, a, b) PROVE FALSE
  <2>1. CASE a < i
    <3>1. a \in 1 .. i - 1 /\ b \in i + 1 .. Len(s) + 1
      BY <2>1
    <3> QED
      BY <1>1, <3>1 DEF Clear
  <2>2. CASE a >= i
    <3>1. a \in i .. r - 1 /\ a \in 1 .. a /\ b \in a + 1 .. Len(s) + 1 /\ b \in i + 1 .. Len(s) + 1
      BY <2>2
    <3>2. IsDigitRun(s, i, b)
      BY <1>1, <3>1, RunsJoin
    <3> QED
      BY <3>1, <3>2
  <2> QED
    BY <2>1, <2>2
<1> QED
  BY <1>1 DEF Clear

\* Nor behind digits that are no run, where no card begins either.
LEMMA ClearBehindDigits ==
  ASSUME NEW S, NEW s \in Seq(S), NEW i \in 1 .. Len(s), Clear(s, i),
         NEW r \in i + 1 .. Len(s) + 1, \A k \in i .. r - 1 : s[k] \in Digits,
         \A b \in i + 1 .. Len(s) + 1 : ~IsDigitRun(s, i, b)
  PROVE  Clear(s, r) /\ \A k \in i .. r - 1 : AllCardEnds(s)[k] = 0
<1>1. ASSUME NEW a \in 1 .. r - 1, NEW b \in a + 1 .. Len(s) + 1, b > i, IsDigitRun(s, a, b) PROVE FALSE
  <2>1. CASE a < i
    <3>1. a \in 1 .. i - 1 /\ b \in i + 1 .. Len(s) + 1
      BY <1>1, <2>1
    <3> QED
      BY <1>1, <3>1 DEF Clear
  <2>2. CASE a = i
    BY <1>1, <2>2
  <2>3. CASE a > i
    <3>1. a \in 2 .. Len(s) /\ s[a - 1] \in Digits
      BY <2>3
    <3>2. ~BeginsDigits(s, a)
      BY <3>1, NoRunInside
    <3> QED
      BY <1>1, <3>2 DEF IsDigitRun, BeginsDigits
  <2> QED
    BY <2>1, <2>2, <2>3
<1>2. Clear(s, r)
  <2>1. ASSUME NEW a \in 1 .. r - 1, NEW b \in r + 1 .. Len(s) + 1, IsDigitRun(s, a, b) PROVE FALSE
    <3>1. b \in a + 1 .. Len(s) + 1 /\ b > i
      OBVIOUS
    <3> QED
      BY <1>1, <2>1, <3>1
  <2> QED
    BY <2>1 DEF Clear
<1>3. ASSUME NEW k \in i .. r - 1 PROVE AllCardEnds(s)[k] = 0
  <2>1. ASSUME NEW j \in k + 1 .. Len(s) + 1, CardAt(s, k, j) PROVE FALSE
    <3>1. PICK a \in 1 .. k, b \in j .. Len(s) + 1 : IsDigitRun(s, a, b)
      BY <2>1 DEF CardAt
    <3>2. a \in 1 .. r - 1 /\ b \in a + 1 .. Len(s) + 1 /\ b > i
      OBVIOUS
    <3> QED
      BY <1>1, <3>1, <3>2
  <2>2. {j \in k + 1 .. Len(s) + 1 : CardAt(s, k, j)} = {}
    BY <2>1
  <2>3. k \in 1 .. Len(s)
    OBVIOUS
  <2> QED
    BY <2>2, <2>3 DEF AllCardEnds, LongestOf
<1> QED
  BY <1>2, <1>3

\* So the loops, one within the other, are one loop over the text.
LEMMA FlatCards ==
  ASSUME NEW S, NEW s \in Seq(S)
  PROVE  /\ ScrubCardNumbers(s) = Rewriting(s, AllCardEnds(s), CardMarks(s))[1]
         /\ \A i \in 1 .. Len(s) : AllCardEnds(s)[i] = 0 \/ AllCardEnds(s)[i] \in i + 1 .. Len(s) + 1
<1> DEFINE n == Len(s)
           T == S \cup {"[CARD]"}
           run(i) == RunOfDigits(s, i)
           found(i) == {j \in i + 1 .. n + 1 : IsDigitRun(s, i, j)}
           e1 == PassedTo(s)
           p1 == PassedPieces(s)
           e3 == AllCardEnds(s)
           p3 == CardMarks(s)
           f1 == Rewriting(s, e1, p1)
           f3 == Rewriting(s, e3, p3)
<1>0. n \in Nat /\ s \in Seq(T)
  OBVIOUS
<1>1. ASSUME NEW i \in 1 .. n PROVE e3[i] = 0 \/ e3[i] \in i + 1 .. n + 1
  <2> DEFINE ends == {j \in i + 1 .. n + 1 : CardAt(s, i, j)}
  <2>1. ends \in SUBSET (i + 1 .. n + 1) /\ n \in Nat
    OBVIOUS
  <2>2. e3[i] = LongestOf(ends)
    BY DEF AllCardEnds
  <2> HIDE DEF ends, e3
  <2> QED
    BY <2>1, <2>2, LongestEnds
<1>2. \A i \in 1 .. n : p3[i] = <<"[CARD]">> /\ p3[i] \in Seq(T)
  BY DEF CardMarks
<1>3. ASSUME NEW i \in 1 .. n
      PROVE  /\ e1[i] = IF BeginsDigits(s, i) THEN run(i).end ELSE 0
             /\ p1[i] = IF run(i).isRun THEN ScrubCardNumbersIn(Between(s, i, e1[i])) ELSE Between(s, i, e1[i])
             /\ LongestOf(found(i)) = IF BeginsDigits(s, i) /\ run(i).isRun THEN run(i).end ELSE 0
             /\ BeginsDigits(s, i) =>
                  /\ run(i).end \in i + 1 .. n + 1
                  /\ ~run(i).isRun => \A k \in i .. run(i).end - 1 : s[k] \in Digits
  <2>1. /\ e1[i] = IF BeginsDigits(s, i) THEN run(i).end ELSE 0
        /\ p1[i] = IF run(i).isRun THEN ScrubCardNumbersIn(Between(s, i, e1[i])) ELSE Between(s, i, e1[i])
    BY DEF PassedTo, PassedPieces
  <2>2. /\ LongestOf(found(i)) = IF BeginsDigits(s, i) /\ run(i).isRun THEN run(i).end ELSE 0
        /\ BeginsDigits(s, i) =>
             /\ run(i).end \in i + 1 .. n + 1
             /\ ~run(i).isRun => \A k \in i .. run(i).end - 1 : s[k] \in Digits
    BY DigitRunIs
  <2> HIDE DEF e1, p1, run, found
  <2> QED
    BY <2>1, <2>2
<1>4. \A i \in 1 .. n : e1[i] = 0 \/ e1[i] \in i + 1 .. n + 1
  <2> HIDE DEF e1, p1, run, found
  <2> QED
    BY <1>3
<1>5. ASSUME NEW i \in 1 .. n, BeginsDigits(s, i)
      PROVE  IF run(i).isRun THEN /\ IsDigitRun(s, i, run(i).end)
                                  /\ \A b \in i + 1 .. Len(s) + 1 : IsDigitRun(s, i, b) => b <= run(i).end
                             ELSE \A b \in i + 1 .. Len(s) + 1 : ~IsDigitRun(s, i, b)
  <2> DEFINE longest == LongestOf(found(i))
  <2>1. found(i) \in SUBSET Int
    OBVIOUS
  <2>2. /\ longest = IF run(i).isRun THEN run(i).end ELSE 0
        /\ run(i).end \in i + 1 .. n + 1
    <3> HIDE DEF e1, p1, run, found
    <3> QED
      BY <1>3, <1>5
  <2>3. IF longest = 0 THEN found(i) = {} ELSE longest \in found(i) /\ \A b \in found(i) : b <= longest
    <3>1. CASE found(i) = {}
      BY <3>1 DEF LongestOf
    <3>2. CASE found(i) # {}
      <4>1. \A b \in found(i) : b <= n + 1
        OBVIOUS
      <4>2. n + 1 \in Int /\ \A b \in found(i) : b # 0
        OBVIOUS
      <4>3. longest = Max(found(i))
        BY <3>2 DEF LongestOf
      <4> HIDE DEF found, longest
      <4>4. Max(found(i)) \in found(i) /\ \A b \in found(i) : b <= Max(found(i))
        BY <2>1, <3>2, <4>1, <4>2, MaxOf
      <4> QED
        BY <4>2, <4>3, <4>4
    <3> QED
      BY <3>1, <3>2
  <2> HIDE DEF longest, run
  <2>4. CASE run(i).isRun
    <3>1. longest = run(i).end /\ longest # 0
      BY <2>2, <2>4
    <3> QED
      BY <2>3, <2>4, <3>1
  <2>5. CASE ~run(i).isRun
    BY <2>2, <2>3, <2>5
  <2> QED
    BY <2>4, <2>5
<1>6. /\ f1[n + 1] = <<>>
      /\ \A i \in 1 .. n : f1[i] = IF e1[i] = 0 THEN <<s[i]>> \o f1[i + 1] ELSE p1[i] \o f1[e1[i]]
  <2> HIDE DEF e1, p1
  <2> QED
    BY <1>4, RewritingStep
<1>7. /\ f3[n + 1] = <<>>
      /\ \A i \in 1 .. n : f3[i] = IF e3[i] = 0 THEN <<s[i]>> \o f3[i + 1] ELSE p3[i] \o f3[e3[i]]
  <2> HIDE DEF e3, p3
  <2> QED
    BY <1>1, RewritingStep
<1>8. ASSUME NEW i \in 1 .. n, BeginsDigits(s, i), ~run(i).isRun, Clear(s, i)
      PROVE  f3[i] = Between(s, i, run(i).end) \o f3[run(i).end] /\ Clear(s, run(i).end)
  <2> DEFINE r == run(i).end
  <2>1. r \in i + 1 .. n + 1 /\ (\A k \in i .. r - 1 : s[k] \in Digits)
        /\ \A b \in i + 1 .. Len(s) + 1 : ~IsDigitRun(s, i, b)
    <3> HIDE DEF e1, p1, run, found
    <3> QED
      BY <1>3, <1>5, <1>8
  <2> HIDE DEF r
  <2>2. Clear(s, r) /\ \A k \in i .. r - 1 : e3[k] = 0
    BY <1>8, <2>1, ClearBehindDigits
  <2>3. Rewriting(s, e3, p3)[i] = Between(s, i, r) \o Rewriting(s, e3, p3)[r]
    <3>1. /\ s \in Seq(T) /\ i \in 1 .. Len(s) /\ r \in i .. Len(s) + 1
          /\ \A k \in 1 .. Len(s) : e3[k] = 0 \/ e3[k] \in k + 1 .. Len(s) + 1
          /\ \A k \in 1 .. Len(s) : e3[k] # 0 => p3[k] \in Seq(T)
      <4> HIDE DEF e3, p3, T
      <4> QED
        BY <1>0, <1>1, <1>2, <2>1
    <3> HIDE DEF e3, p3, T, n, f1, f3
    <3> QED
      BY <2>2, <3>1, CopiedThrough, SMTT(30)
  <2> QED
    BY <2>2, <2>3 DEF r
<1>9. ASSUME NEW i \in 1 .. n, BeginsDigits(s, i), run(i).isRun, Clear(s, i)
      PROVE  f3[i] = ScrubCardNumbersIn(Between(s, i, run(i).end)) \o f3[run(i).end] /\ Clear(s, run(i).end)
  <2> DEFINE r == run(i).end
             w == Between(s, i, r)
  <2>1. r \in i + 1 .. n + 1 /\ IsDigitRun(s, i, r)
        /\ \A b \in i + 1 .. Len(s) + 1 : IsDigitRun(s, i, b) => b <= r
    <3> HIDE DEF e1, p1, run, found
    <3> QED
      BY <1>3, <1>5, <1>9
  <2> HIDE DEF r
  <2>2. Clear(s, r)
    BY <1>9, <2>1, ClearBehindRun
  <2>3. w \in Seq(S) /\ Len(w) = r - i
    <3>1. i \in 1 .. Len(s) + 1 /\ r \in i .. Len(s) + 1
      BY <2>1
    <3> QED
      BY <3>1, BetweenIs
  <2>4. ASSUME NEW k \in 1 .. r - i
        PROVE  /\ CardEnds(w)[k] = 0 \/ CardEnds(w)[k] \in k + 1 .. r - i + 1
               /\ e3[i + k - 1] = IF CardEnds(w)[k] = 0 THEN 0 ELSE CardEnds(w)[k] + i - 1
               /\ CardMarks(w)[k] = p3[i + k - 1]
    <3>1. k \in 1 .. Len(w) /\ i + k - 1 \in 1 .. Len(s)
      BY <2>1, <2>3
    <3>2. CardEnds(w)[k] = 0 \/ CardEnds(w)[k] \in k + 1 .. Len(w) + 1
      <4> HIDE DEF w
      <4> QED
        BY <2>3, <3>1, CardEndIs DEF CardEnds
    <3>3. CardMarks(w)[k] = p3[i + k - 1]
      <4> HIDE DEF w
      <4> QED
        BY <3>1 DEF CardMarks
    <3>4. e3[i + k - 1] = IF CardEnds(w)[k] = 0 THEN 0 ELSE CardEnds(w)[k] + i - 1
      BY <2>1, CardsOfRun
    <3> HIDE DEF w, e3, p3
    <3> QED
      BY <2>3, <3>2, <3>3, <3>4
  <2>5. Rewriting(s, e3, p3)[i] = Rewriting(w, CardEnds(w), CardMarks(w))[1] \o Rewriting(s, e3, p3)[r]
    <3> DEFINE ew == CardEnds(w)
               pw == CardMarks(w)
    <3>1. /\ s \in Seq(T) /\ i \in 1 .. Len(s) /\ r \in i .. Len(s) + 1
          /\ \A k \in 1 .. Len(s) : e3[k] = 0 \/ e3[k] \in k + 1 .. Len(s) + 1
          /\ \A k \in 1 .. Len(s) : p3[k] \in Seq(T)
      <4> HIDE DEF e3, p3, T
      <4> QED
        BY <1>0, <1>1, <1>2, <2>1
    <3>2. SameMatches(e3, p3, i, r, ew, pw)
      <4> HIDE DEF w, e3, p3
      <4> QED
        BY <2>4 DEF SameMatches
    <3> HIDE DEF e3, p3, T, n, f1, f3, w, ew, pw
    <3>3. GoesOn(Rewriting(s, e3, p3)[i], Rewriting(Between(s, i, r), ew, pw)[1], Rewriting(s, e3, p3)[r])
      BY <3>1, <3>2, RewritingWithin, SMTT(30)
    <3> QED
      BY <3>3 DEF w, ew, pw, GoesOn
  <2>6. ScrubCardNumbersIn(w) = Rewriting(w, CardEnds(w), CardMarks(w))[1]
    <3> HIDE DEF w
    <3> QED
      BY <2>3, CardsAgreeIn
  <2> HIDE DEF e3, p3
  <2> QED
    BY <2>2, <2>5, <2>6 DEF r, w
<1>10. \A i \in 1 .. n + 1 : Clear(s, i) => f1[i] = f3[i]
  <2> DEFINE P == {i \in 1 .. n + 1 : Clear(s, i) => f1[i] = f3[i]}
  <2>1. ASSUME NEW i \in 1 .. n + 1, \A j \in i + 1 .. n + 1 : j \in P PROVE i \in P
    <3>0. SUFFICES ASSUME Clear(s, i) PROVE f1[i] = f3[i]
      OBVIOUS
    <3>1. CASE i = n + 1
      <4> HIDE DEF f1, f3
      <4> QED
        BY <1>6, <1>7, <3>1
    <3>2. CASE i \in 1 .. n /\ ~BeginsDigits(s, i)
      <4>1. e3[i] = 0 /\ Clear(s, i + 1)
        BY <3>0, <3>2, ClearStep
      <4>2. e1[i] = 0
        <5> HIDE DEF e1, p1, run, found
        <5> QED
          BY <1>3, <3>2
      <4> HIDE DEF e1, e3, f1, f3, p1, p3, run
      <4>3. f1[i] = <<s[i]>> \o f1[i + 1] /\ f3[i] = <<s[i]>> \o f3[i + 1]
        BY <1>6, <1>7, <3>2, <4>1, <4>2
      <4>4. f1[i + 1] = f3[i + 1]
        BY <1>0, <2>1, <3>2, <4>1
      <4> QED
        BY <4>3, <4>4
    <3>3. CASE i \in 1 .. n /\ BeginsDigits(s, i)
      <4>1. e1[i] = run(i).end /\ run(i).end \in i + 1 .. n + 1 /\ e1[i] # 0
            /\ p1[i] = IF run(i).isRun THEN ScrubCardNumbersIn(Between(s, i, e1[i])) ELSE Between(s, i, e1[i])
        <5> HIDE DEF e1, p1, run, found
        <5> QED
          BY <1>3, <3>3
      <4>2. f3[i] = p1[i] \o f3[run(i).end] /\ Clear(s, run(i).end)
        <5>1. CASE run(i).isRun
          <6>1. p1[i] = ScrubCardNumbersIn(Between(s, i, run(i).end))
            <7> HIDE DEF e1, p1, run, found
            <7> QED
              BY <4>1, <5>1
          <6> HIDE DEF e1, p1, f3, run, found
          <6> QED
            BY <1>9, <3>0, <3>3, <5>1, <6>1
        <5>2. CASE ~run(i).isRun
          <6>1. p1[i] = Between(s, i, run(i).end)
            <7> HIDE DEF e1, p1, run, found
            <7> QED
              BY <4>1, <5>2
          <6> HIDE DEF e1, p1, f3, run, found
          <6> QED
            BY <1>8, <3>0, <3>3, <5>2, <6>1
        <5> QED
          BY <5>1, <5>2
      <4> HIDE DEF e1, e3, f1, f3, p1, p3, run
      <4>3. f1[i] = p1[i] \o f1[run(i).end]
        BY <1>6, <3>3, <4>1
      <4>4. f1[run(i).end] = f3[run(i).end]
        BY <2>1, <4>1, <4>2
      <4> QED
        BY <4>2, <4>3, <4>4
    <3>5. i = n + 1 \/ i \in 1 .. n
      BY <1>0
    <3> HIDE DEF P, run, f1, f3
    <3> QED
      BY <3>1, <3>2, <3>3, <3>5
  <2>2. \A i \in 1 .. n + 1 : i \in P
    <3>1. n + 1 \in Nat
      BY <1>0
    <3> HIDE DEF P, n
    <3> QED
      BY <2>1, <3>1, DownFrom
  <2> QED
    BY <2>2
<1>11. Clear(s, 1) /\ 1 \in 1 .. n + 1
  BY <1>0 DEF Clear
<1>12. ScrubCardNumbers(s) = f1[1]
  BY ScrubCardsIs
<1> HIDE DEF f1, f3, e3
<1> QED
  BY <1>1, <1>10, <1>11, <1>12 DEF f3, e3

\* The mark that takes a card's place is no byte.
LEMMA CardMark == "[CARD]" \notin Digits /\ "[CARD]" \notin Separators
<1>1. "[CARD]" \notin Alphanumerics /\ "[CARD]" # Space /\ "[CARD]" # "-" /\ "[CARD]" # "_"
  BY Zenon DEF Alphanumerics, Space
<1>2. "[CARD]" \notin Words
  BY <1>1, AlphanumericsAre, Zenon DEF Words
<1> QED
  BY <1>1, <1>2, CardBytes, Zenon DEF Separators

\* A card ends before what is no digit and begins behind what is none.
LEMMA CardEdges ==
  ASSUME NEW S, NEW s \in Seq(S), NEW i \in 1 .. Len(s), AllCardEnds(s)[i] # 0
  PROVE  At(s, i - 1) \notin Digits /\ At(s, AllCardEnds(s)[i]) \notin Digits
<1> DEFINE ends == {j \in i + 1 .. Len(s) + 1 : CardAt(s, i, j)}
           e == AllCardEnds(s)[i]
<1>1. e = LongestOf(ends)
  BY DEF AllCardEnds
<1>2. ends \in SUBSET Int /\ (\A j \in ends : j <= Len(s) + 1) /\ Len(s) + 1 \in Int
  OBVIOUS
<1>3. e \in ends
  <2> HIDE DEF ends, e
  <2>1. ends # {} /\ e = Max(ends)
    BY <1>1 DEF LongestOf, e
  <2> QED
    BY <1>2, <2>1, MaxOf
<1>4. IsCard(s, i, e)
  <2> HIDE DEF e
  <2> QED
    BY <1>3 DEF CardAt
<1> QED
  BY <1>4 DEF IsCard

\* Of what is left, no run of digits spells a card number: it stood in the text as it
\* stands now, between the same edges, and would have been replaced
\* (scrub_card_numbers()).
THEOREM NoCardIsLeft ==
  ASSUME NEW S, NEW s \in Seq(S)
  PROVE  LeavesNoCard(s)
<1> DEFINE E == AllCardEnds(s)
           out == ScrubCardNumbers(s)
           Spelled(t, i, j) == Only(Between(t, i, j), Digits)
<1>0. Len(s) \in Nat
  OBVIOUS
<1>1. PICK place : IsWay(s, E, "[CARD]", out, place) /\ place[1] = 1
  <2>1. \A i \in 1 .. Len(s) : E[i] = 0 \/ E[i] \in i + 1 .. Len(s) + 1
    BY FlatCards
  <2>2. out = Rewriting(s, E, [i \in 1 .. Len(s) |-> <<"[CARD]">>])[1]
    BY FlatCards DEF CardMarks
  <2> HIDE DEF E, out
  <2>3. \E place : /\ IsWay(s, E, "[CARD]", Rewriting(s, E, [i \in 1 .. Len(s) |-> <<"[CARD]">>])[1], place)
                   /\ place[1] = 1
    BY <2>1, WayFrom
  <2> QED
    BY <2>2, <2>3
<1> DEFINE n == Len(out)
<1>2. /\ n \in Nat /\ out \in Seq({s[i] : i \in 1 .. Len(s)} \cup {"[CARD]"})
      /\ place \in [1 .. n + 1 -> 1 .. Len(s) + 1] /\ place[n + 1] = Len(s) + 1
      /\ \A k \in 1 .. n :
           /\ place[k] \in 1 .. Len(s)
           /\ IF E[place[k]] = 0 THEN out[k] = s[place[k]] /\ place[k + 1] = place[k] + 1
                                 ELSE out[k] = "[CARD]" /\ place[k + 1] = E[place[k]]
  <2> HIDE DEF out, E
  <2> QED
    BY <1>1, LenProperties DEF IsWay
<1> HIDE DEF out, E
<1>3. ASSUME NEW i \in 1 .. n + 1, NEW j \in 1 .. n + 1, i < j, IsDigitRun(out, i, j)
      PROVE  ~IsCardNumber(Spelled(out, i, j))
  <2> DEFINE d == j - i
             p == place[i]
  <2>1. d \in Nat \ {0} /\ i + d = j /\ i \in 1 .. n /\ j - 1 \in i .. n
    BY <1>2, <1>3
  <2>2. /\ At(out, i - 1) \notin Words /\ At(out, j) \notin Words
        /\ out[i] \in Digits /\ out[j - 1] \in Digits
        /\ \A x \in i .. j - 1 : out[x] \in Digits \cup Separators
        /\ \A x \in i + 1 .. j - 1 : out[x] \in Separators => out[x - 1] \in Digits
    <3>1. ASSUME NEW x \in i .. j - 1 PROVE At(out, x) = out[x]
      <4>1. x \in 1 .. Len(out)
        BY <2>1
      <4> QED
        BY <1>2, <4>1, AtIs
    <3>2. j - 1 \in i .. j - 1
      BY <2>1
    <3>3. /\ At(out, i - 1) \notin Words /\ At(out, j) \notin Words
          /\ out[i] \in Digits /\ At(out, j - 1) \in Digits
          /\ \A x \in i .. j - 1 : At(out, x) \in Digits \cup Separators
          /\ \A x \in i + 1 .. j - 1 : out[x] \in Separators => out[x - 1] \in Digits
      BY <1>3 DEF IsDigitRun, All
    <3> QED
      BY <3>1, <3>2, <3>3
  <2>3. /\ \A x \in 0 .. d : place[i + x] = p + x
        /\ \A x \in 0 .. d - 1 : p + x \in 1 .. Len(s) /\ E[p + x] = 0 /\ out[i + x] = s[p + x]
    <3>1. \A x \in i .. i + d - 1 : out[x] # "[CARD]"
      BY <2>1, <2>2, CardMark
    <3>2. i \in 1 .. Len(out) + 1 /\ d \in Nat /\ i + d <= Len(out) + 1
      BY <2>1
    <3> HIDE DEF d
    <3> QED
      BY <1>1, <3>1, <3>2, CopiedRun
  <2>4. p \in 1 .. Len(s) /\ p + d \in p + 1 .. Len(s) + 1 /\ place[j] = p + d /\ E[p] = 0
        /\ out[i] = s[p]
    <3>1. 0 \in 0 .. d - 1 /\ d \in 0 .. d
      BY <2>1
    <3>2. place[j] \in 1 .. Len(s) + 1
      BY <1>2
    <3>3. p + 0 \in 1 .. Len(s) /\ E[p + 0] = 0 /\ out[i + 0] = s[p + 0]
      BY <2>3, <3>1
    <3>4. place[i + d] = p + d
      BY <2>3, <3>1
    <3>5. p \in 1 .. Len(s) /\ E[p] = 0 /\ out[i] = s[p]
      <4>1. p \in 1 .. Len(s) + 1
        BY <1>2, <2>1
      <4>2. p + 0 = p /\ i + 0 = i
        BY <4>1
      <4> HIDE DEF p
      <4> QED
        BY <3>3, <4>2
    <3> HIDE DEF p
    <3> QED
      BY <2>1, <3>2, <3>4, <3>5
  <2> HIDE DEF p
  <2>5. At(s, p - 1) \notin Words
    <3>1. CASE i = 1
      <4>1. p = 1
        BY <1>1, <3>1 DEF p
      <4> QED
        BY <4>1, CardBytes DEF At
    <3>2. CASE i # 1
      <4> DEFINE h == i - 1
      <4>1. h \in 1 .. n /\ h + 1 = i
        BY <2>1, <3>2
      <4>2. At(out, h) = out[h]
        BY <1>2, <4>1, AtIs
      <4> HIDE DEF h
      <4>3. CASE E[place[h]] = 0
        <5>1. out[h] = s[place[h]] /\ p = place[h] + 1 /\ place[h] \in 1 .. Len(s)
          BY <1>2, <4>1, <4>3 DEF p
        <5>2. p - 1 = place[h]
          BY <5>1
        <5>3. At(s, p - 1) = out[h]
          BY <5>1, <5>2, AtIs
        <5> QED
          BY <2>2, <4>2, <5>3 DEF h
      <4>4. CASE E[place[h]] # 0
        <5>1. p = E[place[h]] /\ place[h] \in 1 .. Len(s)
          BY <1>2, <4>1, <4>4 DEF p
        <5>2. At(s, p) \notin Digits
          BY <4>4, <5>1, CardEdges DEF E
        <5>3. At(s, p) = s[p]
          BY <2>4, AtIs
        <5> QED
          BY <2>2, <2>4, <5>2, <5>3
      <4> QED
        BY <4>3, <4>4
    <3> QED
      BY <3>1, <3>2
  <2>6. At(s, p + d) \notin Words
    <3>1. CASE j = n + 1
      <4>1. p + d = Len(s) + 1
        BY <1>2, <2>4, <3>1
      <4>2. At(s, p + d) = NoByte
        BY <1>0, <4>1 DEF At
      <4> QED
        BY <4>2, CardBytes
    <3>2. CASE j # n + 1
      <4>1. j \in 1 .. n
        BY <1>2, <3>2
      <4>2. At(out, j) = out[j] /\ place[j] \in 1 .. Len(s)
        BY <1>2, <4>1, AtIs
      <4>3. CASE E[place[j]] = 0
        <5>1. out[j] = s[place[j]]
          BY <1>2, <4>1, <4>3
        <5>2. At(s, place[j]) = s[place[j]]
          BY <4>2, AtIs
        <5> QED
          BY <2>2, <2>4, <4>2, <5>1, <5>2
      <4>4. CASE E[place[j]] # 0
        <5>1. At(s, place[j] - 1) \notin Digits
          BY <4>2, <4>4, CardEdges DEF E
        <5>2. d - 1 \in 0 .. d - 1 /\ i + (d - 1) = j - 1
          BY <2>1
        <5>3. out[j - 1] = s[p + (d - 1)] /\ p + (d - 1) \in 1 .. Len(s)
          BY <2>3, <5>2
        <5>4. place[j] - 1 = p + (d - 1)
          BY <2>1, <2>4
        <5>5. At(s, place[j] - 1) = out[j - 1]
          BY <5>3, <5>4, AtIs
        <5> QED
          BY <2>2, <5>1, <5>5
      <4> QED
        BY <4>3, <4>4
    <3> QED
      BY <3>1, <3>2
  <2>7. ASSUME NEW x \in p .. p + d - 1
        PROVE  /\ x \in 1 .. Len(s) /\ i + (x - p) \in i .. j - 1 /\ s[x] = out[i + (x - p)]
    <3> DEFINE y == x - p
    <3>1. y \in 0 .. d - 1 /\ p + y = x
      BY <2>1, <2>4
    <3>2. p + y \in 1 .. Len(s) /\ out[i + y] = s[p + y]
      BY <2>3, <3>1
    <3>3. i + y \in i .. j - 1
      BY <2>1, <3>1
    <3> HIDE DEF y, d
    <3> QED
      BY <3>1, <3>2, <3>3 DEF y
  <2>8. IsDigitRun(s, p, p + d)
    <3>1. ASSUME NEW x \in p .. p + d - 1 PROVE At(s, x) \in Digits \cup Separators
      <4>1. At(s, x) = s[x]
        BY <2>7, AtIs
      <4> QED
        BY <2>2, <2>7, <4>1
    <3>2. At(s, p + d - 1) \in Digits
      <4>1. p + d - 1 \in p .. p + d - 1 /\ i + ((p + d - 1) - p) = j - 1
        BY <2>1, <2>4
      <4>2. s[p + d - 1] = out[j - 1] /\ p + d - 1 \in 1 .. Len(s)
        BY <2>7, <4>1
      <4> QED
        BY <2>2, <4>2, AtIs
    <3>3. ASSUME NEW x \in p + 1 .. p + d - 1, s[x] \in Separators PROVE s[x - 1] \in Digits
      <4>1. x \in p .. p + d - 1 /\ x - 1 \in p .. p + d - 1
        BY <2>1, <2>4
      <4> DEFINE y == i + (x - p)
      <4>2. s[x] = out[y] /\ y \in i + 1 .. j - 1
        BY <2>1, <2>4, <2>7, <4>1
      <4>3. s[x - 1] = out[i + ((x - 1) - p)]
        BY <2>7, <4>1
      <4>4. i + ((x - 1) - p) = y - 1
        BY <2>1, <2>4, SMTT(30)
      <4> HIDE DEF y
      <4> QED
        BY <2>2, <3>3, <4>2, <4>3, <4>4
    <3>4. s[p] \in Digits
      BY <2>2, <2>4
    <3> DEFINE z == p + d
    <3>5. /\ \A x \in p .. z - 1 : At(s, x) \in Digits \cup Separators
          /\ \A x \in p + 1 .. z - 1 : s[x] \in Separators => s[x - 1] \in Digits
          /\ At(s, z - 1) \in Digits /\ At(s, z) \notin Words
      <4>1. z - 1 = p + d - 1
        BY <2>4
      <4> HIDE DEF d
      <4> QED
        BY <2>6, <3>1, <3>2, <3>3, <4>1
    <3> HIDE DEF z
    <3>6. IsDigitRun(s, p, z)
      BY <2>5, <3>4, <3>5 DEF IsDigitRun, All
    <3> QED
      BY <3>6 DEF z
  <2>9. Between(out, i, j) = Between(s, p, p + d)
    <3> DEFINE T == {s[k] : k \in 1 .. Len(s)} \cup {"[CARD]"}
               z == p + d
    <3>1. i \in 1 .. Len(out) + 1 /\ j \in i .. Len(out) + 1 /\ p \in 1 .. Len(s) + 1 /\ z \in p .. Len(s) + 1
          /\ z - p = d
      BY <2>1, <2>4
    <3>2. out \in Seq(T)
      BY <1>2
    <3> HIDE DEF T, z
    <3>3. /\ Between(out, i, j) \in Seq(T) /\ Len(Between(out, i, j)) = d
          /\ \A y \in 1 .. d : Between(out, i, j)[y] = out[i + y - 1]
      BY <3>1, <3>2, BetweenIs
    <3>4. /\ Between(s, p, z) \in Seq(S) /\ Len(Between(s, p, z)) = z - p
          /\ \A y \in 1 .. z - p : Between(s, p, z)[y] = s[p + y - 1]
      BY <3>1, BetweenIs
    <3>5. ASSUME NEW y \in 1 .. d PROVE Between(out, i, j)[y] = Between(s, p, z)[y]
      <4>1. y - 1 \in 0 .. d - 1 /\ i + (y - 1) = i + y - 1 /\ p + (y - 1) = p + y - 1
        BY <2>1, <2>4
      <4>2. out[i + (y - 1)] = s[p + (y - 1)]
        BY <2>3, <4>1
      <4>3. Between(out, i, j)[y] = out[i + y - 1] /\ Between(s, p, z)[y] = s[p + y - 1]
        BY <3>1, <3>3, <3>4
      <4> QED
        BY <4>1, <4>2, <4>3
    <3>6. Between(out, i, j) = Between(s, p, z)
      <4> HIDE DEF d
      <4> QED
        BY <3>1, <3>3, <3>4, <3>5, SeqEqual
    <3> QED
      BY <3>6 DEF z
  <2> DEFINE q == p + d
  <2>10. p \in 1 .. p /\ q \in q .. Len(s) + 1 /\ q \in p + 1 .. Len(s) + 1
    BY <2>4
  <2> HIDE DEF d, q
  <2>11. ~CardAt(s, p, q)
    <3> DEFINE ends == {k \in p + 1 .. Len(s) + 1 : CardAt(s, p, k)}
    <3>1. E[p] = LongestOf(ends)
      BY <2>4 DEF E, AllCardEnds
    <3>2. ends \in SUBSET Int /\ (\A k \in ends : k <= Len(s) + 1 /\ k # 0) /\ Len(s) + 1 \in Int
      BY <2>4
    <3> HIDE DEF ends
    <3>3. ends = {}
      <4>1. SUFFICES ASSUME ends # {} PROVE FALSE
        OBVIOUS
      <4>2. Max(ends) \in ends
        BY <3>2, <4>1, MaxOf
      <4> QED
        BY <2>4, <3>1, <3>2, <4>1, <4>2 DEF LongestOf
    <3> QED
      BY <2>10, <3>3 DEF ends
  <2>12. ~IsCard(s, p, q)
    <3>1. IsDigitRun(s, p, q)
      BY <2>8 DEF q
    <3> QED
      BY <2>10, <2>11, <3>1 DEF CardAt
  <2>13. At(s, p - 1) \notin Digits /\ At(s, q) \notin Digits
    BY <2>5, <2>6, CardBytes DEF q
  <2>14. ~IsCardNumber(Spelled(s, p, q))
    BY <2>12, <2>13 DEF IsCard
  <2>15. Between(out, i, j) = Between(s, p, q)
    BY <2>9 DEF q
  <2> QED
    BY <2>14, <2>15
<1> QED
  BY <1>3 DEF LeavesNoCard, out

-----------------------------------------------------------------------------
(* Sensitive keys *)

\* What Only takes of the first k bytes of a text, for each k.
IsTaking(f, s, C) ==
  f = [k \in 0 .. Len(s) |->
        IF k = 0 THEN <<>> ELSE IF s[k] \in C THEN Append(f[k - 1], s[k]) ELSE f[k - 1]]

\* What is taken of a text is what its equation says.
LEMMA TakingDefined ==
  ASSUME NEW s, NEW C, Len(s) \in Nat
  PROVE  \E f : IsTaking(f, s, C)
<1> DEFINE n == Len(s)
           Body(f, k) == IF k = 0 THEN <<>> ELSE IF s[k] \in C THEN Append(f[k - 1], s[k]) ELSE f[k - 1]
           Def(f, m) == f = [k \in 0 .. m |-> Body(f, k)]
           P == {m \in 0 .. n : \E f : Def(f, m)}
<1>2. 0 \in P
  <2>1. Def([k \in 0 .. 0 |-> <<>>], 0)
    OBVIOUS
  <2> HIDE DEF Def
  <2> QED
    BY <2>1
<1>3. ASSUME NEW m \in 1 .. n, m - 1 \in P PROVE m \in P
  <2>1. PICK f : Def(f, m - 1)
    BY <1>3
  <2> DEFINE g == [k \in 0 .. m |-> IF k = m THEN Body(f, m) ELSE f[k]]
  <2>2. Def(g, m)
    <3>1. \A k \in 0 .. m - 1 : g[k] = f[k]
      OBVIOUS
    <3>2. \A k \in 0 .. m - 1 : f[k] = Body(f, k)
      BY <2>1
    <3>3. g[m] = Body(f, m) /\ g = [k \in 0 .. m |-> g[k]]
      OBVIOUS
    <3> HIDE DEF g
    <3>4. ASSUME NEW k \in 0 .. m PROVE Body(f, k) = Body(g, k)
      <4>1. k = 0 \/ k - 1 \in 0 .. m - 1
        OBVIOUS
      <4> QED
        BY <3>1, <4>1
    <3> HIDE DEF Body
    <3>5. \A k \in 0 .. m : g[k] = Body(g, k)
      <4>1. \A k \in 0 .. m : k = m \/ k \in 0 .. m - 1
        OBVIOUS
      <4> QED
        BY <3>1, <3>2, <3>3, <3>4, <4>1
    <3> QED
      BY <3>3, <3>5
  <2> HIDE DEF Def, g
  <2> QED
    BY <2>2
<1>4. n \in P
  <2> HIDE DEF P, n
  <2>1. \A m \in 0 .. n : m \in P
    BY <1>2, <1>3, UpTo DEF n
  <2> QED
    BY <2>1 DEF n
<1>5. PICK f : Def(f, n)
  BY <1>4
<1> QED
  BY <1>5 DEF IsTaking

Taking(s, C) == CHOOSE f : IsTaking(f, s, C)

LEMMA TakingStep ==
  ASSUME NEW S, NEW s \in Seq(S), NEW C
  PROVE  /\ IsTaking(Taking(s, C), s, C)
         /\ Only(s, C) = Taking(s, C)[Len(s)]
         /\ \A k \in 0 .. Len(s) : Taking(s, C)[k] \in Seq(S \cap C)
<1> DEFINE n == Len(s)
           f == Taking(s, C)
           P == {k \in 0 .. n : f[k] \in Seq(S \cap C)}
<1>0. n \in Nat
  OBVIOUS
<1>1. IsTaking(f, s, C)
  <2>1. \E g : IsTaking(g, s, C)
    BY <1>0, TakingDefined
  <2> QED
    BY <2>1 DEF Taking
<1>2. Only(s, C) = f[n]
  BY DEF Only, Taking, IsTaking
<1> HIDE DEF f
<1>3. /\ f[0] = <<>>
      /\ \A k \in 1 .. n : f[k] = IF s[k] \in C THEN Append(f[k - 1], s[k]) ELSE f[k - 1]
  <2>1. \A k \in 0 .. n : f[k] = IF k = 0 THEN <<>> ELSE IF s[k] \in C THEN Append(f[k - 1], s[k]) ELSE f[k - 1]
    BY <1>1 DEF IsTaking
  <2> QED
    BY <1>0, <2>1
<1>4. 0 \in P
  <2>1. <<>> \in Seq(S \cap C)
    OBVIOUS
  <2>2. f[0] = <<>>
    BY <1>3
  <2>3. f[0] \in Seq(S \cap C)
    BY <2>1, <2>2, Zenon
  <2>4. 0 \in 0 .. n
    BY <1>0
  <2> QED
    BY <2>3, <2>4
<1>5. ASSUME NEW k \in 1 .. n, k - 1 \in P PROVE k \in P
  <2>1. f[k - 1] \in Seq(S \cap C) /\ s[k] \in S
    BY <1>5
  <2>2. f[k] \in Seq(S \cap C)
    <3>1. CASE s[k] \in C
      <4>1. Append(f[k - 1], s[k]) \in Seq(S \cap C)
        BY <2>1, <3>1, AppendProperties
      <4> QED
        BY <1>3, <3>1, <4>1
    <3>2. CASE s[k] \notin C
      BY <1>3, <2>1, <3>2
    <3> QED
      BY <3>1, <3>2
  <2> QED
    BY <2>2
<1>6. \A k \in 0 .. n : k \in P
  <2> HIDE DEF P, n
  <2> QED
    BY <1>0, <1>4, <1>5, UpTo
<1> QED
  BY <1>1, <1>2, <1>6 DEF f

\* ... read one byte at a time.
LEMMA TakingEach ==
  ASSUME NEW s, NEW C, NEW f, IsTaking(f, s, C), Len(s) \in Nat
  PROVE  /\ f[0] = <<>>
         /\ \A k \in 1 .. Len(s) : f[k] = IF s[k] \in C THEN Append(f[k - 1], s[k]) ELSE f[k - 1]
<1>1. \A k \in 0 .. Len(s) :
        f[k] = IF k = 0 THEN <<>> ELSE IF s[k] \in C THEN Append(f[k - 1], s[k]) ELSE f[k - 1]
  BY DEF IsTaking
<1> QED
  BY <1>1

\* What is taken does not change when what is looked at goes on.
LEMMA TakingIs ==
  ASSUME NEW S, NEW s \in Seq(S), NEW t \in Seq(S), NEW C, NEW D, Len(s) <= Len(t),
         \A k \in 1 .. Len(s) : s[k] = t[k] /\ (s[k] \in C <=> s[k] \in D)
  PROVE  \A k \in 0 .. Len(s) : Taking(s, C)[k] = Taking(t, D)[k]
<1> DEFINE n == Len(s)
           f == Taking(s, C)
           g == Taking(t, D)
           P == {k \in 0 .. n : f[k] = g[k]}
<1>0. n \in Nat /\ Len(t) \in Nat
  OBVIOUS
<1>1. /\ f[0] = <<>> /\ g[0] = <<>>
      /\ \A k \in 1 .. n : f[k] = IF s[k] \in C THEN Append(f[k - 1], s[k]) ELSE f[k - 1]
      /\ \A k \in 1 .. Len(t) : g[k] = IF t[k] \in D THEN Append(g[k - 1], t[k]) ELSE g[k - 1]
  <2>1. IsTaking(f, s, C) /\ IsTaking(g, t, D)
    BY TakingStep
  <2> HIDE DEF f, g
  <2> QED
    BY <1>0, <2>1, TakingEach
<1> HIDE DEF f, g
<1>2. 0 \in P
  BY <1>0, <1>1
<1>3. ASSUME NEW k \in 1 .. n, k - 1 \in P PROVE k \in P
  <2>1. f[k - 1] = g[k - 1] /\ k \in 1 .. Len(t)
    BY <1>3
  <2>2. f[k] = g[k]
    BY <1>1, <2>1
  <2> QED
    BY <2>2
<1>4. \A k \in 0 .. n : k \in P
  <2> HIDE DEF P, n
  <2> QED
    BY <1>0, <1>2, <1>3, UpTo
<1> QED
  BY <1>4 DEF f, g

\* A key's letters and digits, its case aside, are the same without its dashes and
\* underscores.
LEMMA KeysJoin ==
  ASSUME NEW S, NEW s \in Seq(S), NEW C, NEW D,
         \A c \in S : c \notin D => Lower(<<c>>)[1] \notin C
  PROVE  Only(Lower(Only(s, D)), C) = Only(Lower(s), C)
<1> DEFINE n == Len(s)
           L == {Lower(<<c>>)[1] : c \in S}
           low(c) == Lower(<<c>>)[1]
           f == Taking(s, D)
           g == Taking(Lower(s), C)
           P == {k \in 0 .. n : Only(Lower(f[k]), C) = g[k]}
<1>0. n \in Nat
  OBVIOUS
<1>1. ASSUME NEW t \in Seq(S)
      PROVE  /\ Lower(t) \in Seq(L) /\ Len(Lower(t)) = Len(t)
             /\ \A k \in 1 .. Len(t) : Lower(t)[k] = low(t[k])
  <2>1. ASSUME NEW c PROVE low(c) = IF c \in Uppers THEN LowerOrder[Rank(c, UpperOrder) + 1] ELSE c
    <3>1. 1 \in DOMAIN <<c>> /\ <<c>>[1] = c
      OBVIOUS
    <3> QED
      BY <3>1 DEF Lower
  <2>2. Lower(t) = [k \in 1 .. Len(t) |-> low(t[k])]
    <3> HIDE DEF low
    <3> QED
      BY <2>1 DEF Lower
  <2>3. \A k \in 1 .. Len(t) : low(t[k]) \in L
    OBVIOUS
  <2> HIDE DEF low, L
  <2> QED
    BY <2>2, <2>3
<1>2. /\ f[0] = <<>> /\ Only(s, D) = f[n]
      /\ \A k \in 1 .. n : f[k] = IF s[k] \in D THEN Append(f[k - 1], s[k]) ELSE f[k - 1]
      /\ \A k \in 0 .. n : f[k] \in Seq(S)
  <2>1. \A k \in 0 .. n : f[k] \in Seq(S \cap D)
    BY TakingStep
  <2>2. Seq(S \cap D) \subseteq Seq(S)
    OBVIOUS
  <2> HIDE DEF f
  <2>3. \A k \in 0 .. n : f[k] \in Seq(S)
    BY <2>1, <2>2
  <2>4. IsTaking(f, s, D) /\ Only(s, D) = f[n]
    BY TakingStep DEF f
  <2>5. /\ f[0] = <<>>
        /\ \A k \in 1 .. n : f[k] = IF s[k] \in D THEN Append(f[k - 1], s[k]) ELSE f[k - 1]
    BY <1>0, <2>4, TakingEach
  <2> QED
    BY <2>3, <2>4, <2>5
<1>3. /\ g[0] = <<>> /\ Only(Lower(s), C) = g[n]
      /\ \A k \in 1 .. n : g[k] = IF low(s[k]) \in C THEN Append(g[k - 1], low(s[k])) ELSE g[k - 1]
  <2>1. Lower(s) \in Seq(L) /\ Len(Lower(s)) = n /\ \A k \in 1 .. n : Lower(s)[k] = low(s[k])
    BY <1>1
  <2> HIDE DEF low, L, g, n
  <2>2. IsTaking(g, Lower(s), C) /\ Only(Lower(s), C) = g[Len(Lower(s))]
    BY <2>1, TakingStep DEF g
  <2>3. /\ g[0] = <<>>
        /\ \A k \in 1 .. n : g[k] = IF Lower(s)[k] \in C THEN Append(g[k - 1], Lower(s)[k]) ELSE g[k - 1]
    BY <1>0, <2>1, <2>2, TakingEach DEF n
  <2> QED
    BY <2>1, <2>2, <2>3
<1> HIDE DEF f, g
<1>4. 0 \in P
  <2>1. Only(Lower(<<>>), C) = <<>>
    <3>1. <<>> \in Seq(S) /\ Len(<<>>) = 0
      OBVIOUS
    <3>2. Lower(<<>>) \in Seq(L) /\ Len(Lower(<<>>)) = 0
      <4> HIDE DEF L, low
      <4> QED
        BY <1>1, <3>1
    <3> HIDE DEF L
    <3> DEFINE h == Taking(Lower(<<>>), C)
    <3>3. IsTaking(h, Lower(<<>>), C) /\ Only(Lower(<<>>), C) = h[0]
      BY <3>2, TakingStep
    <3> HIDE DEF h
    <3> QED
      BY <3>2, <3>3, TakingEach
  <2> QED
    BY <1>0, <1>2, <1>3, <2>1
<1>5. ASSUME NEW k \in 1 .. n, k - 1 \in P PROVE k \in P
  <2> DEFINE t == f[k - 1]
             c == s[k]
  <2>0. t \in Seq(S) /\ c \in S /\ k - 1 \in 0 .. n
    BY <1>2
  <2>1. Only(Lower(t), C) = g[k - 1]
    BY <1>5
  <2>2. CASE c \in D
    <3>1. f[k] = Append(t, c)
      BY <1>2, <2>2
    <3> HIDE DEF t, c
    <3> DEFINE u == Append(t, c)
               m == Len(t)
    <3>2. u \in Seq(S) /\ Len(u) = m + 1 /\ u[m + 1] = c /\ m \in Nat /\ \A x \in 1 .. m : u[x] = t[x]
      BY <2>0, AppendProperties
    <3> HIDE DEF u
    <3>3. /\ Lower(u) \in Seq(L) /\ Len(Lower(u)) = m + 1 /\ Lower(u)[m + 1] = low(c)
          /\ Lower(t) \in Seq(L) /\ Len(Lower(t)) = m /\ \A x \in 1 .. m : Lower(u)[x] = Lower(t)[x]
      <4>1. \A x \in 1 .. m : x \in 1 .. Len(u)
        BY <3>2
      <4>2. m + 1 \in 1 .. Len(u)
        BY <3>2
      <4> HIDE DEF L, low
      <4> QED
        BY <1>1, <2>0, <3>2, <4>1, <4>2
    <3> HIDE DEF L, low, m
    <3>4. /\ Only(Lower(u), C) = Taking(Lower(u), C)[m + 1]
          /\ Taking(Lower(u), C)[m + 1] = IF low(c) \in C THEN Append(Taking(Lower(u), C)[m], low(c))
                                                          ELSE Taking(Lower(u), C)[m]
      <4>1. m + 1 \in 1 .. Len(Lower(u)) /\ (m + 1) - 1 = m
        BY <3>2, <3>3
      <4> DEFINE h == Taking(Lower(u), C)
      <4>2. IsTaking(h, Lower(u), C) /\ Only(Lower(u), C) = h[m + 1]
        BY <3>3, TakingStep
      <4> HIDE DEF h
      <4>3. h[m + 1] = IF Lower(u)[m + 1] \in C THEN Append(h[(m + 1) - 1], Lower(u)[m + 1]) ELSE h[(m + 1) - 1]
        <5>1. \A x \in 1 .. Len(Lower(u)) :
                h[x] = IF Lower(u)[x] \in C THEN Append(h[x - 1], Lower(u)[x]) ELSE h[x - 1]
          BY <3>2, <3>3, <4>2, TakingEach
        <5> QED
          BY <4>1, <5>1
      <4> QED
        BY <3>3, <4>1, <4>2, <4>3 DEF h
    <3>5. Taking(Lower(t), C)[m] = Taking(Lower(u), C)[m]
      <4>1. Len(Lower(t)) <= Len(Lower(u)) /\ m \in 0 .. Len(Lower(t))
        BY <3>2, <3>3
      <4>2. \A x \in 1 .. Len(Lower(t)) : Lower(t)[x] = Lower(u)[x] /\ (Lower(t)[x] \in C <=> Lower(t)[x] \in C)
        BY <3>3
      <4> QED
        BY <3>3, <4>1, <4>2, TakingIs
    <3>6. Only(Lower(t), C) = Taking(Lower(t), C)[m]
      BY <3>3, TakingStep
    <3>7. Only(Lower(u), C) = g[k]
      <4>1. g[k] = IF low(c) \in C THEN Append(g[k - 1], low(c)) ELSE g[k - 1]
        BY <1>3 DEF c
      <4> QED
        BY <2>1, <3>4, <3>5, <3>6, <4>1
    <3>8. f[k] = u /\ k \in 0 .. n
      BY <3>1 DEF u
    <3> QED
      BY <3>7, <3>8
  <2>3. CASE c \notin D
    <3>1. f[k] = t
      BY <1>2, <2>3
    <3>2. low(c) \notin C
      BY <2>0, <2>3
    <3>3. g[k] = g[k - 1]
      <4> HIDE DEF low
      <4> QED
        BY <1>3, <3>2
    <3> HIDE DEF t, c
    <3> QED
      BY <2>1, <3>1, <3>3
  <2> QED
    BY <2>2, <2>3
<1>6. \A k \in 0 .. n : k \in P
  <2> HIDE DEF P, n
  <2> QED
    BY <1>0, <1>4, <1>5, UpTo
<1>7. n \in 0 .. n
  BY <1>0
<1> QED
  BY <1>2, <1>3, <1>6, <1>7

\* The bytes that a key is compared by.
KeyBytes == Lowers \cup Digits

\* Capitals are no lower-case letters or digits; dashes, underscores and the mark of an
\* array are neither.
LEMMA KeyClasses ==
  /\ \A c \in KeyBytes : c \notin Uppers
  /\ \A c \in {"_", "-", "[]"} : c \notin Uppers /\ c \notin KeyBytes
<1>1. \A c \in KeyBytes : c \notin Uppers
  BY SMT DEF KeyBytes, Digits, DigitOrder, Lowers, Uppers, LowerOrder, UpperOrder, Range
<1>2. Uppers \subseteq Letters /\ Lowers \subseteq Letters
  BY Zenon DEF Letters
<1>3. \A c \in {"_", "-", "[]"} : c \notin Alphanumerics
  BY ZenonT(30) DEF Alphanumerics
<1> QED
  BY <1>1, <1>2, <1>3, AlphanumericsAre, Zenon DEF KeyBytes

\* A text whose bytes are all wanted is taken whole.
LEMMA OnlyAll ==
  ASSUME NEW C, NEW s \in Seq(C)
  PROVE  Only(s, C) = s
<1> DEFINE n == Len(s)
           f == Taking(s, C)
           Same(k) == /\ f[k] \in Seq(C) /\ Len(f[k]) = k
                      /\ \A x \in 1 .. k : f[k][x] = s[x]
           P == {k \in 0 .. n : Same(k)}
<1>0. n \in Nat
  OBVIOUS
<1>1. IsTaking(f, s, C) /\ Only(s, C) = f[n]
  BY TakingStep
<1>2. f[0] = <<>> /\ \A k \in 1 .. n : f[k] = IF s[k] \in C THEN Append(f[k - 1], s[k]) ELSE f[k - 1]
  <2> HIDE DEF f
  <2> QED
    BY <1>0, <1>1, TakingEach
<1> HIDE DEF f
<1>3. 0 \in P
  <2>1. <<>> \in Seq(C) /\ Len(<<>>) = 0
    OBVIOUS
  <2>2. f[0] = <<>>
    BY <1>2
  <2>3. f[0] \in Seq(C) /\ Len(f[0]) = 0
    BY <2>1, <2>2, Zenon
  <2>4. 0 \in 0 .. n
    BY <1>0
  <2> QED
    BY <2>3, <2>4
<1>4. ASSUME NEW k \in 1 .. n, k - 1 \in P PROVE k \in P
  <2> DEFINE t == f[k - 1]
             u == Append(t, s[k])
  <2>1. t \in Seq(C) /\ Len(t) = k - 1 /\ \A x \in 1 .. k - 1 : t[x] = s[x]
    BY <1>4
  <2>2. s[k] \in C
    OBVIOUS
  <2>3. f[k] = u
    BY <1>2, <2>2
  <2> HIDE DEF t
  <2>4. u \in Seq(C) /\ Len(u) = Len(t) + 1 /\ u[Len(t) + 1] = s[k] /\ \A x \in 1 .. Len(t) : u[x] = t[x]
    BY <2>1, <2>2, AppendProperties
  <2> HIDE DEF u
  <2>5. u \in Seq(C) /\ Len(u) = k
    BY <2>1, <2>4
  <2>6. ASSUME NEW x \in 1 .. k PROVE u[x] = s[x]
    <3>1. x = k \/ x \in 1 .. k - 1
      OBVIOUS
    <3> QED
      BY <2>1, <2>4, <3>1
  <2>7. k \in 0 .. n
    OBVIOUS
  <2> QED
    BY <2>3, <2>5, <2>6, <2>7
<1>5. \A k \in 0 .. n : k \in P
  <2> HIDE DEF P, n
  <2> QED
    BY <1>0, <1>3, <1>4, UpTo
<1>6. f[n] \in Seq(C) /\ Len(f[n]) = Len(s) /\ \A x \in 1 .. Len(s) : f[n][x] = s[x]
  <2>1. n \in P
    BY <1>0, <1>5
  <2> QED
    BY <2>1
<1>7. f[n] = s
  <2> DEFINE t == f[n]
  <2>1. t \in Seq(C) /\ Len(t) = Len(s) /\ \A x \in 1 .. Len(s) : t[x] = s[x]
    BY <1>6
  <2> HIDE DEF t
  <2>2. t = s
    BY <2>1, SeqEqual
  <2> QED
    BY <2>2 DEF t
<1> QED
  BY <1>1, <1>7

\* Dashes and underscores make no difference to whether a key is found, and a key that is
\* a sensitive one without them is found (is_sensitive_key()).
THEOREM KeysAreKnown ==
  ASSUME NEW S, NEW key \in Seq(S)
  PROVE  KnowsKeys(key)
<1> DEFINE D == Range(key) \ {"_", "-"}
           plain == Only(key, D)
           normal(s) == Only(Lower(s), KeyBytes)
<1>1. normal(plain) = normal(key)
  <2>1. key \in Seq(Range(key))
    BY DEF Range
  <2>2. ASSUME NEW c \in Range(key), c \notin D PROVE Lower(<<c>>)[1] \notin KeyBytes
    <3>1. c \in {"_", "-"}
      BY <2>2
    <3>2. 1 \in DOMAIN <<c>> /\ <<c>>[1] = c
      OBVIOUS
    <3>3. c \notin Uppers /\ c \notin KeyBytes
      BY <3>1, KeyClasses
    <3> QED
      BY <3>2, <3>3 DEF Lower
  <2> HIDE DEF D
  <2> QED
    BY <2>1, <2>2, KeysJoin
<1>2. ASSUME NEW s
      PROVE  IsSensitiveKey(s) <=> \E k \in SensitiveKeys, i \in DOMAIN normal(s) :
               SubSeq(normal(s), i, Min({i + Len(k) - 1, Len(normal(s))})) = k
  BY DEF IsSensitiveKey, KeyBytes
<1> HIDE DEF normal, plain
<1>3. IsSensitiveKey(key) = IsSensitiveKey(plain)
  <2>1. IsSensitiveKey(key) <=> IsSensitiveKey(plain)
    BY <1>1, <1>2
  <2>2. IsSensitiveKey(key) \in BOOLEAN /\ IsSensitiveKey(plain) \in BOOLEAN
    BY DEF IsSensitiveKey
  <2> QED
    BY <2>1, <2>2
<1>4. ASSUME plain \in SensitiveKeys PROVE IsSensitiveKey(plain)
  <2> DEFINE n == Len(plain)
  <2>1. plain \in Seq(KeyBytes) /\ n \in Nat \ {0}
    BY <1>4, ScrubAssumption DEF KeyBytes
  <2>2. Lower(plain) = plain
    <3>1. ASSUME NEW k \in DOMAIN plain PROVE plain[k] \notin Uppers
      <4>1. plain[k] \in KeyBytes
        BY <2>1
      <4> QED
        BY <4>1, KeyClasses
    <3>2. Lower(plain) = [k \in DOMAIN plain |-> plain[k]]
      BY <3>1 DEF Lower
    <3> QED
      BY <2>1, <3>2
  <2>3. normal(plain) = plain
    <3>1. Only(plain, KeyBytes) = plain
      BY <2>1, OnlyAll
    <3> QED
      BY <2>2, <3>1 DEF normal
  <2>4. Min({1 + n - 1, n}) = n
    <3>1. {1 + n - 1, n} \in SUBSET Nat /\ n \in {1 + n - 1, n} /\ \A k \in {1 + n - 1, n} : n <= k
      BY <2>1
    <3> QED
      BY <3>1, MinIsThat
  <2>5. SubSeq(plain, 1, n) = plain
    <3>1. /\ SubSeq(plain, 1, n) \in Seq(KeyBytes) /\ Len(SubSeq(plain, 1, n)) = n
          /\ \A k \in 1 .. n : SubSeq(plain, 1, n)[k] = plain[k]
      <4>1. \A k \in 1 .. n : plain[k] \in KeyBytes
        BY <2>1
      <4>2. n - 1 + 1 = n /\ 1 <= n
        BY <2>1
      <4>3. /\ SubSeq(plain, 1, n) \in Seq(KeyBytes)
            /\ Len(SubSeq(plain, 1, n)) = IF 1 <= n THEN n - 1 + 1 ELSE 0
            /\ \A k \in 1 .. n - 1 + 1 : SubSeq(plain, 1, n)[k] = plain[1 + k - 1]
        BY <2>1, <4>1, SubSeqProperties
      <4>4. \A k \in 1 .. n : 1 + k - 1 = k
        OBVIOUS
      <4> HIDE DEF n
      <4> QED
        BY <4>2, <4>3, <4>4
    <3> QED
      BY <2>1, <3>1, SeqEqual
  <2>6. 1 \in DOMAIN plain
    BY <2>1
  <2> QED
    BY <1>2, <1>4, <2>3, <2>4, <2>5, <2>6
<1> QED
  BY <1>3, <1>4 DEF KnowsKeys, plain

\* The key that each part of a path is scrubbed under (scrub()).
IsKeys(f, path) ==
  f = [k \in 0 .. Len(path) |->
         IF k = 0 THEN <<>> ELSE IF path[k] = Element THEN f[k - 1] ELSE path[k]]

LEMMA KeysDefined ==
  ASSUME NEW path, Len(path) \in Nat
  PROVE  \E f : IsKeys(f, path)
<1> DEFINE n == Len(path)
           Body(f, k) == IF k = 0 THEN <<>> ELSE IF path[k] = Element THEN f[k - 1] ELSE path[k]
           Def(f, m) == f = [k \in 0 .. m |-> Body(f, k)]
           P == {m \in 0 .. n : \E f : Def(f, m)}
<1>2. 0 \in P
  <2>1. Def([k \in 0 .. 0 |-> <<>>], 0)
    OBVIOUS
  <2> HIDE DEF Def
  <2> QED
    BY <2>1
<1>3. ASSUME NEW m \in 1 .. n, m - 1 \in P PROVE m \in P
  <2>1. PICK f : Def(f, m - 1)
    BY <1>3
  <2> DEFINE g == [k \in 0 .. m |-> IF k = m THEN Body(f, m) ELSE f[k]]
  <2>2. Def(g, m)
    <3>1. \A k \in 0 .. m - 1 : g[k] = f[k]
      OBVIOUS
    <3>2. \A k \in 0 .. m - 1 : f[k] = Body(f, k)
      <4> HIDE DEF Body
      <4> QED
        BY <2>1
    <3>3. g[m] = Body(f, m) /\ g = [k \in 0 .. m |-> g[k]]
      <4> HIDE DEF Body
      <4> QED
        OBVIOUS
    <3> HIDE DEF g
    <3>4. ASSUME NEW k \in 0 .. m PROVE Body(f, k) = Body(g, k)
      <4>1. k = 0 \/ g[k - 1] = f[k - 1]
        BY <3>1
      <4> QED
        BY <4>1
    <3> HIDE DEF Body
    <3>5. \A k \in 0 .. m : g[k] = Body(g, k)
      <4>1. \A k \in 0 .. m : k = m \/ k \in 0 .. m - 1
        OBVIOUS
      <4> QED
        BY <3>1, <3>2, <3>3, <3>4, <4>1
    <3> QED
      BY <3>3, <3>5
  <2> HIDE DEF Def, g
  <2> QED
    BY <2>2
<1>4. n \in P
  <2> HIDE DEF P, n
  <2>1. \A m \in 0 .. n : m \in P
    BY <1>2, <1>3, UpTo DEF n
  <2> QED
    BY <2>1 DEF n
<1>5. PICK f : Def(f, n)
  BY <1>4
<1> QED
  BY <1>5 DEF IsKeys

\* Each part of a path has one key.
LEMMA KeysOfIs ==
  ASSUME NEW path, Len(path) \in Nat
  PROVE  IsKeys(KeysOf(path), path)
<1>1. \E f : IsKeys(f, path)
  BY KeysDefined
<1>2. KeysOf(path) = CHOOSE f : IsKeys(f, path)
  BY DEF KeysOf, IsKeys
<1> QED
  BY <1>1, <1>2

\* What is under a sensitive key is replaced, however deep it is and however many arrays
\* it is in (scrub()).
THEOREM HiddenBelowKeys ==
  ASSUME NEW S, NEW path \in Seq(S)
  PROVE  HidesBelowKeys(path)
<1> SUFFICES ASSUME NEW k \in DOMAIN path, IsSensitiveKey(path[k]), NEW leaf \in {"string", "number"}
             PROVE  ScrubLeaf(path, leaf) = "[FILTERED]"
  BY DEF HidesBelowKeys
<1> DEFINE n == Len(path)
           key == KeysOf(path)
<1>0. n \in Nat /\ k \in 1 .. n
  OBVIOUS
<1>1. IsKeys(key, path)
  BY <1>0, KeysOfIs
<1>2. path[k] # Element
  <2>1. SUFFICES ASSUME path[k] = Element PROVE FALSE
    OBVIOUS
  <2> DEFINE e == Element
             t == Taking(Lower(e), KeyBytes)
  <2>2. e \in Seq({"[]"}) /\ Len(e) = 1 /\ e[1] = "[]"
    BY DEF Element
  <2> HIDE DEF e
  <2>2a. "[]" \notin Uppers /\ "[]" \notin KeyBytes
    BY KeyClasses, Zenon
  <2>3. Lower(e) \in Seq({"[]"}) /\ Len(Lower(e)) = 1 /\ Lower(e)[1] = "[]"
    <3>1. \A x \in DOMAIN e : e[x] \notin Uppers
      <4>1. \A x \in DOMAIN e : e[x] = "[]"
        BY <2>2
      <4> QED
        BY <2>2a, <4>1
    <3>2. Lower(e) = [x \in DOMAIN e |-> e[x]]
      BY <3>1 DEF Lower
    <3>3. Lower(e) = e
      BY <2>2, <3>2
    <3> QED
      BY <2>2, <3>3
  <2>4. IsTaking(t, Lower(e), KeyBytes) /\ Only(Lower(e), KeyBytes) = t[1]
    BY <2>3, TakingStep
  <2> HIDE DEF t
  <2>5. t[0] = <<>> /\ \A x \in 1 .. 1 : t[x] = IF Lower(e)[x] \in KeyBytes THEN Append(t[x - 1], Lower(e)[x]) ELSE t[x - 1]
    <3>1. /\ t[0] = <<>>
          /\ \A x \in 1 .. Len(Lower(e)) :
               t[x] = IF Lower(e)[x] \in KeyBytes THEN Append(t[x - 1], Lower(e)[x]) ELSE t[x - 1]
      <4> DEFINE w == Lower(e)
      <4>1. IsTaking(t, w, KeyBytes) /\ Len(w) \in Nat
        BY <2>3, <2>4
      <4> HIDE DEF w
      <4>2. /\ t[0] = <<>>
            /\ \A x \in 1 .. Len(w) : t[x] = IF w[x] \in KeyBytes THEN Append(t[x - 1], w[x]) ELSE t[x - 1]
        BY <4>1, TakingEach
      <4> QED
        BY <4>2 DEF w
    <3> QED
      BY <2>3, <3>1
  <2>6. t[1] = <<>>
    <3>1. 1 \in 1 .. 1 /\ 1 - 1 = 0 /\ Lower(e)[1] \notin KeyBytes
      BY <2>3, <2>2a
    <3> QED
      BY <2>5, <3>1
  <2>7. Only(Lower(e), Lowers \cup Digits) = <<>>
    BY <2>4, <2>6 DEF KeyBytes
  <2>8. ~IsSensitiveKey(e)
    <3>1. DOMAIN <<>> = {}
      OBVIOUS
    <3> QED
      BY <2>7, <3>1 DEF IsSensitiveKey
  <2> QED
    BY <2>1, <2>8 DEF e
<1>3. key[k] = path[k]
  <2> HIDE DEF key
  <2>1. key[k] = IF k = 0 THEN <<>> ELSE IF path[k] = Element THEN key[k - 1] ELSE path[k]
    BY <1>0, <1>1 DEF IsKeys
  <2> QED
    BY <1>0, <1>2, <2>1
<1>4. ScrubLeaf(path, leaf) =
        IF \E x \in 0 .. n : IsSensitiveKey(key[x]) /\ (x < n \/ leaf # "null")
          THEN "[FILTERED]" ELSE IF leaf = "string" THEN "scrubbed" ELSE leaf
  BY DEF ScrubLeaf
<1>5. k \in 0 .. n /\ IsSensitiveKey(key[k]) /\ leaf # "null"
  <2> HIDE DEF key
  <2> QED
    BY <1>0, <1>3
<1> HIDE DEF key, n
<1> QED
  BY <1>4, <1>5

-----------------------------------------------------------------------------
(* Hosts *)

\* What stands before the first byte of a class.
LEMMA BeforeIs ==
  ASSUME NEW S, NEW s \in Seq(S), NEW C
  PROVE  \E n \in 0 .. Len(s) :
           /\ Before(s, C) = SubSeq(s, 1, n) /\ \A k \in 1 .. n : s[k] \notin C
           /\ n < Len(s) => s[n + 1] \in C
<1> DEFINE f == Find(s, 1, C)
           n == IF f = 0 THEN Len(s) ELSE f - 1
<1>0. Len(s) \in Nat
  OBVIOUS
<1>1. \/ f \in 1 .. Len(s) /\ s[f] \in C /\ \A k \in 1 .. f - 1 : s[k] \notin C
      \/ f = 0 /\ \A k \in 1 .. Len(s) : s[k] \notin C
  BY FindIs
<1>2. Before(s, C) = SubSeq(s, 1, n)
  <2>1. Before(s, C) = SubSeq(s, 1, (IF f = 0 THEN Len(s) + 1 ELSE f) - 1)
    BY DEF Before, Between
  <2>2. (IF f = 0 THEN Len(s) + 1 ELSE f) - 1 = n
    BY <1>0, <1>1
  <2> QED
    BY <2>1, <2>2
<1> HIDE DEF f
<1>3. /\ n \in 0 .. Len(s) /\ \A k \in 1 .. n : s[k] \notin C
      /\ n < Len(s) => s[n + 1] \in C
  BY <1>0, <1>1
<1> QED
  BY <1>2, <1>3

\* What stands behind the last c.
LEMMA AfterLastIs ==
  ASSUME NEW S, NEW s \in Seq(S), NEW c
  PROVE  \E n \in 0 .. Len(s) :
           /\ AfterLast(s, c) = SubSeq(s, n + 1, Len(s)) /\ \A k \in n + 1 .. Len(s) : s[k] # c
           /\ n > 0 => s[n] = c
<1> DEFINE B == {i \in DOMAIN s : s[i] = c} \cup {0}
           n == Max(B)
<1>0. Len(s) \in Nat /\ DOMAIN s = 1 .. Len(s)
  OBVIOUS
<1>1. B \in SUBSET Int /\ B # {} /\ \A k \in B : k <= Len(s)
  BY <1>0
<1>2. n \in B /\ \A k \in B : k <= n
  <2>1. Len(s) \in Int
    BY <1>0
  <2> HIDE DEF B
  <2>2. PICK top \in Int : \A k \in B : k <= top
    BY <1>1, <2>1
  <2> QED
    BY <1>1, <2>2, MaxOf
<1>3. AfterLast(s, c) = SubSeq(s, n + 1, Len(s))
  BY DEF AfterLast
<1> HIDE DEF n
<1>4. n \in 0 .. Len(s) /\ n > 0 => s[n] = c
  BY <1>0, <1>2
<1>5. \A k \in n + 1 .. Len(s) : s[k] # c
  BY <1>0, <1>2
<1>6. n \in 0 .. Len(s)
  BY <1>0, <1>2
<1> QED
  BY <1>3, <1>4, <1>5, <1>6

LEMMA AfterLastIsThat ==
  ASSUME NEW S, NEW s \in Seq(S), NEW c, NEW n \in 0 .. Len(s), n > 0 => s[n] = c,
         \A k \in n + 1 .. Len(s) : s[k] # c
  PROVE  AfterLast(s, c) = SubSeq(s, n + 1, Len(s))
<1>1. PICK m \in 0 .. Len(s) :
        /\ AfterLast(s, c) = SubSeq(s, m + 1, Len(s)) /\ \A k \in m + 1 .. Len(s) : s[k] # c
        /\ m > 0 => s[m] = c
  BY AfterLastIs
<1>2. m = n
  <2>1. ~(m < n)
    BY <1>1
  <2>2. ~(n < m)
    BY <1>1
  <2> QED
    BY <2>1, <2>2
<1> QED
  BY <1>1, <1>2

\* A part of a part of a text.
LEMMA PartOfPart ==
  ASSUME NEW S, NEW s \in Seq(S), NEW a \in 1 .. Len(s) + 1, NEW b \in a - 1 .. Len(s),
         NEW c \in 1 .. b - a + 2, NEW d \in c - 1 .. b - a + 1
  PROVE  SubSeq(SubSeq(s, a, b), c, d) = SubSeq(s, a + c - 1, a + d - 1)
<1> DEFINE t == SubSeq(s, a, b)
           u == SubSeq(t, c, d)
           x == (a + c) - 1
           y == (a + d) - 1
           v == SubSeq(s, x, y)
<1>0. Len(s) \in Nat
  OBVIOUS
<1>1. t \in Seq(S) /\ Len(t) = b - a + 1 /\ \A k \in 1 .. Len(t) : t[k] = s[a + k - 1]
  <2>1. \A k \in a .. b : s[k] \in S
    OBVIOUS
  <2> QED
    BY <1>0, <2>1, SubSeqProperties
<1>2. u \in Seq(S) /\ Len(u) = d - c + 1 /\ \A k \in 1 .. Len(u) : u[k] = t[c + k - 1]
  <2> HIDE DEF t
  <2>1. \A k \in c .. d : t[k] \in S
    BY <1>1
  <2> QED
    BY <1>0, <1>1, <2>1, SubSeqProperties
<1>3. v \in Seq(S) /\ Len(v) = d - c + 1 /\ \A k \in 1 .. Len(v) : v[k] = s[x + k - 1]
  <2>0. x \in Int /\ y \in Int /\ x >= 1 /\ y <= Len(s) /\ y - x + 1 = d - c + 1 /\ x <= y + 1
    BY <1>0
  <2> HIDE DEF x, y
  <2>1. \A k \in x .. y : s[k] \in S
    BY <1>0, <2>0
  <2> QED
    BY <1>0, <2>0, <2>1, SubSeqProperties
<1> HIDE DEF t, u, v
<1>4. \A k \in 1 .. d - c + 1 : u[k] = v[k]
  <2> TAKE k \in 1 .. d - c + 1
  <2>1. u[k] = t[c + k - 1]
    BY <1>2
  <2>2. c + k - 1 \in 1 .. Len(t)
    BY <1>0, <1>1
  <2>3. t[c + k - 1] = s[a + (c + k - 1) - 1]
    BY <1>1, <2>2
  <2>4. v[k] = s[x + k - 1]
    BY <1>3
  <2>5. a + (c + k - 1) - 1 = x + k - 1
    BY <1>0
  <2> QED
    BY <2>1, <2>3, <2>4, <2>5
<1>5. u = v
  BY <1>2, <1>3, <1>4
<1> QED
  BY <1>5 DEF u, v, t, x, y

\* The bytes of a scheme.
SchemeBytes == Letters \cup Digits \cup {"+", ".", "-"}

LEMMA SchemeClass == NoByte \notin SchemeBytes /\ ":" \notin SchemeBytes
<1>1. NoByte \notin Letters /\ NoByte \notin Digits /\ ":" \notin Letters /\ ":" \notin Digits
  BY SMT DEF NoByte, Digits, DigitOrder, Letters, Lowers, Uppers, LowerOrder, UpperOrder, Range
<1>2. NoByte \notin {"+", ".", "-"} /\ ":" \notin {"+", ".", "-"}
  BY SMT DEF NoByte
<1> QED
  BY <1>1, <1>2, Zenon DEF SchemeBytes

\* A scheme is read from the first bytes alone.
IsScheme(s, m) ==
  /\ m \in 4 .. Len(s) /\ At(s, 1) \in Letters /\ All(s, 2, m - 2, SchemeBytes)
  /\ At(s, m - 2) = ":" /\ At(s, m - 1) = "/" /\ At(s, m) = "/"

\* An address has at most one such scheme, the one that scheme_length() finds.
LEMMA SchemeIs ==
  ASSUME NEW S, NEW s \in Seq(S)
  PROVE  \/ SchemeLength(s) > 0 /\ IsScheme(s, SchemeLength(s))
         \/ SchemeLength(s) = 0 /\ \A m : ~IsScheme(s, m)
<1> DEFINE i == RunEnd(s, 2, SchemeBytes)
           Is == At(s, 1) \in Letters /\ At(s, i) = ":" /\ At(s, i + 1) = "/" /\ At(s, i + 2) = "/"
<1>0. Len(s) \in Nat /\ NoByte \notin SchemeBytes /\ ":" \notin SchemeBytes
  BY SchemeClass
<1>1. /\ i \in Nat /\ i >= 2 /\ \A k \in 2 .. i - 1 : At(s, k) \in SchemeBytes
  BY <1>0, RunEndIs
<1>2. SchemeLength(s) = IF Is THEN i + 2 ELSE 0
  BY DEF SchemeLength, SchemeBytes
<1>3. ASSUME NEW m, IsScheme(s, m) PROVE Is /\ i = m - 2
  <2>1. m \in Int /\ m >= 4 /\ All(s, 2, m - 2, SchemeBytes) /\ At(s, m - 2) = ":"
    BY <1>3 DEF IsScheme
  <2>2. i = m - 2
    <3>1. m - 2 \in Nat /\ m - 2 >= 2 /\ 2 \in Nat \ {0}
      BY <2>1
    <3>2. At(s, m - 2) \notin SchemeBytes
      BY <1>0, <2>1, Zenon
    <3> QED
      BY <1>0, <2>1, <3>1, <3>2, RunEndIsThat
  <2> HIDE DEF i
  <2>3. i + 1 = m - 1 /\ i + 2 = m
    BY <2>1, <2>2
  <2> QED
    BY <1>3, <2>2, <2>3 DEF IsScheme
<1>4. ASSUME Is PROVE IsScheme(s, i + 2)
  <2> HIDE DEF i
  <2>1. (i + 2) - 2 = i /\ (i + 2) - 1 = i + 1 /\ i + 2 \in Int /\ i + 2 >= 4
    BY <1>1
  <2>2. At(s, i + 2) # NoByte
    BY <1>4, SMT DEF NoByte
  <2>3. i + 2 <= Len(s)
    BY <1>0, <2>1, <2>2 DEF At
  <2>4. All(s, 2, i, SchemeBytes)
    BY <1>1 DEF All
  <2> QED
    BY <1>0, <1>4, <2>1, <2>3, <2>4 DEF IsScheme
<1>5. CASE Is
  <2>1. SchemeLength(s) = i + 2 /\ i + 2 > 0
    BY <1>1, <1>2, <1>5
  <2> HIDE DEF i
  <2> QED
    BY <1>4, <1>5, <2>1
<1>6. CASE ~Is
  BY <1>2, <1>3, <1>6
<1> QED
  BY <1>5, <1>6

\* Where an address's authority lies, its credentials aside: from a to b.
IsAuthority(s, a, b) ==
  LET m == SchemeLength(s)
  IN  /\ a \in m .. b /\ b \in m .. Len(s)
      /\ \A k \in m + 1 .. b : s[k] \notin {"/", "?", "#"}
      /\ b < Len(s) => s[b + 1] \in {"/", "?", "#"}
      /\ \A k \in a + 1 .. b : s[k] # "@"
      /\ a > m => s[a] = "@"

\* The authority lies where IsAuthority says.
LEMMA AuthorityIs ==
  ASSUME NEW S, NEW s \in Seq(S)
  PROVE  \E b \in 0 .. Len(s) : \E a \in 0 .. b :
           IsAuthority(s, a, b) /\ Authority(s) = SubSeq(s, a + 1, b)
<1> DEFINE m == SchemeLength(s)
           C == {"/", "?", "#"}
           rest == SubSeq(s, m + 1, Len(s))
           whole == Before(rest, C)
<1>0. Len(s) \in Nat /\ m \in 0 .. Len(s)
  <2>1. Len(s) \in Nat
    OBVIOUS
  <2>2. IsScheme(s, m) => m \in 4 .. Len(s)
    BY DEF IsScheme
  <2> QED
    BY <2>1, <2>2, SchemeIs
<1> HIDE DEF m
<1>1. /\ rest \in Seq(S) /\ Len(rest) = Len(s) - m
      /\ \A k \in 1 .. Len(rest) : rest[k] = s[m + k]
  <2>1. \A k \in m + 1 .. Len(s) : s[k] \in S
    BY <1>0
  <2>2. /\ rest \in Seq(S) /\ Len(rest) = Len(s) - m
        /\ \A k \in 1 .. Len(s) - (m + 1) + 1 : rest[k] = s[(m + 1) + k - 1]
    BY <1>0, <2>1, SubSeqProperties
  <2>3. Len(s) - (m + 1) + 1 = Len(s) - m /\ \A k \in Int : (m + 1) + k - 1 = m + k
    BY <1>0
  <2> HIDE DEF rest
  <2>4. ASSUME NEW k \in 1 .. Len(rest) PROVE rest[k] = s[m + k]
    <3>1. k \in 1 .. Len(s) - (m + 1) + 1 /\ k \in Int
      BY <1>0, <2>2, <2>3
    <3>2. rest[k] = s[(m + 1) + k - 1]
      BY <2>2, <3>1
    <3> QED
      BY <2>3, <3>1, <3>2
  <2> QED
    BY <2>2, <2>4
<1>2. PICK n \in 0 .. Len(rest) :
        /\ whole = SubSeq(rest, 1, n) /\ \A k \in 1 .. n : rest[k] \notin C
        /\ n < Len(rest) => rest[n + 1] \in C
  <2> HIDE DEF rest, C
  <2> QED
    BY <1>1, BeforeIs
<1>3. whole \in Seq(S) /\ Len(whole) = n /\ \A k \in 1 .. n : whole[k] = rest[k]
  <2> HIDE DEF rest, C
  <2>1. \A k \in 1 .. n : rest[k] \in S
    BY <1>1
  <2>2. /\ SubSeq(rest, 1, n) \in Seq(S) /\ Len(SubSeq(rest, 1, n)) = n
        /\ \A k \in 1 .. n - 1 + 1 : SubSeq(rest, 1, n)[k] = rest[1 + k - 1]
    BY <1>1, <2>1, SubSeqProperties
  <2> QED
    BY <1>2, <2>2
<1>4. PICK l \in 0 .. Len(whole) :
        /\ AfterLast(whole, "@") = SubSeq(whole, l + 1, Len(whole))
        /\ \A k \in l + 1 .. Len(whole) : whole[k] # "@"
        /\ l > 0 => whole[l] = "@"
  <2> HIDE DEF whole
  <2> QED
    BY <1>3, AfterLastIs
<1>5. Authority(s) = SubSeq(whole, l + 1, n)
  BY <1>3, <1>4 DEF Authority, m
<1>6. Authority(s) = SubSeq(s, m + l + 1, m + n)
  <2>1. SubSeq(whole, l + 1, n) = SubSeq(rest, 1 + (l + 1) - 1, 1 + n - 1)
    <3> HIDE DEF rest, C, whole
    <3>1. 1 \in 1 .. Len(rest) + 1 /\ n \in 1 - 1 .. Len(rest) /\ l + 1 \in 1 .. n - 1 + 2 /\ n \in (l + 1) - 1 .. n - 1 + 1
      BY <1>0, <1>1, <1>3
    <3>2. SubSeq(SubSeq(rest, 1, n), l + 1, n) = SubSeq(rest, 1 + (l + 1) - 1, 1 + n - 1)
      BY <1>1, <3>1, PartOfPart
    <3> QED
      BY <1>2, <3>2
  <2>2. SubSeq(rest, l + 1, n) = SubSeq(s, (m + 1) + (l + 1) - 1, (m + 1) + n - 1)
    <3>1. m + 1 \in 1 .. Len(s) + 1 /\ Len(s) \in (m + 1) - 1 .. Len(s) /\ l + 1 \in 1 .. Len(s) - (m + 1) + 2 /\ n \in (l + 1) - 1 .. Len(s) - (m + 1) + 1
      <4> HIDE DEF rest, C, whole
      <4> QED
        BY <1>0, <1>1, <1>3
    <3>2. SubSeq(SubSeq(s, m + 1, Len(s)), l + 1, n) = SubSeq(s, (m + 1) + (l + 1) - 1, (m + 1) + n - 1)
      <4> HIDE DEF rest, C, whole
      <4> QED
        BY <1>0, <1>1, <1>3, <3>1, PartOfPart
    <3> QED
      BY <3>2
  <2>3. 1 + (l + 1) - 1 = l + 1 /\ 1 + n - 1 = n /\ (m + 1) + (l + 1) - 1 = m + l + 1 /\ (m + 1) + n - 1 = m + n
    <3> HIDE DEF rest, C, whole
    <3> QED
      BY <1>0, <1>1, <1>3
  <2> HIDE DEF rest, C, whole
  <2> QED
    BY <1>5, <2>1, <2>2, <2>3
<1> HIDE DEF rest, whole
<1>7. /\ m + l \in m .. m + n /\ m + n \in m .. Len(s)
      /\ \A k \in m + 1 .. m + n : s[k] \notin C
      /\ m + n < Len(s) => s[m + n + 1] \in C
      /\ \A k \in m + l + 1 .. m + n : s[k] # "@"
      /\ m + l > m => s[m + l] = "@"
  <2>1. m + l \in m .. m + n /\ m + n \in m .. Len(s)
    BY <1>0, <1>1, <1>3
  <2>2. \A k \in m + 1 .. Len(s) : k - m \in 1 .. Len(rest) /\ s[k] = rest[k - m]
    BY <1>0, <1>1
  <2>3. \A k \in m + 1 .. m + n : s[k] \notin C
    <3>1. \A k \in m + 1 .. m + n : k - m \in 1 .. n /\ k \in m + 1 .. Len(s)
      BY <1>0, <1>1
    <3> QED
      BY <1>2, <2>2, <3>1
  <2>4. m + n < Len(s) => s[m + n + 1] \in C
    <3>1. ASSUME m + n < Len(s) PROVE n < Len(rest) /\ m + n + 1 \in m + 1 .. Len(s) /\ (m + n + 1) - m = n + 1
      BY <1>0, <1>1, <3>1
    <3> QED
      BY <1>2, <2>2, <3>1
  <2>5. \A k \in m + l + 1 .. m + n : s[k] # "@"
    <3>1. \A k \in m + l + 1 .. m + n : k - m \in l + 1 .. n /\ k - m \in 1 .. n /\ k \in m + 1 .. Len(s)
      BY <1>0, <1>1, <1>3
    <3> QED
      BY <1>3, <1>4, <2>2, <3>1
  <2>6. m + l > m => s[m + l] = "@"
    <3>1. ASSUME m + l > m PROVE l > 0 /\ l \in 1 .. n /\ m + l \in m + 1 .. Len(s) /\ (m + l) - m = l
      BY <1>0, <1>1, <1>3, <3>1
    <3> QED
      BY <1>3, <1>4, <2>2, <3>1
  <2> QED
    BY <2>1, <2>3, <2>4, <2>5, <2>6
<1>8. IsAuthority(s, m + l, m + n)
  BY <1>7 DEF IsAuthority, m
<1>9. m + n \in 0 .. Len(s) /\ m + l \in 0 .. m + n
  BY <1>0, <1>7
<1> QED
  BY <1>6, <1>8, <1>9

\* There is one authority in an address.
LEMMA OneAuthority ==
  ASSUME NEW S, NEW s \in Seq(S), NEW a, NEW b, NEW c, NEW d, IsAuthority(s, a, b), IsAuthority(s, c, d)
  PROVE  a = c /\ b = d
<1> DEFINE m == SchemeLength(s)
           C == {"/", "?", "#"}
<1>0. Len(s) \in Nat /\ m \in Nat
  <2>1. IsScheme(s, m) => m \in Nat
    BY DEF IsScheme
  <2> QED
    BY <2>1, SchemeIs
<1>1. /\ a \in m .. b /\ b \in m .. Len(s) /\ \A k \in m + 1 .. b : s[k] \notin C
      /\ b < Len(s) => s[b + 1] \in C
      /\ \A k \in a + 1 .. b : s[k] # "@"
      /\ a > m => s[a] = "@"
  BY DEF IsAuthority
<1>2. /\ c \in m .. d /\ d \in m .. Len(s) /\ \A k \in m + 1 .. d : s[k] \notin C
      /\ d < Len(s) => s[d + 1] \in C
      /\ \A k \in c + 1 .. d : s[k] # "@"
      /\ c > m => s[c] = "@"
  BY DEF IsAuthority
<1> HIDE DEF m, C
<1>3. b = d
  <2>1. ~(b < d)
    BY <1>0, <1>1, <1>2
  <2>2. ~(d < b)
    BY <1>0, <1>1, <1>2
  <2> QED
    BY <1>0, <1>1, <1>2, <2>1, <2>2
<1>4. a = c
  <2>1. ~(a < c)
    BY <1>0, <1>1, <1>2, <1>3
  <2>2. ~(c < a)
    BY <1>0, <1>1, <1>2, <1>3
  <2> QED
    BY <1>0, <1>1, <1>2, <2>1, <2>2
<1> QED
  BY <1>3, <1>4

\* What is read of an authority holds nothing that the authority does not.
LEMMA HostWithin ==
  ASSUME NEW S, NEW a \in Seq(S), NEW hasScheme
  PROVE  Range(HostIn(a, hasScheme)) \subseteq Range(a)
<1> DEFINE B == {i \in DOMAIN a : a[i] \notin Digits} \cup {0}
           tail == Max(B)
           cut == Between(a, 1, tail)
<1>0. Len(a) \in Nat /\ DOMAIN a = 1 .. Len(a)
  OBVIOUS
<1>1. tail \in B
  <2>1. B \in SUBSET Int /\ B # {} /\ \A k \in B : k <= Len(a)
    BY <1>0
  <2>2. Len(a) \in Int
    BY <1>0
  <2> HIDE DEF B
  <2>3. PICK top \in Int : \A k \in B : k <= top
    BY <2>1, <2>2
  <2> QED
    BY <2>1, <2>3, MaxOf
<1>2. tail \in 0 .. Len(a)
  BY <1>0, <1>1
<1>3. HostIn(a, hasScheme) \in {<<>>, a} \/ (tail > 0 /\ HostIn(a, hasScheme) = cut)
  BY DEF HostIn
<1>4. tail > 0 => Range(cut) \subseteq Range(a)
  <2> SUFFICES ASSUME tail > 0 PROVE Range(cut) \subseteq Range(a)
    OBVIOUS
  <2> HIDE DEF tail
  <2>1. 1 \in 1 .. Len(a) + 1 /\ tail \in 1 .. Len(a) + 1
    BY <1>0, <1>2
  <2>2. cut \in Seq(S) /\ Len(cut) = tail - 1 /\ \A k \in 1 .. tail - 1 : cut[k] = a[1 + k - 1]
    BY <2>1, BetweenIs
  <2> HIDE DEF cut
  <2>3. DOMAIN cut = 1 .. tail - 1
    BY <2>2
  <2>4. \A k \in DOMAIN cut : 1 + k - 1 \in DOMAIN a /\ cut[k] = a[1 + k - 1]
    BY <1>0, <1>2, <2>2, <2>3
  <2> QED
    BY <2>4 DEF Range
<1>5. Range(<<>>) \subseteq Range(a)
  BY DEF Range
<1> HIDE DEF cut, tail
<1> QED
  BY <1>3, <1>4, <1>5

\* Taking out what stands before an at sign of the authority leaves its scheme and its
\* host as they are.
LEMMA CredentialsAside ==
  ASSUME NEW S, NEW s \in Seq(S), NEW i \in 1 .. Len(s), s[i] = "@",
         0 < SchemeLength(s), SchemeLength(s) < i,
         \A k \in SchemeLength(s) + 1 .. i : s[k] \notin {"/", "?", "#"}
  PROVE  LET t == SubSeq(s, 1, SchemeLength(s)) \o SubSeq(s, i + 1, Len(s))
         IN  SchemeLength(t) = SchemeLength(s) /\ Authority(t) = Authority(s)
<1> DEFINE m == SchemeLength(s)
           h == SubSeq(s, 1, m)
           g == SubSeq(s, i + 1, Len(s))
           t == h \o g
           d == i - m
           C == {"/", "?", "#"}
<1>0. Len(s) \in Nat /\ m \in 4 .. Len(s) /\ IsScheme(s, m) /\ i \in m + 1 .. Len(s)
  <2>1. IsScheme(s, m)
    BY SchemeIs
  <2>2. m \in 4 .. Len(s)
    BY <2>1 DEF IsScheme
  <2> HIDE DEF m
  <2> QED
    BY <2>1, <2>2 DEF m
<1>1. \A k \in m + 1 .. i : s[k] \notin C
  OBVIOUS
<1> HIDE DEF m
<1>d. d \in Nat \ {0} /\ i = m + d
  BY <1>0
<1>2. h \in Seq(S) /\ Len(h) = m /\ \A k \in 1 .. m : h[k] = s[k]
  <2>1. \A k \in 1 .. m : s[k] \in S
    BY <1>0
  <2>2. h \in Seq(S) /\ Len(h) = m /\ \A k \in 1 .. m - 1 + 1 : h[k] = s[1 + k - 1]
    BY <1>0, <2>1, SubSeqProperties
  <2> HIDE DEF h
  <2> QED
    BY <1>0, <2>2
<1>3. g \in Seq(S) /\ Len(g) = Len(s) - i /\ \A k \in 1 .. Len(g) : g[k] = s[i + k]
  <2>1. \A k \in i + 1 .. Len(s) : s[k] \in S
    BY <1>0
  <2>2. /\ g \in Seq(S) /\ Len(g) = Len(s) - i
        /\ \A k \in 1 .. Len(s) - (i + 1) + 1 : g[k] = s[(i + 1) + k - 1]
    BY <1>0, <2>1, SubSeqProperties
  <2> HIDE DEF g
  <2>3. ASSUME NEW k \in 1 .. Len(g) PROVE g[k] = s[i + k]
    <3>1. k \in 1 .. Len(s) - (i + 1) + 1 /\ (i + 1) + k - 1 = i + k
      BY <1>0, <2>2
    <3>2. g[k] = s[(i + 1) + k - 1]
      BY <2>2, <3>1
    <3> QED
      BY <3>1, <3>2
  <2> QED
    BY <2>2, <2>3
<1> HIDE DEF h, g
<1>4. /\ t \in Seq(S) /\ Len(t) = Len(s) - d
      /\ \A k \in 1 .. m : t[k] = s[k]
      /\ \A k \in m + 1 .. Len(t) : t[k] = s[k + d]
  <2>1. /\ t \in Seq(S) /\ Len(t) = Len(h) + Len(g)
        /\ \A k \in 1 .. Len(h) + Len(g) : t[k] = IF k <= Len(h) THEN h[k] ELSE g[k - Len(h)]
    BY <1>2, <1>3, ConcatProperties
  <2> HIDE DEF t
  <2>2. Len(t) = Len(s) - d /\ Len(t) = m + Len(g) /\ Len(g) \in Nat
    BY <1>0, <1>2, <1>3, <2>1
  <2>3. ASSUME NEW k \in 1 .. m PROVE t[k] = s[k]
    <3>1. k \in 1 .. Len(h) + Len(g) /\ k <= Len(h)
      BY <1>0, <1>2, <1>3, <2>2
    <3> QED
      BY <1>2, <2>1, <3>1
  <2>4. ASSUME NEW k \in m + 1 .. Len(t) PROVE t[k] = s[k + d]
    <3>1. k \in 1 .. Len(h) + Len(g) /\ ~(k <= Len(h)) /\ k - m \in 1 .. Len(g) /\ i + (k - m) = k + d
      BY <1>0, <1>2, <1>3, <2>2
    <3>2. t[k] = g[k - m]
      BY <1>2, <2>1, <3>1
    <3> QED
      BY <1>3, <3>1, <3>2
  <2> QED
    BY <2>1, <2>2, <2>3, <2>4
<1> HIDE DEF t, d
<1>5. SchemeLength(t) = m
  <2>1. m \in 4 .. Len(t)
    BY <1>0, <1>d, <1>4
  <2>2. \A k \in 1 .. m : At(t, k) = At(s, k)
    <3> TAKE k \in 1 .. m
    <3>1. k \in 1 .. Len(t) /\ k \in 1 .. Len(s)
      BY <1>0, <2>1
    <3> QED
      BY <1>4, <3>1, AtIs
  <2>3. IsScheme(t, m)
    <3>1. /\ At(s, 1) \in Letters /\ All(s, 2, m - 2, SchemeBytes)
          /\ At(s, m - 2) = ":" /\ At(s, m - 1) = "/" /\ At(s, m) = "/"
      BY <1>0 DEF IsScheme
    <3>2. 1 \in 1 .. m /\ m - 2 \in 1 .. m /\ m - 1 \in 1 .. m /\ m \in 1 .. m /\ 2 .. m - 2 - 1 \subseteq 1 .. m
      BY <1>0
    <3>3. All(t, 2, m - 2, SchemeBytes)
      BY <2>2, <3>1, <3>2 DEF All
    <3> QED
      BY <2>1, <2>2, <3>1, <3>2, <3>3 DEF IsScheme
  <2>4. SchemeLength(t) > 0 /\ IsScheme(t, SchemeLength(t))
    BY <1>4, <2>3, SchemeIs
  <2>5. ASSUME NEW x, NEW y, IsScheme(t, x), IsScheme(t, y) PROVE x = y
    <3>1. /\ x \in 4 .. Len(t) /\ y \in 4 .. Len(t)
          /\ \A k \in 2 .. x - 2 - 1 : At(t, k) \in SchemeBytes
          /\ \A k \in 2 .. y - 2 - 1 : At(t, k) \in SchemeBytes
          /\ At(t, x - 2) = ":" /\ At(t, y - 2) = ":"
      BY <2>5 DEF IsScheme, All
    <3>2. At(t, x - 2) \notin SchemeBytes /\ At(t, y - 2) \notin SchemeBytes
      BY <3>1, SchemeClass, Zenon
    <3>3. ~(x < y)
      <4>1. ASSUME x < y PROVE x - 2 \in 2 .. y - 2 - 1
        BY <3>1, <4>1
      <4> QED
        BY <3>1, <3>2, <4>1
    <3>4. ~(y < x)
      <4>1. ASSUME y < x PROVE y - 2 \in 2 .. x - 2 - 1
        BY <3>1, <4>1
      <4> QED
        BY <3>1, <3>2, <4>1
    <3> QED
      BY <3>1, <3>3, <3>4
  <2> QED
    BY <2>3, <2>4, <2>5
<1>6. PICK b \in 0 .. Len(s) : \E a \in 0 .. b : IsAuthority(s, a, b) /\ Authority(s) = SubSeq(s, a + 1, b)
  BY AuthorityIs
<1>7. PICK a \in 0 .. b : IsAuthority(s, a, b) /\ Authority(s) = SubSeq(s, a + 1, b)
  BY <1>6
<1>8. /\ a \in m .. b /\ b \in m .. Len(s) /\ \A k \in m + 1 .. b : s[k] \notin C
      /\ b < Len(s) => s[b + 1] \in C
      /\ \A k \in a + 1 .. b : s[k] # "@"
      /\ a > m => s[a] = "@"
  BY <1>7 DEF IsAuthority, m
<1> HIDE DEF C
<1>9. i <= b /\ i <= a
  <2>1. i <= b
    <3> SUFFICES ASSUME b < i PROVE FALSE
      BY <1>0, <1>8
    <3>1. b + 1 \in m + 1 .. i /\ b < Len(s)
      BY <1>0, <1>8
    <3> QED
      BY <1>1, <1>8, <3>1
  <2> QED
    BY <1>0, <1>8, <2>1
<1>10. IsAuthority(t, a - d, b - d)
  <2>1. a - d \in m .. b - d /\ b - d \in m .. Len(t)
    BY <1>0, <1>d, <1>4, <1>8, <1>9
  <2>2. \A k \in m + 1 .. b - d : t[k] \notin C
    <3> TAKE k \in m + 1 .. b - d
    <3>1. k \in m + 1 .. Len(t) /\ k + d \in m + 1 .. b
      BY <1>0, <1>d, <1>8, <2>1
    <3> QED
      BY <1>4, <1>8, <3>1
  <2>3. b - d < Len(t) => t[(b - d) + 1] \in C
    <3>1. ASSUME b - d < Len(t) PROVE b < Len(s) /\ (b - d) + 1 \in m + 1 .. Len(t) /\ ((b - d) + 1) + d = b + 1
      BY <1>0, <1>d, <1>4, <1>8, <2>1, <3>1
    <3> QED
      BY <1>4, <1>8, <3>1
  <2>4. \A k \in (a - d) + 1 .. b - d : t[k] # "@"
    <3> TAKE k \in (a - d) + 1 .. b - d
    <3>1. k \in m + 1 .. Len(t) /\ k + d \in a + 1 .. b
      BY <1>0, <1>d, <1>8, <2>1
    <3> QED
      BY <1>4, <1>8, <3>1
  <2>5. a - d > m => t[a - d] = "@"
    <3>1. ASSUME a - d > m PROVE a > m /\ a - d \in m + 1 .. Len(t) /\ (a - d) + d = a
      BY <1>0, <1>d, <1>8, <2>1, <3>1
    <3> QED
      BY <1>4, <1>8, <3>1
  <2> QED
    BY <1>5, <2>1, <2>2, <2>3, <2>4, <2>5 DEF IsAuthority, C
<1>11. Authority(t) = SubSeq(t, (a - d) + 1, b - d)
  <2>1. PICK y \in 0 .. Len(t) : \E x \in 0 .. y : IsAuthority(t, x, y) /\ Authority(t) = SubSeq(t, x + 1, y)
    BY <1>4, AuthorityIs
  <2>2. PICK x \in 0 .. y : IsAuthority(t, x, y) /\ Authority(t) = SubSeq(t, x + 1, y)
    BY <2>1
  <2>3. x = a - d /\ y = b - d
    BY <1>4, <1>10, <2>2, OneAuthority
  <2> QED
    BY <2>2, <2>3
<1>12. SubSeq(t, (a - d) + 1, b - d) = SubSeq(s, a + 1, b)
  <2> DEFINE u == SubSeq(t, (a - d) + 1, b - d)
             v == SubSeq(s, a + 1, b)
  <2>0. /\ (a - d) + 1 \in Int /\ b - d \in Int /\ a + 1 \in Int /\ b \in Int /\ b - a \in Nat
        /\ (a - d) + 1 >= 1 /\ b - d <= Len(t) /\ b <= Len(s) /\ a >= 0 /\ d \in Nat
        /\ (b - d) - ((a - d) + 1) + 1 = b - a /\ b - (a + 1) + 1 = b - a /\ a - d >= m /\ m \in Nat
    BY <1>0, <1>d, <1>4, <1>8, <1>9
  <2>1. \A k \in (a - d) + 1 .. b - d : t[k] \in S
    BY <1>4, <2>0
  <2>2. \A k \in a + 1 .. b : s[k] \in S
    BY <2>0
  <2>3. u \in Seq(S) /\ Len(u) = b - a /\ \A k \in 1 .. b - a : u[k] = t[((a - d) + 1) + k - 1]
    <3>1. /\ u \in Seq(S) /\ Len(u) = IF (a - d) + 1 <= b - d THEN (b - d) - ((a - d) + 1) + 1 ELSE 0
          /\ \A k \in 1 .. (b - d) - ((a - d) + 1) + 1 : u[k] = t[((a - d) + 1) + k - 1]
      BY <2>0, <2>1, SubSeqProperties
    <3> HIDE DEF u
    <3> QED
      BY <2>0, <3>1
  <2>4. v \in Seq(S) /\ Len(v) = b - a /\ \A k \in 1 .. b - a : v[k] = s[(a + 1) + k - 1]
    <3>1. /\ v \in Seq(S) /\ Len(v) = IF a + 1 <= b THEN b - (a + 1) + 1 ELSE 0
          /\ \A k \in 1 .. b - (a + 1) + 1 : v[k] = s[(a + 1) + k - 1]
      BY <2>0, <2>2, SubSeqProperties
    <3> HIDE DEF v
    <3> QED
      BY <2>0, <3>1
  <2> HIDE DEF u, v
  <2>5. ASSUME NEW k \in 1 .. b - a PROVE u[k] = v[k]
    <3>1. /\ ((a - d) + 1) + k - 1 \in m + 1 .. Len(t)
          /\ (((a - d) + 1) + k - 1) + d = (a + 1) + k - 1
      BY <2>0
    <3> QED
      BY <1>4, <2>3, <2>4, <3>1
  <2>6. u = v
    BY <2>0, <2>3, <2>4, <2>5
  <2> QED
    BY <2>6 DEF u, v
<1> QED
  BY <1>5, <1>7, <1>11, <1>12 DEF t, h, g, m

\* An address shows its host alone, however it is written (strict_privacy.cpp's host_of()):
\* nothing of its path, its query or its credentials, and no other host for having them.
THEOREM HostsAreBare ==
  ASSUME NEW S, NEW s \in Seq(S)
  PROVE  HostIsBare(s)
<1> DEFINE m == SchemeLength(s)
           path == Find(s, m + 1, {"/", "?", "#"})
           bare(i) == SubSeq(s, 1, m) \o SubSeq(s, i + 1, Len(s))
<1>0. Len(s) \in Nat /\ m \in Nat /\ DOMAIN s = 1 .. Len(s)
  <2>1. IsScheme(s, m) => m \in Nat
    BY DEF IsScheme
  <2> QED
    BY <2>1, SchemeIs
<1>1. Range(HostOf(s)) \cap {"/", "?", "#", "@"} = {}
  <2>1. PICK b \in 0 .. Len(s) : \E a \in 0 .. b : IsAuthority(s, a, b) /\ Authority(s) = SubSeq(s, a + 1, b)
    BY AuthorityIs
  <2>2. PICK a \in 0 .. b : IsAuthority(s, a, b) /\ Authority(s) = SubSeq(s, a + 1, b)
    BY <2>1
  <2> DEFINE A == Authority(s)
  <2>3. /\ A \in Seq(S) /\ \A k \in DOMAIN A : k + a \in a + 1 .. b /\ A[k] = s[k + a]
    <3>1. \A k \in a + 1 .. b : s[k] \in S
      BY <1>0
    <3>2. /\ A \in Seq(S) /\ Len(A) = IF a + 1 <= b THEN b - (a + 1) + 1 ELSE 0
          /\ \A k \in 1 .. b - (a + 1) + 1 : A[k] = s[(a + 1) + k - 1]
      BY <1>0, <2>2, <3>1, SubSeqProperties
    <3> HIDE DEF A
    <3>3. \A k \in DOMAIN A : k \in 1 .. b - (a + 1) + 1 /\ k + a \in a + 1 .. b /\ (a + 1) + k - 1 = k + a
      BY <1>0, <3>2
    <3> QED
      BY <3>2, <3>3
  <2> HIDE DEF A
  <2>4. \A k \in DOMAIN A : A[k] \notin {"/", "?", "#"} /\ A[k] # "@"
    <3>1. \A k \in a + 1 .. b : k \in m + 1 .. b
      BY <1>0, <2>2 DEF IsAuthority
    <3>2. \A k \in a + 1 .. b : s[k] \notin {"/", "?", "#"} /\ s[k] # "@"
      <4> HIDE DEF m
      <4> QED
        BY <2>2, <3>1 DEF IsAuthority, m
    <3> QED
      BY <2>3, <3>2
  <2>5. Range(HostOf(s)) \subseteq Range(A)
    BY <2>3, HostWithin DEF HostOf, A
  <2> QED
    BY <2>4, <2>5 DEF Range
<1>2. ASSUME NEW i \in DOMAIN s, s[i] = "@" /\ 0 < m /\ m < i /\ (path = 0 \/ i < path)
      PROVE  HostOf(bare(i)) = HostOf(s)
  <2>1. \A k \in m + 1 .. i : s[k] \notin {"/", "?", "#"}
    <3>0. m + 1 \in Nat \ {0}
      BY <1>0
    <3> HIDE DEF m
    <3>1. \/ path \in m + 1 .. Len(s) /\ \A k \in m + 1 .. path - 1 : s[k] \notin {"/", "?", "#"}
          \/ path = 0 /\ \A k \in m + 1 .. Len(s) : s[k] \notin {"/", "?", "#"}
      BY <3>0, FindIs
    <3> HIDE DEF path
    <3> QED
      BY <1>0, <1>2, <3>1
  <2>2. SchemeLength(bare(i)) = m /\ Authority(bare(i)) = Authority(s)
    BY <1>0, <1>2, <2>1, CredentialsAside
  <2> HIDE DEF bare
  <2> QED
    BY <2>2 DEF HostOf
<1> QED
  BY <1>1, <1>2 DEF HostIsBare

-----------------------------------------------------------------------------
(* Parts of a text, between the bytes that part them *)

\* The places of a text in a class, in order, up to one.
IsRising(p, s, c, k) ==
  /\ p \in Seq(1 .. k)
  /\ \A a, b \in 1 .. Len(p) : a < b => p[a] < p[b]
  /\ \A i \in 1 .. k : s[i] = c <=> \E a \in 1 .. Len(p) : p[a] = i

LEMMA RisingOn ==
  ASSUME NEW p, NEW s, NEW c, NEW k \in Nat \ {0}, IsRising(p, s, c, k - 1)
  PROVE  IsRising(IF s[k] = c THEN Append(p, k) ELSE p, s, c, k)
<1>1. /\ p \in Seq(1 .. k - 1) /\ Len(p) \in Nat
      /\ \A a, b \in 1 .. Len(p) : a < b => p[a] < p[b]
      /\ \A i \in 1 .. k - 1 : s[i] = c <=> \E a \in 1 .. Len(p) : p[a] = i
  BY DEF IsRising
<1>2. p \in Seq(1 .. k) /\ \A a \in 1 .. Len(p) : p[a] \in 1 .. k - 1
  <2>1. 1 .. k - 1 \subseteq 1 .. k
    OBVIOUS
  <2> QED
    BY <1>1, <2>1
<1>3. CASE s[k] # c
  <2>1. \A i \in 1 .. k : s[i] = c <=> \E a \in 1 .. Len(p) : p[a] = i
    <3> TAKE i \in 1 .. k
    <3>1. CASE i = k
      BY <1>2, <1>3, <3>1
    <3>2. CASE i \in 1 .. k - 1
      BY <1>1, <3>2
    <3> QED
      BY <3>1, <3>2
  <2> QED
    BY <1>1, <1>2, <1>3, <2>1 DEF IsRising
<1>4. CASE s[k] = c
  <2> DEFINE q == Append(p, k)
  <2>1. /\ q \in Seq(1 .. k) /\ Len(q) = Len(p) + 1
        /\ \A a \in 1 .. Len(p) : q[a] = p[a]
        /\ q[Len(p) + 1] = k
    <3>1. k \in 1 .. k
      OBVIOUS
    <3> QED
      BY <1>2, <3>1, AppendProperties
  <2> HIDE DEF q
  <2>2. \A a, b \in 1 .. Len(q) : a < b => q[a] < q[b]
    <3> TAKE a, b \in 1 .. Len(q)
    <3> HAVE a < b
    <3>1. a \in 1 .. Len(p) /\ q[a] = p[a]
      BY <1>1, <2>1
    <3>2. CASE b = Len(p) + 1
      BY <1>1, <1>2, <2>1, <3>1, <3>2
    <3>3. CASE b \in 1 .. Len(p)
      BY <1>1, <2>1, <3>1, <3>3
    <3>4. b = Len(p) + 1 \/ b \in 1 .. Len(p)
      BY <1>1, <2>1
    <3> QED
      BY <3>2, <3>3, <3>4
  <2>3. \A i \in 1 .. k : s[i] = c <=> \E a \in 1 .. Len(q) : q[a] = i
    <3> TAKE i \in 1 .. k
    <3>1. CASE i = k
      <4>1. Len(p) + 1 \in 1 .. Len(q)
        BY <1>1, <2>1
      <4> QED
        BY <1>4, <2>1, <3>1, <4>1
    <3>2. CASE i \in 1 .. k - 1
      <4>1. (\E a \in 1 .. Len(q) : q[a] = i) <=> \E a \in 1 .. Len(p) : p[a] = i
        <5>1. \A a \in 1 .. Len(p) : a \in 1 .. Len(q)
          BY <1>1, <2>1
        <5>2. \A a \in 1 .. Len(q) : a \in 1 .. Len(p) \/ a = Len(p) + 1
          BY <1>1, <2>1
        <5>3. i # k
          BY <3>2
        <5> QED
          BY <2>1, <5>1, <5>2, <5>3
      <4> QED
        BY <1>1, <3>2, <4>1
    <3> QED
      BY <3>1, <3>2
  <2> QED
    BY <1>4, <2>1, <2>2, <2>3 DEF IsRising, q
<1> QED
  BY <1>3, <1>4

\* The places of a byte rise, and are all of them.
LEMMA PlacesRise ==
  ASSUME NEW S, NEW s \in Seq(S), NEW c
  PROVE  IsRising(Places(s, c), s, c, Len(s))
<1> DEFINE n == Len(s)
           x == [i \in DOMAIN s |-> i]
           C == {i \in DOMAIN s : s[i] = c}
           f == Taking(x, C)
           P == {k \in 0 .. n : IsRising(f[k], s, c, k)}
<1>0. n \in Nat /\ DOMAIN s = 1 .. n
  OBVIOUS
<1>1. x \in Seq(Nat) /\ Len(x) = n /\ \A k \in 1 .. n : x[k] = k
  BY <1>0
<1> HIDE DEF x
<1>2. Places(s, c) = f[n] /\ IsTaking(f, x, C)
  <2>1. Places(s, c) = Only(x, C)
    BY DEF Places, x
  <2> HIDE DEF C
  <2> QED
    BY <1>1, <2>1, TakingStep
<1> HIDE DEF f
<1>3. f[0] = <<>> /\ \A k \in 1 .. n : f[k] = IF x[k] \in C THEN Append(f[k - 1], x[k]) ELSE f[k - 1]
  <2> HIDE DEF C
  <2> QED
    BY <1>0, <1>1, <1>2, TakingEach
<1>4. 0 \in P
  <2>1. f[0] \in Seq(1 .. 0) /\ Len(f[0]) = 0
    BY <1>3
  <2>2. IsRising(f[0], s, c, 0)
    BY <2>1 DEF IsRising
  <2> QED
    BY <1>0, <2>2
<1>5. ASSUME NEW k \in 1 .. n, k - 1 \in P PROVE k \in P
  <2>1. k \in Nat \ {0} /\ IsRising(f[k - 1], s, c, k - 1)
    BY <1>5
  <2>2. IsRising(IF s[k] = c THEN Append(f[k - 1], k) ELSE f[k - 1], s, c, k)
    BY <2>1, RisingOn
  <2>3. f[k] = IF s[k] = c THEN Append(f[k - 1], k) ELSE f[k - 1]
    BY <1>0, <1>1, <1>3
  <2>4. IsRising(f[k], s, c, k)
    BY <2>2, <2>3
  <2> QED
    BY <1>0, <2>4
<1>6. \A k \in 0 .. n : k \in P
  <2> HIDE DEF P, n
  <2> QED
    BY <1>0, <1>4, <1>5, UpTo
<1> QED
  BY <1>0, <1>2, <1>6

\* Where a text is split: before its first byte, at every c, and behind its last byte.
IsCut(at, n, s, c) ==
  /\ n \in Nat \ {0} /\ at[1] = 0 /\ at[n + 1] = Len(s) + 1
  /\ \A k \in 1 .. n + 1 : at[k] \in 0 .. Len(s) + 1
  /\ \A a, b \in 1 .. n + 1 : a < b => at[a] < at[b]
  /\ \A k \in 2 .. n : s[at[k]] = c
  /\ \A i \in 1 .. Len(s) : s[i] = c => \E k \in 2 .. n : at[k] = i

IsSplit(at, n, s, c) ==
  /\ IsCut(at, n, s, c) /\ Len(Split(s, c)) = n
  /\ \A k \in 1 .. n : Split(s, c)[k] = Between(s, at[k] + 1, at[k + 1])

\* What Split makes of a text: parts, each from one place to the next.
LEMMA SplitIs ==
  ASSUME NEW S, NEW s \in Seq(S), NEW c
  PROVE  Split(s, c) \in Seq(Seq(S)) /\ \E n, at : IsSplit(at, n, s, c)
<1> DEFINE p == Places(s, c)
           m == Len(p)
           at == <<0>> \o p \o <<Len(s) + 1>>
           n == m + 1
<1>0. /\ Len(s) \in Nat /\ m \in Nat /\ p \in Seq(1 .. Len(s))
      /\ \A a, b \in 1 .. m : a < b => p[a] < p[b]
      /\ \A i \in 1 .. Len(s) : s[i] = c <=> \E a \in 1 .. m : p[a] = i
  BY PlacesRise DEF IsRising
<1> HIDE DEF p
<1>1. /\ at \in Seq(Nat) /\ Len(at) = n + 1 /\ at[1] = 0 /\ at[n + 1] = Len(s) + 1
      /\ \A k \in 1 .. m : at[k + 1] = p[k]
  <2> DEFINE x == <<0>> \o p
             z == <<Len(s) + 1>>
  <2>1. p \in Seq(Nat) /\ <<0>> \in Seq(Nat) /\ Len(<<0>>) = 1 /\ <<0>>[1] = 0
    BY <1>0
  <2>2. /\ x \in Seq(Nat) /\ Len(x) = m + 1
        /\ \A k \in 1 .. m + 1 : x[k] = IF k <= 1 THEN 0 ELSE p[k - 1]
    <3>1. /\ x \in Seq(Nat) /\ Len(x) = 1 + m
          /\ \A k \in 1 .. 1 + m : x[k] = IF k <= 1 THEN <<0>>[k] ELSE p[k - 1]
      BY <2>1, ConcatProperties
    <3> HIDE DEF x
    <3>2. 1 + m = m + 1 /\ \A k \in 1 .. m + 1 : k <= 1 => k = 1
      BY <1>0
    <3> QED
      BY <2>1, <3>1, <3>2
  <2>3. z \in Seq(Nat) /\ Len(z) = 1 /\ z[1] = Len(s) + 1
    BY <1>0
  <2> HIDE DEF x, z
  <2>4. /\ at \in Seq(Nat) /\ Len(at) = (m + 1) + 1
        /\ \A k \in 1 .. (m + 1) + 1 : at[k] = IF k <= m + 1 THEN x[k] ELSE z[k - (m + 1)]
    BY <2>2, <2>3, ConcatProperties DEF x, z
  <2> HIDE DEF at
  <2>5. at[1] = 0 /\ at[n + 1] = Len(s) + 1
    <3>1. 1 \in 1 .. (m + 1) + 1 /\ 1 <= m + 1 /\ n + 1 \in 1 .. (m + 1) + 1 /\ ~(n + 1 <= m + 1) /\ (n + 1) - (m + 1) = 1 /\ 1 \in 1 .. m + 1
      BY <1>0
    <3>2. at[1] = x[1] /\ x[1] = 0
      BY <2>2, <2>4, <3>1
    <3>3. at[n + 1] = z[(n + 1) - (m + 1)]
      <4> HIDE DEF n
      <4> QED
        BY <2>4, <3>1
    <3> HIDE DEF n
    <3> QED
      BY <2>3, <3>1, <3>2, <3>3
  <2>6. ASSUME NEW k \in 1 .. m PROVE at[k + 1] = p[k]
    <3>1. k + 1 \in 1 .. (m + 1) + 1 /\ k + 1 <= m + 1 /\ ~(k + 1 <= 1) /\ (k + 1) - 1 = k /\ k + 1 \in 1 .. m + 1
      BY <1>0
    <3> QED
      BY <2>2, <2>4, <3>1
  <2> QED
    BY <2>4, <2>5, <2>6
<1> HIDE DEF at
<1>2. /\ n \in Nat \ {0} /\ n = m + 1 /\ \A k \in 1 .. n + 1 : k = 1 \/ k = n + 1 \/ (k - 1 \in 1 .. m /\ at[k] = p[k - 1])
  <2>1. n \in Nat \ {0}
    BY <1>0
  <2>2. ASSUME NEW k \in 1 .. n + 1, k # 1, k # n + 1 PROVE k - 1 \in 1 .. m /\ at[k] = p[k - 1]
    <3>1. k - 1 \in 1 .. m /\ (k - 1) + 1 = k
      BY <1>0, <2>2
    <3> QED
      BY <1>1, <3>1
  <2> QED
    BY <2>1, <2>2
<1> HIDE DEF n
<1>3. \A k \in 1 .. m : p[k] \in 1 .. Len(s)
  BY <1>0
<1>4. \A k \in 1 .. n + 1 : at[k] \in 0 .. Len(s) + 1
  <2> TAKE k \in 1 .. n + 1
  <2>1. k = 1 \/ k = n + 1 \/ at[k] \in 1 .. Len(s)
    BY <1>2, <1>3
  <2> QED
    BY <1>0, <1>1, <2>1
<1>5. \A a, b \in 1 .. n + 1 : a < b => at[a] < at[b]
  <2> TAKE a, b \in 1 .. n + 1
  <2> HAVE a < b
  <2>1. a = 1 \/ (a - 1 \in 1 .. m /\ at[a] = p[a - 1])
    BY <1>0, <1>2
  <2>2. b = n + 1 \/ (b - 1 \in 1 .. m /\ at[b] = p[b - 1])
    BY <1>0, <1>2
  <2>3. a = 1 => at[a] = 0
    BY <1>1
  <2>4. b = n + 1 => at[b] = Len(s) + 1
    BY <1>1
  <2>5. CASE a = 1
    <3>1. b = n + 1 \/ at[b] \in 1 .. Len(s)
      BY <1>3, <2>2
    <3> QED
      BY <1>0, <2>3, <2>4, <2>5, <3>1
  <2>6. CASE a - 1 \in 1 .. m /\ at[a] = p[a - 1]
    <3>1. CASE b = n + 1
      <4>1. at[a] \in 1 .. Len(s)
        BY <1>3, <2>6
      <4> QED
        BY <1>0, <2>4, <3>1, <4>1
    <3>2. CASE b - 1 \in 1 .. m /\ at[b] = p[b - 1]
      <4>1. a - 1 < b - 1
        BY <1>2
      <4> QED
        BY <1>0, <2>6, <3>2, <4>1
    <3> QED
      BY <2>2, <3>1, <3>2
  <2> QED
    BY <2>1, <2>5, <2>6
<1>6. \A k \in 2 .. n : s[at[k]] = c
  <2> TAKE k \in 2 .. n
  <2>1. k - 1 \in 1 .. m /\ at[k] = p[k - 1]
    <3>1. k \in 1 .. n + 1 /\ k # 1 /\ k # n + 1
      BY <1>2
    <3> QED
      BY <1>2, <3>1
  <2> QED
    BY <1>0, <1>3, <2>1
<1>7. \A i \in 1 .. Len(s) : s[i] = c => \E k \in 2 .. n : at[k] = i
  <2> TAKE i \in 1 .. Len(s)
  <2> HAVE s[i] = c
  <2>1. PICK a \in 1 .. m : p[a] = i
    BY <1>0
  <2>2. a + 1 \in 2 .. n /\ at[a + 1] = i
    BY <1>0, <1>1, <1>2, <2>1, SMTT(30)
  <2> QED
    BY <2>2
<1>8. IsCut(at, n, s, c)
  BY <1>1, <1>2, <1>4, <1>5, <1>6, <1>7 DEF IsCut
<1>9. Split(s, c) = [k \in 1 .. n |-> Between(s, at[k] + 1, at[k + 1])]
  <2>1. Len(at) - 1 = n
    BY <1>1, <1>2
  <2> QED
    BY <2>1 DEF Split, at, p
<1>10. \A k \in 1 .. n : Between(s, at[k] + 1, at[k + 1]) \in Seq(S)
  <2> TAKE k \in 1 .. n
  <2>1. k \in 1 .. n + 1 /\ k + 1 \in 1 .. n + 1 /\ k < k + 1
    BY <1>2
  <2>2. at[k] + 1 \in 1 .. Len(s) + 1 /\ at[k + 1] \in at[k] + 1 .. Len(s) + 1
    BY <1>0, <1>4, <1>5, <2>1
  <2> QED
    BY <2>2, BetweenIs
<1> HIDE DEF n
<1>11. Split(s, c) \in Seq(Seq(S)) /\ Len(Split(s, c)) = n
  BY <1>2, <1>9, <1>10
<1>12. \A k \in 1 .. n : Split(s, c)[k] = Between(s, at[k] + 1, at[k + 1])
  BY <1>9
<1>13. IsSplit(at, n, s, c)
  BY <1>8, <1>11, <1>12 DEF IsSplit
<1> QED
  BY <1>11, <1>13

\* A text ends with another, from the place P on.
EndsWith(h, d, P) ==
  P \in Nat /\ Len(h) = P + Len(d) /\ \A q \in 1 .. Len(d) : h[P + q] = d[q]

\* Behind a c, a text is split as it would be alone.
GoesWith(at, n, bt, m, P, o) ==
  o \in 0 .. n - m /\ o + m = n /\ \A k \in 1 .. m + 1 : at[o + k] = P + bt[k]

LEMMA CutsBehind ==
  ASSUME NEW S, NEW h \in Seq(S), NEW d \in Seq(S), NEW c, NEW P, EndsWith(h, d, P),
         P = 0 \/ h[P] = c, NEW at, NEW n, IsCut(at, n, h, c), NEW bt, NEW m, IsCut(bt, m, d, c)
  PROVE  \E o : GoesWith(at, n, bt, m, P, o)
<1>0. /\ Len(h) \in Nat /\ Len(d) \in Nat /\ P \in Nat /\ Len(h) = P + Len(d)
      /\ \A q \in 1 .. Len(d) : h[P + q] = d[q]
  BY DEF EndsWith
<1>1. /\ n \in Nat \ {0} /\ at[1] = 0 /\ at[n + 1] = Len(h) + 1
      /\ \A k \in 1 .. n + 1 : at[k] \in 0 .. Len(h) + 1
      /\ \A a, b \in 1 .. n + 1 : a < b => at[a] < at[b]
      /\ \A k \in 2 .. n : h[at[k]] = c
      /\ \A i \in 1 .. Len(h) : h[i] = c => \E k \in 2 .. n : at[k] = i
  BY DEF IsCut
<1>2. /\ m \in Nat \ {0} /\ bt[1] = 0 /\ bt[m + 1] = Len(d) + 1
      /\ \A k \in 1 .. m + 1 : bt[k] \in 0 .. Len(d) + 1
      /\ \A a, b \in 1 .. m + 1 : a < b => bt[a] < bt[b]
      /\ \A k \in 2 .. m : d[bt[k]] = c
      /\ \A i \in 1 .. Len(d) : d[i] = c => \E k \in 2 .. m : bt[k] = i
  BY DEF IsCut
<1>3. PICK o \in 0 .. n - 1 : at[o + 1] = P
  <2>1. CASE P = 0
    <3>1. 0 \in 0 .. n - 1 /\ 0 + 1 = 1
      BY <1>1
    <3> QED
      BY <1>1, <2>1, <3>1
  <2>2. CASE P # 0
    <3>1. P \in 1 .. Len(h) /\ h[P] = c
      BY <1>0, <2>2
    <3>2. PICK k \in 2 .. n : at[k] = P
      BY <1>1, <3>1
    <3>3. k - 1 \in 0 .. n - 1 /\ (k - 1) + 1 = k
      BY <1>1
    <3> QED
      BY <3>2, <3>3
  <2> QED
    BY <2>1, <2>2
<1> DEFINE B == {k \in 0 .. m : o + k + 1 <= n + 1 /\ at[o + k + 1] = P + bt[k + 1]}
<1>4. 0 \in B
  <2>1. 0 \in 0 .. m /\ o + 0 + 1 = o + 1 /\ 0 + 1 = 1 /\ o + 1 <= n + 1
    BY <1>1, <1>2
  <2> QED
    BY <1>0, <1>2, <1>3, <2>1
<1>5. ASSUME NEW k \in 1 .. m, k - 1 \in B PROVE k \in B
  <2> DEFINE j == o + k
             x == at[j + 1]
             y == P + bt[k + 1]
  <2>0. j \in 1 .. n + 1 /\ at[j] = P + bt[k]
    <3>1. o + (k - 1) + 1 = j /\ (k - 1) + 1 = k
      BY <1>1, <1>2
    <3>2. o + (k - 1) + 1 <= n + 1 /\ at[o + (k - 1) + 1] = P + bt[(k - 1) + 1]
      BY <1>5
    <3> QED
      BY <1>1, <1>2, <3>1, <3>2
  <2>1. /\ k \in 1 .. m + 1 /\ k + 1 \in 1 .. m + 1 /\ k < k + 1 /\ bt[k] < bt[k + 1]
        /\ bt[k] \in 0 .. Len(d) + 1 /\ bt[k + 1] \in 0 .. Len(d) + 1
    <3>1. k \in 1 .. m + 1 /\ k + 1 \in 1 .. m + 1 /\ k < k + 1
      BY <1>2
    <3> QED
      BY <1>2, <3>1
  <2>2. j + 1 \in 1 .. n + 1
    <3> SUFFICES ASSUME j = n + 1 PROVE FALSE
      BY <1>1, <2>0
    <3>1. P + bt[k] = Len(h) + 1
      BY <1>1, <2>0
    <3> QED
      BY <1>0, <2>1, <3>1
  <2>3. x \in 0 .. Len(h) + 1 /\ at[j] < x
    <3>1. j < j + 1
      BY <2>0
    <3> QED
      BY <1>1, <2>0, <2>2, <3>1
  <2>4. y \in Nat /\ y <= Len(h) + 1 /\ at[j] < y
    BY <1>0, <2>0, <2>1, SMTT(30)
  <2>7. o + k + 1 = j + 1 /\ k \in 0 .. m /\ x = at[j + 1] /\ y = P + bt[k + 1]
    BY <1>1, <1>2
  <2> HIDE DEF x, y, j
  <2>5. ~(x < y)
    <3> SUFFICES ASSUME x < y PROVE FALSE
      OBVIOUS
    <3>1. j + 1 # n + 1
      BY <1>0, <1>1, <2>3, <2>4, <2>7
    <3>2. j + 1 \in 2 .. n
      BY <1>1, <2>0, <2>2, <3>1
    <3>3. h[x] = c
      BY <1>1, <2>7, <3>2
    <3>4. x - P \in 1 .. Len(d) /\ P + (x - P) = x
      <4>1. x \in Int /\ P < x /\ x < Len(h) + 1
        BY <1>0, <2>0, <2>1, <2>3, <2>4
      <4> QED
        BY <1>0, <4>1
    <3>5. d[x - P] = c
      BY <1>0, <3>3, <3>4
    <3>6. PICK z \in 2 .. m : bt[z] = x - P
      BY <1>2, <3>4, <3>5
    <3>7. z \in 1 .. m + 1 /\ bt[k] < bt[z] /\ bt[z] < bt[k + 1]
      <4>1. z \in 1 .. m + 1
        BY <1>2
      <4> QED
        <5>1. x \in Int /\ bt[k] \in Int /\ bt[k + 1] \in Int /\ P + bt[k] < x /\ x < P + bt[k + 1]
          BY <2>0, <2>1, <2>3, <2>7
        <5>2. bt[k] < x - P /\ x - P < bt[k + 1]
          BY <1>0, <5>1
        <5> QED
          BY <3>6, <4>1, <5>2
    <3>8. ~(z < k) /\ z # k /\ ~(z > k + 1) /\ z # k + 1
      <4>1. ~(z < k)
        <5>1. z < k => bt[z] < bt[k]
          BY <1>2, <2>1, <3>7
        <5> QED
          BY <1>2, <2>1, <3>7, <5>1
      <4>2. ~(z > k + 1)
        <5>1. k + 1 < z => bt[k + 1] < bt[z]
          BY <1>2, <2>1, <3>7
        <5> QED
          BY <1>2, <2>1, <3>7, <5>1
      <4>3. z # k /\ z # k + 1
        BY <2>1, <3>7
      <4> QED
        BY <4>1, <4>2, <4>3
    <3> QED
      BY <1>2, <2>1, <3>7, <3>8
  <2>6. ~(y < x)
    <3> SUFFICES ASSUME y < x PROVE FALSE
      OBVIOUS
    <3>1. bt[k + 1] # Len(d) + 1
      BY <1>0, <2>3, <2>4, <2>7
    <3>2. k + 1 \in 2 .. m
      <4>1. k + 1 # m + 1
        BY <1>2, <3>1
      <4> QED
        BY <1>2, <2>1, <4>1
    <3>3. bt[k + 1] \in 1 .. Len(d) /\ d[bt[k + 1]] = c
      BY <1>0, <1>2, <2>1, <3>1, <3>2, SMTT(30)
    <3>4. y \in 1 .. Len(h) /\ h[y] = c
      BY <1>0, <2>7, <3>3
    <3>5. PICK z \in 2 .. n : at[z] = y
      BY <1>1, <3>4
    <3>7. z \in 1 .. n + 1 /\ at[j] < at[z] /\ at[z] < at[j + 1]
      BY <1>1, <2>4, <2>7, <3>5
    <3>8. ~(z < j) /\ z # j /\ ~(z > j + 1) /\ z # j + 1
      <4>0. at[j] \in 0 .. Len(h) + 1 /\ at[z] \in 0 .. Len(h) + 1 /\ at[j + 1] \in 0 .. Len(h) + 1
        BY <1>1, <2>0, <2>2, <3>7
      <4>1. ~(z < j)
        <5>1. z < j => at[z] < at[j]
          BY <1>1, <2>0, <3>7
        <5> QED
          BY <1>0, <3>7, <4>0, <5>1
      <4>2. ~(z > j + 1)
        <5>1. j + 1 < z => at[j + 1] < at[z]
          BY <1>1, <2>2, <3>7
        <5> QED
          BY <1>0, <3>7, <2>2, <4>0, <5>1
      <4>3. z # j /\ z # j + 1
        BY <1>0, <3>7, <4>0
      <4> QED
        BY <4>1, <4>2, <4>3
    <3> QED
      BY <1>1, <2>0, <3>7, <3>8
  <2>8. x = y
    BY <1>0, <2>3, <2>4, <2>5, <2>6
  <2>9. o + k + 1 <= n + 1 /\ at[o + k + 1] = P + bt[k + 1]
    <3>1. j + 1 <= n + 1
      BY <1>1, <2>2
    <3> QED
      BY <2>7, <2>8, <3>1
  <2> QED
    BY <2>7, <2>9
<1>6. \A k \in 0 .. m : k \in B
  <2> HIDE DEF B
  <2> QED
    BY <1>2, <1>4, <1>5, UpTo
<1>7. \A k \in 1 .. m + 1 : o + k <= n + 1 /\ at[o + k] = P + bt[k]
  <2> TAKE k \in 1 .. m + 1
  <2>1. k - 1 \in 0 .. m /\ o + (k - 1) + 1 = o + k /\ (k - 1) + 1 = k
    BY <1>1, <1>2
  <2>2. k - 1 \in B
    BY <1>6, <2>1
  <2>3. o + (k - 1) + 1 <= n + 1 /\ at[o + (k - 1) + 1] = P + bt[(k - 1) + 1]
    BY <2>2
  <2> QED
    BY <2>1, <2>3
<1>8. o + m = n
  <2>1. m + 1 \in 1 .. m + 1 /\ o + (m + 1) \in 1 .. n + 1 /\ at[o + (m + 1)] = Len(h) + 1
    <3>1. m + 1 \in 1 .. m + 1
      BY <1>2
    <3>2. o + (m + 1) <= n + 1 /\ at[o + (m + 1)] = P + bt[m + 1]
      BY <1>7, <3>1
    <3> QED
      BY <1>0, <1>1, <1>2, <3>1, <3>2
  <2>2. ~(o + (m + 1) < n + 1)
    <3>1. n + 1 \in 1 .. n + 1
      BY <1>1
    <3>2. o + (m + 1) < n + 1 => at[o + (m + 1)] < at[n + 1]
      BY <1>1, <2>1, <3>1
    <3> QED
      BY <1>0, <1>1, <2>1, <3>2
  <2> QED
    BY <1>1, <1>2, <2>1, <2>2
<1>9. o \in 0 .. n - m
  BY <1>1, <1>2, <1>8
<1>10. GoesWith(at, n, bt, m, P, o)
  BY <1>7, <1>8, <1>9 DEF GoesWith
<1> QED
  BY <1>10
=============================================================================
