----------------------------- MODULE PiiScrubber -----------------------------
(***************************************************************************)
(* pii_scrubber.cpp: IBANs and card numbers, found by hand where            *)
(* std::regex has no lookbehind, and values under a sensitive key.          *)
(*                                                                          *)
(* The eight std::regex patterns applied between the two are the library's  *)
(* and are not modelled.  The lengths of an IBAN and of a card number are   *)
(* constants, so that texts TLC can enumerate reach every one of the        *)
(* scanners' limits.                                                        *)
(***************************************************************************)
EXTENDS Text

CONSTANTS
  CompactMin, CompactMax,    \* [A-Z0-9]{11,30} after an IBAN's first four
  GroupSize,                 \* the 4 of (?: [A-Z0-9]{4}){2,7}
  GroupsMin, GroupsMax,      \* the 2 and the 7
  IbanMin, IbanMax,          \* 15 to 34 characters without the spaces
  CardMin, CardMax,          \* 13 to 19 digits
  CardPrefixes,              \* the networks' prefixes, as digit sequences
  SensitiveKeys              \* sensitive_keys(), normalised

ASSUME ScrubAssumption ==
  /\ {CompactMin, CompactMax, GroupSize, GroupsMin, GroupsMax, IbanMin, IbanMax,
      CardMin, CardMax} \subseteq Nat \ {0}
  /\ CardPrefixes \subseteq Seq(Digits)
  /\ SensitiveKeys \subseteq Seq(Lowers \cup Digits) \ {<<>>}

IbanBytes == Uppers \cup Digits

\* \b at i, some byte being before it.
IsWordBoundary(s, i) == (At(s, i - 1) \in Words) # (At(s, i) \in Words)

-----------------------------------------------------------------------------
(* IBANs *)

IsIbanGroup(s, i) == At(s, i) = Space /\ All(s, i + 1, i + 1 + GroupSize, IbanBytes)

\* The greatest n in low .. high that P holds of, or low - 1: a quantifier
\* that gives back one repetition at a time.
GivesBack(low, high, P(_)) == Max({n \in low .. high : P(n)} \cup {low - 1})

\* iban_candidate_end(): the compact branch first; then the groups, and the
\* shorter group behind each number of them.
IbanCandidateEnd(s, i) ==
  LET rest    == i + 4
      run     == Min({RunEnd(s, rest, IbanBytes) - rest, CompactMax})
      compact == GivesBack(CompactMin, run, LAMBDA k : IsWordBoundary(s, rest + k))
      after(g) == rest + (GroupSize + 1) * g
      groups  == Max({g \in 0 .. GroupsMax : \A h \in 0 .. g - 1 : IsIbanGroup(s, after(h))})
      tail(g) == IF At(s, after(g)) # Space THEN 0
                 ELSE GivesBack(1, Min({RunEnd(s, after(g) + 1, IbanBytes) - after(g) - 1, GroupSize}),
                                LAMBDA t : IsWordBoundary(s, after(g) + 1 + t))
      g       == GivesBack(GroupsMin, groups, LAMBDA n : tail(n) > 0 \/ IsWordBoundary(s, after(n)))
      starts  == /\ At(s, i - 1) \notin Words
                 /\ All(s, i, i + 2, Uppers) /\ All(s, i + 2, i + 4, Digits)
  IN  CASE starts /\ compact >= CompactMin -> rest + compact
        [] starts /\ compact < CompactMin /\ g >= GroupsMin ->
             IF tail(g) > 0 THEN after(g) + 1 + tail(g) ELSE after(g)
        [] OTHER -> 0

\* A is 10, Z is 35.
LetterValue(c) == Rank(c, UpperOrder) + 10

\* is_iban(): the remainder by 97 of the number that the candidate spells
\* when its first four bytes come last, a decimal digit at a time.
IsIban(candidate) ==
  LET compact == SelectSeq(candidate, LAMBDA c : c # Space)
      moved   == [k \in DOMAIN compact |-> compact[((k + 3) % Len(compact)) + 1]]
      Take(r, n) == (r * 10 + n) % 97
      Read(r, c) == IF c \in Uppers
                      THEN Take(Take(r, LetterValue(c) \div 10), LetterValue(c) % 10)
                      ELSE Take(r, Rank(c, DigitOrder))
  IN  Len(compact) \in IbanMin .. IbanMax /\ FoldLeft(Read, 0, moved) = 1

\* scrub_ibans(): a candidate that fails the check is passed over whole.
ScrubIbans(s) ==
  Replace(s, LAMBDA i : IbanCandidateEnd(s, i),
          LAMBDA i, e : IF IsIban(Between(s, i, e)) THEN <<"[IBAN]">> ELSE Between(s, i, e))

-----------------------------------------------------------------------------
(* Card numbers *)

Separators == {Space, "-"}

\* is_card_number(): the length, a network's prefix, and the Luhn check.
IsCardNumber(digits) ==
  LET n == Len(digits)
      Luhn(k) == LET v == Rank(digits[n - k], DigitOrder) * ((k % 2) + 1)
                 IN  IF v > 9 THEN v - 9 ELSE v
  IN  /\ n \in CardMin .. CardMax
      /\ \E p \in CardPrefixes : IsPrefix(p, digits)
      /\ FoldLeft(+, 0, [k \in 1 .. n |-> Luhn(k - 1)]) % 10 = 0

\* scrub_card_numbers_in(): from the start of a group of digits, the longest
\* stretch of whole groups that is a card number.
CardEnd(run, i) ==
  LET ends == {j \in i + 1 .. Len(run) + 1 :
                 /\ At(run, j) \notin Digits
                 /\ IsCardNumber(Only(Between(run, i, j), Digits))}
  IN  IF At(run, i - 1) \in Digits \/ ends = {} THEN 0 ELSE Max(ends)

ScrubCardNumbersIn(run) == Replace(run, LAMBDA i : CardEnd(run, i), LAMBDA i, e : <<"[CARD]">>)

\* Mutant: nothing is given back of a run that a word character follows.
RunOfDigitsAllOrNothing(s, i) ==
  LET Joins(e) == At(s, e) \in Digits \/ (At(s, e) \in Separators /\ At(s, e + 1) \in Digits)
      full == Min({e \in i + 1 .. Len(s) + 1 : ~Joins(e)})
  IN  [end |-> full, isRun |-> At(s, full) \notin Words]

\* scrub_card_numbers(): digits joined by single separators.  A run that a
\* word character follows ends before its last separator; one without a
\* separator is no run, and is passed over whole.
RunOfDigits(s, i) ==
  LET Joins(e) == At(s, e) \in Digits \/ (At(s, e) \in Separators /\ At(s, e + 1) \in Digits)
      full == Min({e \in i + 1 .. Len(s) + 1 : ~Joins(e)})
      seps == {e \in i .. full - 1 : s[e] \in Separators}
  IN  CASE At(s, full) \notin Words -> [end |-> full, isRun |-> TRUE]
        [] At(s, full) \in Words /\ seps # {} -> [end |-> Max(seps), isRun |-> TRUE]
        [] OTHER -> [end |-> full, isRun |-> FALSE]

ScrubCardNumbers(s) ==
  Replace(s, LAMBDA i : IF s[i] \in Digits /\ At(s, i - 1) \notin Words
                          THEN RunOfDigits(s, i).end ELSE 0,
          LAMBDA i, e : IF RunOfDigits(s, i).isRun THEN ScrubCardNumbersIn(Between(s, i, e))
                                                   ELSE Between(s, i, e))

\* scrub_string(), the library's patterns aside: a spaced IBAN's groups look
\* like a card number, so IBANs come first.
ScrubString(s) == ScrubCardNumbers(ScrubIbans(s))

-----------------------------------------------------------------------------
(* Keys *)

IsSensitiveKey(key) ==
  LET normalized == Only(Lower(key), Lowers \cup Digits)
  IN  \E k \in SensitiveKeys, i \in DOMAIN normalized :
        SubSeq(normalized, i, Min({i + Len(k) - 1, Len(normalized)})) = k

\* scrub(): what becomes of the leaf at the end of a path of keys and array
\* elements.  An element has its array's key; what is under a sensitive key
\* is replaced as a whole, a null aside.
Element == <<"[]">>

KeysOf(path) ==
  LET key[k \in 0 .. Len(path)] ==
        IF k = 0 THEN <<>> ELSE IF path[k] = Element THEN key[k - 1] ELSE path[k]
  IN  key

ScrubLeaf(path, leaf) ==
  LET isHidden == \E k \in 0 .. Len(path) :
                    IsSensitiveKey(KeysOf(path)[k]) /\ (k < Len(path) \/ leaf # "null")
  IN  IF isHidden THEN "[FILTERED]" ELSE IF leaf = "string" THEN "scrubbed" ELSE leaf

-----------------------------------------------------------------------------
(* The patterns: sdks/PII_SCRUBBING.md's, as the comments quote them *)

IsCompactIban(s, i, j) ==
  /\ At(s, i - 1) \notin Words /\ All(s, i, i + 2, Uppers) /\ All(s, i + 2, i + 4, Digits)
  /\ j - (i + 4) \in CompactMin .. CompactMax /\ All(s, i + 4, j, IbanBytes)
  /\ IsWordBoundary(s, j)

IsSpacedIban(s, i, j) ==
  /\ At(s, i - 1) \notin Words /\ All(s, i, i + 2, Uppers) /\ All(s, i + 2, i + 4, Digits)
  /\ IsWordBoundary(s, j)
  /\ \E g \in GroupsMin .. GroupsMax :
       LET after(h) == i + 4 + (GroupSize + 1) * h
       IN  /\ \A h \in 0 .. g - 1 : IsIbanGroup(s, after(h))
           /\ \/ j = after(g)
              \/ /\ At(s, after(g)) = Space /\ j - after(g) \in 2 .. GroupSize + 1
                 /\ All(s, after(g) + 1, j, IbanBytes)

IsDigitRun(s, i, j) ==
  /\ At(s, i - 1) \notin Words /\ At(s, j) \notin Words
  /\ s[i] \in Digits /\ At(s, j - 1) \in Digits /\ All(s, i, j, Digits \cup Separators)
  /\ \A k \in i + 1 .. j - 1 : s[k] \in Separators => s[k - 1] \in Digits

\* The IBAN candidate at a position is the one a backtracking engine returns,
\* the compact branch before the spaced one.
FindsIbans(s) ==
  LET compact == Longest(s, LAMBDA i, j : IsCompactIban(s, i, j))
      spaced  == Longest(s, LAMBDA i, j : IsSpacedIban(s, i, j))
  IN  \A i \in DOMAIN s :
        IbanCandidateEnd(s, i) = IF compact[i] > 0 THEN compact[i] ELSE spaced[i]

\* A card number written as whole groups of digits.
IsCard(s, i, j) ==
  /\ At(s, i - 1) \notin Digits /\ At(s, j) \notin Digits
  /\ IsCardNumber(Only(Between(s, i, j), Digits))

\* The runs searched for card numbers are the pattern's, and from where a card
\* number starts the longest one is taken, so that none goes out in part.
FindsCards(s) ==
  ScrubCardNumbers(s) =
    ReplaceLongest(s, LAMBDA i, j : IsDigitRun(s, i, j),
      LAMBDA i, e : ReplaceLongest(Between(s, i, e),
                      LAMBDA a, b : IsCard(Between(s, i, e), a, b), LAMBDA a, b : <<"[CARD]">>))

\* Whichever whole groups of digits are joined of what is left, they are no
\* card number.
LeavesNoCard(s) ==
  LET out == ScrubCardNumbers(s)
  IN  \A i, j \in 1 .. Len(out) + 1 :
        i < j /\ IsDigitRun(out, i, j) =>
          ~IsCardNumber(Only(Between(out, i, j), Digits))

\* A key is recognised however its words are joined and capitalised.
KnowsKeys(key) ==
  LET plain == Only(key, Range(key) \ {"_", "-"})
  IN  /\ IsSensitiveKey(key) = IsSensitiveKey(plain)
      /\ plain \in SensitiveKeys => IsSensitiveKey(key)

\* What is under a sensitive key, however deep, does not go out.
HidesBelowKeys(path) ==
  (\E k \in DOMAIN path : IsSensitiveKey(path[k])) =>
     \A leaf \in {"string", "number"} : ScrubLeaf(path, leaf) = "[FILTERED]"
=============================================================================
