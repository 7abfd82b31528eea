-------------------------------- MODULE Text --------------------------------
(***************************************************************************)
(* Texts, as the scanners of sql_statement.cpp, strict_privacy.cpp and      *)
(* pii_scrubber.cpp read them: a text is a sequence of bytes, a byte is a   *)
(* string of one letter (a UTF-8 continuation byte is "+80"), and position  *)
(* 1 is the code's index 0.  Every scanner there is one loop: look for a    *)
(* match that starts here, put something in its place and go on after it,   *)
(* or else copy one byte.  That loop is Replace; what differs between the   *)
(* scanners is where a match ends, and a MatchEnd of 0 is "no match".       *)
(***************************************************************************)
EXTENDS Integers, Sequences, SequencesExt, FiniteSetsExt

DigitOrder == <<"0", "1", "2", "3", "4", "5", "6", "7", "8", "9">>

LowerOrder == <<"a", "b", "c", "d", "e", "f", "g", "h", "i", "j", "k", "l", "m",
                "n", "o", "p", "q", "r", "s", "t", "u", "v", "w", "x", "y", "z">>

UpperOrder == <<"A", "B", "C", "D", "E", "F", "G", "H", "I", "J", "K", "L", "M",
                "N", "O", "P", "Q", "R", "S", "T", "U", "V", "W", "X", "Y", "Z">>

Digits == Range(DigitOrder)
Lowers == Range(LowerOrder)
Uppers == Range(UpperOrder)

Letters == Lowers \cup Uppers

Words == Letters \cup Digits \cup {"_"}

Hexes == Digits \cup {"a", "b", "c", "d", "e", "f", "A", "B", "C", "D", "E", "F"}

Space  == " "
Blanks == {Space, "\t", "\r", "\n"}
Spaces == Blanks \cup {"\f"}

Continuations == {"+80"}

\* What stands off either end of a text.  No class of bytes holds it, so a test
\* that the code guards with a bounds check needs no guard here.
NoByte == "<end>"

\* The byte at i.
At(s, i) == IF i \in DOMAIN s THEN s[i] ELSE NoByte

\* The first position from i on that holds no byte of C.
RunEnd(s, i, C) == Min({j \in i .. i + Len(s) : At(s, j) \notin C})

\* The first position from i on that holds a byte of C, or 0.
Find(s, i, C) == LET found == {j \in i .. Len(s) : s[j] \in C}
                 IN  IF found = {} THEN 0 ELSE Min(found)

\* Where c stands in one of the orders above, counted from 0.
Rank(c, order) == (CHOOSE k \in DOMAIN order : order[k] = c) - 1

Lower(s) == [k \in DOMAIN s |->
               IF s[k] \in Uppers THEN LowerOrder[Rank(s[k], UpperOrder) + 1] ELSE s[k]]

Between(s, i, j) == SubSeq(s, i, j - 1)

\* The bytes of s that are in C, in their order.
Only(s, C) ==
  LET upTo[k \in 0 .. Len(s)] ==
        IF k = 0 THEN <<>> ELSE IF s[k] \in C THEN Append(upTo[k - 1], s[k]) ELSE upTo[k - 1]
  IN  upTo[Len(s)]

\* The bytes of s that are not in C, in their order.
Without(s, C) == Only(s, Range(s) \ C)

\* s without the bytes of C at either end.
Strip(s, C) == LET kept == {i \in DOMAIN s : s[i] \notin C}
               IN  IF kept = {} THEN <<>> ELSE SubSeq(s, Min(kept), Max(kept))

\* Where s has c, in order.
Places(s, c) == Only([i \in DOMAIN s |-> i], {i \in DOMAIN s : s[i] = c})

\* The parts of s between the bytes equal to c, empty ones included.
Split(s, c) ==
  LET at == <<0>> \o Places(s, c) \o <<Len(s) + 1>>
  IN  [k \in 1 .. Len(at) - 1 |-> Between(s, at[k] + 1, at[k + 1])]

\* What follows the last byte equal to c, or all of s.
AfterLast(s, c) == SubSeq(s, Max({i \in DOMAIN s : s[i] = c} \cup {0}) + 1, Len(s))

\* s from left to right, each match [i, MatchEnd(i)) replaced by By(i, its
\* end), every other byte kept.
Replace(s, MatchEnd(_), By(_, _)) ==
  LET from[i \in 1 .. Len(s) + 1] ==
        IF i > Len(s) THEN <<>>
        ELSE LET end == MatchEnd(i)
             IN  IF end = 0 THEN <<s[i]>> \o from[i + 1]
                            ELSE By(i, end) \o from[end]
  IN  from[1]

-----------------------------------------------------------------------------
(* For the properties: what a pattern says a scanner should find.  A pattern *)
(* is a relation between where a match starts and where it ends, stated     *)
(* without an order in which to look; an engine takes the leftmost match    *)
(* and, for the patterns here, the longest of those that start there.       *)

Longest(s, Match(_, _)) ==
  [i \in 1 .. Len(s) |->
     LET ends == {j \in i + 1 .. Len(s) + 1 : Match(i, j)}
     IN  IF ends = {} THEN 0 ELSE Max(ends)]

ReplaceLongest(s, Match(_, _), By(_, _)) ==
  LET end == Longest(s, Match) IN Replace(s, LAMBDA i : end[i], By)

All(s, i, j, C) == \A k \in i .. j - 1 : At(s, k) \in C
=============================================================================
