---------------------------- MODULE StrictPrivacy ----------------------------
(***************************************************************************)
(* strict_privacy.cpp: the message as it is fingerprinted, and the paths,   *)
(* span names and hosts that go out.  Its scanners were written by hand to  *)
(* match what the server's regular expressions match, each with shortcuts   *)
(* of its own (runs skipped, starts not tried); here is each scanner, and   *)
(* behind them the pattern it must agree with.                              *)
(*                                                                          *)
(* The SHA-256 over the normalised message is not modelled: a message's     *)
(* fingerprint is its normal form.  A replacement such as <email> is one    *)
(* byte of the result, which is sound because it begins and ends with a     *)
(* byte no scanner takes for a word, a digit or a quote.                    *)
(***************************************************************************)
EXTENDS Text

CONSTANTS HexIdDigits,      \* digits that make 0x... an id: 4
          UuidGroups,       \* lengths of a UUID's groups: <<8, 4, 4, 4, 12>>
          MaxSegmentLength, \* kMaxSegmentLength: characters of a path segment
          MinTld            \* letters of a top-level domain: 2

ASSUME StrictAssumption == /\ MinTld \in Nat /\ {HexIdDigits, MaxSegmentLength} \subseteq Nat \ {0}
                           /\ UuidGroups \in Seq(Nat \ {0}) \ {<<>>}

-----------------------------------------------------------------------------
(* The message *)

LocalPart == Letters \cup Digits \cup {".", "_", "%", "+", "-"}
Domain    == Letters \cup Digits \cup {".", "-"}

\* Mutant: a domain may begin with its dot.
EmailAtOneEarly(s, i) ==
  LET at     == RunEnd(s, i, LocalPart)
      dots   == {d \in at + 1 .. RunEnd(s, at + 1, Domain) - 1 :
                   s[d] = "." /\ RunEnd(s, d + 1, Letters) - (d + 1) >= MinTld}
  IN  IF at = i \/ At(s, at) # "@" \/ dots = {} THEN 0 ELSE RunEnd(s, Max(dots) + 1, Letters)

\* email_at(): the local part is the whole run before the "@"; the domain
\* gives bytes back until it ends in a dot and enough letters.
EmailAt(s, i) ==
  LET at     == RunEnd(s, i, LocalPart)
      dots   == {d \in at + 2 .. RunEnd(s, at + 1, Domain) - 1 :
                   s[d] = "." /\ RunEnd(s, d + 1, Letters) - (d + 1) >= MinTld}
  IN  IF at = i \/ At(s, at) # "@" \/ dots = {} THEN 0 ELSE RunEnd(s, Max(dots) + 1, Letters)

\* replace_emails(): where no email starts, none starts inside the run of
\* local-part bytes either, and the whole run is copied at once.
ReplaceEmails(s) ==
  LET end(i)  == IF EmailAt(s, i) > 0 THEN EmailAt(s, i) ELSE RunEnd(s, i, LocalPart)
      Skip(i) == IF s[i] \in LocalPart THEN end(i) ELSE 0
  IN  Replace(s, Skip, LAMBDA i, e : IF EmailAt(s, i) > 0 THEN <<"<email>">> ELSE Between(s, i, e))

\* replace_quoted(): an opener looks for the next quote or line end only.
QuotedRun(s, i, quote, atWordBoundary) ==
  LET end == Find(s, i + 1, {quote, "\r", "\n"})
  IN  IF /\ s[i] = quote /\ At(s, end) = quote
         /\ atWordBoundary => At(s, i - 1) \notin Words /\ At(s, end + 1) \notin Words
      THEN end + 1 ELSE 0

ReplaceQuoted(s, quote, atWordBoundary) ==
  Replace(s, LAMBDA i : QuotedRun(s, i, quote, atWordBoundary), LAMBDA i, e : <<"<str>">>)

HexIdEnd(s, i) ==
  LET end == RunEnd(s, i + 2, Hexes)
  IN  IF s[i] = "0" /\ At(s, i + 1) = "x" /\ end - (i + 2) >= HexIdDigits THEN end ELSE 0

ReplaceHexIds(s) == Replace(s, LAMBDA i : HexIdEnd(s, i), LAMBDA i, e : <<"0", "x">>)

\* How far from a UUID's first byte the byte after each group is: a dash, or
\* what follows the UUID.
GroupEnd ==
  LET end[k \in 0 .. Len(UuidGroups)] ==
        IF k = 0 THEN -1 ELSE end[k - 1] + 1 + UuidGroups[k]
  IN  end

UuidLength == GroupEnd[Len(UuidGroups)]

Dashes == {GroupEnd[k] : k \in 1 .. Len(UuidGroups) - 1}

UuidEnd(s, i) ==
  LET IsAt(offset) == IF offset \in Dashes THEN At(s, i + offset) = "-"
                                           ELSE At(s, i + offset) \in Hexes
  IN  IF /\ At(s, i - 1) \notin Words
         /\ \A offset \in 0 .. UuidLength - 1 : IsAt(offset)
         /\ At(s, i + UuidLength) \notin Words
      THEN i + UuidLength ELSE 0

ReplaceUuids(s) == Replace(s, LAMBDA i : UuidEnd(s, i), LAMBDA i, e : <<"<uuid>">>)

\* Mutant: of a run, the first digit is replaced.
NumberRunEndFirst(s, i) == IF s[i] \in Digits /\ At(s, i - 1) \notin Words THEN i + 1 ELSE 0

\* replace_numbers(): only the longest run from a free start is looked at.
NumberRunEnd(s, i) ==
  LET end == RunEnd(s, i, Digits)
  IN  IF s[i] \in Digits /\ At(s, i - 1) \notin Words /\ At(s, end) \notin Words THEN end ELSE 0

ReplaceNumbers(s) == Replace(s, LAMBDA i : NumberRunEnd(s, i), LAMBDA i, e : <<"<n>">>)

NormalizeMessage(s) ==
  ReplaceNumbers(ReplaceUuids(ReplaceHexIds(
    ReplaceQuoted(ReplaceQuoted(ReplaceEmails(s), "\"", FALSE), "'", TRUE))))

-----------------------------------------------------------------------------
(* Paths *)

\* The text up to the first byte of C.
Before(s, C) == Between(s, 1, IF Find(s, 1, C) = 0 THEN Len(s) + 1 ELSE Find(s, 1, C))

Segments(s) == Split(s, "/")

IsRouteParameter(g) ==
  LET n == Len(g)
  IN  /\ "\n" \notin Range(g)
      /\ \/ At(g, 1) = "*"
         \/ n >= 2 /\ g[1] = ":"
         \/ n >= 3 /\ <<g[1], g[n]>> \in {<<"{", "}">>, <<"<", ">">>, <<"[", "]">>}

CharacterCount(g) == Len(Without(g, Continuations))

\* Mutant: a segment of one character more is not too long.
IsIdOneLonger(g) ==
  (\E c \in Range(g) : c \in Digits) \/ CharacterCount(g) > MaxSegmentLength + 1

IsId(g) == (\E c \in Range(g) : c \in Digits) \/ CharacterCount(g) > MaxSegmentLength

\* ":id" and ":path" are one byte of the result each.
FirstSegment(p) ==
  LET named == Without(Segments(p), {<<>>})
      root  == IF At(p, 1) = "/" THEN <<"/">> ELSE <<>>
      isTemplate == \E g \in Range(Segments(p)) : IsRouteParameter(g)
  IN  CASE isTemplate -> p
        [] ~isTemplate /\ named = <<>> -> <<"/">>
        [] OTHER -> root \o (IF IsId(named[1]) THEN <<":id">> ELSE named[1])
                         \o (IF Len(named) > 1 THEN <<"/", ":path">> ELSE <<>>)

StrictPath(path) == FirstSegment(Before(path, {"?", "#"}))

-----------------------------------------------------------------------------
(* Addresses and span names *)

SchemeLength(s) ==
  LET i == RunEnd(s, 2, Letters \cup Digits \cup {"+", ".", "-"})
  IN  IF At(s, 1) \in Letters /\ At(s, i) = ":" /\ At(s, i + 1) = "/" /\ At(s, i + 2) = "/"
        THEN i + 2 ELSE 0

\* Mutant: the credentials end at the first "@".
AuthorityFirstAt(s) ==
  LET whole == Before(SubSeq(s, SchemeLength(s) + 1, Len(s)), {"/", "?", "#"})
      ats   == {i \in DOMAIN whole : whole[i] = "@"}
  IN  SubSeq(whole, (IF ats = {} THEN 0 ELSE Min(ats)) + 1, Len(whole))

\* The authority, without the credentials before its last "@".
Authority(s) ==
  AfterLast(Before(SubSeq(s, SchemeLength(s) + 1, Len(s)), {"/", "?", "#"}), "@")

\* Its host, without a port; empty unless something says that it is one.  The
\* word localhost, in any case, is one byte.
HostIn(a, hasScheme) ==
  LET tail   == Max({i \in DOMAIN a : a[i] \notin Digits} \cup {0})   \* before its last digits
      port   == tail > 0 /\ tail < Len(a) /\ a[tail] = ":"
      host   == IF port THEN Between(a, 1, tail) ELSE a
      isHost == hasScheme \/ port \/ "." \in Range(host) \/ host = <<"localhost">>
  IN  IF isHost THEN host ELSE <<>>

\* host_of()
HostOf(s) == HostIn(Authority(s), SchemeLength(s) > 0)

\* A method at the start of a name, in any case, is one byte.
Methods == {"GET", "POST", "PUT", "PATCH", "DELETE", "HEAD", "OPTIONS"}

Shown(target) ==
  IF target[1] # "/" /\ HostOf(target) # <<>> THEN HostOf(target) ELSE StrictPath(target)

SpanName(name) ==
  LET start  == RunEnd(name, 2, Spaces)
      target == Before(SubSeq(name, start, Len(name)), Spaces)
  IN  CASE At(name, 1) = "/" -> StrictPath(name)
        [] At(name, 1) \in Methods /\ start \in 3 .. Len(name) -> <<name[1], " ">> \o Shown(target)
        [] OTHER -> name

\* transaction_name()
TransactionName(name) == IF Range(name) \subseteq Spaces THEN name ELSE SpanName(name)

-----------------------------------------------------------------------------
(* The patterns *)

IsEmail(s, i, j) ==
  \E at, dot \in i + 1 .. j - 1 :
    /\ at + 1 < dot /\ dot + MinTld < j
    /\ All(s, i, at, LocalPart) /\ At(s, at) = "@"
    /\ All(s, at + 1, dot, Domain) /\ At(s, dot) = "." /\ All(s, dot + 1, j, Letters)

IsQuoted(s, i, j, quote, atWordBoundary) ==
  /\ i + 1 < j /\ s[i] = quote /\ At(s, j - 1) = quote
  /\ \A k \in i + 1 .. j - 2 : s[k] \notin {quote, "\r", "\n"}
  /\ atWordBoundary => At(s, i - 1) \notin Words /\ At(s, j) \notin Words

IsHexId(s, i, j) ==
  /\ s[i] = "0" /\ At(s, i + 1) = "x" /\ j - i >= 2 + HexIdDigits /\ All(s, i + 2, j, Hexes)

IsWholeNumber(s, i, j) ==
  All(s, i, j, Digits) /\ At(s, i - 1) \notin Words /\ At(s, j) \notin Words

\* Where the runs of hexadecimal digits from i on end, one byte between each
\* and the next.
HexRuns(s, i) ==
  LET end[k \in 0 .. Len(UuidGroups)] ==
        IF k = 0 THEN i - 1 ELSE RunEnd(s, end[k - 1] + 1, Hexes)
  IN  end

IsUuid(s, i, j) ==
  LET n == Len(UuidGroups)
      end == HexRuns(s, i)
  IN  /\ At(s, i - 1) \notin Words /\ At(s, j) \notin Words /\ j = end[n]
      /\ \A k \in 1 .. n : end[k] = end[k - 1] + 1 + UuidGroups[k]
      /\ \A k \in 1 .. n - 1 : At(s, end[k]) = "-"

\* Every scanner of the message replaces exactly what the server's pattern
\* for it matches, leftmost and longest first: the two compute the same
\* fingerprint of any message (strict_privacy.hpp).
AgreesWithTheServer(s) ==
  LET String(i, e) == <<"<str>">>
  IN  /\ ReplaceEmails(s) =
           ReplaceLongest(s, LAMBDA i, j : IsEmail(s, i, j), LAMBDA i, e : <<"<email>">>)
      /\ ReplaceQuoted(s, "\"", FALSE) =
           ReplaceLongest(s, LAMBDA i, j : IsQuoted(s, i, j, "\"", FALSE), String)
      /\ ReplaceQuoted(s, "'", TRUE) =
           ReplaceLongest(s, LAMBDA i, j : IsQuoted(s, i, j, "'", TRUE), String)
      /\ ReplaceHexIds(s) =
           ReplaceLongest(s, LAMBDA i, j : IsHexId(s, i, j), LAMBDA i, e : <<"0", "x">>)
      /\ ReplaceUuids(s) =
           ReplaceLongest(s, LAMBDA i, j : IsUuid(s, i, j), LAMBDA i, e : <<"<uuid>">>)
      /\ ReplaceNumbers(s) =
           ReplaceLongest(s, LAMBDA i, j : IsWholeNumber(s, i, j), LAMBDA i, e : <<"<n>">>)

\* What is fingerprinted holds no email, no double-quoted run, no id and no
\* number, whichever of the replacements brought it about: two messages that
\* differ only in those are one group.  (A single-quoted run may remain: the
\* number that kept its quote from closing is only taken out after it.)
HoldsNoValue(s) ==
  LET n == NormalizeMessage(s)
  IN  ReplaceNumbers(ReplaceUuids(ReplaceHexIds(ReplaceQuoted(ReplaceEmails(n), "\"", FALSE)))) = n

\* A raw path shows its first segment and nothing that follows it but whether
\* there is more, no digit, no query and no overlong segment; cutting it again
\* changes nothing.
PathIsBare(s) ==
  LET cut == StrictPath(s)
  IN  /\ Range(cut) \cap {"?", "#"} = {}
      /\ Range(s) \cap {":", "*", "{", "<", "["} = {} =>
           /\ Range(cut) \cap Digits = {}
           /\ Cardinality({i \in DOMAIN cut : cut[i] = "/"}) <= 2
           /\ CharacterCount(Without(cut, {"/"})) <= MaxSegmentLength + 1
           /\ \A more \in {<<"a">>, <<"1", "/", "a">>, <<"a", "?">>} :
                s # <<>> /\ s[Len(s)] # "/" =>
                  StrictPath(s \o <<"/">> \o more) = StrictPath(s \o <<"/", "b">>)
      /\ ":id" \notin Range(cut) /\ ":path" \notin Range(cut) => StrictPath(cut) = cut

\* An address shows its host only: not its scheme, its credentials, its port,
\* its path or its query, however they are written.
HostIsBare(s) ==
  LET host == HostOf(s)
  IN  /\ Range(host) \cap {"/", "?", "#", "@"} = {}
      /\ \A i \in DOMAIN s :
           LET scheme == SchemeLength(s)
               path   == Find(s, scheme + 1, {"/", "?", "#"})
           IN  s[i] = "@" /\ 0 < scheme /\ scheme < i /\ (path = 0 \/ i < path) =>
                 HostOf(SubSeq(s, 1, scheme) \o SubSeq(s, i + 1, Len(s))) = host

\* A span named by a method and what it called shows a host or a bare path.
NameIsBare(s) ==
  LET name == TransactionName(<<"GET", " ">> \o s)
  IN  s # <<>> /\ Range(s) \cap (Spaces \cup {"*", "{", "<", "["}) = {} =>
        /\ Range(name) \cap {"?", "#"} = {}
        /\ s[1] # ":" /\ (\A i \in DOMAIN s : s[i] = ":" => At(s, i - 1) # "/") =>
             Cardinality({i \in DOMAIN name : name[i] = "/"}) <= 2
=============================================================================
