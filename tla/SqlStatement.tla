---------------------------- MODULE SqlStatement ----------------------------
(***************************************************************************)
(* sql_statement.cpp: how a statement is masked before it leaves the        *)
(* process, which names are read off the masked statement, and which        *)
(* statement is found in a chain of nested exceptions.                      *)
(*                                                                          *)
(* mask() reads bytes (Text).  extract_objects() reads the tokens that      *)
(* tokenize() makes of the masked statement: here a statement is already a  *)
(* sequence of tokens, a token is one word in lower case, and the only      *)
(* token that is not a name is a parenthesis.                               *)
(***************************************************************************)
EXTENDS Text

CONSTANTS MaxLength,     \* kMaxLength: bytes of a masked statement
          MaxNames,      \* kMaxNames: names in one list
          MaxCauseDepth  \* kMaxCauseDepth: nested exceptions looked at

ASSUME SqlAssumption == {MaxLength, MaxNames, MaxCauseDepth} \subseteq Nat

None == "none"

Backslash   == "\\"
DoubleQuote == "\""

-----------------------------------------------------------------------------
(* Literals *)

\* The position of the opening quote when a string literal starts at i.
StringQuote(s, i) ==
  LET quote == CASE s[i] = "'" -> i
                 [] s[i] \in {"E", "e", "X", "x", "N", "n", "B", "b"} -> i + 1
                 [] s[i] \in {"U", "u"} /\ At(s, i + 1) = "&" -> i + 2
                 [] OTHER -> 0
  IN  IF At(s, quote) = "'" /\ (quote = i \/ At(s, i - 1) \notin Words \cup {"$"})
        THEN quote ELSE 0

\* Mutant: a backslash is an ordinary byte.
QuotedEndNoEscape(s, open) ==
  LET end[j \in 1 .. Len(s) + 2] ==
        IF j > Len(s) THEN Len(s) + 1
        ELSE IF s[j] # s[open] THEN end[j + 1]
        ELSE IF At(s, j + 1) = s[open] THEN end[j + 2] ELSE j + 1
  IN  end[open + 1]

\* Past the text opened by the quote at `open`; a doubled quote and a
\* backslash and what follows it are inside, and a quote that nothing closes
\* runs to the end of the statement.
QuotedEnd(s, open) ==
  LET end[j \in 1 .. Len(s) + 2] ==
        IF j > Len(s) THEN Len(s) + 1
        ELSE IF s[j] = Backslash THEN end[j + 2]
        ELSE IF s[j] # s[open] THEN end[j + 1]
        ELSE IF At(s, j + 1) = s[open] THEN end[j + 2] ELSE j + 1
  IN  end[open + 1]

\* A dollar-quoted body: $tag$ ... $tag$, cut off at the end when it has to be.
DollarEnd(s, i) ==
  LET j      == RunEnd(s, i + 1, Letters \cup {"_"})
      tag    == SubSeq(s, i, j)
      closes == {k \in j + 1 .. Len(s) + i - j : SubSeq(s, k, k + j - i) = tag}
  IN  CASE At(s, j) # "$" -> 0
        [] At(s, j) = "$" /\ closes = {} -> Len(s) + 1
        [] OTHER -> Min(closes) + Len(tag)

-----------------------------------------------------------------------------
(* Numbers.  0 stands for the code's -1: there is no such reading.          *)

FractionEnd(s, dot) ==
  IF At(s, dot) = "." /\ At(s, dot + 1) \in Digits THEN RunEnd(s, dot + 1, Digits) ELSE 0

ExponentEnd(s, i) ==
  LET k   == IF At(s, i + 1) \in {"+", "-"} THEN i + 2 ELSE i + 1
      end == RunEnd(s, k, Digits)
  IN  IF At(s, i) \in {"e", "E"} /\ end > k THEN end ELSE 0

EndsHere(s, k) == At(s, k) \notin Words

\* Past the number at i: the first of its readings, in the order they are
\* tried, that no word character follows.
NumberEnd(s, i) ==
  LET radix    == CASE At(s, i + 1) \in {"x", "X"} -> Hexes
                    [] At(s, i + 1) \in {"b", "B"} -> {"0", "1"}
                    [] OTHER -> {}
      radixEnd == RunEnd(s, i + 2, radix)
      intEnd   == RunEnd(s, i, Digits)
      fraction == FractionEnd(s, intEnd)
      whole    == IF intEnd > i THEN intEnd ELSE 0
      readings == << IF s[i] = "0" /\ radixEnd > i + 2 THEN radixEnd ELSE 0,
                     IF fraction > 0 THEN ExponentEnd(s, fraction) ELSE 0, fraction,
                     IF whole > 0 THEN ExponentEnd(s, whole) ELSE 0, whole >>
      stands   == {k \in DOMAIN readings : readings[k] > 0 /\ EndsHere(s, readings[k])}
  IN  IF stands = {} THEN 0 ELSE readings[Min(stands)]

-----------------------------------------------------------------------------
(* mask() *)

LiteralEnd(s, i, mysql) ==
  LET quote == IF mysql /\ s[i] = DoubleQuote THEN i ELSE StringQuote(s, i)
  IN  CASE quote > 0 -> QuotedEnd(s, quote)
        [] quote = 0 /\ s[i] = "$" -> DollarEnd(s, i)
        [] quote = 0 /\ s[i] \in Digits \cup {"."} ->
             IF At(s, i - 1) \in Words \cup {"$", "."} THEN 0 ELSE NumberEnd(s, i)
        [] OTHER -> 0

\* The cut backs up to the start of the character it falls in.
Cut(out) ==
  LET cut == Max({k \in 0 .. MaxLength : k = 0 \/ At(out, k + 1) \notin Continuations})
  IN  IF Len(out) > MaxLength THEN SubSeq(out, 1, cut) \o <<".", ".", ".">> ELSE out

Masked(s, mysql) == Replace(s, LAMBDA i : LiteralEnd(s, i, mysql), LAMBDA i, e : <<"?">>)

Mask(s, mysql) == IF Range(s) \subseteq Spaces THEN <<>> ELSE Cut(Masked(s, mysql))

-----------------------------------------------------------------------------
(* extract_objects() *)

IsName(token) == token \notin {"(", ")", NoByte}

NotATable    == {"extract", "substring", "trim", "overlay"}
CallWords    == {"call", "exec", "execute", "perform"}
TableWords   == {"from", "join", "into", "update", "table"}
KeywordsNotNames == {"select", "set", "values", "where", "lateral", "only",
                     "unnest", "generate_series"}
NotProcedures == {"immediate", "function", "procedure"}
Builtins     == {"count", "sum", "min", "max", "avg", "now", "coalesce"}
Operations   == {"select", "insert", "update", "delete", "merge", "with", "call", "exec",
                 "execute", "create", "alter", "drop", "truncate"}

\* EXTRACT(year FROM col): past its closing parenthesis, unless another one
\* opens first.
CallEnd(ts, i) ==
  LET close == Find(ts, i + 2, {"(", ")"})
  IN  IF ts[i] \in NotATable /\ At(ts, i + 1) = "(" /\ At(ts, close) = ")"
        THEN close + 1 ELSE 0

Kept(ts) == Replace(ts, LAMBDA i : CallEnd(ts, i), LAMBDA i, e : <<>>)

\* Where a keyword has its name after it; the name is then not read as a
\* keyword itself.
PairedAt(ts, keywords, names) ==
  LET from[i \in 1 .. Len(ts) + 1] ==
        IF i >= Len(ts) THEN <<>>
        ELSE IF ts[i] \in keywords /\ ts[i + 1] \in names THEN <<i>> \o from[i + 2]
        ELSE from[i + 1]
  IN  from[1]

Names(ts) == {token \in Range(ts) : IsName(token)}

Called(ts) == LET at == PairedAt(ts, CallWords, Names(ts) \ NotProcedures)
              IN  [k \in DOMAIN at |-> ts[at[k] + 1]]

\* Mutant: FROM f(...) is a table.
IsTableOrFunction(ts, i) == TRUE

\* FROM or JOIN f(...) is a function; INTO t (a, b) is a table.
IsTable(ts, i) == ~(ts[i] \in {"from", "join"} /\ At(ts, i + 2) = "(")

Named(ts, table) ==
  LET at == SelectSeq(PairedAt(ts, TableWords, Names(ts)),
                      LAMBDA i : ts[i + 1] \notin KeywordsNotNames /\ IsTable(ts, i) = table)
  IN  [k \in DOMAIN at |-> ts[at[k] + 1]]

Selected(ts) ==
  IF /\ At(ts, 1) = "select" /\ IsName(At(ts, 2)) /\ At(ts, 3) = "("
     /\ ts[2] \notin Builtins /\ "from" \notin Range(ts)
  THEN <<ts[2]>> ELSE <<>>

\* clean(): each name once, and no more than MaxNames of them.
Clean(names) ==
  LET firsts == SelectSeq([i \in DOMAIN names |-> i],
                          LAMBDA i : \A j \in 1 .. i - 1 : names[j] # names[i])
  IN  [k \in 1 .. Min({Len(firsts), MaxNames}) |-> names[firsts[k]]]

\* NoObjects and an empty masked text stand for std::nullopt.
NoObjects == [operation |-> None, procedures |-> <<>>, relations |-> <<>>]

ExtractObjects(statement) ==
  LET ts == Kept(statement)
  IN  [operation  |-> IF At(ts, 1) \in Operations THEN ts[1] ELSE None,
       procedures |-> Clean(Called(ts) \o Named(ts, FALSE) \o Selected(ts)),
       relations  |-> Clean(Named(ts, TRUE))]

-----------------------------------------------------------------------------
(* find_in(): the statement an exception, or one nested in it, carries.     *)
(* chain is the exception and the ones nested in it, outermost first:       *)
(* "carried" is a SqlException with a statement, "text" one whose what()    *)
(* has the marker and something after it, "foreign" one that is not a       *)
(* std::exception, where the search stops.                                  *)

FindIn(chain) ==
  LET looked == SubSeq(chain, 1, Min({Len(chain), MaxCauseDepth + 1}))
      stops  == {k \in DOMAIN looked : looked[k] \in {"carried", "text", "foreign"}}
  IN  IF stops = {} \/ looked[Min(stops)] = "foreign" THEN 0 ELSE Min(stops)
-----------------------------------------------------------------------------
(* What masking must do *)

\* The bytes of a prefix that a quote takes along: E'', U&'' and their like,
\* when they are not the end of a word.
PrefixLength(out, c) ==
  LET n == Len(out)
      before(k) == At(out, n - k) \notin Words \cup {"$"}
      Takes(last) == c = "'" /\ At(out, n) \in last
  IN  CASE Takes({"E", "e", "X", "x", "N", "n", "B", "b"}) /\ before(1) -> 1
        [] Takes({"&"}) /\ At(out, n - 1) \in {"U", "u"} /\ before(2) -> 2
        [] OTHER -> 0

\* How SQL reads its string literals, a byte at a time: a quote in code opens
\* one and takes the prefix before it along, a backslash escapes a byte, and
\* a quote in it either closes it or is doubled, as the next byte shows.
ReadByte(st, c, mysql) ==
  LET kept  == Len(st.out) - PrefixLength(st.out, c)
      opens == /\ c = "'" \/ (mysql /\ c = DoubleQuote)
               /\ st.mode = "code" \/ (st.mode = "closed" /\ c # st.quote)
  IN  CASE st.mode = "escape" -> [st EXCEPT !.mode = "string"]
        [] st.mode = "string" /\ c = Backslash -> [st EXCEPT !.mode = "escape"]
        [] st.mode = "string" /\ c = st.quote -> [st EXCEPT !.mode = "closed"]
        [] st.mode = "closed" /\ c = st.quote -> [st EXCEPT !.mode = "string"]
        [] st.mode = "string" /\ c \notin {Backslash, st.quote} -> st
        [] opens ->
             [mode |-> "string", quote |-> c, out |-> SubSeq(st.out, 1, kept) \o <<"?">>]
        [] OTHER -> [st EXCEPT !.mode = "code", !.out = Append(@, c)]

\* ... the state after each byte of s,
Reading(s, mysql) ==
  LET st[k \in 0 .. Len(s)] ==
        IF k = 0 THEN [mode |-> "code", quote |-> NoByte, out |-> <<>>]
                 ELSE ReadByte(st[k - 1], s[k], mysql)
  IN  st

WithoutLiterals(s, mysql) == Reading(s, mysql)[Len(s)].out

\* A number, as the pattern the SDKs share spells it: hexadecimal, binary, or
\* a decimal with an optional fraction and an optional exponent.
IsNumber(s, i, j) ==
  \/ /\ At(s, i) = "0" /\ j > i + 2
     /\ \/ At(s, i + 1) \in {"x", "X"} /\ All(s, i + 2, j, Hexes)
        \/ At(s, i + 1) \in {"b", "B"} /\ All(s, i + 2, j, {"0", "1"})
  \/ \E p, q \in i .. j :
       /\ p <= q /\ i < q
       /\ All(s, i, p, Digits)
       /\ p = q \/ (At(s, p) = "." /\ q > p + 1 /\ All(s, p + 1, q, Digits))
       /\ \/ q = j
          \/ /\ At(s, q) \in {"e", "E"}
             /\ LET k == IF At(s, q + 1) \in {"+", "-"} THEN q + 2 ELSE q + 1
                IN  k < j /\ All(s, k, j, Digits)

\* No literal leaves the process: the masked text is the statement with each
\* string literal, and nothing else, replaced.
HidesStrings(s, mysql) ==
  Range(s) \cap (Digits \cup {".", "$"}) = {} => Masked(s, mysql) = WithoutLiterals(s, mysql)

\* The number found at a position is the longest one the pattern finds there.
HidesNumbers(s) ==
  LET longest == Longest(s, LAMBDA i, j : IsNumber(s, i, j) /\ EndsHere(s, j))
  IN  \A i \in DOMAIN s : s[i] \in Digits \cup {"."} => NumberEnd(s, i) = longest[i]

\* A statement masked as the span is given it is masked again as the span is
\* built (forge_ops_tracker.cpp, set_statement()).  The second time finds no
\* literal that the first left, but for what stands right behind a mask and
\* belonged to the text before it: the second half of 1.5.5, a digit or a
\* prefix after a dollar-quoted body.
MaskIsFinal(s, mysql) ==
  LET once == Masked(s, mysql)
  IN  \A i \in DOMAIN once : LiteralEnd(once, i, mysql) > 0 => At(once, i - 1) = "?"

\* The cut keeps whole characters, as many as fit.
CutsWhole(s) ==
  LET kept == Len(Cut(s)) - 3
      IsBoundary(k) == At(s, k + 1) \notin Continuations
  IN  IF Len(s) <= MaxLength THEN Cut(s) = s
      ELSE /\ SubSeq(Cut(s), 1, kept) = SubSeq(s, 1, kept)
           /\ kept <= MaxLength
           /\ kept > 0 => IsBoundary(kept)
           /\ \A k \in kept + 1 .. MaxLength : ~IsBoundary(k)

(* What the extracted names must be *)

\* The statement without its EXTRACT(... FROM ...)s.
Read(ts) ==
  LET Span(a, b) == /\ ts[a] \in NotATable /\ At(ts, a + 1) = "(" /\ a + 1 < b /\ ts[b] = ")"
                    /\ \A k \in a + 2 .. b - 1 : ts[k] \notin {"(", ")"}
      Inside(i) == \E a \in 1 .. i, b \in i .. Len(ts) : Span(a, b)
      kept == SelectSeq([i \in DOMAIN ts |-> i], LAMBDA i : ~Inside(i))
  IN  [k \in DOMAIN kept |-> ts[kept[k]]]

\* Every relation is a name that a table keyword introduces and no call
\* follows, and every name that a keyword introduces is listed, as a relation
\* or as a procedure, while there is room; each one once.
NamesWhatItReads(ts) ==
  LET w == Read(ts)
      found == ExtractObjects(ts)
      relations == found.relations
      procedures == found.procedures
      Introduces(k) == /\ At(w, k) \in TableWords /\ IsName(At(w, k + 1))
                       /\ w[k + 1] \notin KeywordsNotNames
      IsCall(k) == w[k] \in {"from", "join"} /\ At(w, k + 2) = "("
  IN  /\ IsInjective(relations) /\ IsInjective(procedures)
      /\ Len(relations) <= MaxNames /\ Len(procedures) <= MaxNames
      /\ Range(relations) \subseteq {w[k + 1] : k \in {k \in DOMAIN w : Introduces(k) /\ ~IsCall(k)}}
      /\ \A k \in DOMAIN w :
           Introduces(k) /\ At(w, k - 1) \notin TableWords =>
             IF IsCall(k) THEN w[k + 1] \in Range(procedures) \/ Len(procedures) = MaxNames
                          ELSE w[k + 1] \in Range(relations) \/ Len(relations) = MaxNames
=============================================================================
