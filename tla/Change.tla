------------------------------- MODULE Change -------------------------------
(***************************************************************************)
(* change.cpp: what record_change() sends.  The time's text is left out,    *)
(* and so are the optional fields, which are copied as they are given.      *)
(***************************************************************************)
EXTENDS Text

CONSTANTS MaxTitle,     \* max_change_title_chars
          ChangeKinds   \* change_kinds

ASSUME ChangeAssumption == MaxTitle \in Nat

NormalizeKind(kind) == IF kind \in ChangeKinds THEN kind ELSE "other"

Trim(s) == Strip(s, Spaces)

\* Where the characters of a text begin.
Leads(s) == {i \in DOMAIN s : s[i] \notin Continuations}

\* utf8_prefix(): up to the lead byte that has as many before it as are allowed.
Utf8Prefix(s, max) ==
  LET beyond == {i \in Leads(s) : Cardinality({k \in Leads(s) : k < i}) = max}
  IN  IF beyond = {} THEN s ELSE Between(s, 1, CHOOSE i \in beyond : TRUE)

\* build_change(), and record_change() around it: {} is std::nullopt.
BuildChange(kind, title) ==
  IF Trim(title) = <<>> THEN {}
  ELSE {[kind |-> NormalizeKind(kind), title |-> Utf8Prefix(Trim(title), MaxTitle)]}

-----------------------------------------------------------------------------

\* A title goes out without the space around it and with as many of its first
\* characters as fit, each of them whole; a title of spaces is no change.
TitleIsWhole(s) ==
  /\ BuildChange("deploy", s) = {} <=> Range(s) \subseteq Spaces
  /\ \A change \in BuildChange("deploy", s) :
       LET title == change.title
           n     == Len(title)
           whole == Trim(s)
       IN  /\ IsPrefix(title, whole)
           /\ Cardinality(Leads(title)) = Min({MaxTitle, Cardinality(Leads(whole))})
           /\ At(whole, n + 1) \notin Continuations
=============================================================================
