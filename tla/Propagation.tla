----------------------------- MODULE Propagation -----------------------------
(***************************************************************************)
(* A trace across services: the traceparent header as it is read and        *)
(* written, and which outgoing call gets one: trace_parent.cpp,             *)
(* should_propagate_trace() of configuration.cpp and ScopedHttpSpan of      *)
(* forge_ops_tracker.cpp.  A std::regex target is the library's and is left *)
(* out.  An id is drawn at random until it is not all zeros: that is        *)
(* Tracing's Draw.                                                          *)
(***************************************************************************)
EXTENDS Text

CONSTANTS TraceIdLength, SpanIdLength   \* hexadecimal digits: 32 and 16

ASSUME PropagationAssumption == {TraceIdLength, SpanIdLength} \subseteq Nat \ {0}

LowerHexes == Hexes \ Uppers

\* "vv-", the two ids and "-ff".
FixedLength == TraceIdLength + SpanIdLength + 7

\* parse(): {} is std::nullopt.
Parse(raw) ==
  LET s       == Strip(raw, Blanks)
      version == SubSeq(s, 1, 2)
      context == [trace |-> SubSeq(s, 4, TraceIdLength + 3),
                  span  |-> SubSeq(s, TraceIdLength + 5, FixedLength - 3)]
      IsDash(i) == i \in {3, TraceIdLength + 4, FixedLength - 2}
  IN  IF /\ Len(s) >= FixedLength
         /\ \A i \in 1 .. FixedLength : IF IsDash(i) THEN s[i] = "-" ELSE s[i] \in LowerHexes
         /\ version # <<"f", "f">>
         /\ Len(s) > FixedLength => version # <<"0", "0">> /\ s[FixedLength + 1] = "-"
         /\ {"0"} \notin {Range(context.trace), Range(context.span)}
      THEN {context} ELSE {}

\* build(): always sampled.
BuildHeader(context) ==
  <<"0", "0", "-">> \o context.trace \o <<"-">> \o context.span \o <<"-", "0", "1">>

-----------------------------------------------------------------------------
(* Hosts *)

\* The position of the "://", or 0.
SchemeEnd(url) ==
  LET at == {i \in 1 .. Len(url) - 2 : SubSeq(url, i, i + 2) = <<":", "/", "/">>}
  IN  IF at = {} THEN 0 ELSE Min(at)

\* What follows the last "@" of an authority, or all of it.
HostAndPort(authority) == AfterLast(authority, "@")

\* url_host(): <<>> stands for std::nullopt.
UrlHost(url) ==
  LET start == SchemeEnd(url) + 3
      end   == Find(url, start, {"/", "?", "#"})
      place == HostAndPort(Between(url, start, IF end = 0 THEN Len(url) + 1 ELSE end))
      close == IF At(place, 1) = "[" THEN Find(place, 1, {"]"}) ELSE 0
      colon == Find(place, 1, {":"})
  IN  CASE SchemeEnd(url) < 2 -> <<>>
        [] SchemeEnd(url) >= 2 /\ At(place, 1) = "[" -> Lower(SubSeq(place, 1, close))
        [] OTHER -> Lower(Between(place, 1, IF colon = 0 THEN Len(place) + 1 ELSE colon))

WithoutLeadingDot(target) == IF At(target, 1) = "." THEN Tail(target) ELSE target

\* Mutant: any host that ends in the target is the target's.
MatchesAnySuffix(host, target) ==
  LET domain == Lower(WithoutLeadingDot(target)) IN domain # <<>> /\ IsSuffix(domain, host)

\* A target string names its own host and every subdomain of it.
Matches(host, target) ==
  LET domain == Lower(WithoutLeadingDot(target))
      prefix == Len(host) - Len(domain)
  IN  /\ domain # <<>> /\ prefix >= 0
      /\ \/ host = domain
         \/ prefix > 0 /\ host[prefix] = "." /\ SubSeq(host, prefix + 1, Len(host)) = domain

\* should_propagate_trace(): targets is {} for nullopt, which is every host,
\* or {the list}.
ShouldPropagateTrace(propagates, targets, host) ==
  /\ propagates
  /\ \A list \in targets : host # <<>> /\ \E target \in list : Matches(Lower(host), target)

\* ScopedHttpSpan: the header goes to what the URL names.
HeaderSent(propagates, targets, url) == ShouldPropagateTrace(propagates, targets, UrlHost(url))

-----------------------------------------------------------------------------

Labels(host) == Split(host, ".")

\* A host is a target's when its last labels are the target's: "notexample.com"
\* and "example.com.org" are not example.com's.
MatchesByLabel(host, target) ==
  WithoutLeadingDot(target) # <<>> /\ IsSuffix(Labels(Lower(WithoutLeadingDot(target))), Labels(host))

\* A header goes out only to a host in the list: one that stands in the URL
\* where the call is made to, behind the scheme and any credentials, up to the
\* port or the path (a bracketed one up to its bracket), and is a target or its
\* subdomain, label by label.  With no list it goes out always, with an empty
\* list or propagation off never.
HeaderStaysHome(url, target) ==
  LET from == SchemeEnd(url) + 3
      IsAuthorityFrom(i, p) ==
        /\ \A k \in from .. p - 1 : url[k] \notin {"/", "?", "#"}
        /\ p = Len(url) + 1 \/ url[p] \in {"/", "?", "#"}
        /\ i = from \/ url[i - 1] = "@"
        /\ \A k \in i .. p - 1 : url[k] # "@"
      IsHost(i, j) ==
        \E p \in j .. Len(url) + 1 :
          /\ from <= i /\ i < j /\ IsAuthorityFrom(i, p)
          /\ IF url[i] = "["
               THEN url[j - 1] = "]" /\ \A k \in i .. j - 2 : url[k] # "]"
               ELSE (j = p \/ url[j] = ":") /\ \A k \in i .. j - 1 : url[k] # ":"
  IN  /\ HeaderSent(TRUE, {{target}}, url) <=>
           /\ SchemeEnd(url) > 1
           /\ \E i, j \in 1 .. Len(url) + 1 :
                IsHost(i, j) /\ MatchesByLabel(Lower(Between(url, i, j)), target)
      /\ HeaderSent(TRUE, {}, url)
      /\ ~HeaderSent(TRUE, {{}}, url) /\ ~HeaderSent(FALSE, {}, url)

\* A header is a trace to continue exactly when it is a version that is not
\* ff, two ids that are not zero and a byte of flags, joined by dashes, with
\* more behind a dash only in versions to come; blanks around it are nothing.
\* A trace that is continued is handed on as it came, whatever its version.
TraceIsContinued(raw) ==
  LET Hex(field, n) == Len(field) = n /\ Range(field) \subseteq LowerHexes
      fields == Split(Strip(raw, Blanks), "-")
  IN  /\ Parse(raw) # {} <=>
           /\ Len(fields) >= 4 /\ Hex(fields[1], 2) /\ Hex(fields[4], 2)
           /\ Hex(fields[2], TraceIdLength) /\ Hex(fields[3], SpanIdLength)
           /\ fields[1] # <<"f", "f">> /\ (fields[1] = <<"0", "0">> => Len(fields) = 4)
           /\ \A k \in {2, 3} : \E i \in DOMAIN fields[k] : fields[k][i] # "0"
      /\ \A context \in Parse(raw) : Parse(BuildHeader(context)) = {context}
=============================================================================
