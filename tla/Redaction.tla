------------------------------ MODULE Redaction ------------------------------
(***************************************************************************)
(* What leaves the process, piece by piece.  Each behaviour has a subject:  *)
(* a kind of text, which the application makes a byte (a token, a key) at a *)
(* time and which every scanner of that kind must treat right at every      *)
(* length, or the captures of one thread (Events).                          *)
(***************************************************************************)
EXTENDS Events, StrictPrivacy, PiiScrubber, Propagation, Change, Configuration, Client

CONSTANTS
  Subjects,  \* [kind, start, alphabet, bound]: texts from start on, over an
             \* alphabet, up to a bound on their length
  Targets,   \* target strings of trace_propagation_targets
  Times,     \* times a request is given
  Answers    \* what libcurl comes back with

ASSUME RedactionAssumption ==
  /\ \A subj \in Subjects : subj.start \in Seq(Range(subj.start))
  /\ Times \subseteq Int /\ Answers \subseteq Int
  /\ \A target \in Targets : target \in Seq(Range(target))

VARIABLES
  subject,   \* what this behaviour is about
  text       \* the text so far

vars == <<subject, text, eventVars>>

\* The settings only matter where events are the subject.
Init ==
  /\ subject \in Subjects /\ text = subject.start /\ EventsInit
  /\ subject.kind # "events" => config = CHOOSE c \in Configurations : TRUE

Extend ==
  /\ Len(text) < subject.bound
  /\ \E next \in subject.alphabet : text' = Append(text, next)
  /\ UNCHANGED <<subject, eventVars>>

Capturing == subject.kind = "events" /\ EventsNext /\ UNCHANGED <<subject, text>>

Next == Extend \/ Capturing

Spec == Init /\ [][Next]_vars

-----------------------------------------------------------------------------

IsAbout(kind) == subject.kind = kind

\* No string literal of a statement leaves the process, read by whichever
\* database's rules, masked once or twice by the same ones, cut short or not
\* (where it is masked by two different ones is EventsKeepToPolicy's to say,
\* and a literal may then be left in part); and what is cut is
\* cut between characters (sql_statement.cpp's mask(), change.cpp's title).  Nor
\* does a card number, wherever it stands and whatever groups it is written in,
\* or what is below a sensitive key, however the key is spelled
\* (pii_scrubber.cpp's scrub()), what an address holds around its host, or more
\* of a path or a span name than strict privacy shows (strict_privacy.cpp's
\* host_of(), strict_path() and transaction_name()).
SecretsAreMasked ==
  /\ \A mysql \in BOOLEAN :
       IsAbout(IF mysql THEN "mysql" ELSE "sql") =>
         HidesStrings(text, mysql) /\ MaskIsFinal(text, mysql)
  /\ IsAbout("bytes") => CutsWhole(text) /\ TitleIsWhole(text)
  /\ IsAbout("iban") \/ IsAbout("card") => LeavesNoCard(text)
  /\ IsAbout("key") => KnowsKeys(text)
  /\ IsAbout("keys") => HidesBelowKeys(text)
  /\ IsAbout("address") => HostIsBare(text)
  /\ IsAbout("path") => PathIsBare(text)
  /\ IsAbout("path") \/ IsAbout("address") => NameIsBare(text)

\* What comes in is read as it is written: a failed statement names the tables
\* and procedures that are listed with it (extract_objects()), a DSN the key and
\* the address, a list its fields.
InputIsReadAsWritten ==
  /\ IsAbout("tokens") => NamesWhatItReads(text)
  /\ IsAbout("dsn") => KeyStaysOut(text)
  /\ IsAbout("list") => AllowsWhatItLists(text)

\* Every scanner written by hand for a pattern of the server's or of the other
\* SDKs' finds what that pattern finds: the same fingerprints, the same IBANs
\* and card numbers, the same numbers in a statement.
ScannersMatchTheirPatterns ==
  /\ IsAbout("message") => AgreesWithTheServer(text)
  /\ IsAbout("iban") => FindsIbans(text)
  /\ IsAbout("iban") \/ IsAbout("card") => FindsCards(text)
  /\ IsAbout("sql") \/ IsAbout("mysql") => HidesNumbers(text)

\* No value that strict privacy takes out of a message is left in what it makes
\* of it, or comes about by what it puts in its place (normalize_message()).
MessagesHoldNoValue == IsAbout("message") => HoldsNoValue(text)

\* What is captured keeps to the configuration it is captured under; a database
\* span's statement goes out masked for the db.system beside it, and under strict
\* privacy a span of any kind keeps those two fields only; each kind of report
\* goes to its own address, and a trace header only to a host in the list, read
\* from the URL it stands in, with the trace that came in if its header was a
\* trace's; a request that was given a time ends within it, and
\* what was asked of the server is over only on its word.
OutgoingKeepsToPolicy ==
  /\ IsAbout("events") => EventsKeepToPolicy
  /\ IsAbout("url") => \A target \in Targets : HeaderStaysHome(text, target)
  /\ IsAbout("traceparent") => TraceIsContinued(text)
  /\ IsAbout("dsn") => EndpointsDiffer(text)
  /\ IsAbout("times") =>
       \A timeoutSeconds, maxTime \in Times :
         /\ LimitHolds(timeoutSeconds, maxTime)
         /\ \A uri, key \in {{}, {"given"}}, answer \in Answers :
              LetGoOnlyWhenTold(uri, key, timeoutSeconds, maxTime, answer)

-----------------------------------------------------------------------------
(* What the documentation says and the code does not do *)

\* Under strict privacy every span's data keeps only a masked statement
\* (configuration.hpp, README.md).  span_data() masks on database spans only.
StrictSpansSendNoSql == IsAbout("events") => StrictSpansAreMasked(config)

=============================================================================
