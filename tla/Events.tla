------------------------------- MODULE Events -------------------------------
(***************************************************************************)
(* What one thread's captures and spans put in what they send:              *)
(* event_builder.cpp, strict_privacy.cpp's event() and span_data(), the     *)
(* breadcrumbs and the user of forge_ops_tracker.cpp, and span_buffer.cpp's *)
(* span_data(), under every setting of the configuration and every change   *)
(* of it between two calls.                                                 *)
(*                                                                          *)
(* A piece of free text is what was done to it: [of |-> what it says, by    *)
(* |-> the set of passes it went through].  How a pass works is the subject *)
(* of SqlStatement, PiiScrubber and StrictPrivacy; that it is applied, to   *)
(* every piece and in what order, is the subject here.  Class, times,       *)
(* environment, release, server and SDK name are structured and left out,   *)
(* and so are the tags, which an event always leaves empty.                 *)
(***************************************************************************)
EXTENDS SqlStatement

CONSTANTS
  Configurations,  \* settings: [enabled, strict, scrub, objects, statement,
                   \*            track, crumbs, allowed]
  Users,           \* what set_user is given: functions from "id" and "email"
                   \* to "text", "blank", "number" or "other"
  MaxCrumbs,       \* bounds the breadcrumbs added
  MaxChanges       \* bounds how often the configuration is changed

ASSUME EventsAssumption ==
  /\ MaxCrumbs \in Nat /\ MaxChanges \in Nat
  /\ \A c \in Configurations : c.crumbs \in Nat
  /\ <<>> \in Users

VARIABLES
  config,   \* the Configuration, which the application may change at any time
  user,     \* g_current_user
  trail,    \* g_current_breadcrumbs: the number of each crumb in it
  changes,  \* how often config was changed
  \* What happened, for the properties only:
  added,    \* how many breadcrumbs the application added
  recorded, \* the ones that were recorded since the trail was last cleared
  room      \* max_breadcrumbs when the last of them was

eventVars == <<config, user, trail, changes, added, recorded, room>>

EventsTypeOK ==
  /\ config \in Configurations /\ user \in Users
  /\ trail \in Seq(1 .. added) /\ recorded \in Seq(1 .. added)
  /\ added \in 0 .. MaxCrumbs /\ changes \in 0 .. MaxChanges /\ room \in Nat

EventsInit ==
  /\ config \in Configurations
  /\ user = <<>> /\ trail = <<>> /\ changes = 0 /\ added = 0 /\ recorded = <<>> /\ room = 0

Configure ==
  /\ changes < MaxChanges /\ changes' = changes + 1
  /\ config' \in Configurations \ {config}
  /\ UNCHANGED <<user, trail, added, recorded, room>>

SetUser ==
  /\ user' \in Users \ {user}
  /\ UNCHANGED <<config, trail, changes, added, recorded, room>>

\* The last n of a sequence.
LastOf(s, n) == SubSeq(s, Len(s) - Min({n, Len(s)}) + 1, Len(s))

\* Mutant: the trail is trimmed before the new crumb is in it.
TrimmedTooEarly(s, crumb, max) == Append(LastOf(s, max), crumb)

\* Appended, then the oldest dropped until max are left.
Trimmed(s, crumb, max) == LastOf(Append(s, crumb), max)

\* add_breadcrumb(): recorded unless the configuration as it is now says not to.
AddBreadcrumb ==
  /\ added < MaxCrumbs /\ added' = added + 1
  /\ IF config.track /\ ~config.strict
       THEN /\ trail' = Trimmed(trail, added', config.crumbs)
            /\ recorded' = Append(recorded, added') /\ room' = config.crumbs
       ELSE UNCHANGED <<trail, recorded, room>>
  /\ UNCHANGED <<config, user, changes>>

ClearBreadcrumbs ==
  /\ trail # <<>> /\ trail' = <<>> /\ recorded' = <<>>
  /\ UNCHANGED <<config, user, changes, added, room>>

EventsNext == Configure \/ SetUser \/ AddBreadcrumb \/ ClearBreadcrumbs

-----------------------------------------------------------------------------
(* EventBuilder::build() *)

Raw(what)    == [of |-> what, by |-> {}]
Nothing      == Raw("nothing")
Field(name, value) == [f \in {name} |-> value]
NoField      == <<>>

\* The fields of both; where they share one, the first's.
Joined(some, more) ==
  [f \in DOMAIN some \cup DOMAIN more |-> IF f \in DOMAIN some THEN some[f] ELSE more[f]]

Done(text, pass) == [text EXCEPT !.by = @ \cup {pass}]

\* What the application gives a capture as context: the kind of each value.
\* "secret" is a key is_sensitive_key() knows.
Context == [plan |-> "plain", account |-> "object", secret |-> "object"]

\* The SQL behind an exception: the caller's, or what the chain carries.
Statement(capture) ==
  IF capture.sql THEN Raw("caller's statement")
  ELSE IF FindIn(capture.chain) > 0 THEN Raw("exception's statement") ELSE Nothing

\* attach_sql(); the names are read off the masked statement.
AttachSql(c, statement) ==
  LET masked == Done(statement, "masked")
  IN  IF statement = Nothing THEN NoField
      ELSE Joined(IF c.objects THEN Field("sql_objects", masked) ELSE NoField,
                  IF c.statement THEN Field("sql_statement", masked) ELSE NoField)

\* scrub_payload(): everything free text; the extracted names are not, and the
\* context is scrubbed value by value.
ScrubPayload(payload) ==
  [f \in DOMAIN payload |->
     IF f \in {"message", "sql_statement", "backtrace", "breadcrumbs"}
       THEN Done(payload[f], "scrubbed") ELSE payload[f]]

ScrubContext(values) ==
  [key \in DOMAIN values |->
     IF key = "secret" THEN Done(Raw("plain"), "filtered") ELSE Done(values[key], "scrubbed")]

\* What strict privacy does to an event, last of all: the id of the user, the
\* allowed plain values of the context, the fingerprint of the message as it
\* would have gone out.
UserId(u) == IF "id" \in DOMAIN u /\ u["id"] \in {"text", "number"} THEN [id |-> "text"] ELSE <<>>

Allowed(c, values) == [key \in {key \in c.allowed \cap DOMAIN values : values[key].of = "plain"} |->
                         values[key]]

StrictEvent(c, built) ==
  [payload |-> Joined([f \in DOMAIN built.payload \ {"breadcrumbs", "sql_statement"} |->
                         IF f = "message" THEN Nothing ELSE built.payload[f]],
                      Field("message_fingerprint", built.payload["message"])),
   crumbs  |-> <<>>,
   context |-> Allowed(c, built.context),
   user    |-> UserId(built.user)]

\* A capture: [sql, chain, user], its chain as in find_in().  "foreign" first
\* is something that is no std::exception, whose message is empty.
Build(c, capture) ==
  LET crumbs  == IF trail # <<>> /\ ~c.strict THEN trail ELSE <<>>
      message == IF capture.chain[1] = "foreign" THEN Nothing ELSE Raw("message")
      payload == Joined(Joined([message |-> message, backtrace |-> Raw("backtrace")],
                               IF crumbs # <<>> THEN Field("breadcrumbs", Raw("crumbs")) ELSE NoField),
                        AttachSql(c, Statement(capture)))
      context == [key \in DOMAIN Context |-> Raw(Context[key])]
      built   == [payload |-> IF c.scrub THEN ScrubPayload(payload) ELSE payload,
                  crumbs  |-> crumbs,
                  context |-> IF c.scrub THEN ScrubContext(context) ELSE context,
                  user    |-> IF capture.user = <<>> THEN user ELSE capture.user]
  IN  IF c.strict THEN StrictEvent(c, built) ELSE built

\* capture_exception() and report(): nothing unless reporting is enabled.
Report(c, capture) == IF c.enabled THEN {Build(c, capture)} ELSE {}

-----------------------------------------------------------------------------
(* Spans *)

\* What a db.system may be: a database's name as it should be or ("MySQL") with
\* capitals in it and blanks around it, nothing but blanks, or not there.
Systems == {None, "mysql", "MySQL", "postgresql", "blank"}

DbSystem(system) == IF system = None THEN NoField ELSE Field("db.system", Raw(system))

SystemOf(data) == IF "db.system" \in DOMAIN data THEN data["db.system"].of ELSE None

\* Trimmed, in lower case and left out when nothing remains.
Tidied(system) == CASE system = "MySQL" -> "mysql"
                    [] system = "blank" -> None
                    [] OTHER -> system

\* Mutant: mask() does not lower what it is given.
IsMysqlAsWritten(system) == system = "mysql"

\* The rules mask() goes by; a mask made by MySQL's is told from one that is not.
IsMysql(system)   == Tidied(system) = "mysql"
MaskedFor(system) == IF IsMysql(system) THEN "masked_as_mysql" ELSE "masked"

\* ScopedSpan::set_statement(): the statement is masked as it is given, by the
\* rules of the db.system given with it, and both replace what the data had.
\* (A statement of blanks, which replaces nothing, is left out.)
SetStatement(kind, data, statement, system) ==
  IF kind # "database" THEN data
  ELSE Joined(Joined(DbSystem(system), Field("db.statement", Done(statement, MaskedFor(system)))),
              data)

\* SpanBuffer::span_data(): a database span's statement is masked, by the rules
\* of the db.system that goes out with it.
SpanData(kind, data) ==
  LET system == Tidied(SystemOf(data))
  IN  IF kind # "database" THEN data
      ELSE [f \in DOMAIN data \ (IF system = None THEN {"db.system"} ELSE {}) |->
              CASE f = "db.statement" -> Done(data[f], MaskedFor(system))
                [] f = "db.system" -> Raw(system)
                [] OTHER -> data[f]]

\* ... and under strict privacy it keeps those two only.
SpanFields(c, kind, data) ==
  LET fields == SpanData(kind, data)
      kept   == IF c.strict THEN {"db.statement", "db.system"} ELSE DOMAIN fields
  IN  [f \in kept \cap DOMAIN fields |-> fields[f]]

-----------------------------------------------------------------------------

Captures == [sql : BOOLEAN, user : Users,
             chain : BoundedSeq({"plain", "carried", "text", "foreign"}, MaxCauseDepth + 2) \ {<<>>}]

\* Under strict privacy an event holds no free text but the names of what its
\* SQL touched: the message as a fingerprint of what would have gone out, the
\* user's id, the allowed plain values, and no breadcrumb however early it
\* was recorded.
StrictHolds(c, e) ==
  c.strict =>
    /\ DOMAIN e.payload \subseteq {"message", "message_fingerprint", "backtrace", "sql_objects"}
    /\ e.payload["message"] = Nothing
    /\ e.crumbs = <<>> /\ DOMAIN e.user \subseteq {"id"}
    /\ \A key \in DOMAIN e.context : key \in c.allowed /\ e.context[key].of = "plain"

\* With scrubbing on, every piece of free text that goes out went through it,
\* the fingerprinted message included.
ScrubHolds(c, e) ==
  c.scrub =>
    /\ \A f \in DOMAIN e.payload \ {"sql_objects"} :
         e.payload[f] # Nothing => "scrubbed" \in e.payload[f].by
    /\ \A key \in DOMAIN e.context : e.context[key].by # {}

\* SQL only goes out masked, where the configuration lets it, and it is the
\* caller's statement before the exception's.
SqlHolds(c, capture, e) ==
  \A f \in {"sql_objects", "sql_statement"} \cap DOMAIN e.payload :
    /\ "masked" \in e.payload[f].by
    /\ IF f = "sql_objects" THEN c.objects ELSE c.statement
    /\ e.payload[f].of = IF capture.sql THEN "caller's statement" ELSE "exception's statement"

\* The trail is the latest of what was recorded, in order and without a gap,
\* and no more than max_breadcrumbs allowed when it last grew; as much as
\* that, if the configuration stayed as it was.
TrailIsLatest ==
  /\ IsSuffix(trail, recorded) /\ Len(trail) <= room
  /\ changes = 0 => Len(trail) = Min({room, Len(recorded)})

\* What a span sends whose own data hold a note, a statement and maybe a
\* db.system, and on which set_statement() was called or not.
Sent(c, kind, own, set, system) ==
  LET given == Joined(DbSystem(own), Joined(Field("note", Raw("note")),
                                            Field("db.statement", Raw("statement"))))
  IN  SpanFields(c, kind, IF set THEN SetStatement(kind, given, Raw("statement"), system)
                                 ELSE given)

\* A database span's statement goes out masked by the rules of the db.system
\* that goes out with it, whether or not it was masked when it was set.  It was
\* masked by no other rules either, save where the code does so: set without a
\* db_system on a span whose data name MySQL, it was masked by the standard's
\* first.  Under strict privacy a span of any kind keeps its statement and its
\* db.system only.  (Of another kind's statement this says nothing more: see
\* StrictSpansAreMasked.)
SpanHolds(c) ==
  \A kind \in {"database", "service"}, own, system \in Systems, set \in BOOLEAN :
    LET sent  == Sent(c, kind, own, set, system)
        rules == MaskedFor(SystemOf(sent))
    IN  /\ kind = "database" =>
             /\ rules \in sent["db.statement"].by
             /\ set /\ ~(system = None /\ IsMysql(own)) => sent["db.statement"].by = {rules}
        /\ DOMAIN sent \subseteq {"note", "db.statement", "db.system"}
        /\ "db.statement" \in DOMAIN sent
        /\ "note" \in DOMAIN sent <=> ~c.strict

\* What configuration.hpp and the README promise of strict privacy without
\* regard to a span's kind: the statement it keeps is a masked one.
StrictSpansAreMasked(c) ==
  \A kind \in {"database", "service"}, own, system \in Systems, set \in BOOLEAN :
    c.enabled /\ c.strict => Sent(c, kind, own, set, system)["db.statement"].by # {}

\* Whatever is captured now, and whatever was configured when, keeps to the
\* configuration as it is now.
EventsKeepToPolicy ==
  /\ TrailIsLatest /\ SpanHolds(config)
  /\ \A capture \in Captures : \A e \in Report(config, capture) :
       /\ config.enabled
       /\ StrictHolds(config, e) /\ ScrubHolds(config, e) /\ SqlHolds(config, capture, e)
=============================================================================
