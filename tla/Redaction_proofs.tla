--------------------------- MODULE Redaction_proofs ---------------------------
(***************************************************************************)
(* Theorems about what leaves the process, for every configuration, every   *)
(* text over every alphabet, and every time a request is given.             *)
(***************************************************************************)
EXTENDS Redaction, Scanners_proofs

-----------------------------------------------------------------------------
(* One request: client.cpp's timeout cap and what a status means *)

\* The cap of client.cpp:115 is a limit, and the sooner of the two, for every
\* pair of times: neither a configured 0 (no limit to curl) nor a deadline that
\* has already passed lets a drain's delivery run on.
THEOREM LimitIsTheSooner ==
  \A timeoutSeconds, maxTime \in Int : LimitHolds(timeoutSeconds, maxTime)
<1> SUFFICES ASSUME NEW timeoutSeconds \in Int, NEW maxTime \in Int
             PROVE  LimitHolds(timeoutSeconds, maxTime)
  OBVIOUS
<1>1. CASE timeoutSeconds > 0 /\ 1000 * timeoutSeconds < maxTime
  <2>1. Cap(timeoutSeconds, maxTime) = 1000 * timeoutSeconds
    BY <1>1 DEF Cap
  <2> QED
    BY <1>1, <2>1 DEF LimitHolds
<1>2. CASE ~(timeoutSeconds > 0 /\ 1000 * timeoutSeconds < maxTime)
  <2>1. Cap(timeoutSeconds, maxTime) = IF maxTime > 1 THEN maxTime ELSE 1
    BY <1>2 DEF Cap
  <2> QED
    BY <1>2, <2>1 DEF LimitHolds
<1> QED
  BY <1>1, <1>2

\* Whatever the configuration lacks, however long a request may take and
\* whatever libcurl comes back with, a batch is not dropped as delivered or as
\* rejected without the server's answer to a request that carried the key, and
\* no request with a time of its own goes out without a limit.
THEOREM NothingIsLetGoUnasked ==
  ASSUME NEW uri, NEW key, NEW timeoutSeconds \in Int, NEW maxTime \in Int, NEW answer \in Int
  PROVE  LetGoOnlyWhenTold(uri, key, timeoutSeconds, maxTime, answer)
<1> DEFINE posted == Post(uri, key, timeoutSeconds, {maxTime}, answer)
<1>1. CASE uri = {} \/ key = {} \/ answer = NoHandle
  <2>1. posted.requests = {} /\ posted.status = 0
    BY <1>1 DEF Post
  <2> QED
    BY <2>1 DEF LetGoOnlyWhenTold, Delivered, DropReason, DeliveryOutcome
<1>2. CASE ~(uri = {} \/ key = {} \/ answer = NoHandle)
  <2> DEFINE limit == Cap(timeoutSeconds, CHOOSE time \in {maxTime} : TRUE)
  <2>1. /\ posted.requests = {[to |-> uri, key |-> key, limit |-> limit]}
        /\ posted.status = IF answer = NoResponse THEN 0 ELSE answer
    BY <1>2 DEF Post
  <2>2. limit > 0
    <3>1. (CHOOSE time \in {maxTime} : TRUE) = maxTime
      OBVIOUS
    <3> QED
      BY <3>1, LimitIsTheSooner DEF LimitHolds, Cap
  <2>3. Delivered(posted) \/ DropReason(posted.status) = "rejected by the server" =>
          answer \in 200 .. 499
    BY <2>1 DEF Delivered, DropReason, DeliveryOutcome, NoResponse
  <2>4. posted.requests # {} /\ \A request \in posted.requests : request.limit > 0
    <3> HIDE DEF posted, limit
    <3> QED
      BY <2>1, <2>2
  <2> HIDE DEF posted
  <2>5. LET p == posted
        IN  /\ Delivered(p) \/ DropReason(p.status) = "rejected by the server" =>
                 p.requests # {} /\ uri # {} /\ key # {} /\ answer \in 200 .. 499
            /\ \A request \in p.requests : request.limit > 0
    BY <1>2, <2>3, <2>4
  <2> QED
    BY <2>5 DEF LetGoOnlyWhenTold, posted
<1> QED
  BY <1>1, <1>2

-----------------------------------------------------------------------------
(* The pieces of an event *)

\* The fields of two records put together, as payloads and span data are built.
LEMMA JoinedIs ==
  ASSUME NEW some, NEW more
  PROVE  /\ DOMAIN Joined(some, more) = DOMAIN some \cup DOMAIN more
         /\ \A f \in DOMAIN some : Joined(some, more)[f] = some[f]
         /\ \A f \in DOMAIN more \ DOMAIN some : Joined(some, more)[f] = more[f]
BY DEF Joined

LEMMA FieldIs ==
  ASSUME NEW name, NEW value
  PROVE  DOMAIN Field(name, value) = {name} /\ Field(name, value)[name] = value
BY DEF Field

LEMMA NoFieldIs == DOMAIN NoField = {}
BY DEF NoField

\* A piece of an event: what it is of, and what was done to it.
IsPiece(x) == x = [of |-> x.of, by |-> x.by]

LEMMA Pieces ==
  ASSUME NEW words, IsPiece(words), NEW pass
  PROVE  /\ IsPiece(Done(words, pass)) /\ Done(words, pass).of = words.of
         /\ Done(words, pass).by = words.by \cup {pass}
<1>1. Done(words, pass) = [of |-> words.of, by |-> words.by \cup {pass}]
  BY DEF IsPiece, Done
<1> QED
  BY <1>1 DEF IsPiece

LEMMA RawPieces ==
  ASSUME NEW what
  PROVE  IsPiece(Raw(what)) /\ Raw(what).of = what
BY DEF IsPiece, Raw

\* The statement that attach_sql() looks at, and that it was masked.
LEMMA StatementIs ==
  ASSUME NEW capture
  PROVE  LET st == Statement(capture)
         IN  /\ IsPiece(st)
             /\ st # Nothing => st.of = IF capture.sql THEN "caller's statement" ELSE "exception's statement"
<1>1. IsPiece(Raw("caller's statement")) /\ Raw("caller's statement").of = "caller's statement"
  BY RawPieces
<1>2. IsPiece(Raw("exception's statement")) /\ Raw("exception's statement").of = "exception's statement"
  BY RawPieces
<1>3. IsPiece(Nothing)
  BY RawPieces DEF Nothing
<1>4. CASE capture.sql
  BY <1>1, <1>4 DEF Statement
<1>5. CASE ~capture.sql
  BY <1>2, <1>3, <1>5 DEF Statement
<1> QED
  BY <1>4, <1>5

\* The fields that attach_sql() may add.
SqlFields == {"sql_objects", "sql_statement"}

\* What attach_sql() adds: masked, of the statement, and where c lets it.
LEMMA AttachSqlIs ==
  ASSUME NEW c, NEW capture
  PROVE  LET sql == AttachSql(c, Statement(capture))
         IN  /\ DOMAIN sql \subseteq SqlFields
             /\ \A f \in DOMAIN sql :
                  /\ IsPiece(sql[f]) /\ "masked" \in sql[f].by
                  /\ IF f = "sql_objects" THEN c.objects ELSE c.statement
                  /\ sql[f].of = IF capture.sql THEN "caller's statement" ELSE "exception's statement"
<1> DEFINE st == Statement(capture)
           masked == Done(st, "masked")
           objects == IF c.objects THEN Field("sql_objects", masked) ELSE NoField
           words == IF c.statement THEN Field("sql_statement", masked) ELSE NoField
           sql == AttachSql(c, st)
<1>1. IsPiece(st) /\ (st # Nothing => st.of = IF capture.sql THEN "caller's statement" ELSE "exception's statement")
  BY StatementIs
<1>2. IsPiece(masked) /\ masked.of = st.of /\ "masked" \in masked.by
  <2> HIDE DEF st
  <2>1. /\ IsPiece(Done(st, "masked")) /\ Done(st, "masked").of = st.of
        /\ Done(st, "masked").by = st.by \cup {"masked"}
    BY <1>1, Pieces
  <2> QED
    BY <2>1
<1>3. CASE st = Nothing
  <2>1. DOMAIN sql = {}
    BY <1>3, NoFieldIs DEF AttachSql
  <2> QED
    BY <2>1
<1>4. CASE st # Nothing
  <2>1. sql = Joined(objects, words)
    BY <1>4 DEF AttachSql
  <2> HIDE DEF st, masked
  <2>2. /\ DOMAIN objects = IF c.objects THEN {"sql_objects"} ELSE {}
        /\ DOMAIN words = IF c.statement THEN {"sql_statement"} ELSE {}
        /\ \A f \in DOMAIN objects : objects[f] = masked
        /\ \A f \in DOMAIN words : words[f] = masked
    <3>1. DOMAIN Field("sql_objects", masked) = {"sql_objects"} /\ Field("sql_objects", masked)["sql_objects"] = masked
      BY FieldIs
    <3>2. DOMAIN Field("sql_statement", masked) = {"sql_statement"} /\ Field("sql_statement", masked)["sql_statement"] = masked
      BY FieldIs
    <3> QED
      BY <3>1, <3>2, NoFieldIs
  <2> HIDE DEF objects, words
  <2>3. DOMAIN sql = DOMAIN objects \cup DOMAIN words /\ \A f \in DOMAIN sql : sql[f] = masked
    <3>1. /\ DOMAIN Joined(objects, words) = DOMAIN objects \cup DOMAIN words
          /\ \A f \in DOMAIN objects : Joined(objects, words)[f] = objects[f]
          /\ \A f \in DOMAIN words \ DOMAIN objects : Joined(objects, words)[f] = words[f]
      BY JoinedIs
    <3> HIDE DEF sql
    <3> QED
      BY <2>1, <2>2, <3>1
  <2> HIDE DEF sql
  <2>4. DOMAIN sql \subseteq SqlFields
    BY <2>2, <2>3 DEF SqlFields
  <2>5. ASSUME NEW f \in DOMAIN sql
        PROVE  /\ IsPiece(sql[f]) /\ "masked" \in sql[f].by
               /\ IF f = "sql_objects" THEN c.objects ELSE c.statement
               /\ sql[f].of = IF capture.sql THEN "caller's statement" ELSE "exception's statement"
    BY <1>1, <1>2, <1>4, <2>2, <2>3
  <2> QED
    BY <2>4, <2>5 DEF sql, st
<1> QED
  BY <1>3, <1>4

\* The payload of a capture before it is scrubbed, and after.
Crumbs(c) == IF trail # <<>> /\ ~c.strict THEN trail ELSE <<>>

Plain(c, capture) ==
  Joined(Joined([message |-> IF capture.chain[1] = "foreign" THEN Nothing ELSE Raw("message"),
                 backtrace |-> Raw("backtrace")],
                IF Crumbs(c) # <<>> THEN Field("breadcrumbs", Raw("crumbs")) ELSE NoField),
         AttachSql(c, Statement(capture)))

Payload(c, capture) == IF c.scrub THEN ScrubPayload(Plain(c, capture)) ELSE Plain(c, capture)

Values(c) == LET context == [key \in DOMAIN Context |-> Raw(Context[key])]
             IN  IF c.scrub THEN ScrubContext(context) ELSE context

\* An event as build() makes it before strict privacy cuts it down.
Built(c, capture) ==
  [payload |-> Payload(c, capture), crumbs |-> Crumbs(c), context |-> Values(c),
   user |-> IF capture.user = <<>> THEN user ELSE capture.user]

LEMMA BuildIs ==
  ASSUME NEW c, NEW capture
  PROVE  Build(c, capture) = IF c.strict THEN StrictEvent(c, Built(c, capture)) ELSE Built(c, capture)
BY DEF Build, Built, Payload, Plain, Values, Crumbs

\* What SqlHolds asks of a field.
SqlPiece(c, capture, f, piece) ==
  /\ "masked" \in piece.by
  /\ IF f = "sql_objects" THEN c.objects ELSE c.statement
  /\ piece.of = IF capture.sql THEN "caller's statement" ELSE "exception's statement"

\* The other fields of a payload.
FreeText == {"message", "backtrace", "breadcrumbs"}

LEMMA PlainIs ==
  ASSUME NEW c, NEW capture
  PROVE  LET p == Plain(c, capture)
         IN  /\ DOMAIN p \subseteq FreeText \cup SqlFields /\ "message" \in DOMAIN p
             /\ \A f \in DOMAIN p : /\ IsPiece(p[f])
                                    /\ f \in SqlFields => SqlPiece(c, capture, f, p[f])
<1> DEFINE first == [message |-> IF capture.chain[1] = "foreign" THEN Nothing ELSE Raw("message"),
                     backtrace |-> Raw("backtrace")]
           crumbs == IF Crumbs(c) # <<>> THEN Field("breadcrumbs", Raw("crumbs")) ELSE NoField
           both == Joined(first, crumbs)
           sql == AttachSql(c, Statement(capture))
           p == Plain(c, capture)
<1>1. /\ DOMAIN first = {"message", "backtrace"}
      /\ \A f \in DOMAIN first : IsPiece(first[f])
  <2>1. IsPiece(Raw("message")) /\ IsPiece(Nothing) /\ IsPiece(Raw("backtrace"))
    BY RawPieces DEF Nothing
  <2>2. DOMAIN first = {"message", "backtrace"}
    OBVIOUS
  <2>3. first.backtrace = Raw("backtrace") /\ first.message \in {Nothing, Raw("message")}
    OBVIOUS
  <2> HIDE DEF first
  <2> QED
    BY <2>1, <2>2, <2>3
<1>2. DOMAIN crumbs \subseteq {"breadcrumbs"} /\ \A f \in DOMAIN crumbs : IsPiece(crumbs[f])
  <2>1. /\ DOMAIN Field("breadcrumbs", Raw("crumbs")) = {"breadcrumbs"}
        /\ Field("breadcrumbs", Raw("crumbs"))["breadcrumbs"] = Raw("crumbs")
    BY FieldIs
  <2>2. IsPiece(Raw("crumbs"))
    BY RawPieces
  <2> QED
    BY <2>1, <2>2, NoFieldIs
<1>3. /\ DOMAIN sql \subseteq SqlFields
      /\ \A f \in DOMAIN sql : IsPiece(sql[f]) /\ SqlPiece(c, capture, f, sql[f])
  <2>1. /\ DOMAIN sql \subseteq SqlFields
        /\ \A f \in DOMAIN sql :
             /\ IsPiece(sql[f]) /\ "masked" \in sql[f].by
             /\ IF f = "sql_objects" THEN c.objects ELSE c.statement
             /\ sql[f].of = IF capture.sql THEN "caller's statement" ELSE "exception's statement"
    BY AttachSqlIs
  <2> HIDE DEF sql
  <2> QED
    BY <2>1 DEF SqlPiece
<1> HIDE DEF first, crumbs, sql
<1>4. /\ DOMAIN both = DOMAIN first \cup DOMAIN crumbs
      /\ \A f \in DOMAIN both : IsPiece(both[f])
  <2>1. /\ DOMAIN both = DOMAIN first \cup DOMAIN crumbs
        /\ \A f \in DOMAIN first : both[f] = first[f]
        /\ \A f \in DOMAIN crumbs \ DOMAIN first : both[f] = crumbs[f]
    BY JoinedIs
  <2> HIDE DEF both
  <2> QED
    BY <1>1, <1>2, <2>1
<1> HIDE DEF both
<1>5. /\ DOMAIN p = DOMAIN both \cup DOMAIN sql
      /\ \A f \in DOMAIN both : p[f] = both[f]
      /\ \A f \in DOMAIN sql \ DOMAIN both : p[f] = sql[f]
  <2>1. p = Joined(both, sql)
    BY DEF Plain, both, first, crumbs, sql
  <2>2. /\ DOMAIN Joined(both, sql) = DOMAIN both \cup DOMAIN sql
        /\ \A f \in DOMAIN both : Joined(both, sql)[f] = both[f]
        /\ \A f \in DOMAIN sql \ DOMAIN both : Joined(both, sql)[f] = sql[f]
    BY JoinedIs
  <2> HIDE DEF p
  <2> QED
    BY <2>1, <2>2
<1> HIDE DEF p
<1>6. DOMAIN both \subseteq FreeText /\ "message" \in DOMAIN both /\ FreeText \cap SqlFields = {}
  BY <1>1, <1>2, <1>4 DEF FreeText, SqlFields
<1>7. ASSUME NEW f \in DOMAIN p
      PROVE  IsPiece(p[f]) /\ (f \in SqlFields => SqlPiece(c, capture, f, p[f]))
  <2>1. CASE f \in DOMAIN both
    BY <1>4, <1>5, <1>6, <2>1
  <2>2. CASE f \notin DOMAIN both
    <3>1. f \in DOMAIN sql /\ p[f] = sql[f]
      BY <1>5, <2>2
    <3> QED
      BY <1>3, <3>1
  <2> QED
    BY <2>1, <2>2
<1> QED
  BY <1>3, <1>5, <1>6, <1>7 DEF p

\* Scrubbing a payload keeps its fields and what was done to them.
LEMMA PayloadIs ==
  ASSUME NEW c, NEW capture
  PROVE  LET p == Payload(c, capture)
         IN  /\ DOMAIN p \subseteq FreeText \cup SqlFields /\ "message" \in DOMAIN p
             /\ \A f \in DOMAIN p : /\ f \in SqlFields => SqlPiece(c, capture, f, p[f])
                                    /\ c.scrub /\ f # "sql_objects" => "scrubbed" \in p[f].by
<1> DEFINE q == Plain(c, capture)
           p == Payload(c, capture)
<1>1. /\ DOMAIN q \subseteq FreeText \cup SqlFields /\ "message" \in DOMAIN q
      /\ \A f \in DOMAIN q : IsPiece(q[f]) /\ (f \in SqlFields => SqlPiece(c, capture, f, q[f]))
  BY PlainIs
<1>2. p = IF c.scrub THEN ScrubPayload(q) ELSE q
  BY DEF Payload
<1> HIDE DEF p, q
<1>3. CASE ~c.scrub
  <2>1. p = q
    BY <1>2, <1>3
  <2> QED
    BY <1>1, <1>3, <2>1 DEF p
<1>4. CASE c.scrub
  <2> DEFINE scrubbed == {"message", "sql_statement", "backtrace", "breadcrumbs"}
  <2>1. /\ DOMAIN p = DOMAIN q
        /\ \A f \in DOMAIN p : p[f] = IF f \in scrubbed THEN Done(q[f], "scrubbed") ELSE q[f]
    BY <1>2, <1>4 DEF ScrubPayload
  <2>2. ASSUME NEW f \in DOMAIN p
        PROVE  /\ f \in SqlFields => SqlPiece(c, capture, f, p[f])
               /\ f # "sql_objects" => "scrubbed" \in p[f].by
    <3>1. CASE f \in scrubbed
      <4>1. p[f] = Done(q[f], "scrubbed") /\ IsPiece(q[f]) /\ (f \in SqlFields => SqlPiece(c, capture, f, q[f]))
        BY <1>1, <2>1, <3>1
      <4>2. Done(q[f], "scrubbed").of = q[f].of /\ Done(q[f], "scrubbed").by = q[f].by \cup {"scrubbed"}
        BY <4>1, Pieces
      <4> QED
        BY <4>1, <4>2 DEF SqlPiece
    <3>2. CASE f \notin scrubbed
      <4>1. p[f] = q[f] /\ f = "sql_objects"
        BY <1>1, <2>1, <3>2 DEF FreeText, SqlFields
      <4> QED
        BY <1>1, <2>1, <4>1
    <3> QED
      BY <3>1, <3>2
  <2> QED
    BY <1>1, <1>4, <2>1, <2>2 DEF p
<1> QED
  BY <1>3, <1>4

LEMMA ValuesAre ==
  ASSUME NEW c
  PROVE  \A key \in DOMAIN Values(c) : c.scrub => Values(c)[key].by # {}
<1> DEFINE context == [key \in DOMAIN Context |-> Raw(Context[key])]
<1>1. ASSUME c.scrub, NEW key \in DOMAIN Values(c) PROVE Values(c)[key].by # {}
  <2>1. Values(c) = ScrubContext(context)
    BY <1>1 DEF Values
  <2>2. IsPiece(Raw("plain")) /\ IsPiece(Raw(Context[key]))
    BY RawPieces
  <2>3. DOMAIN ScrubContext(context) = DOMAIN Context
    BY DEF ScrubContext
  <2>4. Values(c)[key] = IF key = "secret" THEN Done(Raw("plain"), "filtered")
                                           ELSE Done(Raw(Context[key]), "scrubbed")
    BY <1>1, <2>1, <2>3 DEF ScrubContext
  <2>5. /\ Done(Raw("plain"), "filtered").by = Raw("plain").by \cup {"filtered"}
        /\ Done(Raw(Context[key]), "scrubbed").by = Raw(Context[key]).by \cup {"scrubbed"}
    BY <2>2, Pieces
  <2> QED
    BY <2>4, <2>5
<1> QED
  BY <1>1

-----------------------------------------------------------------------------
(* Reports and spans keep to the configuration *)

\* What an event that is reported must keep to.
Keeps(c, capture, e) == StrictHolds(c, e) /\ ScrubHolds(c, e) /\ SqlHolds(c, capture, e)

\* Without strict privacy the event goes out as it was built.
LEMMA BuiltKeeps ==
  ASSUME NEW c, NEW capture, ~c.strict
  PROVE  Keeps(c, capture, Built(c, capture))
<1> DEFINE e == Built(c, capture)
           p == Payload(c, capture)
<1>1. e.payload = p /\ e.context = Values(c)
  BY DEF Built
<1>2. \A f \in DOMAIN p : /\ f \in SqlFields => SqlPiece(c, capture, f, p[f])
                          /\ c.scrub /\ f # "sql_objects" => "scrubbed" \in p[f].by
  BY PayloadIs
<1>3. \A key \in DOMAIN Values(c) : c.scrub => Values(c)[key].by # {}
  BY ValuesAre
<1> HIDE DEF e, p
<1>4. StrictHolds(c, e)
  BY DEF StrictHolds
<1>5. ScrubHolds(c, e)
  BY <1>1, <1>2, <1>3 DEF ScrubHolds
<1>6. SqlHolds(c, capture, e)
  BY <1>1, <1>2 DEF SqlHolds, SqlFields, SqlPiece
<1> QED
  BY <1>4, <1>5, <1>6 DEF Keeps, e

\* Under strict privacy strict_event() leaves out what free text there is; what it
\* adds, the fingerprint, is made of the message.
LEMMA StrictEventKeeps ==
  ASSUME NEW c, NEW capture, c.strict
  PROVE  Keeps(c, capture, StrictEvent(c, Built(c, capture)))
<1> DEFINE b == Built(c, capture)
           p == Payload(c, capture)
           e == StrictEvent(c, b)
           kept == [f \in DOMAIN p \ {"breadcrumbs", "sql_statement"} |->
                      IF f = "message" THEN Nothing ELSE p[f]]
           print == Field("message_fingerprint", p["message"])
           sent == Joined(kept, print)
<1>1. b.payload = p /\ b.context = Values(c)
  BY DEF Built
<1>2. /\ DOMAIN p \subseteq FreeText \cup SqlFields /\ "message" \in DOMAIN p
      /\ \A f \in DOMAIN p : /\ f \in SqlFields => SqlPiece(c, capture, f, p[f])
                             /\ c.scrub /\ f # "sql_objects" => "scrubbed" \in p[f].by
  BY PayloadIs
<1>3. \A key \in DOMAIN Values(c) : c.scrub => Values(c)[key].by # {}
  BY ValuesAre
<1>4. /\ e.payload = sent /\ e.crumbs = <<>>
      /\ e.context = Allowed(c, Values(c)) /\ e.user = UserId(b.user)
  BY <1>1 DEF StrictEvent
<1> HIDE DEF b, p, e
<1>5. /\ DOMAIN sent = (DOMAIN p \ {"breadcrumbs", "sql_statement"}) \cup {"message_fingerprint"}
      /\ \A f \in DOMAIN p \ {"breadcrumbs", "sql_statement"} :
           sent[f] = IF f = "message" THEN Nothing ELSE p[f]
      /\ sent["message_fingerprint"] = p["message"]
  <2>1. DOMAIN print = {"message_fingerprint"} /\ print["message_fingerprint"] = p["message"]
    BY FieldIs
  <2>2. /\ DOMAIN kept = DOMAIN p \ {"breadcrumbs", "sql_statement"}
        /\ \A f \in DOMAIN kept : kept[f] = IF f = "message" THEN Nothing ELSE p[f]
    OBVIOUS
  <2> HIDE DEF kept, print
  <2>3. /\ DOMAIN sent = DOMAIN kept \cup DOMAIN print
        /\ \A f \in DOMAIN kept : sent[f] = kept[f]
        /\ \A f \in DOMAIN print \ DOMAIN kept : sent[f] = print[f]
    BY JoinedIs
  <2> HIDE DEF sent
  <2>4. "message_fingerprint" \in DOMAIN print \ DOMAIN kept
    BY <1>2, <2>1, <2>2 DEF FreeText, SqlFields
  <2> QED
    BY <2>1, <2>2, <2>3, <2>4
<1> HIDE DEF sent
<1>6. /\ DOMAIN Allowed(c, Values(c)) \subseteq c.allowed \cap DOMAIN Values(c)
      /\ \A key \in DOMAIN Allowed(c, Values(c)) :
           Allowed(c, Values(c))[key] = Values(c)[key] /\ Values(c)[key].of = "plain"
  BY DEF Allowed
<1>7. DOMAIN UserId(b.user) \subseteq {"id"}
  BY DEF UserId
<1>8. StrictHolds(c, e)
  <2>1. DOMAIN e.payload \subseteq {"message", "message_fingerprint", "backtrace", "sql_objects"}
    BY <1>2, <1>4, <1>5 DEF FreeText, SqlFields
  <2>2. e.payload["message"] = Nothing
    BY <1>2, <1>4, <1>5
  <2> QED
    BY <1>4, <1>6, <1>7, <2>1, <2>2 DEF StrictHolds
<1>9. ScrubHolds(c, e)
  <2>1. ASSUME c.scrub, NEW f \in DOMAIN e.payload \ {"sql_objects"}, e.payload[f] # Nothing
        PROVE  "scrubbed" \in e.payload[f].by
    <3>1. CASE f = "message_fingerprint"
      BY <1>2, <1>4, <1>5, <2>1, <3>1
    <3>2. CASE f # "message_fingerprint"
      BY <1>2, <1>4, <1>5, <2>1, <3>2
    <3> QED
      BY <3>1, <3>2
  <2>2. c.scrub => \A key \in DOMAIN e.context : e.context[key].by # {}
    BY <1>3, <1>4, <1>6
  <2> QED
    BY <2>1, <2>2 DEF ScrubHolds
<1>10. SqlHolds(c, capture, e)
  <2>1. ASSUME NEW f \in {"sql_objects", "sql_statement"} \cap DOMAIN e.payload
        PROVE  SqlPiece(c, capture, f, e.payload[f])
    <3>1. f = "sql_objects" /\ f \in DOMAIN p /\ e.payload[f] = p[f]
      BY <1>4, <1>5
    <3> QED
      BY <1>2, <3>1 DEF SqlFields
  <2> QED
    BY <2>1 DEF SqlHolds, SqlPiece
<1> QED
  BY <1>8, <1>9, <1>10 DEF Keeps, e, b

\* Every report keeps to the configuration it is built under.
LEMMA ReportsKeep ==
  ASSUME NEW c, NEW capture, NEW e \in Report(c, capture)
  PROVE  c.enabled /\ Keeps(c, capture, e)
<1>1. c.enabled /\ e = Build(c, capture)
  BY DEF Report
<1>2. CASE c.strict
  BY <1>1, <1>2, BuildIs, StrictEventKeeps
<1>3. CASE ~c.strict
  BY <1>1, <1>3, BuildIs, BuiltKeeps
<1> QED
  BY <1>1, <1>2, <1>3

\* A db.system in a span's data is the one it was made with.
LEMMA DbSystemIs ==
  ASSUME NEW system \in Systems
  PROVE  /\ SystemOf(DbSystem(system)) = system
         /\ DOMAIN DbSystem(system) = IF system = None THEN {} ELSE {"db.system"}
<1>1. CASE system = None
  <2>1. DOMAIN DbSystem(system) = {}
    BY <1>1, NoFieldIs DEF DbSystem
  <2> QED
    BY <1>1, <2>1 DEF SystemOf
<1>2. CASE system # None
  <2>1. DbSystem(system) = Field("db.system", Raw(system))
    BY <1>2 DEF DbSystem
  <2>2. DOMAIN DbSystem(system) = {"db.system"} /\ DbSystem(system)["db.system"] = Raw(system)
    BY <2>1, FieldIs
  <2>3. Raw(system).of = system
    BY DEF Raw
  <2> QED
    BY <1>2, <2>2, <2>3 DEF SystemOf
<1> QED
  BY <1>1, <1>2

\* What a span's data are before its buffer builds it: IsData(data) says which
\* fields there are and that its statement is a piece of text.
IsData(data) ==
  /\ {"note", "db.statement"} \subseteq DOMAIN data
  /\ DOMAIN data \subseteq {"note", "db.statement", "db.system"}
  /\ IsPiece(data["db.statement"])

LEMMA GivenIs ==
  ASSUME NEW own \in Systems,
         NEW given, given = Joined(DbSystem(own), Joined(Field("note", Raw("note")),
                                                         Field("db.statement", Raw("statement"))))
  PROVE  IsData(given) /\ SystemOf(given) = own
<1> DEFINE note   == Field("note", Raw("note"))
           plain  == Field("db.statement", Raw("statement"))
           both   == Joined(note, plain)
           system == DbSystem(own)
<1>1. DOMAIN note = {"note"} /\ DOMAIN plain = {"db.statement"} /\ plain["db.statement"] = Raw("statement")
  BY FieldIs
<1>2. IsPiece(Raw("statement"))
  BY RawPieces
<1>3. /\ DOMAIN system = IF own = None THEN {} ELSE {"db.system"}
      /\ SystemOf(system) = own
  BY DbSystemIs
<1>4. given = Joined(system, both)
  OBVIOUS
<1> HIDE DEF note, plain, system
<1>5. /\ DOMAIN both = DOMAIN note \cup DOMAIN plain
      /\ \A f \in DOMAIN plain \ DOMAIN note : both[f] = plain[f]
  BY JoinedIs
<1> HIDE DEF both
<1>6. /\ DOMAIN given = DOMAIN system \cup DOMAIN both
      /\ \A f \in DOMAIN system : given[f] = system[f]
      /\ \A f \in DOMAIN both \ DOMAIN system : given[f] = both[f]
  <2>1. /\ DOMAIN Joined(system, both) = DOMAIN system \cup DOMAIN both
        /\ \A f \in DOMAIN system : Joined(system, both)[f] = system[f]
        /\ \A f \in DOMAIN both \ DOMAIN system : Joined(system, both)[f] = both[f]
    BY JoinedIs
  <2> QED
    BY <1>4, <2>1
<1>7. SystemOf(given) = own
  BY <1>1, <1>3, <1>5, <1>6 DEF SystemOf
<1>8. IsData(given)
  BY <1>1, <1>2, <1>3, <1>5, <1>6 DEF IsData
<1> QED
  BY <1>7, <1>8

\* What set_statement() leaves of them on a database span.
LEMMA StatementSet ==
  ASSUME NEW given, IsData(given), NEW system \in Systems,
         NEW data, data = SetStatement("database", given, Raw("statement"), system)
  PROVE  /\ IsData(data)
         /\ data["db.statement"].by = {MaskedFor(system)}
         /\ SystemOf(data) = IF system # None THEN system ELSE SystemOf(given)
<1> DEFINE masked == Field("db.statement", Done(Raw("statement"), MaskedFor(system)))
           named  == DbSystem(system)
           top    == Joined(named, masked)
<1>1. /\ DOMAIN masked = {"db.statement"}
      /\ masked["db.statement"] = Done(Raw("statement"), MaskedFor(system))
  BY FieldIs
<1>2. /\ IsPiece(Done(Raw("statement"), MaskedFor(system)))
      /\ Done(Raw("statement"), MaskedFor(system)).by = {MaskedFor(system)}
  <2>1. IsPiece(Raw("statement")) /\ Raw("statement").by = {}
    BY RawPieces DEF Raw
  <2>2. /\ IsPiece(Done(Raw("statement"), MaskedFor(system)))
        /\ Done(Raw("statement"), MaskedFor(system)).by = Raw("statement").by \cup {MaskedFor(system)}
    BY <2>1, Pieces
  <2> QED
    BY <2>1, <2>2
<1>3. /\ SystemOf(named) = system
      /\ DOMAIN named = IF system = None THEN {} ELSE {"db.system"}
  BY DbSystemIs
<1>4. data = Joined(top, given)
  BY DEF SetStatement
<1> HIDE DEF masked, named
<1>5. /\ DOMAIN top = DOMAIN named \cup DOMAIN masked
      /\ \A f \in DOMAIN named : top[f] = named[f]
      /\ \A f \in DOMAIN masked \ DOMAIN named : top[f] = masked[f]
  BY JoinedIs
<1> HIDE DEF top
<1>6. /\ DOMAIN data = DOMAIN top \cup DOMAIN given
      /\ \A f \in DOMAIN top : data[f] = top[f]
      /\ \A f \in DOMAIN given \ DOMAIN top : data[f] = given[f]
  <2>1. /\ DOMAIN Joined(top, given) = DOMAIN top \cup DOMAIN given
        /\ \A f \in DOMAIN top : Joined(top, given)[f] = top[f]
        /\ \A f \in DOMAIN given \ DOMAIN top : Joined(top, given)[f] = given[f]
    BY JoinedIs
  <2> QED
    BY <1>4, <2>1
<1>7. data["db.statement"] = Done(Raw("statement"), MaskedFor(system))
  BY <1>1, <1>3, <1>5, <1>6
<1>8. ASSUME system = None
      PROVE  SystemOf(data) = SystemOf(given)
  <2>1. DOMAIN top = {"db.statement"}
    BY <1>1, <1>3, <1>5, <1>8
  <2> QED
    BY <1>6, <2>1 DEF SystemOf
<1>9. ASSUME system # None
      PROVE  SystemOf(data) = system
  <2>1. "db.system" \in DOMAIN named /\ "db.system" \in DOMAIN data /\ data["db.system"] = named["db.system"]
    BY <1>3, <1>5, <1>6, <1>9
  <2> QED
    BY <1>3, <2>1 DEF SystemOf
<1>10. IsData(data)
  BY <1>1, <1>2, <1>3, <1>5, <1>6, <1>7 DEF IsData
<1> QED
  BY <1>2, <1>7, <1>8, <1>9, <1>10

\* What span_data() makes of them.
LEMMA SpanDataIs ==
  ASSUME NEW data, IsData(data), NEW fields, fields = SpanData("database", data)
  PROVE  /\ IsData(fields)
         /\ SystemOf(fields) = Tidied(SystemOf(data))
         /\ fields["db.statement"].by =
              data["db.statement"].by \cup {MaskedFor(Tidied(SystemOf(data)))}
<1> DEFINE system == Tidied(SystemOf(data))
           kept   == DOMAIN data \ (IF system = None THEN {"db.system"} ELSE {})
<1>1. /\ DOMAIN fields = kept
      /\ \A f \in kept : fields[f] = CASE f = "db.statement" -> Done(data[f], MaskedFor(system))
                                       [] f = "db.system" -> Raw(system)
                                       [] OTHER -> data[f]
  BY DEF SpanData
<1>2. Raw(system).of = system
  BY DEF Raw
<1>3. /\ IsPiece(Done(data["db.statement"], MaskedFor(system)))
      /\ Done(data["db.statement"], MaskedFor(system)).by =
           data["db.statement"].by \cup {MaskedFor(system)}
  BY Pieces DEF IsData
<1>4. "db.system" \notin DOMAIN data => system = None
  BY DEF SystemOf, Tidied, None
<1> HIDE DEF system
<1>5. fields["db.statement"] = Done(data["db.statement"], MaskedFor(system))
  BY <1>1 DEF IsData
<1>6. SystemOf(fields) = system
  BY <1>1, <1>2, <1>4 DEF SystemOf
<1>7. IsData(fields)
  BY <1>1, <1>3, <1>5 DEF IsData
<1> QED
  BY <1>3, <1>5, <1>6, <1>7 DEF system

\* The rules for a db.system are the rules for what goes out of it.
LEMMA RulesAreKept ==
  ASSUME NEW system \in Systems
  PROVE  /\ Tidied(Tidied(system)) = Tidied(system)
         /\ MaskedFor(Tidied(system)) = MaskedFor(system)
BY DEF Systems, Tidied, MaskedFor, IsMysql, None

\* What strict privacy leaves of them.
LEMMA FieldsAre ==
  ASSUME NEW c, NEW kind, NEW data, NEW fields, IsData(fields), fields = SpanData(kind, data),
         NEW sent, sent = SpanFields(c, kind, data)
  PROVE  /\ DOMAIN sent \subseteq {"note", "db.statement", "db.system"}
         /\ "db.statement" \in DOMAIN sent /\ sent["db.statement"] = fields["db.statement"]
         /\ "note" \in DOMAIN sent <=> ~c.strict
         /\ SystemOf(sent) = SystemOf(fields)
<1>1. /\ DOMAIN sent = (IF c.strict THEN {"db.statement", "db.system"} ELSE DOMAIN fields) \cap DOMAIN fields
      /\ \A f \in DOMAIN sent : sent[f] = fields[f]
  BY DEF SpanFields
<1> QED
  BY <1>1 DEF IsData, SystemOf

\* A span's data keep to the configuration, whichever way the statement was given.
LEMMA SpansKeep ==
  ASSUME NEW c
  PROVE  SpanHolds(c)
<1> SUFFICES ASSUME NEW kind \in {"database", "service"}, NEW own \in Systems,
                    NEW system \in Systems, NEW set \in BOOLEAN,
                    NEW sent, sent = Sent(c, kind, own, set, system)
             PROVE  /\ kind = "database" =>
                         /\ MaskedFor(SystemOf(sent)) \in sent["db.statement"].by
                         /\ set /\ ~(system = None /\ IsMysql(own)) =>
                              sent["db.statement"].by = {MaskedFor(SystemOf(sent))}
                    /\ DOMAIN sent \subseteq {"note", "db.statement", "db.system"}
                    /\ "db.statement" \in DOMAIN sent
                    /\ "note" \in DOMAIN sent <=> ~c.strict
  BY DEF SpanHolds
<1> DEFINE given == Joined(DbSystem(own), Joined(Field("note", Raw("note")),
                                                 Field("db.statement", Raw("statement"))))
           data   == IF set THEN SetStatement(kind, given, Raw("statement"), system) ELSE given
           fields == SpanData(kind, data)
<1>1. IsData(given) /\ SystemOf(given) = own
  BY GivenIs
<1>2. sent = SpanFields(c, kind, data)
  BY DEF Sent
<1> HIDE DEF given
<1>3. CASE kind = "database"
  <2>1. IsData(data)
    BY <1>1, <1>3, StatementSet
  <2>2. set => /\ data["db.statement"].by = {MaskedFor(system)}
               /\ SystemOf(data) = IF system # None THEN system ELSE own
    BY <1>1, <1>3, StatementSet
  <2> HIDE DEF data
  <2>3. /\ IsData(fields) /\ SystemOf(fields) = Tidied(SystemOf(data))
        /\ fields["db.statement"].by =
             data["db.statement"].by \cup {MaskedFor(Tidied(SystemOf(data)))}
    BY <1>3, <2>1, SpanDataIs
  <2> HIDE DEF fields
  <2>4. /\ DOMAIN sent \subseteq {"note", "db.statement", "db.system"}
        /\ "db.statement" \in DOMAIN sent /\ sent["db.statement"] = fields["db.statement"]
        /\ "note" \in DOMAIN sent <=> ~c.strict
        /\ SystemOf(sent) = SystemOf(fields)
    BY <1>2, <2>3, FieldsAre DEF fields
  <2>5. set /\ ~(system = None /\ IsMysql(own)) =>
          sent["db.statement"].by = {MaskedFor(SystemOf(sent))}
    <3> SUFFICES ASSUME set, ~(system = None /\ IsMysql(own))
                 PROVE  sent["db.statement"].by = {MaskedFor(SystemOf(sent))}
      OBVIOUS
    <3>1. MaskedFor(Tidied(SystemOf(data))) = MaskedFor(system)
      <4>1. CASE system # None
        BY <2>2, <4>1, RulesAreKept
      <4>2. CASE system = None
        <5>1. MaskedFor(system) = "masked" /\ MaskedFor(own) = "masked"
          BY <4>2 DEF MaskedFor, IsMysql, Tidied, None
        <5>2. MaskedFor(Tidied(own)) = MaskedFor(own)
          BY RulesAreKept
        <5> QED
          BY <2>2, <4>2, <5>1, <5>2
      <4> QED
        BY <4>1, <4>2
    <3> QED
      BY <2>2, <2>3, <2>4, <3>1
  <2> QED
    BY <2>3, <2>4, <2>5
<1>4. CASE kind # "database"
  <2>1. data = given
    BY <1>4 DEF SetStatement
  <2>2. fields = data
    BY <1>4 DEF SpanData
  <2> HIDE DEF data, fields
  <2>3. IsData(fields)
    BY <1>1, <2>1, <2>2
  <2> QED
    BY <1>2, <1>4, <2>3, FieldsAre DEF fields
<1> QED
  BY <1>3, <1>4

-----------------------------------------------------------------------------
(* Breadcrumbs *)

\* IsSuffix, which is defined by reversing, read at the places of both sequences.
LEMMA SuffixIs ==
  ASSUME NEW S, NEW u \in Seq(S), NEW v \in Seq(S)
  PROVE  IsSuffix(u, v) <=> /\ Len(u) <= Len(v)
                            /\ \A k \in 1 .. Len(u) : u[k] = v[Len(v) - Len(u) + k]
<1> DEFINE a == Len(u)
           b == Len(v)
           ru == Reverse(u)
           rv == Reverse(v)
           Same == \A k \in 1 .. a : u[k] = v[b - a + k]
<1>0. a \in Nat /\ b \in Nat
  OBVIOUS
<1>1. /\ ru \in Seq(S) /\ Len(ru) = a /\ \A k \in 1 .. a : ru[k] = u[a - k + 1]
      /\ rv \in Seq(S) /\ Len(rv) = b /\ \A k \in 1 .. b : rv[k] = v[b - k + 1]
  BY DEF Reverse
<1>2. IsSuffix(u, v) <=> a <= b /\ SubSeq(ru, 1, a) = SubSeq(rv, 1, a)
  <2> HIDE DEF ru, rv
  <2> QED
    BY <1>1 DEF IsSuffix, IsPrefix, ru, rv
<1> HIDE DEF ru, rv, a, b
<1>3. ASSUME a <= b
      PROVE  SubSeq(ru, 1, a) = SubSeq(rv, 1, a) <=> \A k \in 1 .. a : ru[k] = rv[k]
  <2> DEFINE su == SubSeq(ru, 1, a)
             sv == SubSeq(rv, 1, a)
  <2>1. su \in Seq(S) /\ Len(su) = a /\ \A k \in 1 .. a : su[k] = ru[k]
    BY <1>0, <1>1
  <2>2. sv \in Seq(S) /\ Len(sv) = a /\ \A k \in 1 .. a : sv[k] = rv[k]
    BY <1>0, <1>1, <1>3
  <2> HIDE DEF su, sv
  <2>3. su = sv <=> \A k \in 1 .. a : su[k] = sv[k]
    BY <2>1, <2>2, SeqEqual
  <2> QED
    BY <2>1, <2>2, <2>3 DEF su, sv
<1>4. ASSUME a <= b PROVE (\A k \in 1 .. a : ru[k] = rv[k]) <=> Same
  <2>1. ASSUME \A k \in 1 .. a : ru[k] = rv[k], NEW k \in 1 .. a PROVE u[k] = v[b - a + k]
    <3> DEFINE m == a - k + 1
    <3>1. m \in 1 .. a /\ m \in 1 .. b /\ a - m + 1 = k /\ b - m + 1 = b - a + k
      BY <1>0, <1>4
    <3> HIDE DEF m
    <3> QED
      BY <1>1, <2>1, <3>1, SMTT(30)
  <2>2. ASSUME Same, NEW k \in 1 .. a PROVE ru[k] = rv[k]
    <3> DEFINE m == a - k + 1
    <3>1. m \in 1 .. a /\ k \in 1 .. b /\ b - k + 1 = b - a + m
      BY <1>0, <1>4
    <3>2. ru[k] = u[m] /\ rv[k] = v[b - k + 1] /\ u[m] = v[b - a + m]
      BY <1>1, <2>2, <3>1
    <3> QED
      BY <3>1, <3>2
  <2> QED
    BY <2>1, <2>2
<1> QED
  BY <1>2, <1>3, <1>4 DEF a, b

LEMMA EmptyIsSuffix ==
  ASSUME NEW S, NEW e \in Seq(S), NEW f \in Seq(S), Len(e) = 0, Len(f) = 0
  PROVE  IsSuffix(e, f)
<1>1. \A k \in 1 .. Len(e) : FALSE
  OBVIOUS
<1>2. Len(e) <= Len(f) /\ \A k \in 1 .. Len(e) : e[k] = f[Len(f) - Len(e) + k]
  BY <1>1
<1> QED
  BY <1>2, SuffixIs

LEMMA NothingIsSuffix == IsSuffix(<<>>, <<>>)
<1>1. <<>> \in Seq(Nat) /\ Len(<<>>) = 0
  OBVIOUS
<1> QED
  BY <1>1, EmptyIsSuffix, Zenon

\* The last n elements of a sequence (breadcrumbs are cut to them).
LEMMA LastOfIs ==
  ASSUME NEW S, NEW s \in Seq(S), NEW n \in Nat
  PROVE  LET m == IF n < Len(s) THEN n ELSE Len(s)
         IN  /\ Min({n, Len(s)}) = m
             /\ LastOf(s, n) \in Seq(S) /\ Len(LastOf(s, n)) = m
             /\ \A k \in 1 .. m : LastOf(s, n)[k] = s[Len(s) - m + k]
<1> DEFINE m == IF n < Len(s) THEN n ELSE Len(s)
           low == Len(s) - m + 1
<1>1. Min({n, Len(s)}) = m
  <2>1. {n, Len(s)} \in SUBSET Nat /\ m \in {n, Len(s)} /\ \A k \in {n, Len(s)} : m <= k
    OBVIOUS
  <2> HIDE DEF m
  <2> QED
    BY <2>1, MinIsThat
<1>0. Len(s) \in Nat
  OBVIOUS
<1>2. m \in Nat /\ low \in 1 .. Len(s) + 1 /\ Len(s) \in Nat
  <2>1. m \in Nat /\ m <= Len(s)
    BY <1>0
  <2> HIDE DEF m
  <2> QED
    BY <1>0, <2>1
<1>3. LastOf(s, n) = SubSeq(s, low, Len(s))
  BY <1>1 DEF LastOf
<1> HIDE DEF m
<1>4. \A i \in low .. Len(s) : s[i] \in S
  BY <1>2
<1>5. /\ SubSeq(s, low, Len(s)) \in Seq(S)
      /\ Len(SubSeq(s, low, Len(s))) = IF low <= Len(s) THEN Len(s) - low + 1 ELSE 0
      /\ \A i \in 1 .. Len(s) - low + 1 : SubSeq(s, low, Len(s))[i] = s[low + i - 1]
  BY <1>2, <1>4, SubSeqProperties, SMTT(30)
<1>6. Len(LastOf(s, n)) = m
  BY <1>2, <1>3, <1>5
<1>7. ASSUME NEW k \in 1 .. m PROVE LastOf(s, n)[k] = s[Len(s) - m + k]
  <2>1. k \in 1 .. Len(s) - low + 1 /\ low + k - 1 = Len(s) - m + k
    BY <1>2
  <2> QED
    BY <1>3, <1>5, <2>1
<1> QED
  BY <1>1, <1>3, <1>5, <1>6, <1>7 DEF m

\* The inductive invariant of the events: the trail is the end of what was recorded, as
\* long as the room that the last crumb was added with - which is the configured one until
\* configure() is called again.
EventsInv ==
  /\ config \in Configurations /\ trail \in Seq(Nat) /\ recorded \in Seq(Nat)
  /\ added \in Nat /\ changes \in Nat /\ room \in Nat
  /\ TrailIsLatest
  /\ changes = 0 => recorded = <<>> \/ room = config.crumbs

\* It holds at the start,
LEMMA EventsStart == EventsInit => EventsInv
<1> SUFFICES ASSUME EventsInit PROVE EventsInv
  OBVIOUS
<1>1. /\ trail = <<>> /\ recorded = <<>> /\ changes = 0 /\ added = 0 /\ room = 0
      /\ config \in Configurations
  BY DEF EventsInit
<1>2. <<>> \in Seq(Nat) /\ Len(<<>>) = 0
  OBVIOUS
<1>3. IsSuffix(trail, recorded)
  BY <1>1, NothingIsSuffix
<1>4. Min({room, Len(recorded)}) = 0
  <2>1. {room, Len(recorded)} = {0}
    BY <1>1
  <2>2. Min({0}) = 0
    BY MinIsThat
  <2> QED
    BY <2>1, <2>2
<1> QED
  BY <1>1, <1>2, <1>3, <1>4 DEF EventsInv, TrailIsLatest

LEMMA TwoMin ==
  ASSUME NEW a \in Nat, NEW b \in Nat
  PROVE  Min({a, b}) = IF a < b THEN a ELSE b
<1> DEFINE m == IF a < b THEN a ELSE b
<1>1. {a, b} \in SUBSET Nat /\ m \in {a, b} /\ \A k \in {a, b} : m <= k
  OBVIOUS
<1> HIDE DEF m
<1>2. Min({a, b}) = m
  BY <1>1, MinIsThat
<1> QED
  BY <1>2 DEF m

\* ... and after every operation on the crumbs, the user and the settings.
LEMMA EventsStep == EventsInv /\ EventsNext => EventsInv'
<1> SUFFICES ASSUME EventsInv, EventsNext PROVE EventsInv'
  OBVIOUS
<1>0. /\ config \in Configurations /\ trail \in Seq(Nat) /\ recorded \in Seq(Nat)
      /\ added \in Nat /\ changes \in Nat /\ room \in Nat /\ TrailIsLatest
      /\ changes = 0 => recorded = <<>> \/ room = config.crumbs
  BY DEF EventsInv
<1>1. CASE Configure
  <2>1. changes' = changes + 1 /\ config' \in Configurations /\ UNCHANGED <<trail, added, recorded, room>>
    BY <1>1 DEF Configure
  <2>2. changes' \in Nat /\ changes' # 0
    BY <1>0, <2>1
  <2> QED
    BY <1>0, <2>1, <2>2 DEF EventsInv, TrailIsLatest
<1>2. CASE SetUser
  BY <1>0, <1>2 DEF SetUser, EventsInv, TrailIsLatest
<1>3. CASE AddBreadcrumb
  <2>1. added' = added + 1 /\ added' \in Nat /\ config' = config /\ changes' = changes
    BY <1>0, <1>3 DEF AddBreadcrumb
  <2>2. CASE config.track /\ ~config.strict
    <3> DEFINE all == Append(trail, added')
               n == config.crumbs
               m == IF n < Len(trail) + 1 THEN n ELSE Len(trail) + 1
    <3>1. trail' = LastOf(all, n) /\ recorded' = Append(recorded, added') /\ room' = n
      BY <1>3, <2>2 DEF AddBreadcrumb, Trimmed
    <3>2. n \in Nat
      BY <1>0, EventsAssumption
    <3>3. all \in Seq(Nat) /\ Len(all) = Len(trail) + 1
      BY <1>0, <2>1
    <3>4. /\ IsSuffix(trail, recorded) /\ Len(trail) <= room
          /\ changes = 0 => Len(trail) = Min({room, Len(recorded)})
      BY <1>0 DEF TrailIsLatest
    <3>5. /\ Len(trail) <= Len(recorded)
          /\ \A k \in 1 .. Len(trail) : trail[k] = recorded[Len(recorded) - Len(trail) + k]
      BY <1>0, <3>4, SuffixIs
    <3>6. /\ trail' \in Seq(Nat) /\ Len(trail') = m
          /\ \A k \in 1 .. m : trail'[k] = all[Len(all) - m + k]
      <4> DEFINE q == IF n < Len(all) THEN n ELSE Len(all)
      <4>1. q = m
        BY <3>3
      <4> HIDE DEF all, n, m, q
      <4>2. /\ LastOf(all, n) \in Seq(Nat) /\ Len(LastOf(all, n)) = q
            /\ \A k \in 1 .. q : LastOf(all, n)[k] = all[Len(all) - q + k]
        BY <3>2, <3>3, LastOfIs DEF q
      <4> QED
        BY <3>1, <4>1, <4>2
    <3> HIDE DEF n
    <3>7. recorded' \in Seq(Nat) /\ Len(recorded') = Len(recorded) + 1 /\ room' \in Nat
      BY <1>0, <2>1, <3>1, <3>2
    <3>8. Len(trail') <= room' /\ Len(trail') <= Len(recorded')
      BY <1>0, <3>1, <3>2, <3>5, <3>6, <3>7
    <3>9. ASSUME NEW k \in 1 .. Len(trail')
          PROVE  trail'[k] = recorded'[Len(recorded') - Len(trail') + k]
      <4> DEFINE p == Len(trail) + 1 - m + k
      <4>0. k \in 1 .. m /\ Len(trail) \in Nat /\ m \in Nat /\ m <= Len(trail) + 1
        BY <1>0, <3>2, <3>6
      <4>1. p \in 1 .. Len(trail) + 1 /\ trail'[k] = all[p]
        <5> HIDE DEF all, m
        <5>1. Len(all) - m + k = p
          BY <3>3, <4>0
        <5>2. p \in 1 .. Len(trail) + 1
          <6> DEFINE a == Len(trail)
          <6> HIDE DEF a
          <6>1. a + 1 - m + k \in 1 .. a + 1
            BY <4>0 DEF a
          <6> QED
            BY <6>1 DEF a
        <5> HIDE DEF p
        <5> QED
          BY <3>6, <4>0, <5>1, <5>2
      <4>2. Len(recorded') - Len(trail') + k = Len(recorded) - Len(trail) + p
        BY <1>0, <3>2, <3>6, <3>7
      <4> HIDE DEF p, m
      <4>3. CASE p = Len(trail) + 1
        <5>1. all[p] = added' /\ Len(recorded) - Len(trail) + p = Len(recorded) + 1
          BY <1>0, <2>1, <4>3
        <5>2. recorded'[Len(recorded) + 1] = added'
          BY <1>0, <2>1, <3>1
        <5> QED
          BY <4>1, <4>2, <5>1, <5>2
      <4>4. CASE p # Len(trail) + 1
        <5>1. p \in 1 .. Len(trail)
          BY <1>0, <4>1, <4>4
        <5>2. all[p] = trail[p] /\ trail[p] = recorded[Len(recorded) - Len(trail) + p]
          BY <1>0, <2>1, <3>5, <5>1
        <5>3. Len(recorded) - Len(trail) + p \in 1 .. Len(recorded)
          BY <1>0, <3>5, <5>1
        <5>4. recorded'[Len(recorded) - Len(trail) + p] = recorded[Len(recorded) - Len(trail) + p]
          <6> DEFINE q == Len(recorded) - Len(trail) + p
          <6> HIDE DEF q
          <6>1. q \in 1 .. Len(recorded)
            BY <5>3 DEF q
          <6>2. recorded'[q] = recorded[q]
            BY <1>0, <2>1, <3>1, <6>1
          <6> QED
            BY <6>2 DEF q
        <5> QED
          BY <4>1, <4>2, <5>2, <5>4
      <4> QED
        BY <4>3, <4>4
    <3>10. IsSuffix(trail', recorded')
      BY <3>6, <3>7, <3>8, <3>9, SuffixIs
    <3>11. ASSUME changes' = 0 PROVE Len(trail') = Min({room', Len(recorded')})
      <4>1. Min({room', Len(recorded')}) = IF n < Len(recorded) + 1 THEN n ELSE Len(recorded) + 1
        <5>1. Len(recorded') \in Nat
          BY <3>7
        <5> QED
          BY <3>1, <3>2, <3>7, <5>1, TwoMin
      <4>2. Len(trail) = Min({room, Len(recorded)}) /\ (recorded = <<>> \/ room = n)
        BY <1>0, <2>1, <3>4, <3>11 DEF n
      <4>3. Min({room, Len(recorded)}) = IF room < Len(recorded) THEN room ELSE Len(recorded)
        <5>1. Len(recorded) \in Nat /\ room \in Nat
          BY <1>0
        <5> QED
          BY <5>1, TwoMin
      <4>4. CASE recorded = <<>>
        <5>1. Len(recorded) = 0 /\ Len(trail) = 0
          BY <1>0, <3>5, <4>4
        <5> QED
          BY <3>2, <3>6, <4>1, <5>1
      <4>5. CASE room = n
        <5>1. Len(recorded) \in Nat
          BY <1>0
        <5> QED
          BY <3>2, <3>6, <4>1, <4>2, <4>3, <4>5, <5>1
      <4> QED
        BY <4>2, <4>4, <4>5
    <3>12. TrailIsLatest'
      BY <3>8, <3>10, <3>11 DEF TrailIsLatest
    <3>13. room' = config'.crumbs
      BY <2>1, <3>1 DEF n
    <3> QED
      BY <1>0, <2>1, <3>6, <3>7, <3>12, <3>13 DEF EventsInv
  <2>3. CASE ~(config.track /\ ~config.strict)
    <3>1. UNCHANGED <<trail, recorded, room>>
      BY <1>3, <2>3 DEF AddBreadcrumb
    <3> QED
      BY <1>0, <2>1, <3>1 DEF EventsInv, TrailIsLatest
  <2> QED
    BY <2>2, <2>3
<1>4. CASE ClearBreadcrumbs
  <2>1. trail' = <<>> /\ recorded' = <<>> /\ UNCHANGED <<config, changes, added, room>>
    BY <1>4 DEF ClearBreadcrumbs
  <2>2. <<>> \in Seq(Nat) /\ Len(<<>>) = 0
    OBVIOUS
  <2>3. IsSuffix(trail', recorded') /\ Len(trail') <= room'
    BY <1>0, <2>1, <2>2, NothingIsSuffix
  <2>4. Min({room', Len(recorded')}) = 0
    <3>1. Len(recorded') = 0 /\ room' \in Nat
      BY <1>0, <2>1, <2>2
    <3>2. Min({room', 0}) = 0
      BY <3>1, TwoMin
    <3> QED
      BY <3>1, <3>2
  <2>5. TrailIsLatest'
    BY <2>1, <2>2, <2>3, <2>4 DEF TrailIsLatest
  <2> QED
    BY <1>0, <2>1, <2>2, <2>5 DEF EventsInv
<1> QED
  BY <1>1, <1>2, <1>3, <1>4 DEF EventsNext

-----------------------------------------------------------------------------
(* Events and endpoints *)

\* So whatever is captured next keeps to the configuration.
LEMMA PolicyKept == EventsInv => EventsKeepToPolicy
<1> SUFFICES ASSUME EventsInv PROVE EventsKeepToPolicy
  OBVIOUS
<1>1. TrailIsLatest
  BY DEF EventsInv
<1>2. SpanHolds(config)
  BY SpansKeep
<1>3. ASSUME NEW capture \in Captures, NEW e \in Report(config, capture)
      PROVE  /\ config.enabled
             /\ StrictHolds(config, e) /\ ScrubHolds(config, e) /\ SqlHolds(config, capture, e)
  BY <1>3, ReportsKeep DEF Keeps
<1> QED
  BY <1>1, <1>2, <1>3 DEF EventsKeepToPolicy

\* The address in a DSN is made of its bytes.
LEMMA UriIsText ==
  ASSUME NEW S, NEW dsn \in Seq(S), NEW uri \in IngestionUri(dsn)
  PROVE  uri \in Seq(S)
<1> DEFINE rest == SubSeq(dsn, 5, Len(dsn))
           found == Find(rest, 1, {":", "@", "/"})
           host == IF At(rest, found) = "@" /\ At(rest, found + 1) \notin {NoByte, "/"} THEN found + 1 ELSE 1
           scheme == SubSeq(dsn, 1, 4)
           address == SubSeq(rest, host, Len(rest))
<1>1. uri = scheme \o address /\ Len(dsn) >= 4
  <2> DEFINE reads == /\ At(dsn, 1) \in {"http", "https"} /\ IsPrefix(<<":", "/", "/">>, Tail(dsn))
                      /\ At(rest, host) \notin {NoByte, "/"}
             parts == [key |-> PercentDecode(SubSeq(rest, 1, host - 2)), uri |-> scheme \o address]
  <2>1. PICK parsed \in ParseDsn(dsn) : uri = parsed.uri
    BY DEF IngestionUri
  <2>2. ParseDsn(dsn) = IF reads THEN {parts} ELSE {}
    BY DEF ParseDsn
  <2>3. parts.uri = scheme \o address
    OBVIOUS
  <2>4. reads /\ parsed = parts
    <3> HIDE DEF reads, parts
    <3> QED
      BY <2>1, <2>2
  <2>5. Len(dsn) >= 4
    <3>1. 1 \in DOMAIN dsn
      BY <2>4 DEF At, NoByte
    <3>2. Tail(dsn) \in Seq(S) /\ Len(Tail(dsn)) = Len(dsn) - 1
      <4>1. dsn # <<>>
        BY <3>1
      <4> QED
        BY <4>1
    <3>3. Len(<<":", "/", "/">>) <= Len(Tail(dsn))
      <4>1. IsPrefix(<<":", "/", "/">>, Tail(dsn))
        BY <2>4
      <4> QED
        BY <4>1 DEF IsPrefix
    <3> QED
      BY <3>2, <3>3
  <2> QED
    BY <2>1, <2>3, <2>4, <2>5
<1>2. rest \in Seq(S)
  <2>1. \A i \in 5 .. Len(dsn) : dsn[i] \in S
    OBVIOUS
  <2> QED
    BY <2>1, SubSeqProperties
<1>3. scheme \in Seq(S)
  <2>1. \A i \in 1 .. 4 : dsn[i] \in S
    BY <1>1
  <2> QED
    BY <2>1, SubSeqProperties
<1>4. host \in Nat \ {0}
  <2>1. found \in Nat
    <3> HIDE DEF rest
    <3> QED
      BY <1>2, FindIs
  <2> HIDE DEF found
  <2> QED
    BY <2>1
<1>5. address \in Seq(S)
  <2> HIDE DEF host, rest
  <2>1. \A i \in host .. Len(rest) : rest[i] \in S
    BY <1>2, <1>4
  <2>2. Len(rest) \in Nat
    BY <1>2
  <2> QED
    BY <1>4, <2>1, <2>2, SubSeqProperties
<1> QED
  <2> HIDE DEF scheme, address
  <2> QED
    BY <1>1, <1>3, <1>5

\* An address for events ends in "events" after a slash.
LEMMA SwapIs ==
  ASSUME NEW S, NEW uri \in Seq(S), IsSuffix(EventsSuffix, uri),
         NEW a, NEW b
  PROVE  LET to == SubSeq(uri, 1, Len(uri) - 2) \o <<a, b>>
         IN  /\ Len(to) = Len(uri) /\ to[Len(uri)] = b
             /\ uri[Len(uri)] = "events" /\ Len(uri) >= 2
<1> DEFINE T == S \cup {"/", "events"}
           n == Len(uri)
           m == n - 2
           head == SubSeq(uri, 1, m)
           to == head \o <<a, b>>
<1>0. uri \in Seq(T) /\ n \in Nat
  OBVIOUS
<1>1. EventsSuffix \in Seq(T) /\ Len(EventsSuffix) = 2 /\ EventsSuffix[2] = "events"
  BY DEF EventsSuffix
<1>2. n >= 2 /\ uri[n] = "events"
  <2>1. /\ Len(EventsSuffix) <= Len(uri)
        /\ \A k \in 1 .. Len(EventsSuffix) : EventsSuffix[k] = uri[Len(uri) - Len(EventsSuffix) + k]
    <3> HIDE DEF T
    <3> QED
      BY <1>0, <1>1, SuffixIs
  <2>2. EventsSuffix[2] = uri[Len(uri) - 2 + 2]
    BY <1>1, <2>1
  <2> HIDE DEF T
  <2> QED
    BY <1>0, <1>1, <2>1, <2>2
<1>3. head \in Seq(S) /\ Len(head) = m
  <2>1. \A i \in 1 .. m : uri[i] \in S
    BY <1>0, <1>2
  <2>2. m \in Nat
    BY <1>0, <1>2
  <2> HIDE DEF m
  <2> QED
    BY <2>1, <2>2, SubSeqProperties
<1>4. Len(to) = n /\ to[n] = b
  <2> DEFINE U == S \cup {a, b}
             pair == <<a, b>>
  <2>1. head \in Seq(U) /\ pair \in Seq(U) /\ Len(pair) = 2 /\ pair[2] = b
    BY <1>3
  <2> HIDE DEF head, U, pair
  <2>2. Len(head \o pair) = m + 2 /\ (head \o pair)[m + 2] = pair[2]
    <3>1. m \in Nat
      BY <1>0, <1>2
    <3>2. head \in Seq(U) /\ pair \in Seq(U) /\ Len(head) = m /\ Len(pair) = 2
      BY <1>3, <2>1
    <3> DEFINE both == head \o pair
    <3> HIDE DEF m
    <3>3. /\ Len(both) = Len(head) + Len(pair)
          /\ \A i \in 1 .. Len(head) + Len(pair) :
               both[i] = IF i <= Len(head) THEN head[i] ELSE pair[i - Len(head)]
      BY <3>2, ConcatProperties
    <3> HIDE DEF both
    <3>4. m + 2 \in 1 .. Len(head) + Len(pair) /\ ~(m + 2 <= Len(head)) /\ m + 2 - Len(head) = 2
      BY <3>1, <3>2
    <3>5. Len(both) = m + 2 /\ both[m + 2] = pair[2]
      BY <3>2, <3>3, <3>4
    <3> QED
      BY <3>5 DEF both
  <2> QED
    BY <1>0, <2>1, <2>2 DEF pair
<1> QED
  BY <1>2, <1>4

\* Every kind of report has an address of its own, for every DSN
\* (configuration.cpp's swap_events_suffix()).
LEMMA EachHasItsEndpoint ==
  ASSUME NEW S, NEW dsn \in Seq(S)
  PROVE  EndpointsDiffer(dsn)
<1> SUFFICES ASSUME NEW uri \in IngestionUri(dsn), IsSuffix(EventsSuffix, uri),
                    NEW suffix \in {<<"/", "spans">>, <<"/", "changes">>},
                    NEW other \in {<<"/", "spans">>, <<"/", "changes">>}
             PROVE  /\ Endpoint(dsn, suffix) # {uri}
                    /\ suffix # other => Endpoint(dsn, suffix) # Endpoint(dsn, other)
                    /\ \A to \in Endpoint(dsn, suffix) :
                         to = SubSeq(uri, 1, Len(to) - Len(suffix)) \o suffix /\ Len(to) = Len(uri)
  BY DEF EndpointsDiffer
<1>1. uri \in Seq(S) /\ IngestionUri(dsn) = {uri}
  <2>1. IngestionUri(dsn) = {uri}
    <3>1. \A p, q \in ParseDsn(dsn) : p = q
      BY DEF ParseDsn
    <3> QED
      BY <3>1 DEF IngestionUri
  <2> QED
    BY <2>1, UriIsText
<1> DEFINE head == SubSeq(uri, 1, Len(uri) - 2)
           Swapped(s) == head \o s
<1>2. \A s : Endpoint(dsn, s) = {Swapped(s)}
  BY <1>1 DEF Endpoint
<1>3. PICK b \in {"spans", "changes"} : suffix = <<"/", b>>
  OBVIOUS
<1>4. PICK c \in {"spans", "changes"} : other = <<"/", c>>
  OBVIOUS
<1>5. /\ Len(Swapped(suffix)) = Len(uri) /\ Swapped(suffix)[Len(uri)] = b
      /\ uri[Len(uri)] = "events"
  BY <1>1, <1>3, SwapIs
<1>6. Swapped(other)[Len(uri)] = c
  BY <1>1, <1>4, SwapIs
<1> HIDE DEF head
<1>7. Swapped(suffix) # uri
  BY <1>5
<1>8. suffix # other => Swapped(suffix) # Swapped(other)
  BY <1>3, <1>4, <1>5, <1>6
<1>9. Len(suffix) = 2
  BY <1>3
<1>10. Swapped(suffix) = SubSeq(uri, 1, Len(Swapped(suffix)) - Len(suffix)) \o suffix
  BY <1>5, <1>9 DEF head
<1> HIDE DEF Swapped
<1> QED
  BY <1>2, <1>5, <1>7, <1>8, <1>10

-----------------------------------------------------------------------------
(* Hosts and their targets *)

\* A cut's parts are as long as the places between its ends.
LEMMA PartIs ==
  ASSUME NEW S, NEW s \in Seq(S), NEW c, NEW at, NEW n, IsCut(at, n, s, c), NEW k \in 1 .. n
  PROVE  LET part == Between(s, at[k] + 1, at[k + 1])
         IN  /\ part \in Seq(S) /\ Len(part) = at[k + 1] - (at[k] + 1)
             /\ \A q \in 1 .. Len(part) : part[q] = s[at[k] + q]
             /\ at[k] \in Nat /\ at[k + 1] \in Nat /\ at[k] < at[k + 1] /\ at[k + 1] <= Len(s) + 1
<1> DEFINE part == Between(s, at[k] + 1, at[k + 1])
<1>1. /\ n \in Nat \ {0} /\ Len(s) \in Nat
      /\ \A a \in 1 .. n + 1 : at[a] \in 0 .. Len(s) + 1
      /\ \A a, b \in 1 .. n + 1 : a < b => at[a] < at[b]
  BY DEF IsCut
<1>2. k \in 1 .. n + 1 /\ k + 1 \in 1 .. n + 1 /\ k < k + 1
  BY <1>1
<1>3. /\ at[k] \in Nat /\ at[k + 1] \in Nat /\ at[k] < at[k + 1] /\ at[k + 1] <= Len(s) + 1
      /\ at[k] + 1 \in 1 .. Len(s) + 1 /\ at[k + 1] \in at[k] + 1 .. Len(s) + 1
  BY <1>1, <1>2
<1>4. /\ part \in Seq(S) /\ Len(part) = at[k + 1] - (at[k] + 1)
      /\ \A q \in 1 .. at[k + 1] - (at[k] + 1) : part[q] = s[(at[k] + 1) + q - 1]
  BY <1>3, BetweenIs
<1> HIDE DEF part
<1>5. ASSUME NEW q \in 1 .. Len(part) PROVE part[q] = s[at[k] + q]
  <2>1. (at[k] + 1) + q - 1 = at[k] + q
    BY <1>3
  <2> QED
    BY <1>4, <2>1
<1> QED
  BY <1>3, <1>4, <1>5 DEF part

\* The last labels of a text are those of another one exactly when the text ends with the
\* other, alone or behind a separator.
THEOREM LabelsEnd ==
  ASSUME NEW S, NEW h \in Seq(S), NEW d \in Seq(S), NEW c
  PROVE  IsSuffix(Split(d, c), Split(h, c)) <=> \E P : EndsWith(h, d, P) /\ (P = 0 \/ h[P] = c)
<1> DEFINE H == Split(h, c)
           D == Split(d, c)
<1>1. PICK n, at : IsSplit(at, n, h, c)
  BY SplitIs
<1>2. PICK m, bt : IsSplit(bt, m, d, c)
  BY SplitIs
<1>a. /\ IsCut(at, n, h, c) /\ H \in Seq(Seq(S)) /\ Len(H) = n
      /\ \A k \in 1 .. n : H[k] = Between(h, at[k] + 1, at[k + 1])
  BY <1>1, SplitIs DEF IsSplit
<1>b. /\ IsCut(bt, m, d, c) /\ D \in Seq(Seq(S)) /\ Len(D) = m
      /\ \A k \in 1 .. m : D[k] = Between(d, bt[k] + 1, bt[k + 1])
  BY <1>2, SplitIs DEF IsSplit
<1> HIDE DEF H, D
<1>h. /\ n \in Nat \ {0} /\ at[1] = 0 /\ at[n + 1] = Len(h) + 1
      /\ \A k \in 1 .. n + 1 : at[k] \in 0 .. Len(h) + 1
      /\ \A a, b \in 1 .. n + 1 : a < b => at[a] < at[b]
      /\ \A k \in 2 .. n : h[at[k]] = c
  BY <1>a DEF IsCut
<1>d. /\ m \in Nat \ {0} /\ bt[1] = 0 /\ bt[m + 1] = Len(d) + 1
      /\ \A k \in 1 .. m + 1 : bt[k] \in 0 .. Len(d) + 1
      /\ \A a, b \in 1 .. m + 1 : a < b => bt[a] < bt[b]
      /\ \A k \in 2 .. m : d[bt[k]] = c
      /\ \A i \in 1 .. Len(d) : d[i] = c => \E k \in 2 .. m : bt[k] = i
  BY <1>b DEF IsCut
<1>3. /\ n \in Nat \ {0} /\ m \in Nat \ {0} /\ Len(h) \in Nat /\ Len(d) \in Nat
      /\ at[1] = 0 /\ at[n + 1] = Len(h) + 1 /\ bt[1] = 0 /\ bt[m + 1] = Len(d) + 1
      /\ \A k \in 2 .. n : h[at[k]] = c
      /\ \A k \in 2 .. m : d[bt[k]] = c
      /\ \A i \in 1 .. Len(d) : d[i] = c => \E k \in 2 .. m : bt[k] = i
      /\ \A k \in 1 .. n + 1 : at[k] \in 0 .. Len(h) + 1
      /\ \A k \in 1 .. m + 1 : bt[k] \in 0 .. Len(d) + 1
  <2>1. Len(h) \in Nat /\ Len(d) \in Nat
    OBVIOUS
  <2> QED
    BY <1>h, <1>d, <2>1
<1>4. ASSUME NEW k \in 1 .. n
      PROVE  /\ H[k] \in Seq(S) /\ Len(H[k]) = at[k + 1] - (at[k] + 1)
             /\ \A q \in 1 .. Len(H[k]) : H[k][q] = h[at[k] + q]
             /\ at[k] \in Nat /\ at[k + 1] \in Nat /\ at[k] < at[k + 1] /\ at[k + 1] <= Len(h) + 1
  <2> DEFINE part == Between(h, at[k] + 1, at[k + 1])
  <2>1. /\ part \in Seq(S) /\ Len(part) = at[k + 1] - (at[k] + 1)
        /\ \A q \in 1 .. Len(part) : part[q] = h[at[k] + q]
        /\ at[k] \in Nat /\ at[k + 1] \in Nat /\ at[k] < at[k + 1] /\ at[k + 1] <= Len(h) + 1
    <3>1. IsCut(at, n, h, c)
      BY <1>a
    <3> QED
      BY <3>1, PartIs
  <2>2. H[k] = part
    BY <1>a
  <2> HIDE DEF part
  <2> QED
    BY <2>1, <2>2
<1>5. ASSUME NEW k \in 1 .. m
      PROVE  /\ D[k] \in Seq(S) /\ Len(D[k]) = bt[k + 1] - (bt[k] + 1)
             /\ \A q \in 1 .. Len(D[k]) : D[k][q] = d[bt[k] + q]
             /\ bt[k] \in Nat /\ bt[k + 1] \in Nat /\ bt[k] < bt[k + 1] /\ bt[k + 1] <= Len(d) + 1
  <2> DEFINE part == Between(d, bt[k] + 1, bt[k + 1])
  <2>1. /\ part \in Seq(S) /\ Len(part) = bt[k + 1] - (bt[k] + 1)
        /\ \A q \in 1 .. Len(part) : part[q] = d[bt[k] + q]
        /\ bt[k] \in Nat /\ bt[k + 1] \in Nat /\ bt[k] < bt[k + 1] /\ bt[k + 1] <= Len(d) + 1
    <3>1. IsCut(bt, m, d, c)
      BY <1>b
    <3> QED
      BY <3>1, PartIs
  <2>2. D[k] = part
    BY <1>b
  <2> HIDE DEF part
  <2> QED
    BY <2>1, <2>2
<1>6. IsSuffix(D, H) <=> m <= n /\ \A k \in 1 .. m : D[k] = H[n - m + k]
  BY <1>a, <1>b, SuffixIs, ZenonT(30)
<1>7. ASSUME NEW P, EndsWith(h, d, P), P = 0 \/ h[P] = c PROVE IsSuffix(D, H)
  <2>0. PICK o : GoesWith(at, n, bt, m, P, o)
    <3>1. IsCut(at, n, h, c) /\ IsCut(bt, m, d, c)
      BY <1>a, <1>b
    <3>2. EndsWith(h, d, P) /\ (P = 0 \/ h[P] = c)
      BY <1>7
    <3> QED
      BY <3>1, <3>2, CutsBehind
  <2>1. o \in 0 .. n - m /\ o + m = n
    BY <2>0 DEF GoesWith
  <2>1a. \A k \in 1 .. m + 1 : at[o + k] = P + bt[k]
    BY <2>0 DEF GoesWith
  <2>2. P \in Nat /\ Len(h) = P + Len(d) /\ \A q \in 1 .. Len(d) : h[P + q] = d[q]
    BY <1>7 DEF EndsWith
  <2>3. ASSUME NEW k \in 1 .. m PROVE D[k] = H[n - m + k]
    <3>1. n - m + k = o + k /\ o + k \in 1 .. n /\ k \in 1 .. m + 1 /\ k + 1 \in 1 .. m + 1 /\ o + (k + 1) = (o + k) + 1
      BY <1>3, <2>1
    <3>2. at[o + k] = P + bt[k] /\ at[(o + k) + 1] = P + bt[k + 1]
      BY <2>1a, <3>1
    <3>3. /\ H[o + k] \in Seq(S) /\ Len(H[o + k]) = at[(o + k) + 1] - (at[o + k] + 1)
          /\ \A q \in 1 .. Len(H[o + k]) : H[o + k][q] = h[at[o + k] + q]
      BY <1>4, <3>1
    <3>4. /\ D[k] \in Seq(S) /\ Len(D[k]) = bt[k + 1] - (bt[k] + 1)
          /\ \A q \in 1 .. Len(D[k]) : D[k][q] = d[bt[k] + q]
          /\ bt[k] \in Nat /\ bt[k + 1] \in Nat /\ bt[k] < bt[k + 1] /\ bt[k + 1] <= Len(d) + 1
      BY <1>5
    <3>5. Len(D[k]) = Len(H[o + k])
      BY <2>2, <3>2, <3>3, <3>4
    <3>6. ASSUME NEW q \in 1 .. Len(D[k]) PROVE D[k][q] = H[o + k][q]
      <4>1. bt[k] + q \in 1 .. Len(d) /\ at[o + k] + q = P + (bt[k] + q)
        <5>1. bt[k] \in Nat /\ bt[k + 1] \in Nat /\ bt[k + 1] <= Len(d) + 1 /\ q \in 1 .. bt[k + 1] - (bt[k] + 1)
          BY <3>4
        <5>2. bt[k] + q \in 1 .. Len(d)
          <6> DEFINE x == bt[k]
                     y == bt[k + 1]
          <6>1. x \in Nat /\ y \in Nat /\ y <= Len(d) + 1 /\ q \in 1 .. y - (x + 1) /\ Len(d) \in Nat
            BY <1>3, <5>1
          <6> HIDE DEF x, y
          <6>2. x + q \in 1 .. Len(d)
            BY <6>1
          <6> QED
            BY <6>2 DEF x
        <5>3. at[o + k] + q = P + (bt[k] + q)
          BY <2>2, <3>2, <5>1
        <5> QED
          BY <5>2, <5>3
      <4>2. h[P + (bt[k] + q)] = d[bt[k] + q]
        BY <2>2, <4>1
      <4> QED
        BY <3>3, <3>4, <3>5, <4>1, <4>2
    <3>7. D[k] = H[o + k]
      <4> DEFINE u == D[k]
                 v == H[o + k]
      <4>1. u \in Seq(S) /\ v \in Seq(S) /\ Len(u) = Len(v) /\ \A q \in 1 .. Len(u) : u[q] = v[q]
        BY <3>3, <3>4, <3>5, <3>6
      <4> HIDE DEF u, v
      <4>2. u = v
        BY <4>1
      <4> QED
        BY <4>2 DEF u, v
    <3> QED
      BY <3>1, <3>7
  <2> QED
    BY <1>3, <1>6, <2>1, <2>3
<1>8. ASSUME IsSuffix(D, H) PROVE \E P : EndsWith(h, d, P) /\ (P = 0 \/ h[P] = c)
  <2> DEFINE o == n - m
             P == at[o + 1]
             B == {k \in 0 .. m : at[o + k + 1] = P + bt[k + 1]}
  <2>0. o \in 0 .. n - 1 /\ o + m = n /\ \A k \in 1 .. m : D[k] = H[o + k]
    <3>1. m <= n /\ \A k \in 1 .. m : D[k] = H[n - m + k]
      BY <1>6, <1>8
    <3> QED
      BY <1>3, <3>1
  <2> HIDE DEF o
  <2>1. P \in Nat /\ (P = 0 \/ h[P] = c)
    <3>1. CASE o = 0
      BY <1>3, <3>1
    <3>2. CASE o # 0
      <4>1. o + 1 \in 2 .. n /\ o + 1 \in 1 .. n + 1
        BY <1>3, <2>0, <3>2
      <4> QED
        BY <1>3, <4>1
    <3> QED
      BY <3>1, <3>2
  <2>2. 0 \in B
    <3>1. 0 \in 0 .. m /\ o + 0 + 1 = o + 1 /\ 0 + 1 = 1 /\ P + 0 = P
      BY <1>3, <2>0, <2>1
    <3> QED
      BY <1>3, <3>1
  <2> HIDE DEF P
  <2>3. ASSUME NEW k \in 1 .. m, k - 1 \in B PROVE k \in B
    <3>1. /\ o + (k - 1) + 1 = o + k /\ (k - 1) + 1 = k /\ o + k \in 1 .. n
          /\ o + k + 1 = (o + k) + 1 /\ k \in 0 .. m
      BY <1>3, <2>0
    <3>2. at[o + (k - 1) + 1] = P + bt[(k - 1) + 1]
      BY <2>3
    <3>3. at[o + k] = P + bt[k]
      BY <3>1, <3>2
    <3>4. /\ Len(H[o + k]) = at[(o + k) + 1] - (at[o + k] + 1)
          /\ at[o + k] \in Nat /\ at[(o + k) + 1] \in Nat
      BY <1>4, <3>1
    <3>5. Len(D[k]) = bt[k + 1] - (bt[k] + 1) /\ bt[k] \in Nat /\ bt[k + 1] \in Nat
      BY <1>5
    <3>6. D[k] = H[o + k]
      BY <2>0
    <3>7. at[(o + k) + 1] - (at[o + k] + 1) = bt[k + 1] - (bt[k] + 1)
      BY <3>4, <3>5, <3>6
    <3>8. at[(o + k) + 1] = P + bt[k + 1]
      <4> DEFINE x == at[o + k]
                 y == at[(o + k) + 1]
      <4>1. x = P + bt[k] /\ y - (x + 1) = bt[k + 1] - (bt[k] + 1) /\ x \in Nat /\ y \in Nat
        BY <3>3, <3>4, <3>7
      <4> HIDE DEF x, y
      <4> DEFINE u == bt[k]
                 v == bt[k + 1]
      <4>2. x = P + u /\ y - (x + 1) = v - (u + 1) /\ u \in Nat /\ v \in Nat /\ P \in Nat
        BY <2>1, <3>5, <4>1
      <4> HIDE DEF u, v
      <4>3. y = P + v
        BY <4>1, <4>2
      <4> QED
        BY <4>3 DEF y, v
    <3> QED
      BY <3>1, <3>8
  <2>4. \A k \in 0 .. m : k \in B
    <3> HIDE DEF B
    <3> QED
      BY <1>3, <2>2, <2>3, UpTo
  <2>5. \A k \in 1 .. m + 1 : at[o + k] = P + bt[k]
    <3> TAKE k \in 1 .. m + 1
    <3>1. k - 1 \in 0 .. m /\ o + (k - 1) + 1 = o + k /\ (k - 1) + 1 = k
      BY <1>3, <2>0
    <3>2. at[o + (k - 1) + 1] = P + bt[(k - 1) + 1]
      BY <2>4, <3>1
    <3> QED
      BY <3>1, <3>2
  <2>6. Len(h) = P + Len(d)
    <3>1. m + 1 \in 1 .. m + 1 /\ o + (m + 1) = n + 1
      BY <1>3, <2>0
    <3>2. at[o + (m + 1)] = P + bt[m + 1]
      BY <2>5, <3>1
    <3> QED
      BY <1>3, <2>1, <3>1, <3>2
  <2>7. ASSUME NEW q \in 1 .. Len(d) PROVE h[P + q] = d[q]
    <3>1. CASE d[q] = c
      <4>1. PICK k \in 2 .. m : bt[k] = q
        BY <1>3, <3>1
      <4>2. o + k \in 2 .. n /\ k \in 1 .. m + 1
        BY <1>3, <2>0
      <4>3. at[o + k] = P + q /\ h[at[o + k]] = c
        BY <1>3, <2>5, <4>1, <4>2
      <4> QED
        BY <3>1, <4>3
    <3>2. CASE d[q] # c
      <4> DEFINE K == {k \in 1 .. m : bt[k] < q}
      <4>1. PICK k \in K : \A j \in K : j <= k
        <5>1. K \in SUBSET Int /\ m \in Int /\ \A j \in K : j <= m
          BY <1>3
        <5>2. 1 \in K
          BY <1>3
        <5> HIDE DEF K
        <5> QED
          BY <5>1, <5>2, Greatest
      <4>2. k \in 1 .. m /\ bt[k] < q /\ k + 1 \in 1 .. m + 1 /\ bt[k] \in Nat /\ bt[k + 1] \in Nat
        <5>1. k \in 1 .. m /\ bt[k] < q
          OBVIOUS
        <5>2. k + 1 \in 1 .. m + 1
          BY <1>3, <5>1
        <5> QED
          BY <1>5, <5>1, <5>2
      <4>3. q < bt[k + 1]
        <5>1. CASE k = m
          BY <1>3, <5>1
        <5>2. CASE k < m
          <6>1. k + 1 \in 2 .. m /\ k + 1 \in 1 .. m
            BY <1>3, <4>2, <5>2
          <6>2. ~(bt[k + 1] < q)
            <7>1. bt[k + 1] < q => k + 1 \in K
              BY <6>1
            <7>2. k + 1 \in K => k + 1 <= k
              BY <4>1
            <7> QED
              BY <4>2, <7>1, <7>2
          <6>3. bt[k + 1] # q
            BY <1>3, <3>2, <6>1
          <6> QED
            BY <4>2, <6>2, <6>3
        <5> QED
          BY <1>3, <4>2, <5>1, <5>2
      <4> HIDE DEF K
      <4>4. o + k \in 1 .. n /\ k \in 1 .. m + 1
        BY <1>3, <2>0, <4>2
      <4>5. at[o + k] = P + bt[k]
        BY <2>5, <4>4
      <4>6. D[k] = H[o + k]
        BY <2>0, <4>2
      <4>7. /\ Len(D[k]) = bt[k + 1] - (bt[k] + 1)
            /\ \A x \in 1 .. Len(D[k]) : D[k][x] = d[bt[k] + x]
        BY <1>5, <4>2
      <4>8. \A x \in 1 .. Len(H[o + k]) : H[o + k][x] = h[at[o + k] + x]
        BY <1>4, <4>4
      <4>9. q - bt[k] \in 1 .. Len(D[k]) /\ bt[k] + (q - bt[k]) = q /\ (P + bt[k]) + (q - bt[k]) = P + q
        BY <2>1, <4>2, <4>3, <4>7, SMTT(30)
      <4>10. D[k][q - bt[k]] = d[q] /\ H[o + k][q - bt[k]] = h[P + q]
        BY <4>5, <4>6, <4>7, <4>8, <4>9
      <4> QED
        BY <4>6, <4>10
    <3> QED
      BY <3>1, <3>2
  <2>8. EndsWith(h, d, P)
    BY <2>1, <2>6, <2>7 DEF EndsWith
  <2> QED
    BY <2>1, <2>8
<1> QED
  BY <1>7, <1>8 DEF H, D

\* Lower case is final, and keeps the length.
LEMMA LowersAreLower ==
  /\ DOMAIN LowerOrder = DOMAIN UpperOrder
  /\ \A k \in DOMAIN LowerOrder : LowerOrder[k] \notin Uppers
<1>1. DOMAIN LowerOrder = DOMAIN UpperOrder
  BY SMT DEF LowerOrder, UpperOrder
<1>2. Lowers \cap Uppers = {}
  BY SMT DEF Lowers, Uppers, LowerOrder, UpperOrder, Range
<1>3. \A k \in DOMAIN LowerOrder : LowerOrder[k] \in Lowers
  BY DEF Lowers, Range
<1> QED
  BY <1>1, <1>2, <1>3

\* A byte in lower case.
LowerByte(c) == IF c \in Uppers THEN LowerOrder[Rank(c, UpperOrder) + 1] ELSE c

LEMMA LowerTwice ==
  ASSUME NEW S, NEW s \in Seq(S)
  PROVE  /\ Lower(s) \in Seq({LowerByte(c) : c \in S}) /\ Len(Lower(s)) = Len(s)
         /\ Lower(Lower(s)) = Lower(s)
<1> DEFINE L == {LowerByte(c) : c \in S}
           t == Lower(s)
<1>1. \A c : LowerByte(c) \notin Uppers
  <2> TAKE c
  <2>1. CASE c \in Uppers
    <3> DEFINE k == CHOOSE k \in DOMAIN UpperOrder : UpperOrder[k] = c
    <3>1. \E x \in DOMAIN UpperOrder : UpperOrder[x] = c
      BY <2>1 DEF Uppers, Range
    <3>2. k \in DOMAIN UpperOrder
      BY <3>1
    <3>3. k \in Int
      <4>1. \A x \in DOMAIN UpperOrder : x \in Int
        BY SMT DEF UpperOrder
      <4> QED
        BY <3>2, <4>1
    <3>4. Rank(c, UpperOrder) = k - 1
      BY DEF Rank
    <3> HIDE DEF k
    <3>5. Rank(c, UpperOrder) + 1 = k
      BY <3>3, <3>4
    <3> QED
      BY <2>1, <3>2, <3>5, LowersAreLower DEF LowerByte
  <2>2. CASE c \notin Uppers
    BY <2>2 DEF LowerByte
  <2> QED
    BY <2>1, <2>2
<1>2. t = [k \in 1 .. Len(s) |-> LowerByte(s[k])]
  BY DEF Lower, LowerByte
<1>3. \A k \in 1 .. Len(s) : LowerByte(s[k]) \in L
  OBVIOUS
<1> HIDE DEF L, t
<1>4. t \in Seq(L) /\ Len(t) = Len(s) /\ \A k \in 1 .. Len(s) : t[k] = LowerByte(s[k])
  BY <1>2, <1>3
<1>5. Lower(t) = [k \in 1 .. Len(s) |-> LowerByte(t[k])]
  <2>1. DOMAIN t = 1 .. Len(s)
    BY <1>4
  <2> QED
    BY <2>1 DEF Lower, LowerByte
<1>6. \A k \in 1 .. Len(s) : LowerByte(t[k]) = t[k]
  <2> TAKE k \in 1 .. Len(s)
  <2>1. t[k] \notin Uppers
    BY <1>1, <1>4
  <2> QED
    BY <2>1 DEF LowerByte
<1>7. Lower(t) = t
  BY <1>2, <1>4, <1>5, <1>6
<1> QED
  BY <1>4, <1>7 DEF t, L

\* A host is a target's by its bytes exactly when it is by its labels.
LEMMA MatchesIs ==
  ASSUME NEW S, NEW host \in Seq(S), NEW target \in Seq(S)
  PROVE  Matches(Lower(host), target) <=> MatchesByLabel(Lower(host), target)
<1> DEFINE bare == WithoutLeadingDot(target)
           h == Lower(host)
           d == Lower(bare)
           p == Len(h) - Len(d)
           L == {LowerByte(c) : c \in S}
<1>1. bare \in Seq(S)
  <2>1. CASE At(target, 1) = "."
    <3>1. target # <<>>
      <4> SUFFICES ASSUME target = <<>> PROVE FALSE
        OBVIOUS
      <4>1. At(target, 1) = NoByte
        BY DEF At
      <4> QED
        BY <2>1, <4>1, Zenon DEF NoByte
    <3>2. Tail(target) \in Seq(S)
      BY <3>1
    <3> QED
      BY <2>1, <3>2 DEF WithoutLeadingDot
  <2>2. CASE At(target, 1) # "."
    BY <2>2 DEF WithoutLeadingDot
  <2> QED
    BY <2>1, <2>2
<1> HIDE DEF bare
<1>2. h \in Seq(L) /\ d \in Seq(L) /\ Len(d) = Len(bare)
  BY <1>1, LowerTwice
<1>3. MatchesByLabel(h, target) <=> bare # <<>> /\ IsSuffix(Split(d, "."), Split(h, "."))
  BY DEF MatchesByLabel, Labels, bare
<1>4. Matches(h, target) <=>
        /\ d # <<>> /\ p >= 0
        /\ h = d \/ (p > 0 /\ h[p] = "." /\ SubSeq(h, p + 1, Len(h)) = d)
  BY DEF Matches, bare
<1> HIDE DEF h, d, L
<1>5. d # <<>> <=> bare # <<>>
  <2>1. \A s \in Seq(L) : s = <<>> <=> Len(s) = 0
    OBVIOUS
  <2>2. \A s \in Seq(S) : s = <<>> <=> Len(s) = 0
    OBVIOUS
  <2> QED
    BY <1>1, <1>2, <2>1, <2>2
<1>6. IsSuffix(Split(d, "."), Split(h, ".")) <=> \E P : EndsWith(h, d, P) /\ (P = 0 \/ h[P] = ".")
  BY <1>2, LabelsEnd
<1>7. Len(h) \in Nat /\ Len(d) \in Nat
  BY <1>2
<1>8. \A P : EndsWith(h, d, P) => P = p /\ p >= 0
  <2> TAKE P
  <2> HAVE EndsWith(h, d, P)
  <2>1. P \in Nat /\ Len(h) = P + Len(d)
    BY DEF EndsWith
  <2> QED
    BY <1>7, <2>1
<1>9. EndsWith(h, d, p) /\ p = 0 <=> h = d
  <2>1. ASSUME h = d PROVE EndsWith(h, d, p) /\ p = 0
    <3>1. p = 0
      BY <1>7, <2>1
    <3>2. \A q \in 1 .. Len(d) : p + q = q
      BY <3>1
    <3> HIDE DEF p
    <3>3. Len(h) = p + Len(d) /\ \A q \in 1 .. Len(d) : h[p + q] = d[q]
      BY <1>7, <2>1, <3>1, <3>2
    <3> QED
      BY <3>1, <3>3 DEF EndsWith
  <2>2. ASSUME EndsWith(h, d, p), p = 0 PROVE h = d
    <3> HIDE DEF p
    <3>1. Len(h) = Len(d)
      BY <1>7, <2>2 DEF EndsWith
    <3>2. \A q \in 1 .. Len(d) : h[q] = d[q]
      <4> TAKE q \in 1 .. Len(d)
      <4>1. p + q = q
        BY <2>2
      <4> QED
        BY <2>2, <4>1 DEF EndsWith
    <3> QED
      BY <1>2, <3>1, <3>2
  <2> QED
    BY <2>1, <2>2
<1>10. ASSUME p > 0 PROVE EndsWith(h, d, p) <=> SubSeq(h, p + 1, Len(h)) = d
  <2> DEFINE t == SubSeq(h, p + 1, Len(h))
  <2>0. p \in Nat /\ p <= Len(h) /\ Len(h) = p + Len(d) /\ Len(h) - p = Len(d)
    BY <1>7, <1>10
  <2> HIDE DEF p
  <2>1. t \in Seq(L) /\ Len(t) = Len(d) /\ \A q \in 1 .. Len(d) : t[q] = h[p + q]
    <3>1. \A k \in p + 1 .. Len(h) : h[k] \in L
      BY <1>2, <2>0
    <3>2. /\ t \in Seq(L) /\ Len(t) = IF p + 1 <= Len(h) THEN Len(h) - (p + 1) + 1 ELSE 0
          /\ \A q \in 1 .. Len(h) - (p + 1) + 1 : t[q] = h[(p + 1) + q - 1]
      BY <1>7, <2>0, <3>1, SubSeqProperties
    <3> HIDE DEF t
    <3>3. Len(t) = Len(d)
      BY <1>7, <2>0, <3>2
    <3>4. ASSUME NEW q \in 1 .. Len(d) PROVE t[q] = h[p + q]
      <4>1. q \in 1 .. Len(h) - (p + 1) + 1 /\ (p + 1) + q - 1 = p + q
        BY <1>7, <2>0
      <4> QED
        BY <3>2, <4>1
    <3> QED
      BY <3>2, <3>3, <3>4
  <2> HIDE DEF t
  <2>2. t = d <=> \A q \in 1 .. Len(d) : h[p + q] = d[q]
    <3>1. ASSUME \A q \in 1 .. Len(d) : t[q] = d[q] PROVE t = d
      <4>1. t \in Seq(L) /\ d \in Seq(L) /\ Len(t) = Len(d)
        BY <1>2, <2>1
      <4>2. \A q \in 1 .. Len(t) : t[q] = d[q]
        BY <3>1, <4>1
      <4> HIDE DEF d
      <4> QED
        BY ONLY <4>1, <4>2, SMT
    <3>2. ASSUME t = d PROVE \A q \in 1 .. Len(d) : t[q] = d[q]
      BY <3>2, Zenon
    <3> QED
      BY <2>1, <3>1, <3>2
  <2>3. EndsWith(h, d, p) <=> \A q \in 1 .. Len(d) : h[p + q] = d[q]
    BY <2>0 DEF EndsWith
  <2> QED
    BY <2>2, <2>3 DEF t
<1> HIDE DEF p
<1>11. p \in Int
  BY <1>7 DEF p
<1>12. (\E P : EndsWith(h, d, P) /\ (P = 0 \/ h[P] = ".")) <=>
         p >= 0 /\ EndsWith(h, d, p) /\ (p = 0 \/ h[p] = ".")
  BY <1>8
<1>13. p >= 0 => (p = 0 \/ p > 0)
  BY <1>11
<1>14. h = d => p = 0
  BY <1>9
<1>15. ~(p = 0 /\ p > 0)
  OBVIOUS
<1> QED
  BY <1>3, <1>4, <1>5, <1>6, <1>9, <1>10, <1>12, <1>13, <1>14, <1>15 DEF h

\* Where a URL's scheme ends.
LEMMA SchemeEndIs ==
  ASSUME NEW S, NEW url \in Seq(S)
  PROVE  SchemeEnd(url) \in Nat /\ (SchemeEnd(url) = 0 \/ SchemeEnd(url) + 2 <= Len(url))
<1> DEFINE at == {i \in 1 .. Len(url) - 2 : SubSeq(url, i, i + 2) = <<":", "/", "/">>}
<1>0. Len(url) \in Nat
  OBVIOUS
<1>1. SchemeEnd(url) = IF at = {} THEN 0 ELSE Min(at)
  BY DEF SchemeEnd
<1>2. at \subseteq 1 .. Len(url) - 2
  OBVIOUS
<1> HIDE DEF at
<1>3. ASSUME at # {} PROVE Min(at) \in at
  BY <1>0, <1>2, <1>3, MinOf
<1>4. CASE at = {}
  BY <1>1, <1>4
<1>5. CASE at # {}
  <2>1. SchemeEnd(url) = Min(at) /\ Min(at) \in 1 .. Len(url) - 2
    BY <1>1, <1>2, <1>3, <1>5
  <2> QED
    BY <1>0, <2>1
<1> QED
  BY <1>4, <1>5

\* An authority's last part, its credentials aside, lies in a URL from i up to p.
IsAuthorityAt(url, from, i, p) ==
  /\ \A k \in from .. p - 1 : url[k] \notin {"/", "?", "#"}
  /\ p = Len(url) + 1 \/ url[p] \in {"/", "?", "#"}
  /\ i = from \/ url[i - 1] = "@"
  /\ \A k \in i .. p - 1 : url[k] # "@"

\* The place a call is made to, in a URL whose authority starts at from.
Place(url, from) ==
  LET end == Find(url, from, {"/", "?", "#"})
  IN  HostAndPort(Between(url, from, IF end = 0 THEN Len(url) + 1 ELSE end))

\* The place lies where IsAuthorityAt says, and nowhere else.
LEMMA PlaceIs ==
  ASSUME NEW S, NEW url \in Seq(S), NEW from \in 1 .. Len(url) + 1
  PROVE  \E p \in from .. Len(url) + 1 : \E i \in from .. p :
           IsAuthorityAt(url, from, i, p) /\ Place(url, from) = SubSeq(url, i, p - 1)
<1> DEFINE C == {"/", "?", "#"}
           end == Find(url, from, C)
           p == IF end = 0 THEN Len(url) + 1 ELSE end
           whole == SubSeq(url, from, p - 1)
<1>0. Len(url) \in Nat
  OBVIOUS
<1>1. \/ end \in from .. Len(url) /\ url[end] \in C /\ \A k \in from .. end - 1 : url[k] \notin C
      \/ end = 0 /\ \A k \in from .. Len(url) : url[k] \notin C
  BY FindIs
<1>2. Place(url, from) = AfterLast(whole, "@")
  BY DEF Place, HostAndPort, Between
<1> HIDE DEF end, C
<1>3. /\ p \in from .. Len(url) + 1 /\ \A k \in from .. p - 1 : url[k] \notin C
      /\ p = Len(url) + 1 \/ url[p] \in C
  BY <1>0, <1>1
<1> HIDE DEF p
<1>4. whole \in Seq(S) /\ Len(whole) = p - from /\ \A k \in 1 .. p - from : whole[k] = url[from + k - 1]
  <2>1. \A k \in from .. p - 1 : url[k] \in S
    BY <1>0, <1>3
  <2>2. /\ whole \in Seq(S) /\ Len(whole) = IF from <= p - 1 THEN (p - 1) - from + 1 ELSE 0
        /\ \A k \in 1 .. (p - 1) - from + 1 : whole[k] = url[from + k - 1]
    BY <1>0, <1>3, <2>1, SubSeqProperties
  <2>3. (p - 1) - from + 1 = p - from /\ p \in Int /\ from \in Int /\ from <= p
    BY <1>0, <1>3
  <2> HIDE DEF whole
  <2> QED
    BY <2>2, <2>3
<1>5. PICK l \in 0 .. Len(whole) :
        /\ AfterLast(whole, "@") = SubSeq(whole, l + 1, Len(whole))
        /\ \A k \in l + 1 .. Len(whole) : whole[k] # "@"
        /\ l > 0 => whole[l] = "@"
  <2> HIDE DEF whole
  <2> QED
    BY <1>4, AfterLastIs
<1>6. l \in 0 .. p - from /\ from \in Nat /\ p \in Nat /\ from >= 1
  BY <1>0, <1>3, <1>4, <1>5
<1>7. AfterLast(whole, "@") = SubSeq(url, from + l, p - 1)
  <2>1. /\ p - 1 \in from - 1 .. Len(url) /\ l + 1 \in 1 .. (p - 1) - from + 2
        /\ p - from \in (l + 1) - 1 .. (p - 1) - from + 1
    BY <1>0, <1>3, <1>6
  <2>2. SubSeq(SubSeq(url, from, p - 1), l + 1, p - from) = SubSeq(url, from + (l + 1) - 1, from + (p - from) - 1)
    <3> HIDE DEF whole
    <3> QED
      BY <1>0, <1>3, <2>1, PartOfPart
  <2>3. from + (l + 1) - 1 = from + l /\ from + (p - from) - 1 = p - 1
    BY <1>6
  <2>4. SubSeq(whole, l + 1, p - from) = SubSeq(url, from + l, p - 1)
    BY <2>2, <2>3
  <2> HIDE DEF whole
  <2> QED
    BY <1>4, <1>5, <2>4
<1> HIDE DEF whole
<1>8. \A k \in from + l .. p - 1 : url[k] # "@"
  <2> TAKE k \in from + l .. p - 1
  <2>1. k - from + 1 \in l + 1 .. p - from /\ k - from + 1 \in 1 .. p - from /\ from + (k - from + 1) - 1 = k
    BY <1>6
  <2> QED
    BY <1>4, <1>5, <2>1
<1>9. from + l = from \/ url[from + l - 1] = "@"
  <2>1. ASSUME l > 0 PROVE url[from + l - 1] = "@"
    BY <1>4, <1>5, <1>6, <2>1
  <2> QED
    BY <1>6, <2>1
<1>10. IsAuthorityAt(url, from, from + l, p)
  BY <1>3, <1>8, <1>9 DEF IsAuthorityAt, C
<1>11. from + l \in from .. p
  BY <1>6
<1> QED
  BY <1>2, <1>3, <1>7, <1>10, <1>11

LEMMA OnePlace ==
  ASSUME NEW S, NEW url \in Seq(S), NEW from \in 1 .. Len(url) + 1,
         NEW p \in from .. Len(url) + 1, NEW i \in from .. p, IsAuthorityAt(url, from, i, p),
         NEW q \in from .. Len(url) + 1, NEW j \in from .. q, IsAuthorityAt(url, from, j, q)
  PROVE  i = j /\ p = q
<1> DEFINE C == {"/", "?", "#"}
<1>0. Len(url) \in Nat
  OBVIOUS
<1>1. /\ \A k \in from .. p - 1 : url[k] \notin C
      /\ p = Len(url) + 1 \/ url[p] \in C
      /\ \A k \in from .. q - 1 : url[k] \notin C
      /\ q = Len(url) + 1 \/ url[q] \in C
  BY DEF IsAuthorityAt
<1> HIDE DEF C
<1>2. p = q
  BY <1>0, <1>1
<1>3. /\ i = from \/ url[i - 1] = "@"
      /\ \A k \in i .. p - 1 : url[k] # "@"
      /\ j = from \/ url[j - 1] = "@"
      /\ \A k \in j .. q - 1 : url[k] # "@"
  BY DEF IsAuthorityAt
<1>4. i = j
  BY <1>0, <1>2, <1>3
<1> QED
  BY <1>2, <1>4

\* The first byte of a class in the part of a text from i up to p.
LEMMA FirstInPart ==
  ASSUME NEW S, NEW s \in Seq(S), NEW i \in 1 .. Len(s) + 1, NEW p \in i .. Len(s) + 1, NEW C
  PROVE  LET part == SubSeq(s, i, p - 1)
             f == Find(part, 1, C)
         IN  /\ Len(part) = p - i /\ At(part, 1) = IF i < p THEN s[i] ELSE NoByte
             /\ \A q \in 0 .. p - i : SubSeq(part, 1, q) = SubSeq(s, i, i + q - 1)
             /\ \/ f = 0 /\ \A k \in i .. p - 1 : s[k] \notin C
                \/ f \in 1 .. p - i /\ s[i + f - 1] \in C /\ \A k \in i .. i + f - 2 : s[k] \notin C
<1> DEFINE part == SubSeq(s, i, p - 1)
           f == Find(part, 1, C)
<1>0. Len(s) \in Nat /\ i \in Nat /\ p \in Nat /\ i >= 1 /\ i <= p /\ p <= Len(s) + 1
  OBVIOUS
<1>1. part \in Seq(S) /\ Len(part) = p - i /\ \A k \in 1 .. p - i : part[k] = s[i + k - 1]
  <2>1. \A k \in i .. p - 1 : s[k] \in S
    BY <1>0
  <2>2. /\ part \in Seq(S) /\ Len(part) = IF i <= p - 1 THEN (p - 1) - i + 1 ELSE 0
        /\ \A k \in 1 .. (p - 1) - i + 1 : part[k] = s[i + k - 1]
    BY <1>0, <2>1, SubSeqProperties
  <2>3. (p - 1) - i + 1 = p - i
    BY <1>0
  <2> HIDE DEF part
  <2> QED
    BY <1>0, <2>2, <2>3
<1>2. \A q \in 0 .. p - i : SubSeq(part, 1, q) = SubSeq(s, i, i + q - 1)
  <2> TAKE q \in 0 .. p - i
  <2>1. /\ p - 1 \in i - 1 .. Len(s) /\ 1 \in 1 .. (p - 1) - i + 2
        /\ q \in 1 - 1 .. (p - 1) - i + 1
    BY <1>0
  <2>2. SubSeq(SubSeq(s, i, p - 1), 1, q) = SubSeq(s, i + 1 - 1, i + q - 1)
    BY <2>1, PartOfPart
  <2>3. i + 1 - 1 = i
    BY <1>0
  <2> QED
    BY <2>2, <2>3
<1> HIDE DEF part
<1>3. At(part, 1) = IF i < p THEN s[i] ELSE NoByte
  <2>1. DOMAIN part = 1 .. p - i
    BY <1>1
  <2>2. 1 \in 1 .. p - i <=> i < p
    BY <1>0
  <2>3. i < p => part[1] = s[i]
    <3>1. i < p => 1 \in 1 .. p - i /\ i + 1 - 1 = i
      BY <1>0
    <3> QED
      BY <1>1, <3>1
  <2> QED
    BY <2>1, <2>2, <2>3 DEF At
<1>4. \/ f \in 1 .. Len(part) /\ part[f] \in C /\ \A k \in 1 .. f - 1 : part[k] \notin C
      \/ f = 0 /\ \A k \in 1 .. Len(part) : part[k] \notin C
  BY <1>1, FindIs
<1> HIDE DEF f
<1>5. ASSUME f = 0, \A k \in 1 .. Len(part) : part[k] \notin C
      PROVE  \A k \in i .. p - 1 : s[k] \notin C
  <2> TAKE k \in i .. p - 1
  <2>1. k - i + 1 \in 1 .. p - i /\ i + (k - i + 1) - 1 = k
    BY <1>0
  <2> QED
    BY <1>1, <1>5, <2>1
<1>6. ASSUME f \in 1 .. Len(part), part[f] \in C, \A k \in 1 .. f - 1 : part[k] \notin C
      PROVE  /\ f \in 1 .. p - i /\ s[i + f - 1] \in C
             /\ \A k \in i .. i + f - 2 : s[k] \notin C
  <2>1. f \in 1 .. p - i
    BY <1>1, <1>6
  <2>2. s[i + f - 1] \in C
    BY <1>1, <1>6, <2>1
  <2>3. ASSUME NEW k \in i .. i + f - 2 PROVE s[k] \notin C
    <3>1. k - i + 1 \in 1 .. f - 1 /\ k - i + 1 \in 1 .. p - i /\ i + (k - i + 1) - 1 = k
      BY <1>0, <2>1
    <3> QED
      BY <1>1, <1>6, <3>1
  <2> QED
    BY <2>1, <2>2, <2>3
<1>7. \/ f = 0 /\ \A k \in i .. p - 1 : s[k] \notin C
      \/ f \in 1 .. p - i /\ s[i + f - 1] \in C /\ \A k \in i .. i + f - 2 : s[k] \notin C
  BY <1>4, <1>5, <1>6
<1> QED
  BY <1>1, <1>2, <1>3, <1>7 DEF part, f

\* The host in such a part lies from i up to j.
IsHostAt(url, i, p, j) ==
  IF url[i] = "["
    THEN url[j - 1] = "]" /\ \A k \in i .. j - 2 : url[k] # "]"
    ELSE (j = p \/ url[j] = ":") /\ \A k \in i .. j - 1 : url[k] # ":"

\* The host that is read from the place a call is made to.
HostPart(place) ==
  IF At(place, 1) = "["
    THEN SubSeq(place, 1, Find(place, 1, {"]"}))
    ELSE LET colon == Find(place, 1, {":"})
         IN  Between(place, 1, IF colon = 0 THEN Len(place) + 1 ELSE colon)

\* The host lies where IsHostAt says, up to the port or the bracket, and nowhere else.
LEMMA HostIs ==
  ASSUME NEW S, NEW url \in Seq(S), NEW i \in 1 .. Len(url) + 1, NEW p \in i .. Len(url) + 1
  PROVE  LET host == HostPart(SubSeq(url, i, p - 1))
         IN  \/ host = <<>> /\ \A j \in i + 1 .. p : ~IsHostAt(url, i, p, j)
             \/ \E j \in i + 1 .. p : host = Between(url, i, j) /\ IsHostAt(url, i, p, j)
<1> DEFINE part == SubSeq(url, i, p - 1)
           host == HostPart(part)
           close == Find(part, 1, {"]"})
           colon == Find(part, 1, {":"})
<1>0. Len(url) \in Nat /\ i \in Nat /\ p \in Nat /\ i >= 1 /\ i <= p /\ p <= Len(url) + 1
  OBVIOUS
<1>1. /\ Len(part) = p - i /\ At(part, 1) = IF i < p THEN url[i] ELSE NoByte
      /\ \A q \in 0 .. p - i : SubSeq(part, 1, q) = SubSeq(url, i, i + q - 1)
      /\ \/ close = 0 /\ \A k \in i .. p - 1 : url[k] \notin {"]"}
         \/ close \in 1 .. p - i /\ url[i + close - 1] \in {"]"} /\ \A k \in i .. i + close - 2 : url[k] \notin {"]"}
  BY FirstInPart
<1>2. \/ colon = 0 /\ \A k \in i .. p - 1 : url[k] \notin {":"}
      \/ colon \in 1 .. p - i /\ url[i + colon - 1] \in {":"} /\ \A k \in i .. i + colon - 2 : url[k] \notin {":"}
  BY FirstInPart
<1>3. SubSeq(part, 1, 0) = <<>>
  <2>1. SubSeq(part, 1, 0) = SubSeq(url, i, i + 0 - 1)
    BY <1>0, <1>1
  <2>2. i + 0 - 1 = i - 1 /\ i - 1 < i
    BY <1>0
  <2>3. SubSeq(url, i, i - 1) = <<>>
    <3>1. /\ SubSeq(url, i, i - 1) \in Seq(S)
          /\ Len(SubSeq(url, i, i - 1)) = IF i <= i - 1 THEN (i - 1) - i + 1 ELSE 0
      <4>1. \A k \in i .. i - 1 : url[k] \in S
        BY <1>0
      <4> QED
        BY <1>0, <4>1, SubSeqProperties
    <3>2. Len(SubSeq(url, i, i - 1)) = 0
      BY <2>2, <3>1
    <3> QED
      BY <3>1, <3>2
  <2> QED
    BY <2>1, <2>2, <2>3
<1>4. ASSUME At(part, 1) = "["
      PROVE  \/ host = <<>> /\ \A j \in i + 1 .. p : ~IsHostAt(url, i, p, j)
             \/ \E j \in i + 1 .. p : host = Between(url, i, j) /\ IsHostAt(url, i, p, j)
  <2>1. i < p /\ url[i] = "["
    <3>1. NoByte # "["
      BY DEF NoByte
    <3> HIDE DEF part, close
    <3> QED
      BY <1>1, <1>4, <3>1, Zenon
  <2>2. host = SubSeq(part, 1, close)
    BY <1>4, Zenon DEF HostPart
  <2>3. \A j : IsHostAt(url, i, p, j) <=> url[j - 1] = "]" /\ \A k \in i .. j - 2 : url[k] # "]"
    BY <2>1, Zenon DEF IsHostAt
  <2>4. CASE close = 0
    <3>1. host = <<>>
      BY <1>3, <2>2, <2>4
    <3>2. ASSUME NEW j \in i + 1 .. p, IsHostAt(url, i, p, j) PROVE FALSE
      <4>1. url[j - 1] = "]"
        BY <2>3, <3>2, Zenon
      <4>2. j - 1 \in i .. p - 1
        BY <1>0
      <4> HIDE DEF part, close
      <4>3. \A k \in i .. p - 1 : url[k] \notin {"]"}
        BY <1>0, <1>1, <2>4
      <4> QED
        BY <4>1, <4>2, <4>3, Zenon
    <3> QED
      BY <3>1, <3>2
  <2>5. CASE close # 0
    <3>0. close \in 1 .. p - i /\ url[i + close - 1] \in {"]"} /\ \A k \in i .. i + close - 2 : url[k] \notin {"]"}
      BY <1>1, <2>5
    <3>1. SubSeq(part, 1, close) = SubSeq(url, i, i + close - 1)
      <4>1. close \in 0 .. p - i
        BY <1>0, <3>0
      <4> HIDE DEF close, part
      <4> QED
        BY <1>1, <4>1
    <3> DEFINE j == i + close
    <3> HIDE DEF close
    <3>2. j \in i + 1 .. p /\ j - 1 = i + close - 1 /\ j - 2 = i + close - 2
      BY <1>0, <3>0
    <3> HIDE DEF part
    <3>3. host = Between(url, i, j)
      BY <2>2, <3>1, <3>2 DEF Between
    <3>4. IsHostAt(url, i, p, j)
      <4>1. url[j - 1] = "]"
        BY <3>0, <3>2
      <4>2. \A k \in i .. j - 2 : url[k] # "]"
        BY <3>0, <3>2
      <4> QED
        BY <2>3, <4>1, <4>2
    <3> HIDE DEF host, j
    <3> QED
      BY <3>2, <3>3, <3>4
  <2> QED
    BY <2>4, <2>5
<1>5. ASSUME At(part, 1) # "["
      PROVE  \/ host = <<>> /\ \A j \in i + 1 .. p : ~IsHostAt(url, i, p, j)
             \/ \E j \in i + 1 .. p : host = Between(url, i, j) /\ IsHostAt(url, i, p, j)
  <2> DEFINE end == IF colon = 0 THEN p - i ELSE colon - 1
  <2>1. host = SubSeq(part, 1, end)
    <3>1. host = SubSeq(part, 1, (IF colon = 0 THEN Len(part) + 1 ELSE colon) - 1)
      BY <1>5, Zenon DEF HostPart, Between
    <3> HIDE DEF part, colon
    <3>2. (IF colon = 0 THEN Len(part) + 1 ELSE colon) - 1 = end
      BY <1>0, <1>1, <1>2
    <3> HIDE DEF end
    <3> QED
      BY <3>1, <3>2
  <2>2. end \in 0 .. p - i
    <3> HIDE DEF part, colon
    <3> QED
      BY <1>0, <1>2
  <2>3. /\ \A k \in i .. i + end - 1 : url[k] # ":"
        /\ i + end = p \/ url[i + end] = ":"
    <3> HIDE DEF part, colon
    <3>1. CASE colon = 0
      <4>1. end = p - i /\ i + end = p
        BY <1>0, <3>1
      <4>2. \A k \in i .. p - 1 : url[k] \notin {":"}
        BY <1>0, <1>2, <3>1
      <4> HIDE DEF end
      <4> QED
        BY <4>1, <4>2
    <3>2. CASE colon # 0
      <4>1. i + end = i + colon - 1 /\ i + end - 1 = i + colon - 2
        BY <1>0, <1>2, <3>2
      <4>2. url[i + colon - 1] \in {":"} /\ \A k \in i .. i + colon - 2 : url[k] \notin {":"}
        BY <1>2, <3>2
      <4> HIDE DEF end
      <4> QED
        BY <4>1, <4>2
    <3> QED
      BY <3>1, <3>2
  <2> HIDE DEF end
  <2>4. i < p => url[i] # "["
    <3> HIDE DEF part, close
    <3> QED
      BY <1>1, <1>5, Zenon
  <2>5. ASSUME i < p, NEW j
        PROVE  IsHostAt(url, i, p, j) <=> (j = p \/ url[j] = ":") /\ \A k \in i .. j - 1 : url[k] # ":"
    BY <2>4, <2>5, Zenon DEF IsHostAt
  <2>6. CASE end = 0
    <3>1. host = <<>>
      BY <1>3, <2>1, <2>6
    <3>2. ASSUME NEW j \in i + 1 .. p, IsHostAt(url, i, p, j) PROVE FALSE
      <4>1. i < p /\ i \in i .. j - 1 /\ i + end = i /\ i # p
        BY <1>0, <2>6
      <4>2. url[i] # ":"
        BY <2>5, <3>2, <4>1
      <4> QED
        BY <2>3, <4>1, <4>2
    <3> QED
      BY <3>1, <3>2
  <2>7. CASE end # 0
    <3> DEFINE j == i + end
    <3>1. j \in i + 1 .. p /\ i < p
      BY <1>0, <2>2, <2>7
    <3>2. host = Between(url, i, j)
      <4> HIDE DEF part
      <4> QED
        BY <1>1, <2>1, <2>2 DEF Between
    <3>3. IsHostAt(url, i, p, j)
      <4>1. j = p \/ url[j] = ":"
        BY <2>3
      <4>2. \A k \in i .. j - 1 : url[k] # ":"
        <5>1. \A k \in i .. i + end - 1 : url[k] # ":"
          BY <2>3
        <5>2. j - 1 = i + end - 1
          BY <1>0, <2>2
        <5> HIDE DEF j
        <5> QED
          BY <5>1, <5>2
      <4> HIDE DEF j
      <4> QED
        BY <2>5, <3>1, <4>1, <4>2
    <3> HIDE DEF host, j
    <3> QED
      BY <3>1, <3>2, <3>3
  <2> QED
    BY <2>6, <2>7
<1> QED
  BY <1>4, <1>5 DEF host, part

LEMMA OneHost ==
  ASSUME NEW S, NEW url \in Seq(S), NEW i \in 1 .. Len(url) + 1, NEW p \in i .. Len(url) + 1,
         NEW j \in i + 1 .. p, IsHostAt(url, i, p, j),
         NEW k \in i + 1 .. p, IsHostAt(url, i, p, k)
  PROVE  j = k
<1>0. Len(url) \in Nat
  OBVIOUS
<1>1. CASE url[i] = "["
  <2>1. /\ url[j - 1] = "]" /\ \A x \in i .. j - 2 : url[x] # "]"
        /\ url[k - 1] = "]" /\ \A x \in i .. k - 2 : url[x] # "]"
    BY <1>1, Zenon DEF IsHostAt
  <2>2. ~(j < k)
    <3> SUFFICES ASSUME j < k PROVE FALSE
      OBVIOUS
    <3>1. j - 1 \in i .. k - 2
      BY <1>0
    <3> QED
      BY <2>1, <3>1, Zenon
  <2>3. ~(k < j)
    <3> SUFFICES ASSUME k < j PROVE FALSE
      OBVIOUS
    <3>1. k - 1 \in i .. j - 2
      BY <1>0
    <3> QED
      BY <2>1, <3>1, Zenon
  <2> QED
    BY <1>0, <2>2, <2>3
<1>2. CASE url[i] # "["
  <2>1. /\ (j = p \/ url[j] = ":") /\ \A x \in i .. j - 1 : url[x] # ":"
        /\ (k = p \/ url[k] = ":") /\ \A x \in i .. k - 1 : url[x] # ":"
    BY <1>2, Zenon DEF IsHostAt
  <2>2. ~(j < k)
    BY <1>0, <2>1
  <2>3. ~(k < j)
    BY <1>0, <2>1
  <2> QED
    BY <1>0, <2>2, <2>3
<1> QED
  BY <1>1, <1>2

LEMMA HostIsReadFromItsPlace ==
  ASSUME NEW url, SchemeEnd(url) \in Nat
  PROVE  /\ SchemeEnd(url) < 2 => UrlHost(url) = <<>>
         /\ SchemeEnd(url) >= 2 =>
              UrlHost(url) = Lower(HostPart(Place(url, SchemeEnd(url) + 3)))
<1> DEFINE place == Place(url, SchemeEnd(url) + 3)
           close == Find(place, 1, {"]"})
           colon == Find(place, 1, {":"})
           end == IF colon = 0 THEN Len(place) + 1 ELSE colon
<1>1. UrlHost(url) =
        CASE SchemeEnd(url) < 2 -> <<>>
          [] SchemeEnd(url) >= 2 /\ At(place, 1) = "[" ->
               Lower(SubSeq(place, 1, IF At(place, 1) = "[" THEN close ELSE 0))
          [] OTHER -> Lower(Between(place, 1, end))
  BY Zenon DEF UrlHost, Place
<1>2. HostPart(place) = IF At(place, 1) = "[" THEN SubSeq(place, 1, close) ELSE Between(place, 1, end)
  BY Zenon DEF HostPart
<1> HIDE DEF place, close, end
<1>0. ~(SchemeEnd(url) < 2) <=> SchemeEnd(url) >= 2
  OBVIOUS
<1>3. ASSUME SchemeEnd(url) < 2, ~(SchemeEnd(url) >= 2) PROVE UrlHost(url) = <<>>
  BY <1>1, <1>3, Zenon
<1>4. ASSUME ~(SchemeEnd(url) < 2), SchemeEnd(url) >= 2, At(place, 1) = "["
      PROVE UrlHost(url) = Lower(HostPart(place))
  BY <1>1, <1>2, <1>4, Zenon
<1>5. ASSUME ~(SchemeEnd(url) < 2), ~(At(place, 1) = "[")
      PROVE UrlHost(url) = Lower(HostPart(place))
  BY <1>1, <1>2, <1>5, Zenon
<1> QED
  BY <1>0, <1>3, <1>4, <1>5, Zenon DEF place

LEMMA HeaderSentIs ==
  ASSUME NEW url, NEW target
  PROVE  /\ HeaderSent(TRUE, {{target}}, url) <=>
              UrlHost(url) # <<>> /\ Matches(Lower(UrlHost(url)), target)
         /\ HeaderSent(TRUE, {}, url) /\ ~HeaderSent(TRUE, {{}}, url) /\ ~HeaderSent(FALSE, {}, url)
BY Zenon DEF HeaderSent, ShouldPropagateTrace

\* The host of a URL lies in it from i up to j.
IsHostOf(url, i, j) ==
  \E p \in j .. Len(url) + 1 :
    /\ SchemeEnd(url) + 3 <= i /\ i < j /\ IsAuthorityAt(url, SchemeEnd(url) + 3, i, p)
    /\ IsHostAt(url, i, p, j)

\* A trace is handed only to the hosts it may go to (trace_parent.cpp's url_host() and
\* configuration.cpp's host_matches()): to the host that a URL names, wherever it stands in
\* it, and to that one only when its last labels are a target's.
THEOREM HeadersStayHome ==
  ASSUME NEW S, NEW url \in Seq(S), NEW target \in Seq(S)
  PROVE  HeaderStaysHome(url, target)
<1> DEFINE from == SchemeEnd(url) + 3
           sent == HeaderSent(TRUE, {{target}}, url)
           Goes(i, j) == IsHostOf(url, i, j) /\ MatchesByLabel(Lower(Between(url, i, j)), target)
           home == SchemeEnd(url) > 1 /\ \E i, j \in 1 .. Len(url) + 1 : Goes(i, j)
<1>0. Len(url) \in Nat /\ SchemeEnd(url) \in Nat
  BY SchemeEndIs
<1>1. sent <=> UrlHost(url) # <<>> /\ Matches(Lower(UrlHost(url)), target)
  BY HeaderSentIs
<1>2. ASSUME SchemeEnd(url) < 2 PROVE sent <=> home
  <2>1. UrlHost(url) = <<>>
    BY <1>0, <1>2, HostIsReadFromItsPlace
  <2>2. ~(SchemeEnd(url) > 1)
    BY <1>0, <1>2
  <2> QED
    BY <1>1, <2>1, <2>2
<1>3. ASSUME ~(SchemeEnd(url) < 2) PROVE sent <=> home
  <2>0. SchemeEnd(url) >= 2 /\ SchemeEnd(url) > 1 /\ from \in 1 .. Len(url) + 1
    BY <1>0, <1>3, SchemeEndIs
  <2>1. UrlHost(url) = Lower(HostPart(Place(url, from)))
    BY <1>0, <1>3, <2>0, HostIsReadFromItsPlace
  <2>2. PICK p \in from .. Len(url) + 1 : \E i \in from .. p :
          IsAuthorityAt(url, from, i, p) /\ Place(url, from) = SubSeq(url, i, p - 1)
    BY <2>0, PlaceIs
  <2>3. PICK i \in from .. p :
          IsAuthorityAt(url, from, i, p) /\ Place(url, from) = SubSeq(url, i, p - 1)
    BY <2>2
  <2> DEFINE host == HostPart(SubSeq(url, i, p - 1))
  <2>4. UrlHost(url) = Lower(host)
    BY <2>1, <2>3
  <2>5. i \in 1 .. Len(url) + 1 /\ p \in i .. Len(url) + 1
    BY <1>0, <2>0
  <2>6. \/ host = <<>> /\ \A j \in i + 1 .. p : ~IsHostAt(url, i, p, j)
        \/ \E j \in i + 1 .. p : host = Between(url, i, j) /\ IsHostAt(url, i, p, j)
    BY <2>5, HostIs
  <2> HIDE DEF from, host
  <2>7. ASSUME NEW x \in 1 .. Len(url) + 1, NEW y \in 1 .. Len(url) + 1, IsHostOf(url, x, y)
        PROVE  x = i /\ y \in i + 1 .. p /\ IsHostAt(url, i, p, y)
    <3>1. PICK q \in y .. Len(url) + 1 :
            from <= x /\ x < y /\ IsAuthorityAt(url, from, x, q) /\ IsHostAt(url, x, q, y)
      BY <2>7 DEF IsHostOf, from
    <3>2. q \in from .. Len(url) + 1 /\ x \in from .. q
      BY <1>0, <2>0, <3>1
    <3>3. x = i /\ q = p
      BY <2>0, <2>3, <3>1, <3>2, OnePlace
    <3> QED
      BY <1>0, <2>5, <3>1, <3>3
  <2>8. CASE host = <<>> /\ \A j \in i + 1 .. p : ~IsHostAt(url, i, p, j)
    <3>1. Lower(<<>>) = <<>>
      <4>1. <<>> \in Seq(S)
        OBVIOUS
      <4>2. Len(Lower(<<>>)) = 0 /\ Lower(<<>>) \in Seq({LowerByte(c) : c \in S})
        BY <4>1, LowerTwice
      <4> HIDE DEF Lower
      <4> QED
        BY <4>2
    <3>2. ~sent
      BY <1>1, <2>4, <2>8, <3>1
    <3>3. ~home
      BY <2>7, <2>8
    <3> QED
      BY <3>2, <3>3
  <2>9. CASE \E j \in i + 1 .. p : host = Between(url, i, j) /\ IsHostAt(url, i, p, j)
    <3>1. PICK j \in i + 1 .. p : host = Between(url, i, j) /\ IsHostAt(url, i, p, j)
      BY <2>9
    <3>2. host \in Seq(S) /\ Len(host) > 0
      <4>1. \A k \in i .. j - 1 : url[k] \in S
        BY <1>0, <2>5
      <4>2. /\ SubSeq(url, i, j - 1) \in Seq(S)
            /\ Len(SubSeq(url, i, j - 1)) = IF i <= j - 1 THEN (j - 1) - i + 1 ELSE 0
        BY <1>0, <2>5, <4>1, SubSeqProperties
      <4> QED
        BY <1>0, <2>5, <3>1, <4>2 DEF Between
    <3>3. Lower(host) # <<>> /\ Lower(Lower(host)) = Lower(host)
      <4>1. Len(Lower(host)) = Len(host) /\ Lower(Lower(host)) = Lower(host)
        BY <3>2, LowerTwice
      <4> QED
        BY <3>2, <4>1
    <3>4. sent <=> MatchesByLabel(Lower(host), target)
      BY <1>1, <2>4, <3>2, <3>3, MatchesIs
    <3>5. ASSUME home PROVE MatchesByLabel(Lower(host), target)
      <4>1. PICK x, y \in 1 .. Len(url) + 1 : Goes(x, y)
        BY <3>5
      <4>2. x = i /\ y \in i + 1 .. p /\ IsHostAt(url, i, p, y)
        BY <2>7, <4>1
      <4>3. y = j
        BY <2>5, <3>1, <4>2, OneHost
      <4> QED
        BY <3>1, <4>1, <4>2, <4>3
    <3>6. ASSUME MatchesByLabel(Lower(host), target) PROVE home
      <4>1. i \in 1 .. Len(url) + 1 /\ j \in 1 .. Len(url) + 1 /\ p \in j .. Len(url) + 1 /\ i < j
        BY <1>0, <2>5
      <4>2. IsHostOf(url, i, j)
        <5>1. SchemeEnd(url) + 3 <= i /\ from = SchemeEnd(url) + 3
          BY <1>0, <2>0 DEF from
        <5> QED
          BY <2>3, <3>1, <4>1, <5>1 DEF IsHostOf
      <4>3. Goes(i, j)
        BY <3>1, <3>6, <4>2
      <4> QED
        BY <2>0, <4>1, <4>3
    <3> QED
      BY <3>4, <3>5, <3>6
  <2> QED
    BY <2>6, <2>8, <2>9
<1>4. sent <=> home
  BY <1>2, <1>3
<1> QED
  BY <1>4, HeaderSentIs, Zenon DEF HeaderStaysHome, IsHostOf, IsAuthorityAt, IsHostAt

-----------------------------------------------------------------------------
(* Traces that come in and are handed on *)

\* The next place where a text is split: nothing before it parts the text.
LEMMA NextCut ==
  ASSUME NEW S, NEW s \in Seq(S), NEW c, NEW at, NEW n, IsCut(at, n, s, c), NEW k \in 1 .. n,
         NEW e \in at[k] + 1 .. Len(s) + 1, \A i \in at[k] + 1 .. e - 1 : s[i] # c,
         e <= Len(s) => s[e] = c
  PROVE  at[k + 1] = e /\ (e <= Len(s) <=> k + 1 <= n)
<1>1. /\ n \in Nat \ {0} /\ Len(s) \in Nat /\ at[1] = 0 /\ at[n + 1] = Len(s) + 1
      /\ \A a \in 1 .. n + 1 : at[a] \in 0 .. Len(s) + 1
      /\ \A a, b \in 1 .. n + 1 : a < b => at[a] < at[b]
      /\ \A a \in 2 .. n : s[at[a]] = c
      /\ \A i \in 1 .. Len(s) : s[i] = c => \E a \in 2 .. n : at[a] = i
  BY DEF IsCut
<1>2. k + 1 \in 2 .. n + 1 /\ k \in 1 .. n + 1 /\ at[k] < at[k + 1] /\ at[k + 1] \in 1 .. Len(s) + 1 /\ at[k] \in Nat
  BY <1>1
<1>3. ~(at[k + 1] < e)
  <2> SUFFICES ASSUME at[k + 1] < e PROVE FALSE
    OBVIOUS
  <2>1. k + 1 # n + 1
    BY <1>1, <1>2
  <2>2. k + 1 \in 2 .. n
    BY <1>1, <1>2, <2>1
  <2>3. s[at[k + 1]] = c
    BY <1>1, <2>2
  <2> QED
    BY <1>1, <1>2, <2>3
<1>4. ~(e < at[k + 1])
  <2> SUFFICES ASSUME e < at[k + 1] PROVE FALSE
    OBVIOUS
  <2>1. e \in 1 .. Len(s) /\ s[e] = c
    BY <1>1, <1>2
  <2>2. PICK a \in 2 .. n : at[a] = e
    BY <1>1, <2>1
  <2>3. a \in 1 .. n + 1 /\ at[k] < at[a] /\ at[a] < at[k + 1]
    BY <1>1, <1>2, <2>2
  <2>4. ~(a < k) /\ a # k /\ ~(k + 1 < a) /\ a # k + 1
    BY <1>1, <1>2, <2>3, SMTT(30)
  <2> QED
    BY <1>1, <2>4
<1>5. at[k + 1] = e
  BY <1>1, <1>2, <1>3, <1>4
<1>6. ASSUME k + 1 <= n PROVE e <= Len(s)
  <2>1. at[k + 1] < at[n + 1]
    BY <1>1, <1>2, <1>6
  <2> QED
    BY <1>1, <1>5, <2>1
<1>7. ASSUME ~(k + 1 <= n) PROVE ~(e <= Len(s))
  <2>1. k + 1 = n + 1
    BY <1>1, <1>2, <1>7
  <2> QED
    BY <1>1, <1>5, <2>1
<1> QED
  BY <1>5, <1>6, <1>7

LEMMA PropagationConstants ==
  /\ TraceIdLength \in Nat \ {0} /\ SpanIdLength \in Nat \ {0}
  /\ FixedLength = TraceIdLength + SpanIdLength + 7
BY PropagationAssumption DEF FixedLength

LEMMA DashIsNoHex == "-" \notin LowerHexes
BY SMT DEF LowerHexes, Hexes, Digits, DigitOrder, Range

\* Where the dashes of a header stand.
IsDashAt(i) == i \in {3, TraceIdLength + 4, FixedLength - 2}

\* A header's form: two hex digits, the ids and two more, dashes between them.
IsFormed(s) ==
  /\ Len(s) >= FixedLength
  /\ \A i \in 1 .. FixedLength : IF IsDashAt(i) THEN s[i] = "-" ELSE s[i] \in LowerHexes
  /\ Len(s) > FixedLength => s[FixedLength + 1] = "-"

\* ... as the places where it is split.
IsCutAsFormed(at, n, s) ==
  /\ n >= 4 /\ at[2] = 3 /\ at[3] = TraceIdLength + 4 /\ at[4] = FixedLength - 2 /\ at[5] = FixedLength + 1
  /\ \A k \in 1 .. 4 : \A i \in at[k] + 1 .. at[k + 1] - 1 : s[i] \in LowerHexes

\* A header of the form is split at its own dashes, and one that is so split has the form.
LEMMA FormedIsCut ==
  ASSUME NEW S, NEW s \in Seq(S), NEW at, NEW n, IsCut(at, n, s, "-")
  PROVE  IsFormed(s) => IsCutAsFormed(at, n, s) /\ (n = 4 <=> ~(Len(s) > FixedLength))
<1> SUFFICES ASSUME IsFormed(s) PROVE IsCutAsFormed(at, n, s) /\ (n = 4 <=> ~(Len(s) > FixedLength))
  OBVIOUS
<1> DEFINE T == TraceIdLength
           F == FixedLength
           H == LowerHexes
           d == "-"
<1>0. /\ T \in Nat \ {0} /\ F \in Nat /\ F - 2 > T + 5 /\ Len(s) \in Nat /\ d \notin H /\ Len(s) >= F
      /\ n \in Nat \ {0} /\ at[1] = 0 /\ IsCut(at, n, s, d)
  <2>1. T \in Nat \ {0} /\ F \in Nat /\ F - 2 > T + 5 /\ Len(s) \in Nat
    BY PropagationConstants
  <2> QED
    BY <2>1, DashIsNoHex DEF IsCut, IsFormed
<1>1. /\ \A i \in 1 .. F : i \notin {3, T + 4, F - 2} => s[i] \in H
      /\ s[3] = d /\ s[T + 4] = d /\ s[F - 2] = d
      /\ Len(s) > F => s[F + 1] = d
  <2>1. \A i \in 1 .. F : IF i \in {3, T + 4, F - 2} THEN s[i] = d ELSE s[i] \in H
    BY DEF IsFormed, IsDashAt
  <2>2. 3 \in 1 .. F /\ T + 4 \in 1 .. F /\ F - 2 \in 1 .. F
    BY <1>0
  <2>3. Len(s) > F => s[F + 1] = d
    BY DEF IsFormed
  <2> HIDE DEF T, F, H, d
  <2> QED
    BY <2>1, <2>2, <2>3
<1> HIDE DEF T, F, H, d
<1>2. /\ \A i \in 1 .. 2 : s[i] \in H
      /\ \A i \in 4 .. T + 3 : s[i] \in H
      /\ \A i \in T + 5 .. F - 3 : s[i] \in H
      /\ \A i \in F - 1 .. F : s[i] \in H
  BY <1>0, <1>1
<1>3. at[2] = 3 /\ 2 <= n
  <2>1. 1 \in 1 .. n /\ 3 \in at[1] + 1 .. Len(s) + 1 /\ 3 <= Len(s)
    BY <1>0
  <2>2. \A i \in at[1] + 1 .. 3 - 1 : s[i] # d
    BY <1>0, <1>2
  <2>3. at[1 + 1] = 3 /\ (3 <= Len(s) <=> 1 + 1 <= n)
    BY <1>0, <1>1, <2>1, <2>2, NextCut
  <2> QED
    BY <2>1, <2>3
<1>4. at[3] = T + 4 /\ 3 <= n
  <2>1. 2 \in 1 .. n /\ T + 4 \in at[2] + 1 .. Len(s) + 1 /\ T + 4 <= Len(s)
    BY <1>0, <1>3
  <2>2. \A i \in at[2] + 1 .. (T + 4) - 1 : s[i] # d
    BY <1>0, <1>2, <1>3
  <2>3. at[2 + 1] = T + 4 /\ (T + 4 <= Len(s) <=> 2 + 1 <= n)
    BY <1>0, <1>1, <2>1, <2>2, NextCut
  <2> QED
    BY <2>1, <2>3
<1>5. at[4] = F - 2 /\ 4 <= n
  <2> DEFINE e == F - 2
  <2>1. 3 \in 1 .. n /\ e \in at[3] + 1 .. Len(s) + 1 /\ e <= Len(s) /\ s[e] = d
    BY <1>0, <1>1, <1>4
  <2>2. \A i \in at[3] + 1 .. e - 1 : s[i] # d
    BY <1>0, <1>2, <1>4
  <2> HIDE DEF e
  <2>3. at[3 + 1] = e /\ (e <= Len(s) <=> 3 + 1 <= n)
    BY <1>0, <2>1, <2>2, NextCut
  <2> QED
    BY <2>1, <2>3 DEF e
<1>6. at[5] = F + 1 /\ (F + 1 <= Len(s) <=> 5 <= n)
  <2>1. 4 \in 1 .. n /\ F + 1 \in at[4] + 1 .. Len(s) + 1
    BY <1>0, <1>5
  <2>2. \A i \in at[4] + 1 .. (F + 1) - 1 : s[i] # d
    BY <1>0, <1>2, <1>5
  <2>3. at[4 + 1] = F + 1 /\ (F + 1 <= Len(s) <=> 4 + 1 <= n)
    BY <1>0, <1>1, <2>1, <2>2, NextCut, SMTT(30)
  <2> QED
    BY <2>1, <2>3
<1>7. \A k \in 1 .. 4 : \A i \in at[k] + 1 .. at[k + 1] - 1 : s[i] \in H
  <2>1. \A i \in at[1] + 1 .. at[2] - 1 : s[i] \in H
    BY <1>0, <1>2, <1>3
  <2>2. \A i \in at[2] + 1 .. at[3] - 1 : s[i] \in H
    BY <1>0, <1>2, <1>3, <1>4
  <2>3. \A i \in at[3] + 1 .. at[4] - 1 : s[i] \in H
    BY <1>0, <1>2, <1>4, <1>5
  <2>4. \A i \in at[4] + 1 .. at[5] - 1 : s[i] \in H
    BY <1>0, <1>2, <1>5, <1>6
  <2> QED
    BY <2>1, <2>2, <2>3, <2>4
<1>8. n = 4 <=> ~(Len(s) > F)
  BY <1>0, <1>5, <1>6
<1> QED
  BY <1>0, <1>3, <1>4, <1>5, <1>6, <1>7, <1>8 DEF IsCutAsFormed, T, F, H

LEMMA CutIsFormed ==
  ASSUME NEW S, NEW s \in Seq(S), NEW at, NEW n, IsCut(at, n, s, "-")
  PROVE  IsCutAsFormed(at, n, s) => IsFormed(s)
<1> SUFFICES ASSUME IsCutAsFormed(at, n, s) PROVE IsFormed(s)
  OBVIOUS
<1> DEFINE T == TraceIdLength
           F == FixedLength
           H == LowerHexes
           d == "-"
<1>0. T \in Nat \ {0} /\ F \in Nat /\ F - 2 > T + 5 /\ Len(s) \in Nat
  BY PropagationConstants
<1>1. /\ n \in Nat \ {0} /\ at[1] = 0 /\ at[n + 1] = Len(s) + 1
      /\ \A a \in 1 .. n + 1 : at[a] \in 0 .. Len(s) + 1
      /\ \A a, b \in 1 .. n + 1 : a < b => at[a] < at[b]
      /\ \A a \in 2 .. n : s[at[a]] = d
  BY DEF IsCut
<1>2. /\ n >= 4 /\ at[2] = 3 /\ at[3] = T + 4 /\ at[4] = F - 2 /\ at[5] = F + 1
      /\ \A k \in 1 .. 4 : \A i \in at[k] + 1 .. at[k + 1] - 1 : s[i] \in H
  BY DEF IsCutAsFormed
<1> HIDE DEF T, F, H, d
<1>3. Len(s) >= F /\ (Len(s) > F => s[F + 1] = d)
  <2>1. 5 \in 1 .. n + 1 /\ at[5] <= Len(s) + 1
    BY <1>0, <1>1, <1>2
  <2>2. ASSUME Len(s) > F PROVE s[F + 1] = d
    <3>1. n # 4
      BY <1>0, <1>1, <1>2, <2>2
    <3>2. 5 \in 2 .. n
      BY <1>1, <1>2, <3>1
    <3> QED
      BY <1>1, <1>2, <3>2
  <2> QED
    BY <1>0, <1>2, <2>1, <2>2
<1>4. s[3] = d /\ s[T + 4] = d /\ s[F - 2] = d
  <2>1. 2 \in 2 .. n /\ 3 \in 2 .. n /\ 4 \in 2 .. n
    BY <1>1, <1>2
  <2> QED
    BY <1>1, <1>2, <2>1
<1>5. \A i \in 1 .. 2 : s[i] \in H
  <2>1. \A i \in at[1] + 1 .. at[1 + 1] - 1 : s[i] \in H
    BY <1>2
  <2> QED
    BY <1>0, <1>1, <1>2, <2>1
<1>6. \A i \in 4 .. T + 3 : s[i] \in H
  <2>1. \A i \in at[2] + 1 .. at[2 + 1] - 1 : s[i] \in H
    BY <1>2
  <2> QED
    BY <1>0, <1>1, <1>2, <2>1
<1>7. \A i \in T + 5 .. F - 3 : s[i] \in H
  <2>1. \A i \in at[3] + 1 .. at[3 + 1] - 1 : s[i] \in H
    BY <1>2
  <2> QED
    BY <1>0, <1>1, <1>2, <2>1
<1>8. \A i \in F - 1 .. F : s[i] \in H
  <2>1. \A i \in at[4] + 1 .. at[4 + 1] - 1 : s[i] \in H
    BY <1>2
  <2> QED
    BY <1>0, <1>1, <1>2, <2>1
<1>9. \A i \in 1 .. F : IF i \in {3, T + 4, F - 2} THEN s[i] = d ELSE s[i] \in H
  BY <1>0, <1>4, <1>5, <1>6, <1>7, <1>8
<1> QED
  BY <1>3, <1>9 DEF IsFormed, IsDashAt, T, F, H, d

\* A field of a header: so many hex digits.
IsHex(field, m) == Len(field) = m /\ Range(field) \subseteq LowerHexes

LEMMA PartIsHex ==
  ASSUME NEW S, NEW s \in Seq(S), NEW c, NEW at, NEW n, IsCut(at, n, s, c), NEW k \in 1 .. n, NEW m
  PROVE  IsHex(Between(s, at[k] + 1, at[k + 1]), m) <=>
           at[k + 1] - (at[k] + 1) = m /\ \A i \in at[k] + 1 .. at[k + 1] - 1 : s[i] \in LowerHexes
<1> DEFINE part == Between(s, at[k] + 1, at[k + 1])
           H == LowerHexes
<1>1. /\ part \in Seq(S) /\ Len(part) = at[k + 1] - (at[k] + 1)
      /\ \A q \in 1 .. Len(part) : part[q] = s[at[k] + q]
      /\ at[k] \in Nat /\ at[k + 1] \in Nat /\ at[k] < at[k + 1] /\ at[k + 1] <= Len(s) + 1
  BY PartIs
<1> HIDE DEF part, H
<1>2. DOMAIN part = 1 .. Len(part)
  BY <1>1
<1>3. ASSUME Range(part) \subseteq H PROVE \A i \in at[k] + 1 .. at[k + 1] - 1 : s[i] \in H
  <2> TAKE i \in at[k] + 1 .. at[k + 1] - 1
  <2>1. i - at[k] \in 1 .. Len(part) /\ at[k] + (i - at[k]) = i
    BY <1>1, SMTT(30)
  <2>2. part[i - at[k]] \in H
    BY <1>2, <1>3, <2>1 DEF Range
  <2> QED
    BY <1>1, <2>1, <2>2
<1>4. ASSUME \A i \in at[k] + 1 .. at[k + 1] - 1 : s[i] \in H PROVE Range(part) \subseteq H
  <2>1. \A q \in 1 .. Len(part) : at[k] + q \in at[k] + 1 .. at[k + 1] - 1
    BY <1>1
  <2>2. \A q \in 1 .. Len(part) : part[q] \in H
    BY <1>1, <1>4, <2>1
  <2> QED
    BY <1>2, <2>2 DEF Range
<1> QED
  BY <1>1, <1>3, <1>4 DEF IsHex, part, H

LEMMA FieldsAreFormed ==
  ASSUME NEW S, NEW s \in Seq(S), NEW at, NEW n, IsSplit(at, n, s, "-")
  PROVE  LET fields == Split(s, "-")
         IN  IsCutAsFormed(at, n, s) <=>
               /\ Len(fields) >= 4 /\ IsHex(fields[1], 2) /\ IsHex(fields[4], 2)
               /\ IsHex(fields[2], TraceIdLength) /\ IsHex(fields[3], SpanIdLength)
<1> DEFINE fields == Split(s, "-")
           T == TraceIdLength
           U == SpanIdLength
           F == FixedLength
           d == "-"
           Over(k) == \A i \in at[k] + 1 .. at[k + 1] - 1 : s[i] \in LowerHexes
<1>1. /\ IsCut(at, n, s, d) /\ Len(fields) = n
      /\ \A k \in 1 .. n : fields[k] = Between(s, at[k] + 1, at[k + 1])
  BY DEF IsSplit
<1>2. /\ n \in Nat /\ at[1] = 0 /\ \A k \in 1 .. n + 1 : at[k] \in Int
      /\ T \in Nat \ {0} /\ U \in Nat \ {0} /\ F = T + U + 7
  <2>1. Len(s) \in Nat
    OBVIOUS
  <2>2. n \in Nat /\ at[1] = 0 /\ \A k \in 1 .. n + 1 : at[k] \in 0 .. Len(s) + 1
    BY <1>1 DEF IsCut
  <2> QED
    BY <2>1, <2>2, PropagationConstants
<1> HIDE DEF fields, d
<1>3. ASSUME NEW k \in 1 .. n, NEW m
      PROVE  IsHex(fields[k], m) <=> at[k + 1] - (at[k] + 1) = m /\ Over(k)
  <2>1. fields[k] = Between(s, at[k] + 1, at[k + 1])
    BY <1>1
  <2>2. IsHex(Between(s, at[k] + 1, at[k + 1]), m) <=> at[k + 1] - (at[k] + 1) = m /\ Over(k)
    BY <1>1, PartIsHex
  <2> QED
    BY <2>1, <2>2
<1>4. (\A k \in 1 .. 4 : Over(k)) <=> Over(1) /\ Over(2) /\ Over(3) /\ Over(4)
  <2> HIDE DEF Over
  <2>1. \A k : k \in 1 .. 4 <=> k = 1 \/ k = 2 \/ k = 3 \/ k = 4
    OBVIOUS
  <2> QED
    BY <2>1
<1>5. IsCutAsFormed(at, n, s) <=>
        /\ n >= 4 /\ at[2] = 3 /\ at[3] = T + 4 /\ at[4] = F - 2 /\ at[5] = F + 1
        /\ Over(1) /\ Over(2) /\ Over(3) /\ Over(4)
  BY <1>4, Zenon DEF IsCutAsFormed
<1> HIDE DEF Over, T, U, F
<1>6. ASSUME n >= 4
      PROVE  /\ IsHex(fields[1], 2) <=> at[2] - (at[1] + 1) = 2 /\ Over(1)
             /\ IsHex(fields[2], T) <=> at[3] - (at[2] + 1) = T /\ Over(2)
             /\ IsHex(fields[3], U) <=> at[4] - (at[3] + 1) = U /\ Over(3)
             /\ IsHex(fields[4], 2) <=> at[5] - (at[4] + 1) = 2 /\ Over(4)
  <2>1. 1 \in 1 .. n /\ 2 \in 1 .. n /\ 3 \in 1 .. n /\ 4 \in 1 .. n
    BY <1>2, <1>6
  <2>2. 1 + 1 = 2 /\ 2 + 1 = 3 /\ 3 + 1 = 4 /\ 4 + 1 = 5
    OBVIOUS
  <2>3. IsHex(fields[1], 2) <=> at[1 + 1] - (at[1] + 1) = 2 /\ Over(1)
    BY <1>3, <2>1
  <2>4. IsHex(fields[2], T) <=> at[2 + 1] - (at[2] + 1) = T /\ Over(2)
    BY <1>3, <2>1
  <2>5. IsHex(fields[3], U) <=> at[3 + 1] - (at[3] + 1) = U /\ Over(3)
    BY <1>3, <2>1
  <2>6. IsHex(fields[4], 2) <=> at[4 + 1] - (at[4] + 1) = 2 /\ Over(4)
    BY <1>3, <2>1
  <2> QED
    BY <2>2, <2>3, <2>4, <2>5, <2>6
<1>7. ASSUME n >= 4
      PROVE  at[2] = 3 /\ at[3] = T + 4 /\ at[4] = F - 2 /\ at[5] = F + 1 <=>
             /\ at[2] - (at[1] + 1) = 2 /\ at[3] - (at[2] + 1) = T
             /\ at[4] - (at[3] + 1) = U /\ at[5] - (at[4] + 1) = 2
  <2>1. at[1] \in Int /\ at[2] \in Int /\ at[3] \in Int /\ at[4] \in Int /\ at[5] \in Int
    BY <1>2, <1>7
  <2>2. F - 2 = T + U + 5 /\ F + 1 = T + U + 8
    BY <1>2
  <2>3. T \in Int /\ U \in Int /\ at[1] = 0
    BY <1>2
  <2>4. at[2] = 3 <=> at[2] - (at[1] + 1) = 2
    BY <2>1, <2>3
  <2>5. ASSUME at[2] = 3 PROVE at[3] = T + 4 <=> at[3] - (at[2] + 1) = T
    BY <2>1, <2>3, <2>5
  <2>6. ASSUME at[3] = T + 4 PROVE at[4] = T + U + 5 <=> at[4] - (at[3] + 1) = U
    BY <2>1, <2>3, <2>6
  <2>7. ASSUME at[4] = T + U + 5 PROVE at[5] = T + U + 8 <=> at[5] - (at[4] + 1) = 2
    BY <2>1, <2>3, <2>7
  <2> QED
    BY <2>2, <2>4, <2>5, <2>6, <2>7, Zenon
<1> QED
  BY <1>1, <1>5, <1>6, <1>7 DEF fields, T, U, d

\* The ids in a header of the form.
TraceIn(s) == SubSeq(s, 4, TraceIdLength + 3)
SpanIn(s)  == SubSeq(s, TraceIdLength + 5, FixedLength - 3)

\* What parse() asks of a header.
IsContinued(s) ==
  /\ IsFormed(s) /\ SubSeq(s, 1, 2) # <<"f", "f">>
  /\ Len(s) > FixedLength => SubSeq(s, 1, 2) # <<"0", "0">>
  /\ {"0"} # Range(TraceIn(s)) /\ {"0"} # Range(SpanIn(s))

LEMMA ParseIs ==
  ASSUME NEW raw
  PROVE  LET s == Strip(raw, Blanks)
         IN  Parse(raw) = IF IsContinued(s) THEN {[trace |-> TraceIn(s), span |-> SpanIn(s)]} ELSE {}
<1> DEFINE s == Strip(raw, Blanks)
           v == SubSeq(s, 1, 2)
           context == [trace |-> TraceIn(s), span |-> SpanIn(s)]
           IsIt == /\ Len(s) >= FixedLength
                   /\ \A i \in 1 .. FixedLength : IF IsDashAt(i) THEN s[i] = "-" ELSE s[i] \in LowerHexes
                   /\ v # <<"f", "f">>
                   /\ Len(s) > FixedLength => v # <<"0", "0">> /\ s[FixedLength + 1] = "-"
                   /\ {"0"} \notin {Range(context.trace), Range(context.span)}
<1>1. Parse(raw) = IF IsIt THEN {context} ELSE {}
  BY DEF Parse, IsDashAt, TraceIn, SpanIn
<1>2. context.trace = TraceIn(s) /\ context.span = SpanIn(s)
  OBVIOUS
<1> HIDE DEF s, v, context
<1>3. IsIt <=> IsContinued(s)
  BY <1>2, Zenon DEF IsContinued, IsFormed, v
<1> QED
  BY <1>1, <1>3 DEF context, s

LEMMA NotAllZero ==
  ASSUME NEW S, NEW f \in Seq(S), Len(f) > 0, NEW z
  PROVE  {z} # Range(f) <=> \E i \in DOMAIN f : f[i] # z
<1>1. 1 \in DOMAIN f
  OBVIOUS
<1> QED
  BY <1>1 DEF Range

\* A header is continued when its fields are those of a trace to continue.
LEMMA ContinuedIs ==
  ASSUME NEW S, NEW raw \in Seq(S)
  PROVE  LET fields == Split(Strip(raw, Blanks), "-")
         IN  Parse(raw) # {} <=>
               /\ Len(fields) >= 4 /\ IsHex(fields[1], 2) /\ IsHex(fields[4], 2)
               /\ IsHex(fields[2], TraceIdLength) /\ IsHex(fields[3], SpanIdLength)
               /\ fields[1] # <<"f", "f">> /\ (fields[1] = <<"0", "0">> => Len(fields) = 4)
               /\ \A k \in {2, 3} : \E i \in DOMAIN fields[k] : fields[k][i] # "0"
<1> DEFINE s == Strip(raw, Blanks)
           fields == Split(s, "-")
           T == TraceIdLength
           U == SpanIdLength
           F == FixedLength
           z == "0"
           ff == <<"f", "f">>
           zz == <<"0", "0">>
           AreHex == /\ Len(fields) >= 4 /\ IsHex(fields[1], 2) /\ IsHex(fields[4], 2)
                     /\ IsHex(fields[2], T) /\ IsHex(fields[3], U)
           Are == /\ Len(fields) >= 4 /\ IsHex(fields[1], 2) /\ IsHex(fields[4], 2)
                  /\ IsHex(fields[2], T) /\ IsHex(fields[3], U)
                  /\ fields[1] # ff /\ (fields[1] = zz => Len(fields) = 4)
                  /\ \A k \in {2, 3} : \E i \in DOMAIN fields[k] : fields[k][i] # z
<1>1. s \in Seq(S)
  BY StripIs
<1>2. Parse(raw) # {} <=> IsContinued(s)
  BY ParseIs
<1> HIDE DEF s
<1>3. PICK n, at : IsSplit(at, n, s, "-")
  BY <1>1, SplitIs
<1>4. IsCut(at, n, s, "-") /\ Len(fields) = n /\ \A k \in 1 .. n : fields[k] = Between(s, at[k] + 1, at[k + 1])
  BY <1>3 DEF IsSplit
<1>5. IsCutAsFormed(at, n, s) <=> AreHex
  BY <1>1, <1>3, FieldsAreFormed
<1>6. /\ IsFormed(s) <=> IsCutAsFormed(at, n, s)
      /\ IsFormed(s) => (n = 4 <=> ~(Len(s) > F))
  BY <1>1, <1>4, FormedIsCut, CutIsFormed
<1>7. T \in Nat \ {0} /\ U \in Nat \ {0} /\ F = T + U + 7
  BY PropagationConstants
<1>8. ASSUME IsCutAsFormed(at, n, s)
      PROVE  /\ fields[1] = SubSeq(s, 1, 2) /\ fields[2] = TraceIn(s) /\ fields[3] = SpanIn(s)
             /\ fields[2] \in Seq(S) /\ fields[3] \in Seq(S) /\ Len(fields[2]) = T /\ Len(fields[3]) = U
  <2>1. n >= 4 /\ at[1] = 0 /\ n \in Nat /\ at[2] = 3 /\ at[3] = T + 4 /\ at[4] = F - 2
    BY <1>4, <1>8, Zenon DEF IsCutAsFormed, IsCut
  <2>2. 1 \in 1 .. n /\ 2 \in 1 .. n /\ 3 \in 1 .. n
    BY <1>4, <2>1 DEF IsCut
  <2> HIDE DEF fields
  <2>3. fields[1] = Between(s, at[1] + 1, at[2]) /\ fields[2] = Between(s, at[2] + 1, at[3]) /\ fields[3] = Between(s, at[3] + 1, at[4])
    <3>1. fields[1] = Between(s, at[1] + 1, at[1 + 1]) /\ fields[2] = Between(s, at[2] + 1, at[2 + 1]) /\ fields[3] = Between(s, at[3] + 1, at[3 + 1])
      BY <1>4, <2>2
    <3>2. 1 + 1 = 2 /\ 2 + 1 = 3 /\ 3 + 1 = 4
      OBVIOUS
    <3> QED
      BY <3>1, <3>2
  <2>4. fields[1] = SubSeq(s, 1, 2)
    <3>1. at[1] + 1 = 1 /\ at[2] - 1 = 2
      BY <2>1
    <3> QED
      BY <2>3, <3>1 DEF Between
  <2>5. fields[2] = TraceIn(s)
    <3>1. at[2] + 1 = 4 /\ at[3] - 1 = T + 3
      BY <1>7, <2>1
    <3> QED
      BY <2>3, <3>1 DEF Between, TraceIn
  <2>6. fields[3] = SpanIn(s)
    <3>1. at[3] + 1 = T + 5 /\ at[4] - 1 = F - 3
      BY <1>7, <2>1
    <3> QED
      BY <2>3, <3>1 DEF Between, SpanIn
  <2>7. fields[2] \in Seq(S) /\ fields[3] \in Seq(S)
    <3>1. Split(s, "-") \in Seq(Seq(S))
      BY <1>1, SplitIs
    <3>2. \A k \in 1 .. Len(fields) : fields[k] \in Seq(S)
      BY <3>1 DEF fields
    <3> QED
      BY <1>4, <2>2, <3>2
  <2> QED
    BY <1>5, <1>8, <2>4, <2>5, <2>6, <2>7 DEF IsHex
<1>9. IsContinued(s) <=> Are
  <2>1. CASE IsCutAsFormed(at, n, s)
    <3> DEFINE g == fields[2]
               h == fields[3]
    <3>1. ({z} # Range(g) <=> \E i \in DOMAIN g : g[i] # z) /\ ({z} # Range(h) <=> \E i \in DOMAIN h : h[i] # z)
      <4>1. g \in Seq(S) /\ h \in Seq(S) /\ Len(g) > 0 /\ Len(h) > 0
        BY <1>7, <1>8, <2>1
      <4> HIDE DEF g, h
      <4> QED
        BY <4>1, NotAllZero
    <3>2. (\A k \in {2, 3} : \E i \in DOMAIN fields[k] : fields[k][i] # z) <=>
            {z} # Range(g) /\ {z} # Range(h)
      <4>1. (\A k \in {2, 3} : \E i \in DOMAIN fields[k] : fields[k][i] # z) <=>
              (\E i \in DOMAIN g : g[i] # z) /\ (\E i \in DOMAIN h : h[i] # z)
        BY Zenon
      <4> QED
        BY <3>1, <4>1
    <3>3. g = TraceIn(s) /\ h = SpanIn(s) /\ fields[1] = SubSeq(s, 1, 2)
      BY <1>8, <2>1
    <3>4. IsContinued(s) <=>
            /\ fields[1] # ff /\ (Len(s) > F => fields[1] # zz)
            /\ {z} # Range(g) /\ {z} # Range(h)
      <4> HIDE DEF g, h, fields
      <4> QED
        BY <1>6, <2>1, <3>3, Zenon DEF IsContinued
    <3>5. (Len(s) > F => fields[1] # zz) <=> (fields[1] = zz => Len(fields) = 4)
      <4> HIDE DEF fields, zz
      <4> QED
        BY <1>4, <1>6, <2>1
    <3>6. AreHex
      BY <1>5, <2>1
    <3> HIDE DEF g, h, fields, ff, zz, z
    <3> QED
      BY <3>2, <3>4, <3>5, <3>6
  <2>2. CASE ~IsCutAsFormed(at, n, s)
    <3>1. ~IsContinued(s)
      BY <1>6, <2>2 DEF IsContinued
    <3>2. ~Are
      BY <1>5, <2>2
    <3> QED
      BY <3>1, <3>2
  <2> QED
    BY <2>1, <2>2
<1> QED
  BY <1>2, <1>9, Zenon DEF s

\* Texts put together, byte by byte.
IsJoin(c, a, m, b, n) ==
  /\ Len(c) = m + n
  /\ \A i \in 1 .. m : c[i] = a[i]
  /\ \A i \in 1 .. n : c[m + i] = b[i]

LEMMA JoinIs ==
  ASSUME NEW S, NEW a \in Seq(S), NEW b \in Seq(S), NEW m, NEW n, Len(a) = m, Len(b) = n
  PROVE  a \o b \in Seq(S) /\ IsJoin(a \o b, a, m, b, n)
<1> DEFINE c == a \o b
<1>1. /\ c \in Seq(S) /\ Len(c) = m + n
      /\ \A i \in 1 .. m + n : c[i] = IF i <= m THEN a[i] ELSE b[i - m]
  BY ConcatProperties
<1> HIDE DEF c
<1>0. m \in Nat /\ n \in Nat
  OBVIOUS
<1>2. \A i \in 1 .. m : i \in 1 .. m + n /\ i <= m
  BY <1>0
<1>3. \A i \in 1 .. n : m + i \in 1 .. m + n /\ ~(m + i <= m) /\ (m + i) - m = i
  BY <1>0
<1>4. IsJoin(c, a, m, b, n)
  <2>1. \A i \in 1 .. m : c[i] = a[i]
    BY <1>1, <1>2
  <2>2. ASSUME NEW i \in 1 .. n PROVE c[m + i] = b[i]
    <3>1. m + i \in 1 .. m + n /\ ~(m + i <= m) /\ (m + i) - m = i
      BY <1>3
    <3>2. c[m + i] = IF m + i <= m THEN a[m + i] ELSE b[(m + i) - m]
      BY <1>1, <3>1
    <3> QED
      BY <3>1, <3>2
  <2> QED
    BY <1>1, <2>1, <2>2 DEF IsJoin
<1> QED
  BY <1>1, <1>4 DEF c

\* The bytes of a header that is built.
IsBuilt(h, t, T, u, U, z, o, d) ==
  /\ Len(h) = T + U + 7
  /\ h[1] = z /\ h[2] = z /\ h[3] = d
  /\ \A i \in 1 .. T : h[3 + i] = t[i]
  /\ h[T + 4] = d
  /\ \A i \in 1 .. U : h[(T + 4) + i] = u[i]
  /\ h[(T + U + 4) + 1] = d /\ h[(T + U + 4) + 2] = z /\ h[(T + U + 4) + 3] = o

LEMMA BuiltBytes ==
  ASSUME NEW S, NEW t \in Seq(S), NEW u \in Seq(S), NEW T \in Nat, NEW U \in Nat, Len(t) = T, Len(u) = U,
         NEW z \in S, NEW o \in S, NEW d \in S
  PROVE  LET h == <<z, z, d>> \o t \o <<d>> \o u \o <<d, z, o>>
         IN  h \in Seq(S) /\ IsBuilt(h, t, T, u, U, z, o, d)
<1> DEFINE a == <<z, z, d>>
           b == a \o t
           c == b \o <<d>>
           e == c \o u
           h == e \o <<d, z, o>>
           end == <<d, z, o>>
           dash == <<d>>
<1>1. a \in Seq(S) /\ Len(a) = 3 /\ a[1] = z /\ a[2] = z /\ a[3] = d
  OBVIOUS
<1>2. end \in Seq(S) /\ Len(end) = 3 /\ end[1] = d /\ end[2] = z /\ end[3] = o
  OBVIOUS
<1>3. dash \in Seq(S) /\ Len(dash) = 1 /\ dash[1] = d
  OBVIOUS
<1> HIDE DEF a, end, dash
<1>4. /\ b \in Seq(S) /\ Len(b) = 3 + T
      /\ \A i \in 1 .. 3 : b[i] = a[i]
      /\ \A i \in 1 .. T : b[3 + i] = t[i]
  <2>1. b \in Seq(S) /\ IsJoin(b, a, 3, t, T)
    BY <1>1, JoinIs
  <2> HIDE DEF b
  <2> QED
    BY <2>1 DEF IsJoin
<1> HIDE DEF b
<1>5. /\ b \o dash \in Seq(S) /\ Len(b \o dash) = 3 + T + 1
      /\ \A i \in 1 .. 3 + T : (b \o dash)[i] = b[i]
      /\ \A i \in 1 .. 1 : (b \o dash)[3 + T + i] = dash[i]
  <2>1. 3 + T \in Nat
    OBVIOUS
  <2>2. b \o dash \in Seq(S) /\ IsJoin(b \o dash, b, 3 + T, dash, 1)
    BY <1>3, <1>4, JoinIs
  <2> QED
    BY <2>1, <2>2 DEF IsJoin
<1>6. /\ c \in Seq(S) /\ Len(c) = T + 4 /\ \A i \in 1 .. 3 + T : c[i] = b[i]
      /\ c[T + 4] = d
  <2>1. c = b \o dash
    BY DEF dash
  <2>2. 3 + T + 1 = T + 4 /\ 1 \in 1 .. 1
    OBVIOUS
  <2> HIDE DEF c
  <2> QED
    BY <1>3, <1>5, <2>1, <2>2
<1> HIDE DEF c
<1>7. /\ e \in Seq(S) /\ Len(e) = (T + 4) + U
      /\ \A i \in 1 .. T + 4 : e[i] = c[i]
      /\ \A i \in 1 .. U : e[(T + 4) + i] = u[i]
  <2>1. e \in Seq(S) /\ IsJoin(e, c, T + 4, u, U)
    BY <1>6, JoinIs
  <2> HIDE DEF e
  <2> QED
    BY <2>1 DEF IsJoin
<1> HIDE DEF e
<1>8. /\ e \o end \in Seq(S) /\ Len(e \o end) = (T + U + 4) + 3
      /\ \A i \in 1 .. T + U + 4 : (e \o end)[i] = e[i]
      /\ \A i \in 1 .. 3 : (e \o end)[(T + U + 4) + i] = end[i]
  <2>1. T + U + 4 \in Nat /\ (T + 4) + U = T + U + 4
    OBVIOUS
  <2>2. Len(e) = T + U + 4
    BY <1>7, <2>1
  <2>3. e \o end \in Seq(S) /\ IsJoin(e \o end, e, T + U + 4, end, 3)
    BY <1>2, <1>7, <2>2, JoinIs
  <2> QED
    BY <2>3 DEF IsJoin
<1>9. h = e \o end
  BY DEF end
<1> HIDE DEF h
<1>10. /\ h \in Seq(S) /\ Len(h) = T + U + 7 /\ \A i \in 1 .. T + U + 4 : h[i] = e[i]
       /\ h[(T + U + 4) + 1] = d /\ h[(T + U + 4) + 2] = z /\ h[(T + U + 4) + 3] = o
  <2>1. (T + U + 4) + 3 = T + U + 7 /\ 1 \in 1 .. 3 /\ 2 \in 1 .. 3 /\ 3 \in 1 .. 3
    OBVIOUS
  <2> QED
    BY <1>2, <1>8, <1>9, <2>1
<1>11. \A i \in 1 .. U : h[(T + 4) + i] = u[i]
  <2>1. \A i \in 1 .. U : (T + 4) + i \in 1 .. T + U + 4
    OBVIOUS
  <2> QED
    BY <1>7, <1>10, <2>1
<1>12. \A i \in 1 .. T + 4 : h[i] = c[i]
  <2>1. \A i \in 1 .. T + 4 : i \in 1 .. T + U + 4
    OBVIOUS
  <2> QED
    BY <1>7, <1>10, <2>1
<1>13. h[T + 4] = d
  <2>1. T + 4 \in 1 .. T + 4
    OBVIOUS
  <2> QED
    BY <1>6, <1>12, <2>1
<1>14. \A i \in 1 .. 3 + T : h[i] = b[i]
  <2>1. \A i \in 1 .. 3 + T : i \in 1 .. T + 4
    OBVIOUS
  <2> QED
    BY <1>6, <1>12, <2>1
<1>15. \A i \in 1 .. T : h[3 + i] = t[i]
  <2>1. \A i \in 1 .. T : 3 + i \in 1 .. 3 + T
    OBVIOUS
  <2> QED
    BY <1>4, <1>14, <2>1
<1>16. h[1] = z /\ h[2] = z /\ h[3] = d
  <2>1. 1 \in 1 .. 3 /\ 2 \in 1 .. 3 /\ 3 \in 1 .. 3 /\ 1 \in 1 .. 3 + T /\ 2 \in 1 .. 3 + T /\ 3 \in 1 .. 3 + T
    OBVIOUS
  <2> QED
    BY <1>1, <1>4, <1>14, <2>1
<1>17. h \in Seq(S) /\ IsBuilt(h, t, T, u, U, z, o, d)
  BY <1>10, <1>11, <1>13, <1>15, <1>16 DEF IsBuilt
<1> QED
  BY <1>17 DEF h, e, c, b, a, end, dash

\* A text that begins and ends with no byte of a class is all that is left of it.
LEMMA StripsNothing ==
  ASSUME NEW S, NEW s \in Seq(S), NEW C, Len(s) > 0, s[1] \notin C, s[Len(s)] \notin C
  PROVE  Strip(s, C) = s
<1> DEFINE kept == {i \in DOMAIN s : s[i] \notin C}
<1>0. Len(s) \in Nat /\ DOMAIN s = 1 .. Len(s)
  OBVIOUS
<1>1. /\ kept \in SUBSET Nat /\ kept \in SUBSET Int /\ 1 \in kept /\ Len(s) \in kept
      /\ \A k \in kept : 1 <= k /\ k <= Len(s)
  BY <1>0
<1>2. Strip(s, C) = IF kept = {} THEN <<>> ELSE SubSeq(s, Min(kept), Max(kept))
  BY DEF Strip
<1> HIDE DEF kept
<1>3. Min(kept) = 1
  BY <1>1, MinIsThat
<1>4. Max(kept) = Len(s)
  BY <1>1, MaxIsThat
<1>5. kept # {}
  BY <1>1
<1>6. SubSeq(s, 1, Len(s)) = s
  OBVIOUS
<1> QED
  BY <1>2, <1>3, <1>4, <1>5, <1>6

LEMMA HeaderBytes ==
  /\ "0" \in LowerHexes /\ "1" \in LowerHexes /\ "0" \notin Blanks /\ "1" \notin Blanks
  /\ <<"0", "0">> # <<"f", "f">>
<1>1. "0" \in Hexes /\ "1" \in Hexes
  BY SMT DEF Hexes, Digits, DigitOrder, Range
<1>2. "0" \notin Uppers /\ "1" \notin Uppers
  BY SMT DEF Uppers, UpperOrder, Range
<1>3. "0" \notin Blanks /\ "1" \notin Blanks
  BY Zenon DEF Blanks, Space
<1>4. <<"0", "0">> # <<"f", "f">>
  BY SMT
<1> QED
  BY <1>1, <1>2, <1>3, <1>4, Zenon DEF LowerHexes

\* What is handed on of a trace is read as that trace.
LEMMA HandedOn ==
  ASSUME NEW S, NEW s \in Seq(S), IsContinued(s)
  PROVE  LET context == [trace |-> TraceIn(s), span |-> SpanIn(s)]
         IN  Parse(BuildHeader(context)) = {context}
<1> DEFINE T == TraceIdLength
           U == SpanIdLength
           F == FixedLength
           t == TraceIn(s)
           u == SpanIn(s)
           context == [trace |-> t, span |-> u]
           h == BuildHeader(context)
           H == LowerHexes
           z == "0"
           o == "1"
           d == "-"
           V == S \cup {z, o, d}
<1>1. T \in Nat \ {0} /\ U \in Nat \ {0} /\ F = T + U + 7 /\ Len(s) \in Nat
  BY PropagationConstants
<1>2. /\ Len(s) >= F /\ {z} # Range(t) /\ {z} # Range(u)
      /\ \A i \in 1 .. F : i \notin {3, T + 4, F - 2} => s[i] \in H
  BY DEF IsContinued, IsFormed, IsDashAt
<1>3. /\ t \in Seq(S) /\ Len(t) = T /\ \A i \in 1 .. T : t[i] = s[3 + i]
  <2>1. \A i \in 4 .. T + 3 : s[i] \in S
    BY <1>1, <1>2
  <2>2. /\ t \in Seq(S) /\ Len(t) = IF 4 <= T + 3 THEN (T + 3) - 4 + 1 ELSE 0
        /\ \A i \in 1 .. (T + 3) - 4 + 1 : t[i] = s[4 + i - 1]
    BY <1>1, <2>1, SubSeqProperties DEF TraceIn
  <2> HIDE DEF t, T
  <2>3. (T + 3) - 4 + 1 = T /\ 4 <= T + 3 /\ \A i \in Int : 4 + i - 1 = 3 + i
    BY <1>1
  <2>4. ASSUME NEW i \in 1 .. T PROVE t[i] = s[3 + i]
    <3>1. i \in Int /\ 4 + i - 1 = 3 + i
      OBVIOUS
    <3> QED
      BY <2>2, <2>3, <3>1
  <2> QED
    BY <2>2, <2>3, <2>4
<1>4. /\ u \in Seq(S) /\ Len(u) = U /\ \A i \in 1 .. U : u[i] = s[(T + 4) + i]
  <2>1. \A i \in T + 5 .. F - 3 : s[i] \in S
    BY <1>1, <1>2
  <2>2. /\ u \in Seq(S) /\ Len(u) = IF T + 5 <= F - 3 THEN (F - 3) - (T + 5) + 1 ELSE 0
        /\ \A i \in 1 .. (F - 3) - (T + 5) + 1 : u[i] = s[(T + 5) + i - 1]
    BY <1>1, <2>1, SubSeqProperties DEF SpanIn
  <2> HIDE DEF u, U, T, F
  <2>3. (F - 3) - (T + 5) + 1 = U /\ T + 5 <= F - 3
    BY <1>1
  <2>4. ASSUME NEW i \in 1 .. U PROVE u[i] = s[(T + 4) + i]
    <3>1. (T + 5) + i - 1 = (T + 4) + i
      BY <1>1
    <3> QED
      BY <2>2, <2>3, <3>1
  <2> QED
    BY <2>2, <2>3, <2>4
<1>5. /\ h \in Seq(V) /\ Len(h) = T + U + 7
      /\ h[1] = z /\ h[2] = z /\ h[3] = d
      /\ \A i \in 1 .. T : h[3 + i] = t[i]
      /\ h[T + 4] = d
      /\ \A i \in 1 .. U : h[(T + 4) + i] = u[i]
      /\ h[(T + U + 4) + 1] = d /\ h[(T + U + 4) + 2] = z /\ h[(T + U + 4) + 3] = o
  <2>1. h = <<z, z, d>> \o t \o <<d>> \o u \o <<d, z, o>>
    BY DEF BuildHeader
  <2>2. t \in Seq(V) /\ u \in Seq(V) /\ z \in V /\ o \in V /\ d \in V
    BY <1>3, <1>4
  <2> HIDE DEF V, z, o, d, t, u, h, T, U
  <2>3. T \in Nat /\ U \in Nat /\ Len(t) = T /\ Len(u) = U
    BY <1>1, <1>3, <1>4
  <2>4. h \in Seq(V) /\ IsBuilt(h, t, T, u, U, z, o, d)
    BY <2>1, <2>2, <2>3, BuiltBytes
  <2> QED
    BY <2>4 DEF IsBuilt
<1>6. z \in H /\ o \in H /\ z \notin Blanks /\ o \notin Blanks /\ <<z, z>> # <<"f", "f">>
  BY HeaderBytes
<1>7. h = BuildHeader(context)
  OBVIOUS
<1>8. context.trace = t /\ context.span = u
  OBVIOUS
<1> DEFINE two == SubSeq(h, 1, 2)
           t2 == TraceIn(h)
           u2 == SpanIn(h)
<1>9. two = <<z, z>> /\ t2 = t /\ u2 = u
  <2> HIDE DEF h, z, o, d, t, u, V, context
  <2>1. two = <<z, z>>
    <3>1. \A i \in 1 .. 2 : h[i] \in V
      BY <1>1, <1>5
    <3>2. two \in Seq(V) /\ Len(two) = 2 /\ \A i \in 1 .. 2 - 1 + 1 : two[i] = h[1 + i - 1]
      BY <3>1, SubSeqProperties
    <3> HIDE DEF two
    <3>3. two[1] = z /\ two[2] = z
      BY <1>5, <3>2
    <3> QED
      BY <3>2, <3>3
  <2>2. t2 = t
    <3>1. \A i \in 4 .. T + 3 : h[i] \in V
      BY <1>1, <1>5
    <3>2. /\ t2 \in Seq(V) /\ Len(t2) = IF 4 <= T + 3 THEN (T + 3) - 4 + 1 ELSE 0
          /\ \A i \in 1 .. (T + 3) - 4 + 1 : t2[i] = h[4 + i - 1]
      BY <1>1, <3>1, SubSeqProperties DEF TraceIn
    <3> HIDE DEF t2, T
    <3>3. (T + 3) - 4 + 1 = T /\ 4 <= T + 3
      BY <1>1
    <3>4. ASSUME NEW i \in 1 .. T PROVE t2[i] = t[i]
      <4>1. 4 + i - 1 = 3 + i
        OBVIOUS
      <4>2. t2[i] = h[3 + i]
        BY <3>2, <3>3, <4>1
      <4> QED
        BY <1>5, <4>2
    <3>5. Len(t2) = T
      BY <3>2, <3>3
    <3>6. t2 \in Seq(V)
      BY <3>2
    <3> QED
      BY <1>3, <3>4, <3>5, <3>6
  <2>3. u2 = u
    <3>1. \A i \in T + 5 .. F - 3 : h[i] \in V
      BY <1>1, <1>5
    <3>2. /\ u2 \in Seq(V) /\ Len(u2) = IF T + 5 <= F - 3 THEN (F - 3) - (T + 5) + 1 ELSE 0
          /\ \A i \in 1 .. (F - 3) - (T + 5) + 1 : u2[i] = h[(T + 5) + i - 1]
      BY <1>1, <3>1, SubSeqProperties DEF SpanIn
    <3> HIDE DEF u2, T, U, F
    <3>3. (F - 3) - (T + 5) + 1 = U /\ T + 5 <= F - 3
      BY <1>1
    <3>4. ASSUME NEW i \in 1 .. U PROVE u2[i] = u[i]
      <4>1. (T + 5) + i - 1 = (T + 4) + i
        BY <1>1
      <4>2. u2[i] = h[(T + 4) + i]
        BY <3>2, <3>3, <4>1
      <4> QED
        BY <1>5, <4>2
    <3>5. Len(u2) = U
      BY <3>2, <3>3
    <3>6. u2 \in Seq(V)
      BY <3>2
    <3> QED
      BY <1>4, <3>4, <3>5, <3>6
  <2> QED
    BY <2>1, <2>2, <2>3
<1>10. IsFormed(h)
  <2> HIDE DEF h, z, o, d, t, u, V, context, H, T, U, F
  <2>1. h[F - 2] = d /\ h[F - 1] = z /\ h[F] = o
    <3>1. (T + U + 4) + 1 = F - 2 /\ (T + U + 4) + 2 = F - 1 /\ (T + U + 4) + 3 = F
      BY <1>1
    <3> QED
      BY <1>5, <3>1
  <2>2. \A i \in 4 .. T + 3 : h[i] \in H
    <3> TAKE i \in 4 .. T + 3
    <3>1. i - 3 \in 1 .. T /\ 3 + (i - 3) = i /\ i \in 1 .. F /\ i \notin {3, T + 4, F - 2}
      BY <1>1
    <3>2. h[i] = t[i - 3] /\ t[i - 3] = s[i]
      BY <1>3, <1>5, <3>1
    <3> QED
      BY <1>2, <3>1, <3>2
  <2>3. \A i \in T + 5 .. F - 3 : h[i] \in H
    <3> TAKE i \in T + 5 .. F - 3
    <3>1. i - (T + 4) \in 1 .. U /\ (T + 4) + (i - (T + 4)) = i /\ i \in 1 .. F /\ i \notin {3, T + 4, F - 2}
      BY <1>1
    <3>2. h[i] = u[i - (T + 4)] /\ u[i - (T + 4)] = s[i]
      BY <1>4, <1>5, <3>1
    <3> QED
      BY <1>2, <3>1, <3>2
  <2>4. ASSUME NEW i \in 1 .. F PROVE IF i \in {3, T + 4, F - 2} THEN h[i] = d ELSE h[i] \in H
    <3>1. \/ i = 1 \/ i = 2 \/ i = 3 \/ i \in 4 .. T + 3 \/ i = T + 4 \/ i \in T + 5 .. F - 3
          \/ i = F - 2 \/ i = F - 1 \/ i = F
      BY <1>1
    <3>2. i \in {3, T + 4, F - 2} => h[i] = d
      BY <1>5, <2>1
    <3>3. i \notin {3, T + 4, F - 2} => h[i] \in H
      BY <1>5, <1>6, <2>1, <2>2, <2>3, <3>1
    <3> QED
      BY <3>2, <3>3
  <2>5. Len(h) >= F /\ ~(Len(h) > F)
    BY <1>1, <1>5
  <2> QED
    BY <2>4, <2>5 DEF IsFormed, IsDashAt, T, F, H, d
<1>11. IsContinued(h)
  <2>1. ~(Len(h) > F)
    <3> HIDE DEF h, z, o, d, t, u, V, context, H, T, U, F
    <3> QED
      BY <1>1, <1>5
  <2> HIDE DEF h, t, u, V, context, H
  <2> QED
    BY <1>2, <1>6, <1>9, <1>10, <2>1, Zenon DEF IsContinued
<1>12. Strip(h, Blanks) = h
  <2>1. Len(h) > 0 /\ h[1] \notin Blanks /\ h[Len(h)] \notin Blanks /\ h \in Seq(V)
    <3> HIDE DEF h, z, o, d, t, u, V, context, H, T, U, F
    <3>1. (T + U + 4) + 3 = Len(h)
      BY <1>1, <1>5
    <3> QED
      BY <1>1, <1>5, <1>6, <3>1
  <2> HIDE DEF h
  <2> QED
    BY <2>1, StripsNothing
<1>13. Parse(h) = {[trace |-> t2, span |-> u2]}
  <2>1. Parse(h) = IF IsContinued(Strip(h, Blanks)) THEN {[trace |-> TraceIn(Strip(h, Blanks)), span |-> SpanIn(Strip(h, Blanks))]} ELSE {}
    <3> HIDE DEF h
    <3> QED
      BY ParseIs
  <2> HIDE DEF h
  <2> QED
    BY <1>11, <1>12, <2>1
<1> HIDE DEF t2, u2, h
<1>14. Parse(h) = {context}
  BY <1>9, <1>13
<1> QED
  BY <1>14 DEF h

\* A header is continued exactly when its fields are those of a trace, blanks around it aside,
\* and a trace that is continued is handed on as it came (trace_parent.cpp).
THEOREM TracesAreContinued ==
  ASSUME NEW S, NEW raw \in Seq(S)
  PROVE  TraceIsContinued(raw)
<1>1. Strip(raw, Blanks) \in Seq(S)
  BY StripIs
<1>2. ASSUME NEW context \in Parse(raw) PROVE Parse(BuildHeader(context)) = {context}
  <2> DEFINE s == Strip(raw, Blanks)
  <2>1. Parse(raw) = IF IsContinued(s) THEN {[trace |-> TraceIn(s), span |-> SpanIn(s)]} ELSE {}
    BY ParseIs
  <2> HIDE DEF s
  <2>2. IsContinued(s) /\ context = [trace |-> TraceIn(s), span |-> SpanIn(s)]
    BY <1>2, <2>1
  <2>3. s \in Seq(S)
    BY <1>1 DEF s
  <2>4. Parse(BuildHeader([trace |-> TraceIn(s), span |-> SpanIn(s)])) = {[trace |-> TraceIn(s), span |-> SpanIn(s)]}
    BY <2>2, <2>3, HandedOn
  <2> QED
    BY <2>2, <2>4, Zenon
<1> QED
  BY <1>2, ContinuedIs, Zenon DEF TraceIsContinued, IsHex

-----------------------------------------------------------------------------
(* Paths and span names *)

\* What is left of a text by leaving bytes out is text of it.
LEMMA OnlyIs ==
  ASSUME NEW S, NEW s \in Seq(S), NEW C
  PROVE  Only(s, C) \in Seq(S) /\ Only(s, C) \in Seq(C) /\ Len(Only(s, C)) <= Len(s)
<1> DEFINE n == Len(s)
           f == Taking(s, C)
           P == {k \in 0 .. n : Len(f[k]) <= k}
<1>0. n \in Nat
  OBVIOUS
<1>1. /\ IsTaking(f, s, C) /\ Only(s, C) = f[n]
      /\ \A k \in 0 .. n : f[k] \in Seq(S \cap C)
  BY TakingStep
<1>2. f[0] = <<>> /\ \A k \in 1 .. n : f[k] = IF s[k] \in C THEN Append(f[k - 1], s[k]) ELSE f[k - 1]
  <2> HIDE DEF f
  <2> QED
    BY <1>0, <1>1, TakingEach
<1> HIDE DEF f
<1>3. 0 \in P
  <2>1. Len(<<>>) = 0
    OBVIOUS
  <2>2. Len(f[0]) = 0
    BY <1>2, <2>1, Zenon
  <2> QED
    BY <1>0, <2>2
<1>4. ASSUME NEW k \in 1 .. n, k - 1 \in P PROVE k \in P
  <2> DEFINE t == f[k - 1]
             u == Append(t, s[k])
  <2>1. t \in Seq(S \cap C) /\ Len(t) <= k - 1 /\ (f[k] = u \/ f[k] = t)
    BY <1>1, <1>2, <1>4
  <2> HIDE DEF t
  <2>2. Len(t) \in Nat /\ Len(u) = Len(t) + 1
    BY <2>1
  <2> HIDE DEF u
  <2> QED
    BY <2>1, <2>2
<1>5. \A k \in 0 .. n : k \in P
  <2> HIDE DEF P, n
  <2> QED
    BY <1>0, <1>3, <1>4, UpTo
<1>6. n \in P /\ f[n] \in Seq(S \cap C)
  BY <1>0, <1>1, <1>5
<1>7. f[n] \in Seq(S) /\ f[n] \in Seq(C)
  BY <1>6
<1> QED
  BY <1>1, <1>6, <1>7

\* Appending to two texts put together.
AppendsLast(x, y, e) == Append(x \o y, e) = x \o Append(y, e)

LEMMA AppendJoin ==
  ASSUME NEW S, NEW x \in Seq(S), NEW y \in Seq(S), NEW e \in S
  PROVE  AppendsLast(x, y, e)
<1> DEFINE u == Append(x \o y, e)
           v == x \o Append(y, e)
<1>1. x \o y \in Seq(S) /\ Append(y, e) \in Seq(S) /\ Len(x) \in Nat /\ Len(y) \in Nat
  OBVIOUS
<1>2. /\ u \in Seq(S) /\ Len(u) = Len(x) + Len(y) + 1 /\ v \in Seq(S) /\ Len(v) = Len(x) + Len(y) + 1
  BY <1>1
<1>3. ASSUME NEW i \in 1 .. Len(x) + Len(y) + 1 PROVE u[i] = v[i]
  <2>1. CASE i <= Len(x)
    BY <1>1, <2>1
  <2>2. CASE i > Len(x) /\ i <= Len(x) + Len(y)
    BY <1>1, <2>2
  <2>3. CASE i = Len(x) + Len(y) + 1
    BY <1>1, <2>3
  <2> QED
    BY <1>1, <2>1, <2>2, <2>3
<1> HIDE DEF u, v
<1>4. u = v
  BY <1>1, <1>2, <1>3, SeqEqual
<1> QED
  BY <1>4 DEF u, v, AppendsLast

\* What is taken of two texts in a row.
LEMMA OnlyJoin ==
  ASSUME NEW S, NEW a \in Seq(S), NEW b \in Seq(S), NEW C
  PROVE  Only(a \o b, C) = Only(a, C) \o Only(b, C)
<1> DEFINE s == a \o b
           m == Len(a)
           n == Len(b)
           f == Taking(a, C)
           g == Taking(b, C)
           h == Taking(s, C)
           P == {k \in 0 .. n : h[m + k] = f[m] \o g[k]}
<1>0. /\ m \in Nat /\ n \in Nat /\ s \in Seq(S) /\ Len(s) = m + n
      /\ \A k \in 1 .. m : s[k] = a[k]
      /\ \A k \in 1 .. n : s[m + k] = b[k]
  OBVIOUS
<1>1. /\ IsTaking(h, s, C) /\ Only(s, C) = h[Len(s)]
      /\ IsTaking(g, b, C) /\ Only(b, C) = g[n]
      /\ Only(a, C) = f[m] /\ f[m] \in Seq(S \cap C) /\ \A k \in 0 .. n : g[k] \in Seq(S \cap C)
  <2>1. IsTaking(h, s, C) /\ Only(s, C) = h[Len(s)]
    <3> HIDE DEF s
    <3> QED
      BY <1>0, TakingStep
  <2>2. IsTaking(g, b, C) /\ Only(b, C) = g[n] /\ \A k \in 0 .. n : g[k] \in Seq(S \cap C)
    BY TakingStep
  <2>3. Only(a, C) = f[m] /\ \A k \in 0 .. m : f[k] \in Seq(S \cap C)
    BY TakingStep
  <2>4. m \in 0 .. m
    BY <1>0
  <2> HIDE DEF f, g, h, s, m
  <2> QED
    BY <2>1, <2>2, <2>3, <2>4
<1>2. /\ \A k \in 1 .. Len(s) : h[k] = IF s[k] \in C THEN Append(h[k - 1], s[k]) ELSE h[k - 1]
      /\ g[0] = <<>>
      /\ \A k \in 1 .. n : g[k] = IF b[k] \in C THEN Append(g[k - 1], b[k]) ELSE g[k - 1]
  <2> HIDE DEF f, g, h, s
  <2>1. Len(s) \in Nat
    BY <1>0
  <2>2. \A k \in 1 .. Len(s) : h[k] = IF s[k] \in C THEN Append(h[k - 1], s[k]) ELSE h[k - 1]
    BY <1>1, <2>1, TakingEach
  <2>3. /\ g[0] = <<>>
        /\ \A k \in 1 .. Len(b) : g[k] = IF b[k] \in C THEN Append(g[k - 1], b[k]) ELSE g[k - 1]
    BY <1>0, <1>1, TakingEach
  <2> QED
    BY <2>2, <2>3
<1>3. h[m] = f[m]
  <2>1. \A k \in 1 .. Len(a) : a[k] = s[k] /\ (a[k] \in C <=> a[k] \in C)
    BY <1>0
  <2>2. Len(a) <= Len(s)
    BY <1>0
  <2>3. \A k \in 0 .. Len(a) : Taking(a, C)[k] = Taking(s, C)[k]
    <3> HIDE DEF s
    <3> QED
      BY <1>0, <2>1, <2>2, TakingIs
  <2> HIDE DEF s
  <2> QED
    BY <1>0, <2>3
<1> HIDE DEF f, g, h, s
<1>4. 0 \in P
  <2>1. f[m] \o <<>> = f[m]
    BY <1>1, ConcatEmptySeq
  <2>2. h[m] = f[m] \o g[0]
    BY <1>2, <1>3, <2>1, Zenon
  <2>3. m + 0 = m /\ 0 \in 0 .. n
    BY <1>0
  <2>4. h[m + 0] = f[m] \o g[0]
    BY <2>2, <2>3, Zenon
  <2> QED
    BY <2>3, <2>4, Zenon
<1>5. ASSUME NEW k \in 1 .. n, k - 1 \in P PROVE k \in P
  <2> DEFINE x == f[m]
             y == g[k - 1]
             e == m + k
  <2>1. /\ x \in Seq(S \cap C) /\ y \in Seq(S \cap C) /\ h[m + (k - 1)] = x \o y
        /\ e \in 1 .. Len(s) /\ e - 1 = m + (k - 1) /\ s[e] = b[k] /\ k \in 0 .. n /\ b[k] \in S
    <3>1. k - 1 \in 0 .. n /\ h[m + (k - 1)] = x \o y
      BY <1>0, <1>5
    <3>2. x \in Seq(S \cap C) /\ y \in Seq(S \cap C)
      BY <1>1, <3>1
    <3>3. s[m + k] = b[k] /\ b[k] \in S
      BY <1>0
    <3>4. e \in 1 .. Len(s) /\ e - 1 = m + (k - 1) /\ k \in 0 .. n
      BY <1>0
    <3> HIDE DEF x, y
    <3> QED
      BY <3>1, <3>2, <3>3, <3>4
  <2>2. h[e] = IF s[e] \in C THEN Append(h[e - 1], s[e]) ELSE h[e - 1]
    BY <1>2, <2>1
  <2>3. g[k] = IF b[k] \in C THEN Append(y, b[k]) ELSE y
    BY <1>2
  <2> HIDE DEF x, y, e
  <2>4. Append(x \o y, b[k]) = x \o Append(y, b[k])
    <3>1. x \in Seq(S) /\ y \in Seq(S) /\ b[k] \in S
      BY <2>1
    <3>2. AppendsLast(x, y, b[k])
      BY <3>1, AppendJoin
    <3> QED
      BY <3>2 DEF AppendsLast
  <2>5. h[e] = x \o g[k]
    BY <2>1, <2>2, <2>3, <2>4
  <2> QED
    BY <2>1, <2>5 DEF x, e
<1>6. \A k \in 0 .. n : k \in P
  <2> HIDE DEF P, n
  <2> QED
    BY <1>0, <1>4, <1>5, UpTo
<1>7. h[m + n] = f[m] \o g[n]
  <2>1. n \in P
    <3> HIDE DEF P, n
    <3>1. n \in 0 .. n
      BY <1>0
    <3> QED
      BY <1>6, <3>1
  <2> QED
    BY <2>1
<1> QED
  BY <1>0, <1>1, <1>7 DEF s

\* What is taken depends on the bytes of the text alone.
LEMMA OnlySame ==
  ASSUME NEW S, NEW s \in Seq(S), NEW C, NEW D, \A c \in Range(s) : c \in C <=> c \in D
  PROVE  Only(s, C) = Only(s, D)
<1>1. \A k \in 1 .. Len(s) : s[k] = s[k] /\ (s[k] \in C <=> s[k] \in D)
  BY DEF Range
<1>2. Len(s) \in Nat /\ Len(s) <= Len(s)
  OBVIOUS
<1>3. \A k \in 0 .. Len(s) : Taking(s, C)[k] = Taking(s, D)[k]
  BY <1>1, <1>2, TakingIs
<1>4. Only(s, C) = Taking(s, C)[Len(s)] /\ Only(s, D) = Taking(s, D)[Len(s)]
  BY TakingStep
<1> QED
  BY <1>2, <1>3, <1>4

\* Nothing is taken of a text none of whose bytes are wanted; and of another, what is
\* wanted first.
LEMMA OnlyFirst ==
  ASSUME NEW S, NEW s \in Seq(S), NEW C
  PROVE  /\ (\A i \in 1 .. Len(s) : s[i] \notin C) => Only(s, C) = <<>>
         /\ \A k \in 1 .. Len(s) :
              s[k] \in C /\ (\A i \in 1 .. k - 1 : s[i] \notin C) =>
                /\ Only(s, C) # <<>> /\ Only(s, C)[1] = s[k]
                /\ Len(Only(s, C)) > 1 <=> \E i \in k + 1 .. Len(s) : s[i] \in C
<1> DEFINE n == Len(s)
           f == Taking(s, C)
<1>0. n \in Nat
  OBVIOUS
<1>1. /\ IsTaking(f, s, C) /\ Only(s, C) = f[n]
      /\ \A k \in 0 .. n : f[k] \in Seq(S \cap C)
  BY TakingStep
<1>2. f[0] = <<>> /\ \A k \in 1 .. n : f[k] = IF s[k] \in C THEN Append(f[k - 1], s[k]) ELSE f[k - 1]
  <2> HIDE DEF f
  <2> QED
    BY <1>0, <1>1, TakingEach
<1> HIDE DEF f
<1>3. ASSUME NEW m \in 0 .. n, \A i \in 1 .. m : s[i] \notin C PROVE f[m] = <<>>
  <2> DEFINE P == {k \in 0 .. m : f[k] = <<>>}
  <2>1. 0 \in P /\ m \in Nat
    BY <1>2
  <2>2. ASSUME NEW k \in 1 .. m, k - 1 \in P PROVE k \in P
    <3>1. k \in 1 .. n /\ s[k] \notin C /\ f[k - 1] = <<>>
      BY <1>0, <1>3, <2>2
    <3>2. f[k] = <<>>
      BY <1>2, <3>1
    <3> QED
      BY <3>2
  <2>3. \A k \in 0 .. m : k \in P
    <3> HIDE DEF P
    <3> QED
      BY <2>1, <2>2, UpTo
  <2>4. m \in P
    BY <2>1, <2>3
  <2> QED
    BY <2>4
<1>4. ASSUME NEW k \in 1 .. n, s[k] \in C, \A i \in 1 .. k - 1 : s[i] \notin C
      PROVE  /\ f[n] # <<>> /\ f[n][1] = s[k]
             /\ Len(f[n]) > 1 <=> \E i \in k + 1 .. n : s[i] \in C
  <2> DEFINE Q(j) == /\ Len(f[j]) >= 1 /\ f[j][1] = s[k]
                     /\ Len(f[j]) > 1 <=> \E i \in k + 1 .. j : s[i] \in C
             P == {d \in 0 .. n - k : Q(k + d)}
  <2>1. 0 \in P
    <3>1. k - 1 \in 0 .. n
      BY <1>0
    <3>2. f[k - 1] = <<>>
      BY <1>3, <1>4, <3>1
    <3>3. f[k] = Append(<<>>, s[k])
      BY <1>2, <1>4, <3>2
    <3>4. Append(<<>>, s[k]) = <<s[k]>>
      OBVIOUS
    <3>5. Len(f[k]) = 1 /\ f[k][1] = s[k]
      BY <3>3, <3>4
    <3>6. Q(k)
      BY <3>5
    <3>7. k + 0 = k /\ 0 \in 0 .. n - k
      BY <1>0
    <3> HIDE DEF Q
    <3> QED
      BY <3>6, <3>7
  <2>2. ASSUME NEW d \in 1 .. n - k, d - 1 \in P PROVE d \in P
    <3> DEFINE e == k + d
               t == f[e - 1]
               u == Append(t, s[e])
    <3>1. e \in 1 .. n /\ e > k /\ e - 1 = k + (d - 1) /\ e - 1 \in 0 .. n /\ d \in 0 .. n - k /\ s[e] \in S
      BY <1>0
    <3>2. t \in Seq(S) /\ Len(t) >= 1 /\ t[1] = s[k] /\ (Len(t) > 1 <=> \E i \in k + 1 .. e - 1 : s[i] \in C)
      <4>1. Q(e - 1)
        BY <2>2, <3>1
      <4>2. f[e - 1] \in Seq(S \cap C)
        BY <1>1, <3>1
      <4>3. f[e - 1] \in Seq(S)
        BY <4>2
      <4> QED
        BY <4>1, <4>3
    <3>3. f[e] = IF s[e] \in C THEN u ELSE t
      BY <1>2, <3>1
    <3> HIDE DEF e, t
    <3>4. Len(u) = Len(t) + 1 /\ u[1] = t[1] /\ Len(t) \in Nat
      BY <3>1, <3>2
    <3> HIDE DEF u
    <3>5. (\E i \in k + 1 .. e : s[i] \in C) <=> s[e] \in C \/ \E i \in k + 1 .. e - 1 : s[i] \in C
      <4>1. \A i \in k + 1 .. e : i = e \/ i \in k + 1 .. e - 1
        BY <3>1
      <4>2. e \in k + 1 .. e /\ \A i \in k + 1 .. e - 1 : i \in k + 1 .. e
        BY <3>1
      <4> QED
        BY <4>1, <4>2
    <3>6. Q(e)
      BY <3>2, <3>3, <3>4, <3>5
    <3> HIDE DEF Q
    <3> QED
      BY <3>1, <3>6 DEF e
  <2>3. \A d \in 0 .. n - k : d \in P
    <3> DEFINE m == n - k
    <3>1. m \in Nat
      BY <1>0
    <3> HIDE DEF P
    <3>2. \A d \in 1 .. m : d - 1 \in P => d \in P
      BY <2>2
    <3> HIDE DEF m
    <3>3. \A d \in 0 .. m : d \in P
      BY <2>1, <3>1, <3>2, UpTo
    <3> QED
      BY <3>3 DEF m
  <2>4. n - k \in 0 .. n - k /\ k + (n - k) = n
    BY <1>0
  <2>5. Q(n)
    <3> HIDE DEF Q
    <3>1. n - k \in P
      BY <2>3, <2>4
    <3>2. Q(k + (n - k))
      BY <3>1
    <3> QED
      BY <2>4, <3>2
  <2> QED
    BY <2>5
<1>5. n \in 0 .. n
  BY <1>0
<1>6. (\A i \in 1 .. n : s[i] \notin C) => f[n] = <<>>
  BY <1>3, <1>5
<1> QED
  BY <1>1, <1>4, <1>6

\* Where the first segment of a path stands: behind slashes alone, up to the next one.
IsFirst(p, a, b) ==
  /\ a \in 1 .. Len(p) /\ b \in a + 1 .. Len(p) + 1
  /\ \A i \in 1 .. a - 1 : p[i] = "/"
  /\ \A i \in a .. b - 1 : p[i] # "/"
  /\ b <= Len(p) => p[b] = "/"

\* Whether anything but slashes follows.
HasMore(p, b) == \E i \in b .. Len(p) : p[i] # "/"

\* There is a first segment wherever there is more than slashes.
LEMMA FirstExists ==
  ASSUME NEW S, NEW p \in Seq(S), \E i \in 1 .. Len(p) : p[i] # "/"
  PROVE  \E a, b : IsFirst(p, a, b)
<1> DEFINE B == {i \in 1 .. Len(p) : p[i] # "/"}
<1>0. Len(p) \in Nat
  OBVIOUS
<1>1. PICK a \in B : \A i \in B : a <= i
  <2>1. B \in SUBSET Nat /\ B # {}
    OBVIOUS
  <2> HIDE DEF B
  <2> QED
    BY <2>1, Least
<1>2. a \in 1 .. Len(p) /\ p[a] # "/" /\ \A i \in 1 .. a - 1 : p[i] = "/"
  BY <1>0, <1>1
<1> DEFINE f == Find(p, a, {"/"})
           b == IF f = 0 THEN Len(p) + 1 ELSE f
<1>3. \/ f \in a .. Len(p) /\ p[f] = "/" /\ \A i \in a .. f - 1 : p[i] # "/"
      \/ f = 0 /\ \A i \in a .. Len(p) : p[i] # "/"
  <2>1. a \in Nat \ {0}
    BY <1>0, <1>2
  <2>2. \/ f \in a .. Len(p) /\ p[f] \in {"/"} /\ \A i \in a .. f - 1 : p[i] \notin {"/"}
        \/ f = 0 /\ \A i \in a .. Len(p) : p[i] \notin {"/"}
    BY <2>1, FindIs
  <2> QED
    BY <2>2
<1> HIDE DEF f
<1>4. IsFirst(p, a, b)
  BY <1>0, <1>2, <1>3 DEF IsFirst
<1> QED
  BY <1>4

\* What a segment of a path is made of.
IsSegment(g, p) ==
  \/ g = <<>>
  \/ /\ Len(g) \in Nat \ {0} /\ Range(g) \subseteq Range(p) \ {"/"}
     /\ \E i \in 1 .. Len(p) : g[1] = p[i] /\ (i = 1 \/ p[i - 1] = "/")

\* Each segment is a run of bytes between slashes, or empty.
LEMMA SegmentsAre ==
  ASSUME NEW S, NEW p \in Seq(S)
  PROVE  \A g \in Range(Segments(p)) : g \in Seq(S) /\ IsSegment(g, p)
<1>1. PICK n, at : IsSplit(at, n, p, "/")
  BY SplitIs
<1>2. /\ IsCut(at, n, p, "/") /\ Len(Segments(p)) = n /\ Segments(p) \in Seq(Seq(S))
      /\ \A k \in 1 .. n : Segments(p)[k] = Between(p, at[k] + 1, at[k + 1])
  BY <1>1, SplitIs DEF IsSplit, Segments
<1>3. /\ n \in Nat \ {0} /\ Len(p) \in Nat /\ at[1] = 0 /\ at[n + 1] = Len(p) + 1
      /\ \A a \in 1 .. n + 1 : at[a] \in 0 .. Len(p) + 1
      /\ \A a, b \in 1 .. n + 1 : a < b => at[a] < at[b]
      /\ \A a \in 2 .. n : p[at[a]] = "/"
      /\ \A i \in 1 .. Len(p) : p[i] = "/" => \E a \in 2 .. n : at[a] = i
  BY <1>2 DEF IsCut
<1>4. ASSUME NEW k \in 1 .. n
      PROVE  Segments(p)[k] \in Seq(S) /\ IsSegment(Segments(p)[k], p)
  <2> DEFINE g == Between(p, at[k] + 1, at[k + 1])
  <2>1. /\ g \in Seq(S) /\ Len(g) = at[k + 1] - (at[k] + 1)
        /\ \A q \in 1 .. Len(g) : g[q] = p[at[k] + q]
        /\ at[k] \in Nat /\ at[k + 1] \in Nat /\ at[k] < at[k + 1] /\ at[k + 1] <= Len(p) + 1
    BY <1>2, PartIs
  <2>2. Segments(p)[k] = g
    BY <1>2
  <2> HIDE DEF g
  <2>3. CASE Len(g) = 0
    <3>1. g = <<>>
      BY <2>1, <2>3
    <3> QED
      BY <2>1, <2>2, <3>1 DEF IsSegment
  <2>4. CASE Len(g) # 0
    <3>1. Len(g) \in Nat \ {0}
      BY <2>1, <2>4
    <3>2. ASSUME NEW q \in 1 .. Len(g) PROVE g[q] \in Range(p) \ {"/"}
      <4> DEFINE e == at[k] + q
      <4>1. e \in 1 .. Len(p) /\ at[k] < e /\ e < at[k + 1] /\ g[q] = p[e]
        BY <2>1, SMTT(30)
      <4> HIDE DEF e
      <4>2. p[e] # "/"
        <5> SUFFICES ASSUME p[e] = "/" PROVE FALSE
          OBVIOUS
        <5>1. PICK a \in 2 .. n : at[a] = e
          BY <1>3, <4>1
        <5>2. a \in 1 .. n + 1 /\ k \in 1 .. n + 1 /\ k + 1 \in 1 .. n + 1
          BY <1>3
        <5>3. ~(a < k) /\ a # k /\ ~(k + 1 < a) /\ a # k + 1
          BY SMTT(60), <1>3, <2>1, <4>1, <5>1, <5>2
        <5> QED
          BY <1>3, <5>3
      <4>3. p[e] \in Range(p)
        BY <4>1 DEF Range
      <4> QED
        BY <4>1, <4>2, <4>3
    <3>3. Range(g) \subseteq Range(p) \ {"/"}
      <4>1. \A c \in Range(g) : \E q \in 1 .. Len(g) : c = g[q]
        BY <2>1 DEF Range
      <4> QED
        BY <3>2, <4>1
    <3>4. \E i \in 1 .. Len(p) : g[1] = p[i] /\ (i = 1 \/ p[i - 1] = "/")
      <4> DEFINE i == at[k] + 1
      <4>1. i \in 1 .. Len(p) /\ g[1] = p[i] /\ i - 1 = at[k]
        BY <1>3, <2>1, <3>1, SMTT(30)
      <4>2. k = 1 => i = 1
        BY <1>3
      <4>3. k # 1 => p[at[k]] = "/"
        BY <1>3
      <4> HIDE DEF i
      <4> QED
        BY <4>1, <4>2, <4>3
    <3> QED
      BY <2>1, <2>2, <3>1, <3>3, <3>4 DEF IsSegment
  <2> QED
    BY <2>3, <2>4
<1>5. \A g \in Range(Segments(p)) : \E k \in 1 .. n : g = Segments(p)[k]
  BY <1>2 DEF Range
<1> QED
  BY <1>4, <1>5

\* The segments of a path that are not empty.
NamedParts(p) == Without(Segments(p), {<<>>})

\* The segments that are not empty: none where there are only slashes,
LEMMA NamedNone ==
  ASSUME NEW S, NEW p \in Seq(S), \A i \in 1 .. Len(p) : p[i] = "/"
  PROVE  NamedParts(p) = <<>>
<1>1. \A g \in Range(Segments(p)) : g = <<>>
  <2> SUFFICES ASSUME NEW g \in Range(Segments(p)), g # <<>> PROVE FALSE
    OBVIOUS
  <2>1. \E i \in 1 .. Len(p) : g[1] = p[i]
    BY SegmentsAre DEF IsSegment
  <2>2. Len(g) \in Nat \ {0} /\ g \in Seq(S) /\ Range(g) \subseteq Range(p) \ {"/"}
    BY SegmentsAre DEF IsSegment
  <2>3. g[1] \in Range(g)
    BY <2>2 DEF Range
  <2> QED
    BY <2>1, <2>2, <2>3
<1>2. Segments(p) \in Seq(Seq(S))
  BY SplitIs DEF Segments
<1> DEFINE t == Segments(p)
           C == Range(t) \ {<<>>}
<1>3. \A i \in 1 .. Len(t) : t[i] \notin C
  BY <1>1 DEF Range
<1>4. Only(t, C) = <<>>
  <2> HIDE DEF t, C
  <2> QED
    BY <1>2, <1>3, OnlyFirst DEF t
<1> QED
  BY <1>4 DEF NamedParts, Without

\* ... and otherwise the first segment first, and more of them if anything but slashes follows.
LEMMA NamedIs ==
  ASSUME NEW S, NEW p \in Seq(S), NEW a, NEW b, IsFirst(p, a, b)
  PROVE  /\ NamedParts(p) # <<>> /\ NamedParts(p)[1] = Between(p, a, b)
         /\ Len(NamedParts(p)) > 1 <=> HasMore(p, b)
         /\ ~HasMore(p, b) => Range(Segments(p)) \subseteq {<<>>, Between(p, a, b)}
<1> DEFINE t == Segments(p)
           C == Range(t) \ {<<>>}
<1>1. PICK n, at : IsSplit(at, n, p, "/")
  BY SplitIs
<1>2. /\ IsCut(at, n, p, "/") /\ Len(t) = n /\ t \in Seq(Seq(S))
      /\ \A k \in 1 .. n : t[k] = Between(p, at[k] + 1, at[k + 1])
  BY <1>1, SplitIs DEF IsSplit, Segments
<1>3. /\ n \in Nat \ {0} /\ Len(p) \in Nat /\ at[1] = 0 /\ at[n + 1] = Len(p) + 1
      /\ \A x \in 1 .. n + 1 : at[x] \in 0 .. Len(p) + 1
      /\ \A x, y \in 1 .. n + 1 : x < y => at[x] < at[y]
      /\ \A x \in 2 .. n : p[at[x]] = "/"
      /\ \A i \in 1 .. Len(p) : p[i] = "/" => \E x \in 2 .. n : at[x] = i
  BY <1>2 DEF IsCut
<1>4. /\ a \in 1 .. Len(p) /\ b \in a + 1 .. Len(p) + 1
      /\ \A i \in 1 .. a - 1 : p[i] = "/"
      /\ \A i \in a .. b - 1 : p[i] # "/"
      /\ b <= Len(p) => p[b] = "/"
  BY DEF IsFirst
<1> HIDE DEF t
<1>5. PICK k \in 1 .. n : at[k] + 1 = a
  <2>1. CASE a = 1
    BY <1>3, <2>1
  <2>2. CASE a # 1
    <3>1. a - 1 \in 1 .. a - 1 /\ a - 1 \in 1 .. Len(p)
      BY <1>3, <1>4, <2>2
    <3>2. PICK x \in 2 .. n : at[x] = a - 1
      BY <1>3, <1>4, <3>1
    <3>3. x \in 1 .. n /\ at[x] + 1 = a
      BY <1>3, <1>4, <3>2
    <3> QED
      BY <3>3
  <2> QED
    BY <2>1, <2>2
<1>6. at[k + 1] = b /\ (b <= Len(p) <=> k + 1 <= n)
  <2>1. b \in at[k] + 1 .. Len(p) + 1 /\ \A i \in at[k] + 1 .. b - 1 : p[i] # "/"
    BY <1>3, <1>4, <1>5
  <2> QED
    BY <1>2, <1>4, <2>1, NextCut
\* How long each segment is, and when it is empty.
<1>7. ASSUME NEW j \in 1 .. n
      PROVE  /\ at[j] \in Nat /\ at[j] < at[j + 1] /\ at[j + 1] <= Len(p) + 1
             /\ t[j] = <<>> <=> at[j + 1] = at[j] + 1
             /\ at[j] < Len(p) => (p[at[j] + 1] = "/" <=> at[j + 1] = at[j] + 1)
  <2> DEFINE g == Between(p, at[j] + 1, at[j + 1])
  <2>1. /\ g \in Seq(S) /\ Len(g) = at[j + 1] - (at[j] + 1)
        /\ at[j] \in Nat /\ at[j + 1] \in Nat /\ at[j] < at[j + 1] /\ at[j + 1] <= Len(p) + 1
    BY <1>2, PartIs
  <2>2. t[j] = g
    BY <1>2
  <2> HIDE DEF g
  <2>3. g = <<>> <=> Len(g) = 0
    BY <2>1
  <2>4. g = <<>> <=> at[j + 1] = at[j] + 1
    BY <2>1, <2>3
  <2>5. ASSUME at[j] < Len(p), p[at[j] + 1] = "/" PROVE at[j + 1] = at[j] + 1
    <3> DEFINE e == at[j] + 1
    <3>1. e \in at[j] + 1 .. Len(p) + 1 /\ p[e] = "/" /\ \A i \in at[j] + 1 .. e - 1 : p[i] # "/"
      BY <1>3, <2>1, <2>5
    <3> HIDE DEF e
    <3>2. at[j + 1] = e
      BY <1>2, <3>1, NextCut
    <3> QED
      BY <3>2 DEF e
  <2>6. ASSUME at[j] < Len(p), at[j + 1] = at[j] + 1 PROVE p[at[j] + 1] = "/"
    <3>1. j + 1 # n + 1
      BY <1>3, <2>1, <2>6
    <3>2. j + 1 \in 2 .. n
      BY <1>3, <3>1
    <3> QED
      BY <1>3, <2>6, <3>2
  <2> QED
    BY <2>1, <2>2, <2>4, <2>5, <2>6
<1>8. \A j \in 1 .. n : t[j] \in C <=> t[j] # <<>>
  BY <1>2 DEF Range
<1>9. t[k] = Between(p, a, b) /\ t[k] \in C
  <2>1. t[k] = Between(p, a, b)
    BY <1>2, <1>5, <1>6
  <2>2. at[k + 1] # at[k] + 1
    BY <1>3, <1>4, <1>5, <1>6
  <2>3. t[k] # <<>>
    BY <1>7, <2>2
  <2> QED
    BY <1>8, <2>1, <2>3
<1>10. ASSUME NEW j \in 1 .. k - 1 PROVE t[j] \notin C
  <2>1. j \in 1 .. n /\ j \in 1 .. n + 1 /\ k \in 1 .. n + 1 /\ j < k
    BY <1>3
  <2>2. at[j] < at[k] /\ at[j] \in Nat /\ at[k] \in Nat
    BY <1>3, <1>7, <2>1
  <2>3. at[j] + 1 \in 1 .. a - 1 /\ at[j] < Len(p)
    BY <1>3, <1>4, <1>5, <2>2
  <2>4. p[at[j] + 1] = "/"
    BY <1>4, <2>3
  <2>5. at[j + 1] = at[j] + 1
    BY <1>7, <2>1, <2>3, <2>4
  <2>6. t[j] = <<>>
    BY <1>7, <2>1, <2>5
  <2> QED
    BY <1>8, <2>1, <2>6
<1>11. ASSUME NEW j \in k + 1 .. n, t[j] \in C PROVE HasMore(p, b)
  <2>1. j \in 1 .. n /\ j \in 1 .. n + 1 /\ k + 1 \in 1 .. n + 1 /\ (j = k + 1 \/ k + 1 < j)
    BY <1>3
  <2>2. at[j] \in Nat /\ at[j] < at[j + 1] /\ at[j + 1] <= Len(p) + 1 /\ at[j + 1] # at[j] + 1
    BY <1>7, <1>8, <1>11, <2>1
  <2>3. at[j + 1] \in 0 .. Len(p) + 1
    BY <1>3, <2>1
  <2>4. at[j] >= b
    BY <1>3, <1>6, <2>1, <2>2
  <2> DEFINE i == at[j] + 1
  <2>5. i \in b .. Len(p) /\ at[j] < Len(p)
    <3> DEFINE u == at[j]
               v == at[j + 1]
               m == Len(p)
    <3>1. u \in Nat /\ v \in Nat /\ m \in Nat /\ b \in Nat
      BY <1>3, <1>4, <2>2, <2>3
    <3>2. u < v /\ v <= m + 1 /\ v # u + 1 /\ u >= b
      BY <2>2, <2>4
    <3> HIDE DEF u, v, m
    <3>3. u + 1 \in b .. m /\ u < m
      BY <3>1, <3>2
    <3> QED
      BY <3>3 DEF u, m
  <2>6. p[i] # "/"
    BY <1>7, <2>1, <2>2, <2>5
  <2> QED
    BY <2>5, <2>6 DEF HasMore
<1>12. ASSUME HasMore(p, b) PROVE \E j \in k + 1 .. n : t[j] \in C
  <2> DEFINE B == {i \in b .. Len(p) : p[i] # "/"}
  <2>1. PICK i \in B : \A x \in B : i <= x
    <3>1. b \in Nat
      BY <1>3, <1>4
    <3>2. B \in SUBSET Nat
      BY <3>1
    <3>3. B # {}
      BY <1>12 DEF HasMore
    <3> HIDE DEF B
    <3> QED
      BY <3>2, <3>3, Least
  <2>2. i \in b .. Len(p) /\ p[i] # "/" /\ i # b
    BY <1>4, <2>1
  <2>3. i - 1 \in b .. Len(p) /\ i - 1 \in 1 .. Len(p)
    BY <1>3, <1>4, <2>2
  <2>4. p[i - 1] = "/"
    <3>1. i - 1 \notin B
      BY <1>4, <1>3, <2>1, <2>2
    <3> QED
      BY <2>3, <3>1
  <2>5. PICK j \in 2 .. n : at[j] = i - 1
    BY <1>3, <2>3, <2>4
  <2>6. j \in 1 .. n /\ j \in 1 .. n + 1 /\ k + 1 \in 1 .. n + 1
    BY <1>3
  <2>7. at[k + 1] <= at[j] /\ at[j] \in Nat /\ at[k + 1] \in Nat
    BY <1>3, <1>4, <1>6, <2>3, <2>5
  <2>8. ~(j < k + 1)
    BY <1>3, <2>6, <2>7
  <2>9. at[j] < Len(p) /\ p[at[j] + 1] # "/"
    BY <1>3, <2>2, <2>5, <1>4
  <2>10. t[j] # <<>>
    BY <1>7, <2>6, <2>9
  <2> QED
    BY <1>3, <1>8, <2>6, <2>8, <2>10
<1>13. ASSUME ~HasMore(p, b), NEW j \in 1 .. n PROVE t[j] \in {<<>>, Between(p, a, b)}
  <2>1. CASE j = k
    BY <1>9, <2>1
  <2>2. CASE j # k
    <3>1. j \in 1 .. k - 1 \/ j \in k + 1 .. n
      BY <1>3, <2>2
    <3>2. t[j] \notin C
      BY <1>10, <1>11, <1>13, <3>1
    <3> QED
      BY <1>8, <3>2
  <2> QED
    BY <2>1, <2>2
<1>14. \A g \in Range(t) : \E j \in 1 .. n : g = t[j]
  BY <1>2 DEF Range
<1>15. NamedParts(p) = Only(t, C)
  BY DEF NamedParts, Without, t
<1> HIDE DEF C
<1>16. /\ Only(t, C) # <<>> /\ Only(t, C)[1] = t[k]
       /\ Len(Only(t, C)) > 1 <=> \E i \in k + 1 .. Len(t) : t[i] \in C
  <2>1. k \in 1 .. Len(t) /\ \A i \in 1 .. k - 1 : t[i] \notin C
    BY <1>2, <1>10
  <2> QED
    BY <1>2, <1>9, <2>1, OnlyFirst
<1>17. (\E i \in k + 1 .. Len(t) : t[i] \in C) <=> HasMore(p, b)
  BY <1>2, <1>11, <1>12
<1>18. ~HasMore(p, b) => Range(t) \subseteq {<<>>, Between(p, a, b)}
  BY <1>13, <1>14
<1> QED
  BY <1>9, <1>15, <1>16, <1>17, <1>18 DEF t

\* What a path is shown as: its first segment g, and whether anything follows.
PathShown(p, g, more) ==
  (IF At(p, 1) = "/" THEN <<"/">> ELSE <<>>) \o (IF IsId(g) THEN <<":id">> ELSE g)
                                            \o (IF more THEN <<"/", ":path">> ELSE <<>>)

\* Whether a path is a route template.
IsTemplate(p) == \E g \in Range(Segments(p)) : IsRouteParameter(g)

\* FirstSegment shows the first run of bytes that are no slashes, and whether more follows.
LEMMA FirstSegmentIs ==
  ASSUME NEW S, NEW p \in Seq(S)
  PROVE  /\ IsTemplate(p) => FirstSegment(p) = p
         /\ ~IsTemplate(p) /\ (\A i \in 1 .. Len(p) : p[i] = "/") => FirstSegment(p) = <<"/">>
         /\ \A a, b : ~IsTemplate(p) /\ IsFirst(p, a, b) =>
              FirstSegment(p) = PathShown(p, Between(p, a, b), HasMore(p, b))
<1> DEFINE root == IF At(p, 1) = "/" THEN <<"/">> ELSE <<>>
<1>1. FirstSegment(p) =
        CASE IsTemplate(p) -> p
          [] ~IsTemplate(p) /\ NamedParts(p) = <<>> -> <<"/">>
          [] OTHER -> root \o (IF IsId(NamedParts(p)[1]) THEN <<":id">> ELSE NamedParts(p)[1])
                           \o (IF Len(NamedParts(p)) > 1 THEN <<"/", ":path">> ELSE <<>>)
  BY Zenon DEF FirstSegment, IsTemplate, NamedParts
<1> HIDE DEF root
<1>2. ASSUME IsTemplate(p) PROVE FirstSegment(p) = p
  BY <1>1, <1>2
<1>3. ASSUME ~IsTemplate(p), \A i \in 1 .. Len(p) : p[i] = "/" PROVE FirstSegment(p) = <<"/">>
  <2>1. NamedParts(p) = <<>>
    BY <1>3, NamedNone
  <2> QED
    BY <1>1, <1>3, <2>1, Zenon
<1>4. ASSUME NEW a, NEW b, ~IsTemplate(p), IsFirst(p, a, b)
      PROVE  FirstSegment(p) = PathShown(p, Between(p, a, b), HasMore(p, b))
  <2>1. /\ NamedParts(p) # <<>> /\ NamedParts(p)[1] = Between(p, a, b)
        /\ Len(NamedParts(p)) > 1 <=> HasMore(p, b)
        /\ ~HasMore(p, b) => Range(Segments(p)) \subseteq {<<>>, Between(p, a, b)}
    BY <1>4, NamedIs
  <2>2. FirstSegment(p) = root \o (IF IsId(NamedParts(p)[1]) THEN <<":id">> ELSE NamedParts(p)[1])
                               \o (IF Len(NamedParts(p)) > 1 THEN <<"/", ":path">> ELSE <<>>)
    BY <1>1, <1>4, <2>1, Zenon
  <2> QED
    BY <2>1, <2>2, Zenon DEF PathShown, root
<1> QED
  BY <1>2, <1>3, <1>4

\* What a parameter of a route template begins with.
Marks == {":", "*", "{", "<", "["}

\* A route parameter says so in its first byte.
LEMMA ParameterMarks ==
  ASSUME NEW S, NEW g \in Seq(S), IsRouteParameter(g)
  PROVE  Len(g) > 0 /\ g[1] \in Marks
<1>0. Len(g) \in Nat /\ DOMAIN g = 1 .. Len(g)
  OBVIOUS
<1>1. NoByte # "*"
  BY SMT DEF NoByte
<1>2. "*" \in Marks /\ ":" \in Marks /\ {"{", "<", "["} \subseteq Marks
  BY Zenon DEF Marks
<1>3. Len(g) >= 2 => Len(g) > 0
  BY <1>0
<1>4. Len(g) >= 3 => Len(g) > 0
  BY <1>0
<1>5. CASE At(g, 1) = "*"
  <2>1. 1 \in DOMAIN g /\ g[1] = "*"
    BY <1>1, <1>5 DEF At
  <2>2. 1 \in 1 .. Len(g)
    BY <1>0, <2>1, Zenon
  <2>3. Len(g) > 0
    BY <1>0, <2>2
  <2> QED
    BY <1>2, <2>1, <2>3, Zenon
<1>6. CASE Len(g) >= 2 /\ g[1] = ":"
  BY <1>2, <1>3, <1>6, Zenon
<1>7. CASE Len(g) >= 3 /\ <<g[1], g[Len(g)]>> \in {<<"{", "}">>, <<"<", ">">>, <<"[", "]">>}
  <2>1. g[1] \in {"{", "<", "["}
    BY <1>7
  <2> QED
    BY <1>2, <1>4, <1>7, <2>1, Zenon
<1> QED
  BY <1>5, <1>6, <1>7 DEF IsRouteParameter

\* The path without its query.
LEMMA QueryIsCut ==
  ASSUME NEW S, NEW s \in Seq(S)
  PROVE  /\ Before(s, {"?", "#"}) \in Seq(S) /\ Range(Before(s, {"?", "#"})) \subseteq Range(s) \ {"?", "#"}
         /\ Range(s) \cap {"?", "#"} = {} => Before(s, {"?", "#"}) = s
<1> DEFINE C == {"?", "#"}
           p == Before(s, C)
<1>l. Len(s) \in Nat
  OBVIOUS
<1>a. \A k \in 0 .. Len(s) : k = Len(s) \/ k < Len(s)
  BY <1>l
<1>0. Len(s) \in Nat /\ DOMAIN s = 1 .. Len(s)
  OBVIOUS
<1>1. PICK n \in 0 .. Len(s) : /\ p = SubSeq(s, 1, n) /\ \A k \in 1 .. n : s[k] \notin C
                               /\ n < Len(s) => s[n + 1] \in C
  BY BeforeIs
<1> HIDE DEF C, p
<1>2. p \in Seq(S) /\ Len(p) = n /\ \A k \in 1 .. n : p[k] = s[k]
  <2>1. \A k \in 1 .. n : s[k] \in S
    BY <1>0
  <2> QED
    BY <1>0, <1>1, <2>1
<1>3. Range(p) \subseteq Range(s) \ C
  <2>1. \A c \in Range(p) : \E k \in 1 .. n : c = p[k]
    BY <1>2 DEF Range
  <2>2. \A k \in 1 .. n : s[k] \in Range(s)
    BY <1>0 DEF Range
  <2> QED
    BY <1>1, <1>2, <2>1, <2>2
<1>4. ASSUME Range(s) \cap C = {} PROVE p = s
  <2>1. ~(n < Len(s))
    <3> SUFFICES ASSUME n < Len(s) PROVE FALSE
      OBVIOUS
    <3>1. n + 1 \in DOMAIN s
      BY <1>0
    <3> QED
      BY <1>1, <1>4, <3>1 DEF Range
  <2>2. n = Len(s)
    BY <1>a, <2>1
  <2> QED
    BY <1>0, <1>2, <2>2, SeqEqual
<1> QED
  BY <1>2, <1>3, <1>4 DEF p, C

\* So does strict_path(), before the query.
LEMMA StrictPathIs ==
  ASSUME NEW S, NEW s \in Seq(S), NEW p, p = Before(s, {"?", "#"})
  PROVE  \/ IsTemplate(p) /\ StrictPath(s) = p
         \/ ~IsTemplate(p) /\ (\A i \in 1 .. Len(p) : p[i] = "/") /\ StrictPath(s) = <<"/">>
         \/ \E a, b : /\ ~IsTemplate(p) /\ IsFirst(p, a, b)
                      /\ StrictPath(s) = PathShown(p, Between(p, a, b), HasMore(p, b))
<1>1. p \in Seq(S) /\ StrictPath(s) = FirstSegment(p)
  BY QueryIsCut DEF StrictPath
<1>2. CASE \A i \in 1 .. Len(p) : p[i] = "/"
  BY <1>1, <1>2, FirstSegmentIs
<1>3. CASE \E i \in 1 .. Len(p) : p[i] # "/"
  <2>1. PICK a, b : IsFirst(p, a, b)
    BY <1>1, <1>3, FirstExists
  <2>2. ~IsTemplate(p) => FirstSegment(p) = PathShown(p, Between(p, a, b), HasMore(p, b))
    BY <1>1, <2>1, FirstSegmentIs
  <2>3. IsTemplate(p) => FirstSegment(p) = p
    BY <1>1, FirstSegmentIs
  <2> QED
    BY <1>1, <2>1, <2>2, <2>3
<1> QED
  BY <1>2, <1>3

\* A path's first segment.
LEMMA FirstPart ==
  ASSUME NEW S, NEW p \in Seq(S), NEW a, NEW b, IsFirst(p, a, b)
  PROVE  LET g == Between(p, a, b)
         IN  /\ g \in Seq(S) /\ Len(g) = b - a /\ Len(g) \in Nat \ {0}
             /\ \A k \in 1 .. Len(g) : g[k] = p[a + k - 1]
             /\ Range(g) \subseteq Range(p) \ {"/"} /\ g \in Range(Segments(p))
<1> DEFINE g == Between(p, a, b)
<1>1. /\ a \in 1 .. Len(p) /\ b \in a + 1 .. Len(p) + 1 /\ Len(p) \in Nat
      /\ \A i \in a .. b - 1 : p[i] # "/"
  BY DEF IsFirst
<1>2. a \in 1 .. Len(p) + 1 /\ b \in a .. Len(p) + 1
  BY <1>1
<1>3. /\ g \in Seq(S) /\ Len(g) = b - a
      /\ \A k \in 1 .. b - a : g[k] = p[a + k - 1]
  BY <1>2, BetweenIs
<1>4. Range(g) \subseteq Range(p) \ {"/"}
  <2> HIDE DEF g
  <2>1. ASSUME NEW k \in 1 .. b - a PROVE g[k] \in Range(p) \ {"/"}
    <3> DEFINE i == (a + k) - 1
    <3>1. i \in a .. b - 1 /\ i \in 1 .. Len(p) /\ g[k] = p[i]
      BY <1>1, <1>3
    <3> HIDE DEF i
    <3> QED
      BY <1>1, <3>1 DEF Range
  <2>2. \A c \in Range(g) : \E k \in 1 .. b - a : c = g[k]
    BY <1>3 DEF Range
  <2> QED
    BY <2>1, <2>2
<1>5. g \in Range(Segments(p))
  <2> DEFINE t == Segments(p)
             C == Range(t) \ {<<>>}
             w == Only(t, C)
  <2>1. t \in Seq(Seq(S))
    BY SplitIs DEF Segments
  <2>2. NamedParts(p) # <<>> /\ NamedParts(p)[1] = g
    BY NamedIs
  <2>3. NamedParts(p) = w
    BY DEF NamedParts, Without
  <2>4. w \in Seq(C)
    <3> HIDE DEF t, C
    <3> QED
      BY <2>1, OnlyIs
  <2> HIDE DEF w, g, C
  <2>5. w[1] \in C
    BY <2>2, <2>3, <2>4
  <2> QED
    BY <2>2, <2>3, <2>5 DEF C
<1>6. Len(g) \in Nat \ {0}
  <2> HIDE DEF g
  <2> QED
    BY <1>1, <1>3
<1> HIDE DEF g
<1>7. \A k \in 1 .. Len(g) : g[k] = p[a + k - 1]
  BY <1>3
<1> QED
  BY <1>3, <1>4, <1>5, <1>6, <1>7 DEF g

\* Without a mark at the beginning of a segment, a path is no template.
LEMMA NoTemplate ==
  ASSUME NEW S, NEW p \in Seq(S),
         \A i \in 1 .. Len(p) : p[i] \in Marks => i # 1 /\ p[i - 1] # "/"
  PROVE  ~IsTemplate(p)
<1> SUFFICES ASSUME NEW g \in Range(Segments(p)), IsRouteParameter(g) PROVE FALSE
  BY DEF IsTemplate
<1>1. g \in Seq(S) /\ IsSegment(g, p)
  BY SegmentsAre
<1>2. Len(g) \in Nat
  BY <1>1
<1>3. Len(g) > 0 /\ g[1] \in Marks
  BY <1>1, <1>2, ParameterMarks
<1>4. g # <<>>
  BY <1>3
<1>5. \E i \in 1 .. Len(p) : g[1] = p[i] /\ (i = 1 \/ p[i - 1] = "/")
  BY <1>1, <1>4 DEF IsSegment
<1> QED
  BY <1>3, <1>5

\* Three texts in a row.
LEMMA ThreeParts ==
  ASSUME NEW T, NEW r \in Seq(T), NEW x \in Seq(T), NEW t \in Seq(T)
  PROVE  LET c == r \o x \o t
         IN  /\ c \in Seq(T) /\ Len(c) = Len(r) + Len(x) + Len(t)
             /\ \A i \in 1 .. Len(r) : c[i] = r[i]
             /\ \A i \in 1 .. Len(x) : c[Len(r) + i] = x[i]
             /\ \A i \in 1 .. Len(t) : c[(Len(r) + Len(x)) + i] = t[i]
<1> DEFINE u == r \o x
           c == u \o t
<1>1. /\ u \in Seq(T) /\ Len(u) = Len(r) + Len(x) /\ Len(r) \in Nat /\ Len(x) \in Nat /\ Len(t) \in Nat
      /\ \A i \in 1 .. Len(r) : u[i] = r[i]
      /\ \A i \in 1 .. Len(x) : u[Len(r) + i] = x[i]
  OBVIOUS
<1> HIDE DEF u
<1>2. /\ c \in Seq(T) /\ Len(c) = Len(u) + Len(t)
      /\ \A i \in 1 .. Len(u) : c[i] = u[i]
      /\ \A i \in 1 .. Len(t) : c[Len(u) + i] = t[i]
  <2>1. u \in Seq(T)
    BY <1>1
  <2> QED
    BY <2>1
<1> HIDE DEF c
<1>3. \A i \in 1 .. Len(r) : c[i] = r[i]
  BY <1>1, <1>2
<1>4. ASSUME NEW i \in 1 .. Len(x) PROVE c[Len(r) + i] = x[i]
  <2>1. Len(r) + i \in 1 .. Len(u)
    BY <1>1
  <2> QED
    BY <1>1, <1>2, <2>1
<1>5. \A i \in 1 .. Len(t) : c[(Len(r) + Len(x)) + i] = t[i]
  BY <1>1, <1>2
<1>6. Len(c) = Len(r) + Len(x) + Len(t)
  BY <1>1, <1>2
<1> QED
  BY <1>2, <1>3, <1>4, <1>5, <1>6 DEF c, u

\* Where a byte of three texts in a row comes from.
LEMMA OfThree ==
  ASSUME NEW T, NEW r \in Seq(T), NEW x \in Seq(T), NEW t \in Seq(T),
         NEW i \in 1 .. Len(r) + Len(x) + Len(t)
  PROVE  LET c == r \o x \o t
         IN  \/ i \in 1 .. Len(r) /\ c[i] = r[i]
             \/ i - Len(r) \in 1 .. Len(x) /\ c[i] = x[i - Len(r)]
             \/ i - (Len(r) + Len(x)) \in 1 .. Len(t) /\ c[i] = t[i - (Len(r) + Len(x))]
<1> DEFINE c == r \o x \o t
<1>1. /\ \A k \in 1 .. Len(r) : c[k] = r[k]
      /\ \A k \in 1 .. Len(x) : c[Len(r) + k] = x[k]
      /\ \A k \in 1 .. Len(t) : c[(Len(r) + Len(x)) + k] = t[k]
  BY ThreeParts
<1> HIDE DEF c
<1>2. Len(r) \in Nat /\ Len(x) \in Nat /\ Len(t) \in Nat
  OBVIOUS
<1>3. CASE i <= Len(r)
  BY <1>1, <1>2, <1>3 DEF c
<1>4. CASE i > Len(r) /\ i <= Len(r) + Len(x)
  <2> DEFINE k == i - Len(r)
  <2>1. k \in 1 .. Len(x) /\ Len(r) + k = i
    BY <1>2, <1>4
  <2> HIDE DEF k
  <2>2. c[i] = x[k]
    BY <1>1, <2>1
  <2> QED
    BY <2>1, <2>2 DEF c, k
<1>5. CASE i > Len(r) + Len(x)
  <2> DEFINE k == i - (Len(r) + Len(x))
  <2>1. k \in 1 .. Len(t) /\ (Len(r) + Len(x)) + k = i
    BY <1>2, <1>5
  <2> HIDE DEF k
  <2>2. c[i] = t[k]
    BY <1>1, <2>1
  <2> QED
    BY <2>1, <2>2 DEF c, k
<1> QED
  BY <1>2, <1>3, <1>4, <1>5

\* What the parts of a shown path are.
IsShown(r, x, t, p, g, more) ==
  /\ r = IF At(p, 1) = "/" THEN <<"/">> ELSE <<>>
  /\ x = IF IsId(g) THEN <<":id">> ELSE g
  /\ t = IF more THEN <<"/", ":path">> ELSE <<>>

Slashes(c) == {i \in DOMAIN c : c[i] = "/"}

AreParts(r, x, t, g, T) ==
  /\ r \in Seq(T) /\ x \in Seq(T \ {"/"}) /\ x \in Seq(T) /\ t \in Seq(T)
  /\ Len(r) <= 1 /\ Len(x) \in Nat \ {0} /\ Len(t) <= 2
  /\ \A i \in 1 .. Len(r) : r[i] = "/"
  /\ \A i \in 1 .. Len(x) : x[i] # "/" /\ x[i] \in Range(g) \cup {":id"}
  /\ \A i \in 1 .. Len(t) : t[i] = IF i = 1 THEN "/" ELSE ":path"

LEMMA ShownParts ==
  ASSUME NEW S, NEW g \in Seq(S), Len(g) \in Nat \ {0}, "/" \notin Range(g), NEW p, NEW more, NEW r, NEW x, NEW t,
         IsShown(r, x, t, p, g, more)
  PROVE  AreParts(r, x, t, g, S \cup {"/", ":id", ":path"})
<1> DEFINE T == S \cup {"/", ":id", ":path"}
<1>1. "/" \in T /\ ":id" \in T /\ ":path" \in T /\ S \subseteq T /\ ":id" # "/"
  OBVIOUS
<1> HIDE DEF T
<1>2. /\ r \in Seq(T) /\ Len(r) <= 1 /\ \A i \in 1 .. Len(r) : r[i] = "/"
  BY <1>1 DEF IsShown
<1>3. CASE IsId(g)
  <2>1. x = <<":id">>
    BY <1>3 DEF IsShown
  <2>2. x \in Seq(T \ {"/"}) /\ x \in Seq(T) /\ Len(x) = 1 /\ x[1] = ":id"
    BY <1>1, <2>1
  <2>3. \A i \in 1 .. Len(x) : x[i] # "/" /\ x[i] \in Range(g) \cup {":id"}
    BY <1>1, <2>2
  <2>4. t \in Seq(T) /\ Len(t) <= 2 /\ \A i \in 1 .. Len(t) : t[i] = IF i = 1 THEN "/" ELSE ":path"
    BY <1>1 DEF IsShown
  <2> QED
    BY <1>2, <2>2, <2>3, <2>4 DEF T, AreParts
<1>4. CASE ~IsId(g)
  <2>1. x = g
    BY <1>4 DEF IsShown
  <2>2. \A i \in 1 .. Len(g) : g[i] \in S /\ g[i] \in Range(g) /\ g[i] # "/"
    BY DEF Range
  <2>3. \A i \in 1 .. Len(g) : g[i] \in T \ {"/"}
    BY <1>1, <2>2
  <2>4. g \in Seq(T \ {"/"}) /\ g \in Seq(T)
    BY <2>3
  <2>5. t \in Seq(T) /\ Len(t) <= 2 /\ \A i \in 1 .. Len(t) : t[i] = IF i = 1 THEN "/" ELSE ":path"
    BY <1>1 DEF IsShown
  <2> QED
    BY <1>2, <2>1, <2>2, <2>4, <2>5 DEF T, AreParts
<1> QED
  BY <1>3, <1>4

\* A shown path has its root's slash and the one before what follows.
LEMMA CutBytes ==
  ASSUME NEW S, NEW g \in Seq(S), Len(g) \in Nat \ {0}, "/" \notin Range(g), NEW p, NEW more
  PROVE  LET c == PathShown(p, g, more)
         IN  /\ c \in Seq(S \cup {"/", ":id", ":path"}) /\ Range(c) \subseteq Range(g) \cup {"/", ":id", ":path"}
             /\ IsId(g) => Range(c) \subseteq {"/", ":id", ":path"} /\ ":id" \in Range(c)
             /\ more => ":path" \in Range(c)
             /\ \E e : Slashes(c) \subseteq {1, e}
<1> DEFINE T == S \cup {"/", ":id", ":path"}
           r == IF At(p, 1) = "/" THEN <<"/">> ELSE <<>>
           x == IF IsId(g) THEN <<":id">> ELSE g
           t == IF more THEN <<"/", ":path">> ELSE <<>>
           c == r \o x \o t
<1>1. PathShown(p, g, more) = c /\ IsShown(r, x, t, p, g, more)
  BY Zenon DEF PathShown, IsShown
<1>2. /\ IsId(g) => x = <<":id">>
      /\ more => t = <<"/", ":path">>
  OBVIOUS
<1> HIDE DEF r, x, t
<1>3. /\ r \in Seq(T) /\ x \in Seq(T \ {"/"}) /\ x \in Seq(T) /\ t \in Seq(T)
      /\ Len(r) <= 1 /\ Len(x) \in Nat \ {0} /\ Len(t) <= 2
      /\ \A i \in 1 .. Len(r) : r[i] = "/"
      /\ \A i \in 1 .. Len(x) : x[i] # "/" /\ x[i] \in Range(g) \cup {":id"}
      /\ \A i \in 1 .. Len(t) : t[i] = IF i = 1 THEN "/" ELSE ":path"
  <2>1. AreParts(r, x, t, g, T)
    BY <1>1, ShownParts
  <2> QED
    BY <2>1 DEF AreParts
<1> HIDE DEF T
<1>4. /\ c \in Seq(T) /\ Len(c) = Len(r) + Len(x) + Len(t)
      /\ \A i \in 1 .. Len(r) : c[i] = r[i]
      /\ \A i \in 1 .. Len(x) : c[Len(r) + i] = x[i]
      /\ \A i \in 1 .. Len(t) : c[(Len(r) + Len(x)) + i] = t[i]
  BY <1>3, ThreeParts
<1>5. Len(r) \in Nat /\ Len(t) \in Nat
  BY <1>3
<1>6. ASSUME NEW i \in 1 .. Len(c)
      PROVE  \/ i \in 1 .. Len(r) /\ c[i] = r[i]
             \/ i - Len(r) \in 1 .. Len(x) /\ c[i] = x[i - Len(r)]
             \/ i - (Len(r) + Len(x)) \in 1 .. Len(t) /\ c[i] = t[i - (Len(r) + Len(x))]
  <2>1. i \in 1 .. Len(r) + Len(x) + Len(t)
    BY <1>4
  <2> QED
    BY <1>3, <2>1, OfThree
<1> HIDE DEF c
<1>7. DOMAIN c = 1 .. Len(c)
  BY <1>4
<1>8. ASSUME NEW i \in 1 .. Len(c)
      PROVE  /\ c[i] \in Range(x) \cup {"/", ":path"}
             /\ c[i] = "/" => i = 1 \/ i = (Len(r) + Len(x)) + 1
  <2>1. CASE i \in 1 .. Len(r) /\ c[i] = r[i]
    <3>1. i = 1 /\ c[i] = "/"
      BY <1>3, <1>5, <2>1
    <3> QED
      BY <3>1
  <2>2. CASE i - Len(r) \in 1 .. Len(x) /\ c[i] = x[i - Len(r)]
    <3> DEFINE k == i - Len(r)
    <3>1. k \in 1 .. Len(x) /\ c[i] = x[k]
      BY <2>2
    <3> HIDE DEF k
    <3>2. x[k] # "/" /\ x[k] \in Range(x)
      BY <1>3, <3>1 DEF Range
    <3> QED
      BY <3>1, <3>2
  <2>3. CASE i - (Len(r) + Len(x)) \in 1 .. Len(t) /\ c[i] = t[i - (Len(r) + Len(x))]
    <3> DEFINE k == i - (Len(r) + Len(x))
    <3>1. k \in 1 .. Len(t) /\ c[i] = t[k] /\ (k = 1 => i = (Len(r) + Len(x)) + 1)
      BY <1>3, <1>5, <2>3
    <3> HIDE DEF k
    <3>2. t[k] = IF k = 1 THEN "/" ELSE ":path"
      BY <1>3, <3>1
    <3> QED
      BY <3>1, <3>2
  <2> QED
    BY <1>6, <2>1, <2>2, <2>3
<1>9. Range(c) \subseteq Range(x) \cup {"/", ":path"}
  <2>1. \A b \in Range(c) : \E i \in 1 .. Len(c) : b = c[i]
    BY <1>7 DEF Range
  <2> QED
    BY <1>8, <2>1
<1>10. Range(x) \subseteq Range(g) \cup {":id"}
  <2>1. \A b \in Range(x) : \E i \in 1 .. Len(x) : b = x[i]
    BY <1>3 DEF Range
  <2> QED
    BY <1>3, <2>1
<1>11. IsId(g) => Range(x) \subseteq {":id"} /\ ":id" \in Range(c)
  <2> SUFFICES ASSUME IsId(g) PROVE Range(x) \subseteq {":id"} /\ ":id" \in Range(c)
    OBVIOUS
  <2>1. x = <<":id">> /\ Len(x) = 1 /\ x[1] = ":id"
    BY <1>2
  <2>2. Range(x) \subseteq {":id"}
    BY <2>1 DEF Range
  <2>3. Len(r) + 1 \in 1 .. Len(c) /\ c[Len(r) + 1] = ":id"
    BY <1>4, <1>5, <2>1
  <2>4. c[Len(r) + 1] \in Range(c)
    BY <1>7, <2>3 DEF Range
  <2> QED
    BY <2>2, <2>3, <2>4
<1>12. more => ":path" \in Range(c)
  <2> SUFFICES ASSUME more PROVE ":path" \in Range(c)
    OBVIOUS
  <2> DEFINE i == (Len(r) + Len(x)) + 2
  <2>1. Len(t) = 2 /\ t[2] = ":path"
    BY <1>2
  <2>2. i \in 1 .. Len(c) /\ c[i] = ":path"
    BY <1>3, <1>4, <1>5, <2>1
  <2> HIDE DEF i
  <2> QED
    BY <1>7, <2>2 DEF Range
<1>13. Slashes(c) \subseteq {1, (Len(r) + Len(x)) + 1}
  BY <1>7, <1>8 DEF Slashes
<1>14. \E e : Slashes(c) \subseteq {1, e}
  BY <1>13
<1> QED
  BY <1>1, <1>4, <1>9, <1>10, <1>11, <1>12, <1>14 DEF c, T

\* What stands for an id or for what follows is no digit and begins no query.
LEMMA ClassesOfCut ==
  /\ \A c \in {"/", ":id", ":path"} : c \notin Digits /\ c \notin {"?", "#"}
  /\ ":id" # "/" /\ ":path" # "/"
BY SMT DEF Digits, DigitOrder, Range

\* The characters of a shown path that are no slashes: those of its first segment, and one
\* for what follows.
LEMMA CutIsShort ==
  ASSUME NEW S, NEW g \in Seq(S), Len(g) \in Nat \ {0}, "/" \notin Range(g), NEW p, NEW more
  PROVE  CharacterCount(Without(PathShown(p, g, more), {"/"})) <= MaxSegmentLength + 1
<1> DEFINE T == S \cup {"/", ":id", ":path"}
           r == IF At(p, 1) = "/" THEN <<"/">> ELSE <<>>
           x == IF IsId(g) THEN <<":id">> ELSE g
           t == IF more THEN <<"/", ":path">> ELSE <<>>
           c == r \o x \o t
           D == T \ {"/"}
           K == T \ Continuations
           y == Only(t, D)
           w == Without(c, {"/"})
<1>0. MaxSegmentLength \in Nat \ {0}
  BY StrictAssumption
<1>1. PathShown(p, g, more) = c /\ IsShown(r, x, t, p, g, more)
  BY Zenon DEF PathShown, IsShown
<1>2. /\ IsId(g) => x = <<":id">>
      /\ ~IsId(g) => x = g
      /\ t = <<>> \/ t = <<"/", ":path">>
  OBVIOUS
<1> HIDE DEF r, x, t
<1>3. /\ r \in Seq(T) /\ x \in Seq(T \ {"/"}) /\ x \in Seq(T) /\ t \in Seq(T)
      /\ Len(r) <= 1 /\ Len(x) \in Nat \ {0} /\ Len(t) <= 2
      /\ \A i \in 1 .. Len(r) : r[i] = "/"
      /\ \A i \in 1 .. Len(x) : x[i] # "/" /\ x[i] \in Range(g) \cup {":id"}
      /\ \A i \in 1 .. Len(t) : t[i] = IF i = 1 THEN "/" ELSE ":path"
  <2>1. AreParts(r, x, t, g, T)
    BY <1>1, ShownParts
  <2> QED
    BY <2>1 DEF AreParts
<1>4. /\ r \o x \in Seq(T) /\ c \in Seq(T)
      /\ {"/", ":path"} \subseteq T
  BY <1>3
<1> HIDE DEF T, c
\* Without its slashes.
<1>5. w = Only(c, D)
  <2>1. \A b \in Range(c) : b \in Range(c) \ {"/"} <=> b \in D
    BY <1>4 DEF Range, D
  <2> HIDE DEF D
  <2> QED
    BY <1>4, <2>1, OnlySame DEF Without
<1>6. Only(r, D) = <<>>
  <2>1. \A i \in 1 .. Len(r) : r[i] \notin D
    BY <1>3
  <2> HIDE DEF D
  <2> QED
    BY <1>3, <2>1, OnlyFirst
<1>7. Only(x, D) = x
  BY <1>3, OnlyAll
<1>8. y \in Seq(T) /\ Len(y) <= 1
  <2>1. CASE t = <<>>
    <3>1. Only(t, D) \in Seq(T) /\ Len(Only(t, D)) <= Len(t)
      <4> HIDE DEF D
      <4> QED
        BY <1>3, OnlyIs
    <3>2. Len(t) = 0
      BY <2>1
    <3> HIDE DEF y, D
    <3> QED
      BY <3>1, <3>2 DEF y
  <2>2. CASE t = <<"/", ":path">>
    <3> DEFINE a == <<"/">>
               b == <<":path">>
    <3>1. a \in Seq(T) /\ b \in Seq(T) /\ Len(b) = 1 /\ Len(a) = 1 /\ a[1] = "/"
      BY <1>4
    <3>2. t = a \o b
      BY <2>2
    <3>3. \A i \in 1 .. Len(a) : a[i] \notin D
      BY <3>1
    <3> HIDE DEF a, b, D
    <3>4. Only(a, D) = <<>>
      BY <3>1, <3>3, OnlyFirst
    <3>5. Only(b, D) \in Seq(T) /\ Len(Only(b, D)) <= Len(b)
      BY <3>1, OnlyIs
    <3>6. Only(a \o b, D) = Only(a, D) \o Only(b, D)
      BY <3>1, OnlyJoin
    <3>7. <<>> \o Only(b, D) = Only(b, D)
      BY <3>5, ConcatEmptySeq
    <3>8. Only(t, D) = Only(b, D)
      BY <3>2, <3>4, <3>6, <3>7
    <3> QED
      BY <3>1, <3>5, <3>8
  <2> QED
    BY <1>2, <2>1, <2>2
<1>9. w = x \o y
  <2> HIDE DEF D
  <2>1. Only((r \o x) \o t, D) = Only(r \o x, D) \o Only(t, D)
    <3> DEFINE u == r \o x
    <3>1. u \in Seq(T)
      BY <1>4
    <3> HIDE DEF u
    <3>2. Only(u \o t, D) = Only(u, D) \o Only(t, D)
      BY <1>3, <3>1, OnlyJoin, SMTT(30)
    <3> QED
      BY <3>2, Zenon DEF u
  <2>2. Only(r \o x, D) = Only(r, D) \o Only(x, D)
    BY <1>3, OnlyJoin
  <2>3. <<>> \o x = x
    BY <1>3, ConcatEmptySeq
  <2>4. Only(c, D) = x \o Only(t, D)
    BY <1>6, <1>7, <2>1, <2>2, <2>3, Zenon DEF c
  <2> QED
    BY <1>5, <2>4
<1> HIDE DEF y, w, D
\* Its characters.
<1>10. \A v \in Seq(T) : CharacterCount(v) = Len(Only(v, K))
  <2> TAKE v \in Seq(T)
  <2>1. \A b \in Range(v) : b \in Range(v) \ Continuations <=> b \in K
    BY DEF Range
  <2> HIDE DEF K
  <2>2. Only(v, Range(v) \ Continuations) = Only(v, K)
    BY <2>1, OnlySame
  <2> QED
    BY <2>2 DEF CharacterCount, Without
<1> HIDE DEF K
<1>11. x \o y \in Seq(T)
  BY <1>3, <1>8
<1>12. CharacterCount(w) = Len(Only(x, K)) + Len(Only(y, K))
  <2>1. Only(x \o y, K) = Only(x, K) \o Only(y, K)
    BY <1>3, <1>8, OnlyJoin, SMTT(30)
  <2>2. Only(x, K) \in Seq(T) /\ Only(y, K) \in Seq(T)
    BY <1>3, <1>8, OnlyIs
  <2>3. Len(Only(x, K) \o Only(y, K)) = Len(Only(x, K)) + Len(Only(y, K))
    BY <2>2
  <2>4. CharacterCount(x \o y) = Len(Only(x \o y, K))
    BY <1>10, <1>11
  <2> QED
    BY <1>9, <2>1, <2>3, <2>4
<1>13. Len(Only(y, K)) <= 1 /\ Len(Only(y, K)) \in Nat /\ Len(Only(x, K)) <= Len(x) /\ Len(Only(x, K)) \in Nat
  <2>1. Only(y, K) \in Seq(T) /\ Len(Only(y, K)) <= Len(y)
    BY <1>8, OnlyIs
  <2>2. Only(x, K) \in Seq(T) /\ Len(Only(x, K)) <= Len(x)
    BY <1>3, OnlyIs
  <2>3. Len(y) \in Nat
    BY <1>8
  <2>4. Len(Only(y, K)) \in Nat /\ Len(Only(x, K)) \in Nat
    BY <2>1, <2>2
  <2> QED
    BY <1>8, <2>1, <2>2, <2>3, <2>4
<1>14. Len(Only(x, K)) <= MaxSegmentLength
  <2>1. CASE IsId(g)
    <3>1. Len(x) = 1
      BY <1>2, <2>1
    <3> QED
      BY <1>0, <1>13, <3>1
  <2>2. CASE ~IsId(g)
    <3>1. x = g /\ ~(CharacterCount(g) > MaxSegmentLength)
      BY <1>2, <2>2 DEF IsId
    <3>2. CharacterCount(x) = Len(Only(x, K))
      BY <1>3, <1>10
    <3> QED
      BY <1>0, <1>13, <3>1, <3>2
  <2> QED
    BY <2>1, <2>2
<1>15. CharacterCount(w) <= MaxSegmentLength + 1
  BY <1>0, <1>12, <1>13, <1>14
<1> QED
  BY <1>1, <1>15, Zenon DEF w

LEMMA SlashIsNoMark == "/" \notin Marks
BY Zenon DEF Marks

\* A shown path is shown as it is.
LEMMA CutAgain ==
  ASSUME NEW S, NEW s \in Seq(S),
         ":id" \notin Range(StrictPath(s)), ":path" \notin Range(StrictPath(s))
  PROVE  StrictPath(StrictPath(s)) = StrictPath(s)
<1> DEFINE p == Before(s, {"?", "#"})
           C == {"?", "#"}
<1>0. p \in Seq(S) /\ Len(p) \in Nat /\ Range(p) \cap C = {}
  <2>1. p \in Seq(S) /\ Range(p) \subseteq Range(s) \ C
    BY QueryIsCut
  <2> HIDE DEF p
  <2> QED
    BY <2>1
<1>1. \/ IsTemplate(p) /\ StrictPath(s) = p
      \/ ~IsTemplate(p) /\ (\A i \in 1 .. Len(p) : p[i] = "/") /\ StrictPath(s) = <<"/">>
      \/ \E a, b : /\ ~IsTemplate(p) /\ IsFirst(p, a, b)
                   /\ StrictPath(s) = PathShown(p, Between(p, a, b), HasMore(p, b))
  BY StrictPathIs
<1> HIDE DEF p
<1>2. CASE IsTemplate(p) /\ StrictPath(s) = p
  <2>1. Before(p, C) = p
    BY <1>0, QueryIsCut
  <2>2. FirstSegment(p) = p
    BY <1>0, <1>2, FirstSegmentIs
  <2> QED
    BY <1>2, <2>1, <2>2 DEF StrictPath
<1>3. CASE StrictPath(s) = <<"/">>
  <2> DEFINE c == <<"/">>
  <2>1. c \in Seq({"/"}) /\ Len(c) = 1 /\ c[1] = "/"
    OBVIOUS
  <2> HIDE DEF c
  <2>2. Range(c) \cap C = {}
    BY <2>1 DEF Range
  <2>3. Before(c, C) = c
    BY <2>1, <2>2, QueryIsCut
  <2>4. ~IsTemplate(c)
    <3>1. \A i \in 1 .. Len(c) : c[i] \in Marks => i # 1 /\ c[i - 1] # "/"
      BY <2>1, SlashIsNoMark
    <3> QED
      BY <2>1, <3>1, NoTemplate
  <2>5. FirstSegment(c) = <<"/">>
    BY <2>1, <2>4, FirstSegmentIs
  <2> QED
    BY <1>3, <2>3, <2>5 DEF StrictPath, c
<1>4. ASSUME NEW a, NEW b, ~IsTemplate(p), IsFirst(p, a, b),
             StrictPath(s) = PathShown(p, Between(p, a, b), HasMore(p, b))
      PROVE  StrictPath(StrictPath(s)) = StrictPath(s)
  <2> DEFINE g == Between(p, a, b)
             r == IF At(p, 1) = "/" THEN <<"/">> ELSE <<>>
             c == r \o g
             e == Len(r) + 1
             f == Len(c) + 1
  <2>1. /\ g \in Seq(S) /\ Len(g) \in Nat \ {0} /\ Range(g) \subseteq Range(p) \ {"/"} /\ g \in Range(Segments(p))
    BY <1>0, <1>4, FirstPart
  <2> HIDE DEF g
  <2>2. ~IsId(g) /\ ~HasMore(p, b)
    <3>1. "/" \notin Range(g)
      BY <2>1
    <3>2. /\ IsId(g) => ":id" \in Range(PathShown(p, g, HasMore(p, b)))
          /\ HasMore(p, b) => ":path" \in Range(PathShown(p, g, HasMore(p, b)))
      BY <2>1, <3>1, CutBytes
    <3> QED
      BY <1>4, <3>2 DEF g
  <2>3. PathShown(p, g, HasMore(p, b)) = c \o <<>>
    BY <2>2, Zenon DEF PathShown
  <2>4. r \in Seq(S \cup {"/"}) /\ Len(r) \in {0, 1} /\ (At(p, 1) = "/" <=> Len(r) = 1) /\ \A i \in 1 .. Len(r) : r[i] = "/"
    <3>1. CASE At(p, 1) = "/"
      <4>1. r = <<"/">>
        BY <3>1
      <4> HIDE DEF r
      <4>2. r \in Seq(S \cup {"/"}) /\ Len(r) = 1 /\ r[1] = "/"
        BY <4>1
      <4> QED
        BY <3>1, <4>2
    <3>2. CASE At(p, 1) # "/"
      <4>1. r = <<>>
        BY <3>2
      <4> HIDE DEF r
      <4>2. r \in Seq(S \cup {"/"}) /\ Len(r) = 0
        BY <4>1
      <4> QED
        BY <3>2, <4>2
    <3> QED
      BY <3>1, <3>2
  <2>5. g \in Seq(S \cup {"/"}) /\ \A i \in 1 .. Len(g) : g[i] # "/" /\ g[i] \in Range(g)
    <3>1. \A i \in 1 .. Len(g) : g[i] \in S /\ g[i] \in Range(g)
      BY <2>1 DEF Range
    <3> QED
      BY <2>1, <3>1
  <2> HIDE DEF r
  <2>6. /\ c \in Seq(S \cup {"/"}) /\ Len(c) = Len(r) + Len(g)
        /\ \A i \in 1 .. Len(r) : c[i] = "/"
        /\ \A i \in 1 .. Len(g) : c[Len(r) + i] = g[i]
    BY <2>4, <2>5
  <2>7. StrictPath(s) = c
    <3>1. c \o <<>> = c
      BY <2>6, ConcatEmptySeq
    <3> QED
      BY <1>4, <2>3, <3>1 DEF g
  <2> HIDE DEF c
  <2>8. \A i \in 1 .. Len(c) : (i <= Len(r) => c[i] = "/") /\ (i > Len(r) => c[i] # "/" /\ c[i] \in Range(g))
    <3> TAKE i \in 1 .. Len(c)
    <3>1. CASE i <= Len(r)
      BY <2>4, <2>6, <3>1
    <3>2. CASE i > Len(r)
      <4> DEFINE k == i - Len(r)
      <4>1. k \in 1 .. Len(g) /\ Len(r) + k = i
        BY <2>1, <2>4, <2>6, <3>2
      <4> HIDE DEF k
      <4> QED
        BY <2>5, <2>6, <3>2, <4>1
    <3> QED
      BY <2>4, <3>1, <3>2
  <2>9. Range(c) \cap C = {}
    <3>1. \A x \in Range(c) : \E i \in 1 .. Len(c) : x = c[i]
      BY <2>6 DEF Range
    <3>2. \A x \in Range(c) : x = "/" \/ x \in Range(p)
      BY <2>1, <2>4, <2>8, <3>1
    <3>3. "/" \notin C
      OBVIOUS
    <3> QED
      BY <1>0, <3>2, <3>3
  <2>10. Before(c, C) = c
    BY <2>6, <2>9, QueryIsCut
  <2>11. IsFirst(c, e, f)
    BY <2>1, <2>4, <2>6, <2>8 DEF IsFirst
  <2>12. Between(c, e, f) = g
    <3> DEFINE h == Between(c, e, f)
    <3>1. e \in 1 .. Len(c) + 1 /\ f \in e .. Len(c) + 1 /\ f - e = Len(g)
      BY <2>1, <2>4, <2>6
    <3>2. h \in Seq(S \cup {"/"}) /\ Len(h) = f - e /\ \A k \in 1 .. f - e : h[k] = c[e + k - 1]
      <4>1. c \in Seq(S \cup {"/"})
        BY <2>6
      <4> HIDE DEF e, f
      <4> QED
        BY <3>1, <4>1, BetweenIs
    <3> HIDE DEF h
    <3>3. ASSUME NEW k \in 1 .. Len(g) PROVE h[k] = g[k]
      <4>1. e + k - 1 = Len(r) + k
        BY <2>4
      <4> QED
        BY <2>6, <3>1, <3>2, <4>1
    <3> QED
      BY <2>5, <3>1, <3>2, <3>3, SeqEqual DEF h
  <2>13. ~HasMore(c, f)
    BY <2>6 DEF HasMore
  <2>14. ~IsTemplate(c)
    <3>1. Range(Segments(c)) \subseteq {<<>>, g}
      <4> HIDE DEF e, f
      <4> QED
        BY <2>6, <2>11, <2>12, <2>13, NamedIs
    <3>2. ~IsRouteParameter(g)
      BY <1>4, <2>1 DEF IsTemplate
    <3>3. ~IsRouteParameter(<<>>)
      <4> DEFINE z == <<>>
      <4>1. z \in Seq(S) /\ Len(z) = 0 /\ ~(Len(z) > 0)
        OBVIOUS
      <4> HIDE DEF z
      <4>2. ~IsRouteParameter(z)
        BY <4>1, ParameterMarks, Zenon
      <4> QED
        BY <4>2 DEF z
    <3> QED
      BY <3>1, <3>2, <3>3 DEF IsTemplate
  <2>15. FirstSegment(c) = PathShown(c, g, FALSE)
    <3> HIDE DEF e, f
    <3>1. FirstSegment(c) = PathShown(c, Between(c, e, f), HasMore(c, f))
      BY <2>6, <2>11, <2>14, FirstSegmentIs
    <3>2. HasMore(c, f) = FALSE
      BY <2>13 DEF HasMore
    <3> QED
      BY <2>12, <3>1, <3>2
  <2>16. At(c, 1) = "/" <=> At(p, 1) = "/"
    <3>1. 1 \in 1 .. Len(c) /\ At(c, 1) = c[1]
      BY <2>1, <2>4, <2>6 DEF At
    <3>2. (1 <= Len(r) => c[1] = "/") /\ (1 > Len(r) => c[1] # "/")
      BY <2>8, <3>1
    <3>a. Len(r) \in {0, 1}
      BY <2>4
    <3>3. 1 <= Len(r) <=> Len(r) = 1
      BY <3>a
    <3>4. 1 > Len(r) <=> Len(r) # 1
      BY <3>a
    <3> QED
      BY <2>4, <3>1, <3>2, <3>3, <3>4, Zenon
  <2>17. PathShown(c, g, FALSE) = c \o <<>>
    BY <2>2, <2>16, Zenon DEF PathShown, c, r
  <2>18. c \o <<>> = c
    BY <2>6, ConcatEmptySeq
  <2> QED
    BY <2>7, <2>10, <2>15, <2>17, <2>18 DEF StrictPath
<1> QED
  BY <1>1, <1>2, <1>3, <1>4

\* The text before a byte of C ends where the first of them stands.
LEMMA BeforeIsThat ==
  ASSUME NEW S, NEW s \in Seq(S), NEW C, NEW n \in 0 .. Len(s), \A k \in 1 .. n : s[k] \notin C,
         n < Len(s) => s[n + 1] \in C
  PROVE  Before(s, C) = SubSeq(s, 1, n)
<1>0. Len(s) \in Nat
  OBVIOUS
<1>1. PICK m \in 0 .. Len(s) : /\ Before(s, C) = SubSeq(s, 1, m) /\ \A k \in 1 .. m : s[k] \notin C
                               /\ m < Len(s) => s[m + 1] \in C
  BY BeforeIs
<1>2. ~(m < n)
  <2> SUFFICES ASSUME m < n PROVE FALSE
    OBVIOUS
  <2>1. m < Len(s) /\ m + 1 \in 1 .. n
    BY <1>0, <1>1
  <2> QED
    BY <1>1, <2>1
<1>3. ~(n < m)
  <2> SUFFICES ASSUME n < m PROVE FALSE
    OBVIOUS
  <2>1. n < Len(s) /\ n + 1 \in 1 .. m
    BY <1>0, <1>1
  <2> QED
    BY <1>1, <2>1
<1>4. m = n
  BY <1>0, <1>1, <1>2, <1>3
<1> QED
  BY <1>1, <1>4

\* What stands behind the query of a path does not matter,
LEMMA QueryStays ==
  ASSUME NEW S, NEW s \in Seq(S), NEW x \in Seq(S), Range(s) \cap {"?", "#"} # {}
  PROVE  StrictPath(s \o x) = StrictPath(s)
<1> DEFINE C == {"?", "#"}
           u == s \o x
<1>0. /\ Len(s) \in Nat /\ Len(x) \in Nat /\ DOMAIN s = 1 .. Len(s) /\ u \in Seq(S) /\ Len(u) = Len(s) + Len(x)
      /\ \A k \in 1 .. Len(s) : u[k] = s[k]
  OBVIOUS
<1>1. PICK n \in 0 .. Len(s) : /\ Before(s, C) = SubSeq(s, 1, n) /\ \A k \in 1 .. n : s[k] \notin C
                               /\ n < Len(s) => s[n + 1] \in C
  BY BeforeIs
<1> HIDE DEF u
<1>2. n < Len(s)
  <2>1. PICK i \in 1 .. Len(s) : s[i] \in C
    BY <1>0 DEF Range
  <2> HIDE DEF C
  <2>2. ~(i <= n)
    BY <1>0, <1>1, <2>1
  <2> QED
    BY <1>0, <1>1, <2>1, <2>2
<1> HIDE DEF C
<1>3. n \in 0 .. Len(u) /\ n + 1 \in 1 .. Len(s)
  BY <1>0, <1>1, <1>2
<1>4. (\A k \in 1 .. n : u[k] \notin C) /\ u[n + 1] \in C
  <2>1. \A k \in 1 .. n : k \in 1 .. Len(s)
    BY <1>0, <1>1
  <2> QED
    BY <1>0, <1>1, <1>2, <1>3, <2>1
<1>5. Before(u, C) = SubSeq(u, 1, n)
  BY <1>0, <1>3, <1>4, BeforeIsThat
<1>6. SubSeq(u, 1, n) = SubSeq(s, 1, n)
  <2>1. \A k \in 1 .. n : u[k] = s[k] /\ s[k] \in S /\ k \in 1 .. Len(u) /\ k \in 1 .. Len(s)
    BY <1>0, <1>1
  <2>2. n \in Nat /\ n <= Len(u) /\ n <= Len(s)
    BY <1>0, <1>1, <1>3
  <2> DEFINE v == SubSeq(u, 1, n)
             w == SubSeq(s, 1, n)
  <2>3. v \in Seq(S) /\ Len(v) = n /\ \A k \in 1 .. n : v[k] = u[k]
    BY <1>0, <2>1, <2>2
  <2>4. w \in Seq(S) /\ Len(w) = n /\ \A k \in 1 .. n : w[k] = s[k]
    BY <1>0, <2>1, <2>2
  <2> HIDE DEF v, w
  <2>5. v = w
    BY <2>1, <2>2, <2>3, <2>4, SeqEqual
  <2> QED
    BY <2>5 DEF v, w
<1>7. Before(u, C) = Before(s, C)
  BY <1>1, <1>5, <1>6
<1> QED
  BY <1>7 DEF StrictPath, u, C

\* Two texts with a slash between them.
LEMMA SlashBetween ==
  ASSUME NEW S, NEW s \in Seq(S), NEW m \in Seq(S), "/" \in S
  PROVE  LET u == s \o <<"/">> \o m
             d == Len(s) + 1
         IN  /\ u \in Seq(S) /\ Len(u) = d + Len(m)
             /\ \A i \in 1 .. Len(s) : u[i] = s[i]
             /\ u[d] = "/" /\ \A i \in 1 .. Len(m) : u[d + i] = m[i]
<1> DEFINE r == <<"/">>
           u == s \o r \o m
<1>0. r \in Seq(S) /\ Len(r) = 1 /\ r[1] = "/"
  OBVIOUS
<1> HIDE DEF r
<1>5. r \in Seq(S)
  BY <1>0
<1>1. /\ u \in Seq(S) /\ Len(u) = Len(s) + Len(r) + Len(m)
      /\ \A i \in 1 .. Len(s) : u[i] = s[i]
      /\ \A i \in 1 .. Len(r) : u[Len(s) + i] = r[i]
      /\ \A i \in 1 .. Len(m) : u[(Len(s) + Len(r)) + i] = m[i]
  BY <1>5, ThreeParts
<1>2. Len(s) \in Nat
  OBVIOUS
<1> HIDE DEF u
<1>3. u[Len(s) + 1] = r[1]
  BY <1>0, <1>1
<1>4. /\ u \in Seq(S) /\ Len(u) = (Len(s) + 1) + Len(m)
      /\ \A i \in 1 .. Len(s) : u[i] = s[i]
      /\ u[Len(s) + 1] = "/" /\ \A i \in 1 .. Len(m) : u[(Len(s) + 1) + i] = m[i]
  BY <1>0, <1>1, <1>3
<1> QED
  BY <1>4 DEF u, r

\* ... nor does what follows the first segment.
LEMMA OnlyTheFirst ==
  ASSUME NEW S, NEW s \in Seq(S), NEW m \in Seq(S), "/" \in S, Range(s) \cap {"?", "#"} = {},
         Len(m) > 0, m[1] \notin {"/", "?", "#"}, Range(s) \cap Marks = {}, Range(m) \cap Marks = {},
         NEW a, NEW b, IsFirst(s, a, b)
  PROVE  StrictPath(s \o <<"/">> \o m) = PathShown(s, Between(s, a, b), TRUE)
<1> DEFINE C == {"?", "#"}
           r == <<"/">>
           u == s \o r \o m
           p == Before(u, C)
           d == Len(s) + 1
<1>0. /\ Len(s) \in Nat /\ Len(m) \in Nat /\ DOMAIN s = 1 .. Len(s) /\ DOMAIN m = 1 .. Len(m)
      /\ r \in Seq(S) /\ Len(r) = 1 /\ r[1] = "/"
  OBVIOUS
<1>1. /\ u \in Seq(S) /\ Len(u) = d + Len(m)
      /\ \A i \in 1 .. Len(s) : u[i] = s[i]
      /\ u[d] = "/" /\ \A i \in 1 .. Len(m) : u[d + i] = m[i]
  BY SlashBetween
<1>17. SUFFICES StrictPath(u) = PathShown(s, Between(s, a, b), TRUE)
  OBVIOUS
<1> HIDE DEF u, r
<1>d. d \in Nat /\ d = Len(s) + 1
  BY <1>0
<1> HIDE DEF d
<1>2. PICK n \in 0 .. Len(u) : /\ p = SubSeq(u, 1, n) /\ \A k \in 1 .. n : u[k] \notin C
                               /\ n < Len(u) => u[n + 1] \in C
  BY <1>1, BeforeIs
<1> HIDE DEF p
<1>3. \A i \in 1 .. d + 1 : u[i] \notin C
  <2> TAKE i \in 1 .. d + 1
  <2>1. CASE i \in 1 .. Len(s)
    <3>1. s[i] \in Range(s)
      BY <1>0, <2>1 DEF Range
    <3> QED
      BY <1>1, <2>1, <3>1
  <2>2. CASE i = d
    BY <1>1, <2>2
  <2>3. CASE i = d + 1
    <3>1. u[d + 1] = m[1]
      BY <1>0, <1>1
    <3> QED
      BY <2>3, <3>1
  <2> QED
    BY <1>0, <1>d, <2>1, <2>2, <2>3
<1> HIDE DEF C
<1>4. n >= d + 1
  <2> SUFFICES ASSUME n < d + 1 PROVE FALSE
    BY <1>1, <1>2, <1>d
  <2>1. n < Len(u) /\ n + 1 \in 1 .. d + 1
    BY <1>0, <1>1, <1>2, <1>d
  <2> QED
    BY <1>2, <1>3, <2>1
<1>5. p \in Seq(S) /\ Len(p) = n /\ \A k \in 1 .. n : p[k] = u[k]
  <2>1. \A k \in 1 .. n : u[k] \in S
    BY <1>0, <1>1, <1>2
  <2>2. Len(u) \in Nat /\ n \in Nat /\ n <= Len(u)
    BY <1>1, <1>2
  <2> QED
    BY <1>1, <1>2, <2>1, <2>2
<1>6. /\ \A i \in 1 .. Len(s) : p[i] = s[i]
      /\ p[d] = "/" /\ p[d + 1] # "/"
  <2>1. \A i \in 1 .. Len(s) : i \in 1 .. n
    BY <1>0, <1>2, <1>4, <1>d
  <2>2. d \in 1 .. n /\ d + 1 \in 1 .. n
    BY <1>0, <1>2, <1>4, <1>d
  <2>3. u[d + 1] = m[1]
    BY <1>0, <1>1
  <2>4. m[1] # "/"
    OBVIOUS
  <2> QED
    BY <1>1, <1>5, <2>1, <2>2, <2>3, <2>4
<1>7. /\ a \in 1 .. Len(s) /\ b \in a + 1 .. Len(s) + 1
      /\ \A i \in 1 .. a - 1 : s[i] = "/"
      /\ \A i \in a .. b - 1 : s[i] # "/"
      /\ b <= Len(s) => s[b] = "/"
  BY DEF IsFirst
<1>8. IsFirst(p, a, b)
  <2>1. a \in 1 .. Len(p) /\ b \in a + 1 .. Len(p) + 1
    BY <1>0, <1>4, <1>5, <1>7, <1>2, <1>d
  <2>2. (\A i \in 1 .. a - 1 : i \in 1 .. Len(s)) /\ (\A i \in a .. b - 1 : i \in 1 .. Len(s))
    BY <1>0, <1>7
  <2>3. p[b] = "/"
    <3>1. CASE b <= Len(s)
      <4>1. b \in 1 .. Len(s)
        BY <1>0, <1>7, <3>1
      <4> QED
        BY <1>6, <1>7, <3>1, <4>1
    <3>2. CASE b = d
      BY <1>6, <3>2
    <3> QED
      BY <1>0, <1>7, <1>d, <3>1, <3>2
  <2> QED
    BY <1>6, <1>7, <2>1, <2>2, <2>3 DEF IsFirst
<1>9. HasMore(p, b)
  <2>1. d + 1 \in b .. Len(p)
    BY <1>0, <1>2, <1>4, <1>5, <1>7, <1>d
  <2> QED
    BY <1>6, <2>1 DEF HasMore
<1>10. Between(p, a, b) = Between(s, a, b)
  <2> DEFINE g == Between(p, a, b)
             h == Between(s, a, b)
  <2>1. /\ g \in Seq(S) /\ Len(g) = b - a /\ \A k \in 1 .. Len(g) : g[k] = p[a + k - 1]
    BY <1>5, <1>8, FirstPart
  <2>2. /\ h \in Seq(S) /\ Len(h) = b - a /\ \A k \in 1 .. Len(h) : h[k] = s[a + k - 1]
    BY FirstPart
  <2> HIDE DEF g, h
  <2>3. ASSUME NEW k \in 1 .. Len(g) PROVE g[k] = h[k]
    <3> DEFINE i == (a + k) - 1
    <3>1. i \in 1 .. Len(s) /\ g[k] = p[i] /\ h[k] = s[i]
      BY <1>0, <1>7, <2>1, <2>2
    <3> HIDE DEF i
    <3> QED
      BY <1>6, <3>1
  <2>4. g = h
    BY <2>1, <2>2, <2>3, SeqEqual
  <2> QED
    BY <2>4 DEF g, h
<1>11. ~IsTemplate(p)
  <2>1. ASSUME NEW i \in 1 .. Len(p) PROVE p[i] \notin Marks
    <3>1. i \in 1 .. Len(u) /\ p[i] = u[i]
      BY <1>1, <1>2, <1>5
    <3>2. CASE i \in 1 .. Len(s)
      <4>1. s[i] \in Range(s)
        BY <1>0, <3>2 DEF Range
      <4> QED
        BY <1>1, <3>1, <3>2, <4>1
    <3>3. CASE i = d
      BY <1>1, <3>1, <3>3, SlashIsNoMark
    <3>4. CASE i > d
      <4> DEFINE k == i - d
      <4>1. k \in 1 .. Len(m) /\ d + k = i
        BY <1>0, <1>1, <1>d, <3>1, <3>4
      <4> HIDE DEF k
      <4>2. p[i] = m[k] /\ m[k] \in Range(m)
        BY <1>0, <1>1, <3>1, <4>1 DEF Range
      <4> QED
        BY <4>2
    <3> QED
      BY <1>0, <1>d, <3>1, <3>2, <3>3, <3>4
  <2> QED
    BY <1>5, <2>1, NoTemplate
<1>12. StrictPath(u) = FirstSegment(p)
  BY DEF StrictPath, p, C
<1>13. FirstSegment(p) = PathShown(p, Between(p, a, b), HasMore(p, b))
  BY <1>5, <1>8, <1>11, FirstSegmentIs
<1>14. At(p, 1) = At(s, 1)
  <2>1. 1 \in 1 .. Len(s) /\ 1 \in 1 .. Len(p)
    BY <1>0, <1>2, <1>4, <1>5, <1>7, <1>d
  <2> QED
    BY <1>0, <1>5, <1>6, <2>1 DEF At
<1>15. PathShown(p, Between(p, a, b), HasMore(p, b)) = PathShown(s, Between(s, a, b), TRUE)
  <2>1. HasMore(p, b) = TRUE
    BY <1>9 DEF HasMore
  <2> QED
    BY <1>10, <1>14, <2>1, Zenon DEF PathShown
<1> QED
  BY <1>12, <1>13, <1>15

\* What is at one of two places is at two at most.
LEMMA TwoAtMost ==
  ASSUME NEW A, NEW d, NEW e, A \subseteq {d, e}
  PROVE  Cardinality(A) <= 2
<1>1. IsFiniteSet({d, e}) /\ Cardinality({d, e}) <= 2
  <2>1. IsFiniteSet({d}) /\ Cardinality({d}) = 1
    BY FS_Singleton
  <2>2. IsFiniteSet({d} \cup {e}) /\ (Cardinality({d} \cup {e}) = 1 \/ Cardinality({d} \cup {e}) = 2)
    <3>1. Cardinality({d} \cup {e}) = IF e \in {d} THEN Cardinality({d}) ELSE Cardinality({d}) + 1
      BY <2>1, FS_AddElement
    <3>2. IsFiniteSet({d} \cup {e})
      BY <2>1, FS_AddElement
    <3> DEFINE n == Cardinality({d} \cup {e})
    <3>3. n = IF e \in {d} THEN 1 ELSE 1 + 1
      BY <2>1, <3>1
    <3> HIDE DEF n
    <3>4. n = 1 \/ n = 2
      BY <3>3
    <3> QED
      BY <3>2, <3>4 DEF n
  <2>3. {d} \cup {e} = {d, e}
    OBVIOUS
  <2> QED
    BY <2>2, <2>3
<1>2. IsFiniteSet(A) /\ Cardinality(A) <= Cardinality({d, e})
  BY <1>1, FS_Subset
<1>3. Cardinality(A) \in Nat /\ Cardinality({d, e}) \in Nat
  BY <1>1, <1>2, FS_CardinalityType
<1> QED
  BY <1>1, <1>2, <1>3

\* A path that is no template shows two slashes at most.
LEMMA FewSlashes ==
  ASSUME NEW S, NEW s \in Seq(S), ~IsTemplate(Before(s, {"?", "#"}))
  PROVE  /\ \E e : Slashes(StrictPath(s)) \subseteq {1, e}
         /\ StrictPath(s) \in Seq(S \cup {"/", ":id", ":path"})
<1> DEFINE p == Before(s, {"?", "#"})
           c == StrictPath(s)
<1>1. p \in Seq(S)
  BY QueryIsCut
<1>2. \/ (\A i \in 1 .. Len(p) : p[i] = "/") /\ StrictPath(s) = <<"/">>
      \/ \E a, b : /\ IsFirst(p, a, b)
                   /\ StrictPath(s) = PathShown(p, Between(p, a, b), HasMore(p, b))
  BY StrictPathIs
<1> HIDE DEF p
<1>3. c \in Seq(S \cup {"/", ":id", ":path"}) /\ \E e : Slashes(c) \subseteq {1, e}
  <2>1. CASE c = <<"/">>
    <3>1. c \in Seq(S \cup {"/", ":id", ":path"}) /\ Len(c) = 1
      BY <2>1
    <3> HIDE DEF c
    <3>2. Slashes(c) \subseteq {1, 1}
      BY <3>1 DEF Slashes
    <3> QED
      BY <3>1, <3>2
  <2>2. ASSUME NEW a, NEW b, IsFirst(p, a, b), c = PathShown(p, Between(p, a, b), HasMore(p, b))
        PROVE  c \in Seq(S \cup {"/", ":id", ":path"}) /\ \E e : Slashes(c) \subseteq {1, e}
    <3> DEFINE g == Between(p, a, b)
    <3>1. g \in Seq(S) /\ Len(g) \in Nat \ {0} /\ Range(g) \subseteq Range(p) \ {"/"}
      BY <1>1, <2>2, FirstPart
    <3> HIDE DEF g
    <3>2. "/" \notin Range(g)
      BY <3>1
    <3>3. LET k == PathShown(p, g, HasMore(p, b))
          IN  k \in Seq(S \cup {"/", ":id", ":path"}) /\ \E e : Slashes(k) \subseteq {1, e}
      BY <3>1, <3>2, CutBytes
    <3> QED
      BY <2>2, <3>3 DEF g
  <2> QED
    BY <1>2, <2>1, <2>2
<1> HIDE DEF c
<1> QED
  BY <1>3 DEF c

\* No path shows a query.
LEMMA NoQuery ==
  ASSUME NEW S, NEW s \in Seq(S)
  PROVE  Range(StrictPath(s)) \cap {"?", "#"} = {}
<1> DEFINE p == Before(s, {"?", "#"})
           C == {"?", "#"}
<1>1. p \in Seq(S) /\ Range(p) \subseteq Range(s) \ C
  BY QueryIsCut
<1>2. \/ StrictPath(s) = p
      \/ StrictPath(s) = <<"/">>
      \/ \E a, b : /\ IsFirst(p, a, b)
                   /\ StrictPath(s) = PathShown(p, Between(p, a, b), HasMore(p, b))
  BY StrictPathIs
<1> HIDE DEF p
<1>3. {"/", ":id", ":path"} \cap C = {}
  BY ClassesOfCut
<1> HIDE DEF C
<1>4. CASE StrictPath(s) = p
  BY <1>1, <1>4 DEF C
<1>5. CASE StrictPath(s) = <<"/">>
  <2> DEFINE c == <<"/">>
  <2>1. DOMAIN c = {1} /\ c[1] = "/"
    OBVIOUS
  <2> HIDE DEF c
  <2>2. Range(c) \subseteq {"/", ":id", ":path"}
    BY <2>1 DEF Range
  <2> QED
    BY <1>3, <1>5, <2>2 DEF c, C
<1>6. ASSUME NEW a, NEW b, IsFirst(p, a, b), StrictPath(s) = PathShown(p, Between(p, a, b), HasMore(p, b))
      PROVE  Range(StrictPath(s)) \cap C = {}
  <2> DEFINE g == Between(p, a, b)
  <2>1. g \in Seq(S) /\ Len(g) \in Nat \ {0} /\ Range(g) \subseteq Range(p) \ {"/"}
    BY <1>1, <1>6, FirstPart
  <2> HIDE DEF g
  <2>2. "/" \notin Range(g)
    BY <2>1
  <2>3. Range(PathShown(p, g, HasMore(p, b))) \subseteq Range(g) \cup {"/", ":id", ":path"}
    BY <2>1, <2>2, CutBytes
  <2> QED
    BY <1>1, <1>3, <1>6, <2>1, <2>3 DEF g
<1> QED
  BY <1>2, <1>4, <1>5, <1>6 DEF C

\* A path without the marks of a parameter is no template.
LEMMA RawPath ==
  ASSUME NEW S, NEW s \in Seq(S), Range(s) \cap Marks = {}
  PROVE  ~IsTemplate(Before(s, {"?", "#"}))
<1> DEFINE p == Before(s, {"?", "#"})
<1>1. p \in Seq(S) /\ Range(p) \subseteq Range(s) \ {"?", "#"}
  BY QueryIsCut
<1> HIDE DEF p
<1>2. \A i \in 1 .. Len(p) : p[i] \in Range(p)
  BY <1>1 DEF Range
<1>3. \A i \in 1 .. Len(p) : p[i] \notin Marks
  BY <1>1, <1>2
<1> QED
  BY <1>1, <1>3, NoTemplate DEF p

\* No digit of a raw path is shown, nor more characters than its first segment may have.
LEMMA FewCharacters ==
  ASSUME NEW S, NEW s \in Seq(S), Range(s) \cap Marks = {}
  PROVE  /\ Range(StrictPath(s)) \cap Digits = {}
         /\ CharacterCount(Without(StrictPath(s), {"/"})) <= MaxSegmentLength + 1
<1> DEFINE p == Before(s, {"?", "#"})
           K == {"/", ":id", ":path"}
<1>1. p \in Seq(S) /\ ~IsTemplate(p)
  BY QueryIsCut, RawPath
<1>2. \/ StrictPath(s) = <<"/">>
      \/ \E a, b : /\ IsFirst(p, a, b)
                   /\ StrictPath(s) = PathShown(p, Between(p, a, b), HasMore(p, b))
  BY <1>1, StrictPathIs
<1> HIDE DEF p
<1>3. \A c \in K : c \notin Digits
  BY ClassesOfCut
<1>4. CASE StrictPath(s) = <<"/">>
  <2> DEFINE c == <<"/">>
             w == Without(c, {"/"})
  <2>1. c \in Seq({"/"}) /\ Len(c) = 1 /\ c[1] = "/" /\ DOMAIN c = {1}
    OBVIOUS
  <2> HIDE DEF c
  <2>2. Range(c) \subseteq K
    BY <2>1 DEF Range
  <2>3. \A i \in 1 .. Len(c) : c[i] \notin Range(c) \ {"/"}
    BY <2>1
  <2>4. w = <<>>
    BY <2>1, <2>3, OnlyFirst DEF Without
  <2> HIDE DEF w
  <2>5. Len(Without(w, Continuations)) <= 0
    <3>1. w \in Seq({"/"}) /\ Len(w) = 0
      BY <2>4
    <3>2. Len(Only(w, Range(w) \ Continuations)) <= Len(w)
      BY <3>1, OnlyIs
    <3> QED
      BY <3>1, <3>2 DEF Without
  <2>6. Len(Without(w, Continuations)) \in Nat
    <3>1. w \in Seq({"/"})
      BY <2>4
    <3>2. Only(w, Range(w) \ Continuations) \in Seq({"/"})
      BY <3>1, OnlyIs
    <3> QED
      BY <3>2 DEF Without
  <2>7. CharacterCount(w) <= MaxSegmentLength + 1
    <3>1. CharacterCount(w) \in Nat /\ CharacterCount(w) <= 0
      BY <2>5, <2>6 DEF CharacterCount
    <3>2. MaxSegmentLength \in Nat
      BY StrictAssumption
    <3> QED
      BY <3>1, <3>2
  <2>8. Range(c) \cap Digits = {}
    <3> HIDE DEF K
    <3> QED
      BY <1>3, <2>2
  <2> QED
    BY <1>4, <2>7, <2>8 DEF c, w
<1>5. ASSUME NEW a, NEW b, IsFirst(p, a, b), StrictPath(s) = PathShown(p, Between(p, a, b), HasMore(p, b))
      PROVE  /\ Range(StrictPath(s)) \cap Digits = {}
             /\ CharacterCount(Without(StrictPath(s), {"/"})) <= MaxSegmentLength + 1
  <2> DEFINE g == Between(p, a, b)
             c == PathShown(p, g, HasMore(p, b))
  <2>1. g \in Seq(S) /\ Len(g) \in Nat \ {0} /\ Range(g) \subseteq Range(p) \ {"/"}
    BY <1>1, <1>5, FirstPart
  <2> HIDE DEF g
  <2>2. "/" \notin Range(g)
    BY <2>1
  <2>3. /\ Range(c) \subseteq Range(g) \cup K
        /\ IsId(g) => Range(c) \subseteq K
    BY <2>1, <2>2, CutBytes
  <2>4. CharacterCount(Without(c, {"/"})) <= MaxSegmentLength + 1
    BY <2>1, <2>2, CutIsShort
  <2>5. ~IsId(g) => Range(g) \cap Digits = {}
    BY DEF IsId
  <2> HIDE DEF K, c
  <2>6. Range(c) \cap Digits = {}
    BY <1>3, <2>3, <2>5
  <2> QED
    BY <1>5, <2>4, <2>6 DEF c, g
<1> QED
  BY <1>2, <1>4, <1>5

\* Whatever stands behind the first segment of a raw path, what is shown is the same.
LEMMA WhateverFollows ==
  ASSUME NEW S, NEW s \in Seq(S), "/" \in S, Range(s) \cap Marks = {}, s # <<>>, s[Len(s)] # "/",
         NEW m \in Seq(S), Len(m) > 0, m[1] \notin {"/", "?", "#"}, Range(m) \cap Marks = {},
         NEW n \in Seq(S), Len(n) > 0, n[1] \notin {"/", "?", "#"}, Range(n) \cap Marks = {}
  PROVE  StrictPath(s \o <<"/">> \o m) = StrictPath(s \o <<"/">> \o n)
<1> DEFINE C == {"?", "#"}
           r == <<"/">>
           w == s \o r
<1>0. Len(s) \in Nat \ {0} /\ DOMAIN s = 1 .. Len(s)
  OBVIOUS
<1>1. CASE Range(s) \cap C = {}
  <2>1. Len(s) \in 1 .. Len(s)
    BY <1>0
  <2>2. PICK a, b : IsFirst(s, a, b)
    <3>1. \E i \in 1 .. Len(s) : s[i] # "/"
      BY <2>1
    <3> QED
      BY <3>1, FirstExists
  <2>3. StrictPath(s \o <<"/">> \o m) = PathShown(s, Between(s, a, b), TRUE)
    BY <1>1, <2>2, OnlyTheFirst
  <2>4. StrictPath(s \o <<"/">> \o n) = PathShown(s, Between(s, a, b), TRUE)
    BY <1>1, <2>2, OnlyTheFirst
  <2> QED
    BY <2>3, <2>4
<1>2. CASE Range(s) \cap C # {}
  <2>1. r \in Seq(S)
    OBVIOUS
  <2> HIDE DEF r
  <2>2. w \in Seq(S) /\ Len(w) = Len(s) + Len(r) /\ \A i \in 1 .. Len(s) : w[i] = s[i]
    BY <2>1
  <2> HIDE DEF w
  <2>3. PICK i \in 1 .. Len(s) : s[i] \in C
    BY <1>0, <1>2 DEF Range
  <2>4. i \in DOMAIN w /\ w[i] \in C
    BY <1>0, <2>1, <2>2, <2>3
  <2>5. Range(w) \cap C # {}
    <3> HIDE DEF C
    <3> QED
      BY <2>4 DEF Range
  <2>6. StrictPath(w \o m) = StrictPath(w) /\ StrictPath(w \o n) = StrictPath(w)
    BY <2>2, <2>5, QueryStays
  <2> QED
    BY <2>6 DEF w, r
<1> QED
  BY <1>1, <1>2

\* What the three that follow, and the one they are compared to, are made of.
FollowBytes == {"/", "a", "b", "1", "?"}
Follow == {<<"a">>, <<"1", "/", "a">>, <<"a", "?">>, <<"b">>}

LEMMA FollowIs ==
  /\ FollowBytes \cap Marks = {}
  /\ \A m \in Follow : /\ m \in Seq(FollowBytes) /\ Len(m) > 0 /\ m[1] \in {"a", "1", "b"}
                       /\ Range(m) \subseteq FollowBytes
  /\ {"a", "1", "b"} \cap {"/", "?", "#"} = {}
  /\ <<"a">> \in Follow /\ <<"1", "/", "a">> \in Follow /\ <<"a", "?">> \in Follow /\ <<"b">> \in Follow
<1>1. FollowBytes \cap Marks = {}
  BY Zenon DEF FollowBytes, Marks
<1>2. ASSUME NEW m \in Follow
      PROVE m \in Seq(FollowBytes) /\ Len(m) > 0 /\ m[1] \in {"a", "1", "b"} /\ Range(m) \subseteq FollowBytes
  <2> DEFINE B == FollowBytes
  <2>1. "a" \in B /\ "b" \in B /\ "1" \in B /\ "/" \in B /\ "?" \in B
    BY DEF FollowBytes
  <2> HIDE DEF B
  <2>2. m \in Seq(B) /\ Len(m) > 0 /\ m[1] \in {"a", "1", "b"}
    <3>1. m = <<"a">> \/ m = <<"1", "/", "a">> \/ m = <<"a", "?">> \/ m = <<"b">>
      BY Zenon DEF Follow
    <3>2. CASE m = <<"a">>
      BY <2>1, <3>2
    <3>3. CASE m = <<"1", "/", "a">>
      BY <2>1, <3>3
    <3>4. CASE m = <<"a", "?">>
      BY <2>1, <3>4
    <3>5. CASE m = <<"b">>
      BY <2>1, <3>5
    <3> QED
      BY <3>1, <3>2, <3>3, <3>4, <3>5
  <2>3. Range(m) \subseteq B
    <3>1. \A i \in DOMAIN m : m[i] \in B
      BY <2>2
    <3> QED
      BY <3>1 DEF Range
  <2> QED
    BY <2>2, <2>3 DEF B
<1>3. {"a", "1", "b"} \cap {"/", "?", "#"} = {}
  OBVIOUS
<1>4. <<"a">> \in Follow /\ <<"1", "/", "a">> \in Follow /\ <<"a", "?">> \in Follow /\ <<"b">> \in Follow
  BY Zenon DEF Follow
<1> QED
  BY <1>1, <1>2, <1>3, <1>4

\* Appending two bytes, one after the other.
LEMMA AppendedTwo ==
  ASSUME NEW S, NEW s \in Seq(S), NEW x \in S, NEW y \in S
  PROVE  s \o <<x, y>> = s \o <<x>> \o <<y>>
<1> DEFINE u == s \o <<x, y>>
           v == s \o <<x>>
           w == v \o <<y>>
<1>1. /\ u \in Seq(S) /\ Len(u) = Len(s) + 2 /\ \A i \in 1 .. Len(s) : u[i] = s[i]
      /\ u[Len(s) + 1] = x /\ u[Len(s) + 2] = y
  OBVIOUS
<1>2. /\ v \in Seq(S) /\ Len(v) = Len(s) + 1 /\ \A i \in 1 .. Len(s) : v[i] = s[i]
      /\ v[Len(s) + 1] = x
  OBVIOUS
<1>3. Len(s) \in Nat
  OBVIOUS
<1> HIDE DEF v
<1>4. /\ w \in Seq(S) /\ Len(w) = Len(v) + 1 /\ \A i \in 1 .. Len(v) : w[i] = v[i]
      /\ w[Len(v) + 1] = y
  BY <1>2
<1> HIDE DEF u, w
<1>5. ASSUME NEW i \in 1 .. Len(u) PROVE u[i] = w[i]
  <2>1. CASE i \in 1 .. Len(s)
    <3>1. i \in 1 .. Len(v)
      BY <1>2, <1>3, <2>1
    <3> QED
      BY <1>1, <1>2, <1>4, <2>1, <3>1
  <2>2. CASE i = Len(s) + 1
    <3>1. i \in 1 .. Len(v)
      BY <1>2, <1>3, <2>2
    <3> QED
      BY <1>1, <1>2, <1>4, <2>2, <3>1
  <2>3. CASE i = Len(s) + 2
    <3>1. i = Len(v) + 1
      BY <1>2, <1>3, <2>3
    <3> QED
      BY <1>1, <1>4, <2>3, <3>1
  <2> QED
    BY <1>1, <1>3, <2>1, <2>2, <2>3
<1>6. Len(u) = Len(w)
  BY <1>1, <1>2, <1>3, <1>4
<1>7. u = w
  BY <1>1, <1>4, <1>5, <1>6, SeqEqual
<1> QED
  BY <1>7 DEF u, v, w

\* A path shows its first segment alone (strict_privacy.cpp's strict_path()): no query and,
\* unless it could be a route template, no digit, nothing of what follows and no segment too
\* long; a shown path is shown as it is.
THEOREM PathsAreBare ==
  ASSUME NEW S, NEW s \in Seq(S)
  PROVE  PathIsBare(s)
<1> DEFINE cut == StrictPath(s)
<1>1. Range(cut) \cap {"?", "#"} = {}
  BY NoQuery
<1>2. ASSUME Range(s) \cap Marks = {}
      PROVE  /\ Range(cut) \cap Digits = {}
             /\ Cardinality(Slashes(cut)) <= 2
             /\ CharacterCount(Without(cut, {"/"})) <= MaxSegmentLength + 1
  <2>1. ~IsTemplate(Before(s, {"?", "#"}))
    BY <1>2, RawPath
  <2>2. PICK e : Slashes(cut) \subseteq {1, e}
    BY <2>1, FewSlashes
  <2>3. Cardinality(Slashes(cut)) <= 2
    BY <2>2, TwoAtMost
  <2> QED
    BY <1>2, <2>3, FewCharacters
<1>3. ASSUME Range(s) \cap Marks = {}, s # <<>>, s[Len(s)] # "/", NEW more \in Follow
      PROVE  StrictPath(s \o <<"/">> \o more) = StrictPath(s \o <<"/", "b">>)
  <2> DEFINE T == S \cup FollowBytes
             n == <<"b">>
  <2>1. "/" \in T /\ "b" \in T
    BY DEF FollowBytes
  <2>2. s \in Seq(T)
    OBVIOUS
  <2>3. n \in Follow
    BY FollowIs
  <2>4. /\ more \in Seq(T) /\ Len(more) > 0 /\ more[1] \notin {"/", "?", "#"} /\ Range(more) \cap Marks = {}
        /\ n \in Seq(T) /\ Len(n) > 0 /\ n[1] \notin {"/", "?", "#"} /\ Range(n) \cap Marks = {}
    <3> DEFINE E == {"a", "1", "b"}
               F == {"/", "?", "#"}
    <3>1. E \cap F = {} /\ FollowBytes \cap Marks = {}
      BY FollowIs
    <3>2. ASSUME NEW m \in Follow
          PROVE  m \in Seq(FollowBytes) /\ Len(m) > 0 /\ m[1] \in E /\ Range(m) \subseteq FollowBytes
      BY FollowIs
    <3>3. ASSUME NEW m \in Follow
          PROVE  m \in Seq(T) /\ Len(m) > 0 /\ m[1] \notin F /\ Range(m) \cap Marks = {}
      <4> HIDE DEF E, F
      <4> QED
        BY <3>1, <3>2
    <3> HIDE DEF n, T, E, F
    <3> QED
      BY <2>3, <3>3 DEF F
  <2> HIDE DEF T, n
  <2>5. StrictPath(s \o <<"/">> \o more) = StrictPath(s \o <<"/">> \o n)
    BY <1>3, <2>1, <2>2, <2>4, WhateverFollows
  <2>6. s \o <<"/", "b">> = s \o <<"/">> \o <<"b">>
    BY <2>1, <2>2, AppendedTwo
  <2> QED
    BY <2>5, <2>6, Zenon DEF n
<1>4. ":id" \notin Range(cut) /\ ":path" \notin Range(cut) => StrictPath(cut) = cut
  BY CutAgain
<1> DEFINE A == {<<"a">>, <<"1", "/", "a">>, <<"a", "?">>}
<1>5. \A more \in A : more \in Follow
  BY Zenon DEF Follow
<1> HIDE DEF A
<1>6. Range(s) \cap {":", "*", "{", "<", "["} = {} => Range(s) \cap Marks = {}
  BY Zenon DEF Marks
<1>7. ASSUME Range(s) \cap {":", "*", "{", "<", "["} = {}
      PROVE  /\ Range(cut) \cap Digits = {}
             /\ Cardinality({i \in DOMAIN cut : cut[i] = "/"}) <= 2
             /\ CharacterCount(Without(cut, {"/"})) <= MaxSegmentLength + 1
             /\ \A more \in A :
                  s # <<>> /\ s[Len(s)] # "/" =>
                    StrictPath(s \o <<"/">> \o more) = StrictPath(s \o <<"/", "b">>)
  <2>1. Range(s) \cap Marks = {}
    BY <1>6, <1>7
  <2>2. Cardinality({i \in DOMAIN cut : cut[i] = "/"}) <= 2
    BY <1>2, <2>1 DEF Slashes
  <2>3. \A more \in A : s # <<>> /\ s[Len(s)] # "/" =>
                    StrictPath(s \o <<"/">> \o more) = StrictPath(s \o <<"/", "b">>)
    BY <1>3, <1>5, <2>1, Zenon
  <2> HIDE DEF cut
  <2> QED
    BY <1>2, <2>1, <2>2, <2>3, Zenon
<1> HIDE DEF cut
<1> QED
  BY <1>1, <1>4, <1>7, Zenon DEF PathIsBare, cut, A

\* A host is text of its address.
LEMMA HostIsText ==
  ASSUME NEW S, NEW s \in Seq(S)
  PROVE  HostOf(s) \in Seq(S)
<1>1. PICK b \in 0 .. Len(s) : \E a \in 0 .. b : IsAuthority(s, a, b) /\ Authority(s) = SubSeq(s, a + 1, b)
  BY AuthorityIs
<1>2. PICK a \in 0 .. b : Authority(s) = SubSeq(s, a + 1, b)
  BY <1>1
<1> DEFINE A == Authority(s)
           B == {i \in DOMAIN A : A[i] \notin Digits} \cup {0}
           tail == Max(B)
           cut == Between(A, 1, tail)
<1>3. A \in Seq(S)
  <2>1. \A k \in a + 1 .. b : s[k] \in S
    OBVIOUS
  <2> QED
    BY <1>2, <2>1, SubSeqProperties
<1> HIDE DEF A
<1>4. tail \in 0 .. Len(A)
  <2>0. Len(A) \in Nat /\ DOMAIN A = 1 .. Len(A)
    BY <1>3
  <2>1. B \in SUBSET Int /\ B # {} /\ (\A k \in B : k <= Len(A)) /\ Len(A) \in Int
    BY <2>0
  <2>2. B \subseteq 0 .. Len(A)
    BY <2>0
  <2> HIDE DEF B
  <2>3. tail \in B
    BY <2>1, MaxOf
  <2> QED
    BY <2>2, <2>3
<1>5. HostOf(s) \in {<<>>, A} \/ (tail > 0 /\ HostOf(s) = cut)
  BY DEF HostOf, HostIn, A
<1>6. tail > 0 => cut \in Seq(S)
  <2> HIDE DEF tail
  <2>1. tail > 0 => 1 \in 1 .. Len(A) + 1 /\ tail \in 1 .. Len(A) + 1
    BY <1>3, <1>4
  <2> QED
    BY <1>3, <2>1, BetweenIs
<1>7. <<>> \in Seq(S)
  OBVIOUS
<1> HIDE DEF cut, tail
<1>8. CASE HostOf(s) = <<>>
  BY <1>7, <1>8
<1> QED
  BY <1>3, <1>5, <1>6, <1>8

\* What a route parameter begins with but for the colon.
Brackets == {"*", "{", "<", "["}

\* A path whose parameters could only stand behind a colon, and that has none of them, is no
\* template.
LEMMA NoParameter ==
  ASSUME NEW S, NEW s \in Seq(S), Range(s) \cap Brackets = {}, s # <<>>, s[1] # ":",
         \A i \in DOMAIN s : s[i] = ":" => At(s, i - 1) # "/"
  PROVE  ~IsTemplate(Before(s, {"?", "#"}))
<1> DEFINE C == {"?", "#"}
           p == Before(s, C)
<1>0. Len(s) \in Nat /\ DOMAIN s = 1 .. Len(s)
  OBVIOUS
<1>1. PICK n \in 0 .. Len(s) : p = SubSeq(s, 1, n)
  BY BeforeIs
<1>2. p \in Seq(S)
  BY QueryIsCut
<1> HIDE DEF p
<1>3. Len(p) = n /\ \A i \in 1 .. n : p[i] = s[i]
  <2>1. \A i \in 1 .. n : s[i] \in S
    BY <1>0
  <2> QED
    BY <1>0, <1>1, <2>1, SubSeqProperties
<1>4. \A c \in Marks : c = ":" \/ c \in Brackets
  BY Zenon DEF Marks, Brackets
<1>5. \A i \in 1 .. Len(p) : p[i] \in Marks => i # 1 /\ p[i - 1] # "/"
  <2> SUFFICES ASSUME NEW i \in 1 .. Len(p), p[i] \in Marks PROVE i # 1 /\ p[i - 1] # "/"
    OBVIOUS
  <2>1. i \in DOMAIN s /\ p[i] = s[i] /\ s[i] \in Range(s)
    BY <1>0, <1>3 DEF Range
  <2>2. s[i] = ":"
    BY <1>4, <2>1
  <2>3. i # 1 /\ At(s, i - 1) # "/"
    BY <2>1, <2>2
  <2>4. i - 1 \in 1 .. n /\ i - 1 \in DOMAIN s
    BY <1>0, <1>3, <2>3
  <2> QED
    BY <1>3, <2>3, <2>4 DEF At
<1> QED
  BY <1>2, <1>5, NoTemplate DEF p

\* A method and a space, before a target of text without a space.
LEMMA MethodBytes ==
  /\ NoByte \notin Spaces /\ " " \in Spaces /\ "GET" \in Methods
  /\ "GET" # "/" /\ " " # "/" /\ "GET" \notin {"?", "#"} /\ " " \notin {"?", "#"}
<1>1. NoByte \notin Spaces
  BY Zenon DEF NoByte, Spaces, Blanks, Space
<1>2. " " \in Spaces
  BY Zenon DEF Spaces, Blanks, Space
<1>3. "GET" \in Methods
  BY Zenon DEF Methods
<1>4. "GET" # "/" /\ " " # "/" /\ "GET" \notin {"?", "#"} /\ " " \notin {"?", "#"}
  BY Zenon
<1> QED
  BY <1>1, <1>2, <1>3, <1>4, Zenon

\* What is behind two bytes.
IsBehind(n, g, w, s) ==
  /\ Len(n) = Len(s) + 2 /\ n[1] = g /\ n[2] = w
  /\ \A i \in 1 .. Len(s) : n[i + 2] = s[i]
  /\ \A i \in 3 .. Len(n) : n[i] = s[i - 2] /\ i - 2 \in 1 .. Len(s)

LEMMA BehindTwo ==
  ASSUME NEW S, NEW g \in S, NEW w \in S, NEW s \in Seq(S)
  PROVE  /\ <<g, w>> \o s \in Seq(S)
         /\ IsBehind(<<g, w>> \o s, g, w, s)
<1> DEFINE r == <<g, w>>
           n == r \o s
<1>1. r \in Seq(S) /\ Len(r) = 2 /\ r[1] = g /\ r[2] = w
  OBVIOUS
<1> HIDE DEF r
<1>2. Len(s) \in Nat
  OBVIOUS
<1>8. r \in Seq(S)
  BY <1>1
<1>3. /\ n \in Seq(S) /\ Len(n) = Len(r) + Len(s) /\ \A i \in 1 .. Len(r) : n[i] = r[i]
      /\ \A i \in 1 .. Len(s) : n[Len(r) + i] = s[i]
  <2>1. n \in Seq(S) /\ Len(n) = Len(r) + Len(s)
    BY <1>8
  <2>2. \A i \in 1 .. Len(r) : n[i] = r[i]
    BY <1>8
  <2>3. \A i \in 1 .. Len(s) : n[Len(r) + i] = s[i]
    BY <1>8
  <2> QED
    BY <2>1, <2>2, <2>3
<1> HIDE DEF n
<1>4. Len(n) = Len(s) + 2 /\ n[1] = g /\ n[2] = w
  BY <1>1, <1>2, <1>3
<1>5. \A i \in 1 .. Len(s) : n[i + 2] = s[i]
  <2> TAKE i \in 1 .. Len(s)
  <2>1. Len(r) + i = i + 2
    BY <1>1
  <2>2. n[Len(r) + i] = s[i]
    BY <1>3
  <2> QED
    BY <2>1, <2>2
<1>6. \A i \in 3 .. Len(n) : n[i] = s[i - 2] /\ i - 2 \in 1 .. Len(s)
  <2> TAKE i \in 3 .. Len(n)
  <2> DEFINE j == i - 2
  <2>1. j \in 1 .. Len(s) /\ j + 2 = i
    BY <1>2, <1>4
  <2> HIDE DEF j
  <2>2. n[i] = s[j]
    BY <1>5, <2>1
  <2> QED
    BY <2>1, <2>2 DEF j
<1>7. IsBehind(n, g, w, s)
  BY <1>4, <1>5, <1>6 DEF IsBehind
<1> QED
  BY <1>3, <1>7 DEF n, r

\* The name of a span that a method and its target name.
LEMMA NamedByMethod ==
  ASSUME NEW S, NEW g \in S, NEW w \in S, NEW s \in Seq(S), s # <<>>, Range(s) \cap Spaces = {},
         w \in Spaces, g \in Methods, g # "/", NoByte \notin Spaces, w = Space
  PROVE  TransactionName(<<g, w>> \o s) = <<g, w>> \o Shown(s)
<1> DEFINE n == <<g, w>> \o s
<1>1. n \in Seq(S) /\ IsBehind(n, g, w, s)
  BY BehindTwo
<1> HIDE DEF n
<1>0. Len(s) \in Nat \ {0} /\ Len(n) \in Nat /\ DOMAIN n = 1 .. Len(n) /\ DOMAIN s = 1 .. Len(s)
  BY <1>1
<1>2. Len(n) = Len(s) + 2 /\ n[1] = g /\ n[2] = w
  BY <1>1 DEF IsBehind
<1>3. \A i \in 3 .. Len(n) : n[i] = s[i - 2] /\ i - 2 \in 1 .. Len(s)
  BY <1>1 DEF IsBehind
<1>4. \A i \in 1 .. Len(s) : s[i] \notin Spaces
  BY <1>0 DEF Range
<1>5. n[3] \notin Spaces /\ 3 \in DOMAIN n
  <2>1. 3 \in 3 .. Len(n) /\ 3 \in DOMAIN n
    BY <1>0, <1>2
  <2>2. n[3] = s[3 - 2] /\ 3 - 2 \in 1 .. Len(s)
    BY <1>3, <2>1
  <2> QED
    BY <1>4, <2>1, <2>2
<1>6. ~(Range(n) \subseteq Spaces)
  BY <1>5 DEF Range
<1>7. RunEnd(n, 2, Spaces) = 3
  <2>1. At(n, 3) \notin Spaces
    BY <1>5 DEF At
  <2>2. All(n, 2, 3, Spaces)
    <3>1. At(n, 2) \in Spaces
      BY <1>0, <1>2 DEF At
    <3>2. \A k \in 2 .. 3 - 1 : k = 2
      OBVIOUS
    <3> QED
      BY <3>1, <3>2 DEF All
  <2> QED
    BY <1>1, <2>1, <2>2, RunEndIsThat
<1>8. SubSeq(n, 3, Len(n)) = s
  <2> DEFINE v == SubSeq(n, 3, Len(n))
  <2>1. \A k \in 3 .. Len(n) : n[k] \in S
    BY <1>0, <1>1
  <2>2. /\ v \in Seq(S) /\ Len(v) = Len(s) /\ \A k \in 1 .. Len(s) : v[k] = n[3 + k - 1]
    <3>1. /\ v \in Seq(S) /\ Len(v) = IF 3 <= Len(n) THEN Len(n) - 3 + 1 ELSE 0
          /\ \A k \in 1 .. Len(n) - 3 + 1 : v[k] = n[3 + k - 1]
      BY <1>0, <1>1, <2>1, SubSeqProperties
    <3> HIDE DEF v
    <3>2. 3 <= Len(n) /\ (Len(n) - 3) + 1 = Len(s)
      BY <1>0, <1>2
    <3>3. Len(n) - 3 + 1 = (Len(n) - 3) + 1
      BY <1>0
    <3> QED
      BY <3>1, <3>2, <3>3
  <2> HIDE DEF v
  <2>3. \A k \in 1 .. Len(v) : v[k] = s[k]
    <3> TAKE k \in 1 .. Len(v)
    <3> DEFINE i == 3 + k - 1
    <3>1. i \in 3 .. Len(n) /\ i - 2 = k /\ k \in 1 .. Len(s)
      BY <1>0, <1>2, <2>2
    <3>2. v[k] = n[i]
      BY <2>2, <3>1
    <3> HIDE DEF i
    <3> QED
      BY <1>3, <3>1, <3>2
  <2>4. v = s
    BY <2>2, <2>3, SeqEqual
  <2> QED
    BY <2>4 DEF v
<1>9. Before(s, Spaces) = s
  <2> DEFINE v == SubSeq(s, 1, Len(s))
  <2>1. Len(s) \in 0 .. Len(s) /\ ~(Len(s) < Len(s))
    BY <1>0
  <2>2. Before(s, Spaces) = v
    BY <1>4, <2>1, BeforeIsThat
  <2>3. \A k \in 1 .. Len(s) : s[k] \in S
    BY <1>0
  <2>4. v \in Seq(S) /\ Len(v) = Len(s) /\ \A k \in 1 .. Len(v) : v[k] = s[k]
    BY <1>0, <2>3
  <2> HIDE DEF v
  <2>5. v = s
    BY <2>4, SeqEqual
  <2> QED
    BY <2>2, <2>5
<1>10. At(n, 1) = g
  BY <1>0, <1>2 DEF At
<1>11. 3 \in 3 .. Len(n)
  BY <1>0, <1>2
<1>12. SpanName(n) = <<n[1], w>> \o Shown(s)
  <2>1. At(n, 1) # "/" /\ At(n, 1) \in Methods
    BY <1>10
  <2> QED
    BY <1>7, <1>8, <1>9, <1>11, <2>1, Zenon DEF SpanName, Space
<1>13. TransactionName(n) = SpanName(n)
  BY <1>6 DEF TransactionName
<1>14. TransactionName(n) = <<g, w>> \o Shown(s)
  BY <1>2, <1>12, <1>13, Zenon
<1> QED
  BY <1>14 DEF n

\* What a shown path is made of.
LEMMA PathBytes ==
  ASSUME NEW S, NEW s \in Seq(S)
  PROVE  StrictPath(s) \in Seq(S \cup {"/", ":id", ":path"})
<1> DEFINE p == Before(s, {"?", "#"})
           T == S \cup {"/", ":id", ":path"}
<1>1. p \in Seq(S)
  BY QueryIsCut
<1>2. IsTemplate(p) => StrictPath(s) = p
  BY StrictPathIs
<1>3. ~IsTemplate(p) => StrictPath(s) \in Seq(T)
  BY FewSlashes
<1> HIDE DEF p
<1>4. p \in Seq(T)
  <2>1. \A i \in 1 .. Len(p) : p[i] \in T
    BY <1>1
  <2> QED
    BY <1>1, <2>1
<1> QED
  BY <1>2, <1>3, <1>4

\* What is shown of a target: its host, or the path it is.
LEMMA ShownIs ==
  ASSUME NEW S, NEW s \in Seq(S)
  PROVE  /\ Shown(s) \in Seq(S \cup {"/", ":id", ":path"})
         /\ Range(Shown(s)) \cap {"?", "#"} = {}
         /\ ~IsTemplate(Before(s, {"?", "#"})) => \E e : Slashes(Shown(s)) \subseteq {1, e}
<1> DEFINE T == S \cup {"/", ":id", ":path"}
           x == Shown(s)
           h == HostOf(s)
           c == StrictPath(s)
<1>1. x = h \/ x = c
  BY DEF Shown
<1> HIDE DEF x
<1>2. CASE x = h
  <2>1. h \in Seq(S)
    BY HostIsText
  <2>2. Range(h) \cap {"/", "?", "#", "@"} = {}
    BY HostsAreBare DEF HostIsBare
  <2> HIDE DEF h
  <2>3. \A i \in DOMAIN h : h[i] \in S /\ h[i] \in Range(h)
    BY <2>1 DEF Range
  <2>4. h \in Seq(T)
    <3>1. \A i \in 1 .. Len(h) : h[i] \in T
      BY <2>1, <2>3
    <3> QED
      BY <2>1, <3>1
  <2>5. Slashes(h) \subseteq {1, 1}
    BY <2>2, <2>3 DEF Slashes
  <2>6. Range(h) \cap {"?", "#"} = {}
    BY <2>2
  <2> QED
    BY <1>2, <2>4, <2>5, <2>6 DEF x
<1>3. CASE x = c
  <2>1. Range(c) \cap {"?", "#"} = {}
    BY NoQuery
  <2>2. c \in Seq(T)
    BY PathBytes
  <2>3. ~IsTemplate(Before(s, {"?", "#"})) => \E e : Slashes(c) \subseteq {1, e}
    BY FewSlashes
  <2> QED
    BY <1>3, <2>1, <2>2, <2>3 DEF x
<1> QED
  BY <1>1, <1>2, <1>3

\* The name of a span that a method names shows a host or a bare path
\* (strict_privacy.cpp's transaction_name()).
THEOREM NamesAreBare ==
  ASSUME NEW S, NEW s \in Seq(S)
  PROVE  NameIsBare(s)
<1> DEFINE g == "GET"
           w == " "
           x == Shown(s)
           T == (S \cup {"/", ":id", ":path"}) \cup {g, w}
           name == TransactionName(<<g, w>> \o s)
           only == s[1] # ":" /\ (\A i \in DOMAIN s : s[i] = ":" => At(s, i - 1) # "/")
<1>1. /\ NoByte \notin Spaces /\ w \in Spaces /\ g \in Methods /\ w = Space
      /\ g # "/" /\ w # "/" /\ g \notin {"?", "#"} /\ w \notin {"?", "#"}
  BY MethodBytes, Zenon DEF Space
<1>2. g \in T /\ w \in T
  BY Zenon
<1>3. (S \cup {"/", ":id", ":path"}) \subseteq T
  BY Zenon
<1>4. S \subseteq T
  BY Zenon
<1>10. Range(s) \cap (Spaces \cup {"*", "{", "<", "["}) = {} =>
         Range(s) \cap Spaces = {} /\ Range(s) \cap Brackets = {}
  BY Zenon DEF Brackets
<1> HIDE DEF g, w, T, only
<1>5. ASSUME s # <<>>, Range(s) \cap Spaces = {}, Range(s) \cap Brackets = {}
      PROVE  /\ Range(name) \cap {"?", "#"} = {}
             /\ only => Cardinality(Slashes(name)) <= 2
  <2>1. s \in Seq(T)
    BY <1>4
  <2>2. name = <<g, w>> \o x
    <3>1. /\ g \in T /\ w \in T /\ s \in Seq(T) /\ s # <<>> /\ Range(s) \cap Spaces = {}
          /\ w \in Spaces /\ g \in Methods /\ g # "/" /\ NoByte \notin Spaces /\ w = Space
      BY <1>1, <1>2, <1>5, <2>1
    <3>2. TransactionName(<<g, w>> \o s) = <<g, w>> \o Shown(s)
      BY <3>1, NamedByMethod
    <3> QED
      BY <3>2
  <2>3. x \in Seq(T) /\ Range(x) \cap {"?", "#"} = {}
    <3>1. x \in Seq(S \cup {"/", ":id", ":path"}) /\ Range(x) \cap {"?", "#"} = {}
      BY ShownIs
    <3> HIDE DEF x
    <3> QED
      BY <1>3, <3>1
  <2>4. only => \E e : Slashes(x) \subseteq {1, e}
    <3>1. only => ~IsTemplate(Before(s, {"?", "#"}))
      BY <1>5, NoParameter DEF only
    <3> QED
      BY <3>1, ShownIs
  <2> HIDE DEF name, x
  <2>5. name \in Seq(T) /\ IsBehind(name, g, w, x)
    BY <1>2, <2>2, <2>3, BehindTwo
  <2>6. /\ Len(name) = Len(x) + 2 /\ name[1] = g /\ name[2] = w /\ DOMAIN name = 1 .. Len(name)
        /\ \A i \in 3 .. Len(name) : name[i] = x[i - 2] /\ i - 2 \in DOMAIN x
    <3>1. DOMAIN x = 1 .. Len(x)
      BY <2>3
    <3> QED
      BY <2>5, <3>1 DEF IsBehind
  <2>7. \A i \in DOMAIN name : i \in Int /\ (i = 1 \/ i = 2 \/ i \in 3 .. Len(name))
    <3>1. Len(name) \in Nat
      BY <2>5
    <3> QED
      BY <2>6, <3>1
  <2>8. Range(name) \cap {"?", "#"} = {}
    <3> DEFINE C == {"?", "#"}
    <3>1. g \notin C /\ w \notin C /\ Range(x) \cap C = {}
      BY <1>1, <2>3
    <3> HIDE DEF C
    <3>2. \A i \in DOMAIN name : name[i] \notin C
      <4> TAKE i \in DOMAIN name
      <4>1. CASE i \in 3 .. Len(name)
        <5>1. name[i] = x[i - 2] /\ i - 2 \in DOMAIN x
          BY <2>6, <4>1
        <5>2. name[i] \in Range(x)
          BY <5>1 DEF Range
        <5> QED
          BY <3>1, <5>2
      <4> QED
        BY <2>6, <2>7, <3>1, <4>1
    <3>3. Range(name) \cap C = {}
      BY <3>2 DEF Range
    <3> QED
      BY <3>3 DEF C
  <2>9. ASSUME only PROVE Cardinality(Slashes(name)) <= 2
    <3>1. PICK e : Slashes(x) \subseteq {1, e}
      BY <2>4, <2>9
    <3>2. Slashes(name) \subseteq {3, e + 2}
      <4> SUFFICES ASSUME NEW i \in Slashes(name) PROVE i = 3 \/ i = e + 2
        OBVIOUS
      <4>1. i \in DOMAIN name /\ name[i] = "/"
        BY DEF Slashes
      <4>2. i \in 3 .. Len(name)
        BY <1>1, <2>6, <2>7, <4>1
      <4> DEFINE j == i - 2
      <4>3. j \in Slashes(x)
        BY <2>6, <4>1, <4>2 DEF Slashes
      <4>4. i \in Int /\ j + 2 = i
        BY <2>7, <4>1
      <4> HIDE DEF j
      <4>5. j = 1 \/ j = e
        BY <3>1, <4>3
      <4>6. CASE j = 1
        BY <4>4, <4>6
      <4>7. CASE j = e
        BY <4>4, <4>7
      <4> QED
        BY <4>5, <4>6, <4>7
    <3> QED
      BY <3>2, TwoAtMost
  <2> QED
    BY <2>8, <2>9
<1> HIDE DEF name
<1>6. Slashes(name) = {i \in DOMAIN name : name[i] = "/"}
  BY DEF Slashes
<1>7. s # <<>> /\ Range(s) \cap (Spaces \cup {"*", "{", "<", "["}) = {} =>
        /\ Range(name) \cap {"?", "#"} = {}
        /\ only => Cardinality({i \in DOMAIN name : name[i] = "/"}) <= 2
  BY <1>5, <1>6, <1>10, Zenon
<1> QED
  BY <1>7, Zenon DEF NameIsBare, name, only, g, w

-----------------------------------------------------------------------------
(* A message that is fingerprinted *)

\* Every match goes forward and stays in the text.
GoesForward(s, end) == \A i \in 1 .. Len(s) : end[i] = 0 \/ end[i] \in i + 1 .. Len(s) + 1

\* Where the matches of each pass over a message end.
EmailEnds(s)  == [i \in 1 .. Len(s) |-> EmailAt(s, i)]
QuoteEnds(s, quote, atWordBoundary) == [i \in 1 .. Len(s) |-> QuotedRun(s, i, quote, atWordBoundary)]
HexEnds(s)    == [i \in 1 .. Len(s) |-> HexIdEnd(s, i)]
UuidEnds(s)   == [i \in 1 .. Len(s) |-> UuidEnd(s, i)]
NumberEnds(s) == [i \in 1 .. Len(s) |-> NumberRunEnd(s, i)]

\* s with the piece in the place of each match.
PieceFor(s, end, piece) == Rewriting(s, end, [i \in 1 .. Len(s) |-> piece])[1]

\* The longest match is a match.
LEMMA LongestIsOne ==
  ASSUME NEW n \in Nat, NEW i \in 1 .. n, NEW ends \in SUBSET (i + 1 .. n + 1)
  PROVE  /\ LongestOf(ends) = 0 \/ LongestOf(ends) \in ends
         /\ LongestOf(ends) = 0 <=> ends = {}
<1>1. CASE ends = {}
  BY <1>1 DEF LongestOf
<1>2. CASE ends # {}
  <2>1. ends \in SUBSET Int /\ n + 1 \in Int /\ \A k \in ends : k <= n + 1
    OBVIOUS
  <2>2. Max(ends) \in ends
    BY <1>2, <2>1, MaxOf
  <2>3. Max(ends) # 0
    BY <2>2
  <2> QED
    BY <1>2, <2>2, <2>3 DEF LongestOf
<1> QED
  BY <1>1, <1>2

\* A text in which nothing matches stays as it is.
LEMMA Untouched ==
  ASSUME NEW S, NEW s \in Seq(S), NEW end, NEW piece, \A i \in 1 .. Len(s) : end[i] = 0
  PROVE  PieceFor(s, end, piece) = s
<1> DEFINE p == [i \in 1 .. Len(s) |-> piece]
<1>1. \A i \in 1 .. Len(s) : end[i] = 0 \/ end[i] \in i + 1 .. Len(s) + 1
  OBVIOUS
<1>2. \A i \in 1 .. Len(s) : end[i] # 0 => p[i] \in Seq(S)
  OBVIOUS
<1>3. Rewriting(s, end, p)[Len(s) + 1] = <<>>
  <2> HIDE DEF p
  <2> QED
    BY <1>1, RewritingStep
<1> HIDE DEF p
<1>4. Rewriting(s, end, p)[1] = s
  <2>1. CASE Len(s) = 0
    <3>1. s = <<>>
      BY <2>1, EmptySeq
    <3> QED
      BY <1>3, <2>1, <3>1
  <2>2. CASE Len(s) # 0
    <3>1. Len(s) \in Nat /\ 1 \in 1 .. Len(s) /\ Len(s) + 1 \in 1 .. Len(s) + 1
      BY <2>2
    <3> DEFINE r == Len(s) + 1
    <3>2. r \in 1 .. Len(s) + 1 /\ \A k \in 1 .. r - 1 : end[k] = 0
      BY <3>1
    <3> HIDE DEF r
    <3>3. Rewriting(s, end, p)[1] = Between(s, 1, r) \o Rewriting(s, end, p)[r]
      BY <1>1, <1>2, <3>1, <3>2, CopiedThrough, SMTT(30)
    <3>4. Between(s, 1, Len(s) + 1) = s
      <4>1. (Len(s) + 1) - 1 = Len(s)
        BY <3>1
      <4>2. SubSeq(s, 1, Len(s)) = s
        BY SubSeqFull
      <4> QED
        BY <4>1, <4>2 DEF Between
    <3>5. s \o <<>> = s
      BY ConcatEmptySeq
    <3> QED
      BY <1>3, <3>3, <3>4, <3>5 DEF r
  <2> QED
    BY <2>1, <2>2
<1> QED
  BY <1>4 DEF PieceFor, p

\* Each pass, whose loop is written in its own way, puts one piece in the place of each of its
\* matches: the pass over emails, which copies a whole run where none begins,
LEMMA EmailsAre ==
  ASSUME NEW S, NEW s \in Seq(S)
  PROVE  /\ ReplaceEmails(s) = PieceFor(s, EmailEnds(s), <<"<email>">>)
         /\ GoesForward(s, EmailEnds(s))
<1> DEFINE E == EmailEnds(s)
           L == [i \in 1 .. Len(s) |->
                   LET ends == {j \in i + 1 .. Len(s) + 1 : IsEmail(s, i, j)}
                   IN  IF ends = {} THEN 0 ELSE Max(ends)]
           piece == [i \in 1 .. Len(s) |-> <<"<email>">>]
           Scan(f) == [i \in 1 .. Len(s) + 1 |->
                         IF i > Len(s) THEN <<>>
                         ELSE LET end == L[i]
                              IN  IF end = 0 THEN <<s[i]>> \o f[i + 1] ELSE <<"<email>">> \o f[end]]
           Match(f) == [i \in 1 .. Len(s) + 1 |->
                         IF i > Len(s) THEN <<>>
                         ELSE IF E[i] = 0 THEN <<s[i]>> \o f[i + 1] ELSE piece[i] \o f[E[i]]]
<1>1. \A i \in 1 .. Len(s) : L[i] = E[i] /\ piece[i] = <<"<email>">>
  BY EmailAtIs DEF LongestOf, EmailEnds
<1>2. ASSUME NEW f PROVE Scan(f) = Match(f)
  <2> HIDE DEF E, L, piece
  <2> QED
    BY <1>1
<1>3. (CHOOSE f : f = Scan(f))[1] = (CHOOSE f : f = Match(f))[1]
  <2> HIDE DEF Scan, Match
  <2>1. \A f : f = Scan(f) <=> f = Match(f)
    BY <1>2
  <2> QED
    BY <2>1, Zenon
<1>4. MatchedEmails(s) = (CHOOSE f : f = Scan(f))[1]
  BY DEF MatchedEmails, ReplaceLongest, Replace, Longest
<1>5. Rewriting(s, E, piece) = CHOOSE f : f = Match(f)
  BY DEF Rewriting, IsRewriting
<1>6. ReplaceEmails(s) = MatchedEmails(s)
  BY EmailsAgree
<1>7. ASSUME NEW i \in 1 .. Len(s) PROVE E[i] = 0 \/ E[i] \in i + 1 .. Len(s) + 1
  <2> DEFINE ends == {j \in i + 1 .. Len(s) + 1 : IsEmail(s, i, j)}
  <2>1. E[i] = LongestOf(ends)
    BY EmailAtIs DEF EmailEnds
  <2>2. ends \in SUBSET (i + 1 .. Len(s) + 1) /\ Len(s) \in Nat
    OBVIOUS
  <2> HIDE DEF ends, E
  <2> QED
    BY <2>1, <2>2, LongestEnds
<1> HIDE DEF E, Scan, Match
<1>8. GoesForward(s, E)
  BY <1>7 DEF GoesForward
<1>9. ReplaceEmails(s) = PieceFor(s, E, <<"<email>">>)
  BY <1>3, <1>4, <1>5, <1>6 DEF PieceFor
<1> QED
  BY <1>8, <1>9 DEF E

\* ... the two over quoted runs,
LEMMA QuotesAre ==
  ASSUME NEW S, NEW s \in Seq(S), NEW quote, quote # NoByte, NEW atWordBoundary \in BOOLEAN
  PROVE  /\ ReplaceQuoted(s, quote, atWordBoundary)
              = PieceFor(s, QuoteEnds(s, quote, atWordBoundary), <<"<str>">>)
         /\ GoesForward(s, QuoteEnds(s, quote, atWordBoundary))
<1> DEFINE E == QuoteEnds(s, quote, atWordBoundary)
           piece == [i \in 1 .. Len(s) |-> <<"<str>">>]
           Scan(f) == [i \in 1 .. Len(s) + 1 |->
                         IF i > Len(s) THEN <<>>
                         ELSE LET end == QuotedRun(s, i, quote, atWordBoundary)
                              IN  IF end = 0 THEN <<s[i]>> \o f[i + 1] ELSE <<"<str>">> \o f[end]]
           Match(f) == [i \in 1 .. Len(s) + 1 |->
                         IF i > Len(s) THEN <<>>
                         ELSE IF E[i] = 0 THEN <<s[i]>> \o f[i + 1] ELSE piece[i] \o f[E[i]]]
<1>1. \A i \in 1 .. Len(s) : QuotedRun(s, i, quote, atWordBoundary) = E[i] /\ piece[i] = <<"<str>">>
  BY DEF QuoteEnds
<1>2. ASSUME NEW f PROVE Scan(f) = Match(f)
  <2> HIDE DEF E, piece
  <2> QED
    BY <1>1, SMTT(30)
<1>3. (CHOOSE f : f = Scan(f))[1] = (CHOOSE f : f = Match(f))[1]
  <2> HIDE DEF Scan, Match
  <2>1. \A f : f = Scan(f) <=> f = Match(f)
    BY <1>2
  <2> QED
    BY <2>1, Zenon
<1>4. ReplaceQuoted(s, quote, atWordBoundary) = (CHOOSE f : f = Scan(f))[1]
  BY DEF ReplaceQuoted, Replace
<1>5. Rewriting(s, E, piece) = CHOOSE f : f = Match(f)
  BY DEF Rewriting, IsRewriting
<1>6. ASSUME NEW i \in 1 .. Len(s) PROVE E[i] = 0 \/ E[i] \in i + 1 .. Len(s) + 1
  <2> DEFINE ends == {j \in i + 1 .. Len(s) + 1 : IsQuoted(s, i, j, quote, atWordBoundary)}
  <2>1. E[i] = LongestOf(ends)
    BY <1>1, QuotedRunIs
  <2>2. ends \in SUBSET (i + 1 .. Len(s) + 1) /\ Len(s) \in Nat
    OBVIOUS
  <2> HIDE DEF ends, E
  <2> QED
    BY <2>1, <2>2, LongestEnds
<1> HIDE DEF E, Scan, Match
<1>7. GoesForward(s, E)
  BY <1>6 DEF GoesForward
<1>8. ReplaceQuoted(s, quote, atWordBoundary) = PieceFor(s, E, <<"<str>">>)
  BY <1>3, <1>4, <1>5 DEF PieceFor
<1> QED
  BY <1>7, <1>8 DEF E

\* ... the one over hex ids, which leaves 0x,
LEMMA HexIdsAre ==
  ASSUME NEW S, NEW s \in Seq(S)
  PROVE  /\ ReplaceHexIds(s) = PieceFor(s, HexEnds(s), <<"0", "x">>)
         /\ GoesForward(s, HexEnds(s))
<1> DEFINE E == HexEnds(s)
           piece == [i \in 1 .. Len(s) |-> <<"0", "x">>]
           Scan(f) == [i \in 1 .. Len(s) + 1 |->
                         IF i > Len(s) THEN <<>>
                         ELSE LET end == HexIdEnd(s, i)
                              IN  IF end = 0 THEN <<s[i]>> \o f[i + 1] ELSE <<"0", "x">> \o f[end]]
           Match(f) == [i \in 1 .. Len(s) + 1 |->
                         IF i > Len(s) THEN <<>>
                         ELSE IF E[i] = 0 THEN <<s[i]>> \o f[i + 1] ELSE piece[i] \o f[E[i]]]
<1>1. \A i \in 1 .. Len(s) : HexIdEnd(s, i) = E[i] /\ piece[i] = <<"0", "x">>
  BY DEF HexEnds
<1>2. ASSUME NEW f PROVE Scan(f) = Match(f)
  <2> HIDE DEF E, piece
  <2> QED
    BY <1>1, SMTT(30)
<1>3. (CHOOSE f : f = Scan(f))[1] = (CHOOSE f : f = Match(f))[1]
  <2> HIDE DEF Scan, Match
  <2>1. \A f : f = Scan(f) <=> f = Match(f)
    BY <1>2
  <2> QED
    BY <2>1, Zenon
<1>4. ReplaceHexIds(s) = (CHOOSE f : f = Scan(f))[1]
  BY DEF ReplaceHexIds, Replace
<1>5. Rewriting(s, E, piece) = CHOOSE f : f = Match(f)
  BY DEF Rewriting, IsRewriting
<1>6. ASSUME NEW i \in 1 .. Len(s) PROVE E[i] = 0 \/ E[i] \in i + 1 .. Len(s) + 1
  <2> DEFINE ends == {j \in i + 1 .. Len(s) + 1 : IsHexId(s, i, j)}
  <2>1. E[i] = LongestOf(ends)
    BY <1>1, HexIdEndIs DEF LongestOf
  <2>2. ends \in SUBSET (i + 1 .. Len(s) + 1) /\ Len(s) \in Nat
    OBVIOUS
  <2> HIDE DEF ends, E
  <2> QED
    BY <2>1, <2>2, LongestEnds
<1> HIDE DEF E, Scan, Match
<1>7. GoesForward(s, E)
  BY <1>6 DEF GoesForward
<1>8. ReplaceHexIds(s) = PieceFor(s, E, <<"0", "x">>)
  BY <1>3, <1>4, <1>5 DEF PieceFor
<1> QED
  BY <1>7, <1>8 DEF E

\* ... the one over uuids
LEMMA UuidsAre ==
  ASSUME NEW S, NEW s \in Seq(S)
  PROVE  /\ ReplaceUuids(s) = PieceFor(s, UuidEnds(s), <<"<uuid>">>)
         /\ GoesForward(s, UuidEnds(s))
<1> DEFINE E == UuidEnds(s)
           piece == [i \in 1 .. Len(s) |-> <<"<uuid>">>]
           Scan(f) == [i \in 1 .. Len(s) + 1 |->
                         IF i > Len(s) THEN <<>>
                         ELSE LET end == UuidEnd(s, i)
                              IN  IF end = 0 THEN <<s[i]>> \o f[i + 1] ELSE <<"<uuid>">> \o f[end]]
           Match(f) == [i \in 1 .. Len(s) + 1 |->
                         IF i > Len(s) THEN <<>>
                         ELSE IF E[i] = 0 THEN <<s[i]>> \o f[i + 1] ELSE piece[i] \o f[E[i]]]
<1>1. \A i \in 1 .. Len(s) : UuidEnd(s, i) = E[i] /\ piece[i] = <<"<uuid>">>
  BY DEF UuidEnds
<1>2. ASSUME NEW f PROVE Scan(f) = Match(f)
  <2> HIDE DEF E, piece
  <2> QED
    BY <1>1
<1>3. (CHOOSE f : f = Scan(f))[1] = (CHOOSE f : f = Match(f))[1]
  <2> HIDE DEF Scan, Match
  <2>1. \A f : f = Scan(f) <=> f = Match(f)
    BY <1>2
  <2> QED
    BY <2>1, Zenon
<1>4. ReplaceUuids(s) = (CHOOSE f : f = Scan(f))[1]
  BY DEF ReplaceUuids, Replace
<1>5. Rewriting(s, E, piece) = CHOOSE f : f = Match(f)
  BY DEF Rewriting, IsRewriting
<1>6. ASSUME NEW i \in 1 .. Len(s) PROVE E[i] = 0 \/ E[i] \in i + 1 .. Len(s) + 1
  <2> DEFINE ends == {j \in i + 1 .. Len(s) + 1 : IsUuid(s, i, j)}
  <2>1. E[i] = LongestOf(ends)
    BY <1>1, UuidEndIs
  <2>2. ends \in SUBSET (i + 1 .. Len(s) + 1) /\ Len(s) \in Nat
    OBVIOUS
  <2> HIDE DEF ends, E
  <2> QED
    BY <2>1, <2>2, LongestEnds
<1> HIDE DEF E, Scan, Match
<1>7. GoesForward(s, E)
  BY <1>6 DEF GoesForward
<1>8. ReplaceUuids(s) = PieceFor(s, E, <<"<uuid>">>)
  BY <1>3, <1>4, <1>5 DEF PieceFor
<1> QED
  BY <1>7, <1>8 DEF E

\* ... and the one over numbers, which copies a run of digits at once.
LEMMA NumbersAre ==
  ASSUME NEW S, NEW s \in Seq(S)
  PROVE  /\ ReplaceNumbers(s) = PieceFor(s, NumberEnds(s), <<"<n>">>)
         /\ GoesForward(s, NumberEnds(s))
<1> DEFINE E == NumberEnds(s)
           piece == [i \in 1 .. Len(s) |-> <<"<n>">>]
           Scan(f) == [i \in 1 .. Len(s) + 1 |->
                         IF i > Len(s) THEN <<>>
                         ELSE LET end == NumberRunEnd(s, i)
                              IN  IF end = 0 THEN <<s[i]>> \o f[i + 1] ELSE <<"<n>">> \o f[end]]
           Match(f) == [i \in 1 .. Len(s) + 1 |->
                         IF i > Len(s) THEN <<>>
                         ELSE IF E[i] = 0 THEN <<s[i]>> \o f[i + 1] ELSE piece[i] \o f[E[i]]]
<1>1. \A i \in 1 .. Len(s) : NumberRunEnd(s, i) = E[i] /\ piece[i] = <<"<n>">>
  BY DEF NumberEnds
<1>2. ASSUME NEW f PROVE Scan(f) = Match(f)
  <2> HIDE DEF E, piece
  <2> QED
    BY <1>1
<1>3. (CHOOSE f : f = Scan(f))[1] = (CHOOSE f : f = Match(f))[1]
  <2> HIDE DEF Scan, Match
  <2>1. \A f : f = Scan(f) <=> f = Match(f)
    BY <1>2
  <2> QED
    BY <2>1, Zenon
<1>4. ReplaceNumbers(s) = (CHOOSE f : f = Scan(f))[1]
  BY DEF ReplaceNumbers, Replace
<1>5. Rewriting(s, E, piece) = CHOOSE f : f = Match(f)
  BY DEF Rewriting, IsRewriting
<1>6. ASSUME NEW i \in 1 .. Len(s) PROVE E[i] = 0 \/ E[i] \in i + 1 .. Len(s) + 1
  <2> DEFINE ends == {j \in i + 1 .. Len(s) + 1 : IsWholeNumber(s, i, j)}
  <2>1. E[i] = LongestOf(ends)
    BY <1>1, NumberRunEndIs
  <2>2. ends \in SUBSET (i + 1 .. Len(s) + 1) /\ Len(s) \in Nat
    OBVIOUS
  <2> HIDE DEF ends, E
  <2> QED
    BY <2>1, <2>2, LongestEnds
<1> HIDE DEF E, Scan, Match
<1>7. GoesForward(s, E)
  BY <1>6 DEF GoesForward
<1>8. ReplaceNumbers(s) = PieceFor(s, E, <<"<n>">>)
  BY <1>3, <1>4, <1>5 DEF PieceFor
<1> QED
  BY <1>7, <1>8 DEF E

\* out is read off s from left to right: place[k] is where its k-th byte stands for.
Follows(s, out, place) ==
  /\ place \in [1 .. Len(out) + 1 -> 1 .. Len(s) + 1]
  /\ place[1] = 1 /\ place[Len(out) + 1] = Len(s) + 1
  /\ \A k \in 1 .. Len(out) : place[k] \in 1 .. Len(s) /\ place[k] < place[k + 1]

\* Bytes of out stood at least as far apart in s.
LEMMA PlacesGrow ==
  ASSUME NEW S, NEW s \in Seq(S), NEW T, NEW out \in Seq(T), NEW place, Follows(s, out, place),
         NEW i \in 1 .. Len(out) + 1, NEW d \in Nat, i + d <= Len(out) + 1
  PROVE  place[i] + d <= place[i + d]
<1> DEFINE n == Len(out)
           P == {x \in 0 .. d : place[i] + x <= place[i + x]}
<1>1. /\ n \in Nat /\ place \in [1 .. n + 1 -> 1 .. Len(s) + 1]
      /\ \A k \in 1 .. n : place[k] < place[k + 1]
  BY DEF Follows
<1> HIDE DEF n
<1>2. 0 \in P
  <2>1. i + 0 = i /\ place[i] \in Nat
    BY <1>1 DEF n
  <2> QED
    BY <2>1
<1>3. ASSUME NEW x \in 1 .. d, x - 1 \in P PROVE x \in P
  <2>1. i + (x - 1) \in 1 .. n /\ (i + (x - 1)) + 1 = i + x /\ i + x \in 1 .. n + 1 /\ i \in 1 .. n + 1
    BY <1>1 DEF n
  <2>2. place[i + (x - 1)] < place[i + x]
    BY <1>1, <2>1
  <2>3. place[i] + (x - 1) <= place[i + (x - 1)]
    BY <1>3
  <2>4. place[i] \in Int /\ place[i + x] \in Int /\ place[i + (x - 1)] \in Int
    BY <1>1, <2>1
  <2> QED
    BY <2>2, <2>3, <2>4
<1>4. \A x \in 0 .. d : x \in P
  <2> HIDE DEF P
  <2> QED
    BY <1>2, <1>3, UpTo
<1> QED
  BY <1>4

\* Every byte of s that is passed on the way belongs to one byte of out.
LEMMA Covered ==
  ASSUME NEW S, NEW s \in Seq(S), NEW T, NEW out \in Seq(T), NEW place, Follows(s, out, place),
         NEW i \in 1 .. Len(out), NEW j \in i .. Len(out),
         NEW f \in Int, place[i] <= f, f < place[j + 1]
  PROVE  \E k \in i .. j : place[k] <= f /\ f < place[k + 1]
<1> DEFINE B == {k \in i .. j : place[k] <= f}
           m == Max(B)
<1>1. i \in B /\ B \in SUBSET Int /\ j \in Int /\ \A k \in B : k <= j
  OBVIOUS
<1>2. m \in B /\ \A k \in B : k <= m
  <2> HIDE DEF B
  <2> QED
    BY <1>1, MaxOf
<1>3. m \in i .. j /\ place[m] <= f
  BY <1>2
<1>4. place[m + 1] \in Int
  <2>1. m + 1 \in 1 .. Len(out) + 1
    BY <1>3
  <2> HIDE DEF m
  <2> QED
    BY <2>1 DEF Follows
<1> HIDE DEF m
<1>5. f < place[m + 1]
  <2>1. CASE m = j
    BY <2>1
  <2>2. CASE m # j
    <3>1. m + 1 \in i .. j /\ m + 1 \notin B
      <4>1. m + 1 \in i .. j /\ ~(m + 1 <= m)
        BY <1>3, <2>2
      <4> HIDE DEF B
      <4> QED
        BY <1>2, <4>1
    <3> QED
      BY <1>4, <3>1
  <2> QED
    BY <2>1, <2>2
<1> QED
  BY <1>3, <1>5

\* What a quoted run may not hold.
LineEnds == {"\r", "\n"}

\* Where no byte that is passed over ends a line, what is on one line of out was on one of s.
LEMMA LinesStay ==
  ASSUME NEW S, NEW s \in Seq(S), NEW T, NEW out \in Seq(T), NEW place, Follows(s, out, place),
         NEW i \in 1 .. Len(out), NEW j \in i .. Len(out), \A k \in i .. j : out[k] \notin LineEnds,
         \A k \in i .. j : out[k] = s[place[k]] \/ s[place[k]] \notin LineEnds,
         \A k \in i .. j : \A f \in place[k] + 1 .. place[k + 1] - 1 : s[f] \notin LineEnds
  PROVE  \A f \in place[i] .. place[j] : s[f] \notin LineEnds
<1>1. /\ \A k \in i .. j : place[k] \in Int /\ place[k + 1] \in Int
      /\ place[j] < place[j + 1]
  <2>1. \A k \in i .. j : k \in 1 .. Len(out) + 1 /\ k + 1 \in 1 .. Len(out) + 1
    OBVIOUS
  <2>2. j \in 1 .. Len(out)
    OBVIOUS
  <2>3. place \in [1 .. Len(out) + 1 -> 1 .. Len(s) + 1]
    BY DEF Follows
  <2>4. \A k \in 1 .. Len(out) : place[k] < place[k + 1]
    BY DEF Follows
  <2>5. \A x \in 1 .. Len(out) + 1 : place[x] \in Int
    BY <2>3
  <2> QED
    BY <2>1, <2>2, <2>4, <2>5
<1>2. ASSUME NEW f \in place[i] .. place[j] PROVE s[f] \notin LineEnds
  <2>1. f \in Int /\ place[i] <= f /\ f < place[j + 1]
    BY <1>1
  <2>2. PICK k \in i .. j : place[k] <= f /\ f < place[k + 1]
    BY <2>1, Covered
  <2>3. f = place[k] \/ f \in place[k] + 1 .. place[k + 1] - 1
    BY <1>1, <2>1, <2>2, SMTT(30)
  <2> QED
    BY <2>3
<1> QED
  BY <1>2

\* Each byte of out is a byte of s, or mark in the place of a match.
IsMarking(s, end, mark, out) ==
  /\ GoesForward(s, end)
  /\ \E place : IsWay(s, end, mark, out, place) /\ place[1] = 1

\* A pass puts marks in the place of its matches,
LEMMA PiecesMark ==
  ASSUME NEW S, NEW s \in Seq(S), NEW end, NEW mark, GoesForward(s, end)
  PROVE  IsMarking(s, end, mark, PieceFor(s, end, <<mark>>))
<1>1. \A i \in 1 .. Len(s) : end[i] = 0 \/ end[i] \in i + 1 .. Len(s) + 1
  BY DEF GoesForward
<1>2. \E place : /\ IsWay(s, end, mark, Rewriting(s, end, [i \in 1 .. Len(s) |-> <<mark>>])[1], place)
                 /\ place[1] = 1
  BY <1>1, WayFrom
<1> QED
  BY <1>2 DEF IsMarking, PieceFor

\* ... and what it leaves follows s.
LEMMA WayFollows ==
  ASSUME NEW S, NEW s \in Seq(S), NEW end, NEW mark, NEW out, NEW place,
         GoesForward(s, end), IsWay(s, end, mark, out, place), place[1] = 1
  PROVE  Follows(s, out, place) /\ out \in Seq({s[i] : i \in 1 .. Len(s)} \cup {mark})
<1>1. /\ out \in Seq({s[i] : i \in 1 .. Len(s)} \cup {mark})
      /\ place \in [1 .. Len(out) + 1 -> 1 .. Len(s) + 1]
      /\ place[Len(out) + 1] = Len(s) + 1
      /\ \A k \in 1 .. Len(out) :
           /\ place[k] \in 1 .. Len(s)
           /\ IF end[place[k]] = 0 THEN out[k] = s[place[k]] /\ place[k + 1] = place[k] + 1
                                   ELSE out[k] = mark /\ place[k + 1] = end[place[k]]
  BY DEF IsWay
<1>2. ASSUME NEW k \in 1 .. Len(out) PROVE place[k] < place[k + 1]
  <2>1. end[place[k]] = 0 \/ end[place[k]] \in place[k] + 1 .. Len(s) + 1
    BY <1>1 DEF GoesForward
  <2> QED
    BY <1>1, <2>1
<1> QED
  BY <1>1, <1>2 DEF Follows

\* The d bytes of out from i on stood in s from p on, where no match began.
StoodAt(s, end, out, i, d, p) ==
  /\ p \in 1 .. Len(s) /\ p + d <= Len(s) + 1 /\ end[p] = 0
  /\ \A x \in 0 .. d - 1 : p + x \in 1 .. Len(s) /\ s[p + x] = out[i + x]

\* A run of bytes that are not the mark was in s, where no match began in it.
LEMMA RunWas ==
  ASSUME NEW S, NEW s \in Seq(S), NEW end, NEW mark, NEW out, IsMarking(s, end, mark, out),
         NEW i \in 1 .. Len(out), NEW d \in Nat \ {0}, i + d <= Len(out) + 1,
         \A x \in 0 .. d - 1 : out[i + x] # mark
  PROVE  \E p \in 1 .. Len(s) : StoodAt(s, end, out, i, d, p)
<1>1. PICK place : IsWay(s, end, mark, out, place) /\ place[1] = 1
  BY DEF IsMarking
<1>2. \A x \in i .. i + d - 1 : out[x] # mark
  <2>1. \A x \in i .. i + d - 1 : x - i \in 0 .. d - 1 /\ i + (x - i) = x
    OBVIOUS
  <2> QED
    BY <2>1
<1>3. Follows(s, out, place)
  BY <1>1, WayFollows DEF IsMarking
<1> DEFINE p == place[i]
<1>4. \A x \in 0 .. d - 1 : /\ p + x \in 1 .. Len(s) /\ end[p + x] = 0
                            /\ out[i + x] = s[p + x]
  <2>1. i \in 1 .. Len(out) + 1 /\ d \in Nat /\ i + d <= Len(out) + 1
    OBVIOUS
  <2>2. IsWay(s, end, mark, out, place)
    BY <1>1
  <2>3. /\ \A x \in 0 .. d : place[i + x] = place[i] + x
        /\ \A x \in 0 .. d - 1 : /\ place[i] + x \in 1 .. Len(s) /\ end[place[i] + x] = 0
                                 /\ out[i + x] = s[place[i] + x]
    BY <1>2, <2>1, <2>2, CopiedRun
  <2> QED
    BY <2>1, <2>3
<1>5. p \in 1 .. Len(s)
  BY <1>3 DEF Follows
<1>6. end[p] = 0 /\ p + d <= Len(s) + 1
  <2>1. 0 \in 0 .. d - 1 /\ d - 1 \in 0 .. d - 1 /\ p + 0 = p
    BY <1>5
  <2> HIDE DEF p
  <2>2. end[p] = 0
    BY <1>4, <2>1
  <2>3. p + (d - 1) \in 1 .. Len(s)
    BY <1>4, <2>1
  <2> QED
    BY <1>5, <2>2, <2>3
<1> HIDE DEF p
<1> QED
  BY <1>4, <1>5, <1>6 DEF StoodAt

\* Where matches end and begin at the edges of words, so does what is between them.
LEMMA WordsWere ==
  ASSUME NEW S, NEW s \in Seq(S), NEW end, NEW mark, NEW out, IsMarking(s, end, mark, out),
         \A x \in 1 .. Len(s) : end[x] # 0 => At(s, x - 1) \notin Words /\ At(s, end[x]) \notin Words,
         NEW i \in 1 .. Len(out), NEW d \in Nat \ {0}, i + d <= Len(out) + 1,
         \A x \in 0 .. d - 1 : out[i + x] # mark,
         out[i] \in Words, out[i + (d - 1)] \in Words,
         At(out, i - 1) \notin Words, At(out, i + d) \notin Words
  PROVE  \E p \in 1 .. Len(s) :
           /\ StoodAt(s, end, out, i, d, p)
           /\ At(s, p - 1) \notin Words /\ At(s, p + d) \notin Words
<1>1. PICK place : IsWay(s, end, mark, out, place) /\ place[1] = 1
  BY DEF IsMarking
<1>2. \A x \in i .. i + d - 1 : out[x] # mark
  <2>1. \A x \in i .. i + d - 1 : x - i \in 0 .. d - 1 /\ i + (x - i) = x
    OBVIOUS
  <2> QED
    BY <2>1
<1>3. /\ Follows(s, out, place)
      /\ \A k \in 1 .. Len(out) :
           IF end[place[k]] = 0 THEN out[k] = s[place[k]] /\ place[k + 1] = place[k] + 1
                                ELSE out[k] = mark /\ place[k + 1] = end[place[k]]
      /\ out \in Seq({s[x] : x \in 1 .. Len(s)} \cup {mark})
  <2>1. GoesForward(s, end) /\ IsWay(s, end, mark, out, place) /\ place[1] = 1
    BY <1>1 DEF IsMarking
  <2>2. Follows(s, out, place)
    BY <2>1, WayFollows
  <2>4. \A k \in 1 .. Len(out) :
             IF end[place[k]] = 0 THEN out[k] = s[place[k]] /\ place[k + 1] = place[k] + 1
                                  ELSE out[k] = mark /\ place[k + 1] = end[place[k]]
    BY <2>1 DEF IsWay
  <2>3. out \in Seq({s[x] : x \in 1 .. Len(s)} \cup {mark})
    BY <2>1 DEF IsWay
  <2> QED
    BY <2>2, <2>3, <2>4
<1>4. /\ \A x \in 1 .. Len(out) : place[x] \in 1 .. Len(s)
      /\ \A x \in 1 .. Len(out) + 1 : place[x] \in 1 .. Len(s) + 1
      /\ place[1] = 1 /\ place[Len(out) + 1] = Len(s) + 1 /\ Len(out) \in Nat
  BY <1>3, SMTT(30) DEF Follows
<1> DEFINE p == place[i]
<1>5. /\ \A x \in 0 .. d - 1 : /\ p + x \in 1 .. Len(s) /\ end[p + x] = 0
                               /\ out[i + x] = s[p + x]
      /\ place[i + d] = p + d
  <2>1. i \in 1 .. Len(out) + 1 /\ d \in Nat /\ i + d <= Len(out) + 1
    OBVIOUS
  <2>2. IsWay(s, end, mark, out, place)
    BY <1>1
  <2>3. /\ \A x \in 0 .. d : place[i + x] = place[i] + x
        /\ \A x \in 0 .. d - 1 : /\ place[i] + x \in 1 .. Len(s) /\ end[place[i] + x] = 0
                                 /\ out[i + x] = s[place[i] + x]
    BY <1>2, <2>1, <2>2, CopiedRun
  <2>4. d \in 0 .. d
    BY <2>1
  <2> QED
    BY <2>3, <2>4
<1>6. p \in 1 .. Len(s)
  BY <1>4
<1> HIDE DEF p
<1>7. 0 \in 0 .. d - 1 /\ d - 1 \in 0 .. d - 1 /\ p + 0 = p /\ i + 0 = i
  BY <1>6
<1>8. end[p] = 0 /\ s[p] \in Words /\ s[p + (d - 1)] \in Words /\ p + (d - 1) \in 1 .. Len(s)
  BY <1>5, <1>7
<1>9. At(s, p - 1) \notin Words
  <2>1. CASE i = 1
    <3>1. p - 1 = 0
      BY <1>4, <2>1 DEF p
    <3>2. NoByte \notin Words
      BY NotWords
    <3> QED
      BY <3>1, <3>2 DEF At
  <2>2. CASE i # 1
    <3>1. i - 1 \in 1 .. Len(out) /\ (i - 1) + 1 = i
      BY <2>2
    <3> DEFINE q == place[i - 1]
    <3>2. q \in 1 .. Len(s)
      BY <1>4, <3>1
    <3>3. IF end[q] = 0 THEN out[i - 1] = s[q] /\ p = q + 1 ELSE p = end[q]
      BY <1>3, <3>1 DEF p
    <3> HIDE DEF q
    <3>4. CASE end[q] = 0
      <4>1. p - 1 = q /\ At(s, q) = s[q] /\ At(out, i - 1) = out[i - 1]
        BY <1>3, <3>1, <3>2, <3>3, <3>4, AtIs
      <4> QED
        BY <3>3, <3>4, <4>1
    <3>5. CASE end[q] # 0
      <4>1. At(s, p) \notin Words
        BY <3>2, <3>3, <3>5
      <4>2. At(s, p) = s[p]
        BY <1>6, AtIs
      <4> QED
        BY <1>8, <4>1, <4>2
    <3> QED
      BY <3>4, <3>5
  <2> QED
    BY <2>1, <2>2
<1>10. At(s, p + d) \notin Words
  <2>1. CASE i + d = Len(out) + 1
    <3>1. p + d = Len(s) + 1
      BY <1>4, <1>5, <2>1
    <3>2. NoByte \notin Words /\ Len(s) + 1 \notin DOMAIN s
      BY NotWords
    <3> QED
      BY <3>1, <3>2 DEF At
  <2>2. CASE i + d # Len(out) + 1
    <3>1. i + d \in 1 .. Len(out)
      <4>1. Len(out) \in Nat
        BY <1>4
      <4> QED
        BY <2>2, <4>1
    <3>2. p + d \in 1 .. Len(s)
      BY <1>4, <1>5, <3>1
    <3>3. IF end[p + d] = 0 THEN out[i + d] = s[p + d] ELSE out[i + d] = mark
      BY <1>3, <1>5, <3>1
    <3>4. CASE end[p + d] = 0
      <4>1. At(s, p + d) = s[p + d] /\ At(out, i + d) = out[i + d]
        BY <1>3, <3>1, <3>2, AtIs
      <4> QED
        BY <3>3, <3>4, <4>1
    <3>5. CASE end[p + d] # 0
      <4>1. At(s, (p + d) - 1) \notin Words
        BY <3>2, <3>5
      <4>2. (p + d) - 1 = p + (d - 1)
        BY <1>6
      <4>3. At(s, p + (d - 1)) = s[p + (d - 1)]
        BY <1>8, AtIs
      <4> QED
        BY <1>8, <4>1, <4>2, <4>3
    <3> QED
      BY <3>4, <3>5
  <2> QED
    BY <2>1, <2>2
<1>11. p + d <= Len(s) + 1
  BY <1>6, <1>8
<1> QED
  BY <1>5, <1>6, <1>8, <1>9, <1>10, <1>11 DEF StoodAt

NoEmailIn(s)  == \A i \in 1 .. Len(s) : \A j \in i + 1 .. Len(s) + 1 : ~IsEmail(s, i, j)
NoHexIdIn(s)  == \A i \in 1 .. Len(s) : \A j \in i + 1 .. Len(s) + 1 : ~IsHexId(s, i, j)
NoUuidIn(s)   == \A i \in 1 .. Len(s) : UuidEnd(s, i) = 0
NoNumberIn(s) == \A i \in 1 .. Len(s) : NumberRunEnd(s, i) = 0

\* The bytes that an email holds, and the marks of the passes.
EmailBytes == LocalPart \cup Domain \cup {"@"}

PassMarks == {"<email>", "<str>", "<uuid>", "<n>"}

\* The marks are no bytes that a pass looks for.
LEMMA MarksApart ==
  \A c \in PassMarks : c \notin Words /\ c \notin EmailBytes /\ c # "-"
<1> SUFFICES ASSUME NEW c \in PassMarks PROVE c \notin Words /\ c \notin EmailBytes /\ c # "-"
  OBVIOUS
<1>1. c \notin Alphanumerics
  BY Zenon DEF PassMarks, Alphanumerics
<1>2. c \notin Letters /\ c \notin Digits
  BY <1>1, AlphanumericsAre
<1>3. c # "_" /\ c # "." /\ c # "%" /\ c # "+" /\ c # "-" /\ c # "@"
  BY Zenon DEF PassMarks
<1>4. c \notin Words
  BY <1>2, <1>3, Zenon DEF Words
<1>5. c \notin LocalPart /\ c \notin Domain
  BY <1>2, <1>3, Zenon DEF LocalPart, Domain
<1> QED
  BY <1>3, <1>4, <1>5, Zenon DEF EmailBytes

\* An email is one wherever its bytes stand.
LEMMA EmailMoves ==
  ASSUME NEW t, NEW s, NEW i \in Int, NEW p \in Int, NEW d \in Int, IsEmail(t, i, i + d),
         \A x \in 0 .. d - 1 : At(s, p + x) = At(t, i + x)
  PROVE  /\ IsEmail(s, p, p + d)
         /\ \A x \in 0 .. d - 1 : At(t, i + x) \in EmailBytes
<1>1. PICK at \in i + 1 .. (i + d) - 1, dot \in i + 1 .. (i + d) - 1 :
        /\ at + 1 < dot /\ dot + MinTld < i + d
        /\ All(t, i, at, LocalPart) /\ At(t, at) = "@"
        /\ All(t, at + 1, dot, Domain) /\ At(t, dot) = "." /\ All(t, dot + 1, i + d, Letters)
  BY DEF IsEmail
<1>2. at \in Int /\ dot \in Int /\ MinTld \in Nat
  BY <1>1, StrictAssumption
<1>3. /\ \A k \in i .. at - 1 : At(t, k) \in LocalPart
      /\ \A k \in at + 1 .. dot - 1 : At(t, k) \in Domain
      /\ \A k \in dot + 1 .. (i + d) - 1 : At(t, k) \in Letters
  BY <1>1 DEF All
<1> DEFINE a == at - i + p
           b == dot - i + p
<1>4. \A k \in i .. (i + d) - 1 : At(s, k - i + p) = At(t, k)
  <2>1. ASSUME NEW k \in i .. (i + d) - 1 PROVE At(s, k - i + p) = At(t, k)
    <3>1. k - i \in 0 .. d - 1 /\ i + (k - i) = k /\ p + (k - i) = k - i + p
      OBVIOUS
    <3>2. At(s, p + (k - i)) = At(t, i + (k - i))
      BY <3>1
    <3> QED
      BY <3>1, <3>2
  <2> QED
    BY <2>1
<1>5. \A k \in p .. a - 1 : At(s, k) \in LocalPart
  <2>1. ASSUME NEW k \in p .. a - 1 PROVE At(s, k) \in LocalPart
    <3>1. k - p + i \in i .. at - 1 /\ k - p + i \in i .. (i + d) - 1 /\ (k - p + i) - i + p = k
      BY <1>1, <1>2
    <3> QED
      BY <1>3, <1>4, <3>1
  <2> QED
    BY <2>1
<1>6. \A k \in a + 1 .. b - 1 : At(s, k) \in Domain
  <2>1. ASSUME NEW k \in a + 1 .. b - 1 PROVE At(s, k) \in Domain
    <3>1. k - p + i \in at + 1 .. dot - 1 /\ k - p + i \in i .. (i + d) - 1 /\ (k - p + i) - i + p = k
      BY <1>1, <1>2
    <3> QED
      BY <1>3, <1>4, <3>1
  <2> QED
    BY <2>1
<1>7. \A k \in b + 1 .. (p + d) - 1 : At(s, k) \in Letters
  <2>1. ASSUME NEW k \in b + 1 .. (p + d) - 1 PROVE At(s, k) \in Letters
    <3>1. k - p + i \in dot + 1 .. (i + d) - 1 /\ k - p + i \in i .. (i + d) - 1 /\ (k - p + i) - i + p = k
      BY <1>1, <1>2
    <3> QED
      BY <1>3, <1>4, <3>1
  <2> QED
    BY <2>1
<1>8. At(s, a) = "@" /\ At(s, b) = "."
  <2>1. at \in i .. (i + d) - 1 /\ dot \in i .. (i + d) - 1
    BY <1>1
  <2> QED
    BY <1>1, <1>4, <2>1
<1>9. a \in p + 1 .. (p + d) - 1 /\ b \in p + 1 .. (p + d) - 1 /\ a + 1 < b /\ b + MinTld < p + d
  BY <1>1, <1>2
<1>10. \A k \in i .. (i + d) - 1 : At(t, k) \in EmailBytes
  <2>1. ASSUME NEW k \in i .. (i + d) - 1 PROVE At(t, k) \in EmailBytes
    <3>1. k \in i .. at - 1 \/ k = at \/ k \in at + 1 .. dot - 1 \/ k = dot \/ k \in dot + 1 .. (i + d) - 1
      BY <1>2
    <3>2. At(t, k) \in LocalPart \/ At(t, k) = "@" \/ At(t, k) \in Domain \/ At(t, k) = "." \/ At(t, k) \in Letters
      BY <1>1, <1>3, <3>1
    <3> QED
      BY <3>2, LocalParts, Zenon DEF EmailBytes
  <2> QED
    BY <2>1
<1>11. \A x \in 0 .. d - 1 : At(t, i + x) \in EmailBytes
  <2>1. \A x \in 0 .. d - 1 : i + x \in i .. (i + d) - 1
    OBVIOUS
  <2> QED
    BY <1>10, <2>1
<1> HIDE DEF a, b
<1>12. IsEmail(s, p, p + d)
  <2>1. All(s, p, a, LocalPart) /\ All(s, a + 1, b, Domain) /\ All(s, b + 1, p + d, Letters)
    BY <1>5, <1>6, <1>7 DEF All
  <2> QED
    BY <1>8, <1>9, <2>1 DEF IsEmail
<1> QED
  BY <1>11, <1>12

\* An email that is there after a pass was there before it, and began in no match.
LEMMA EmailWas ==
  ASSUME NEW S, NEW s \in Seq(S), NEW end, NEW mark \in PassMarks, NEW T, NEW out \in Seq(T),
         IsMarking(s, end, mark, out),
         NEW i \in 1 .. Len(out), NEW j \in i + 1 .. Len(out) + 1, IsEmail(out, i, j)
  PROVE  \E p \in 1 .. Len(s) : end[p] = 0 /\ \E e \in p + 1 .. Len(s) + 1 : IsEmail(s, p, e)
<1> DEFINE d == j - i
<1>1. d \in Nat \ {0} /\ i + d = j /\ i + d <= Len(out) + 1
  OBVIOUS
<1> HIDE DEF d
<1>2. \A x \in 0 .. d - 1 : At(out, i + x) \in EmailBytes
  <2>1. i \in Int /\ d \in Int /\ IsEmail(out, i, i + d) /\ \A x \in 0 .. d - 1 : At(out, i + x) = At(out, i + x)
    BY <1>1
  <2> QED
    BY <2>1, EmailMoves
<1>3. \A x \in 0 .. d - 1 : At(out, i + x) = out[i + x]
  <2>1. \A x \in 0 .. d - 1 : i + x \in 1 .. Len(out)
    BY <1>1
  <2> QED
    BY <2>1, AtIs
<1>4. \A x \in 0 .. d - 1 : out[i + x] # mark
  BY <1>2, <1>3, MarksApart
<1>5. PICK p \in 1 .. Len(s) : StoodAt(s, end, out, i, d, p)
  BY <1>1, <1>4, RunWas
<1>6. \A x \in 0 .. d - 1 : At(s, p + x) = At(out, i + x)
  BY <1>3, <1>5, AtIs DEF StoodAt
<1>7. IsEmail(s, p, p + d)
  <2>1. i \in Int /\ p \in Int /\ d \in Int /\ IsEmail(out, i, i + d)
    BY <1>1
  <2> QED
    BY <1>6, <2>1, EmailMoves
<1>8. p + d \in p + 1 .. Len(s) + 1
  BY <1>1, <1>5 DEF StoodAt
<1> QED
  BY <1>5, <1>7, <1>8 DEF StoodAt

LEMMA HexIdBytes == "0" \in Words /\ "x" \in Words /\ "x" \notin Hexes
<1>1. "0" \in Digits /\ "x" \in Letters
  BY DEF Digits, DigitOrder, Letters, Lowers, LowerOrder, Range
<1>2. "x" \notin Hexes
  <2>1. "x" \notin Digits
    BY ExponentBytes
  <2> QED
    BY <2>1 DEF Hexes
<1> QED
  BY <1>1, <1>2, ClassesNest

\* A hex id that is there after a pass was there before it, and began in no match.
LEMMA HexIdWas ==
  ASSUME NEW S, NEW s \in Seq(S), NEW end, NEW mark \in PassMarks, NEW T, NEW out \in Seq(T),
         IsMarking(s, end, mark, out),
         NEW i \in 1 .. Len(out), NEW j \in i + 1 .. Len(out) + 1, IsHexId(out, i, j)
  PROVE  \E p \in 1 .. Len(s) : end[p] = 0 /\ \E e \in p + 1 .. Len(s) + 1 : IsHexId(s, p, e)
<1> DEFINE d == j - i
<1>0. HexIdDigits \in Nat
  BY StrictAssumption
<1>1. d \in Nat \ {0} /\ i + d = j /\ i + d <= Len(out) + 1
  OBVIOUS
<1> HIDE DEF d
<1>2. /\ out[i] = "0" /\ At(out, i + 1) = "x" /\ d >= 2 + HexIdDigits
      /\ \A k \in i + 2 .. j - 1 : At(out, k) \in Hexes
  BY <1>1 DEF IsHexId, All, d
<1>3. \A x \in 0 .. d - 1 : i + x \in 1 .. Len(out) /\ At(out, i + x) = out[i + x]
  <2>1. \A x \in 0 .. d - 1 : i + x \in 1 .. Len(out)
    BY <1>1
  <2> QED
    BY <2>1, AtIs
<1>4. \A x \in 0 .. d - 1 : out[i + x] # mark
  <2>1. ASSUME NEW x \in 0 .. d - 1 PROVE out[i + x] \in Words
    <3>1. x = 0 \/ x = 1 \/ i + x \in i + 2 .. j - 1
      BY <1>1
    <3>2. CASE x = 0
      BY <1>2, <3>2, HexIdBytes
    <3>3. CASE x = 1
      BY <1>2, <1>3, <3>3, HexIdBytes
    <3>4. CASE i + x \in i + 2 .. j - 1
      BY <1>2, <1>3, <3>4, ClassesNest
    <3> QED
      BY <3>1, <3>2, <3>3, <3>4
  <2> QED
    BY <2>1, MarksApart
<1>5. PICK p \in 1 .. Len(s) : StoodAt(s, end, out, i, d, p)
  BY <1>1, <1>4, RunWas
<1>6. \A x \in 0 .. d - 1 : s[p + x] = out[i + x] /\ At(s, p + x) = out[i + x]
  BY <1>5, AtIs DEF StoodAt
<1>7. IsHexId(s, p, p + d)
  <2>1. 0 \in 0 .. d - 1 /\ 1 \in 0 .. d - 1 /\ p + 0 = p /\ i + 0 = i
    BY <1>0, <1>1, <1>2
  <2>2. s[p] = "0" /\ At(s, p + 1) = "x"
    BY <1>2, <1>3, <1>6, <2>1
  <2>3. ASSUME NEW k \in p + 2 .. (p + d) - 1 PROVE At(s, k) \in Hexes
    <3>1. k - p \in 0 .. d - 1 /\ p + (k - p) = k /\ i + (k - p) \in i + 2 .. j - 1
      BY <1>1
    <3>2. At(s, k) = At(out, i + (k - p))
      BY <1>3, <1>6, <3>1
    <3> QED
      BY <1>2, <3>1, <3>2
  <2>4. (p + d) - p = d
    BY <1>1
  <2> QED
    BY <1>2, <2>2, <2>3, <2>4 DEF IsHexId, All
<1>8. p + d \in p + 1 .. Len(s) + 1
  BY <1>1, <1>5 DEF StoodAt
<1> QED
  BY <1>5, <1>7, <1>8 DEF StoodAt

\* No match borders on a word byte.
StandsFree(s, end) ==
  \A x \in 1 .. Len(s) : end[x] # 0 => At(s, x - 1) \notin Words /\ At(s, end[x]) \notin Words

\* So it is of uuids and of numbers.
LEMMA UuidsStandFree ==
  ASSUME NEW S, NEW s \in Seq(S)
  PROVE  StandsFree(s, UuidEnds(s))
<1>1. ASSUME NEW x \in 1 .. Len(s), UuidEnd(s, x) # 0
      PROVE  At(s, x - 1) \notin Words /\ At(s, UuidEnd(s, x)) \notin Words
  BY <1>1, Zenon DEF UuidEnd
<1>2. \A x \in 1 .. Len(s) : UuidEnds(s)[x] = UuidEnd(s, x)
  BY DEF UuidEnds
<1> QED
  BY <1>1, <1>2 DEF StandsFree

LEMMA NumbersStandFree ==
  ASSUME NEW S, NEW s \in Seq(S)
  PROVE  StandsFree(s, NumberEnds(s))
<1>1. ASSUME NEW x \in 1 .. Len(s), NumberRunEnd(s, x) # 0
      PROVE  At(s, x - 1) \notin Words /\ At(s, NumberRunEnd(s, x)) \notin Words
  BY <1>1, Zenon DEF NumberRunEnd
<1>2. \A x \in 1 .. Len(s) : NumberEnds(s)[x] = NumberRunEnd(s, x)
  BY DEF NumberEnds
<1> QED
  BY <1>1, <1>2 DEF StandsFree

\* A number that is there after a pass was there before it, and began in no match.
LEMMA NumberWas ==
  ASSUME NEW S, NEW s \in Seq(S), NEW end, NEW mark \in PassMarks, NEW T, NEW out \in Seq(T),
         IsMarking(s, end, mark, out), StandsFree(s, end),
         NEW i \in 1 .. Len(out), NumberRunEnd(out, i) # 0
  PROVE  \E p \in 1 .. Len(s) : end[p] = 0 /\ NumberRunEnd(s, p) # 0
<1> DEFINE j == RunEnd(out, i, Digits)
           d == j - i
<1>0. NoByte \notin Digits
  BY NotBytes
<1>1. out[i] \in Digits /\ At(out, i - 1) \notin Words /\ At(out, j) \notin Words
  BY Zenon DEF NumberRunEnd
<1>2. /\ j \in Nat /\ j >= i /\ At(out, j) \notin Digits
      /\ \A k \in i .. j - 1 : k \in 1 .. Len(out) /\ out[k] \in Digits /\ At(out, k) \in Digits
      /\ j > i => j <= Len(out) + 1
  BY <1>0, RunEndIs
<1> HIDE DEF j
<1>3. j > i
  <2>1. At(out, i) = out[i]
    BY AtIs
  <2> QED
    BY <1>1, <1>2, <2>1
<1>4. d \in Nat \ {0} /\ i + d = j /\ i + d <= Len(out) + 1
  BY <1>2, <1>3
<1> HIDE DEF d
<1>5. \A x \in 0 .. d - 1 : out[i + x] \in Digits
  <2>1. \A x \in 0 .. d - 1 : i + x \in i .. j - 1
    BY <1>4
  <2> QED
    BY <1>2, <2>1
<1>6. \A x \in 0 .. d - 1 : out[i + x] \in Words /\ out[i + x] # mark
  BY <1>5, ClassesNest, MarksApart
<1>7. out[i] \in Words /\ out[i + (d - 1)] \in Words /\ At(out, i + d) \notin Words
  <2>1. d - 1 \in 0 .. d - 1
    BY <1>4
  <2> QED
    BY <1>1, <1>4, <1>6, <2>1, ClassesNest
<1>8. PICK p \in 1 .. Len(s) : /\ StoodAt(s, end, out, i, d, p)
                               /\ At(s, p - 1) \notin Words /\ At(s, p + d) \notin Words
  <2>1. \A x \in 1 .. Len(s) : end[x] # 0 => At(s, x - 1) \notin Words /\ At(s, end[x]) \notin Words
    BY DEF StandsFree
  <2> QED
    BY <1>1, <1>4, <1>6, <1>7, <2>1, WordsWere
<1>9. \A x \in 0 .. d - 1 : p + x \in 1 .. Len(s) /\ s[p + x] \in Digits
  BY <1>5, <1>8 DEF StoodAt
<1>10. RunEnd(s, p, Digits) = p + d
  <2>1. All(s, p, p + d, Digits)
    <3>1. ASSUME NEW k \in p .. (p + d) - 1 PROVE At(s, k) \in Digits
      <4>1. k - p \in 0 .. d - 1 /\ p + (k - p) = k
        BY <1>4
      <4>2. k \in 1 .. Len(s) /\ s[k] \in Digits
        BY <1>9, <4>1
      <4> QED
        BY <4>2, AtIs
    <3> QED
      BY <3>1 DEF All
  <2>2. p \in Nat \ {0} /\ p + d \in Nat /\ p + d >= p
    BY <1>4
  <2>3. At(s, p + d) \notin Digits
    BY <1>8, ClassesNest
  <2> QED
    BY <1>0, <2>1, <2>2, <2>3, RunEndIsThat
<1>11. s[p] \in Digits
  <2>1. 0 \in 0 .. d - 1 /\ p + 0 = p
    BY <1>4
  <2> QED
    BY <1>9, <2>1
<1>12. NumberRunEnd(s, p) = p + d
  BY <1>8, <1>10, <1>11, Zenon DEF NumberRunEnd
<1>13. p + d # 0
  BY <1>4
<1> QED
  BY <1>8, <1>12, <1>13 DEF StoodAt

\* What stands at each offset of a uuid.
UuidByte(s, i, offset) ==
  IF offset \in Dashes THEN At(s, i + offset) = "-" ELSE At(s, i + offset) \in Hexes

LEMMA UuidIs ==
  ASSUME NEW s, NEW i
  PROVE  /\ UuidEnd(s, i) # 0 =>
              /\ At(s, i - 1) \notin Words /\ At(s, i + UuidLength) \notin Words
              /\ \A offset \in 0 .. UuidLength - 1 : UuidByte(s, i, offset)
         /\ At(s, i - 1) \notin Words /\ At(s, i + UuidLength) \notin Words
            /\ (\A offset \in 0 .. UuidLength - 1 : UuidByte(s, i, offset))
              => UuidEnd(s, i) = i + UuidLength
BY Zenon DEF UuidEnd, UuidByte

\* A UUID begins and ends with a hex digit.
LEMMA UuidEdges == UuidLength \in Nat \ {0} /\ 0 \notin Dashes /\ UuidLength - 1 \notin Dashes
<1> DEFINE n == Len(UuidGroups)
<1>1. /\ n \in Nat \ {0} /\ GroupEnd[0] = -1
      /\ \A k \in 0 .. n : GroupEnd[k] \in Int
      /\ \A k \in 1 .. n : /\ UuidGroups[k] \in Nat \ {0}
                           /\ GroupEnd[k] = GroupEnd[k - 1] + 1 + UuidGroups[k]
      /\ \A a, b \in 0 .. n : a < b => GroupEnd[a] < GroupEnd[b]
  BY GroupEndIs
<1>2. UuidLength = GroupEnd[n] /\ Dashes = {GroupEnd[k] : k \in 1 .. n - 1}
  BY DEF UuidLength, Dashes
<1> HIDE DEF n
<1>3. \A k \in 1 .. n : GroupEnd[k] >= 1
  <2>1. ASSUME NEW k \in 1 .. n PROVE GroupEnd[k] >= 1
    <3>1. 1 \in 1 .. n /\ 1 - 1 = 0
      BY <1>1
    <3>2. GroupEnd[1] >= 1
      BY <1>1, <3>1
    <3>3. k = 1 \/ GroupEnd[1] < GroupEnd[k]
      <4>1. k # 1 => 1 \in 0 .. n /\ k \in 0 .. n /\ 1 < k
        BY <1>1
      <4> QED
        BY <1>1, <4>1
    <3>4. k \in 0 .. n /\ 1 \in 0 .. n
      BY <1>1
    <3> QED
      BY <1>1, <3>2, <3>3, <3>4
  <2> QED
    BY <2>1
<1>4. n \in 1 .. n /\ n - 1 \in 0 .. n /\ n \in 0 .. n
  BY <1>1
<1>5. UuidLength \in Nat \ {0}
  BY <1>1, <1>2, <1>3, <1>4
<1>6. 0 \notin Dashes
  <2>1. \A k \in 1 .. n - 1 : GroupEnd[k] >= 1
    BY <1>1, <1>3
  <2> QED
    BY <1>2, <2>1
<1>7. UuidLength - 1 \notin Dashes
  <2>1. ASSUME NEW k \in 1 .. n - 1 PROVE GroupEnd[k] # UuidLength - 1
    <3>1. GroupEnd[n] = GroupEnd[n - 1] + 1 + UuidGroups[n] /\ UuidGroups[n] >= 1
      BY <1>1, <1>4
    <3>2. GroupEnd[k] <= GroupEnd[n - 1]
      <4>1. k = n - 1 \/ (k < n - 1 /\ k \in 0 .. n)
        BY <1>1
      <4>2. GroupEnd[n - 1] \in Int
        BY <1>1, <1>4
      <4> QED
        BY <1>1, <1>4, <4>1, <4>2
    <3>3. k \in 0 .. n
      BY <1>1
    <3>4. GroupEnd[k] \in Int /\ GroupEnd[n - 1] \in Int /\ GroupEnd[n] \in Int
      BY <1>1, <1>4, <3>3
    <3>5. UuidGroups[n] \in Int
      BY <1>1, <1>4
    <3> QED
      BY <1>2, <3>1, <3>2, <3>4, <3>5
  <2> QED
    BY <1>2, <2>1
<1> QED
  BY <1>5, <1>6, <1>7

\* A UUID that is there after a pass was there before it, and began in no match.
LEMMA UuidWas ==
  ASSUME NEW S, NEW s \in Seq(S), NEW end, NEW mark \in PassMarks, NEW T, NEW out \in Seq(T),
         IsMarking(s, end, mark, out), StandsFree(s, end),
         NEW i \in 1 .. Len(out), UuidEnd(out, i) # 0
  PROVE  \E p \in 1 .. Len(s) : end[p] = 0 /\ UuidEnd(s, p) # 0
<1> DEFINE d == UuidLength
<1>1. d \in Nat \ {0} /\ 0 \notin Dashes /\ d - 1 \notin Dashes
  BY UuidEdges
<1>2. /\ At(out, i - 1) \notin Words /\ At(out, i + d) \notin Words
      /\ \A x \in 0 .. d - 1 : UuidByte(out, i, x)
  BY UuidIs
<1> HIDE DEF d
<1>3. ASSUME NEW x \in 0 .. d - 1
      PROVE  At(out, i + x) \in Hexes \cup {"-"} /\ i + x \in 1 .. Len(out) /\ At(out, i + x) = out[i + x]
  <2>1. At(out, i + x) \in Hexes \cup {"-"}
    BY <1>2 DEF UuidByte
  <2>2. NoByte \notin Hexes \cup {"-"}
    <3>1. NoByte \notin Hexes
      BY NotWords, ClassesNest
    <3>2. NoByte # "-"
      BY Zenon DEF NoByte
    <3> QED
      BY <3>1, <3>2, Zenon
  <2>3. i + x \in Int
    OBVIOUS
  <2> QED
    BY <2>1, <2>2, <2>3, AtIn
<1>4. \A x \in 0 .. d - 1 : out[i + x] # mark
  <2>1. \A x \in 0 .. d - 1 : out[i + x] \in Hexes \cup {"-"}
    BY <1>3
  <2>2. mark \notin Hexes \cup {"-"}
    BY MarksApart, ClassesNest
  <2> QED
    BY <2>1, <2>2
<1>5. i + d <= Len(out) + 1 /\ out[i] \in Words /\ out[i + (d - 1)] \in Words
  <2>1. 0 \in 0 .. d - 1 /\ d - 1 \in 0 .. d - 1 /\ i + 0 = i
    BY <1>1
  <2>2. At(out, i + 0) \in Hexes /\ At(out, i + (d - 1)) \in Hexes
    BY <1>1, <1>2, <2>1 DEF UuidByte
  <2>3. i + (d - 1) \in 1 .. Len(out) /\ At(out, i + (d - 1)) = out[i + (d - 1)]
    BY <1>3, <2>1
  <2>4. At(out, i + 0) = out[i]
    BY <1>3, <2>1
  <2>5. i + d <= Len(out) + 1
    BY <1>1, <2>3
  <2> QED
    BY <2>2, <2>3, <2>4, <2>5, ClassesNest
<1>6. PICK p \in 1 .. Len(s) : /\ StoodAt(s, end, out, i, d, p)
                               /\ At(s, p - 1) \notin Words /\ At(s, p + d) \notin Words
  <2>1. \A x \in 1 .. Len(s) : end[x] # 0 => At(s, x - 1) \notin Words /\ At(s, end[x]) \notin Words
    BY DEF StandsFree
  <2> QED
    BY <1>1, <1>2, <1>4, <1>5, <2>1, WordsWere
<1>7. \A x \in 0 .. d - 1 : At(s, p + x) = At(out, i + x)
  <2>1. ASSUME NEW x \in 0 .. d - 1 PROVE At(s, p + x) = At(out, i + x)
    <3>1. p + x \in 1 .. Len(s) /\ s[p + x] = out[i + x]
      BY <1>6 DEF StoodAt
    <3>2. At(s, p + x) = s[p + x]
      BY <3>1, AtIs
    <3> QED
      BY <1>3, <3>1, <3>2
  <2> QED
    BY <2>1
<1>8. UuidEnd(s, p) = p + d
  <2>1. \A x \in 0 .. d - 1 : UuidByte(s, p, x)
    BY <1>2, <1>7 DEF UuidByte
  <2> QED
    BY <1>6, <2>1, UuidIs DEF d
<1>9. p + d # 0
  BY <1>1
<1> QED
  BY <1>6, <1>8, <1>9 DEF StoodAt

\* The pass over emails leaves none: one that is left was in s, and it was replaced there.
LEMMA EmailsGone ==
  ASSUME NEW S, NEW s \in Seq(S)
  PROVE  NoEmailIn(ReplaceEmails(s)) /\ ReplaceEmails(s) \in Seq(S \cup PassMarks)
<1> DEFINE out == ReplaceEmails(s)
           E == EmailEnds(s)
<1>1. IsMarking(s, E, "<email>", out)
  <2>1. GoesForward(s, E) /\ out = PieceFor(s, E, <<"<email>">>)
    BY EmailsAre
  <2> HIDE DEF E, out
  <2> QED
    BY <2>1, PiecesMark
<1> HIDE DEF out
<1>2. out \in Seq(S \cup PassMarks)
  <2>1. out \in Seq({s[i] : i \in 1 .. Len(s)} \cup {"<email>"})
    BY <1>1 DEF IsMarking, IsWay
  <2>2. {s[i] : i \in 1 .. Len(s)} \cup {"<email>"} \subseteq S \cup PassMarks
    BY DEF PassMarks
  <2> QED
    BY <2>1, <2>2
<1>3. ASSUME NEW i \in 1 .. Len(out), NEW j \in i + 1 .. Len(out) + 1, IsEmail(out, i, j) PROVE FALSE
  <2>1. "<email>" \in PassMarks
    BY Zenon DEF PassMarks
  <2>2. PICK p \in 1 .. Len(s) : E[p] = 0 /\ \E e \in p + 1 .. Len(s) + 1 : IsEmail(s, p, e)
    <3> HIDE DEF E
    <3> QED
      BY <1>1, <1>2, <1>3, <2>1, EmailWas
  <2> DEFINE ends == {e \in p + 1 .. Len(s) + 1 : IsEmail(s, p, e)}
  <2>3. E[p] = LongestOf(ends)
    BY EmailAtIs DEF EmailEnds
  <2>4. ends # {} /\ ends \in SUBSET (p + 1 .. Len(s) + 1) /\ Len(s) \in Nat
    BY <2>2
  <2> HIDE DEF ends, E
  <2> QED
    BY <2>2, <2>3, <2>4, LongestIsOne
<1> QED
  BY <1>2, <1>3 DEF NoEmailIn, out

\* Nor do those over numbers and uuids leave one.
LEMMA NumbersGone ==
  ASSUME NEW S, NEW s \in Seq(S)
  PROVE  NoNumberIn(ReplaceNumbers(s))
<1> DEFINE out == ReplaceNumbers(s)
           E == NumberEnds(s)
<1>1. IsMarking(s, E, "<n>", out)
  <2>1. GoesForward(s, E) /\ out = PieceFor(s, E, <<"<n>">>)
    BY NumbersAre
  <2> HIDE DEF E, out
  <2> QED
    BY <2>1, PiecesMark
<1> HIDE DEF out
<1>2. out \in Seq({s[i] : i \in 1 .. Len(s)} \cup {"<n>"})
  BY <1>1 DEF IsMarking, IsWay
<1>3. ASSUME NEW i \in 1 .. Len(out), NumberRunEnd(out, i) # 0 PROVE FALSE
  <2>1. "<n>" \in PassMarks
    BY Zenon DEF PassMarks
  <2>2. StandsFree(s, E)
    BY NumbersStandFree
  <2>3. \A p \in 1 .. Len(s) : E[p] = NumberRunEnd(s, p)
    BY DEF NumberEnds
  <2> HIDE DEF E
  <2>4. PICK p \in 1 .. Len(s) : E[p] = 0 /\ NumberRunEnd(s, p) # 0
    BY <1>1, <1>2, <1>3, <2>1, <2>2, NumberWas
  <2> QED
    BY <2>3, <2>4
<1> QED
  BY <1>3 DEF NoNumberIn, out

LEMMA UuidsGone ==
  ASSUME NEW S, NEW s \in Seq(S)
  PROVE  NoUuidIn(ReplaceUuids(s))
<1> DEFINE out == ReplaceUuids(s)
           E == UuidEnds(s)
<1>1. IsMarking(s, E, "<uuid>", out)
  <2>1. GoesForward(s, E) /\ out = PieceFor(s, E, <<"<uuid>">>)
    BY UuidsAre
  <2> HIDE DEF E, out
  <2> QED
    BY <2>1, PiecesMark
<1> HIDE DEF out
<1>2. out \in Seq({s[i] : i \in 1 .. Len(s)} \cup {"<uuid>"})
  BY <1>1 DEF IsMarking, IsWay
<1>3. ASSUME NEW i \in 1 .. Len(out), UuidEnd(out, i) # 0 PROVE FALSE
  <2>1. "<uuid>" \in PassMarks
    BY Zenon DEF PassMarks
  <2>2. StandsFree(s, E)
    BY UuidsStandFree
  <2>3. \A p \in 1 .. Len(s) : E[p] = UuidEnd(s, p)
    BY DEF UuidEnds
  <2> HIDE DEF E
  <2>4. PICK p \in 1 .. Len(s) : E[p] = 0 /\ UuidEnd(s, p) # 0
    BY <1>1, <1>2, <1>3, <2>1, <2>2, UuidWas
  <2> QED
    BY <2>3, <2>4
<1> QED
  BY <1>3 DEF NoUuidIn, out

\* No match reaches over the end of a line.
MatchesOnLine(s, end) ==
  \A x \in 1 .. Len(s) : end[x] # 0 => \A f \in x .. end[x] - 1 : s[f] \notin LineEnds

\* No line of s has two of these quotes.
OneQuoteALine(s, quote) ==
  \A i \in 1 .. Len(s) : \A j \in i + 1 .. Len(s) :
    s[i] = quote /\ s[j] = quote => \E k \in i + 1 .. j - 1 : s[k] \in LineEnds

\* Two quotes that a pass leaves on one line were on one before, and no match began in the first.
LEMMA TwoQuotesWere ==
  ASSUME NEW S, NEW s \in Seq(S), NEW end, NEW mark, NEW T, NEW out \in Seq(T),
         IsMarking(s, end, mark, out), MatchesOnLine(s, end),
         NEW quote, quote # mark, quote \notin LineEnds,
         NEW i \in 1 .. Len(out), NEW j \in i + 1 .. Len(out), out[i] = quote, out[j] = quote,
         \A k \in i + 1 .. j - 1 : out[k] \notin LineEnds
  PROVE  \E a \in 1 .. Len(s) : \E b \in a + 1 .. Len(s) :
           end[a] = 0 /\ s[a] = quote /\ s[b] = quote /\ \A f \in a .. b : s[f] \notin LineEnds
<1>1. PICK place : IsWay(s, end, mark, out, place) /\ place[1] = 1
  BY DEF IsMarking
<1>2. /\ Follows(s, out, place)
      /\ \A k \in 1 .. Len(out) :
           IF end[place[k]] = 0 THEN out[k] = s[place[k]] /\ place[k + 1] = place[k] + 1
                                ELSE out[k] = mark /\ place[k + 1] = end[place[k]]
  <2>1. Follows(s, out, place)
    BY <1>1, WayFollows DEF IsMarking
  <2>2. \A k \in 1 .. Len(out) :
           IF end[place[k]] = 0 THEN out[k] = s[place[k]] /\ place[k + 1] = place[k] + 1
                                ELSE out[k] = mark /\ place[k + 1] = end[place[k]]
    BY <1>1 DEF IsWay
  <2> QED
    BY <2>1, <2>2
<1>3. \A k \in 1 .. Len(out) : place[k] \in 1 .. Len(s)
  BY <1>2 DEF Follows
<1>4. \A k \in i .. j : k \in 1 .. Len(out) /\ out[k] \notin LineEnds
  <2>1. ASSUME NEW k \in i .. j PROVE k \in 1 .. Len(out) /\ out[k] \notin LineEnds
    <3>1. k = i \/ k = j \/ k \in i + 1 .. j - 1
      OBVIOUS
    <3>2. k \in 1 .. Len(out)
      OBVIOUS
    <3> QED
      BY <3>1, <3>2
  <2> QED
    BY <2>1
<1>5. ASSUME NEW k \in 1 .. Len(out)
      PROVE  /\ out[k] = s[place[k]] \/ s[place[k]] \notin LineEnds
             /\ \A f \in place[k] + 1 .. place[k + 1] - 1 : s[f] \notin LineEnds
  <2> DEFINE q == place[k]
             r == place[k + 1]
  <2>1. q \in 1 .. Len(s) /\ (IF end[q] = 0 THEN out[k] = s[q] /\ r = q + 1 ELSE r = end[q])
    BY <1>2, <1>3
  <2>2. r \in Int /\ q < r
    <3>1. k + 1 \in 1 .. Len(out) + 1
      OBVIOUS
    <3>2. place \in [1 .. Len(out) + 1 -> 1 .. Len(s) + 1] /\ place[k] < place[k + 1]
      BY <1>2 DEF Follows
    <3> QED
      BY <3>1, <3>2
  <2> HIDE DEF q, r
  <2>3. CASE end[q] = 0
    BY <2>1, <2>3 DEF q, r
  <2>4. CASE end[q] # 0
    <3>1. \A f \in q .. r - 1 : s[f] \notin LineEnds
      BY <2>1, <2>4 DEF MatchesOnLine
    <3>2. q \in q .. r - 1 /\ \A f \in q + 1 .. r - 1 : f \in q .. r - 1
      BY <2>1, <2>2
    <3> QED
      BY <3>1, <3>2 DEF q, r
  <2> QED
    BY <2>3, <2>4
<1> DEFINE a == place[i]
           b == place[j]
<1>6. \A f \in a .. b : s[f] \notin LineEnds
  <2>1. i \in 1 .. Len(out) /\ j \in i .. Len(out)
    OBVIOUS
  <2>2. \A k \in i .. j : out[k] \notin LineEnds
    BY <1>4
  <2>3. \A k \in i .. j : out[k] = s[place[k]] \/ s[place[k]] \notin LineEnds
    BY <1>4, <1>5
  <2>4. \A k \in i .. j : \A f \in place[k] + 1 .. place[k + 1] - 1 : s[f] \notin LineEnds
    BY <1>4, <1>5
  <2>5. \A f \in place[i] .. place[j] : s[f] \notin LineEnds
    BY <1>2, <2>1, <2>2, <2>3, <2>4, LinesStay
  <2> QED
    BY <2>5
<1>7. a \in 1 .. Len(s) /\ b \in a + 1 .. Len(s)
  <2>1. a \in 1 .. Len(s) /\ b \in 1 .. Len(s)
    BY <1>3
  <2>2. j - i \in Nat /\ j - i >= 1 /\ i + (j - i) = j /\ i \in 1 .. Len(out) + 1 /\ i + (j - i) <= Len(out) + 1
    OBVIOUS
  <2>3. place[i] + (j - i) <= place[i + (j - i)]
    BY <1>2, <2>2, PlacesGrow
  <2>4. a + (j - i) <= b
    BY <2>2, <2>3
  <2> HIDE DEF a, b
  <2> QED
    BY <2>1, <2>2, <2>4
<1>8. end[a] = 0 /\ s[a] = quote /\ s[b] = quote
  BY <1>2
<1> HIDE DEF a, b
<1> QED
  BY <1>6, <1>7, <1>8

\* A line that has no two quotes gets none by marks.
LEMMA OneQuoteStays ==
  ASSUME NEW S, NEW s \in Seq(S), NEW end, NEW mark, NEW T, NEW out \in Seq(T),
         IsMarking(s, end, mark, out), MatchesOnLine(s, end),
         NEW quote, quote # mark, quote \notin LineEnds, OneQuoteALine(s, quote)
  PROVE  OneQuoteALine(out, quote)
<1> SUFFICES ASSUME NEW i \in 1 .. Len(out), NEW j \in i + 1 .. Len(out), out[i] = quote, out[j] = quote,
                    \A k \in i + 1 .. j - 1 : out[k] \notin LineEnds
             PROVE  FALSE
  BY DEF OneQuoteALine
<1>1. PICK a \in 1 .. Len(s) : \E b \in a + 1 .. Len(s) :
        end[a] = 0 /\ s[a] = quote /\ s[b] = quote /\ \A f \in a .. b : s[f] \notin LineEnds
  BY TwoQuotesWere
<1>2. PICK b \in a + 1 .. Len(s) :
        end[a] = 0 /\ s[a] = quote /\ s[b] = quote /\ \A f \in a .. b : s[f] \notin LineEnds
  BY <1>1
<1>3. PICK k \in a + 1 .. b - 1 : s[k] \in LineEnds
  BY <1>2 DEF OneQuoteALine
<1>4. k \in a .. b
  OBVIOUS
<1> QED
  BY <1>2, <1>3, <1>4

\* A quoted run is on one line.
LEMMA QuotedRunsOnLine ==
  ASSUME NEW S, NEW s \in Seq(S), NEW quote, quote \notin LineEnds, NEW atWordBoundary
  PROVE  MatchesOnLine(s, QuoteEnds(s, quote, atWordBoundary))
<1> SUFFICES ASSUME NEW x \in 1 .. Len(s), QuotedRun(s, x, quote, atWordBoundary) # 0,
                    NEW f \in x .. QuotedRun(s, x, quote, atWordBoundary) - 1
             PROVE  s[f] \notin LineEnds
  BY DEF MatchesOnLine, QuoteEnds
<1> DEFINE C == {quote, "\r", "\n"}
           e == Find(s, x + 1, C)
<1>1. s[x] = quote /\ At(s, e) = quote /\ QuotedRun(s, x, quote, atWordBoundary) = e + 1
  BY Zenon DEF QuotedRun
<1>2. LineEnds \subseteq C /\ C = {quote} \cup LineEnds
  BY Zenon DEF LineEnds
<1> HIDE DEF C
<1>3. x + 1 \in Nat \ {0}
  OBVIOUS
<1>4. \/ /\ e \in x + 1 .. Len(s) /\ s[e] \in C
         /\ \A k \in x + 1 .. e - 1 : s[k] \notin C
      \/ e = 0
  BY <1>3, FindIs
<1> HIDE DEF e
<1>5. f \in x .. (e + 1) - 1
  BY <1>1
<1>6. e \in x + 1 .. Len(s) /\ \A k \in x + 1 .. e - 1 : s[k] \notin C
  BY <1>4, <1>5
<1>7. s[e] = quote
  <2>1. e \in 1 .. Len(s)
    BY <1>6
  <2> QED
    BY <1>1, <2>1, AtIs
<1>8. f = x \/ f = e \/ f \in x + 1 .. e - 1
  BY <1>5, <1>6
<1> QED
  BY <1>1, <1>2, <1>6, <1>7, <1>8

\* What the pass over the quotes leaves has one of them on a line, at most.
LEMMA QuotesGone ==
  ASSUME NEW S, NEW s \in Seq(S), NEW quote, quote # NoByte, quote # "<str>", quote \notin LineEnds
  PROVE  OneQuoteALine(ReplaceQuoted(s, quote, FALSE), quote)
<1> DEFINE out == ReplaceQuoted(s, quote, FALSE)
           E == QuoteEnds(s, quote, FALSE)
<1>1. IsMarking(s, E, "<str>", out)
  <2>1. GoesForward(s, E) /\ out = PieceFor(s, E, <<"<str>">>)
    BY QuotesAre
  <2> HIDE DEF E, out
  <2> QED
    BY <2>1, PiecesMark
<1>2. MatchesOnLine(s, E)
  BY QuotedRunsOnLine
<1>3. \A x \in 1 .. Len(s) : E[x] = QuotedRun(s, x, quote, FALSE)
  BY DEF QuoteEnds
<1> HIDE DEF out, E
<1>4. out \in Seq({s[i] : i \in 1 .. Len(s)} \cup {"<str>"})
  BY <1>1 DEF IsMarking, IsWay
<1>5. ASSUME NEW i \in 1 .. Len(out), NEW j \in i + 1 .. Len(out), out[i] = quote, out[j] = quote,
             \A k \in i + 1 .. j - 1 : out[k] \notin LineEnds
      PROVE  FALSE
  <2>1. PICK a \in 1 .. Len(s) : \E b \in a + 1 .. Len(s) :
          E[a] = 0 /\ s[a] = quote /\ s[b] = quote /\ \A f \in a .. b : s[f] \notin LineEnds
    BY <1>1, <1>2, <1>4, <1>5, TwoQuotesWere
  <2>2. PICK b \in a + 1 .. Len(s) :
          E[a] = 0 /\ s[a] = quote /\ s[b] = quote /\ \A f \in a .. b : s[f] \notin LineEnds
    BY <2>1
  <2> DEFINE C == {quote, "\r", "\n"}
             e == Find(s, a + 1, C)
  <2>3. C = {quote} \cup LineEnds
    BY Zenon DEF LineEnds
  <2>4. QuotedRun(s, a, quote, FALSE) = 0
    BY <1>3, <2>2
  <2>5. s[a] = quote /\ At(s, e) = quote => QuotedRun(s, a, quote, FALSE) = e + 1
    BY Zenon DEF QuotedRun
  <2> HIDE DEF C
  <2>6. \/ /\ e \in a + 1 .. Len(s) /\ s[e] \in C
           /\ \A k \in a + 1 .. e - 1 : s[k] \notin C
        \/ e = 0 /\ \A k \in a + 1 .. Len(s) : s[k] \notin C
    <3>1. a + 1 \in Nat \ {0}
      OBVIOUS
    <3> QED
      BY <3>1, FindIs
  <2> HIDE DEF e
  <2>7. s[b] \in C
    BY <2>2, <2>3
  <2>8. e \in a + 1 .. Len(s) /\ s[e] \in C /\ e <= b
    BY <2>6, <2>7
  <2>9. s[e] = quote
    <3>1. e \in a .. b
      BY <2>8
    <3> QED
      BY <2>2, <2>3, <2>8, <3>1
  <2>10. At(s, e) = quote /\ e + 1 # 0
    <3>1. e \in 1 .. Len(s)
      BY <2>8
    <3> QED
      BY <2>9, <3>1, AtIs
  <2> QED
    BY <2>2, <2>4, <2>5, <2>10
<1> QED
  BY <1>5 DEF OneQuoteALine, out

\* Which byte of s each byte of the pass over hex ids stands for: every byte for itself, and
\* behind the "x" of an id its digits are passed over.
HexWay(s, out, place) ==
  LET n == Len(out)
      E == HexEnds(s)
  IN  /\ out \in Seq({s[i] : i \in 1 .. Len(s)})
      /\ place \in [1 .. n + 1 -> 1 .. Len(s) + 1]
      /\ place[n + 1] = Len(s) + 1
      /\ \A k \in 1 .. n :
           /\ place[k] \in 1 .. Len(s) /\ out[k] = s[place[k]] /\ place[k] < place[k + 1]
           /\ E[place[k]] # 0 => k < n /\ place[k + 1] = place[k] + 1 /\ place[k + 2] = E[place[k]]
           /\ \/ place[k + 1] = place[k] + 1
              \/ k > 1 /\ place[k - 1] = place[k] - 1 /\ E[place[k - 1]] = place[k + 1]

\* A hex id is 0x and all the hex digits behind it.
LEMMA HexIdIs ==
  ASSUME NEW S, NEW s \in Seq(S), NEW i \in 1 .. Len(s)
  PROVE  /\ HexEnds(s)[i] = HexIdEnd(s, i)
         /\ HexEnds(s)[i] # 0 =>
              /\ s[i] = "0" /\ i + 1 \in 1 .. Len(s) /\ s[i + 1] = "x"
              /\ HexEnds(s)[i] \in i + 3 .. Len(s) + 1 /\ At(s, HexEnds(s)[i]) \notin Hexes
              /\ \A f \in i + 2 .. HexEnds(s)[i] - 1 : f \in 1 .. Len(s) /\ s[f] \in Hexes
<1> DEFINE e == RunEnd(s, i + 2, Hexes)
<1>1. HexEnds(s)[i] = HexIdEnd(s, i)
  BY DEF HexEnds
<1>2. HexIdDigits \in Nat \ {0}
  BY StrictAssumption
<1>3. ASSUME HexIdEnd(s, i) # 0
      PROVE  /\ s[i] = "0" /\ i + 1 \in 1 .. Len(s) /\ s[i + 1] = "x"
             /\ HexIdEnd(s, i) \in i + 3 .. Len(s) + 1 /\ At(s, HexIdEnd(s, i)) \notin Hexes
             /\ \A f \in i + 2 .. HexIdEnd(s, i) - 1 : f \in 1 .. Len(s) /\ s[f] \in Hexes
  <2>1. s[i] = "0" /\ At(s, i + 1) = "x" /\ e - (i + 2) >= HexIdDigits /\ HexIdEnd(s, i) = e
    BY <1>3, Zenon DEF HexIdEnd
  <2>2. NoByte \notin Hexes /\ i + 2 \in Nat \ {0}
    BY NotWords, ClassesNest
  <2>3. /\ e \in Nat /\ e >= i + 2 /\ At(s, e) \notin Hexes
        /\ \A k \in i + 2 .. e - 1 : k \in 1 .. Len(s) /\ s[k] \in Hexes
        /\ e > i + 2 => e <= Len(s) + 1
    BY <2>2, RunEndIs
  <2> HIDE DEF e
  <2>4. i + 1 \in 1 .. Len(s) /\ s[i + 1] = "x"
    <3>1. At(s, i + 1) \in Words /\ NoByte \notin Words /\ i + 1 \in Int
      BY <2>1, HexIdBytes, NotWords
    <3>2. i + 1 \in 1 .. Len(s) /\ At(s, i + 1) = s[i + 1]
      BY <3>1, AtIn
    <3> QED
      BY <2>1, <3>2
  <2>5. e \in i + 3 .. Len(s) + 1
    BY <1>2, <2>1, <2>3
  <2> QED
    BY <2>1, <2>3, <2>4, <2>5
<1> QED
  BY <1>1, <1>3

\* The pass over hex ids leaves such a way.
LEMMA HexWayFrom ==
  ASSUME NEW S, NEW s \in Seq(S)
  PROVE  \E place : HexWay(s, ReplaceHexIds(s), place) /\ place[1] = 1
<1> DEFINE n == Len(s)
           E == HexEnds(s)
           piece == [i \in 1 .. n |-> <<"0", "x">>]
           f == Rewriting(s, E, piece)
           T == {s[i] : i \in 1 .. n}
           Way(i, place) == HexWay(s, f[i], place) /\ place[1] = i
           P == {i \in 1 .. n + 1 : \E place : Way(i, place)}
<1>0. n \in Nat
  OBVIOUS
<1>1. f[n + 1] = <<>> /\ \A i \in 1 .. n : f[i] = IF E[i] = 0 THEN <<s[i]>> \o f[i + 1] ELSE piece[i] \o f[E[i]]
  <2>1. \A i \in 1 .. Len(s) : E[i] = 0 \/ E[i] \in i + 1 .. Len(s) + 1
    BY HexIdsAre DEF GoesForward
  <2> HIDE DEF E, piece
  <2> QED
    BY <2>1, RewritingStep
<1>2. \A i \in 1 .. n : piece[i] = <<"0", "x">>
  OBVIOUS
<1>3. \A i \in 1 .. n : E[i] # 0 =>
              /\ s[i] = "0" /\ i + 1 \in 1 .. n /\ s[i + 1] = "x" /\ E[i] \in i + 3 .. n + 1
  BY HexIdIs
<1>4. \A i \in 1 .. n : s[i] = "x" => E[i] = 0
  <2>1. "x" # "0"
    OBVIOUS
  <2> QED
    BY <1>3, <2>1
<1> HIDE DEF f, piece, E
<1>5. n + 1 \in P
  <2> DEFINE place == [k \in 1 .. 1 |-> n + 1]
  <2>1. Way(n + 1, place)
    BY <1>0, <1>1 DEF HexWay
  <2> QED
    BY <1>0, <2>1
<1>6. ASSUME NEW i \in 1 .. n, \A j \in i + 1 .. n + 1 : j \in P PROVE i \in P
  <2> DEFINE c == IF E[i] = 0 THEN 1 ELSE 2
             nx == IF E[i] = 0 THEN i + 1 ELSE E[i]
  <2>1. c \in 1 .. 2 /\ nx \in i + 1 .. n + 1 /\ i + c <= nx /\ i + c - 1 <= n
        /\ (E[i] = 0 => c = 1 /\ nx = i + 1) /\ (E[i] # 0 => c = 2 /\ nx = E[i])
    BY <1>0, <1>3
  <2> HIDE DEF c, nx
  <2>2. PICK old : Way(nx, old)
    BY <1>6, <2>1
  <2> DEFINE m == Len(f[nx])
             place == [k \in 1 .. m + c + 1 |-> IF k <= c THEN i + (k - 1) ELSE old[k - c]]
             out == f[i]
  <2>3. /\ f[nx] \in Seq(T) /\ m \in Nat /\ old \in [1 .. m + 1 -> 1 .. n + 1]
        /\ old[m + 1] = n + 1 /\ old[1] = nx
    <3>1. HexWay(s, f[nx], old) /\ old[1] = nx
      BY <2>2
    <3>2. f[nx] \in Seq(T)
      BY <3>1, Zenon DEF HexWay
    <3> QED
      BY <3>1, <3>2, LenProperties DEF HexWay
  <2>4. \A k \in 1 .. m :
           /\ old[k] \in 1 .. n /\ f[nx][k] = s[old[k]] /\ old[k] < old[k + 1]
           /\ E[old[k]] # 0 => k < m /\ old[k + 1] = old[k] + 1 /\ old[k + 2] = E[old[k]]
           /\ \/ old[k + 1] = old[k] + 1
              \/ k > 1 /\ old[k - 1] = old[k] - 1 /\ E[old[k - 1]] = old[k + 1]
    BY <2>2 DEF HexWay, E
  <2> DEFINE pre == IF c = 1 THEN <<s[i]>> ELSE <<"0", "x">>
  <2>5. /\ pre \in Seq(T) /\ Len(pre) = c /\ out = pre \o f[nx]
        /\ \A k \in 1 .. c : pre[k] = s[i + (k - 1)]
    <3>1. CASE E[i] = 0
      <4>1. pre = <<s[i]>> /\ c = 1 /\ nx = i + 1
        BY <2>1, <3>1
      <4>2. s[i] \in T
        OBVIOUS
      <4>3. out = <<s[i]>> \o f[nx]
        BY <1>1, <3>1, <4>1
      <4> HIDE DEF pre, T, out
      <4>4. <<s[i]>> \in Seq(T) /\ Len(<<s[i]>>) = 1 /\ <<s[i]>>[1] = s[i + (1 - 1)]
        BY <4>2
      <4> QED
        BY <4>1, <4>3, <4>4
    <3>2. CASE E[i] # 0
      <4>1. pre = <<"0", "x">> /\ c = 2 /\ nx = E[i]
        BY <2>1, <3>2
      <4>2. s[i] = "0" /\ s[i + 1] = "x" /\ s[i] \in T /\ s[i + 1] \in T
        BY <1>3, <3>2
      <4>3. out = <<"0", "x">> \o f[nx]
        BY <1>1, <1>2, <3>2, <4>1
      <4> HIDE DEF pre, T, out
      <4>4. <<"0", "x">> \in Seq(T) /\ Len(<<"0", "x">>) = 2
            /\ <<"0", "x">>[1] = s[i + (1 - 1)] /\ <<"0", "x">>[2] = s[i + (2 - 1)]
        BY <4>2
      <4>5. \A k \in 1 .. 2 : k = 1 \/ k = 2
        OBVIOUS
      <4> QED
        BY <4>1, <4>3, <4>4, <4>5
    <3> QED
      BY <3>1, <3>2
  <2> HIDE DEF pre, out, m
  <2>6. /\ out \in Seq(T) /\ Len(out) = m + c
        /\ \A k \in 1 .. c : out[k] = s[i + (k - 1)]
        /\ \A k \in c + 1 .. m + c : out[k] = f[nx][k - c]
    <3>1. pre \o f[nx] \in Seq(T) /\ Len(pre \o f[nx]) = c + m
      BY <2>3, <2>5, ConcatProperties DEF m
    <3>2. \A k \in 1 .. c + m : (pre \o f[nx])[k] = IF k <= c THEN pre[k] ELSE f[nx][k - c]
      <4> HIDE DEF T
      <4>1. pre \in Seq(T) /\ f[nx] \in Seq(T) /\ Len(pre) = c /\ Len(f[nx]) = m
        BY <2>3, <2>5 DEF m
      <4> QED
        BY <4>1, ConcatProperties
    <3>3. \A k \in 1 .. c : k \in 1 .. c + m /\ k <= c
      BY <2>1, <2>3
    <3>4. \A k \in c + 1 .. m + c : k \in 1 .. c + m /\ ~(k <= c)
      BY <2>1, <2>3
    <3>5. c + m = m + c
      BY <2>1, <2>3
    <3> HIDE DEF T
    <3>6. out \in Seq(T) /\ Len(out) = m + c
      BY <2>5, <3>1, <3>5
    <3>7. \A k \in 1 .. c : out[k] = s[i + (k - 1)]
      BY <2>5, <3>2, <3>3
    <3>8. \A k \in c + 1 .. m + c : out[k] = f[nx][k - c]
      BY <2>5, <3>2, <3>4
    <3> QED
      BY <3>6, <3>7, <3>8
  <2>7. /\ place \in [1 .. m + c + 1 -> 1 .. n + 1]
        /\ place[m + c + 1] = n + 1 /\ place[1] = i
        /\ \A k \in 1 .. c : place[k] = i + (k - 1)
        /\ \A k \in c + 1 .. m + c + 1 : place[k] = old[k - c]
    BY <1>0, <2>1, <2>3
  <2> HIDE DEF place
  <2>8. ASSUME NEW k \in 1 .. m + c
        PROVE  /\ place[k] \in 1 .. n /\ out[k] = s[place[k]] /\ place[k] < place[k + 1]
               /\ E[place[k]] # 0 => k < m + c /\ place[k + 1] = place[k] + 1 /\ place[k + 2] = E[place[k]]
               /\ \/ place[k + 1] = place[k] + 1
                  \/ k > 1 /\ place[k - 1] = place[k] - 1 /\ E[place[k - 1]] = place[k + 1]
    <3>1. CASE k \in c + 1 .. m + c
      <4> DEFINE x == k - c
      <4>1. /\ x \in 1 .. m /\ (k + 1) - c = x + 1 /\ (k + 2) - c = x + 2
            /\ k + 1 \in c + 1 .. m + c + 1
            /\ (x < m => k + 2 \in c + 1 .. m + c + 1)
            /\ (x > 1 => k - 1 \in c + 1 .. m + c + 1 /\ (k - 1) - c = x - 1)
        BY <2>1, <2>3, <3>1
      <4>2. place[k] = old[x] /\ place[k + 1] = old[x + 1] /\ out[k] = f[nx][x]
        <5>1. k \in c + 1 .. m + c + 1
          BY <2>1, <2>3, <3>1
        <5>2. place[k] = old[k - c] /\ place[k + 1] = old[(k + 1) - c]
          BY <2>7, <4>1, <5>1
        <5>3. out[k] = f[nx][k - c]
          BY <2>6, <3>1
        <5> QED
          BY <4>1, <5>2, <5>3
      <4>3. (x < m => place[k + 2] = old[x + 2]) /\ (x > 1 => place[k - 1] = old[x - 1])
        BY <2>7, <4>1
      <4>4. (x < m => k < m + c) /\ (x > 1 => k > 1)
        BY <2>1, <2>3, <3>1
      <4> HIDE DEF x
      <4> QED
        BY <2>4, <4>1, <4>2, <4>3, <4>4
    <3>2. CASE k = 1 /\ c = 1
      <4>1. place[1] = i /\ place[2] = nx /\ nx = i + 1 /\ E[i] = 0 /\ out[1] = s[i]
        <5>1. E[i] = 0
          BY <2>1, <3>2
        <5>2. 2 \in c + 1 .. m + c + 1 /\ 2 - c = 1 /\ 1 \in 1 .. c /\ i + (1 - 1) = i
          BY <2>3, <3>2
        <5> QED
          BY <2>1, <2>3, <2>6, <2>7, <3>2, <5>1, <5>2
      <4> QED
        BY <3>2, <4>1
    <3>3. CASE c = 2 /\ k \in 1 .. 2
      <4>1. /\ place[1] = i /\ place[2] = i + 1 /\ place[3] = E[i] /\ E[i] # 0
            /\ out[1] = s[i] /\ out[2] = s[i + 1]
        <5>1. E[i] # 0 /\ nx = E[i]
          BY <2>1, <3>3
        <5>2. 3 \in c + 1 .. m + c + 1 /\ 3 - c = 1 /\ 1 \in 1 .. c /\ 2 \in 1 .. c /\ i + (1 - 1) = i /\ i + (2 - 1) = i + 1
          BY <2>3, <3>3
        <5> QED
          BY <2>3, <2>6, <2>7, <5>1, <5>2
      <4>2. i + 1 \in 1 .. n /\ E[i + 1] = 0 /\ E[i] \in i + 3 .. n + 1
        BY <1>3, <1>4, <4>1
      <4>3. CASE k = 1
        BY <2>3, <3>3, <4>1, <4>2, <4>3
      <4>4. CASE k = 2
        <5>1. place[2] - 1 = i /\ E[i] > i + 1
          BY <4>1, <4>2
        <5> QED
          BY <4>1, <4>2, <4>4, <5>1
      <4> QED
        BY <3>3, <4>3, <4>4
    <3> QED
      BY <2>1, <2>3, <3>1, <3>2, <3>3
  <2>9. Way(i, place)
    <3>1. out \in Seq({s[x] : x \in 1 .. Len(s)}) /\ (m + c) + 1 = m + c + 1
      BY <2>1, <2>3, <2>6
    <3> QED
      BY <2>6, <2>7, <2>8, <3>1 DEF HexWay, out, E
  <2> HIDE DEF Way
  <2> QED
    BY <1>0, <2>9
<1>7. \A i \in 1 .. n + 1 : i \in P
  <2>1. n + 1 \in Nat
    BY <1>0
  <2>2. ASSUME NEW i \in 1 .. n + 1, \A j \in i + 1 .. n + 1 : j \in P PROVE i \in P
    <3> HIDE DEF P
    <3> QED
      BY <1>0, <1>5, <1>6, <2>2
  <2> HIDE DEF P
  <2> QED
    BY <2>1, <2>2, DownFrom
<1>8. ReplaceHexIds(s) = f[1]
  BY HexIdsAre DEF PieceFor, f, E, piece
<1> QED
  <2> HIDE DEF Way
  <2>1. \E place : Way(1, place)
    BY <1>0, <1>7
  <2> QED
    BY <1>8, <2>1 DEF Way

\* What the pass over hex ids passes over is hex digits, behind a "0x".
LEMMA HexSteps ==
  ASSUME NEW S, NEW s \in Seq(S), NEW out, NEW place, HexWay(s, out, place), place[1] = 1
  PROVE  /\ Follows(s, out, place) /\ out \in Seq(S)
         /\ \A k \in 1 .. Len(out) : out[k] = s[place[k]]
         /\ \A k \in 1 .. Len(out) :
              \/ place[k + 1] = place[k] + 1
              \/ /\ k > 1 /\ out[k - 1] = "0" /\ out[k] = "x" /\ HexEnds(s)[place[k - 1]] # 0
                 /\ \A f \in place[k] + 1 .. place[k + 1] - 1 : s[f] \in Hexes
<1> DEFINE n == Len(out)
           E == HexEnds(s)
<1>1. /\ out \in Seq({s[i] : i \in 1 .. Len(s)})
      /\ place \in [1 .. n + 1 -> 1 .. Len(s) + 1]
      /\ place[n + 1] = Len(s) + 1
  BY DEF HexWay
<1>2. \A k \in 1 .. n :
           /\ place[k] \in 1 .. Len(s) /\ out[k] = s[place[k]] /\ place[k] < place[k + 1]
           /\ \/ place[k + 1] = place[k] + 1
              \/ k > 1 /\ place[k - 1] = place[k] - 1 /\ E[place[k - 1]] = place[k + 1]
  BY DEF HexWay
<1>3. out \in Seq(S)
  <2>1. {s[i] : i \in 1 .. Len(s)} \subseteq S
    OBVIOUS
  <2> QED
    BY <1>1, <2>1
<1> HIDE DEF E
<1>4. ASSUME NEW k \in 1 .. n, k > 1, place[k - 1] = place[k] - 1, E[place[k - 1]] = place[k + 1]
      PROVE  /\ out[k - 1] = "0" /\ out[k] = "x" /\ E[place[k - 1]] # 0
             /\ \A f \in place[k] + 1 .. place[k + 1] - 1 : s[f] \in Hexes
  <2> DEFINE q == place[k - 1]
  <2>1. k - 1 \in 1 .. n /\ k + 1 \in 1 .. n + 1
    BY <1>4
  <2>2. q \in 1 .. Len(s) /\ out[k - 1] = s[q] /\ out[k] = s[place[k]] /\ place[k] = q + 1
    BY <1>2, <1>4, <2>1, SMTT(30)
  <2>3. place[k + 1] \in 1 .. Len(s) + 1
    BY <1>1, <2>1
  <2> HIDE DEF q
  <2>4. E[q] = place[k + 1] /\ E[q] # 0
    BY <1>4, <2>3 DEF q
  <2>5. s[q] = "0" /\ s[q + 1] = "x" /\ \A f \in q + 2 .. E[q] - 1 : s[f] \in Hexes
    BY <2>2, <2>4, HexIdIs DEF E
  <2>6. \A f \in place[k] + 1 .. place[k + 1] - 1 : f \in q + 2 .. E[q] - 1
    BY <2>2, <2>3, <2>4
  <2> QED
    BY <2>2, <2>4, <2>5, <2>6 DEF q
<1>5. Follows(s, out, place)
  BY <1>1, <1>2 DEF Follows
<1>6. \A k \in 1 .. Len(out) :
              \/ place[k + 1] = place[k] + 1
              \/ /\ k > 1 /\ out[k - 1] = "0" /\ out[k] = "x" /\ E[place[k - 1]] # 0
                 /\ \A f \in place[k] + 1 .. place[k + 1] - 1 : s[f] \in Hexes
  BY <1>2, <1>4
<1> QED
  BY <1>2, <1>3, <1>5, <1>6 DEF E

\* Nothing is passed over between i and j.
Onward(place, i, j) == \A k \in i .. j - 1 : place[k + 1] = place[k] + 1

\* Where nothing is passed over, the bytes stood together.
LEMMA Together ==
  ASSUME NEW S, NEW s \in Seq(S), NEW T, NEW out \in Seq(T), NEW place, Follows(s, out, place),
         NEW i \in 1 .. Len(out), NEW j \in i .. Len(out) + 1, Onward(place, i, j)
  PROVE  \A x \in 0 .. j - i : place[i + x] = place[i] + x
<1> DEFINE d == j - i
           P == {x \in 0 .. d : place[i + x] = place[i] + x}
<1>0. place[i] \in Int
  BY DEF Follows
<1>1. 0 \in P
  <2>1. i + 0 = i /\ place[i] + 0 = place[i]
    BY <1>0
  <2> QED
    BY <2>1
<1>2. ASSUME NEW x \in 1 .. d, x - 1 \in P PROVE x \in P
  <2>1. i + (x - 1) \in i .. j - 1 /\ (i + (x - 1)) + 1 = i + x
    OBVIOUS
  <2>2. place[i + x] = place[i + (x - 1)] + 1
    BY <2>1 DEF Onward
  <2>3. place[i + (x - 1)] = place[i] + (x - 1)
    BY <1>2
  <2> QED
    BY <1>0, <2>2, <2>3
<1>3. \A x \in 0 .. d : x \in P
  <2>1. d \in Nat
    OBVIOUS
  <2> HIDE DEF P, d
  <2> QED
    BY <1>1, <1>2, <2>1, UpTo
<1> QED
  BY <1>3

\* No hex id is left, though 0x is: the digits behind it went with it, all of them.
LEMMA HexIdsGone ==
  ASSUME NEW S, NEW s \in Seq(S)
  PROVE  NoHexIdIn(ReplaceHexIds(s)) /\ ReplaceHexIds(s) \in Seq(S)
<1> DEFINE out == ReplaceHexIds(s)
           E == HexEnds(s)
<1>0. HexIdDigits \in Nat \ {0}
  BY StrictAssumption
<1>1. PICK place : HexWay(s, out, place) /\ place[1] = 1
  BY HexWayFrom
<1> HIDE DEF out
<1>2. /\ Follows(s, out, place) /\ out \in Seq(S)
      /\ \A k \in 1 .. Len(out) : out[k] = s[place[k]]
  BY <1>1, HexSteps
<1>3. \A k \in 1 .. Len(out) :
              \/ place[k + 1] = place[k] + 1
              \/ k > 1 /\ out[k - 1] = "0" /\ out[k] = "x" /\ E[place[k - 1]] # 0
  BY <1>1, HexSteps
<1>4. \A k \in 1 .. Len(out) :
        E[place[k]] # 0 => k < Len(out) /\ place[k + 1] = place[k] + 1 /\ place[k + 2] = E[place[k]]
  BY <1>1 DEF HexWay
<1>5. \A k \in 1 .. Len(out) : place[k] \in 1 .. Len(s)
  BY <1>2 DEF Follows
<1> HIDE DEF E
<1>6. ASSUME NEW i \in 1 .. Len(out), NEW j \in i + 1 .. Len(out) + 1, IsHexId(out, i, j) PROVE FALSE
  <2> DEFINE p == place[i]
             d == j - i
  <2>0. d \in Nat /\ d >= 3 /\ d >= 2 + HexIdDigits /\ i + d = j
    BY <1>0, <1>6 DEF IsHexId
  <2>1. /\ out[i] = "0" /\ At(out, i + 1) = "x" /\ \A k \in i + 2 .. j - 1 : At(out, k) \in Hexes
    BY <1>6 DEF IsHexId, All
  <2> HIDE DEF d
  <2>2. \A k \in i .. j - 1 : k \in 1 .. Len(out) /\ At(out, k) = out[k]
    BY <1>2, AtIs
  <2>3. out[i + 1] = "x" /\ \A k \in i + 2 .. j - 1 : out[k] \in Hexes
    <3>1. i + 1 \in i .. j - 1 /\ \A k \in i + 2 .. j - 1 : k \in i .. j - 1
      BY <2>0
    <3> QED
      BY <2>1, <2>2, <3>1
  <2>4. p \in 1 .. Len(s) /\ s[p] = "0"
    BY <1>2, <1>5, <2>1
  <2>5. place[i + 1] = p + 1
    <3>1. "0" # "x"
      OBVIOUS
    <3> QED
      BY <1>3, <2>1, <3>1
  <2>6. i + 1 \in 1 .. Len(out) /\ i + 2 \in 1 .. Len(out) /\ i + 2 \in i + 2 .. j - 1
    BY <2>0
  <2>7. CASE E[p] # 0
    <3>1. place[i + 2] = E[p]
      BY <1>4, <2>7
    <3>2. At(s, E[p]) \notin Hexes
      BY <2>4, <2>7, HexIdIs DEF E
    <3>3. At(s, place[i + 2]) = out[i + 2]
      BY <1>2, <1>5, <2>6, AtIs
    <3> QED
      BY <2>3, <2>6, <3>1, <3>2, <3>3
  <2>8. CASE E[p] = 0
    <3>1. \A k \in i .. j - 1 : place[k + 1] = place[k] + 1
      <4>1. ASSUME NEW k \in i .. j - 1 PROVE place[k + 1] = place[k] + 1
        <5>1. k \in 1 .. Len(out)
          BY <2>2
        <5>2. k = i \/ k = i + 1 \/ k \in i + 2 .. j - 1
          BY <2>0
        <5>3. CASE k = i
          BY <2>5, <5>3
        <5>4. CASE k = i + 1
          <6>1. k - 1 = i
            BY <5>4
          <6> QED
            BY <1>3, <2>8, <5>1, <6>1
        <5>5. CASE k \in i + 2 .. j - 1
          <6>1. out[k] # "x"
            BY <2>3, <5>5, HexIdBytes
          <6> QED
            BY <1>3, <5>1, <6>1
        <5> QED
          BY <5>2, <5>3, <5>4, <5>5
      <4> QED
        BY <4>1
    <3>2. \A x \in 0 .. d : place[i + x] = place[i] + x
      <4>1. j \in i .. Len(out) + 1 /\ out \in Seq(S) /\ Onward(place, i, j)
        BY <1>2, <3>1 DEF Onward
      <4>2. \A x \in 0 .. j - i : place[i + x] = place[i] + x
        BY <1>2, <4>1, Together
      <4> QED
        BY <4>2 DEF d
    <3>3. \A x \in 0 .. d - 1 : p + x \in 1 .. Len(s) /\ At(s, p + x) = out[i + x]
      <4>1. ASSUME NEW x \in 0 .. d - 1 PROVE p + x \in 1 .. Len(s) /\ At(s, p + x) = out[i + x]
        <5>1. i + x \in i .. j - 1 /\ x \in 0 .. d
          BY <2>0
        <5>2. i + x \in 1 .. Len(out) /\ place[i + x] = p + x
          BY <2>2, <3>2, <5>1
        <5>3. p + x \in 1 .. Len(s) /\ out[i + x] = s[p + x]
          BY <1>2, <1>5, <5>2
        <5> HIDE DEF p
        <5>4. At(s, p + x) = s[p + x]
          BY <5>3, AtIs
        <5> QED
          BY <5>3, <5>4
      <4> QED
        BY <4>1
    <3> HIDE DEF p
    <3>4. p + d \in p + 1 .. Len(s) + 1
      <4>1. d - 1 \in 0 .. d - 1
        BY <2>0
      <4>2. p + (d - 1) \in 1 .. Len(s)
        BY <3>3, <4>1
      <4> QED
        BY <2>0, <2>4, <4>2
    <3>5. IsHexId(s, p, p + d)
      <4>1. At(s, p + 1) = "x"
        <5>1. 1 \in 0 .. d - 1
          BY <2>0
        <5> QED
          BY <2>3, <3>3, <5>1
      <4>2. ASSUME NEW k \in p + 2 .. (p + d) - 1 PROVE At(s, k) \in Hexes
        <5>1. k - p \in 0 .. d - 1 /\ p + (k - p) = k /\ i + (k - p) \in i + 2 .. j - 1
          BY <2>0, <2>4
        <5>2. At(s, p + (k - p)) = out[i + (k - p)]
          BY <3>3, <5>1
        <5> QED
          BY <2>3, <5>1, <5>2
      <4>3. (p + d) - p = d
        BY <2>0, <2>4
      <4> QED
        BY <2>0, <2>4, <4>1, <4>2, <4>3 DEF IsHexId, All
    <3> DEFINE ends == {e \in p + 1 .. Len(s) + 1 : IsHexId(s, p, e)}
    <3>6. E[p] = LongestOf(ends)
      BY <2>4, HexIdEndIs DEF E, HexEnds, LongestOf
    <3>7. ends # {} /\ ends \in SUBSET (p + 1 .. Len(s) + 1) /\ Len(s) \in Nat
      BY <3>4, <3>5
    <3> HIDE DEF ends
    <3> QED
      BY <2>4, <2>8, <3>6, <3>7, LongestIsOne
  <2> QED
    BY <2>7, <2>8
<1> QED
  BY <1>2, <1>6 DEF NoHexIdIn, out

LEMMA HexesInClasses ==
  /\ Hexes \subseteq LocalPart /\ Hexes \subseteq Domain /\ "0" \notin Letters /\ "." # "0" /\ "." # "x" /\ "@" # "x"
  /\ "\r" \notin Hexes /\ "\n" \notin Hexes
<1>1. Hexes \subseteq Letters \cup Digits
  BY HexLetters DEF Hexes
<1>2. "0" \notin Letters
  BY DEF Letters, Lowers, Uppers, LowerOrder, UpperOrder, Range
<1>3. "\r" \notin Hexes /\ "\n" \notin Hexes
  <2>1. "\r" \notin Alphanumerics /\ "\n" \notin Alphanumerics
    BY Zenon DEF Alphanumerics
  <2> QED
    BY <1>1, <2>1, AlphanumericsAre
<1> QED
  BY <1>1, <1>2, <1>3 DEF LocalPart, Domain

\* A run of bytes of a class that holds the hex digits was such a run in s.
LEMMA HexRun ==
  ASSUME NEW S, NEW s \in Seq(S), NEW T, NEW out \in Seq(T), NEW place, Follows(s, out, place),
         \A k \in 1 .. Len(out) : out[k] = s[place[k]],
         \A k \in 1 .. Len(out) : \/ place[k + 1] = place[k] + 1
                                  \/ \A f \in place[k] + 1 .. place[k + 1] - 1 : s[f] \in Hexes,
         NEW C, Hexes \subseteq C,
         NEW i \in 1 .. Len(out), NEW m \in i .. Len(out) + 1, \A k \in i .. m - 1 : out[k] \in C
  PROVE  \A f \in place[i] .. place[m] - 1 : At(s, f) \in C
<1>1. \A k \in 1 .. Len(out) + 1 : place[k] \in 1 .. Len(s) + 1
  BY DEF Follows
<1>2. ASSUME NEW f \in place[i] .. place[m] - 1 PROVE At(s, f) \in C
  <2>1. i # m /\ m - 1 \in i .. Len(out) /\ (m - 1) + 1 = m /\ i \in 1 .. Len(out) + 1 /\ m \in 1 .. Len(out) + 1
    <3>1. i # m
      BY <1>1, <1>2
    <3> QED
      BY <3>1
  <2>2. f \in Int /\ place[i] <= f /\ f < place[(m - 1) + 1] /\ f \in 1 .. Len(s)
    BY <1>1, <2>1
  <2>3. PICK k \in i .. m - 1 : place[k] <= f /\ f < place[k + 1]
    BY <2>1, <2>2, Covered
  <2>4. k \in 1 .. Len(out) /\ k + 1 \in 1 .. Len(out) + 1 /\ k \in 1 .. Len(out) + 1
    BY <2>1
  <2>5. f = place[k] \/ f \in place[k] + 1 .. place[k + 1] - 1
    <3>1. place[k] \in Int /\ place[k + 1] \in Int
      BY <1>1, <2>4
    <3> QED
      BY <2>2, <2>3, <3>1
  <2>6. CASE f = place[k]
    <3>1. s[f] \in C
      BY <2>4, <2>6
    <3> QED
      BY <2>2, <3>1, AtIs
  <2>7. CASE f \in place[k] + 1 .. place[k + 1] - 1
    <3>1. place[k + 1] # place[k] + 1
      BY <1>1, <2>4, <2>7
    <3>2. s[f] \in Hexes
      BY <2>4, <2>7, <3>1
    <3> QED
      BY <2>2, <3>2, AtIs
  <2> QED
    BY <2>5, <2>6, <2>7
<1> QED
  BY <1>2

\* Taking the digits of the hex ids out of a text brings no email about.
LEMMA NoEmailBehindHexIds ==
  ASSUME NEW S, NEW s \in Seq(S), NoEmailIn(s)
  PROVE  NoEmailIn(ReplaceHexIds(s))
<1> DEFINE out == ReplaceHexIds(s)
<1>1. PICK place : HexWay(s, out, place) /\ place[1] = 1
  BY HexWayFrom
<1> HIDE DEF out
<1>2. /\ Follows(s, out, place) /\ out \in Seq(S)
      /\ \A k \in 1 .. Len(out) : out[k] = s[place[k]]
  BY <1>1, HexSteps
<1>3. \A k \in 1 .. Len(out) :
              \/ place[k + 1] = place[k] + 1
              \/ /\ k > 1 /\ out[k - 1] = "0" /\ out[k] = "x"
                 /\ \A f \in place[k] + 1 .. place[k + 1] - 1 : s[f] \in Hexes
  BY <1>1, HexSteps
<1>4. \A k \in 1 .. Len(out) : \/ place[k + 1] = place[k] + 1
                               \/ \A f \in place[k] + 1 .. place[k + 1] - 1 : s[f] \in Hexes
  BY <1>3
<1>5. \A k \in 1 .. Len(out) + 1 : place[k] \in 1 .. Len(s) + 1
  BY <1>2 DEF Follows
<1>6. \A k \in 1 .. Len(out) : place[k] \in 1 .. Len(s) /\ At(s, place[k]) = out[k]
  <2>1. \A k \in 1 .. Len(out) : place[k] \in 1 .. Len(s)
    BY <1>2 DEF Follows
  <2> QED
    BY <1>2, <2>1, AtIs
<1>7. ASSUME NEW i \in 1 .. Len(out), NEW j \in i + 1 .. Len(out) + 1, IsEmail(out, i, j) PROVE FALSE
  <2>1. PICK at \in i + 1 .. j - 1, dot \in i + 1 .. j - 1 :
        /\ at + 1 < dot /\ dot + MinTld < j
        /\ All(out, i, at, LocalPart) /\ At(out, at) = "@"
        /\ All(out, at + 1, dot, Domain) /\ At(out, dot) = "." /\ All(out, dot + 1, j, Letters)
    BY <1>7 DEF IsEmail
  <2>2. MinTld \in Nat
    BY StrictAssumption
  <2>3. \A k \in i .. j - 1 : k \in 1 .. Len(out) /\ At(out, k) = out[k]
    BY <1>2, AtIs
  <2>4. /\ \A k \in i .. at - 1 : out[k] \in LocalPart
        /\ \A k \in at + 1 .. dot - 1 : out[k] \in Domain
        /\ \A k \in dot + 1 .. j - 1 : out[k] \in Letters
        /\ out[at] = "@" /\ out[dot] = "."
    <3>1. /\ \A k \in i .. at - 1 : k \in i .. j - 1 /\ At(out, k) \in LocalPart
          /\ \A k \in at + 1 .. dot - 1 : k \in i .. j - 1 /\ At(out, k) \in Domain
          /\ \A k \in dot + 1 .. j - 1 : k \in i .. j - 1 /\ At(out, k) \in Letters
      BY <2>1 DEF All
    <3>2. at \in i .. j - 1 /\ dot \in i .. j - 1
      BY <2>1
    <3> QED
      BY <2>1, <2>3, <3>1, <3>2
  <2>5. at \in 1 .. Len(out) /\ dot \in 1 .. Len(out) /\ at \in i .. Len(out) + 1 /\ at + 1 \in 1 .. Len(out)
        /\ dot \in at + 1 .. Len(out) + 1 /\ j \in dot .. Len(out) + 1 /\ j \in 1 .. Len(out) + 1
    BY <2>1, <2>2
  <2>6. place[at + 1] = place[at] + 1
    BY <1>3, <2>4, <2>5, HexesInClasses
  <2>7. \A f \in place[i] .. place[at] - 1 : At(s, f) \in LocalPart
    BY <1>2, <1>4, <2>4, <2>5, HexesInClasses, HexRun
  <2>8. \A f \in place[at + 1] .. place[dot] - 1 : At(s, f) \in Domain
    <3> DEFINE a == at + 1
    <3>1. a \in 1 .. Len(out) /\ dot \in a .. Len(out) + 1 /\ \A k \in a .. dot - 1 : out[k] \in Domain
      BY <2>4, <2>5
    <3> HIDE DEF a
    <3>2. \A f \in place[a] .. place[dot] - 1 : At(s, f) \in Domain
      BY <1>2, <1>4, <3>1, HexesInClasses, HexRun
    <3> QED
      BY <3>2 DEF a
  <2>9. Onward(place, dot, j)
    <3>1. ASSUME NEW k \in dot .. j - 1 PROVE place[k + 1] = place[k] + 1
      <4>1. k \in 1 .. Len(out)
        BY <2>5
      <4>2. CASE k = dot
        BY <1>3, <2>4, <4>1, <4>2, HexesInClasses
      <4>3. CASE k # dot
        <5>1. k - 1 = dot \/ k - 1 \in dot + 1 .. j - 1
          BY <2>5, <4>3
        <5>2. out[k - 1] # "0"
          BY <2>4, <5>1, HexesInClasses
        <5> QED
          BY <1>3, <4>1, <5>2
      <4> QED
        BY <4>2, <4>3
    <3> QED
      BY <3>1 DEF Onward
  <2>10. \A x \in 0 .. j - dot : place[dot + x] = place[dot] + x
    BY <1>2, <2>5, <2>9, Together
  <2>11. place[j] = place[dot] + (j - dot)
    <3>1. j - dot \in 0 .. j - dot /\ dot + (j - dot) = j
      BY <2>5
    <3> QED
      BY <2>10, <3>1
  <2>12. \A f \in place[dot] + 1 .. place[j] - 1 : At(s, f) \in Letters
    <3>1. ASSUME NEW f \in place[dot] + 1 .. place[j] - 1 PROVE At(s, f) \in Letters
      <4> DEFINE x == f - place[dot]
      <4>1. place[dot] \in Int
        BY <1>6, <2>5
      <4>2. x \in 0 .. j - dot /\ dot + x \in dot + 1 .. j - 1 /\ place[dot] + x = f
        <5> DEFINE b == place[dot]
                   e == place[j]
        <5>1. b \in Int /\ e = b + (j - dot) /\ f \in b + 1 .. e - 1 /\ x = f - b /\ j \in Int /\ dot \in Int
          BY <2>5, <2>11, <4>1
        <5> HIDE DEF b, e, x
        <5>2. x \in 0 .. j - dot /\ dot + x \in dot + 1 .. j - 1 /\ b + x = f
          BY <5>1
        <5> QED
          BY <5>2 DEF b
      <4>3. place[dot + x] = f /\ dot + x \in 1 .. Len(out)
        BY <2>5, <2>10, <4>2
      <4>4. At(s, f) = out[dot + x]
        BY <1>6, <4>3
      <4> QED
        BY <2>4, <4>2, <4>4
    <3> QED
      BY <3>1
  <2> DEFINE p == place[i]
             e == place[j]
             a == place[at]
             b == place[dot]
  <2>13. p \in 1 .. Len(s) /\ e \in 1 .. Len(s) + 1 /\ a \in 1 .. Len(s) /\ b \in 1 .. Len(s)
    BY <1>5, <1>6, <2>5
  <2>14. p < a
    <3>1. i \in 1 .. Len(out) + 1 /\ at - i \in Nat /\ i + (at - i) <= Len(out) + 1 /\ i + (at - i) = at /\ at - i >= 1
      BY <2>1, <2>5
    <3>2. place[i] + (at - i) <= place[i + (at - i)]
      BY <1>2, <3>1, PlacesGrow
    <3>3. p + (at - i) <= a
      BY <3>1, <3>2
    <3> HIDE DEF p, a
    <3> QED
      BY <2>13, <3>1, <3>3
  <2>15. a + 1 < b
    <3> DEFINE c == at + 1
               d == dot - c
    <3>1. c \in 1 .. Len(out) + 1 /\ d \in Nat /\ c + d = dot /\ c + d <= Len(out) + 1 /\ d >= 1
      BY <2>1, <2>5
    <3>2. place[c] = a + 1
      BY <2>6
    <3> HIDE DEF c, d
    <3>3. place[c] + d <= place[c + d]
      BY <1>2, <3>1, PlacesGrow
    <3>4. (a + 1) + d <= b
      BY <3>1, <3>2, <3>3
    <3> HIDE DEF a, b
    <3> QED
      BY <2>13, <3>1, <3>4
  <2>16. b + MinTld < e
    <3>1. e = b + (j - dot)
      BY <2>11
    <3>2. MinTld < j - dot /\ j - dot \in Int
      BY <2>1, <2>2, <2>5
    <3> HIDE DEF e, b
    <3> QED
      BY <2>2, <2>13, <3>1, <3>2
  <2>17. At(s, a) = "@" /\ At(s, b) = "."
    BY <1>6, <2>4, <2>5
  <2>18. All(s, p, a, LocalPart) /\ All(s, a + 1, b, Domain) /\ All(s, b + 1, e, Letters)
    BY <2>6, <2>7, <2>8, <2>12 DEF All
  <2> HIDE DEF a, b, p, e
  <2>19. IsEmail(s, p, e) /\ e \in p + 1 .. Len(s) + 1
    <3>1. a \in p + 1 .. e - 1 /\ b \in p + 1 .. e - 1
      BY <2>2, <2>13, <2>14, <2>15, <2>16
    <3>2. e \in p + 1 .. Len(s) + 1
      BY <2>13, <3>1
    <3> QED
      BY <2>15, <2>16, <2>17, <2>18, <3>1, <3>2 DEF IsEmail
  <2> QED
    BY <2>13, <2>19 DEF NoEmailIn
<1> QED
  BY <1>7 DEF NoEmailIn, out

\* No end of a line is taken out with a hex id, so that no two lines become one.
LEMMA OneQuoteBehindHexIds ==
  ASSUME NEW S, NEW s \in Seq(S), NEW quote, quote \notin LineEnds, OneQuoteALine(s, quote)
  PROVE  OneQuoteALine(ReplaceHexIds(s), quote)
<1> DEFINE out == ReplaceHexIds(s)
<1>1. PICK place : HexWay(s, out, place) /\ place[1] = 1
  BY HexWayFrom
<1> HIDE DEF out
<1>2. /\ Follows(s, out, place) /\ out \in Seq(S)
      /\ \A k \in 1 .. Len(out) : out[k] = s[place[k]]
  BY <1>1, HexSteps
<1>3. \A k \in 1 .. Len(out) :
              \/ place[k + 1] = place[k] + 1
              \/ \A f \in place[k] + 1 .. place[k + 1] - 1 : s[f] \in Hexes
  BY <1>1, HexSteps
<1>4. \A k \in 1 .. Len(out) + 1 : place[k] \in 1 .. Len(s) + 1
  BY <1>2 DEF Follows
<1>5. \A c \in LineEnds : c \notin Hexes
  BY HexesInClasses, Zenon DEF LineEnds
<1>6. ASSUME NEW k \in 1 .. Len(out)
      PROVE  \A f \in place[k] + 1 .. place[k + 1] - 1 : s[f] \notin LineEnds
  <2>1. CASE place[k + 1] = place[k] + 1
    <3>1. place[k] \in Int
      BY <1>4
    <3> QED
      BY <2>1, <3>1
  <2>2. CASE place[k + 1] # place[k] + 1
    BY <1>3, <1>5, <2>2
  <2> QED
    BY <2>1, <2>2
<1>7. ASSUME NEW i \in 1 .. Len(out), NEW j \in i + 1 .. Len(out), out[i] = quote, out[j] = quote,
             \A k \in i + 1 .. j - 1 : out[k] \notin LineEnds
      PROVE  FALSE
  <2>1. \A k \in i .. j : k \in 1 .. Len(out) /\ out[k] \notin LineEnds
    <3>1. \A k \in i .. j : k \in 1 .. Len(out) /\ (k = i \/ k = j \/ k \in i + 1 .. j - 1)
      OBVIOUS
    <3> QED
      BY <1>7, <3>1
  <2>2. \A f \in place[i] .. place[j] : s[f] \notin LineEnds
    <3>1. j \in i .. Len(out) /\ \A k \in i .. j : out[k] \notin LineEnds
      BY <2>1
    <3>2. \A k \in i .. j : out[k] = s[place[k]] \/ s[place[k]] \notin LineEnds
      BY <1>2, <2>1
    <3>3. \A k \in i .. j : \A f \in place[k] + 1 .. place[k + 1] - 1 : s[f] \notin LineEnds
      BY <1>6, <2>1
    <3> QED
      BY <1>2, <3>1, <3>2, <3>3, LinesStay
  <2> DEFINE a == place[i]
             b == place[j]
  <2>3. a \in 1 .. Len(s) /\ b \in 1 .. Len(s)
    BY <1>2, <2>1 DEF Follows
  <2>4. a < b
    <3>1. i \in 1 .. Len(out) + 1 /\ j - i \in Nat /\ i + (j - i) <= Len(out) + 1 /\ i + (j - i) = j /\ j - i >= 1
      OBVIOUS
    <3>2. place[i] + (j - i) <= place[i + (j - i)]
      BY <1>2, <3>1, PlacesGrow
    <3>3. a + (j - i) <= b
      BY <3>1, <3>2
    <3> HIDE DEF a, b
    <3> QED
      BY <2>3, <3>1, <3>3
  <2>5. s[a] = quote /\ s[b] = quote
    BY <1>2, <1>7
  <2> HIDE DEF a, b
  <2>6. PICK k \in a + 1 .. b - 1 : s[k] \in LineEnds
    <3>1. b \in a + 1 .. Len(s)
      BY <2>3, <2>4
    <3> QED
      BY <2>3, <2>5, <3>1 DEF OneQuoteALine
  <2>7. k \in a .. b
    BY <2>3, <2>6
  <2> QED
    BY <2>2, <2>6, <2>7 DEF a, b
<1> QED
  BY <1>7 DEF OneQuoteALine, out

Quotation  == "\""
Apostrophe == "'"

LEMMA QuotationMarks ==
  /\ Quotation # NoByte /\ Quotation \notin LineEnds /\ Quotation \notin PassMarks
  /\ Apostrophe # NoByte /\ Apostrophe \notin LineEnds
BY Zenon DEF Quotation, Apostrophe, NoByte, LineEnds, PassMarks

\* Uuids and numbers lie on one line.
LEMMA UuidsOnLine ==
  ASSUME NEW S, NEW s \in Seq(S)
  PROVE  MatchesOnLine(s, UuidEnds(s))
<1> SUFFICES ASSUME NEW x \in 1 .. Len(s), UuidEnd(s, x) # 0, NEW f \in x .. UuidEnd(s, x) - 1
             PROVE  s[f] \notin LineEnds
  BY DEF MatchesOnLine, UuidEnds
<1>1. /\ \A offset \in 0 .. UuidLength - 1 : UuidByte(s, x, offset)
      /\ UuidEnd(s, x) = x + UuidLength
  BY UuidIs
<1>2. UuidLength \in Nat
  BY UuidEdges
<1>3. f - x \in 0 .. UuidLength - 1 /\ x + (f - x) = f
  BY <1>1, <1>2
<1>4. At(s, f) \in Hexes \cup {"-"}
  BY <1>1, <1>3 DEF UuidByte
<1>5. NoByte \notin Hexes \cup {"-"}
  <2>1. NoByte \notin Hexes
    BY NotWords, ClassesNest
  <2>2. NoByte # "-"
    BY Zenon DEF NoByte
  <2> QED
    BY <2>1, <2>2, Zenon
<1>6. s[f] \in Hexes \cup {"-"}
  <2>1. f \in Int
    OBVIOUS
  <2> QED
    BY <1>4, <1>5, <2>1, AtIn
<1>7. "-" \notin LineEnds
  BY Zenon DEF LineEnds
<1>8. \A c \in LineEnds : c \notin Hexes
  BY HexesInClasses, Zenon DEF LineEnds
<1> QED
  BY <1>6, <1>7, <1>8

LEMMA NumbersOnLine ==
  ASSUME NEW S, NEW s \in Seq(S)
  PROVE  MatchesOnLine(s, NumberEnds(s))
<1> SUFFICES ASSUME NEW x \in 1 .. Len(s), NumberRunEnd(s, x) # 0, NEW f \in x .. NumberRunEnd(s, x) - 1
             PROVE  s[f] \notin LineEnds
  BY DEF MatchesOnLine, NumberEnds
<1>1. NumberRunEnd(s, x) = RunEnd(s, x, Digits)
  BY Zenon DEF NumberRunEnd
<1>2. NoByte \notin Digits
  BY NotBytes
<1>3. s[f] \in Digits
  BY <1>1, <1>2, RunEndIs
<1>4. \A c \in LineEnds : c \notin Hexes
  BY HexesInClasses, Zenon DEF LineEnds
<1> QED
  BY <1>3, <1>4, ClassesNest

\* A pass that puts marks in the place of its matches brings no email and no hex id about, and
\* no two quotes on a line.
LEMMA MarkingKeeps ==
  ASSUME NEW S, NEW s \in Seq(S), PassMarks \subseteq S, NEW end, NEW mark \in PassMarks, NEW out,
         IsMarking(s, end, mark, out), MatchesOnLine(s, end)
  PROVE  /\ out \in Seq(S)
         /\ NoEmailIn(s) => NoEmailIn(out)
         /\ NoHexIdIn(s) => NoHexIdIn(out)
         /\ OneQuoteALine(s, Quotation) => OneQuoteALine(out, Quotation)
<1>1. out \in Seq(S)
  <2>1. out \in Seq({s[i] : i \in 1 .. Len(s)} \cup {mark})
    BY DEF IsMarking, IsWay
  <2>2. {s[i] : i \in 1 .. Len(s)} \cup {mark} \subseteq S
    OBVIOUS
  <2> QED
    BY <2>1, <2>2
<1>2. ASSUME NoEmailIn(s), NEW i \in 1 .. Len(out), NEW j \in i + 1 .. Len(out) + 1, IsEmail(out, i, j) PROVE FALSE
  <2>1. \E p \in 1 .. Len(s) : end[p] = 0 /\ \E e \in p + 1 .. Len(s) + 1 : IsEmail(s, p, e)
    BY <1>1, <1>2, EmailWas
  <2> QED
    BY <1>2, <2>1 DEF NoEmailIn
<1>3. ASSUME NoHexIdIn(s), NEW i \in 1 .. Len(out), NEW j \in i + 1 .. Len(out) + 1, IsHexId(out, i, j) PROVE FALSE
  <2>1. \E p \in 1 .. Len(s) : end[p] = 0 /\ \E e \in p + 1 .. Len(s) + 1 : IsHexId(s, p, e)
    BY <1>1, <1>3, HexIdWas
  <2> QED
    BY <1>3, <2>1 DEF NoHexIdIn
<1>4. OneQuoteALine(s, Quotation) => OneQuoteALine(out, Quotation)
  <2>1. Quotation # mark /\ Quotation \notin LineEnds
    BY QuotationMarks
  <2> QED
    BY <1>1, <2>1, OneQuoteStays
<1> QED
  BY <1>1, <1>2, <1>3, <1>4 DEF NoEmailIn, NoHexIdIn

\* No uuid is brought about by a pass whose matches border on no word byte.
LEMMA UuidsStayGone ==
  ASSUME NEW S, NEW s \in Seq(S), NEW end, NEW mark \in PassMarks, NEW T, NEW out \in Seq(T),
         IsMarking(s, end, mark, out), StandsFree(s, end), NoUuidIn(s)
  PROVE  NoUuidIn(out)
<1>1. ASSUME NEW i \in 1 .. Len(out), UuidEnd(out, i) # 0 PROVE FALSE
  <2>1. \E p \in 1 .. Len(s) : end[p] = 0 /\ UuidEnd(s, p) # 0
    BY <1>1, UuidWas
  <2> QED
    BY <2>1 DEF NoUuidIn
<1> QED
  BY <1>1 DEF NoUuidIn

\* Where no line holds two of a quote, no quoted run starts.
LEMMA NoQuoteStarts ==
  ASSUME NEW S, NEW s \in Seq(S), NEW quote, quote # NoByte, OneQuoteALine(s, quote)
  PROVE  \A i \in 1 .. Len(s) : QuoteEnds(s, quote, FALSE)[i] = 0
<1>1. ASSUME NEW i \in 1 .. Len(s), QuoteEnds(s, quote, FALSE)[i] # 0 PROVE FALSE
  <2> DEFINE end  == QuoteEnds(s, quote, FALSE)[i]
             ends == {j \in i + 1 .. Len(s) + 1 : IsQuoted(s, i, j, quote, FALSE)}
  <2>0. end # 0
    BY <1>1
  <2>1. end = LongestOf(ends)
    BY QuotedRunIs DEF QuoteEnds
  <2>2. ends \in SUBSET (i + 1 .. Len(s) + 1) /\ Len(s) \in Nat
    <3>1. ends \subseteq i + 1 .. Len(s) + 1
      BY Zenon
    <3>2. Len(s) \in Nat
      OBVIOUS
    <3> QED
      BY <3>1, <3>2, Zenon
  <2>3. ends # {}
    <3> HIDE DEF ends, end
    <3> QED
      BY <2>0, <2>1, <2>2, LongestIsOne
  <2>4. PICK j \in i + 1 .. Len(s) + 1 : IsQuoted(s, i, j, quote, FALSE)
    BY <2>3
  <2>5. /\ i + 1 < j /\ s[i] = quote /\ At(s, j - 1) = quote
        /\ \A k \in i + 1 .. j - 2 : s[k] \notin {quote, "\r", "\n"}
    BY <2>4 DEF IsQuoted
  <2>6. \A k \in i + 1 .. j - 2 : s[k] \notin LineEnds
    BY <2>5 DEF LineEnds
  <2> DEFINE b == j - 1
  <2>7. b \in i + 1 .. Len(s) /\ b \in 1 .. Len(s) /\ b - 1 = j - 2
    BY <2>4, <2>5
  <2> HIDE DEF b
  <2>8. s[b] = quote
    BY <2>5, <2>7, AtIs DEF b
  <2> QED
    BY <1>1, <2>5, <2>6, <2>7, <2>8 DEF OneQuoteALine
<1> QED
  BY <1>1

\* A text that holds none of them stays as it is.
LEMMA NothingToReplace ==
  ASSUME NEW S, NEW s \in Seq(S)
  PROVE  /\ NoEmailIn(s) => ReplaceEmails(s) = s
         /\ OneQuoteALine(s, Quotation) => ReplaceQuoted(s, Quotation, FALSE) = s
         /\ NoHexIdIn(s) => ReplaceHexIds(s) = s
         /\ NoUuidIn(s) => ReplaceUuids(s) = s
         /\ NoNumberIn(s) => ReplaceNumbers(s) = s
<1>1. ASSUME NoEmailIn(s) PROVE ReplaceEmails(s) = s
  <2> DEFINE E == EmailEnds(s)
  <2>1. ASSUME NEW i \in 1 .. Len(s) PROVE E[i] = 0
    <3> DEFINE ends == {j \in i + 1 .. Len(s) + 1 : IsEmail(s, i, j)}
    <3>1. E[i] = LongestOf(ends)
      BY EmailAtIs DEF EmailEnds
    <3>2. ends = {}
      BY <1>1 DEF NoEmailIn
    <3> QED
      BY <3>1, <3>2 DEF LongestOf
  <2>2. ReplaceEmails(s) = PieceFor(s, E, <<"<email>">>)
    BY EmailsAre
  <2> HIDE DEF E
  <2> QED
    BY <2>1, <2>2, Untouched
<1>2. ASSUME OneQuoteALine(s, Quotation) PROVE ReplaceQuoted(s, Quotation, FALSE) = s
  <2> DEFINE E == QuoteEnds(s, Quotation, FALSE)
  <2>1. \A i \in 1 .. Len(s) : E[i] = 0
    BY <1>2, NoQuoteStarts, QuotationMarks
  <2>2. ReplaceQuoted(s, Quotation, FALSE) = PieceFor(s, E, <<"<str>">>)
    BY QuotesAre, QuotationMarks
  <2> HIDE DEF E
  <2> QED
    BY <2>1, <2>2, Untouched
<1>3. ASSUME NoHexIdIn(s) PROVE ReplaceHexIds(s) = s
  <2> DEFINE E == HexEnds(s)
  <2>1. ASSUME NEW i \in 1 .. Len(s) PROVE E[i] = 0
    <3> DEFINE ends == {j \in i + 1 .. Len(s) + 1 : IsHexId(s, i, j)}
    <3>1. E[i] = LongestOf(ends)
      BY HexIdEndIs DEF HexEnds, LongestOf
    <3>2. ends = {}
      BY <1>3 DEF NoHexIdIn
    <3> QED
      BY <3>1, <3>2 DEF LongestOf
  <2>2. ReplaceHexIds(s) = PieceFor(s, E, <<"0", "x">>)
    BY HexIdsAre
  <2> HIDE DEF E
  <2> QED
    BY <2>1, <2>2, Untouched
<1>4. ASSUME NoUuidIn(s) PROVE ReplaceUuids(s) = s
  <2> DEFINE E == UuidEnds(s)
  <2>1. \A i \in 1 .. Len(s) : E[i] = 0
    BY <1>4 DEF NoUuidIn, UuidEnds
  <2>2. ReplaceUuids(s) = PieceFor(s, E, <<"<uuid>">>)
    BY UuidsAre
  <2> HIDE DEF E
  <2> QED
    BY <2>1, <2>2, Untouched
<1>5. ASSUME NoNumberIn(s) PROVE ReplaceNumbers(s) = s
  <2> DEFINE E == NumberEnds(s)
  <2>1. \A i \in 1 .. Len(s) : E[i] = 0
    BY <1>5 DEF NoNumberIn, NumberEnds
  <2>2. ReplaceNumbers(s) = PieceFor(s, E, <<"<n>">>)
    BY NumbersAre
  <2> HIDE DEF E
  <2> QED
    BY <2>1, <2>2, Untouched
<1> QED
  BY <1>1, <1>2, <1>3, <1>4, <1>5

\* What is fingerprinted holds no email, no double-quoted run, no id and no number: each pass
\* takes its own out, and no later pass brings another one's about, though the pass over the
\* hex ids brings bytes together that stood apart (normalize_message()).
THEOREM NoValueIsLeft ==
  ASSUME NEW S, NEW s \in Seq(S)
  PROVE  HoldsNoValue(s)
<1> DEFINE T == S \cup PassMarks
           emails  == ReplaceEmails(s)
           doubles == ReplaceQuoted(emails, Quotation, FALSE)
           singles == ReplaceQuoted(doubles, Apostrophe, TRUE)
           ids     == ReplaceHexIds(singles)
           uuids   == ReplaceUuids(ids)
           n       == ReplaceNumbers(uuids)
<1>0. PassMarks \subseteq T /\ "<str>" \in PassMarks /\ "<uuid>" \in PassMarks /\ "<n>" \in PassMarks
  BY Zenon DEF PassMarks
<1>1. emails \in Seq(T) /\ NoEmailIn(emails)
  BY EmailsGone
<1> HIDE DEF T, emails
<1>2. doubles \in Seq(T) /\ NoEmailIn(doubles) /\ OneQuoteALine(doubles, Quotation)
  <2> DEFINE E == QuoteEnds(emails, Quotation, FALSE)
  <2>1. doubles = PieceFor(emails, E, <<"<str>">>) /\ GoesForward(emails, E)
    BY <1>1, QuotesAre, QuotationMarks
  <2>2. MatchesOnLine(emails, E)
    BY <1>1, QuotedRunsOnLine, QuotationMarks
  <2>3. OneQuoteALine(doubles, Quotation)
    <3>1. Quotation # "<str>"
      BY <1>0, QuotationMarks
    <3> QED
      BY <1>1, <3>1, QuotesGone, QuotationMarks
  <2> HIDE DEF E, doubles
  <2>4. IsMarking(emails, E, "<str>", doubles)
    BY <1>1, <2>1, PiecesMark
  <2> QED
    BY <1>0, <1>1, <2>2, <2>3, <2>4, MarkingKeeps
<1> HIDE DEF doubles
<1>3. singles \in Seq(T) /\ NoEmailIn(singles) /\ OneQuoteALine(singles, Quotation)
  <2> DEFINE E == QuoteEnds(doubles, Apostrophe, TRUE)
  <2>1. singles = PieceFor(doubles, E, <<"<str>">>) /\ GoesForward(doubles, E)
    BY <1>2, QuotesAre, QuotationMarks
  <2>2. MatchesOnLine(doubles, E)
    BY <1>2, QuotedRunsOnLine, QuotationMarks
  <2> HIDE DEF E, singles
  <2>3. IsMarking(doubles, E, "<str>", singles)
    BY <1>2, <2>1, PiecesMark
  <2> QED
    BY <1>0, <1>2, <2>2, <2>3, MarkingKeeps
<1> HIDE DEF singles
<1>4. ids \in Seq(T) /\ NoEmailIn(ids) /\ OneQuoteALine(ids, Quotation) /\ NoHexIdIn(ids)
  <2>1. ids \in Seq(T) /\ NoHexIdIn(ids)
    BY <1>3, HexIdsGone
  <2>2. NoEmailIn(ids)
    BY <1>3, NoEmailBehindHexIds
  <2>3. OneQuoteALine(ids, Quotation)
    BY <1>3, OneQuoteBehindHexIds, QuotationMarks
  <2> QED
    BY <2>1, <2>2, <2>3
<1> HIDE DEF ids
<1>5. uuids \in Seq(T) /\ NoEmailIn(uuids) /\ OneQuoteALine(uuids, Quotation) /\ NoHexIdIn(uuids) /\ NoUuidIn(uuids)
  <2> DEFINE E == UuidEnds(ids)
  <2>1. uuids = PieceFor(ids, E, <<"<uuid>">>) /\ GoesForward(ids, E)
    BY <1>4, UuidsAre
  <2>2. MatchesOnLine(ids, E)
    BY <1>4, UuidsOnLine
  <2>3. NoUuidIn(uuids)
    BY <1>4, UuidsGone
  <2> HIDE DEF E, uuids
  <2>4. IsMarking(ids, E, "<uuid>", uuids)
    BY <1>4, <2>1, PiecesMark
  <2> QED
    BY <1>0, <1>4, <2>2, <2>3, <2>4, MarkingKeeps
<1> HIDE DEF uuids
<1>6. n \in Seq(T) /\ NoEmailIn(n) /\ OneQuoteALine(n, Quotation) /\ NoHexIdIn(n) /\ NoUuidIn(n) /\ NoNumberIn(n)
  <2> DEFINE E == NumberEnds(uuids)
  <2>1. n = PieceFor(uuids, E, <<"<n>">>) /\ GoesForward(uuids, E)
    BY <1>5, NumbersAre
  <2>2. MatchesOnLine(uuids, E) /\ StandsFree(uuids, E)
    BY <1>5, NumbersOnLine, NumbersStandFree
  <2>3. NoNumberIn(n)
    BY <1>5, NumbersGone
  <2> HIDE DEF E, n
  <2>4. IsMarking(uuids, E, "<n>", n)
    BY <1>5, <2>1, PiecesMark
  <2>5. n \in Seq(T) /\ NoEmailIn(n) /\ OneQuoteALine(n, Quotation) /\ NoHexIdIn(n)
    BY <1>0, <1>5, <2>2, <2>4, MarkingKeeps
  <2>6. NoUuidIn(n)
    BY <1>0, <1>5, <2>2, <2>4, <2>5, UuidsStayGone
  <2> QED
    BY <2>3, <2>5, <2>6
<1> HIDE DEF n
<1>7. /\ ReplaceEmails(n) = n /\ ReplaceQuoted(n, Quotation, FALSE) = n /\ ReplaceHexIds(n) = n
      /\ ReplaceUuids(n) = n /\ ReplaceNumbers(n) = n
  BY <1>6, NothingToReplace
<1>8. NormalizeMessage(s) = n
  BY Zenon DEF NormalizeMessage, n, uuids, ids, singles, doubles, emails, Quotation, Apostrophe
<1> QED
  BY <1>7, <1>8, Zenon DEF HoldsNoValue, Quotation

-----------------------------------------------------------------------------
(* The specification *)

\* What the bytes of a text are made of.
Bytes == subject.alphabet \cup Range(subject.start)

\* The inductive invariant: a text is a sequence of its subject's bytes.
TextInv == /\ subject \in Subjects /\ text \in Seq(Bytes)
           /\ EventsInv

LEMMA TextStart == Init => TextInv
<1> SUFFICES ASSUME Init PROVE TextInv
  OBVIOUS
<1>1. /\ subject \in Subjects /\ text = subject.start /\ EventsInit
  BY DEF Init
<1>2. subject.start \in Seq(Range(subject.start))
  BY <1>1, RedactionAssumption
<1>3. text \in Seq(Bytes)
  BY <1>1, <1>2 DEF Bytes
<1> QED
  BY <1>1, <1>3, EventsStart DEF TextInv

LEMMA TextStep == TextInv /\ [Next]_vars => TextInv'
<1> SUFFICES ASSUME TextInv, [Next]_vars PROVE TextInv'
  OBVIOUS
<1>0. /\ subject \in Subjects /\ text \in Seq(Bytes) /\ EventsInv
  BY DEF TextInv
<1>1. ASSUME UNCHANGED eventVars PROVE EventsInv'
  BY <1>0, <1>1 DEF EventsInv, eventVars, TrailIsLatest
<1>2. ASSUME UNCHANGED subject PROVE Bytes' = Bytes
  BY <1>2 DEF Bytes
<1>3. CASE Extend
  <2>1. PICK next \in subject.alphabet : text' = Append(text, next)
    BY <1>3 DEF Extend
  <2>2. UNCHANGED subject /\ UNCHANGED eventVars
    BY <1>3 DEF Extend
  <2>3. next \in Bytes
    BY DEF Bytes
  <2>4. text' \in Seq(Bytes)
    BY <1>0, <2>1, <2>3
  <2> QED
    BY <1>0, <1>1, <1>2, <2>2, <2>4 DEF TextInv
<1>4. CASE Capturing
  <2>1. EventsNext /\ UNCHANGED <<subject, text>>
    BY <1>4 DEF Capturing
  <2>2. EventsInv'
    BY <1>0, <2>1, EventsStep
  <2> QED
    BY <1>0, <1>2, <2>1, <2>2 DEF TextInv
<1>5. CASE UNCHANGED vars
  <2>1. UNCHANGED <<subject, text>> /\ UNCHANGED eventVars
    BY <1>5 DEF vars
  <2> QED
    BY <1>0, <1>1, <1>2, <2>1 DEF TextInv
<1> QED
  BY <1>3, <1>4, <1>5 DEF Next

\* Every text stays one of its subject's bytes, and the breadcrumbs stay the latest, in
\* every behaviour.
THEOREM TextsStayTexts == Spec => []TextInv
BY TextStart, TextStep, PTL DEF Spec

\* In every behaviour, every scanner written by hand finds what its pattern finds
\* (strict_privacy.cpp, sql_statement.cpp, pii_scrubber.cpp).
THEOREM EveryScannerMatches == Spec => []ScannersMatchTheirPatterns
<1>1. TextInv => ScannersMatchTheirPatterns
  <2> SUFFICES ASSUME TextInv PROVE ScannersMatchTheirPatterns
    OBVIOUS
  <2>1. text \in Seq(Bytes)
    BY DEF TextInv
  <2>2. AgreesWithTheServer(text) /\ HidesNumbers(text) /\ FindsIbans(text) /\ FindsCards(text)
    BY <2>1, Agreement, NumbersFound, IbansFound, CardsFound
  <2> QED
    BY <2>2 DEF ScannersMatchTheirPatterns
<1> QED
  BY <1>1, TextsStayTexts, PTL

\* In every behaviour, what a message's fingerprint is made of holds no email, no double-quoted
\* value, no id and no number (strict_privacy.cpp's normalize_message()).
THEOREM NoValueGoesOut == Spec => []MessagesHoldNoValue
<1>1. TextInv => MessagesHoldNoValue
  <2> SUFFICES ASSUME TextInv PROVE MessagesHoldNoValue
    OBVIOUS
  <2>1. text \in Seq(Bytes)
    BY DEF TextInv
  <2> QED
    BY <2>1, NoValueIsLeft DEF MessagesHoldNoValue
<1> QED
  BY <1>1, TextsStayTexts, PTL

\* In every behaviour, no string literal of the statement that was read leaves masked text,
\* masked once or twice, what is cut is cut between characters, no card number is left in a
\* scrubbed text, nothing below a sensitive key goes out, and an address shows its host alone
\* (sql_statement.cpp, change.cpp, pii_scrubber.cpp, strict_privacy.cpp).
THEOREM SecretsStayIn == Spec => []SecretsAreMasked
<1>1. TextInv => SecretsAreMasked
  <2> SUFFICES ASSUME TextInv PROVE SecretsAreMasked
    OBVIOUS
  <2>1. text \in Seq(Bytes)
    BY DEF TextInv
  <2>2. NoByte \notin Continuations
    BY DEF NoByte, Continuations
  <2>3. \A mysql \in BOOLEAN : HidesStrings(text, mysql) /\ MaskIsFinal(text, mysql)
    BY <2>1, StringsHidden, FinalMask
  <2>4. CutsWhole(text) /\ TitleIsWhole(text)
    BY <2>1, <2>2, CutKeeps, TitleKeeps
  <2>5. LeavesNoCard(text) /\ KnowsKeys(text) /\ HidesBelowKeys(text)
    BY <2>1, NoCardIsLeft, KeysAreKnown, HiddenBelowKeys
  <2>6. HostIsBare(text)
    BY <2>1, HostsAreBare
  <2>7. PathIsBare(text) /\ NameIsBare(text)
    BY <2>1, PathsAreBare, NamesAreBare
  <2> QED
    BY <2>3, <2>4, <2>5, <2>6, <2>7 DEF SecretsAreMasked
<1> QED
  BY <1>1, TextsStayTexts, PTL

\* In every behaviour, an event keeps to the configuration it is captured under
\* (event_builder.cpp, strict_privacy.cpp); a database span's statement goes out masked
\* for the db.system beside it, and otherwise for none but where set_statement() was not
\* told of a MySQL in the data; and under strict privacy a span of any kind keeps those
\* two fields only (span_buffer.cpp): that another kind's statement is masked is not
\* said, and not so (StrictSpansSendNoSql).  Each kind of report has its own address, a
\* trace header goes to a listed host only and continues the trace that came in
\* (trace_propagation.cpp), and a request with a time ends within it (client.cpp).
THEOREM PolicyIsKept == Spec => []OutgoingKeepsToPolicy
<1>1. TextInv => OutgoingKeepsToPolicy
  <2> SUFFICES ASSUME TextInv PROVE OutgoingKeepsToPolicy
    OBVIOUS
  <2>1. EventsKeepToPolicy
    BY PolicyKept DEF TextInv
  <2>2. EndpointsDiffer(text)
    <3>1. text \in Seq(Bytes)
      BY DEF TextInv
    <3> QED
      BY <3>1, EachHasItsEndpoint
  <2>3. ASSUME NEW target \in Targets PROVE HeaderStaysHome(text, target)
    <3> DEFINE S == Bytes \cup Range(target)
    <3>1. text \in Seq(Bytes) /\ target \in Seq(Range(target))
      BY RedactionAssumption DEF TextInv
    <3>2. text \in Seq(S) /\ target \in Seq(S)
      BY <3>1
    <3> QED
      BY <3>2, HeadersStayHome
  <2>4. ASSUME NEW timeoutSeconds \in Times, NEW maxTime \in Times
        PROVE  /\ LimitHolds(timeoutSeconds, maxTime)
               /\ \A uri, key \in {{}, {"given"}}, answer \in Answers :
                    LetGoOnlyWhenTold(uri, key, timeoutSeconds, maxTime, answer)
    <3>1. timeoutSeconds \in Int /\ maxTime \in Int /\ Answers \subseteq Int
      BY RedactionAssumption
    <3>2. LimitHolds(timeoutSeconds, maxTime)
      BY <3>1, LimitIsTheSooner
    <3>3. ASSUME NEW uri \in {{}, {"given"}}, NEW key \in {{}, {"given"}}, NEW answer \in Answers
          PROVE  LetGoOnlyWhenTold(uri, key, timeoutSeconds, maxTime, answer)
      BY <3>1, NothingIsLetGoUnasked
    <3> QED
      BY <3>2, <3>3
  <2>5. TraceIsContinued(text)
    <3>1. text \in Seq(Bytes)
      BY DEF TextInv
    <3> QED
      BY <3>1, TracesAreContinued
  <2> QED
    BY <2>1, <2>2, <2>3, <2>4, <2>5 DEF OutgoingKeepsToPolicy
<1> QED
  BY <1>1, TextsStayTexts, PTL
==============================================================================
