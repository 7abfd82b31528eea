---------------------------- MODULE Configuration ----------------------------
(***************************************************************************)
(* configuration.cpp: what a DSN says - the api key and the address that    *)
(* reports go to - the endpoints derived from it, and the list of allowed   *)
(* fields in the environment.  A DSN's scheme and the word "events" are one *)
(* byte each; the pattern it must match is std::regex's, and what matters   *)
(* of it is where the key ends and the address begins.                      *)
(***************************************************************************)
EXTENDS Text

HexOrder == DigitOrder \o <<"a", "b", "c", "d", "e", "f">>

HexValue(c) == Rank(Lower(<<c>>)[1], HexOrder)

\* The byte of a value; all that is neither a letter nor a digit is one byte.
Char(v) == CASE v \in 48 .. 57  -> DigitOrder[v - 47]
             [] v \in 65 .. 90  -> UpperOrder[v - 64]
             [] v \in 97 .. 122 -> LowerOrder[v - 96]
             [] OTHER -> "?"

\* What std::hex reads from two bytes: as much as it can, so that a second
\* byte that is no digit is lost.
HexPair(a, b) ==
  CASE a \in Hexes /\ b \in Hexes -> {16 * HexValue(a) + HexValue(b)}
    [] a \in Hexes /\ b \notin Hexes -> IF a = "0" /\ b \in {"x", "X"} THEN {} ELSE {HexValue(a)}
    [] a \in Spaces \cup {"+"} /\ b \in Hexes -> {HexValue(b)}
    [] a = "-" /\ b \in Hexes -> {(256 - HexValue(b)) % 256}
    [] OTHER -> {}

PercentDecode(s) ==
  LET Escaped(i) == IF s[i] = "%" /\ i + 2 <= Len(s) THEN HexPair(s[i + 1], s[i + 2]) ELSE {}
  IN  Replace(s, LAMBDA i : IF Escaped(i) = {} THEN 0 ELSE i + 3,
              LAMBDA i, e : <<Char(CHOOSE v \in Escaped(i) : TRUE)>>)

\* parse(): {} is std::nullopt.  The text before the first "@" is the key, when
\* it holds neither a colon nor a slash and a host follows; otherwise all that
\* follows the scheme is the address, and there is no key.
ParseDsn(dsn) ==
  LET rest == SubSeq(dsn, 5, Len(dsn))
      at   == Find(rest, 1, {":", "@", "/"})
      host == IF At(rest, at) = "@" /\ At(rest, at + 1) \notin {NoByte, "/"} THEN at + 1 ELSE 1
  IN  IF /\ At(dsn, 1) \in {"http", "https"} /\ IsPrefix(<<":", "/", "/">>, Tail(dsn))
         /\ At(rest, host) \notin {NoByte, "/"}
      THEN {[key |-> PercentDecode(SubSeq(rest, 1, host - 2)),
             uri |-> SubSeq(dsn, 1, 4) \o SubSeq(rest, host, Len(rest))]}
      ELSE {}

\* api_key() and ingestion_uri()
ApiKey(dsn)       == {parsed.key : parsed \in ParseDsn(dsn)} \ {<<>>}
IngestionUri(dsn) == {parsed.uri : parsed \in ParseDsn(dsn)}

EventsSuffix == <<"/", "events">>

\* swap_events_suffix() and the endpoints it derives.
Endpoint(dsn, suffix) ==
  {IF IsSuffix(EventsSuffix, uri) THEN SubSeq(uri, 1, Len(uri) - 2) \o suffix ELSE uri :
     uri \in IngestionUri(dsn)}

IsEnabled(dsn, environment, environments) == ApiKey(dsn) # {} /\ environment \in environments

\* default_privacy_allowed_fields(): the names between the commas.
AllowedFields(list) ==
  LET parts == Split(list, ",")
  IN  Without([k \in DOMAIN parts |-> Strip(parts[k], Blanks)], {<<>>})

-----------------------------------------------------------------------------

\* Every byte written as a percent-encoding writes it.
Encoded(key) ==
  LET Code(c) == IF c \in Digits THEN <<"%", "3", c>>
                 ELSE LET n == Rank(c, LowerOrder) + 1
                      IN  <<"%", IF n < 16 THEN "6" ELSE "7", HexOrder[(n % 16) + 1]>>
  IN  FoldLeft(LAMBDA out, c : out \o Code(c), <<>>, key)

\* Where a DSN reads scheme://key@address, the key goes into the header alone:
\* the address is what follows it, another key changes nothing about it, and a
\* percent-encoded key is the same key.  A DSN that does not read so enables
\* nothing, whatever address it holds.
KeyStaysOut(dsn) ==
  LET Scheme(n) == SubSeq(dsn, 1, n)
      Reads(at) ==
        /\ 5 < at /\ dsn[at] = "@" /\ All(dsn, 5, at, Letters \cup Digits \cup {"%"})
        /\ At(dsn, at + 1) \notin {NoByte, "/"}
      keyEnds == {at \in DOMAIN dsn : Reads(at)}
      isAddress == IsPrefix(<<"https", ":", "/", "/">>, dsn)
  IN  /\ IsEnabled(dsn, "production", {"production", "staging"}) <=> isAddress /\ keyEnds # {}
      /\ ~IsEnabled(dsn, "test", {"production", "staging"})
      /\ isAddress => \A at \in keyEnds :
           LET key     == Between(dsn, 5, at)
               address == SubSeq(dsn, at + 1, Len(dsn))
           IN  /\ IngestionUri(dsn) = {Scheme(4) \o address}
               /\ "%" \notin Range(key) =>
                    /\ ApiKey(dsn) = {key}
                    /\ ParseDsn(Scheme(4) \o Encoded(key) \o <<"@">> \o address) = ParseDsn(dsn)

\* A DSN for events gives every kind of report an address of its own, beside
\* the events' and on the same host.
EndpointsDiffer(dsn) ==
  \A uri \in IngestionUri(dsn) :
    IsSuffix(EventsSuffix, uri) =>
      \A suffix, other \in {<<"/", "spans">>, <<"/", "changes">>} :
        /\ Endpoint(dsn, suffix) # {uri}
        /\ suffix # other => Endpoint(dsn, suffix) # Endpoint(dsn, other)
        /\ \A to \in Endpoint(dsn, suffix) :
             to = SubSeq(uri, 1, Len(to) - Len(suffix)) \o suffix /\ Len(to) = Len(uri)

\* A field is allowed when the list names it between commas, with whatever
\* blanks around it and no other.
AllowsWhatItLists(list) ==
  LET names == AllowedFields(list)
      joined == FoldLeft(LAMBDA out, name : out \o <<",", " ">> \o name, <<>>, names)
  IN  /\ \A k \in DOMAIN names :
           /\ names[k] # <<>> /\ "," \notin Range(names[k])
           /\ names[k][1] \notin Blanks /\ names[k][Len(names[k])] \notin Blanks
      /\ AllowedFields(joined) = names
      /\ Without(list, Blanks \cup {","}) = Without(joined, Blanks \cup {","})
=============================================================================
