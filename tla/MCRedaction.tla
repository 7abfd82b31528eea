----------------------------- MODULE MCRedaction -----------------------------
(* Instance of Redaction for TLC: short alphabets that hold every byte the   *)
(* scanner in question tells apart, and lengths scaled down so that texts of *)
(* a few bytes reach every limit.                                            *)
EXTENDS Redaction

Texts(kind, alphabet, bound) ==
  [kind |-> kind, start |-> <<>>, alphabet |-> alphabet, bound |-> bound]

From(start, texts) == [texts EXCEPT !.start = start]

MCSubjects ==
  { Texts("sql", {"'", "\\", "E", "a"}, 6),
    Texts("sql", {"U", "&", "'", "_"}, 6),
    Texts("sql", {"$", "a", "'", "1", "E"}, 6),
    Texts("sql", {"0", "1", ".", "e", "x", "-"}, 5),
    Texts("sql", {"0", "1", "b", "2", "f", "X"}, 4),
    Texts("mysql", {"'", "\\", "\"", "E"}, 6),
    Texts("bytes", {"a", "+80", " "}, 7),
    Texts("tokens", {"from", "into", "call", "select", "t", "u", "("}, 5),
    Texts("tokens", {"from", "extract", "t", "(", ")"}, 6),
    Texts("tokens", {"join", "set", "execute", "immediate", "t"}, 5),
    Texts("message", {"a", "@", ".", "_"}, 7),
    Texts("message", {"'", "\"", "a", "\n"}, 6),
    Texts("message", {"0", "x", "g", "-"}, 7),
    Texts("message", {"'", "1", "-", "@", "a", "."}, 5),
    Texts("path", {"/", "1", "a", "+80", "?", ":"}, 6),
    Texts("path", {"/", "{", "}", "a", "*"}, 5),
    Texts("address", {"a", ".", "@", ":", "1", "/"}, 5),
    From(<<"a", ":", "/", "/">>, Texts("address", {"a", ".", "@", ":", "1", "/"}, 9)),
    From(<<"A", "A", "1", "1">>, Texts("iban", {"A", "1", " ", "_"}, 9)),
    From(<<"A", "A", "1", "1">>, Texts("iban", {"1", " ", "_"}, 13)),
    Texts("card", {"4", "2", " ", "-", "a", "1"}, 6),
    Texts("card", {"4", "2", "-", "0"}, 7),
    Texts("key", {"p", "w", "P", "_", "x"}, 5),
    Texts("keys", {<<"p", "w">>, <<"x">>, Element}, 4),
    From(<<"h", ":", "/", "/">>, Texts("url", {"a", "b", ".", "@", ":", "/"}, 8)),
    Texts("url", {"a", "A", "/", "@", ":", "[", "]"}, 5),
    From(<<"h", ":", "/", "/">>, Texts("url", {"A", "[", "]", ":", "@"}, 9)),
    From(<<"0", "f", "-", "1">>, Texts("traceparent", {"0", "f", "-", " "}, 10)),
    From(<<"f", "f", "-", "1", "-">>, Texts("traceparent", {"0", "f", "-"}, 10)),
    From(<<" ", "0", "0", "-", "1">>, Texts("traceparent", {"0", "g", "-", " "}, 11)),
    From(<<"https", ":", "/", "/">>, Texts("dsn", {"k", "%", "@", ":", "/", "1"}, 9)),
    From(<<"https", ":", "/", "/", "a", "@", "h">>, Texts("dsn", {"/", "events", "h"}, 11)),
    Texts("dsn", {"https", "ftp", ":", "/"}, 6),
    Texts("list", {"a", "b", ",", " "}, 6),
    Texts("times", {}, 0), Texts("events", {}, 0) }

\* The subjects of the run that looks for a violation.
MCEventsOnly == {Texts("events", {}, 0)}

MCConfigurations ==
  [enabled : BOOLEAN, strict : BOOLEAN, scrub : BOOLEAN, objects : BOOLEAN, statement : BOOLEAN,
   track : BOOLEAN, crumbs : {0, 2}, allowed : {{"plan", "secret"}}]

MCUsers == {<<>>, [id |-> "text", email |-> "text"], [id |-> "blank", email |-> "text"]}

MCUuidGroups   == <<2, 1, 1>>
MCCardPrefixes == {<<"4">>, <<"1", "0">>}
MCSensitiveKeys == {<<"p", "w">>}
MCTimes        == {-1000, -1, 0, 1, 2, 3, 999, 1000, 2999, 3000, 3001}
MCAnswers      == {NoHandle, NoResponse, 0, 199, 200, 299, 300, 400, 408, 429, 499, 500}
MCTargets      == {<<"a", ".", "b">>, <<".", "a">>, <<"[", "a", "]">>}
=============================================================================
