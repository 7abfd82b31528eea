------------------------------- MODULE Client -------------------------------
(***************************************************************************)
(* client.cpp: one request.  A URI and a key that may be missing are sets   *)
(* of at most one element; times are in milliseconds and a limit of 0 is no *)
(* limit, as it is to curl.  Headers, the body's text and libcurl are left  *)
(* out, but for what a request can come to.                                 *)
(***************************************************************************)
EXTENDS Integers

\* delivery_outcome_for_status(): status 0 is no response.
DeliveryOutcome(status) ==
  CASE status \in 200 .. 299 -> "delivered"
    [] status \in (400 .. 499) \ {408, 429} -> "rejected"
    [] OTHER -> "failed"

\* delivery_drop_reason()
DropReason(status) ==
  CASE DeliveryOutcome(status) = "rejected" -> "rejected by the server"
    [] status = 0 -> "the server could not be reached"
    [] OTHER -> "the server answered"

\* What CURLOPT_TIMEOUT_MS is set to when deliver() has a time of its own:
\* the sooner of the two, a configured 0 aside, and never 0.
Cap(timeoutSeconds, maxTime) ==
  LET configured == 1000 * timeoutSeconds
      sooner == IF timeoutSeconds > 0 /\ configured < maxTime THEN configured ELSE maxTime
  IN  IF sooner > 1 THEN sooner ELSE 1

\* What libcurl can come back with, besides a status.
NoHandle   == -1
NoResponse == -2

\* post(): what is asked of curl, and the status returned.
Post(uri, key, timeoutSeconds, maxTime, answer) ==
  IF uri = {} \/ key = {} \/ answer = NoHandle THEN [requests |-> {}, status |-> 0]
  ELSE [requests |-> {[to |-> uri, key |-> key,
                       limit |-> IF maxTime = {} THEN 1000 * timeoutSeconds
                                 ELSE Cap(timeoutSeconds, CHOOSE time \in maxTime : TRUE)]},
        status |-> IF answer = NoResponse THEN 0 ELSE answer]

\* deliver() and its siblings.
Delivered(posted) == DeliveryOutcome(posted.status) = "delivered"

-----------------------------------------------------------------------------

\* A request with a time of its own has a limit, which is the sooner of that
\* time (a millisecond, if it is less) and the configured timeout: a drain
\* does not outlast its deadline because of the delivery it makes.
LimitHolds(timeoutSeconds, maxTime) ==
  LET cap == Cap(timeoutSeconds, maxTime)
  IN  /\ cap >= 1
      /\ maxTime >= 1 => cap <= maxTime
      /\ timeoutSeconds >= 1 => cap <= 1000 * timeoutSeconds
      /\ cap \in {1, maxTime, 1000 * timeoutSeconds}

\* A payload is let go of, as delivered or as rejected, only on the server's
\* word: a request went out, with a key, and was answered.
LetGoOnlyWhenTold(uri, key, timeoutSeconds, maxTime, answer) ==
  LET posted == Post(uri, key, timeoutSeconds, {maxTime}, answer)
  IN  /\ Delivered(posted) \/ DropReason(posted.status) = "rejected by the server" =>
           posted.requests # {} /\ uri # {} /\ key # {} /\ answer \in 200 .. 499
      /\ \A request \in posted.requests : request.limit > 0
=============================================================================
