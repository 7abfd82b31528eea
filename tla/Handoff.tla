------------------------------- MODULE Handoff -------------------------------
(***************************************************************************)
(* What a delivery queue promises: payloads are handed over in the order   *)
(* they were accepted, each to one holder, at most Capacity of them        *)
(* waiting, and each delivery that was begun ends at most once.  DropSpec  *)
(* also lets all that waits be dropped for good.                           *)
(***************************************************************************)
EXTENDS Integers

CONSTANTS Holders, Capacity

VARIABLES
  accepted,  \* payloads 1..accepted were accepted, in that order
  begun,     \* payloads 1..begun were handed to a holder
  holder,    \* the payload a holder is delivering, or 0
  settled    \* the payloads whose delivery is over

vars == <<accepted, begun, holder, settled>>

Init ==
  /\ accepted = 0 /\ begun = 0
  /\ holder = [h \in Holders |-> 0]
  /\ settled = {}

Accept ==
  /\ accepted - begun < Capacity
  /\ accepted' = accepted + 1
  /\ UNCHANGED <<begun, holder, settled>>

Begin(h) ==
  /\ begun < accepted /\ holder[h] = 0
  /\ begun' = begun + 1
  /\ holder' = [holder EXCEPT ![h] = begun + 1]
  /\ UNCHANGED <<accepted, settled>>

End(h) ==
  /\ holder[h] # 0
  /\ settled' = settled \cup {holder[h]}
  /\ holder' = [holder EXCEPT ![h] = 0]
  /\ UNCHANGED <<accepted, begun>>

\* Only of queues that can be discarded (DropSpec).
Drop ==
  /\ settled' = settled \cup (begun + 1)..accepted
  /\ begun' = accepted
  /\ UNCHANGED <<accepted, holder>>

Next == Accept \/ \E h \in Holders : Begin(h) \/ End(h)

Spec == Init /\ [][Next]_vars

DropSpec == Init /\ [][Next \/ Drop]_vars

=============================================================================
