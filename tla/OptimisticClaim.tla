--------------------------- MODULE OptimisticClaim ---------------------------
(***************************************************************************)
(* What the dispute contract promises of ONE claim, whatever the disputes  *)
(* do: it is posted, stays undecided for a while and is then decided once  *)
(* and for good.  A claim that is accepted is correct, and the claim of an *)
(* honest asserter is not rejected.                                        *)
(***************************************************************************)
CONSTANTS Parties, Honest, Inputs, Outputs, Model(_), Unposted

VARIABLES status, claim

Postings == [by : Parties, input : Inputs, output : Outputs]

Init == status = "unposted" /\ claim = Unposted

Post ==
    /\ status = "unposted"
    /\ \E p \in Postings : /\ p.by \in Honest => p.output = Model(p.input)
                           /\ claim' = p
    /\ status' = "undecided"

Accept ==
    /\ status = "undecided"
    /\ claim.output = Model(claim.input)
    /\ status' = "accepted"
    /\ UNCHANGED claim

Reject ==
    /\ status = "undecided"
    /\ claim.by \notin Honest
    /\ status' = "rejected"
    /\ UNCHANGED claim

Next == Post \/ Accept \/ Reject

Spec == Init /\ [][Next]_<<status, claim>>

\* An undecided claim is decided in the end.
Decided == (status = "undecided") ~> (status \in {"accepted", "rejected"})
==============================================================================
