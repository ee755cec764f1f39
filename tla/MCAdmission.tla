----------------------------- MODULE MCAdmission -----------------------------
(***************************************************************************)
(* TLC instances of Admission and of the attestation built on it.          *)
(***************************************************************************)
EXTENDS Attestation, FiniteSets, TLC

Symmetry == Permutations(TPMs) \cup Permutations(Accounts) \cup Permutations(Agents)

\* A behaviour about admissions, in which nothing is launched.
OnlyAdmissions ==
    /\ signed = {} /\ pcr = [t \in TPMs |-> NoMeasurement]
    /\ disk.program = "genuine" /\ disk.verifier \in approved

AllIdle == \A t \in TPMs : launching[t] = Idle

\* Replaced keys, changed copies, changed files and misleading programs.
Odd ==
    Cardinality({t \in TPMs : key[t] > 1}) + Cardinality(misled)
        + Cardinality({n \in DOMAIN enclaves : enclaves[n].copy # enclaves[n].build})
        + (IF disk.program = "genuine" THEN 0 ELSE 1) + (IF disk.verifier \in approved THEN 0 ELSE 1)

\* A behaviour about launches: one after the other, on both machines once or on one of them twice,
\* and either machine is enrolled before the first or not at all.  One quote is taken, one request
\* signed, between launches, and one thing at a time is out of order.
OnlyLaunches ==
    /\ issued = 0 /\ challenged <= 1
    /\ \A t \in TPMs : counter[t] = 1
    /\ Cardinality(signed) <= 1 /\ Cardinality(quotes) <= 1 /\ Odd <= 1
    /\ Cardinality({t \in TPMs : launching[t] # Idle}) <= 1
    /\ Len(enclaves) > 1 => \A t \in TPMs : pcr[t] # NoMeasurement => t = enclaves[1].tpm
    /\ signed # {} \/ (\E n \in DOMAIN enclaves : enclaves[n].checking # {}) => AllIdle
    /\ \A a \in Accounts : pending[a] # NoPending =>
          enclaves = <<>> /\ misled = {} /\ signed = {} /\ AllIdle

OneConcern == OnlyAdmissions \/ OnlyLaunches
==============================================================================
