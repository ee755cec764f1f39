------------------------------ MODULE MCOffChain ------------------------------
(***************************************************************************)
(* What the hypotheses run outside a contract, on small instances: scripted *)
(* disputes and memory plans (H1), federated training (H2).  program says  *)
(* what a behaviour is about.                                              *)
(***************************************************************************)
EXTENDS OnchainPlay, MemoryPlanner, FederatedRounds

VARIABLE program

------------------------------------------------------------------------------
(* H1: a projection in two parts, four blocks, the head.                     *)

MCStepInputs == dispute_steps(2, 6)

\* Every third step has a dead activation: what differs before may come out the same.
MCStepOut(s, ins) ==
    LET sum == MapThenSumSet(LAMBDA j : ins[j], DOMAIN ins)
    IN IF s % 3 = 0 THEN IF sum = 0 THEN 0 ELSE 1 ELSE (s + sum) % Cardinality(Leaf)

MCTrueLeaf ==
    [x \in TxInput |->
        LET leaf[s \in Steps] == MCStepOut(s, [j \in MCStepInputs[s] |-> IF j = -1 THEN x ELSE leaf[j]])
        IN leaf]

MCTraces == {Badly(sc) : sc \in SCENARIOS}

MCBudgets == <<10, 20, 40>>

------------------------------------------------------------------------------
(* H2: six nodes, one of them unlabelled.                                  *)

MCy     == [v \in Nodes |-> <<1, 0, 1, 0, 1, -1>>[v + 1]]
MCEdges == {<<0, 2>>, <<2, 3>>, <<3, 4>>, <<1, 3>>, <<4, 5>>, <<5, 1>>}
MCSplits ==
    {[train |-> {0, 1, 2}, val |-> {4}, test |-> {3}],
     [train |-> {2, 4}, val |-> {0, 1}, test |-> {3}]}

------------------------------------------------------------------------------
mcVars == <<vars, playVars, planVars, fedVars, program>>

\* Outside its own program a module rests in one state; training in one of its initial states.
PlanRests == prof = [proj |-> <<>>, join |-> <<>>, group |-> <<>>, whole |-> 0] /\ plans = <<>> /\ measured = <<>>

RestCase   == CHOOSE c \in run_seed : TRUE
RestSplits == CHOOSE s \in Splits : TRUE
RestOwners == CHOOSE o \in randomOwners : TRUE
FedRests   == case = RestCase /\ splits = RestSplits /\ owners = RestOwners /\ FedInit

MCInit ==
    /\ program \in {"dispute", "plan", "training"}
    /\ PlayInit
    /\ IF program = "plan" THEN PlanInit ELSE PlanRests
    /\ IF program = "training" THEN FedInit ELSE FedRests

MCNext ==
    \/ program = "dispute" /\ PlayNext /\ UNCHANGED <<planVars, fedVars, program>>
    \/ program = "plan" /\ PlanNext /\ UNCHANGED <<vars, playVars, fedVars, program>>
    \/ program = "training" /\ FedNext /\ UNCHANGED <<vars, playVars, planVars, program>>
==============================================================================
