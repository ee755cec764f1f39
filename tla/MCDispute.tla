------------------------------ MODULE MCDispute ------------------------------
(***************************************************************************)
(* TLC instances of OptimisticInferenceV2.  The models are prefixes of the *)
(* shape of test/GameHarness.sol: two projections of the transaction, a    *)
(* join of both, then one step after the other.                            *)
(***************************************************************************)
EXTENDS OptimisticInferenceV2

MCStepInputs == [k \in Steps |-> CASE k <= 1 -> {-1}
                                   [] k = 2  -> {0, 1}
                                   [] OTHER  -> {k - 1}]

\* An exclusive or of the inputs, with a step number to tell the projections apart.
MCStepOut(k, ins) == (k + MapThenSumSet(LAMBDA j : ins[j], DOMAIN ins)) % 2

MCTrueLeaf ==
    [x \in TxInput |->
        LET leaf[k \in Steps] ==
              MCStepOut(k, [j \in MCStepInputs[k] |-> IF j = -1 THEN x ELSE leaf[j]])
        IN leaf]

\* Every choice of leaves, each prefix chained from the one before, copied from the honest
\* trace of some transaction, or garbage.
MCTraces ==
    LET Way == [leaf : Leaf, from : {<<"chain">>, <<"junk">>} \cup ({"true"} \X TxInput)]
        Build(w) ==
            LET prefix[i \in Steps] ==
                  CASE w[i].from = <<"chain">> -> Append(IF i = 0 THEN <<>> ELSE prefix[i - 1], w[i].leaf)
                    [] w[i].from = <<"junk">>  -> <<Junk>>
                    [] OTHER -> TruePrefix(w[i].from[2], i)
            IN [i \in Steps |-> [leaf |-> w[i].leaf, prefix |-> prefix[i]]]
    IN {Build(w) : w \in [Steps -> Way]}

\* Traces of a two-step model that are enough for money and time to matter: right or wrong.
MCTwoTraces == {[i \in Steps |-> [leaf |-> v, prefix |-> [m \in 1 .. i + 1 |-> v]]] : v \in Leaf}
==============================================================================
