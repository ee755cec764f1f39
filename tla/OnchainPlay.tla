----------------------------- MODULE OnchainPlay -----------------------------
(***************************************************************************)
(* The two sides of a dispute as h1-zkopml-v2 runs them: onchain_dispute.py *)
(* plays scenario after scenario against the deployed contract, every move *)
(* of it an action of OptimisticInferenceV2; gas_game_v2.py plays the same *)
(* game to measure it; dispute.py bisects the same traces without a chain. *)
(* A move that reverts is not enabled, and then the script's assertion has *)
(* failed and it stands still.                                             *)
(***************************************************************************)
EXTENDS OptimisticInferenceV2, PrefixTree

CONSTANTS
    asserter, challenger,
    tx,                \* the transaction whose risk is claimed
    deposited,         \* what main deposits
    MaxScenarios

ASSUME PlayAssumption ==
    /\ asserter \in Asserters /\ challenger \in Parties \ {asserter}
    /\ Honest = {}     \* the script decides what is played, see the scenarios
    /\ tx \in TxInput /\ deposited >= MaxScenarios * asserterBond
    /\ deposited \in Amounts /\ MaxScenarios \in Nat

VARIABLES
    play,              \* play(): the scenario, where it is, what it counts
    results,           \* result.json
    transactions       \* transactions.jsonl

playVars == <<play, results, transactions>>

------------------------------------------------------------------------------
(* Traces.                                                                   *)

NoStep == -1

\* "+ 3.0 on one activation"; the head's decision is flipped.
corrupt_fn(v) == (v + 1) % Cardinality(Leaf)

\* A tampered output is another one, and every step has an output on whatever it is given.
ASSUME LeafAssumption ==
    /\ \A v \in Leaf : corrupt_fn(v) \in Leaf \ {v}
    /\ \A s \in Steps : \A ins \in [StepInputs[s] -> Leaf \cup {tx}] : StepOut(s, ins) \in Leaf

\* The output of one step is tampered with and goes honestly through the later ones.
run_steps(corrupt) ==
    LET outs[k \in Steps] ==
          LET o == StepOut(k, [j \in StepInputs[k] |-> IF j = -1 THEN tx ELSE outs[j]])
          IN IF k = corrupt THEN corrupt_fn(o) ELSE o
    IN outs

commit_trace(outs, garbage_at) ==
    LET P[i \in Steps] == IF i = garbage_at THEN <<Junk>>
                          ELSE Append(IF i = 0 THEN <<>> ELSE P[i - 1], outs[i])
    IN [i \in Steps |-> [leaf |-> outs[i], prefix |-> P[i]]]

shape_of(k) ==
    CASE StepInputs[k] = {-1} -> "proj" [] Cardinality(StepInputs[k]) > 1 -> "join"
      [] k = Last -> "head" [] OTHER -> "block"

\* setup: one circuit and one verifier serve all steps of a shape, each with its own weights.
Group(k) == {j \in Steps : shape_of(j) = shape_of(k)}

\* The attack takes the weights of the step that follows, which must have the same circuit.
SCENARIOS ==
    [cheat : {"asserter"}, step : Steps, wrong_weights : {FALSE}]
      \cup [cheat : {"asserter"}, step : {k \in Steps : k + 1 \in Group(k)}, wrong_weights : {TRUE}]
      \cup [cheat : {"challenger"}, step : Steps, wrong_weights : {FALSE}]
      \cup [cheat : {"asserter_malformed_chain"}, step : Steps \ {Last}, wrong_weights : {FALSE}]

malformed(sc) == sc.cheat = "asserter_malformed_chain"

Honestly    == commit_trace(run_steps(NoStep), NoStep)
Badly(sc)   == commit_trace(run_steps(IF malformed(sc) THEN sc.step + 1 ELSE sc.step),
                            IF malformed(sc) THEN sc.step ELSE NoStep)

A(sc) == IF sc.cheat = "challenger" THEN Honestly ELSE Badly(sc)
C(sc) == IF sc.cheat = "challenger" THEN Badly(sc) ELSE Honestly

\* What the script commits is among the traces of the contract's model.
ASSUME ScriptAssumption == \A sc \in SCENARIOS : Badly(sc) \in Traces

------------------------------------------------------------------------------
(* chain.py and dispute.py: the bisection without a chain.                   *)

Narrow(s) == s.hi - s.lo <= 1

\* One turn of the loop on the interval s: agreed at lo, disputed at hi.
halve(P, Q, s) ==
    LET mid == (s.lo + s.hi) \div 2
    IN IF P[mid].prefix = Q[mid].prefix THEN [s EXCEPT !.lo = mid] ELSE [s EXCEPT !.hi = mid]

\* The interval after so many rounds; a narrow one stays.
bisection(P, Q) ==
    LET after[r \in 0 .. NSteps] ==
          IF r = 0 THEN [lo |-> -1, hi |-> Last]
          ELSE IF Narrow(after[r - 1]) THEN after[r - 1] ELSE halve(P, Q, after[r - 1])
    IN after

first_disagreement(P, Q) ==
    LET after == bisection(P, Q)
        r     == Min({n \in DOMAIN after : Narrow(after[n])})
    IN [k |-> after[r].hi, rounds |-> r]

chain_consistent_at(P, k) ==
    P[k].prefix = Append(IF k = 0 THEN <<>> ELSE P[k - 1].prefix, P[k].leaf)

\* What the one-step proof proves: the step on the inputs both have agreed on.
AgreedInputs(T, k) == [j \in StepInputs[k] |-> IF j = -1 THEN tx ELSE T[j].leaf]

\* dispute.py, for the traces of a scenario: the asserter is upheld.
Upheld(sc) ==
    LET f == first_disagreement(A(sc), C(sc)).k IN
    /\ chain_consistent_at(A(sc), f)
    /\ AgreedInputs(C(sc), f) = AgreedInputs(A(sc), f)
    /\ StepOut(f, AgreedInputs(C(sc), f)) = A(sc)[f].leaf

\* What dispute.py notes down of a scenario; a malformed chain loses without a proof.
res(sc) ==
    LET f == first_disagreement(A(sc), C(sc))
        consistent == chain_consistent_at(A(sc), f.k)
    IN [first_bad_step        |-> f.k,
        bisection_rounds      |-> f.rounds,
        located_correctly     |-> f.k = sc.step,
        asserter_claim_upheld |-> Upheld(sc),
        leaf_k_is_honest      |-> A(sc)[f.k].leaf = C(sc)[f.k].leaf,
        outcome_correct       |-> IF ~ consistent THEN sc.cheat # "challenger"
                                  ELSE sc.cheat = IF Upheld(sc) THEN "challenger" ELSE "asserter"]

------------------------------------------------------------------------------
(* The script against the contract.                                          *)

cid == nClaims - 1
Phase == disputes[cid][challenger].phase

NoScenario == [cheat |-> "none"]

PlayInit ==
    /\ Init
    /\ play = [sc |-> NoScenario, at |-> "deposit", rounds |-> 0, attacked |-> FALSE]
    /\ results = <<>> /\ transactions = <<>>

\* must: the transaction succeeds; it is logged and, of a recorded run, can be replayed.
Sent(who, function, status) ==
    transactions' = Append(transactions, [who |-> who, function |-> function, status |-> status])

Go(at) == play' = [play EXCEPT !.at = at]

deposit ==
    /\ play.at = "deposit"
    /\ depositBond(asserter, deposited) /\ Sent(asserter, "depositBond", 1)
    /\ Go("next") /\ UNCHANGED results

nextScenario(sc) ==
    /\ play.at = "next" /\ Len(results) < MaxScenarios
    /\ play' = [sc |-> sc, at |-> "commit", rounds |-> 0, attacked |-> FALSE]
    /\ UNCHANGED <<vars, results, transactions>>

commitClaim ==
    /\ play.at = "commit"
    /\ commit(asserter, A(play.sc), A(play.sc)[Last].leaf, tx) /\ Sent(asserter, "commit", 1)
    /\ Go("challenge") /\ UNCHANGED results

challengeClaim ==
    /\ play.at = "challenge"
    /\ challenge(challenger, cid) /\ Sent(challenger, "challenge", 1)
    /\ Go("open") /\ UNCHANGED results

open ==
    /\ play.at = "open"
    /\ openFinal(cid, challenger) /\ Sent(asserter, "openFinal", 1)
    /\ Go("bisect") /\ UNCHANGED results

revealMid ==
    /\ play.at = "bisect"
    /\ reveal(cid, challenger) /\ Sent(asserter, "reveal", 1)
    /\ play' = [play EXCEPT !.rounds = @ + 1]
    /\ UNCHANGED results

\* Variants of the operations, each with one slip; only the mutation runs use them.
AgreesOnLeaf(mid) == A(play.sc)[mid].leaf = C(play.sc)[mid].leaf

Agrees(mid) == A(play.sc)[mid].prefix = C(play.sc)[mid].prefix

respondMid ==
    /\ play.at = "bisect"
    /\ respond(cid, challenger, Agrees(Mid(disputes[cid][challenger]))) /\ Sent(challenger, "respond", 1)
    /\ UNCHANGED <<play, results>>

\* A proof of the step that the shared verifier accepts, made with the next step's weights:
\* the contract refuses it, for the parameter hash is another; on record as a reverted transaction.
wrongWeights ==
    /\ play.at = "bisect" /\ Phase = "AwaitProof"
    /\ play.sc.wrong_weights /\ ~ play.attacked
    /\ disputes[cid][challenger].hi + 1 \in Group(disputes[cid][challenger].hi)
    /\ play' = [play EXCEPT !.attacked = TRUE]
    /\ Sent(asserter, "resolve", 0)
    /\ UNCHANGED <<vars, results>>

resolveDispute ==
    /\ play.at = "bisect"
    /\ play.sc.wrong_weights => play.attacked
    /\ resolve(cid, challenger, AgreedInputs(C(play.sc), disputes[cid][challenger].hi))
    /\ Sent(challenger, "resolve", 1)
    /\ UNCHANGED <<play, results>>

Won == {"AsserterWon", "ChallengerWon"}

conclude ==
    /\ play.at = "bisect" /\ Phase \in Won
    /\ results' = Append(results, [sc |-> play.sc, cid |-> cid, found_step |-> disputes[cid][challenger].hi,
                                   rounds |-> play.rounds,
                                   winner |-> IF Phase = "AsserterWon" THEN "asserter" ELSE "challenger"])
    /\ Go("next")
    /\ UNCHANGED <<vars, transactions>>

\* gas_game_v2.py plays the game to measure it: an honest claim that nobody disputes, then claims
\* tampered with at one step, each of which the challenger has to win.
trace(corrupt_at) == commit_trace(run_steps(corrupt_at), NoStep)

honest_proof_args(s) == AgreedInputs(trace(NoStep), s)

commitFirst ==
    /\ play.at = "next" /\ nClaims = 0
    /\ commit(asserter, trace(NoStep), trace(NoStep)[Last].leaf, tx) /\ Sent(asserter, "commit", 1)
    /\ Go("measure") /\ UNCHANGED results

gasDispute(s) ==
    /\ play.at = "measure" /\ Len(results) < MaxScenarios
    /\ commit(asserter, trace(s), trace(s)[Last].leaf, tx) /\ Sent(asserter, "commit", 1)
    /\ play' = [sc |-> [cheat |-> "asserter", step |-> s, wrong_weights |-> FALSE], at |-> "game",
                rounds |-> 0, attacked |-> FALSE]
    /\ UNCHANGED results

\* Whoever the phase asks for moves; the proof is due for the step that was tampered with.
gasMove ==
    LET dispute == disputes[cid][challenger]
        bad     == trace(play.sc.step)
    IN
    /\ play.at = "game"
    /\ \/ /\ challenge(challenger, cid) /\ Sent(challenger, "challenge", 1) /\ UNCHANGED play
       \/ /\ openFinal(cid, challenger) /\ Sent(asserter, "openFinal", 1) /\ UNCHANGED play
       \/ /\ reveal(cid, challenger) /\ Sent(asserter, "reveal", 1)
          /\ play' = [play EXCEPT !.rounds = @ + 1]
       \/ /\ respond(cid, challenger, bad[Mid(dispute)].prefix = trace(NoStep)[Mid(dispute)].prefix)
          /\ Sent(challenger, "respond", 1) /\ UNCHANGED play
       \/ /\ Phase = "AwaitProof" /\ dispute.hi = play.sc.step
          /\ resolve(cid, challenger, honest_proof_args(play.sc.step))
          /\ Sent(challenger, "resolve", 1) /\ UNCHANGED play
    /\ UNCHANGED results

gasMeasured ==
    /\ play.at = "game" /\ Phase = "ChallengerWon"
    /\ results' = Append(results, [sc |-> play.sc, cid |-> cid, found_step |-> disputes[cid][challenger].hi,
                                   rounds |-> play.rounds, winner |-> "challenger"])
    /\ Go("measure")
    /\ UNCHANGED <<vars, transactions>>

done ==
    /\ play.at \in {"next", "measure"} /\ Len(results) = MaxScenarios
    /\ UNCHANGED <<vars, playVars>>

PlayNext ==
    \/ deposit \/ \E sc \in SCENARIOS : nextScenario(sc)
    \/ commitClaim \/ challengeClaim \/ open \/ revealMid \/ respondMid
    \/ wrongWeights \/ resolveDispute \/ conclude \/ done
    \/ commitFirst \/ (\E s \in Steps : gasDispute(s)) \/ gasMove \/ gasMeasured

PlaySpec == PlayInit /\ [][PlayNext]_<<vars, playVars>>

------------------------------------------------------------------------------
(* Properties.                                                               *)

honest_side(sc) == IF sc.cheat = "challenger" THEN "asserter" ELSE "challenger"

\* verify_dispute_record.py: the phases on the chain are the winners of the summary, and what
\* was rejected is the attack and nothing else.
verify_record ==
    /\ \A i \in DOMAIN results :
          disputes[results[i].cid][challenger].phase =
              IF results[i].winner = "asserter" THEN "AsserterWon" ELSE "ChallengerWon"
    /\ \A t \in {transactions[i] : i \in DOMAIN transactions} : t.status = 0 => t.who = asserter /\ t.function = "resolve"

\* Whatever is tampered with, and wherever, also where later steps come out right again or the
\* chain is malformed and the disputed leaf is honest: the contract and the off-chain bisection
\* stop at the same step, the first wrong one, after the same and at most ceil(log2 n) rounds,
\* and both decide for the honest side (outcome_correct, located_correctly).  What the asserter
\* opened on the way binds it to its trace.
DisputesPlayedRight ==
    /\ \A i \in DOMAIN results :
          LET r == results[i]
              b == res(r.sc)
          IN /\ r.found_step = r.sc.step /\ b.located_correctly
             /\ r.rounds = b.bisection_rounds /\ r.rounds <= CeilLog2(NSteps)
             /\ r.winner = honest_side(r.sc) /\ b.outcome_correct
             /\ b.asserter_claim_upheld <=> r.winner = "asserter"
             /\ malformed(r.sc) => b.leaf_k_is_honest
             /\ i = Len(results) /\ play.at = "next" => OpeningsBind(A(r.sc))
    /\ verify_record
==============================================================================
