--------------------------- MODULE FederatedRounds ---------------------------
(***************************************************************************)
(* H2 (h2-federated-aml/src): the graph is divided among institutions, the *)
(* illicit training labels are made scarce, and a model is trained: in     *)
(* rounds of weighted FedAvg with boundary alignment, pooled, or by each   *)
(* institution alone.  A model is what it has learnt from.                 *)
(***************************************************************************)
EXTENDS Integers, Sequences, FiniteSets, Functions

CONSTANTS
    Nodes, Edges,      \* 0 .. n-1 and pairs of them
    y,                 \* the label of a node: 1 illicit, 0 licit, -1 unknown
    k,                 \* institutions
    Splits,            \* what make_splits may return
    Fractions,         \* percent of the illicit training labels that is kept
    rounds,            \* global rounds, epochs of the baselines: one budget for all
    F1s                \* validation scores

ASSUME FederatedAssumption ==
    /\ k \in {2, 3, 5} /\ IsFiniteSet(Nodes) /\ Nodes = 0 .. Cardinality(Nodes) - 1 /\ Cardinality(Nodes) >= k
    /\ Edges \subseteq Nodes \X Nodes /\ y \in [Nodes -> {-1, 0, 1}]
    /\ \A s \in Splits : /\ s.train \cap s.val = {} /\ s.train \cap s.test = {} /\ s.val \cap s.test = {}
                         /\ s.train \cup s.val \cup s.test = {v \in Nodes : y[v] >= 0}
                         /\ s.train # {}
    /\ Fractions \subseteq 1 .. 100 /\ rounds \in Nat \ {0} /\ F1s \subseteq Nat

VARIABLES
    case, splits,      \* what is run
    owners, sweeps,    \* the partition and how often it was improved
    train_mask,
    stage, done_rounds,
    model,             \* the global model, or that of the institution whose turn it is
    updates,           \* what the institutions have returned, in their order
    foreign_embeddings,
    best, f1s          \* the model selected so far; the scores it was selected from

fedVars == <<case, splits, owners, sweeps, train_mask, stage, done_rounds, model, updates,
             foreign_embeddings, best, f1s>>

institutions == 0 .. k - 1

------------------------------------------------------------------------------
(* The cases: run_seed and _case of protocol_v2.py select on the validation  *)
(* nodes; run and _run_case of experiments.py do not.                        *)

run_seed ==
    [method : {"centralized", "local_only", "federated"}, lambda : {FALSE}, privacy : {"off"}, select_on_val : {TRUE}]
      \cup [method : {"federated"}, lambda : BOOLEAN, privacy : {"off"}, select_on_val : {TRUE}]
      \cup [method : {"federated"}, lambda : {FALSE}, privacy : {"noise"}, select_on_val : {TRUE}]

run_config ==
    [method : {"local_only"}, lambda : {FALSE}, privacy : {"off"}, select_on_val : {FALSE}]
      \cup [method : {"federated"}, lambda : BOOLEAN, privacy : {"off", "clip", "noise"}, select_on_val : {FALSE}]

------------------------------------------------------------------------------
(* The partition.                                                            *)

\* A random permutation modulo k: every institution gets its share.
randomOwners ==
    {o \in [Nodes -> institutions] :
        \A p \in institutions : Cardinality({v \in Nodes : o[v] = p}) = Cardinality({v \in Nodes : v % k = p})}

Votes(v, p) == Cardinality({e \in Edges : e[2] = v /\ owners[e[1]] = p})

\* Where several institutions have most votes, argmax may take any.
Winners(v) ==
    IF v < k THEN {v}
    ELSE IF \A p \in institutions : Votes(v, p) = 0 THEN {owners[v]}
    ELSE {p \in institutions : \A q \in institutions : Votes(v, q) <= Votes(v, p)}

Sweeps == 4

node_ids(p) == {v \in Nodes : owners[v] = p}

\* build_institutions: the foreign ends of the edges that leave or enter p, by their own end.
peer_pairs(p) ==
    LET crossing == {e \in Edges : owners[e[1]] # owners[e[2]]}
        pairs    == {e \in crossing : owners[e[1]] = p}
                      \cup {<<e[2], e[1]>> : e \in {x \in crossing : owners[x[2]] = p}}
    IN [own \in {e[1] : e \in pairs} |-> {e[2] : e \in {x \in pairs : x[1] = own}}]

boundary_ids(p) == DOMAIN peer_pairs(p)

------------------------------------------------------------------------------
(* Scarcity.                                                                 *)

Illicit(nodes) == {v \in nodes : y[v] = 1}

\* round(): to the nearest, a half to the even one.
Round(num, den) ==
    LET q == num \div den
        r == 2 * (num % den)
    IN IF r > den \/ (r = den /\ q % 2 = 1) THEN q + 1 ELSE q

Kept(n, fraction) == IF n = 0 THEN 0 ELSE LET r == Round(n * fraction, 100) IN IF r < 1 THEN 1 ELSE r

\* Each institution keeps a random part of its own illicit training labels, all else stays.
apply_institutional_illicit_scarcity(fraction) ==
    {(splits.train \ Illicit(splits.train)) \cup kept :
        kept \in {m \in SUBSET Illicit(splits.train) :
                    \A p \in institutions :
                      Cardinality(m \cap node_ids(p)) =
                        Kept(Cardinality(Illicit(splits.train) \cap node_ids(p)), fraction)}}

------------------------------------------------------------------------------
(* Models, updates and payloads.                                             *)

\* labels: the nodes whose labels it has learnt from; exposed: the institutions that an update
\* without protection was taken from; at: the round or epoch it is of.
Fresh == [labels |-> {}, exposed |-> {}, at |-> 0]

Unselected == [f1 |-> -1, at |-> 0, state |-> Fresh]

InTurn == Len(updates)

OwnTrain(p) == train_mask \cap node_ids(p)

\* boundary_alignment_loss: the foreign ends of p's edges, where an embedding of them is known.
Aligned(p) ==
    IF case.lambda
      THEN {foreign_embeddings[v] :
              v \in {w \in DOMAIN foreign_embeddings : \E own \in boundary_ids(p) : w \in peer_pairs(p)[own]}}
      ELSE {}

Learnt(p) ==
    IF OwnTrain(p) = {} THEN model
    ELSE [model EXCEPT !.labels = @ \cup OwnTrain(p) \cup UNION {e.labels : e \in Aligned(p)}]

\* collect_boundary_payload: the embeddings of the boundary nodes under the trained local model.
Payload(p, state) ==
    [v \in boundary_ids(p) |-> [of |-> p, at |-> done_rounds + 1, labels |-> state.labels, protection |-> "off"]]

train_local(p) ==
    LET state == Learnt(p)
    IN [state |-> state, n |-> Cardinality(OwnTrain(p)), payload |-> Payload(p, state), protection |-> "off"]

\* privacy.py: the whole change is clipped and noised, and each embedding; the count is not.
privatize_model_update(u) == [u EXCEPT !.protection = case.privacy]

\* Variants of the operations, each with one slip; only the mutation runs use them.
payloadAsIs(payload) == payload

privatize_boundary_payload(payload) ==
    [v \in DOMAIN payload |-> [payload[v] EXCEPT !.protection = case.privacy]]

payload_lookup(payloads) ==
    [v \in UNION {DOMAIN payloads[i] : i \in DOMAIN payloads} |->
        payloads[CHOOSE i \in DOMAIN payloads : v \in DOMAIN payloads[i]][v]]

Total(us) == SumFunctionOnSet([i \in DOMAIN us |-> us[i].n], DOMAIN us)

\* The mean weighted by the counts: who has no training label has no weight.
fedavg(us) ==
    LET counted == {i \in DOMAIN us : us[i].n > 0}
    IN [labels  |-> UNION {us[i].state.labels : i \in counted},
        exposed |-> (UNION {us[i].state.exposed : i \in counted})
                      \cup {i - 1 : i \in {j \in counted : us[j].protection = "off"}},
        at      |-> done_rounds + 1]

\* A later score replaces the best only if it is higher.
Selected(f1, state) == IF f1 > best.f1 THEN [f1 |-> f1, at |-> state.at, state |-> state] ELSE best

------------------------------------------------------------------------------
FedInit ==
    /\ case \in run_seed \cup run_config /\ splits \in Splits
    /\ owners \in randomOwners /\ sweeps = 0
    /\ train_mask = {} /\ stage = "partition" /\ done_rounds = 0
    /\ model = Fresh /\ updates = <<>> /\ foreign_embeddings = <<>>
    /\ best = Unselected /\ f1s = <<>>

Outcome == <<done_rounds, model, updates, foreign_embeddings, best, f1s>>

\* graph_aware: every node but the anchors goes where most of its sources are.
sweep ==
    /\ stage = "partition" /\ sweeps < Sweeps
    /\ owners' \in {o \in [Nodes -> institutions] : \A v \in Nodes : o[v] \in Winners(v)}
    /\ sweeps' = sweeps + 1
    /\ UNCHANGED <<case, splits, train_mask, stage, Outcome>>

\* sweeps = 0 is the random partition.
_institutions_and_training ==
    /\ stage = "partition" /\ sweeps \in {0, Sweeps}
    /\ \E fraction \in Fractions : train_mask' \in apply_institutional_illicit_scarcity(fraction)
    /\ stage' = "train"
    /\ UNCHANGED <<case, splits, owners, sweeps, Outcome>>

\* run_federated, one round: every institution starts from the same global model.
trainLocal ==
    /\ case.method = "federated" /\ stage = "train"
    /\ updates' = Append(updates, train_local(InTurn))
    /\ stage' = IF InTurn = k - 1 THEN "merge" ELSE stage
    /\ UNCHANGED <<case, splits, owners, sweeps, train_mask, done_rounds, model, foreign_embeddings, best, f1s>>

Ended == IF done_rounds' = rounds THEN "select" ELSE "train"

\* fedavg: without a training label anywhere it raises.
merge ==
    /\ stage = "merge" /\ Total(updates) > 0
    /\ LET sent == IF case.privacy = "off" THEN updates
                   ELSE [i \in DOMAIN updates |-> privatize_model_update(updates[i])]
           payloads == [i \in DOMAIN updates |->
                          IF case.privacy = "off" THEN updates[i].payload
                          ELSE privatize_boundary_payload(updates[i].payload)]
       IN /\ model' = fedavg(sent)
          /\ foreign_embeddings' = IF case.lambda THEN payload_lookup(payloads) ELSE <<>>
    /\ updates' = <<>> /\ done_rounds' = done_rounds + 1
    /\ IF case.select_on_val
         THEN \E f1 \in F1s : best' = Selected(f1, model') /\ f1s' = Append(f1s, f1)
         ELSE UNCHANGED <<best, f1s>>
    /\ stage' = Ended
    /\ UNCHANGED <<case, splits, owners, sweeps, train_mask>>

\* run_centralized_pooled, one epoch on the mask the federated run would see.
pooledEpoch(f1) ==
    /\ case.method = "centralized" /\ stage = "train"
    /\ model' = [model EXCEPT !.labels = @ \cup train_mask, !.at = done_rounds + 1]
    /\ done_rounds' = done_rounds + 1
    /\ best' = Selected(f1, model') /\ f1s' = Append(f1s, f1)
    /\ stage' = Ended
    /\ UNCHANGED <<case, splits, owners, sweeps, train_mask, updates, foreign_embeddings>>

\* Selection by an institution alone needs an illicit node among its own validation nodes.
CanSelect(p) == case.select_on_val /\ Illicit(splits.val \cap node_ids(p)) # {}

\* run_local_only, one epoch of the institution whose turn it is.
localEpoch(f1) ==
    /\ case.method = "local_only" /\ stage = "train" /\ OwnTrain(InTurn) # {}
    /\ model' = [model EXCEPT !.labels = @ \cup OwnTrain(InTurn), !.at = done_rounds + 1]
    /\ done_rounds' = done_rounds + 1
    /\ IF CanSelect(InTurn) THEN best' = Selected(f1, model') /\ f1s' = Append(f1s, f1)
       ELSE UNCHANGED <<best, f1s>>
    /\ stage' = Ended
    /\ UNCHANGED <<case, splits, owners, sweeps, train_mask, updates, foreign_embeddings>>

skipUnlabelled ==
    /\ case.method = "local_only" /\ stage = "train" /\ OwnTrain(InTurn) = {}
    /\ stage' = "select"
    /\ UNCHANGED <<case, splits, owners, sweeps, train_mask, Outcome>>

Final == IF best.at > 0 THEN best.state ELSE model

\* The model of the best round is evaluated on the test nodes.
select ==
    /\ stage = "select" /\ case.method # "local_only"
    /\ model' = Final /\ stage' = "done"
    /\ UNCHANGED <<case, splits, owners, sweeps, train_mask, done_rounds, updates, foreign_embeddings, best, f1s>>

\* The next institution starts from the initial model again.
selectLocal ==
    /\ stage = "select" /\ case.method = "local_only"
    /\ updates' = Append(updates, [state |-> Final, best |-> best, f1s |-> f1s])
    /\ model' = Fresh /\ best' = Unselected /\ f1s' = <<>> /\ done_rounds' = 0
    /\ stage' = IF InTurn = k - 1 THEN "done" ELSE "train"
    /\ UNCHANGED <<case, splits, owners, sweeps, train_mask, foreign_embeddings>>

fedDone == stage = "done" /\ UNCHANGED fedVars

FedNext ==
    \/ sweep \/ _institutions_and_training
    \/ trainLocal \/ merge
    \/ \E f1 \in F1s : pooledEpoch(f1) \/ localEpoch(f1)
    \/ skipUnlabelled \/ select \/ selectLocal \/ fedDone

FedSpec == FedInit /\ [][FedNext]_fedVars

------------------------------------------------------------------------------
(* Properties.                                                               *)

\* Nothing is ever learnt from a validation or test label or from one scarcity has taken away, in
\* a model or through an embedding; an institution alone learns from its own labels only; and an
\* institution that has an illicit training label keeps one at every fraction, so FedAvg always
\* has something to weigh by.
LearnsFromKept ==
    /\ model.labels \cup UNION {foreign_embeddings[v].labels : v \in DOMAIN foreign_embeddings} \subseteq train_mask
    /\ train_mask \subseteq splits.train
    /\ case.method = "local_only" =>
          \A i \in DOMAIN updates : updates[i].state.labels \subseteq OwnTrain(i - 1)
    /\ stage = "merge" => Total(updates) > 0
    /\ stage # "partition" =>
          \A p \in institutions : Illicit(splits.train \cap node_ids(p)) # {} => Illicit(OwnTrain(p)) # {}

\* With privacy on, no update or embedding is used by others before it is protected; embeddings
\* are of boundary nodes, from the institution that owns them, of the round that has just ended.
EmbeddingsAreFresh ==
    /\ case.privacy # "off" => model.exposed = {}
    /\ \A v \in DOMAIN foreign_embeddings :
          LET e == foreign_embeddings[v]
          IN /\ e.protection = case.privacy /\ e.at = done_rounds
             /\ owners[v] = e.of /\ v \in boundary_ids(e.of)
             /\ case.lambda
    /\ case.lambda /\ done_rounds > 0 =>
          \A p \in institutions : UNION {peer_pairs(p)[v] : v \in boundary_ids(p)} \subseteq DOMAIN foreign_embeddings

EarliestBest(b, scores) ==
    scores # <<>> =>
        /\ b.at \in DOMAIN scores /\ b.f1 = scores[b.at] /\ b.state.at = b.at
        /\ \A i \in DOMAIN scores : scores[i] <= b.f1 /\ (i < b.at => scores[i] < b.f1)

\* What is evaluated is the model of the first of the best rounds, or of the last one when
\* nothing was selected on.
BestRoundEvaluated ==
    /\ EarliestBest(best, f1s)
    /\ stage = "done" /\ case.method # "local_only" =>
          model.at = IF f1s = <<>> THEN rounds ELSE best.at
    /\ case.method = "local_only" =>
          \A i \in DOMAIN updates :
             /\ EarliestBest(updates[i].best, updates[i].f1s)
             /\ updates[i].state.at = IF OwnTrain(i - 1) = {} THEN 0
                                      ELSE IF updates[i].f1s = <<>> THEN rounds ELSE updates[i].best.at

\* What H2 promises of its training runs, the three together.
TrainingIsSound == LearnsFromKept /\ EmbeddingsAreFresh /\ BestRoundEvaluated
==============================================================================
