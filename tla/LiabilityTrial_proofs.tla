------------------------- MODULE LiabilityTrial_proofs -------------------------
(***************************************************************************)
(* The paired trial for any number of agents and steps, any payoffs, any   *)
(* stake, slash, bond and detection probability; and the books of the      *)
(* trial and of the learning agents, which MCLiability runs side by side.  *)
(***************************************************************************)
EXTENDS MCLiability, SumLemmas, SequenceTheorems, TLAPS

------------------------------------------------------------------------------
(* Arithmetic.                                                               *)

\* The constants are numbers.
LEMMA Numbers ==
    /\ stakeAmount \in Nat /\ slashAmount \in Nat /\ maxCompliantAmount \in Nat /\ nAgents \in Nat
    /\ PDen \in Nat /\ PDen > 0 /\ PNum \in Nat
    /\ compliantMin \in Int /\ compliantMax \in Int /\ violationMin \in Int /\ violationMax \in Int
    /\ tieBreakExecutes \in BOOLEAN
  BY ConfigAssumption DEF ValidConfig

\* A product with a number that is not negative keeps the order.
LEMMA Scaled ==
    ASSUME NEW n \in Nat, NEW x \in Int, NEW y \in Int, x <= y
    PROVE  n * x <= n * y /\ n * x \in Int /\ n * y \in Int
  OBVIOUS

\* Slashes are numbers, the first is the smallest, and they grow with the history.
LEMMA SlashGrows ==
    ASSUME NEW j \in Nat, NEW k \in Nat, j <= k
    PROVE  /\ slashAmount * (1 + j) \in Nat /\ slashAmount * (1 + k) \in Nat
           /\ slashAmount <= slashAmount * (1 + j)
           /\ slashAmount * (1 + j) <= slashAmount * (1 + k)
<1>1. slashAmount \in Nat /\ 1 <= 1 + j /\ 1 + j <= 1 + k
  BY Numbers
<1>2. slashAmount * 1 <= slashAmount * (1 + j) /\ slashAmount * (1 + j) <= slashAmount * (1 + k)
  BY <1>1, Scaled
<1>3. slashAmount * (1 + j) \in Int /\ slashAmount * (1 + k) \in Int /\ slashAmount * 1 = slashAmount
  BY <1>1
<1> QED
  BY <1>1, <1>2, <1>3

\* What a violation costs is a number, and with a maintained stake at least the slash.
LEMMA SlashTyped ==
    ASSUME NEW r \in Regimes, NEW k \in Nat
    PROVE  slash_for(r, k) \in Nat /\ slash_for(r, k) >= slashAmount /\ requirement(r, k) \in Nat
  BY SlashGrows, Numbers DEF slash_for, requirement, Larger

\* The larger expected slash: an offer executed under it is executed under the smaller one too.
LEMMA SmallerSlashTempts ==
    ASSUME NEW o \in Opportunity, NEW s \in Int, NEW t \in Int, s <= t,
           Offends(o), Better(ExecutePayoff(o, t), RefusePayoff(o))
    PROVE  Better(ExecutePayoff(o, s), RefusePayoff(o))
<1>1. PDen * o.violation \in Int /\ PDen * o.compliant \in Int
  BY Numbers DEF Opportunity
<1> QED
  BY <1>1, Numbers DEF ExecutePayoff, RefusePayoff, Better

\* The expected slash is a number in every regime.
LEMMA ExpectedTyped ==
    ASSUME NEW r \in Regimes, NEW h \in Nat, NEW k \in Nat
    PROVE  regime_expected_slash(r, h, k) \in Int
<1>1. slash_for(r, k) \in Nat /\ Smaller(slashAmount, Larger(h, 0)) \in Nat
  BY SlashTyped, Numbers DEF Smaller, Larger
<1>2. PNum * slash_for(r, k) \in Int /\ PNum * Smaller(slashAmount, Larger(h, 0)) \in Int
  BY <1>1, Numbers
<1> QED
  BY <1>2 DEF regime_expected_slash, Regimes

------------------------------------------------------------------------------
(* One offer in one regime.                                                  *)

\* What an agent is after topping up and settling its identity.
LEMMA PreparedAgent ==
    ASSUME NEW r \in Regimes, NEW a \in Agent, NEW o
    PROVE  /\ Prepared(r, a, o) \in Agent
           /\ Prepared(r, a, o).kOperator = a.kOperator
           /\ Prepared(r, a, o).kIdentity = (IF Resets(r, a, o) THEN 0 ELSE a.kIdentity)
           /\ Prepared(r, a, o).identities = (IF Resets(r, a, o) THEN a.identities + 1 ELSE a.identities)
           /\ Prepared(r, a, o).violations = a.violations
           /\ Prepared(r, a, o).late = a.late
           /\ r \notin Maintained => Prepared(r, a, o).stake = a.stake
<1> DEFINE b == Settled(r, a, o)
           need == Larger(b.stake, IF r \in Maintained THEN requirement(r, History(r, b)) ELSE 0)
<1>1. /\ b \in Agent /\ b.kOperator = a.kOperator /\ b.stake = a.stake
      /\ b.kIdentity = (IF Resets(r, a, o) THEN 0 ELSE a.kIdentity)
      /\ b.identities = (IF Resets(r, a, o) THEN a.identities + 1 ELSE a.identities)
      /\ b.violations = a.violations /\ b.late = a.late
  <2>1. CASE Resets(r, a, o)
    <3> DEFINE ids == a.identities + 1
    <3>1. b = [a EXCEPT !.kIdentity = 0, !.identities = ids] /\ ids \in Nat
      BY <2>1 DEF Settled, Agent
    <3> HIDE DEF b, ids
    <3>2. /\ b \in Agent /\ b.kOperator = a.kOperator /\ b.stake = a.stake /\ b.kIdentity = 0
          /\ b.identities = ids /\ b.violations = a.violations /\ b.late = a.late
      BY <3>1 DEF Agent
    <3> QED
      BY <2>1, <3>2 DEF ids
  <2>2. CASE ~ Resets(r, a, o)
    <3>1. b = a
      BY <2>2 DEF Settled
    <3> HIDE DEF b
    <3> QED
      BY <2>2, <3>1
  <2> QED
    BY <2>1, <2>2
<1>2. History(r, b) \in Nat
  BY <1>1 DEF History, Agent
<1>3. need \in Nat /\ need >= b.stake /\ (r \notin Maintained => need = b.stake)
  BY <1>1, <1>2, SlashTyped DEF Larger, Agent
<1>4. Prepared(r, a, o) = [b EXCEPT !.stake = need, !.toppedUp = @ + (need - b.stake)]
  BY DEF Prepared, ToppedUp
<1>5. b.toppedUp + (need - b.stake) \in Nat
  BY <1>1, <1>3 DEF Agent
<1> HIDE DEF b, need
<1> QED
  BY <1>1, <1>3, <1>4, <1>5 DEF Agent

\* What an offer does to an agent.
LEMMA ActedAgent ==
    ASSUME NEW r \in Regimes, NEW a \in Agent, NEW o, NEW draw \in Detections,
           NEW b, b = Prepared(r, a, o)
    PROVE  /\ Acted(r, a, o, draw) \in Agent
           /\ Acted(r, a, o, draw).identities = b.identities
           /\ ~ Commits(r, b, o) => Acted(r, a, o, draw) = b
           /\ Commits(r, b, o) =>
                /\ Acted(r, a, o, draw).violations = b.violations + 1
                /\ Acted(r, a, o, draw).late = b.late + (IF step >= LateFrom THEN 1 ELSE 0)
                /\ draw # "detected" \/ r = "control" =>
                     /\ Acted(r, a, o, draw).kIdentity = b.kIdentity
                     /\ Acted(r, a, o, draw).kOperator = b.kOperator
                     /\ Acted(r, a, o, draw).stake = b.stake
                /\ draw = "detected" /\ r # "control" =>
                     /\ Acted(r, a, o, draw).kIdentity = b.kIdentity + 1
                     /\ Acted(r, a, o, draw).kOperator = b.kOperator + 1
                     /\ Acted(r, a, o, draw).stake = b.stake - Smaller(slash_for(r, History(r, b)), b.stake)
<1>1. b \in Agent
  BY PreparedAgent
<1> DEFINE late == b.late + (IF step >= LateFrom THEN 1 ELSE 0)
           all == b.violations + 1
           c == [b EXCEPT !.violations = all, !.late = late]
<1>2. late \in Nat /\ all \in Nat
  BY <1>1 DEF Agent
<1>3. /\ c \in Agent /\ c.violations = b.violations + 1 /\ c.late = late /\ c.identities = b.identities
      /\ c.kIdentity = b.kIdentity /\ c.kOperator = b.kOperator /\ c.stake = b.stake
      /\ History(r, c) = History(r, b)
  <2> HIDE DEF late, all
  <2>1. /\ c \in Agent /\ c.violations = all /\ c.late = late /\ c.identities = b.identities
        /\ c.kIdentity = b.kIdentity /\ c.kOperator = b.kOperator /\ c.stake = b.stake
    BY <1>1, <1>2 DEF Agent
  <2> HIDE DEF c
  <2> QED
    BY <2>1 DEF History, all
<1>4. Cost(r, c) \in Nat /\ Cost(r, c) <= c.stake /\ Cost(r, c) = Smaller(slash_for(r, History(r, b)), b.stake)
  <2>1. History(r, c) \in Nat
    BY <1>3 DEF History, Agent
  <2>2. slash_for(r, History(r, c)) \in Nat /\ c.stake \in Nat
    BY <2>1, <1>3, SlashTyped DEF Agent
  <2> HIDE DEF c
  <2> QED
    BY <2>2, <1>3 DEF Cost, Smaller
<1>5. Acted(r, a, o, draw) = IF ~ Commits(r, b, o) THEN b
                                 ELSE IF draw = "detected" /\ r # "control" THEN Punished(r, c) ELSE c
  BY DEF Acted
<1> HIDE DEF c, late
<1>6. /\ Punished(r, c) \in Agent /\ Punished(r, c).violations = c.violations
      /\ Punished(r, c).late = c.late /\ Punished(r, c).identities = c.identities
      /\ Punished(r, c).kIdentity = c.kIdentity + 1 /\ Punished(r, c).kOperator = c.kOperator + 1
      /\ Punished(r, c).stake = c.stake - Cost(r, c)
  <2>1. c.stake - Cost(r, c) \in Nat /\ c.slashed + Cost(r, c) \in Nat
    BY <1>3, <1>4 DEF Agent
  <2> DEFINE stake == c.stake - Cost(r, c)
             slashed == c.slashed + Cost(r, c)
             ki == c.kIdentity + 1
             ko == c.kOperator + 1
  <2>2. Punished(r, c) = [c EXCEPT !.stake = stake, !.slashed = slashed, !.kIdentity = ki, !.kOperator = ko]
    BY DEF Punished
  <2>3. stake \in Nat /\ slashed \in Nat /\ ki \in Nat /\ ko \in Nat
    BY <1>3, <2>1 DEF Agent
  <2> HIDE DEF stake, slashed, ki, ko
  <2>4. /\ Punished(r, c) \in Agent /\ Punished(r, c).violations = c.violations
        /\ Punished(r, c).late = c.late /\ Punished(r, c).identities = c.identities
        /\ Punished(r, c).kIdentity = ki /\ Punished(r, c).kOperator = ko
        /\ Punished(r, c).stake = stake
    BY <1>3, <2>2, <2>3 DEF Agent
  <2> QED
    BY <2>4 DEF stake, ki, ko
<1> QED
  BY <1>1, <1>3, <1>4, <1>5, <1>6 DEF late

\* The three ways an offer ends: it is turned down, taken and paid for, or taken without consequence.
LEMMA Refrains ==
    ASSUME NEW r \in Regimes, NEW a \in Agent, NEW o, NEW draw \in Detections,
           ~ Commits(r, Prepared(r, a, o), o)
    PROVE  Acted(r, a, o, draw) = Prepared(r, a, o)
  BY ActedAgent

LEMMA Pays ==
    ASSUME NEW r \in Regimes, NEW a \in Agent, NEW o, NEW draw \in Detections,
           draw = "detected", r # "control", Commits(r, Prepared(r, a, o), o)
    PROVE  LET b == Prepared(r, a, o)
               c == Acted(r, a, o, draw)
           IN /\ c.violations = b.violations + 1 /\ c.kOperator = b.kOperator + 1
              /\ c.stake = b.stake - Smaller(slash_for(r, History(r, b)), b.stake)
  BY ActedAgent

LEMMA GetsAway ==
    ASSUME NEW r \in Regimes, NEW a \in Agent, NEW o, NEW draw \in Detections,
           draw # "detected" \/ r = "control", Commits(r, Prepared(r, a, o), o)
    PROVE  LET b == Prepared(r, a, o)
               c == Acted(r, a, o, draw)
           IN /\ c.violations = b.violations + 1 /\ c.kOperator = b.kOperator /\ c.stake = b.stake
  BY ActedAgent

\* What an agent expects a violation to cost it.
Fears(r, b) == regime_expected_slash(r, b.stake, History(r, b))

\* An agent that fears no more violates whenever the other does.
LEMMA FearDeters ==
    ASSUME NEW r \in Regimes, NEW q \in Regimes, NEW b \in Agent, NEW c \in Agent, NEW o \in Opportunity,
           Fears(q, c) <= Fears(r, b), Commits(r, b, o)
    PROVE  Commits(q, c, o)
<1>1. Fears(r, b) \in Int /\ Fears(q, c) \in Int
  BY ExpectedTyped DEF Fears, History, Agent
<1> QED
  BY <1>1, SmallerSlashTempts DEF Commits, Expects, Fears

\* The regimes in the order of what they make an agent fear.
LEMMA FearOrder ==
    ASSUME NEW op \in Agent, NEW id \in Agent, NEW mt \in Agent, NEW fl \in Agent, NEW ct \in Agent,
           id.kIdentity <= op.kOperator
    PROVE  /\ Fears("escalating_id", id) <= Fears("escalating_operator", op)
           /\ Fears("maintained", mt) <= Fears("escalating_id", id)
           /\ Fears("flat", fl) <= Fears("maintained", mt)
           /\ Fears("control", ct) <= Fears("flat", fl)
<1>1. id.kIdentity \in Nat /\ op.kOperator \in Nat /\ fl.stake \in Nat
  BY DEF Agent
<1>2. /\ Fears("escalating_operator", op) = PNum * (slashAmount * (1 + op.kOperator))
      /\ Fears("escalating_id", id) = PNum * (slashAmount * (1 + id.kIdentity))
      /\ Fears("maintained", mt) = PNum * slashAmount
      /\ Fears("flat", fl) = PNum * Smaller(slashAmount, Larger(fl.stake, 0))
      /\ Fears("control", ct) = 0
  BY DEF Fears, History, regime_expected_slash, slash_for, Escalating
<1>3. /\ slashAmount * (1 + id.kIdentity) \in Nat /\ slashAmount * (1 + op.kOperator) \in Nat
      /\ slashAmount <= slashAmount * (1 + id.kIdentity)
      /\ slashAmount * (1 + id.kIdentity) <= slashAmount * (1 + op.kOperator)
  BY <1>1, SlashGrows
<1>4. /\ Smaller(slashAmount, Larger(fl.stake, 0)) \in Nat
      /\ Smaller(slashAmount, Larger(fl.stake, 0)) <= slashAmount
  BY <1>1, Numbers DEF Smaller, Larger
<1>5. PNum * (slashAmount * (1 + id.kIdentity)) <= PNum * (slashAmount * (1 + op.kOperator))
  BY <1>3, Numbers, Scaled
<1>6. PNum * slashAmount <= PNum * (slashAmount * (1 + id.kIdentity))
  BY <1>3, Numbers, Scaled
<1>7. PNum * Smaller(slashAmount, Larger(fl.stake, 0)) <= PNum * slashAmount
  BY <1>4, Numbers, Scaled
<1>8. PNum * 0 <= PNum * Smaller(slashAmount, Larger(fl.stake, 0)) /\ PNum * 0 = 0
  BY <1>4, Numbers, Scaled
<1> QED
  BY <1>2, <1>5, <1>6, <1>7, <1>8

\* Nobody resets for nothing: an operator history comes along, and a bond of at least break_even_bond
\* is more than a fresh identity can gain.
LEMMA ResetsPay ==
    ASSUME NEW r \in Regimes, NEW a \in Agent, NEW o \in Opportunity, bond \in Nat, Resets(r, a, o)
    PROVE  r = "escalating_id" /\ PDen * bond < BreakEven
<1>1. r \in Escalating /\ Offends(o)
  BY DEF Resets
<1>2. PDen * bond \in Nat /\ PDen * o.violation \in Int /\ PDen * o.compliant \in Int
  BY Numbers DEF Opportunity
<1>3. History(r, a) \in Nat /\ FreshHistory(r, a) \in Nat
  BY DEF History, FreshHistory, Agent
<1>4. /\ Expects(r, a, History(r, a), o) \in Int /\ Expects(r, a, FreshHistory(r, a), o) \in Int
      /\ RefusePayoff(o) \in Int
  BY <1>1, <1>2, <1>3, ExpectedTyped DEF Expects, ExecutePayoff, RefusePayoff, Agent
<1>5. r # "escalating_operator"
  <2>1. r = "escalating_operator" => FreshHistory(r, a) = History(r, a)
    BY DEF FreshHistory, History
  <2>2. BestPayoff(r, a, History(r, a), o) \in Int
    BY <1>4 DEF BestPayoff, Larger
  <2> QED
    BY <1>2, <2>1, <2>2 DEF Resets
<1>6. r = "escalating_id" /\ FreshHistory(r, a) = 0
  BY <1>1, <1>5 DEF Escalating, FreshHistory
<1>7. Expects(r, a, 0, o) = PDen * o.violation - PNum * slashAmount
  <2>1. slashAmount * (1 + 0) = slashAmount
    BY Numbers
  <2> QED
    BY <1>1, <1>6, <2>1 DEF Expects, ExecutePayoff, regime_expected_slash, slash_for
<1>8. Larger(Expects(r, a, 0, o), RefusePayoff(o)) - PDen * bond
        > Larger(Expects(r, a, History(r, a), o), RefusePayoff(o))
  BY <1>6 DEF Resets, BestPayoff
<1>9. PDen * o.violation - PNum * slashAmount - PDen * bond > PDen * o.compliant
  BY <1>2, <1>4, <1>6, <1>7, <1>8 DEF Larger, RefusePayoff
<1>10. /\ PDen * o.violation <= PDen * violationMax /\ PDen * compliantMin <= PDen * o.compliant
       /\ PDen * violationMax \in Int /\ PDen * compliantMin \in Int
  <2>1. /\ o.violation \in Int /\ o.violation <= violationMax
        /\ o.compliant \in Int /\ compliantMin <= o.compliant
    BY Numbers DEF Opportunity
  <2> QED
    BY <2>1, Numbers, Scaled
<1>11. PDen * (violationMax - compliantMin) = PDen * violationMax - PDen * compliantMin
  BY Numbers
<1>12. PNum * slashAmount \in Int
  BY Numbers
<1> QED
  BY <1>2, <1>6, <1>9, <1>10, <1>11, <1>12 DEF BreakEven

\* A violation under an operator history gains more than it is expected to cost.
LEMMA CareerStep ==
    ASSUME NEW b \in Agent, NEW o \in Opportunity, Commits("escalating_operator", b, o)
    PROVE  PNum * slashAmount * (b.kOperator + 1) <= Larger(PDen * (violationMax - compliantMin), 0)
<1>1. /\ PDen * o.violation \in Int /\ PDen * o.compliant \in Int /\ b.kOperator \in Nat
      /\ slashAmount * (1 + b.kOperator) \in Nat
  BY Numbers, SlashGrows DEF Opportunity, Agent
<1>2. PNum * (slashAmount * (1 + b.kOperator)) \in Int
  BY <1>1, Numbers
<1>3. Better(PDen * o.violation - PNum * (slashAmount * (1 + b.kOperator)), PDen * o.compliant)
  BY DEF Commits, Expects, ExecutePayoff, RefusePayoff, regime_expected_slash, slash_for, History, Escalating
<1>4. PDen * o.violation - PNum * (slashAmount * (1 + b.kOperator)) >= PDen * o.compliant
  BY <1>1, <1>2, <1>3 DEF Better
<1>5. /\ PDen * o.violation <= PDen * violationMax /\ PDen * compliantMin <= PDen * o.compliant
      /\ PDen * violationMax \in Int /\ PDen * compliantMin \in Int
  <2>1. /\ o.violation \in Int /\ o.violation <= violationMax
        /\ o.compliant \in Int /\ compliantMin <= o.compliant
    BY Numbers DEF Opportunity
  <2> QED
    BY <2>1, Numbers, Scaled
<1>6. PDen * (violationMax - compliantMin) = PDen * violationMax - PDen * compliantMin
  BY Numbers
<1>7. PNum * slashAmount * (b.kOperator + 1) = PNum * (slashAmount * (1 + b.kOperator))
  BY <1>1, Numbers
<1> QED
  BY <1>1, <1>2, <1>4, <1>5, <1>6, <1>7 DEF Larger

------------------------------------------------------------------------------
(* The inductive invariant.                                                  *)

\* An identity never has a longer history than its operator would have under an operator history,
\* although it violates more often: it does so only while it is behind.
HistoryBehind ==
    \A i \in Agents : world["escalating_id"][i].kIdentity <= world["escalating_operator"][i].kOperator

\* Where no offer beats the expected slash of a full stake, no stake is ever touched.
Unbroken ==
    ~ treatment_violation_feasible /\ ~ tieBreakExecutes =>
        \A i \in Agents : treated[i] = 0 /\ accounts[i].stakeRemaining = stakeAmount

IInv == TypeOK /\ HistoryBehind /\ DeterrenceOrder /\ CareersEnd /\ SameExperiment /\ Unbroken

\* The regimes and the agents that exist.
LEMMA Names ==
    /\ Regimes = {"control", "flat", "maintained", "escalating_id", "escalating_operator"}
    /\ Agents \subseteq Nat
  BY Numbers DEF Regimes, Agents

LEMMA InitInv == Init => IInv
<1> SUFFICES ASSUME Init PROVE IInv
  OBVIOUS
<1>1. ASSUME NEW r \in Regimes, NEW i \in Agents
      PROVE  /\ world[r][i] \in Agent /\ world[r][i].kIdentity = 0 /\ world[r][i].kOperator = 0
             /\ world[r][i].identities = 1 /\ world[r][i].violations = 0 /\ world[r][i].late = 0
             /\ r # "control" => world[r][i].stake = stakeAmount
  BY Numbers DEF Init, Agent
<1>2. TypeOK
  <2>1. [stakeRemaining |-> stakeAmount, history |-> <<>>] \in Account
    BY Numbers DEF Account
  <2>2. world \in [Regimes -> [Agents -> Agent]]
    BY <1>1 DEF Init
  <2> QED
    BY <2>1, <2>2 DEF Init, TypeOK
<1>3. HistoryBehind /\ DeterrenceOrder
  <2>1. ASSUME NEW r \in Regimes, NEW q \in Regimes, NEW i \in Agents
        PROVE  world[r][i].kIdentity <= world[q][i].kOperator /\ Deters(r, q, i)
    BY <1>1 DEF Deters
  <2> QED
    BY <2>1, Names DEF HistoryBehind, DeterrenceOrder
<1>4. CareersEnd
  <2>1. PNum * slashAmount * 0 = 0 /\ 0 <= Larger(PDen * (violationMax - compliantMin), 0)
    BY Numbers DEF Larger
  <2> QED
    BY <1>1, <2>1, Names DEF CareersEnd
<1>5. SameExperiment
  <2>1. \A i \in Agents : /\ baseline[i] = 0 /\ treated[i] = 0
                          /\ accounts[i].stakeRemaining = stakeAmount /\ Len(accounts[i].history) = 0
    BY DEF Init
  <2> QED
    BY <1>1, <2>1, Names DEF SameExperiment
<1>6. Unbroken
  BY DEF Init, Unbroken
<1> QED
  BY <1>2, <1>3, <1>4, <1>5, <1>6 DEF IInv

\* What one offer does to the state, agent by agent.
LEMMA OfferStep ==
    ASSUME TypeOK, NEW o \in Opportunity, NEW draw \in Detections, Offer(o, draw)
    PROVE  /\ turn \in Agents /\ bond' = bond
           /\ \A r \in Regimes : /\ world'[r][turn] = Acted(r, world[r][turn], o, draw)
                                 /\ \A i \in Agents \ {turn} : world'[r][i] = world[r][i]
           /\ \A i \in Agents \ {turn} : /\ baseline'[i] = baseline[i] /\ treated'[i] = treated[i]
                                          /\ accounts'[i] = accounts[i]
<1>1. turn \in Agents
  BY Numbers DEF TypeOK, Offer, Agents
<1>2. ASSUME NEW r \in Regimes
      PROVE  /\ world'[r][turn] = Acted(r, world[r][turn], o, draw)
             /\ \A i \in Agents \ {turn} : world'[r][i] = world[r][i]
  <2>1. world'[r] = [world[r] EXCEPT ![turn] = Acted(r, world[r][turn], o, draw)]
    BY DEF Offer, run_regimes
  <2>2. world[r] \in [Agents -> Agent]
    BY DEF TypeOK
  <2> QED
    BY <1>1, <2>1, <2>2
<1>3. \A i \in Agents \ {turn} : accounts'[i] = accounts[i]
  BY <1>1 DEF TypeOK, Offer, run_staked_treatment, report_violation
<1>4. \A i \in Agents \ {turn} : baseline'[i] = baseline[i] /\ treated'[i] = treated[i]
  BY <1>1 DEF TypeOK, Offer, run_unstaked_baseline, run_staked_treatment
<1> QED
  BY <1>1, <1>2, <1>3, <1>4 DEF Offer

\* A violation of the treated agent and its report.
LEMMA TreatedStep ==
    ASSUME TypeOK, NEW o \in Opportunity, NEW draw \in Detections, Offer(o, draw),
           NEW committed, committed = (Offends(o) /\ choose_action(o, TRUE, accounts[turn].stakeRemaining) = "execute")
    PROVE  /\ accounts' \in [Agents -> Account]
           /\ treated' \in [Agents -> Nat] /\ treated'[turn] = treated[turn] + Count(committed)
           /\ committed /\ draw = "detected" =>
                /\ accounts'[turn].stakeRemaining =
                      accounts[turn].stakeRemaining - Smaller(slashAmount, accounts[turn].stakeRemaining)
                /\ Len(accounts'[turn].history) = Len(accounts[turn].history) + 1
           /\ ~ (committed /\ draw = "detected") => accounts' = accounts
<1>1. turn \in Agents /\ accounts \in [Agents -> Account] /\ treated \in [Agents -> Nat]
  BY OfferStep DEF TypeOK
<1>2. /\ treated' = [treated EXCEPT ![turn] = @ + Count(committed)]
      /\ accounts' = IF committed /\ draw = "detected" THEN report_violation(accounts, turn) ELSE accounts
  BY DEF Offer, run_staked_treatment
<1>3. Count(committed) \in Nat
  BY DEF Count
<1> DEFINE taken == Slashed(accounts, turn)
           left  == accounts[turn].stakeRemaining - taken
           log   == Append(accounts[turn].history, taken)
<1>4. /\ taken \in Nat /\ left \in Nat /\ log \in Seq(Nat)
      /\ Len(log) = Len(accounts[turn].history) + 1
      /\ taken = Smaller(slashAmount, accounts[turn].stakeRemaining)
  BY <1>1, Numbers DEF Slashed, Smaller, Account
<1>5. report_violation(accounts, turn) = [accounts EXCEPT ![turn] = [stakeRemaining |-> left, history |-> log]]
  BY DEF report_violation
<1>6. left = accounts[turn].stakeRemaining - Smaller(slashAmount, accounts[turn].stakeRemaining)
  BY <1>4
<1> HIDE DEF taken, left, log
<1>7. [stakeRemaining |-> left, history |-> log] \in Account
  BY <1>4 DEF Account
<1>8. treated' \in [Agents -> Nat] /\ treated'[turn] = treated[turn] + Count(committed)
  <2> DEFINE n == Count(committed)
  <2>1. n \in Nat /\ treated' = [treated EXCEPT ![turn] = @ + n]
    BY <1>2, <1>3
  <2> HIDE DEF n
  <2>2. treated' \in [Agents -> Nat] /\ treated'[turn] = treated[turn] + n
    BY <1>1, <2>1
  <2> QED
    BY <2>2 DEF n
<1>9. CASE committed /\ draw = "detected"
  <2>1. accounts' = [accounts EXCEPT ![turn] = [stakeRemaining |-> left, history |-> log]]
    BY <1>2, <1>5, <1>9
  <2>2. accounts' \in [Agents -> Account] /\ accounts'[turn] = [stakeRemaining |-> left, history |-> log]
    BY <1>1, <1>7, <2>1
  <2>3. /\ accounts'[turn].stakeRemaining =
              accounts[turn].stakeRemaining - Smaller(slashAmount, accounts[turn].stakeRemaining)
        /\ Len(accounts'[turn].history) = Len(accounts[turn].history) + 1
    BY <1>4, <1>6, <2>2
  <2> QED
    BY <1>8, <1>9, <2>2, <2>3, Zenon
<1>10. CASE ~ (committed /\ draw = "detected")
  <2>1. accounts' = accounts
    BY <1>2, <1>10
  <2> QED
    BY <1>1, <1>8, <1>10, <2>1
<1> QED
  BY <1>9, <1>10

LEMMA StepType ==
    ASSUME TypeOK, NEW o \in Opportunity, NEW draw \in Detections, Offer(o, draw)
    PROVE  TypeOK'
<1>1. turn \in Agents /\ bond' \in Bonds
  BY OfferStep DEF TypeOK
<1>2. world' \in [Regimes -> [Agents -> Agent]]
  <2>1. ASSUME NEW r \in Regimes
        PROVE  [world[r] EXCEPT ![turn] = Acted(r, @, o, draw)] \in [Agents -> Agent]
    <3>1. world[r] \in [Agents -> Agent] /\ world[r][turn] \in Agent
      BY <1>1 DEF TypeOK
    <3>2. Acted(r, world[r][turn], o, draw) \in Agent
      BY <3>1, ActedAgent
    <3> QED
      BY <3>1, <3>2
  <2> QED
    BY <2>1 DEF Offer, run_regimes
<1>3. baseline' \in [Agents -> Nat]
  <2> DEFINE n == Count(Offends(o) /\ choose_action(o, FALSE, 0) = "execute")
  <2>1. baseline \in [Agents -> Nat] /\ n \in Nat /\ baseline' = [baseline EXCEPT ![turn] = @ + n]
    BY DEF TypeOK, Count, Offer, run_unstaked_baseline
  <2> HIDE DEF n
  <2> QED
    BY <1>1, <2>1
<1>4. accounts' \in [Agents -> Account] /\ treated' \in [Agents -> Nat]
  BY TreatedStep
<1>5. turn' \in Nat /\ step' \in Nat
  <2>1. nAgents \in Nat /\ nAgents > 0 /\ turn \in Nat /\ step \in Nat
    BY Numbers DEF TypeOK, Offer
  <2> QED
    BY <2>1 DEF Offer
<1> QED
  BY <1>1, <1>2, <1>3, <1>4, <1>5 DEF TypeOK

\* The agent that is offered something, before and after, in two regimes: the harsher one deters.
LEMMA PairStep ==
    ASSUME NEW r \in Regimes, NEW q \in Regimes, NEW o \in Opportunity, NEW draw \in Detections,
           NEW a \in Agent, NEW c \in Agent,
           a.violations <= c.violations, a.late <= c.late,
           Commits(r, Prepared(r, a, o), o) => Commits(q, Prepared(q, c, o), o)
    PROVE  /\ Acted(r, a, o, draw).violations <= Acted(q, c, o, draw).violations
           /\ Acted(r, a, o, draw).late <= Acted(q, c, o, draw).late
<1> DEFINE b == Prepared(r, a, o)
           d == Prepared(q, c, o)
<1>1. /\ b \in Agent /\ b.violations = a.violations /\ b.late = a.late
      /\ d \in Agent /\ d.violations = c.violations /\ d.late = c.late
  BY PreparedAgent
<1>2. /\ ~ Commits(r, b, o) => Acted(r, a, o, draw) = b
      /\ Commits(r, b, o) => /\ Acted(r, a, o, draw).violations = b.violations + 1
                             /\ Acted(r, a, o, draw).late = b.late + (IF step >= LateFrom THEN 1 ELSE 0)
      /\ ~ Commits(q, d, o) => Acted(q, c, o, draw) = d
      /\ Commits(q, d, o) => /\ Acted(q, c, o, draw).violations = d.violations + 1
                             /\ Acted(q, c, o, draw).late = d.late + (IF step >= LateFrom THEN 1 ELSE 0)
  BY ActedAgent
<1> HIDE DEF b, d
<1>3. (IF step >= LateFrom THEN 1 ELSE 0) \in {0, 1}
  OBVIOUS
<1> DEFINE l == IF step >= LateFrom THEN 1 ELSE 0
<1> HIDE DEF l
<1>4. /\ Commits(r, b, o) => Acted(r, a, o, draw).late = b.late + l
      /\ Commits(q, d, o) => Acted(q, c, o, draw).late = d.late + l
      /\ l \in {0, 1}
  BY <1>2, <1>3 DEF l
<1>5. Commits(r, b, o) => Commits(q, d, o)
  BY DEF b, d
<1> QED
  BY <1>1, <1>2, <1>4, <1>5 DEF Agent

\* The identity history stays behind the operator's: at equal histories both decide alike.
LEMMA BehindStep ==
    ASSUME NEW o \in Opportunity, NEW draw \in Detections, bond \in Nat,
           NEW a \in Agent, NEW c \in Agent, a.kIdentity <= c.kOperator
    PROVE  Acted("escalating_id", a, o, draw).kIdentity
              <= Acted("escalating_operator", c, o, draw).kOperator
<1> DEFINE b == Prepared("escalating_id", a, o)
           d == Prepared("escalating_operator", c, o)
<1>1. /\ b \in Agent /\ d \in Agent /\ d.kOperator = c.kOperator
      /\ b.kIdentity = (IF Resets("escalating_id", a, o) THEN 0 ELSE a.kIdentity)
  BY PreparedAgent, Names
<1>2. /\ b.kIdentity \in Nat /\ d.kOperator \in Nat /\ b.kIdentity <= d.kOperator
  BY <1>1 DEF Agent
<1>3. /\ Acted("escalating_id", a, o, draw).kIdentity
            = IF Commits("escalating_id", b, o) /\ draw = "detected" THEN b.kIdentity + 1 ELSE b.kIdentity
      /\ Acted("escalating_operator", c, o, draw).kOperator
            = IF Commits("escalating_operator", d, o) /\ draw = "detected" THEN d.kOperator + 1 ELSE d.kOperator
  BY ActedAgent, Names
<1> HIDE DEF b, d
<1>4. b.kIdentity = d.kOperator /\ Commits("escalating_id", b, o) => Commits("escalating_operator", d, o)
  <2>1. b.kIdentity = d.kOperator => Fears("escalating_id", b) = Fears("escalating_operator", d)
    BY DEF Fears, History, regime_expected_slash, slash_for, Escalating
  <2>2. Fears("escalating_id", b) \in Int
    BY <1>1, <1>2, Names, ExpectedTyped DEF Fears, History, Agent
  <2> QED
    BY <1>1, <2>1, <2>2, Names, FearDeters
<1> QED
  BY <1>2, <1>3, <1>4

LEMMA StepInv ==
    ASSUME IInv, NEW o \in Opportunity, NEW draw \in Detections, Offer(o, draw)
    PROVE  HistoryBehind' /\ DeterrenceOrder' /\ CareersEnd'
<1>1. /\ TypeOK /\ turn \in Agents /\ bond' = bond /\ bond \in Nat
  BY BondsAssumption, OfferStep DEF IInv, TypeOK
<1>2. ASSUME NEW r \in Regimes, NEW i \in Agents
      PROVE  /\ world[r][i] \in Agent
             /\ i = turn => world'[r][i] = Acted(r, world[r][i], o, draw)
             /\ i # turn => world'[r][i] = world[r][i]
  BY <1>1, OfferStep DEF TypeOK
<1> DEFINE op(i) == world["escalating_operator"][i]
           id(i) == world["escalating_id"][i]
           was(r, i) == Prepared(r, world[r][i], o)
<1>3. \A i \in Agents : id(i).kIdentity <= op(i).kOperator
  BY DEF IInv, HistoryBehind
<1>4. HistoryBehind'
  <2> SUFFICES ASSUME NEW i \in Agents
               PROVE  world'["escalating_id"][i].kIdentity <= world'["escalating_operator"][i].kOperator
    BY DEF HistoryBehind
  <2>1. CASE i = turn
    BY <1>1, <1>2, <1>3, <2>1, BehindStep, Names
  <2>2. CASE i # turn
    BY <1>2, <1>3, <2>2, Names
  <2> QED
    BY <2>1, <2>2
<1>5. ASSUME NEW i \in Agents
      PROVE  /\ Commits("escalating_operator", was("escalating_operator", i), o) =>
                    Commits("escalating_id", was("escalating_id", i), o)
             /\ Commits("escalating_id", was("escalating_id", i), o) => Commits("maintained", was("maintained", i), o)
             /\ Commits("maintained", was("maintained", i), o) => Commits("flat", was("flat", i), o)
             /\ Commits("flat", was("flat", i), o) => Commits("control", was("control", i), o)
  <2>1. \A r \in Regimes : was(r, i) \in Agent
    BY <1>2, PreparedAgent
  <2>2. was("escalating_id", i).kIdentity <= was("escalating_operator", i).kOperator
    <3>1. /\ was("escalating_operator", i).kOperator = op(i).kOperator
          /\ was("escalating_id", i).kIdentity =
                (IF Resets("escalating_id", id(i), o) THEN 0 ELSE id(i).kIdentity)
          /\ op(i).kOperator \in Nat
      BY <1>2, PreparedAgent, Names DEF Agent
    <3> QED
      BY <1>3, <3>1
  <2> HIDE DEF was
  <2>3. /\ Fears("escalating_id", was("escalating_id", i)) <= Fears("escalating_operator", was("escalating_operator", i))
        /\ Fears("maintained", was("maintained", i)) <= Fears("escalating_id", was("escalating_id", i))
        /\ Fears("flat", was("flat", i)) <= Fears("maintained", was("maintained", i))
        /\ Fears("control", was("control", i)) <= Fears("flat", was("flat", i))
    BY <2>1, <2>2, FearOrder, Names
  <2> QED
    BY <2>1, <2>3, FearDeters, Names
<1>6. DeterrenceOrder'
  <2>1. ASSUME NEW r \in Regimes, NEW q \in Regimes, NEW i \in Agents, Deters(r, q, i),
               Commits(r, was(r, i), o) => Commits(q, was(q, i), o)
        PROVE  Deters(r, q, i)'
    <3>1. CASE i = turn
      BY <1>2, <2>1, <3>1, PairStep DEF Deters
    <3>2. CASE i # turn
      BY <1>2, <2>1, <3>2 DEF Deters
    <3> QED
      BY <3>1, <3>2
  <2>2. DeterrenceOrder
    BY DEF IInv
  <2> HIDE DEF was
  <2> QED
    BY <1>5, <2>1, <2>2, Names DEF DeterrenceOrder
<1>7. CareersEnd'
  <2> DEFINE most == Larger(PDen * (violationMax - compliantMin), 0)
  <2> SUFFICES ASSUME NEW i \in Agents
               PROVE  /\ PNum * slashAmount * world'["escalating_operator"][i].kOperator <= most
                      /\ world'["escalating_operator"][i].identities = 1
                      /\ PDen * bond >= BreakEven => world'["escalating_id"][i].identities = 1
    BY <1>1 DEF CareersEnd
  <2>1. /\ PNum * slashAmount * op(i).kOperator <= most
        /\ op(i).identities = 1
        /\ PDen * bond >= BreakEven => id(i).identities = 1
    BY DEF IInv, CareersEnd
  <2>2. CASE i # turn
    BY <1>2, <2>1, <2>2, Names
  <2>3. CASE i = turn
    <3> DEFINE b == was("escalating_operator", i)
               d == was("escalating_id", i)
    <3>1. /\ b \in Agent /\ b.kOperator = op(i).kOperator
          /\ ~ Resets("escalating_operator", op(i), o)
          /\ b.identities = op(i).identities
      BY <1>1, <1>2, PreparedAgent, ResetsPay, Names
    <3>2. PDen * bond >= BreakEven => d.identities = id(i).identities
      <4>1. d.identities = (IF Resets("escalating_id", id(i), o) THEN id(i).identities + 1 ELSE id(i).identities)
        BY <1>2, PreparedAgent, Names
      <4>2. PDen * bond \in Int /\ BreakEven \in Int
        BY <1>1, Numbers DEF BreakEven
      <4>3. Resets("escalating_id", id(i), o) => PDen * bond < BreakEven
        BY <1>1, <1>2, ResetsPay, Names
      <4> QED
        BY <4>1, <4>2, <4>3
    <3>3. /\ world'["escalating_operator"][i].identities = b.identities
          /\ world'["escalating_id"][i].identities = d.identities
      BY <1>2, <2>3, ActedAgent, Names
    <3>4. PNum * slashAmount * world'["escalating_operator"][i].kOperator <= most
      <4> HIDE DEF most
      <4>1. CASE Commits("escalating_operator", b, o) /\ draw = "detected"
        <5>1. op(i) \in Agent /\ world'["escalating_operator"][i] = Acted("escalating_operator", op(i), o, draw)
          BY <1>2, <2>3, <4>1, Names
        <5>2. Acted("escalating_operator", op(i), o, draw).kOperator = b.kOperator + 1
          <6>1. draw = "detected"
            BY <4>1
          <6> QED
            BY <4>1, <5>1, <6>1, Pays, Names
        <5> QED
          BY <3>1, <4>1, <5>1, <5>2, CareerStep DEF most
      <4>2. CASE ~ (Commits("escalating_operator", b, o) /\ draw = "detected")
        <5>1. world'["escalating_operator"][i].kOperator = b.kOperator
          BY <1>2, <2>3, <4>2, ActedAgent, Names
        <5> QED
          BY <2>1, <3>1, <5>1
      <4> QED
        BY <4>1, <4>2
    <3> QED
      BY <2>1, <3>1, <3>2, <3>3, <3>4
  <2> QED
    BY <2>2, <2>3
<1> QED
  BY <1>4, <1>6, <1>7

\* "control" decides as the unstaked agent, and "flat" as the staked one.
LEMMA SameDecision ==
    ASSUME NEW o \in Opportunity, NEW b \in Agent
    PROVE  /\ Commits("control", b, o) <=> Offends(o) /\ choose_action(o, FALSE, 0) = "execute"
           /\ Commits("flat", b, o) <=> Offends(o) /\ choose_action(o, TRUE, b.stake) = "execute"
<1>1. Fears("control", b) = expected_slash(FALSE, 0)
  BY DEF Fears, regime_expected_slash, expected_slash
<1>2. Fears("flat", b) = expected_slash(TRUE, b.stake)
  <2>1. b.stake \in Nat /\ Larger(b.stake, 0) = b.stake /\ PNum * 0 = 0
    BY Numbers DEF Agent, Larger
  <2>2. b.stake = 0 => Smaller(slashAmount, b.stake) = 0
    BY Numbers DEF Smaller
  <2> QED
    BY <2>1, <2>2 DEF Fears, regime_expected_slash, expected_slash
<1>3. ASSUME NEW r \in Regimes, NEW staked \in BOOLEAN, NEW s, Fears(r, b) = expected_slash(staked, s)
      PROVE  Commits(r, b, o) <=> Offends(o) /\ choose_action(o, staked, s) = "execute"
  BY <1>3 DEF Commits, Expects, Fears, choose_action, expected_payoff_execute
<1> QED
  BY <1>1, <1>2, <1>3, Names

\* The confirmatory groups stay in step with the regimes they are the same experiment as.
LEMMA StepSame ==
    ASSUME IInv, NEW o \in Opportunity, NEW draw \in Detections, Offer(o, draw)
    PROVE  SameExperiment'
<1> SUFFICES ASSUME NEW i \in Agents
             PROVE  /\ world'["control"][i].violations = baseline'[i]
                    /\ world'["flat"][i].violations = treated'[i]
                    /\ world'["flat"][i].stake = accounts'[i].stakeRemaining
                    /\ world'["flat"][i].kOperator = Len(accounts'[i].history)
  BY DEF SameExperiment
<1>1. /\ TypeOK /\ turn \in Agents
      /\ world["control"][i].violations = baseline[i] /\ world["flat"][i].violations = treated[i]
      /\ world["flat"][i].stake = accounts[i].stakeRemaining
      /\ world["flat"][i].kOperator = Len(accounts[i].history)
  BY OfferStep DEF IInv, SameExperiment
<1>2. CASE i # turn
  BY <1>1, <1>2, OfferStep, Names
<1>3. CASE i = turn
  <2> DEFINE c == world["control"][i]
             f == world["flat"][i]
             pc == Prepared("control", c, o)
             pf == Prepared("flat", f, o)
             baselined == Offends(o) /\ choose_action(o, FALSE, 0) = "execute"
             committed == Offends(o) /\ choose_action(o, TRUE, accounts[turn].stakeRemaining) = "execute"
  <2>1. /\ c \in Agent /\ f \in Agent
        /\ world'["control"][i] = Acted("control", c, o, draw)
        /\ world'["flat"][i] = Acted("flat", f, o, draw)
    BY <1>1, <1>3, OfferStep, Names DEF TypeOK
  <2>2. /\ pc \in Agent /\ pc.violations = c.violations
        /\ pf \in Agent /\ pf.violations = f.violations /\ pf.stake = f.stake /\ pf.kOperator = f.kOperator
    <3>1. "flat" \notin Maintained
      BY DEF Maintained, Escalating
    <3> QED
      BY <2>1, <3>1, PreparedAgent, Names
  <2>3. (Commits("control", pc, o) <=> baselined) /\ (Commits("flat", pf, o) <=> committed)
    BY <1>1, <1>3, <2>2, SameDecision
  <2> DEFINE nb == Count(baselined)
             nc == Count(committed)
  <2>4. /\ nb = (IF baselined THEN 1 ELSE 0) /\ nc = (IF committed THEN 1 ELSE 0)
        /\ baselined \in BOOLEAN /\ committed \in BOOLEAN
    BY DEF Count
  <2>5. baseline'[i] = baseline[i] + nb
    BY <1>1, <1>3 DEF TypeOK, Offer, run_unstaked_baseline
  <2>6. /\ treated'[i] = treated[i] + nc
        /\ committed /\ draw = "detected" =>
             /\ accounts'[i].stakeRemaining =
                   accounts[i].stakeRemaining - Smaller(slashAmount, accounts[i].stakeRemaining)
             /\ Len(accounts'[i].history) = Len(accounts[i].history) + 1
        /\ ~ (committed /\ draw = "detected") => accounts' = accounts
    BY <1>1, <1>3, TreatedStep
  <2> HIDE DEF baselined, committed, nb, nc
  <2>7. Acted("control", c, o, draw).violations = c.violations + nb
    <3>1. CASE baselined
      BY <2>1, <2>2, <2>3, <2>4, <3>1, GetsAway, Names
    <3>2. CASE ~ baselined
      BY <2>1, <2>2, <2>3, <2>4, <3>2, Refrains, Names DEF Agent
    <3> QED
      BY <2>4, <3>1, <3>2
  <2>8. slash_for("flat", History("flat", pf)) = slashAmount
    BY DEF slash_for, Escalating
  <2>9. CASE committed /\ draw = "detected"
    <3>1. /\ Acted("flat", f, o, draw).violations = f.violations + nc
          /\ Acted("flat", f, o, draw).kOperator = f.kOperator + 1
          /\ Acted("flat", f, o, draw).stake = f.stake - Smaller(slashAmount, f.stake)
      <4>1. draw = "detected" /\ Commits("flat", pf, o) /\ nc = 1
        BY <2>3, <2>4, <2>9
      <4> QED
        BY <2>1, <2>2, <2>8, <4>1, Pays, Names
    <3>2. /\ accounts'[i].stakeRemaining =
                accounts[i].stakeRemaining - Smaller(slashAmount, accounts[i].stakeRemaining)
          /\ Len(accounts'[i].history) = Len(accounts[i].history) + 1
      BY <2>6, <2>9
    <3> QED
      BY <1>1, <2>1, <2>5, <2>6, <2>7, <3>1, <3>2
  <2>10. CASE ~ (committed /\ draw = "detected")
    <3>1. accounts' = accounts
      BY <2>6, <2>10
    <3>2. /\ Acted("flat", f, o, draw).violations = f.violations + nc
          /\ Acted("flat", f, o, draw).kOperator = f.kOperator
          /\ Acted("flat", f, o, draw).stake = f.stake
      <4>1. CASE committed
        BY <2>1, <2>2, <2>3, <2>4, <2>10, <4>1, GetsAway, Names
      <4>2. CASE ~ committed
        BY <2>1, <2>2, <2>3, <2>4, <4>2, Refrains, Names DEF Agent
      <4> QED
        BY <2>4, <4>1, <4>2
    <3> QED
      BY <1>1, <2>1, <2>5, <2>6, <2>7, <3>1, <3>2
  <2> QED
    BY <2>9, <2>10
<1> QED
  BY <1>2, <1>3

\* Where no offer beats the expected slash of a full stake, nobody gives in and no stake is touched.
LEMMA StepUnbroken ==
    ASSUME IInv, NEW o \in Opportunity, NEW draw \in Detections, Offer(o, draw)
    PROVE  Unbroken'
<1> SUFFICES ASSUME ~ treatment_violation_feasible, ~ tieBreakExecutes, NEW i \in Agents
             PROVE  treated'[i] = 0 /\ accounts'[i].stakeRemaining = stakeAmount
  BY DEF Unbroken, treatment_violation_feasible
<1>1. /\ TypeOK /\ turn \in Agents
      /\ \A j \in Agents : treated[j] = 0 /\ accounts[j].stakeRemaining = stakeAmount
  BY OfferStep DEF IInv, Unbroken
<1>2. ~ (Offends(o) /\ choose_action(o, TRUE, accounts[turn].stakeRemaining) = "execute")
  <2> SUFFICES ASSUME Offends(o), choose_action(o, TRUE, stakeAmount) = "execute" PROVE FALSE
    BY <1>1
  <2> DEFINE es == PNum * Smaller(slashAmount, stakeAmount)
  <2>1. es \in Int /\ es = expected_slash(TRUE, stakeAmount)
    <3>1. Smaller(slashAmount, stakeAmount) \in Nat /\ PNum * 0 = 0
      BY Numbers DEF Smaller
    <3>2. stakeAmount = 0 => Smaller(slashAmount, stakeAmount) = 0
      BY Numbers DEF Smaller
    <3>3. es \in Int
      BY <3>1, Numbers
    <3> QED
      BY <3>1, <3>2, <3>3, Numbers DEF expected_slash
  <2>2. PDen * o.violation \in Int /\ PDen * o.compliant \in Int
    BY Numbers DEF Opportunity
  <2> HIDE DEF es
  <2>3. PDen * o.violation - es > PDen * o.compliant
    <3>1. Better(PDen * o.violation - es, PDen * o.compliant)
      BY <2>1 DEF choose_action, expected_payoff_execute, ExecutePayoff, RefusePayoff
    <3> QED
      BY <2>1, <2>2, <3>1 DEF Better
  <2>4. /\ PDen * o.violation <= PDen * violationMax /\ PDen * compliantMin <= PDen * o.compliant
        /\ PDen * violationMax \in Int /\ PDen * compliantMin \in Int
    <3>1. /\ o.violation \in Int /\ o.violation <= violationMax
          /\ o.compliant \in Int /\ compliantMin <= o.compliant
      BY Numbers DEF Opportunity
    <3> QED
      BY <3>1, Numbers, Scaled
  <2> QED
    BY <2>1, <2>2, <2>3, <2>4 DEF treatment_violation_feasible, es
<1>3. accounts' = accounts /\ treated'[turn] = treated[turn] + 0
  BY <1>1, <1>2, TreatedStep DEF Count
<1> QED
  BY <1>1, <1>3, OfferStep

LEMMA NextInv == IInv /\ [Next]_vars => IInv'
<1> SUFFICES ASSUME IInv, [Next]_vars PROVE IInv'
  OBVIOUS
<1>1. CASE Next
  <2>1. PICK o \in Opportunity, draw \in Detections : Offer(o, draw)
    BY <1>1 DEF Next, Drawable
  <2> QED
    BY <2>1, StepType, StepInv, StepSame, StepUnbroken DEF IInv
<1>2. CASE UNCHANGED vars
  BY <1>2 DEF vars, IInv, TypeOK, HistoryBehind, DeterrenceOrder, Deters, CareersEnd, SameExperiment, Unbroken
<1> QED
  BY <1>1, <1>2

LEMMA Invariance == Spec => []IInv
  BY InitInv, NextInv, PTL DEF Spec

------------------------------------------------------------------------------
(* What violations are paid with.                                            *)

\* The fields of an agent that the books are about.
Purse(a) ==
    /\ a.stake \in Nat /\ a.toppedUp \in Nat /\ a.slashed \in Nat
    /\ a.kIdentity \in Nat /\ a.kOperator \in Nat

\* Nobody tops up a flat stake.
Books(r, a) == PaidFor(r, a) /\ (r = "flat" => a.toppedUp = 0)

LEMMA Series ==
    ASSUME NEW s \in Nat, NEW k \in Nat
    PROVE  /\ s * k * (k + 1) + 2 * (s * (1 + k)) = s * (k + 1) * (k + 1 + 1)
           /\ s * k + s = s * (k + 1)
           /\ s * k \in Nat /\ s * (1 + k) \in Nat /\ s * k * (k + 1) \in Nat
  OBVIOUS

\* Topping up costs what it adds.
LEMMA TopUpBooks ==
    ASSUME NEW r \in Regimes \ {"control"}, NEW a, Purse(a), Books(r, a), NEW d \in Nat,
           r = "flat" => d = 0,
           NEW b, b.stake = a.stake + d, b.toppedUp = a.toppedUp + d,
           b.slashed = a.slashed, b.kOperator = a.kOperator
    PROVE  Books(r, b)
<1>1. /\ a.stake \in Nat /\ a.toppedUp \in Nat /\ a.slashed \in Nat /\ stakeAmount \in Nat
      /\ a.stake + a.slashed = stakeAmount + a.toppedUp
  BY Numbers DEF Purse, Books, PaidFor
<1>2. b.stake + b.slashed = stakeAmount + b.toppedUp
  BY <1>1
<1>3. r = "flat" => b.toppedUp = 0
  BY DEF Books
<1> QED
  BY <1>2, <1>3 DEF Books, PaidFor

\* A detected violation is paid for in full, out of the stake.
LEMMA ChargeBooks ==
    ASSUME NEW r \in Regimes \ {"control"}, NEW a, Purse(a), Books(r, a), NEW h \in Nat,
           r = "escalating_operator" => h = a.kOperator, NEW cost \in Nat, cost <= a.stake,
           r \in Maintained => cost = slash_for(r, h),
           r = "flat" => cost = Smaller(slashAmount, a.stake),
           NEW b, b.stake = a.stake - cost, b.slashed = a.slashed + cost,
           b.toppedUp = a.toppedUp, b.kOperator = a.kOperator + 1
    PROVE  Books(r, b)
<1> DEFINE k == a.kOperator
           due == slashAmount * k
<1>1. /\ a.stake \in Nat /\ a.toppedUp \in Nat /\ a.slashed \in Nat /\ k \in Nat
      /\ stakeAmount \in Nat /\ slashAmount \in Nat
      /\ a.stake + a.slashed = stakeAmount + a.toppedUp
  BY Numbers DEF Purse, Books, PaidFor
<1>2. /\ due \in Nat /\ slashAmount * b.kOperator = due + slashAmount
      /\ slashAmount * (1 + h) \in Nat /\ slashAmount <= slashAmount * (1 + h)
  <2>1. b.kOperator = k + 1
    OBVIOUS
  <2>2. due \in Nat /\ slashAmount * (k + 1) = due + slashAmount
    BY <1>1, Series
  <2>3. h <= h
    OBVIOUS
  <2> HIDE DEF due, k
  <2>4. slashAmount * (1 + h) \in Nat /\ slashAmount <= slashAmount * (1 + h)
    BY <2>3, SlashGrows
  <2> QED
    BY <2>1, <2>2, <2>4
<1>3. slashAmount * k * (k + 1) + 2 * (slashAmount * (1 + k)) = slashAmount * b.kOperator * (b.kOperator + 1)
  BY <1>1, Series
<1>4. b.stake + b.slashed = stakeAmount + b.toppedUp
  BY <1>1
<1>5. r = "maintained" => b.slashed = slashAmount * b.kOperator
  <2> SUFFICES ASSUME r = "maintained" PROVE b.slashed = slashAmount * b.kOperator
    OBVIOUS
  <2>1. cost = slashAmount /\ a.slashed = due
    BY DEF Maintained, Escalating, slash_for, Books, PaidFor
  <2> HIDE DEF due
  <2> QED
    BY <1>1, <1>2, <2>1
<1>6. r = "escalating_operator" => 2 * b.slashed = slashAmount * b.kOperator * (b.kOperator + 1)
  <2> SUFFICES ASSUME r = "escalating_operator"
               PROVE  2 * b.slashed = slashAmount * b.kOperator * (b.kOperator + 1)
    OBVIOUS
  <2>1. cost = slashAmount * (1 + k) /\ 2 * a.slashed = slashAmount * k * (k + 1)
    BY DEF Maintained, Escalating, slash_for, Books, PaidFor
  <2>2. 2 * b.slashed = 2 * a.slashed + 2 * cost
    BY <1>1
  <2> QED
    BY <1>3, <2>1, <2>2
<1>7. r = "escalating_id" => b.slashed >= slashAmount * b.kOperator
  <2> SUFFICES ASSUME r = "escalating_id" PROVE b.slashed >= slashAmount * b.kOperator
    OBVIOUS
  <2>1. cost = slashAmount * (1 + h) /\ a.slashed >= due
    BY DEF Maintained, Escalating, slash_for, Books, PaidFor
  <2>2. cost >= slashAmount
    BY <1>1, <1>2, <2>1
  <2> HIDE DEF due
  <2> QED
    BY <1>1, <1>2, <2>1, <2>2
<1>8. r = "flat" => b.slashed = Smaller(stakeAmount, slashAmount * b.kOperator) /\ b.toppedUp = 0
  <2> SUFFICES ASSUME r = "flat"
               PROVE  b.slashed = Smaller(stakeAmount, slashAmount * b.kOperator) /\ b.toppedUp = 0
    OBVIOUS
  <2>1. cost = Smaller(slashAmount, a.stake) /\ a.slashed = Smaller(stakeAmount, due) /\ a.toppedUp = 0
    BY DEF Books, PaidFor
  <2> HIDE DEF due
  <2> QED
    BY <1>1, <1>2, <2>1 DEF Smaller
<1> QED
  BY <1>4, <1>5, <1>6, <1>7, <1>8 DEF Books, PaidFor

\* What topping up does; a maintained stake then covers the next slash.
LEMMA ToppedUpBooks ==
    ASSUME NEW r \in Regimes, NEW a, Purse(a)
    PROVE  /\ Larger(a.stake, IF r \in Maintained THEN requirement(r, History(r, a)) ELSE 0) - a.stake \in Nat
           /\ r \notin Maintained =>
                 Larger(a.stake, IF r \in Maintained THEN requirement(r, History(r, a)) ELSE 0) = a.stake
           /\ r \in Maintained =>
                 /\ Larger(a.stake, requirement(r, History(r, a))) >= slash_for(r, History(r, a))
                 /\ slash_for(r, History(r, a)) \in Nat
<1>1. History(r, a) \in Nat /\ a.stake \in Nat
  BY DEF History, Purse
<1>2. /\ requirement(r, History(r, a)) \in Nat /\ slash_for(r, History(r, a)) \in Nat
      /\ requirement(r, History(r, a)) >= slash_for(r, History(r, a))
  BY <1>1, SlashTyped, Numbers DEF requirement, Larger
<1> QED
  BY <1>1, <1>2 DEF Larger

------------------------------------------------------------------------------
(* The books of the trial.                                                   *)

\* What the next slash requires is there when an agent acts (run_regime: top-up before the action).
LEMMA PreparedBooks ==
    ASSUME NEW r \in Regimes \ {"control"}, NEW a \in Agent, NEW o, Books(r, a)
    PROVE  LET b == Prepared(r, a, o)
           IN /\ Books(r, b)
              /\ r \in Maintained => b.stake >= slash_for(r, History(r, b))
<1> DEFINE e == Settled(r, a, o)
           need == Larger(e.stake, IF r \in Maintained THEN requirement(r, History(r, e)) ELSE 0)
           b == Prepared(r, a, o)
<1>1. /\ e \in Agent /\ e.kOperator = a.kOperator /\ e.stake = a.stake
      /\ e.toppedUp = a.toppedUp /\ e.slashed = a.slashed
  <2>1. CASE Resets(r, a, o)
    <3> DEFINE ids == a.identities + 1
    <3>1. e = [a EXCEPT !.kIdentity = 0, !.identities = ids] /\ ids \in Nat
      BY <2>1 DEF Settled, Agent
    <3> HIDE DEF e, ids
    <3> QED
      BY <3>1 DEF Agent
  <2>2. CASE ~ Resets(r, a, o)
    BY <2>2 DEF Settled
  <2> QED
    BY <2>1, <2>2
<1> HIDE DEF e
<1>2. Purse(e) /\ Purse(a)
  BY <1>1 DEF Purse, Agent
<1>3. /\ need - e.stake \in Nat /\ (r \notin Maintained => need = e.stake)
      /\ r \in Maintained => need >= slash_for(r, History(r, e))
  BY <1>2, ToppedUpBooks
<1>4. b = [e EXCEPT !.stake = need, !.toppedUp = @ + (need - e.stake)]
  BY DEF Prepared, ToppedUp, e
<1> DEFINE d == need - e.stake
           topped == e.toppedUp + d
<1>5. need \in Nat /\ topped \in Nat /\ need = e.stake + d /\ d \in Nat
  <2> HIDE DEF need
  <2>1. need \in Int
    BY <1>2, SlashTyped DEF need, Larger, Purse, History
  <2> QED
    BY <1>2, <1>3, <2>1 DEF Purse
<1> HIDE DEF need
<1>6. /\ b.stake = need /\ b.toppedUp = topped /\ b.slashed = e.slashed
      /\ b.kOperator = e.kOperator /\ b.kIdentity = e.kIdentity
  BY <1>1, <1>4 DEF Agent
<1>7. History(r, b) = History(r, e)
  BY <1>6 DEF History
<1>8. r = "flat" => d = 0
  BY <1>2, <1>3 DEF Maintained, Escalating, Purse
<1> HIDE DEF d
<1>9. b.stake = a.stake + d /\ b.toppedUp = a.toppedUp + d /\ b.slashed = a.slashed /\ b.kOperator = a.kOperator
  BY <1>1, <1>5, <1>6
<1> HIDE DEF b
<1>10. Books(r, b)
  BY <1>2, <1>5, <1>8, <1>9, TopUpBooks
<1> QED
  BY <1>3, <1>6, <1>7, <1>10 DEF b

LEMMA ActedBooks ==
    ASSUME NEW r \in Regimes \ {"control"}, NEW a \in Agent, NEW o, NEW draw \in Detections, Books(r, a)
    PROVE  Books(r, Acted(r, a, o, draw))
<1> DEFINE b == Prepared(r, a, o)
           all == b.violations + 1
           late == b.late + (IF step >= LateFrom THEN 1 ELSE 0)
           c == [b EXCEPT !.violations = all, !.late = late]
           z == Acted(r, a, o, draw)
<1>1. b \in Agent /\ Books(r, b) /\ (r \in Maintained => b.stake >= slash_for(r, History(r, b)))
  BY PreparedAgent, PreparedBooks
<1>2. z = IF ~ Commits(r, b, o) THEN b ELSE IF draw = "detected" THEN Punished(r, c) ELSE c
  BY DEF Acted
<1> HIDE DEF b, z, late, all
<1>3. /\ c.stake = b.stake /\ c.toppedUp = b.toppedUp /\ c.slashed = b.slashed
      /\ c.kOperator = b.kOperator /\ c.kIdentity = b.kIdentity
  BY <1>1 DEF Agent
<1>4. Purse(b) /\ Purse(c) /\ History(r, c) = History(r, b) /\ History(r, c) \in Nat
  BY <1>1, <1>3 DEF Purse, Agent, History
<1>5. Books(r, c)
  BY <1>1, <1>3 DEF Books, PaidFor
<1>6. /\ Cost(r, c) \in Nat /\ Cost(r, c) <= c.stake
      /\ r \in Maintained => Cost(r, c) = slash_for(r, History(r, c))
      /\ r = "flat" => Cost(r, c) = Smaller(slashAmount, c.stake)
  <2>1. slash_for(r, History(r, c)) \in Nat /\ c.stake \in Nat
    BY <1>4, SlashTyped DEF Purse
  <2>2. r = "flat" => slash_for(r, History(r, c)) = slashAmount
    BY DEF slash_for, Escalating
  <2>3. r \in Maintained => slash_for(r, History(r, c)) <= c.stake
    BY <1>1, <1>3, <1>4, <2>1
  <2> HIDE DEF c
  <2> QED
    BY <2>1, <2>2, <2>3 DEF Cost, Smaller
<1>7. /\ Punished(r, c).stake = c.stake - Cost(r, c) /\ Punished(r, c).slashed = c.slashed + Cost(r, c)
      /\ Punished(r, c).toppedUp = c.toppedUp /\ Punished(r, c).kOperator = c.kOperator + 1
  <2>1. c \in [stake : Nat, kIdentity : Nat, kOperator : Nat, identities : Nat,
               toppedUp : Nat, slashed : Nat, violations : {all}, late : {late}]
    BY <1>1 DEF Agent
  <2> DEFINE stake == c.stake - Cost(r, c)
             slashed == c.slashed + Cost(r, c)
             ki == c.kIdentity + 1
             ko == c.kOperator + 1
  <2>2. Punished(r, c) = [c EXCEPT !.stake = stake, !.slashed = slashed, !.kIdentity = ki, !.kOperator = ko]
    BY DEF Punished
  <2> HIDE DEF stake, slashed, ki, ko, c
  <2>3. /\ Punished(r, c).stake = stake /\ Punished(r, c).slashed = slashed
        /\ Punished(r, c).toppedUp = c.toppedUp /\ Punished(r, c).kOperator = ko
    BY <2>1, <2>2
  <2> QED
    BY <2>3 DEF stake, slashed, ko
<1> HIDE DEF c
<1>8. Books(r, Punished(r, c))
  <2>1. r = "escalating_operator" => History(r, c) = c.kOperator
    BY DEF History
  <2> QED
    BY <1>4, <1>5, <1>6, <1>7, <2>1, ChargeBooks
<1>9. Books(r, z)
  BY <1>1, <1>2, <1>5, <1>8
<1> QED
  BY <1>9 DEF z

\* The invariant of the books of the trial.
TrialBooks == \A r \in Regimes \ {"control"}, i \in Agents : Books(r, world[r][i])

LEMMA InitBooks == Init => TrialBooks
<1> SUFFICES ASSUME Init, NEW r \in Regimes \ {"control"}, NEW i \in Agents
             PROVE  Books(r, world[r][i])
  BY DEF TrialBooks
<1>1. /\ world[r][i].stake = stakeAmount /\ world[r][i].toppedUp = 0
      /\ world[r][i].slashed = 0 /\ world[r][i].kOperator = 0
  BY DEF Init
<1>2. stakeAmount \in Nat /\ slashAmount \in Nat /\ slashAmount * 0 = 0 /\ slashAmount * 0 * (0 + 1) = 0
  BY Numbers
<1> QED
  BY <1>1, <1>2 DEF Books, PaidFor, Smaller

LEMMA StepBooks ==
    ASSUME TypeOK, TrialBooks, NEW o \in Opportunity, NEW draw \in Detections, Offer(o, draw)
    PROVE  TrialBooks'
<1> SUFFICES ASSUME NEW r \in Regimes \ {"control"}, NEW i \in Agents
             PROVE  Books(r, world'[r][i])
  BY DEF TrialBooks, Books, PaidFor, Smaller
<1>1. /\ world'[r][turn] = Acted(r, world[r][turn], o, draw) /\ turn \in Agents
      /\ i # turn => world'[r][i] = world[r][i]
  BY OfferStep
<1>2. world[r][turn] \in Agent /\ Books(r, world[r][turn]) /\ Books(r, world[r][i])
  BY <1>1 DEF TypeOK, TrialBooks
<1>3. Books(r, Acted(r, world[r][turn], o, draw))
  BY <1>2, ActedBooks
<1> QED
  BY <1>1, <1>2, <1>3

------------------------------------------------------------------------------
(* Agents that learn.                                                        *)

\* The rules are the same for them.
LEMMA SameRules ==
    ASSUME NEW r, NEW k, NEW a
    PROVE  /\ L!slash_for(r, k) = slash_for(r, k) /\ L!requirement(r, k) = requirement(r, k)
           /\ L!History(r, a) = History(r, a) /\ L!PaidFor(r, a) = PaidFor(r, a)
           /\ L!ToppedUp(r, a) = ToppedUp(r, a)
<1>1. L!slash_for(r, k) = slash_for(r, k) /\ L!History(r, a) = History(r, a)
  BY DEF L!slash_for, slash_for, L!Escalating, Escalating, L!History, History
<1>2. L!requirement(r, k) = requirement(r, k)
  BY <1>1 DEF L!requirement, requirement, L!Larger, Larger
<1>3. L!PaidFor(r, a) = PaidFor(r, a)
  BY DEF L!PaidFor, PaidFor, L!Smaller, Smaller
<1>4. L!requirement(r, History(r, a)) = requirement(r, History(r, a))
  BY DEF L!requirement, requirement, L!Larger, Larger, L!slash_for, slash_for, L!Escalating, Escalating
<1>5. L!ToppedUp(r, a) = ToppedUp(r, a)
  BY <1>1, <1>4 DEF L!ToppedUp, ToppedUp, L!Larger, Larger, L!Maintained, Maintained, L!Escalating, Escalating
<1> QED
  BY <1>1, <1>2, <1>3, <1>5

LearnerRecord == [stake : Nat, kIdentity : Nat, kOperator : Nat, resets : Nat, toppedUp : Nat, slashed : Nat]

\* The steps agent i has finished, and what of them can lie in a window.
FinishedSteps(i) == lstep - 1 + (IF i < lturn THEN 1 ELSE 0)

WindowHolds(n, finished, w) ==
    /\ n.actions \in Nat /\ n.violations \in Nat /\ n.violations <= n.actions
    /\ n.actions <= WindowLength
    /\ finished <= w * WindowLength => n.actions = 0
    /\ finished > w * WindowLength => n.actions <= finished - w * WindowLength

LearnerBooks ==
    /\ learner \in [Agents -> LearnerRecord]
    /\ regime \in Regimes
    /\ regime # "control" => \A i \in Agents : Books(regime, learner[i])

CountsHold ==
    /\ lstep \in Nat \ {0} /\ lturn \in Nat /\ (nAgents > 0 => lturn < nAgents)
    /\ counts \in [Agents -> [L!Windows -> [actions : Nat, violations : Nat]]]
    /\ \A i \in Agents, w \in L!Windows : WindowHolds(counts[i][w], FinishedSteps(i), w)

\* What one action does to a learner, resets included (run_learning_regime).
LEMMA LearnerStep ==
    ASSUME LearnerBooks, NEW i \in Agents, NEW choice, NEW paid, paid => regime # "control",
           NEW a, a = L!ToppedUp(regime, learner[i]),
           NEW b, b = IF choice = "reset_execute" THEN L!Reset(a) ELSE a,
           choice = "reset_execute" => regime = "escalating_id",
           NEW c, c = IF paid THEN L!Charged(b) ELSE b
    PROVE  c \in LearnerRecord /\ (regime # "control" => Books(regime, c))
<1> DEFINE old == learner[i]
           need == Larger(old.stake, IF regime \in Maintained THEN requirement(regime, History(regime, old)) ELSE 0)
<1>1. old \in LearnerRecord /\ (regime # "control" => Books(regime, old)) /\ regime \in Regimes
  BY DEF LearnerBooks
<1>2. a = [old EXCEPT !.stake = need, !.toppedUp = @ + (need - old.stake)]
  BY SameRules DEF ToppedUp
<1> HIDE DEF old
<1>3. Purse(old) /\ History(regime, old) \in Nat
  BY <1>1 DEF Purse, LearnerRecord, History
<1>4. /\ need - old.stake \in Nat /\ (regime \notin Maintained => need = old.stake)
      /\ regime \in Maintained => /\ need >= slash_for(regime, History(regime, old))
                                  /\ slash_for(regime, History(regime, old)) \in Nat
  BY <1>1, <1>3, ToppedUpBooks
<1> DEFINE d == need - old.stake
           topped == old.toppedUp + d
<1>5. need \in Nat /\ topped \in Nat /\ need = old.stake + d /\ d \in Nat
  <2>1. need \in Int
    BY <1>1, <1>3, SlashTyped DEF Larger, Purse
  <2> HIDE DEF need
  <2> QED
    BY <1>3, <1>4, <2>1 DEF Purse
<1> HIDE DEF need
<1>6. /\ a \in LearnerRecord /\ a.stake = need /\ a.toppedUp = topped /\ a.slashed = old.slashed
      /\ a.kOperator = old.kOperator /\ a.kIdentity = old.kIdentity
  <2> HIDE DEF topped
  <2>1. a = [old EXCEPT !.stake = need, !.toppedUp = topped]
    BY <1>2 DEF topped
  <2> QED
    BY <1>1, <1>5, <2>1 DEF LearnerRecord
<1>7. regime = "flat" => d = 0
  BY <1>3, <1>4 DEF Maintained, Escalating, Purse
<1> HIDE DEF d
<1>8. regime # "control" => Books(regime, a)
  BY <1>1, <1>3, <1>5, <1>6, <1>7, TopUpBooks
<1>9. /\ b \in LearnerRecord /\ b.stake = need /\ b.toppedUp = topped /\ b.slashed = old.slashed
      /\ b.kOperator = old.kOperator
      /\ History(regime, b) \in Nat /\ History(regime, b) <= History(regime, old)
  <2>1. CASE choice = "reset_execute"
    <3> DEFINE n == a.resets + 1
    <3>1. b = [a EXCEPT !.kIdentity = 0, !.resets = n] /\ n \in Nat
      BY <1>6, <2>1 DEF L!Reset, LearnerRecord
    <3> HIDE DEF n, topped
    <3>2. /\ b \in LearnerRecord /\ b.stake = need /\ b.toppedUp = topped /\ b.slashed = old.slashed
          /\ b.kOperator = old.kOperator /\ b.kIdentity = 0
      <4>1. /\ b.stake = a.stake /\ b.toppedUp = a.toppedUp /\ b.slashed = a.slashed
            /\ b.kOperator = a.kOperator /\ b.kIdentity = 0
        BY <1>6, <3>1 DEF LearnerRecord
      <4>2. b \in LearnerRecord
        <5> DEFINE zero == 0
        <5>1. zero \in Nat /\ b = [a EXCEPT !.kIdentity = zero, !.resets = n]
          BY <3>1
        <5> HIDE DEF zero
        <5> QED
          BY <1>6, <3>1, <5>1 DEF LearnerRecord
      <4> QED
        BY <1>6, <4>1, <4>2
    <3>3. History(regime, b) = 0
      BY <2>1, <3>2 DEF History
    <3> QED
      BY <1>3, <3>2, <3>3
  <2>2. CASE choice # "reset_execute"
    <3>1. b = a
      BY <2>2
    <3>2. History(regime, b) = History(regime, old)
      BY <1>6, <3>1 DEF History
    <3> QED
      BY <1>3, <1>6, <3>1, <3>2
  <2> QED
    BY <2>1, <2>2
<1>10. regime # "control" => Books(regime, b)
  BY <1>6, <1>8, <1>9 DEF Books, PaidFor
<1>11. CASE ~ paid
  BY <1>9, <1>10, <1>11
<1>12. CASE paid
  <2> DEFINE cost == L!Charge(b)
             stake == b.stake - cost
             slashed == b.slashed + cost
             ki == b.kIdentity + 1
             ko == b.kOperator + 1
  <2>1. slash_for(regime, History(regime, b)) \in Nat /\ b.stake \in Nat
    BY <1>1, <1>9, SlashTyped DEF LearnerRecord
  <2>2. cost = IF regime = "flat" THEN Smaller(slash_for(regime, History(regime, b)), b.stake)
               ELSE slash_for(regime, History(regime, b))
    <3>1. L!History(regime, b) = History(regime, b)
      BY SameRules
    <3>2. L!slash_for(regime, History(regime, b)) = slash_for(regime, History(regime, b))
      BY SameRules
    <3> QED
      BY <3>1, <3>2 DEF L!Charge, L!Smaller, Smaller
  <2> HIDE DEF cost
  <2>3. regime \in Maintained => slash_for(regime, History(regime, b)) <= b.stake
    <3> SUFFICES ASSUME regime \in Maintained
                 PROVE  slash_for(regime, History(regime, b)) <= b.stake
      OBVIOUS
    <3>1. slash_for(regime, History(regime, b)) <= slash_for(regime, History(regime, old))
      <4>1. slashAmount * (1 + History(regime, b)) <= slashAmount * (1 + History(regime, old))
        BY <1>3, <1>9, SlashGrows
      <4>2. slashAmount <= slashAmount
        BY Numbers
      <4> QED
        BY <4>1, <4>2 DEF slash_for
    <3>2. slash_for(regime, History(regime, old)) <= need /\ slash_for(regime, History(regime, old)) \in Nat
      BY <1>4, <1>5
    <3> QED
      BY <1>5, <1>9, <2>1, <3>1, <3>2
  <2>4. regime = "flat" => slash_for(regime, History(regime, b)) = slashAmount
    BY DEF slash_for, Escalating
  <2>5. regime = "flat" \/ regime \in Maintained
    BY <1>1, <1>12 DEF Regimes, Maintained, Escalating
  <2>6. "flat" \notin Maintained
    BY DEF Maintained, Escalating
  <2>7. /\ cost \in Nat /\ cost <= b.stake
        /\ regime \in Maintained => cost = slash_for(regime, History(regime, b))
        /\ regime = "flat" => cost = Smaller(slashAmount, b.stake)
    BY <2>1, <2>2, <2>3, <2>4, <2>5, <2>6 DEF Smaller
  <2>8. c = [b EXCEPT !.stake = stake, !.slashed = slashed, !.kIdentity = ki, !.kOperator = ko]
    BY <1>12 DEF L!Charged, cost
  <2>9. stake \in Nat /\ slashed \in Nat /\ ki \in Nat /\ ko \in Nat
    BY <1>9, <2>7 DEF LearnerRecord
  <2> HIDE DEF stake, slashed, ki, ko
  <2>10. c \in LearnerRecord /\ c.stake = stake /\ c.slashed = slashed /\ c.toppedUp = b.toppedUp /\ c.kOperator = ko
    BY <1>9, <2>8, <2>9 DEF LearnerRecord
  <2>11. Purse(b)
    BY <1>9 DEF Purse, LearnerRecord
  <2>12. regime = "escalating_operator" => History(regime, b) = b.kOperator
    BY DEF History
  <2>13. Books(regime, c)
    BY <1>1, <1>9, <1>10, <1>12, <2>7, <2>10, <2>11, <2>12, ChargeBooks DEF stake, slashed, ko
  <2> QED
    BY <2>10, <2>13
<1> QED
  BY <1>11, <1>12

\* The counters of the loops over steps and agents.
LEMMA NextTurn ==
    ASSUME NEW n \in Nat, NEW t \in Nat, t < n
    PROVE  (t + 1) % n = IF t + 1 = n THEN 0 ELSE t + 1
  OBVIOUS

LEMMA InWindow ==
    ASSUME NEW n \in Nat, NEW w \in Nat \ {0}
    PROVE  n \div w \in Nat /\ (n \div w) * w <= n /\ n < (n \div w) * w + w
  OBVIOUS

\* Whatever a learner does, and its window has room for the action.
LEMMA LearnersStep ==
    ASSUME LearnerBooks, CountsHold, L!Next
    PROVE  LearnerBooks' /\ CountsHold'
<1>1. PICK violates \in BOOLEAN, detected \in BOOLEAN, choice \in L!Choices : L!Act(violates, detected, choice)
  BY DEF L!Next
<1> DEFINE a == L!ToppedUp(regime, learner[lturn])
           b == IF choice = "reset_execute" THEN L!Reset(a) ELSE a
           paid == choice # "refuse" /\ violates /\ detected /\ regime # "control"
           c == IF paid THEN L!Charged(b) ELSE b
           w == (lstep - 1) \div WindowLength
           cell == [actions |-> counts[lturn][w].actions + 1,
                    violations |-> counts[lturn][w].violations + (IF choice # "refuse" /\ violates THEN 1 ELSE 0)]
<1>2. /\ lturn < nAgents
      /\ learner' = [learner EXCEPT ![lturn] = c]
      /\ counts' = [counts EXCEPT ![lturn][w] = cell]
      /\ lturn' = (lturn + 1) % nAgents
      /\ lstep' = IF lturn' = 0 THEN lstep + 1 ELSE lstep
      /\ regime' = regime
  BY <1>1 DEF L!Act
<1>3. /\ lturn \in Nat /\ lstep \in Nat /\ lstep >= 1 /\ nAgents \in Nat /\ lturn \in Agents
      /\ WindowLength \in Nat \ {0}
  BY <1>2, Numbers, LearningAssumption DEF CountsHold, Agents
<1>4. LearnerBooks'
  <2>1. choice = "reset_execute" => regime = "escalating_id"
    BY DEF L!Choices
  <2>2. c \in LearnerRecord /\ (regime # "control" => Books(regime, c))
    BY <1>3, <2>1, LearnerStep
  <2> HIDE DEF c
  <2>3. learner' \in [Agents -> LearnerRecord]
    BY <1>2, <1>3, <2>2 DEF LearnerBooks
  <2>4. ASSUME regime # "control", NEW i \in Agents
        PROVE  Books(regime, learner'[i])
    <3>1. learner'[i] = IF i = lturn THEN c ELSE learner[i]
      BY <1>2, <1>3 DEF LearnerBooks
    <3> QED
      BY <2>2, <2>4, <3>1 DEF LearnerBooks
  <2>5. regime' # "control" => \A i \in Agents : Books(regime', learner'[i])
    BY <1>2, <2>4
  <2> QED
    BY <1>2, <2>3, <2>5 DEF LearnerBooks, Books, PaidFor, Smaller
<1>5. CountsHold'
  <2>1. lturn' = IF lturn + 1 = nAgents THEN 0 ELSE lturn + 1
    BY <1>2, <1>3, NextTurn
  <2>2. lturn' \in Nat /\ lturn' < nAgents /\ lstep' \in Nat \ {0}
    BY <1>2, <1>3, <2>1
  <2>3. \A i \in Agents : /\ FinishedSteps(i) \in Nat
                          /\ FinishedSteps(i)' = IF i = lturn THEN FinishedSteps(i) + 1 ELSE FinishedSteps(i)
                          /\ i = lturn => FinishedSteps(i) = lstep - 1
    <3> SUFFICES ASSUME NEW i \in Agents
                 PROVE  /\ FinishedSteps(i) \in Nat
                        /\ FinishedSteps(i)' = IF i = lturn THEN FinishedSteps(i) + 1 ELSE FinishedSteps(i)
                        /\ i = lturn => FinishedSteps(i) = lstep - 1
      OBVIOUS
    <3>1. i \in Nat /\ i < nAgents
      BY <1>3 DEF Agents
    <3>2. lstep' = IF lturn' = 0 THEN lstep + 1 ELSE lstep
      BY <1>2
    <3>3. FinishedSteps(i)' = lstep' - 1 + (IF i < lturn' THEN 1 ELSE 0)
      BY DEF FinishedSteps
    <3> HIDE DEF a, b, c, w, cell
    <3>4. CASE lturn + 1 = nAgents
      <4>1. lturn' = 0 /\ lstep' = lstep + 1 /\ ~ (i < lturn') /\ i <= lturn
        BY <1>3, <2>1, <3>1, <3>2, <3>4
      <4> QED
        BY <1>3, <3>1, <3>3, <4>1 DEF FinishedSteps
    <3>5. CASE lturn + 1 # nAgents
      <4>1. lturn' = lturn + 1 /\ lstep' = lstep /\ (i < lturn' <=> i <= lturn)
        BY <1>3, <2>1, <3>1, <3>2, <3>5
      <4> QED
        BY <1>3, <3>1, <3>3, <4>1 DEF FinishedSteps
    <3> QED
      BY <3>4, <3>5
  <2>4. w \in Nat /\ w * WindowLength <= lstep - 1 /\ lstep - 1 < w * WindowLength + WindowLength
    BY <1>3, InWindow
  <2>5. w \in L!Windows => cell \in [actions : Nat, violations : Nat] /\ WindowHolds(counts[lturn][w], lstep - 1, w)
    <3> SUFFICES ASSUME w \in L!Windows
                 PROVE  cell \in [actions : Nat, violations : Nat] /\ WindowHolds(counts[lturn][w], lstep - 1, w)
      OBVIOUS
    <3> DEFINE more == IF choice # "refuse" /\ violates THEN 1 ELSE 0
    <3>1. WindowHolds(counts[lturn][w], lstep - 1, w)
      <4>1. WindowHolds(counts[lturn][w], FinishedSteps(lturn), w)
        BY <1>3 DEF CountsHold
      <4> QED
        BY <1>3, <2>3, <4>1
    <3>2. counts[lturn][w].actions \in Nat /\ counts[lturn][w].violations \in Nat /\ more \in Nat
      BY <3>1 DEF WindowHolds
    <3> HIDE DEF w, more
    <3>3. counts[lturn][w].actions + 1 \in Nat /\ counts[lturn][w].violations + more \in Nat
      BY <3>2
    <3> QED
      BY <3>1, <3>3 DEF more
  <2>6. \A i \in Agents, v \in L!Windows :
           counts'[i][v] = IF i = lturn /\ v = w THEN cell ELSE counts[i][v]
    <3> HIDE DEF w, cell
    <3> QED
      BY <1>2, <1>3 DEF CountsHold
  <2>7. counts' \in [Agents -> [L!Windows -> [actions : Nat, violations : Nat]]]
    <3> HIDE DEF w, cell
    <3> QED
      BY <1>2, <1>3, <2>5 DEF CountsHold
  <2>8. ASSUME NEW i \in Agents, NEW v \in L!Windows
        PROVE  WindowHolds(counts'[i][v], FinishedSteps(i)', v)
    <3>1. WindowHolds(counts[i][v], FinishedSteps(i), v)
      BY DEF CountsHold
    <3>2. v * WindowLength \in Int
      BY <1>3 DEF L!Windows
    <3>3. CASE i = lturn /\ v = w
      <4> DEFINE n == counts[lturn][w]
                 more == IF choice # "refuse" /\ violates THEN 1 ELSE 0
      <4>1. WindowHolds(n, lstep - 1, w) /\ counts'[i][v] = cell /\ FinishedSteps(i)' = lstep
        BY <1>3, <2>3, <2>5, <2>6, <3>3
      <4>2. cell.actions = n.actions + 1 /\ cell.violations = n.violations + more /\ more \in 0 .. 1
        OBVIOUS
      <4> HIDE DEF cell, n, more
      <4> DEFINE first == w * WindowLength
      <4>3. first \in Int /\ first <= lstep - 1 /\ lstep - 1 < first + WindowLength
        BY <2>4, <3>2, <3>3
      <4>4. /\ n.actions \in Nat /\ n.violations \in Nat /\ n.violations <= n.actions
            /\ lstep - 1 <= first => n.actions = 0
            /\ lstep - 1 > first => n.actions <= lstep - 1 - first
        BY <4>1 DEF WindowHolds
      <4> HIDE DEF first, w
      <4>5. /\ cell.actions \in Nat /\ cell.violations \in Nat /\ cell.violations <= cell.actions
            /\ cell.actions <= lstep - first /\ cell.actions <= WindowLength /\ ~ (lstep <= first)
        BY <1>3, <4>2, <4>3, <4>4
      <4>6. WindowHolds(cell, lstep, w)
        BY <4>5 DEF WindowHolds, first
      <4> QED
        BY <3>3, <4>1, <4>6
    <3>4. CASE ~ (i = lturn /\ v = w)
      <4>1. counts'[i][v] = counts[i][v]
        BY <2>6, <3>4
      <4>2. FinishedSteps(i) \in Nat /\ (FinishedSteps(i)' = FinishedSteps(i) \/ FinishedSteps(i)' = FinishedSteps(i) + 1)
        BY <2>3
      <4> DEFINE first == v * WindowLength
      <4>3. first \in Int
        BY <3>2
      <4> HIDE DEF w, cell
      <4>4. /\ counts[i][v].actions \in Nat
            /\ FinishedSteps(i) <= first => counts[i][v].actions = 0
            /\ FinishedSteps(i) > first => counts[i][v].actions <= FinishedSteps(i) - first
        BY <3>1 DEF WindowHolds
      <4> HIDE DEF first
      <4>5. /\ FinishedSteps(i)' <= first => counts[i][v].actions = 0
            /\ FinishedSteps(i)' > first => counts[i][v].actions <= FinishedSteps(i)' - first
        BY <4>2, <4>3, <4>4
      <4> QED
        BY <3>1, <4>1, <4>5 DEF WindowHolds, first
    <3> QED
      BY <3>3, <3>4
  <2>9. \A i \in Agents, v \in L!Windows : WindowHolds(counts'[i][v], FinishedSteps(i)', v)
    BY <2>8
  <2> QED
    BY <2>2, <2>7, <2>9 DEF CountsHold
<1> QED
  BY <1>4, <1>5

\* The books of the trial and of the learners.
AllBooks == TrialBooks /\ LearnerBooks /\ CountsHold

LEMMA InitLearners == L!Init => LearnerBooks /\ CountsHold
<1> SUFFICES ASSUME L!Init PROVE LearnerBooks /\ CountsHold
  OBVIOUS
<1>1. /\ regime \in Regimes /\ lstep = 1 /\ lturn = 0
      /\ learner = [i \in Agents |-> [stake |-> IF regime = "control" THEN 0 ELSE stakeAmount, kIdentity |-> 0,
                                      kOperator |-> 0, resets |-> 0, toppedUp |-> 0, slashed |-> 0]]
      /\ counts = [i \in Agents |-> [w \in L!Windows |-> [actions |-> 0, violations |-> 0]]]
  BY DEF L!Init, L!Regimes, Regimes, L!Agents, Agents
<1>2. stakeAmount \in Nat /\ slashAmount \in Nat /\ slashAmount * 0 = 0 /\ slashAmount * 0 * (0 + 1) = 0
  BY Numbers
<1>3. learner \in [Agents -> LearnerRecord]
  BY <1>1, <1>2 DEF LearnerRecord
<1>4. ASSUME regime # "control", NEW i \in Agents
      PROVE  Books(regime, learner[i])
  <2>1. /\ learner[i].stake = stakeAmount /\ learner[i].toppedUp = 0
        /\ learner[i].slashed = 0 /\ learner[i].kOperator = 0
    BY <1>1, <1>4
  <2> QED
    BY <1>2, <2>1 DEF Books, PaidFor, Smaller
<1>5. \A i \in Agents, w \in L!Windows : WindowHolds(counts[i][w], FinishedSteps(i), w)
  <2> SUFFICES ASSUME NEW i \in Agents, NEW w \in L!Windows
               PROVE  WindowHolds(counts[i][w], FinishedSteps(i), w)
    OBVIOUS
  <2>1. FinishedSteps(i) = 0 /\ WindowLength \in Nat
    BY <1>1, Names, LearningAssumption DEF FinishedSteps
  <2>2. w * WindowLength \in Int
    BY <2>1 DEF L!Windows
  <2>3. counts[i][w] = [actions |-> 0, violations |-> 0]
    BY <1>1
  <2> QED
    BY <2>1, <2>2, <2>3 DEF WindowHolds
<1>6. counts \in [Agents -> [L!Windows -> [actions : Nat, violations : Nat]]]
  BY <1>1
<1>7. lstep \in Nat \ {0} /\ lturn \in Nat /\ (nAgents > 0 => lturn < nAgents)
  BY <1>1
<1> QED
  BY <1>1, <1>3, <1>4, <1>5, <1>6, <1>7 DEF LearnerBooks, CountsHold

LEMMA NextBooks == IInv /\ AllBooks /\ [MCNext]_mcVars => AllBooks'
<1> SUFFICES ASSUME IInv, AllBooks, [MCNext]_mcVars PROVE AllBooks'
  OBVIOUS
<1>1. CASE Next /\ UNCHANGED learning
  <2>1. PICK o \in Opportunity, draw \in Detections : Offer(o, draw)
    BY <1>1 DEF Next, Drawable
  <2>2. TrialBooks'
    BY <2>1, StepBooks DEF IInv, AllBooks
  <2>3. LearnerBooks' /\ CountsHold'
    BY <1>1 DEF AllBooks, learning, LearnerBooks, CountsHold, Books, PaidFor, FinishedSteps
  <2> QED
    BY <2>2, <2>3 DEF AllBooks
<1>2. CASE L!Next /\ UNCHANGED vars
  <2>1. TrialBooks'
    BY <1>2 DEF AllBooks, vars, TrialBooks
  <2> QED
    BY <1>2, <2>1, LearnersStep DEF AllBooks
<1>3. CASE UNCHANGED mcVars
  BY <1>3 DEF mcVars, vars, learning, AllBooks, TrialBooks, LearnerBooks, CountsHold, FinishedSteps
<1> QED
  BY <1>1, <1>2, <1>3 DEF MCNext

------------------------------------------------------------------------------
(* Results.                                                                  *)

\* Books, histories and registry accounts stay numbers whatever agents are offered (run_regimes).
THEOREM TypeCorrect == Spec => []TypeOK
<1>1. IInv => TypeOK
  BY DEF IInv
<1> QED
  BY <1>1, Invariance, PTL

\* Every agent violates most without a stake and least under an operator history, at any moment of
\* any run with any payoffs: the comparison run_durable.py averages holds path by path.
THEOREM DeterrenceHolds == Spec => []DeterrenceOrder
<1>1. IInv => DeterrenceOrder
  BY DEF IInv
<1> QED
  BY <1>1, Invariance, PTL

\* The detected violations of an operator are bounded by what one violation can gain, and with a
\* bond of at least break_even_bond nobody ever takes a fresh identity.
THEOREM CareersAreBounded == Spec => []CareersEnd
<1>1. IInv => CareersEnd
  BY DEF IInv
<1> QED
  BY <1>1, Invariance, PTL

\* "flat" of durable.py is the treatment of the confirmatory experiment and "control" its baseline,
\* violation by violation and slash by slash.
THEOREM ExperimentsAgree == Spec => []SameExperiment
<1>1. IInv => SameExperiment
  BY DEF IInv
<1> QED
  BY <1>1, Invariance, PTL

\* What run_comparison tells the caller when treatment_violation_feasible is false: the treated
\* agents never violate, so no stake is ever slashed.
THEOREM InfeasibleNeverViolates == Spec => []Unbroken
<1>1. IInv => Unbroken
  BY DEF IInv
<1> QED
  BY <1>1, Invariance, PTL

\* Within MCLiability the trial runs as it does alone.
LEMMA TrialRuns == MCSpec => Spec
<1>1. MCInit => Init
  BY DEF MCInit
<1>2. [MCNext]_mcVars => [Next]_vars
  BY DEF MCNext, mcVars
<1> QED
  BY <1>1, <1>2, PTL DEF MCSpec, Spec

\* Rational or learning, resets included: every detected violation of a maintained stake has been
\* paid for in full, one of a flat stake up to the stake, no stake is made, lost or driven below
\* zero, and no window holds more actions than steps (run_regime, run_learning_regime).
THEOREM EverybodyIsPaid == MCSpec => []EverybodyPays
<1>1. MCSpec => Spec
  BY TrialRuns
<1>2. MCInit => AllBooks
  BY InitBooks, InitLearners DEF MCInit, AllBooks
<1>3. MCSpec => []AllBooks
  BY <1>1, <1>2, Invariance, NextBooks, PTL DEF MCSpec
<1>4. AllBooks => EverybodyPays
  <2> SUFFICES ASSUME AllBooks PROVE PaidInFull /\ L!LearnersPayInFull
    BY DEF EverybodyPays
  <2>1. PaidInFull
    BY DEF AllBooks, TrialBooks, Books, PaidInFull
  <2>2. ASSUME NEW i \in Agents
        PROVE  /\ learner[i].stake >= 0
               /\ regime # "control" => L!PaidFor(regime, learner[i])
               /\ \A w \in L!Windows : /\ counts[i][w].violations <= counts[i][w].actions
                                       /\ counts[i][w].actions <= WindowLength
    <3>1. learner[i].stake \in Nat
      BY DEF AllBooks, LearnerBooks, LearnerRecord
    <3>2. regime # "control" => L!PaidFor(regime, learner[i])
      BY SameRules DEF AllBooks, LearnerBooks, Books
    <3>3. \A w \in L!Windows : /\ counts[i][w].violations <= counts[i][w].actions
                               /\ counts[i][w].actions <= WindowLength
      BY DEF AllBooks, CountsHold, WindowHolds
    <3> QED
      BY <3>1, <3>2, <3>3
  <2>3. L!LearnersPayInFull
    BY <2>2 DEF L!LearnersPayInFull, L!Agents, Agents
  <2> QED
    BY <2>1, <2>3
<1> QED
  BY <1>3, <1>4, PTL

------------------------------------------------------------------------------
(* Ranks: the place of an index in sorted order, and the places of its ties. *)

\* A list of numbers has finitely many places.
LEMMA Indices ==
    ASSUME NEW s \in Seq(Int)
    PROVE  /\ Len(s) \in Nat /\ DOMAIN s = 1 .. Len(s) /\ IsFiniteSet(DOMAIN s)
           /\ Cardinality(DOMAIN s) = Len(s) /\ \A i \in DOMAIN s : i \in Nat /\ s[i] \in Int
<1>1. Len(s) \in Nat /\ DOMAIN s = 1 .. Len(s) /\ \A i \in DOMAIN s : i \in Nat /\ s[i] \in Int
  OBVIOUS
<1> QED
  BY <1>1, FS_Interval

\* The indices with a smaller value.
Below(s, i) == {j \in DOMAIN s : s[j] < s[i]}

\* An index comes after those with smaller values and those of its ties that stand before it.
LEMMA PlaceSplits ==
    ASSUME NEW s \in Seq(Int), NEW i \in DOMAIN s, NEW j \in Ties(s, i)
    PROVE  /\ Place(s, j) = Cardinality(Below(s, i)) + Cardinality({k \in Ties(s, i) : k <= j})
           /\ IsFiniteSet(Below(s, i)) /\ IsFiniteSet(Ties(s, i))
           /\ Cardinality(Below(s, i)) \in Nat /\ Cardinality(Ties(s, i)) \in Nat
<1> DEFINE A == Below(s, i)
           B == {k \in Ties(s, i) : k <= j}
<1>1. j \in DOMAIN s /\ s[j] = s[i] /\ s[i] \in Int
  BY Indices DEF Ties
<1>2. A \subseteq DOMAIN s /\ B \subseteq DOMAIN s /\ Ties(s, i) \subseteq DOMAIN s
  BY DEF Below, Ties
<1>3. IsFiniteSet(A) /\ IsFiniteSet(B) /\ IsFiniteSet(Ties(s, i))
  BY <1>2, Indices, FS_Subset
<1>4. A \cap B = {}
  <2>1. ASSUME NEW k \in A, k \in B PROVE FALSE
    <3>1. s[k] < s[i] /\ s[k] = s[i]
      BY <2>1 DEF Below, Ties
    <3> QED
      BY <3>1, <1>1
  <2> QED
    BY <2>1
<1>5. {k \in DOMAIN s : s[k] < s[j] \/ (s[k] = s[j] /\ k <= j)} = A \cup B
  BY <1>1 DEF Below, Ties
<1>6. Place(s, j) = Cardinality(A \cup B)
  BY <1>5 DEF Place
<1>7. Cardinality(A \cup B) = Cardinality(A) + Cardinality(B)
  <2> HIDE DEF A, B
  <2>1. Cardinality(A \cup B) = Cardinality(A) + Cardinality(B) - Cardinality(A \cap B)
    BY <1>3, FS_Union
  <2>2. Cardinality(A \cap B) = 0
    BY <1>4, FS_EmptySet
  <2>3. Cardinality(A) \in Nat /\ Cardinality(B) \in Nat
    BY <1>3, FS_CardinalityType
  <2> QED
    BY <2>1, <2>2, <2>3
<1> QED
  BY <1>3, <1>6, <1>7, FS_CardinalityType

\* A lower bound in the set is its minimum.
LEMMA MinIs ==
    ASSUME NEW S, NEW m \in S, \A x \in S : x \in Int /\ m <= x
    PROVE  Min(S) = m
<1>1. \A x \in S : (\A y \in S : x <= y) => x = m
  OBVIOUS
<1> QED
  BY <1>1 DEF Min

\* An upper bound in the set is its maximum.
LEMMA MaxIs ==
    ASSUME NEW S, NEW m \in S, \A x \in S : x \in Int /\ x <= m
    PROVE  Max(S) = m
<1>1. \A x \in S : (\A y \in S : x >= y) => x = m
  OBVIOUS
<1> QED
  BY <1>1 DEF Max

\* The first and the last place of a run of equal values.
LEMMA RankOfRun ==
    ASSUME NEW s \in Seq(Int), NEW i \in DOMAIN s
    PROVE  TwiceRank(s, i) = 2 * Cardinality(Below(s, i)) + Cardinality(Ties(s, i)) + 1
<1> DEFINE E == Ties(s, i)
           upto(j) == {k \in E : k <= j}
           places == {Place(s, j) : j \in E}
<1> DEFINE lo == Cardinality(Below(s, i))
           n == Cardinality(E)
<1>1. i \in E /\ \A j \in E : j \in DOMAIN s /\ j \in Nat
  BY Indices DEF Ties
<1>2. IsFiniteSet(E) /\ lo \in Nat /\ n \in Nat
  BY <1>1, PlaceSplits
<1>3. \A j \in E : Place(s, j) = lo + Cardinality(upto(j))
  BY PlaceSplits
<1> HIDE DEF E, lo
<1>4. ASSUME NEW j \in E
      PROVE  IsFiniteSet(upto(j)) /\ Cardinality(upto(j)) \in Nat /\ 1 <= Cardinality(upto(j)) /\ Cardinality(upto(j)) <= n
  <2>1. upto(j) \subseteq E /\ {j} \subseteq upto(j)
    BY <1>1
  <2> HIDE DEF upto
  <2>2. IsFiniteSet(upto(j)) /\ Cardinality(upto(j)) <= n
    BY <2>1, <1>2, FS_Subset
  <2>3. Cardinality({j}) = 1 /\ Cardinality({j}) <= Cardinality(upto(j))
    BY <2>1, <2>2, FS_Subset, FS_Singleton
  <2> QED
    BY <2>2, <2>3, FS_CardinalityType
<1>5. PICK a \in E : \A x \in E : a <= x
  <2> DEFINE id == [x \in E |-> x]
  <2>1. \A x \in E : id[x] \in Int
    BY <1>1
  <2>2. \E m \in E : \A x \in E : id[m] <= id[x]
    <3> HIDE DEF id
    <3> QED
      BY <2>1, <1>1, <1>2, Extremes
  <2> QED
    BY <2>2
<1>6. PICK z \in E : \A x \in E : x <= z
  <2> DEFINE id == [x \in E |-> x]
  <2>1. \A x \in E : id[x] \in Int
    BY <1>1
  <2>2. \E m \in E : \A x \in E : id[x] <= id[m]
    <3> HIDE DEF id
    <3> QED
      BY <2>1, <1>1, <1>2, Extremes
  <2> QED
    BY <2>2
<1>7. Cardinality(upto(a)) = 1
  <2>1. upto(a) = {a}
    <3>1. \A x \in E : x <= a => x = a
      BY <1>1, <1>5
    <3> QED
      BY <3>1, <1>1, <1>5
  <2> QED
    BY <2>1, FS_Singleton
<1>8. Cardinality(upto(z)) = n
  <2>1. upto(z) = E
    BY <1>6
  <2> QED
    BY <2>1
<1> HIDE DEF upto, n
<1>9. Min(places) = lo + 1
  <2>1. lo + 1 \in places
    BY <1>3, <1>5, <1>7
  <2>2. \A x \in places : x \in Int /\ lo + 1 <= x
    BY <1>2, <1>3, <1>4
  <2> HIDE DEF places
  <2> QED
    BY <2>1, <2>2, MinIs
<1>10. Max(places) = lo + n
  <2>1. lo + n \in places
    BY <1>3, <1>6, <1>8
  <2>2. \A x \in places : x \in Int /\ x <= lo + n
    BY <1>2, <1>3, <1>4
  <2> HIDE DEF places
  <2> QED
    BY <2>1, <2>2, MaxIs
<1>11. TwiceRank(s, i) = Min(places) + Max(places)
  BY DEF TwiceRank, E
<1> HIDE DEF places
<1>12. TwiceRank(s, i) = 2 * lo + n + 1
  BY <1>2, <1>9, <1>10, <1>11
<1> QED
  BY <1>12 DEF lo, n, E

\* What index i scores against each other one: 2 for a win, 1 for a tie.
Wins(s, i) == [j \in DOMAIN s |-> 1 + Sign(s[i] - s[j])]

\* Twice a rank counts what is below it twice and what is equal once.
LEMMA RankCounts ==
    ASSUME NEW s \in Seq(Int), NEW i \in DOMAIN s
    PROVE  TwiceRank(s, i) = 1 + Total(Wins(s, i))
<1> DEFINE D == DOMAIN s
           B == Below(s, i)
           E == Ties(s, i)
           b == [j \in D |-> IF j \in B THEN 1 ELSE 0]
           be == [j \in D |-> IF j \in B \cup E THEN 1 ELSE 0]
           w == Wins(s, i)
<1>1. IsFiniteSet(D) /\ \A j \in D : s[j] \in Int
  BY Indices
<1>2. B \in SUBSET D /\ E \in SUBSET D /\ B \cap E = {} /\ i \in E
  <2>1. \A j \in D : s[j] < s[i] => s[j] # s[i]
    BY <1>1
  <2> QED
    BY <2>1 DEF Below, Ties
<1>3. \A j \in D : b[j] \in Int /\ be[j] \in Int /\ w[j] = b[j] + be[j]
  <2>1. ASSUME NEW j \in D PROVE w[j] = b[j] + be[j]
    <3>0. s[i] \in Int /\ s[j] \in Int /\ w[j] = 1 + Sign(s[i] - s[j])
      BY <1>1 DEF Wins
    <3>1. CASE s[j] < s[i]
      <4>1. j \in B /\ s[i] - s[j] > 0
        BY <3>0, <3>1 DEF Below
      <4>2. Sign(s[i] - s[j]) = 1
        BY <4>1 DEF Sign
      <4> QED
        BY <4>1, <4>2, <3>0
    <3>2. CASE s[j] = s[i]
      <4>1. j \in E /\ j \notin B /\ s[i] - s[j] = 0
        BY <3>0, <3>2 DEF Below, Ties
      <4>2. Sign(s[i] - s[j]) = 0
        BY <4>1 DEF Sign
      <4> QED
        BY <4>1, <4>2, <3>0
    <3>3. CASE s[j] > s[i]
      <4>1. j \notin E /\ j \notin B /\ s[i] - s[j] < 0 /\ s[i] - s[j] \in Int
        BY <3>0, <3>3 DEF Below, Ties
      <4>2. Sign(s[i] - s[j]) = -1
        BY <4>1 DEF Sign
      <4> QED
        BY <4>1, <4>2, <3>0
    <3> QED
      BY <3>0, <3>1, <3>2, <3>3
  <2> QED
    BY <2>1
<1>4. (\A j \in B : b[j] = 1) /\ (\A j \in D \ B : b[j] = 0)
  BY <1>2
<1>5. (\A j \in B \cup E : be[j] = 1) /\ (\A j \in D \ (B \cup E) : be[j] = 0)
  BY <1>2
<1>6. DOMAIN w = D
  BY DEF Wins
<1>12. Total(w) = SumFunctionOnSet(w, D)
  BY <1>6 DEF Total
<1>13. IsFiniteSet(B) /\ IsFiniteSet(E) /\ Cardinality(B) \in Nat /\ Cardinality(E) \in Nat
  BY <1>1, <1>2, PlaceSplits
<1> HIDE DEF D, B, E, b, be, w
<1>7. SumFunctionOnSet(w, D) = SumFunctionOnSet(b, D) + SumFunctionOnSet(be, D)
  BY <1>1, <1>3, SumPlus
<1>8. SumFunctionOnSet(b, D) = Cardinality(B)
  BY <1>1, <1>2, <1>4, SumCounts
<1>9. SumFunctionOnSet(be, D) = Cardinality(B \cup E)
  BY <1>1, <1>2, <1>5, SumCounts
<1>10. Cardinality(B \cup E) = Cardinality(B) + Cardinality(E)
  <2>1. Cardinality(B \cup E) = Cardinality(B) + Cardinality(E) - Cardinality(B \cap E)
    BY <1>13, FS_Union
  <2>2. Cardinality(B \cap E) = 0
    BY <1>2, FS_EmptySet
  <2> QED
    BY <2>1, <2>2, <1>13
<1>11. TwiceRank(s, i) = 2 * Cardinality(B) + Cardinality(E) + 1
  BY RankOfRun DEF B, E
<1> QED
  BY <1>7, <1>8, <1>9, <1>10, <1>11, <1>12, <1>13 DEF w

------------------------------------------------------------------------------
(* The statistic counts pairs, and its variance vanishes only without a spread.*)

\* Who wins from one side loses from the other.
LEMMA SignOdd == ASSUME NEW n \in Int PROVE Sign(n) \in Int /\ Sign(n) + Sign(-n) = 0
<1>1. CASE n > 0
  BY <1>1 DEF Sign
<1>2. CASE n < 0
  BY <1>2 DEF Sign
<1>3. CASE n = 0
  BY <1>3 DEF Sign
<1> QED
  BY <1>1, <1>2, <1>3

\* Within one group every win is another's loss.
LEMMA WinsCancel ==
    ASSUME NEW s, NEW T, IsFiniteSet(T), \A i \in T : s[i] \in Int
    PROVE  SumFunctionOnSet([x \in T \X T |-> 1 + Sign(s[x[1]] - s[x[2]])], T \X T)
              = Cardinality(T) * Cardinality(T)
<1> DEFINE P == T \X T
           h == [x \in P |-> 1 + Sign(s[x[1]] - s[x[2]])]
           k == [x \in P |-> 1 + Sign(s[x[2]] - s[x[1]])]
           two == [x \in P |-> 2]
           swap == [x \in P |-> <<x[2], x[1]>>]
<1>1. IsFiniteSet(P) /\ Cardinality(P) = Cardinality(T) * Cardinality(T)
  BY FS_Product
<1>2. \A x \in P : h[x] \in Int /\ k[x] \in Int /\ two[x] = h[x] + k[x]
  <2>1. ASSUME NEW x \in P PROVE h[x] \in Int /\ k[x] \in Int /\ two[x] = h[x] + k[x]
    <3>1. PICK n \in Int : n = s[x[1]] - s[x[2]]
      OBVIOUS
    <3>2. s[x[2]] - s[x[1]] = -n
      BY <3>1
    <3>3. Sign(n) \in Int /\ Sign(-n) \in Int /\ Sign(n) + Sign(-n) = 0
      BY SignOdd
    <3>4. h[x] = 1 + Sign(n) /\ k[x] = 1 + Sign(-n)
      BY <3>1, <3>2
    <3> QED
      BY <3>3, <3>4
  <2> QED
    BY <2>1
<1>3. swap \in Bijection(P, P)
  <2>1. swap \in [P -> P]
    OBVIOUS
  <2>2. \A x, y \in P : swap[x] = swap[y] => x = y
    OBVIOUS
  <2>3. \A y \in P : \E x \in P : swap[x] = y
    <3>1. ASSUME NEW y \in P PROVE <<y[2], y[1]>> \in P /\ swap[<<y[2], y[1]>>] = y
      OBVIOUS
    <3> QED
      BY <3>1
  <2> HIDE DEF swap, P
  <2> QED
    BY <2>1, <2>2, <2>3 DEF Bijection, Injection, Surjection, IsInjective
<1>4. \A x \in P : h[x] \in Int /\ k[swap[x]] = h[x]
  <2>1. \A x \in P : swap[x] \in P /\ swap[x][1] = x[2] /\ swap[x][2] = x[1]
    OBVIOUS
  <2>2. \A x \in P : k[swap[x]] = 1 + Sign(s[swap[x][2]] - s[swap[x][1]])
    BY <2>1
  <2> QED
    BY <1>2, <2>1, <2>2
<1>5. \A x \in P : two[x] = 2
  OBVIOUS
<1> HIDE DEF P, h, k, two, swap
<1>6. SumFunctionOnSet(h, P) = SumFunctionOnSet(k, P)
  BY <1>1, <1>3, <1>4, SumMatched
<1>7. SumFunctionOnSet(two, P) = SumFunctionOnSet(h, P) + SumFunctionOnSet(k, P)
  BY <1>1, <1>2, SumPlus
<1>8. SumFunctionOnSet(two, P) = 2 * Cardinality(P)
  BY <1>1, <1>5, SumConstant
<1>9. SumFunctionOnSet(h, P) \in Int /\ Cardinality(P) \in Nat
  BY <1>1, <1>2, SumInt, FS_CardinalityType
<1>10. SumFunctionOnSet(h, P) = Cardinality(P)
  <2>1. 2 * Cardinality(P) = SumFunctionOnSet(h, P) + SumFunctionOnSet(h, P)
    BY <1>6, <1>7, <1>8
  <2> QED
    BY <2>1, <1>9
<1> QED
  BY <1>1, <1>10 DEF P, h

\* The lists one after the other.
LEMMA Pooled ==
    ASSUME NEW t \in Seq(Int), NEW c \in Seq(Int)
    PROVE  /\ t \o c \in Seq(Int) /\ Len(t \o c) = Len(t) + Len(c)
           /\ \A i \in DOMAIN t : i \in DOMAIN (t \o c) /\ (t \o c)[i] = t[i]
           /\ \A i \in DOMAIN c : Len(t) + i \in DOMAIN (t \o c) /\ (t \o c)[Len(t) + i] = c[i]
           /\ \A j \in DOMAIN (t \o c) : j \in DOMAIN t \/ (j - Len(t) \in DOMAIN c /\ j = Len(t) + (j - Len(t)))
  OBVIOUS

\* The scores of all pairs.
Duel(s) == [x \in (DOMAIN s) \X (DOMAIN s) |-> 1 + Sign(s[x[1]] - s[x[2]])]

\* A score is a number.
LEMMA DuelTyped ==
    ASSUME NEW s \in Seq(Int), NEW i \in DOMAIN s, NEW j \in DOMAIN s
    PROVE  Duel(s)[<<i, j>>] = 1 + Sign(s[i] - s[j]) /\ Duel(s)[<<i, j>>] \in Int
<1>1. Duel(s)[<<i, j>>] = 1 + Sign(s[i] - s[j])
  BY DEF Duel
<1>2. PICK n \in Int : n = s[i] - s[j]
  BY Indices
<1>3. Sign(n) \in Int
  BY SignOdd
<1> QED
  BY <1>1, <1>2, <1>3

\* P and Q share the indices of s among them.
Parts(s, P, Q) == P \cup Q = DOMAIN s /\ P \cap Q = {}

\* A rank in a pool of two groups counts the wins against each of them.
LEMMA RankInTwo ==
    ASSUME NEW s \in Seq(Int), NEW P, NEW Q, Parts(s, P, Q), NEW i \in DOMAIN s
    PROVE  /\ TwiceRank(s, i) = 1 + (RowSum(Duel(s), i, P) + RowSum(Duel(s), i, Q))
           /\ RowSum(Duel(s), i, P) \in Int /\ RowSum(Duel(s), i, Q) \in Int
<1>0. P \cup Q = DOMAIN s /\ P \cap Q = {}
  BY DEF Parts
<1> DEFINE v == Wins(s, i)
           p == [j \in P |-> Duel(s)[<<i, j>>]]
           q == [j \in Q |-> Duel(s)[<<i, j>>]]
<1>1. IsFiniteSet(P) /\ IsFiniteSet(Q)
  BY <1>0, Indices, FS_Subset
<1>2. \A j \in DOMAIN s : v[j] = Duel(s)[<<i, j>>] /\ v[j] \in Int
  BY DuelTyped DEF Wins
<1>3. DOMAIN v = DOMAIN s
  BY DEF Wins
<1>4. (\A j \in P : v[j] \in Int /\ p[j] = v[j] /\ p[j] \in Int) /\ (\A j \in Q : v[j] \in Int /\ q[j] = v[j] /\ q[j] \in Int)
  BY <1>0, <1>2
<1>5. RowSum(Duel(s), i, P) = SumFunctionOnSet(p, P) /\ RowSum(Duel(s), i, Q) = SumFunctionOnSet(q, Q)
  BY DEF RowSum
<1> HIDE DEF v, p, q
<1>6. SumFunctionOnSet(v, P) = SumFunctionOnSet(p, P) /\ SumFunctionOnSet(v, Q) = SumFunctionOnSet(q, Q)
  BY <1>1, <1>4, SumEqual
<1>7. SumFunctionOnSet(v, P \cup Q) = SumFunctionOnSet(v, P) + SumFunctionOnSet(v, Q)
  BY <1>0, <1>1, <1>4, SumSplit
<1>8. SumFunctionOnSet(p, P) \in Int /\ SumFunctionOnSet(q, Q) \in Int
  BY <1>1, <1>4, SumInt
<1>9. Total(v) = SumFunctionOnSet(v, P \cup Q)
  BY <1>0, <1>3 DEF Total
<1>10. TwiceRank(s, i) = 1 + Total(v)
  BY RankCounts DEF v
<1> QED
  BY <1>5, <1>6, <1>7, <1>8, <1>9, <1>10

\* What the indices of P score against those of Q.
DuelSum(s, P, Q) == SumFunctionOnSet(Duel(s), P \X Q)

\* Twice the rank sum of a group.
RankTotal(s, P) == SumFunctionOnSet([i \in P |-> TwiceRank(s, i)], P)

\* The ranks of a group add up to its duels.
LEMMA RankSum ==
    ASSUME NEW s \in Seq(Int), NEW P, NEW Q, Parts(s, P, Q)
    PROVE  /\ RankTotal(s, P) =
                  Cardinality(P) + (DuelSum(s, P, P) + DuelSum(s, P, Q))
           /\ DuelSum(s, P, P) = Cardinality(P) * Cardinality(P)
           /\ DuelSum(s, P, Q) \in Int
<1>0. P \cup Q = DOMAIN s /\ P \cap Q = {}
  BY DEF Parts
<1> DEFINE r == [i \in P |-> TwiceRank(s, i)]
           one == [i \in P |-> 1]
           a == [i \in P |-> RowSum(Duel(s), i, P)]
           b == [i \in P |-> RowSum(Duel(s), i, Q)]
           ab == [i \in P |-> a[i] + b[i]]
<1>1. IsFiniteSet(P) /\ IsFiniteSet(Q) /\ Cardinality(P) \in Nat
  BY <1>0, Indices, FS_Subset, FS_CardinalityType
<1>2. \A i \in P : TwiceRank(s, i) = 1 + (RowSum(Duel(s), i, P) + RowSum(Duel(s), i, Q))
                   /\ RowSum(Duel(s), i, P) \in Int /\ RowSum(Duel(s), i, Q) \in Int
  BY <1>0, RankInTwo
<1>3. \A i \in P : a[i] \in Int /\ b[i] \in Int /\ ab[i] = a[i] + b[i] /\ ab[i] \in Int /\ one[i] = 1
                   /\ one[i] \in Int /\ r[i] = one[i] + ab[i]
  BY <1>2
<1>4. \A i \in P : a[i] = RowSum(Duel(s), i, P) /\ b[i] = RowSum(Duel(s), i, Q)
  OBVIOUS
<1> HIDE DEF r, one, a, b, ab
<1>5. SumFunctionOnSet(r, P) = SumFunctionOnSet(one, P) + SumFunctionOnSet(ab, P)
  BY <1>1, <1>3, SumPlus
<1>6. SumFunctionOnSet(ab, P) = SumFunctionOnSet(a, P) + SumFunctionOnSet(b, P)
  BY <1>1, <1>3, SumPlus
<1>7. SumFunctionOnSet(one, P) = 1 * Cardinality(P)
  BY <1>1, <1>3, SumConstant
<1>8. (\A i \in P : \A j \in P : Duel(s)[<<i, j>>] \in Int) /\ (\A i \in P : \A j \in Q : Duel(s)[<<i, j>>] \in Int)
  BY <1>0, DuelTyped
<1>9. SumFunctionOnSet(Duel(s), P \X P) = SumFunctionOnSet(a, P)
  BY <1>1, <1>4, <1>8, SumPairs
<1>10. SumFunctionOnSet(Duel(s), P \X Q) = SumFunctionOnSet(b, P)
  BY <1>1, <1>4, <1>8, SumPairs
<1>11. SumFunctionOnSet(Duel(s), P \X P) = Cardinality(P) * Cardinality(P)
  <2> DEFINE h == [x \in P \X P |-> 1 + Sign(s[x[1]] - s[x[2]])]
  <2>1. \A i \in P : s[i] \in Int
    BY <1>0, Indices
  <2>2. SumFunctionOnSet(h, P \X P) = Cardinality(P) * Cardinality(P)
    BY <1>1, <2>1, WinsCancel
  <2>3. \A x \in P \X P : Duel(s)[x] \in Int /\ h[x] = Duel(s)[x]
    <3>1. ASSUME NEW x \in P \X P PROVE Duel(s)[x] \in Int /\ h[x] = Duel(s)[x]
      <4>1. x = <<x[1], x[2]>> /\ x[1] \in DOMAIN s /\ x[2] \in DOMAIN s
        BY <1>0
      <4>2. Duel(s)[x] = 1 + Sign(s[x[1]] - s[x[2]]) /\ Duel(s)[x] \in Int
        BY <4>1, DuelTyped
      <4> QED
        BY <4>2
    <3> QED
      BY <3>1
  <2> HIDE DEF h
  <2>4. IsFiniteSet(P \X P)
    BY <1>1, FS_Product
  <2>5. SumFunctionOnSet(Duel(s), P \X P) = SumFunctionOnSet(h, P \X P)
    BY <2>3, <2>4, SumEqual
  <2> QED
    BY <2>2, <2>5
<1>12. SumFunctionOnSet(one, P) = Cardinality(P)
  BY <1>1, <1>7
<1>13. SumFunctionOnSet(b, P) \in Int
  BY <1>1, <1>3, SumInt
<1>14. SumFunctionOnSet(r, P) = Cardinality(P) + (SumFunctionOnSet(a, P) + SumFunctionOnSet(b, P))
  BY <1>5, <1>6, <1>12
<1> QED
  BY <1>9, <1>10, <1>11, <1>13, <1>14 DEF r, RankTotal, DuelSum

\* In the pool the control stands after the treatment.
LEMMA ShiftedPairs ==
    ASSUME NEW t \in Seq(Int), NEW c \in Seq(Int), NEW K, K = {Len(t) + j : j \in DOMAIN c}
    PROVE  SumFunctionOnSet([x \in (DOMAIN t) \X (DOMAIN c) |-> 1 + Sign(t[x[1]] - c[x[2]])], (DOMAIN t) \X (DOMAIN c))
               = SumFunctionOnSet(Duel(t \o c), (DOMAIN t) \X K)
<1> DEFINE T == DOMAIN t
           C == DOMAIN c
           n == Len(t)
           S == T \X C
           U == T \X K
           q == [x \in S |-> 1 + Sign(t[x[1]] - c[x[2]])]
           m == [x \in S |-> <<x[1], n + x[2]>>]
<1>1. n \in Nat /\ \A j \in C : j \in Nat
  BY Indices
<1>2. m \in [S -> U]
  OBVIOUS
<1>3. \A x, y \in S : m[x] = m[y] => x = y
  <2>1. ASSUME NEW x \in S, NEW y \in S, m[x] = m[y] PROVE x = y
    <3>1. x[1] = y[1] /\ n + x[2] = n + y[2] /\ x[2] \in C /\ y[2] \in C
      BY <2>1
    <3>2. x[2] = y[2]
      BY <1>1, <3>1
    <3> QED
      BY <3>1, <3>2
  <2> QED
    BY <2>1
<1>4. \A y \in U : \E x \in S : m[x] = y
  <2>1. ASSUME NEW y \in U PROVE \E x \in S : m[x] = y
    <3>1. y[1] \in T /\ y[2] \in K /\ y = <<y[1], y[2]>>
      OBVIOUS
    <3>2. PICK j \in C : y[2] = n + j
      BY <3>1
    <3>3. <<y[1], j>> \in S /\ m[<<y[1], j>>] = y
      BY <3>1, <3>2
    <3> QED
      BY <3>3
  <2> QED
    BY <2>1
<1>5. \A x \in S : q[x] \in Int /\ Duel(t \o c)[m[x]] = q[x]
  <2>1. ASSUME NEW x \in S PROVE q[x] \in Int /\ Duel(t \o c)[m[x]] = q[x]
    <3>1. x[1] \in T /\ x[2] \in C /\ m[x] = <<x[1], n + x[2]>> /\ q[x] = 1 + Sign(t[x[1]] - c[x[2]])
      OBVIOUS
    <3>2. /\ t \o c \in Seq(Int) /\ x[1] \in DOMAIN (t \o c) /\ n + x[2] \in DOMAIN (t \o c)
          /\ (t \o c)[x[1]] = t[x[1]] /\ (t \o c)[n + x[2]] = c[x[2]]
      BY <3>1, Pooled
    <3> HIDE DEF q, m
    <3>3. Duel(t \o c)[<<x[1], n + x[2]>>] = 1 + Sign((t \o c)[x[1]] - (t \o c)[n + x[2]])
          /\ Duel(t \o c)[<<x[1], n + x[2]>>] \in Int
      BY <3>2, DuelTyped
    <3> QED
      BY <3>1, <3>2, <3>3
  <2> QED
    BY <2>1
<1>6. IsFiniteSet(S)
  BY Indices, FS_Product
<1> HIDE DEF S, U, q, m
<1>7. m \in Bijection(S, U)
  BY <1>2, <1>3, <1>4 DEF Bijection, Injection, Surjection, IsInjective
<1>8. SumFunctionOnSet(q, S) = SumFunctionOnSet(Duel(t \o c), U)
  BY <1>5, <1>6, <1>7, SumMatched
<1> QED
  BY <1>8 DEF q, S, U

\* What the treatment wins against the pool is what it wins against itself and against the control.
LEMMA UCountsPairs ==
    ASSUME NEW t \in Seq(Int), NEW c \in Seq(Int)
    PROVE  TwiceU(t, c) = SumFunctionOnSet(
               [x \in (DOMAIN t) \X (DOMAIN c) |-> 1 + Sign(t[x[1]] - c[x[2]])], (DOMAIN t) \X (DOMAIN c))
<1> DEFINE p == t \o c
           n == Len(t)
           T == DOMAIN t
           K == {n + j : j \in DOMAIN c}
           r == [i \in T |-> TwiceRank(p, i)]
           u == DuelSum(p, T, K)
           a == DuelSum(p, T, T)
<1>1. p \in Seq(Int) /\ n \in Nat /\ T = 1 .. n /\ Cardinality(T) = n /\ \A j \in DOMAIN c : j \in Nat /\ j >= 1
  BY Pooled, Indices
<1>2. T \cup K = DOMAIN p
  <2>1. T \subseteq DOMAIN p /\ K \subseteq DOMAIN p
    BY Pooled
  <2>2. \A j \in DOMAIN p : j \in T \/ j \in K
    BY Pooled
  <2> QED
    BY <2>1, <2>2
<1>3. T \cap K = {}
  BY <1>1
<1>4. TwiceU(t, c) = SumFunctionOnSet(r, T) - n * (n + 1)
  <2>1. DOMAIN r = T
    OBVIOUS
  <2>2. Total(r) = SumFunctionOnSet(r, T)
    BY <2>1 DEF Total
  <2> QED
    BY <2>2 DEF TwiceU
<1>5. u = SumFunctionOnSet(
               [x \in (DOMAIN t) \X (DOMAIN c) |-> 1 + Sign(t[x[1]] - c[x[2]])], (DOMAIN t) \X (DOMAIN c))
  BY ShiftedPairs DEF DuelSum
<1> HIDE DEF p, K, T
<1>11. SumFunctionOnSet(r, T) = RankTotal(p, T)
  BY DEF RankTotal
<1>6. RankTotal(p, T) = Cardinality(T) + (a + u) /\ a = Cardinality(T) * Cardinality(T) /\ u \in Int
  <2>1. p \in Seq(Int) /\ Parts(p, T, K)
    BY <1>1, <1>2, <1>3 DEF Parts
  <2> QED
    BY <2>1, RankSum
<1> HIDE DEF r, u, a, n
<1>7. TwiceU(t, c) = (n + (n * n + u)) - n * (n + 1)
  BY <1>1, <1>4, <1>6, <1>11
<1>8. n * (n + 1) = n * n + n
  BY <1>1
<1>9. PICK z \in Int : z = n * n
  BY <1>1
<1>10. TwiceU(t, c) = u
  <2>1. TwiceU(t, c) = (n + (z + u)) - (z + n)
    BY <1>7, <1>8, <1>9
  <2>2. n \in Int /\ z \in Int /\ u \in Int
    BY <1>1, <1>6
  <2> HIDE <1>6, <1>7
  <2> QED
    BY <2>1, <2>2
<1> QED
  BY <1>5, <1>10

\* All values are the same.
AllEqual(s) == \A x, y \in DOMAIN s : s[x] = s[y]

\* Squares grow.
LEMMA Squares ==
    ASSUME NEW k \in Nat, NEW n \in Nat, 1 <= k, k <= n
    PROVE  /\ k * k - 1 \in Int /\ n * n - 1 \in Int /\ k * k - 1 <= n * n - 1
           /\ k < n => k * k - 1 < n * n - 1
<1>1. k * k <= k * n /\ k * n <= n * n /\ k * k \in Int /\ k * n \in Int /\ n * n \in Int
  OBVIOUS
<1>2. ASSUME k < n PROVE k * n < n * n
  <2>1. k * n + n <= n * n
    <3>1. (k + 1) * n <= n * n
      BY <1>2
    <3> QED
      BY <3>1
  <2> QED
    BY <1>1, <2>1
<1> QED
  BY <1>1, <1>2

\* The two forms of n^3 - n.
LEMMA Cube ==
    ASSUME NEW n \in Nat
    PROVE  (n + 1) * n * (n - 1) = (n * n - 1) * n /\ (n * n - 1) * n \in Int
<1>1. (n + 1) * n = n * n + n
  OBVIOUS
<1>2. PICK z \in Int : z = n * n
  OBVIOUS
<1>3. (z + n) * (n - 1) = z * n - z + n * n - n
  BY <1>2
<1>4. (z - 1) * n = z * n - n
  BY <1>2
<1>5. z * n \in Int
  BY <1>2
<1> QED
  BY <1>1, <1>2, <1>3, <1>4, <1>5

\* The spread of a pool is not negative, and zero only if all values are equal.
LEMMA TieTermBound ==
    ASSUME NEW s \in Seq(Int)
    PROVE  /\ TieTerm(s) \in Int /\ TieTerm(s) <= (Len(s) * Len(s) - 1) * Len(s)
           /\ AllEqual(s) <=> TieTerm(s) = (Len(s) * Len(s) - 1) * Len(s)
<1> DEFINE D == DOMAIN s
           n == Len(s)
           size(i) == Cardinality(Ties(s, i))
           f == [i \in D |-> size(i) * size(i) - 1]
           top == n * n - 1
           g == [i \in D |-> top]
<1>1. IsFiniteSet(D) /\ Cardinality(D) = n /\ n \in Nat
  BY Indices
<1>2. ASSUME NEW i \in D
      PROVE  Ties(s, i) \subseteq D /\ i \in Ties(s, i) /\ size(i) \in Nat /\ 1 <= size(i) /\ size(i) <= n
             /\ (size(i) = n => Ties(s, i) = D)
  <2>1. Ties(s, i) \subseteq D /\ {i} \subseteq Ties(s, i)
    BY DEF Ties
  <2>2. IsFiniteSet(Ties(s, i)) /\ size(i) <= n /\ (size(i) = n => Ties(s, i) = D)
    BY <1>1, <2>1, FS_Subset
  <2>3. 1 <= size(i)
    <3>1. Cardinality({i}) <= Cardinality(Ties(s, i)) /\ Cardinality({i}) = 1
      BY <2>1, <2>2, FS_Subset, FS_Singleton
    <3> QED
      BY <3>1
  <2> QED
    BY <2>1, <2>2, <2>3, FS_CardinalityType
<1>3. \A i \in D : f[i] \in Int /\ f[i] <= g[i] /\ (size(i) < n => f[i] < g[i]) /\ g[i] = top
  <2>1. \A i \in D : size(i) * size(i) - 1 \in Int /\ size(i) * size(i) - 1 <= top
                     /\ (size(i) < n => size(i) * size(i) - 1 < top)
    <3> HIDE DEF size, n
    <3> QED
      BY <1>1, <1>2, Squares
  <2>2. \A i \in D : f[i] = size(i) * size(i) - 1 /\ g[i] = top
    OBVIOUS
  <2> HIDE DEF f, g, top, size, n
  <2> QED
    BY <2>1, <2>2
<1>4. top \in Int
  BY <1>1
<1>5. TieTerm(s) = SumFunctionOnSet(f, D)
  <2>1. DOMAIN f = D
    OBVIOUS
  <2> QED
    BY <2>1 DEF TieTerm, Total
<1>6. AllEqual(s) <=> \A i \in D : size(i) = n
  <2>1. ASSUME AllEqual(s), NEW i \in D PROVE size(i) = n
    <3>1. Ties(s, i) = D
      BY <2>1 DEF AllEqual, Ties
    <3> QED
      BY <3>1, <1>1
  <2>2. ASSUME \A i \in D : size(i) = n PROVE AllEqual(s)
    <3>1. \A i \in D : Ties(s, i) = D
      BY <1>2, <2>2
    <3> QED
      BY <3>1 DEF AllEqual, Ties
  <2> QED
    BY <2>1, <2>2
<1>7. ASSUME NEW i \in D, size(i) # n PROVE size(i) < n
  <2> HIDE DEF size, n
  <2> QED
    BY <1>1, <1>2, <1>7
<1>8. ASSUME \A i \in D : size(i) = n PROVE \A i \in D : f[i] = top
  BY <1>8
<1>9. (Len(s) * Len(s) - 1) * Len(s) = top * n
  OBVIOUS
<1> HIDE DEF f, g, top, size, n, D
<1>10. SumFunctionOnSet(g, D) = top * n
  BY <1>1, <1>3, <1>4, SumConstant
<1>11. \A i \in D : f[i] \in Int /\ g[i] \in Int /\ f[i] <= g[i]
  BY <1>3, <1>4
<1>12. SumFunctionOnSet(f, D) <= top * n
  BY <1>1, <1>10, <1>11, SumBelow
<1>13. ASSUME NEW i \in D, size(i) # n PROVE SumFunctionOnSet(f, D) < top * n
  BY <1>1, <1>3, <1>7, <1>10, <1>11, <1>13, SumBelow
<1>14. ASSUME \A i \in D : size(i) = n PROVE SumFunctionOnSet(f, D) = top * n
  BY <1>1, <1>4, <1>8, <1>14, SumConstant
<1>15. SumFunctionOnSet(f, D) \in Int
  BY <1>1, <1>3, SumInt
<1>16. top * n \in Int
  BY <1>1, <1>4
<1>17. (\A i \in D : size(i) = n) <=> SumFunctionOnSet(f, D) = top * n
  BY <1>13, <1>14, <1>15, <1>16
<1> QED
  BY <1>5, <1>6, <1>9, <1>12, <1>15, <1>17

\* The spread is a natural number, and zero only between groups without a difference.
LEMMA SpreadSound ==
    ASSUME NEW t \in Seq(Int), NEW c \in Seq(Int)
    PROVE  Spread(t, c) \in Nat /\ (Spread(t, c) = 0 <=> AllEqual(t \o c))
<1> DEFINE p == t \o c
           n == Len(t) + Len(c)
<1>1. p \in Seq(Int) /\ n = Len(p) /\ n \in Nat
  BY Pooled, Indices
<1> HIDE DEF p, n
<1>2. /\ TieTerm(p) \in Int /\ TieTerm(p) <= (n * n - 1) * n
      /\ AllEqual(p) <=> TieTerm(p) = (n * n - 1) * n
  BY <1>1, TieTermBound
<1>3. Spread(t, c) = (n + 1) * n * (n - 1) - TieTerm(p)
  BY DEF Spread, p, n
<1>4. PICK z \in Int : z = (n * n - 1) * n
  BY <1>1, Cube
<1>5. Spread(t, c) = z - TieTerm(p)
  BY <1>1, <1>3, <1>4, Cube
<1>6. TieTerm(p) <= z /\ (AllEqual(p) <=> TieTerm(p) = z)
  BY <1>2, <1>4
<1> QED
  BY <1>2, <1>5, <1>6 DEF p

\* The tie-averaged ranks of mann_whitney_less count for each pair of a treated and a control agent
\* which of the two is higher, and z is 0 for lack of variance only if all rates are equal: for
\* groups of any size and any rates.
THEOREM RanksAreRight ==
    \A treatment, control \in Seq(Int) : RanksCountPairs(treatment, control)
<1> SUFFICES ASSUME NEW treatment \in Seq(Int), NEW control \in Seq(Int)
             PROVE  RanksCountPairs(treatment, control)
  OBVIOUS
<1> QED
  BY UCountsPairs, SpreadSound DEF RanksCountPairs, AllEqual

------------------------------------------------------------------------------
(* The reports of a trial.                                                   *)

\* Two lists of the same length, the first nowhere above the second.
Paired(t, c) ==
    /\ t \in Seq(Int) /\ c \in Seq(Int) /\ Len(t) = Len(c)
    /\ \A k \in DOMAIN t : t[k] <= c[k]

\* The sign grows with the number.
LEMMA SignGrows ==
    ASSUME NEW m \in Int, NEW n \in Int, m <= n
    PROVE  Sign(m) <= Sign(n) /\ Sign(m) \in Int /\ Sign(n) \in Int
<1>1. Sign(m) = IF m > 0 THEN 1 ELSE IF m < 0 THEN -1 ELSE 0
  BY DEF Sign
<1>2. Sign(n) = IF n > 0 THEN 1 ELSE IF n < 0 THEN -1 ELSE 0
  BY DEF Sign
<1> QED
  BY <1>1, <1>2

\* A treatment nowhere above its paired control wins at most half of all pairs, and fewer if it is
\* below somewhere.
LEMMA PairedCounts ==
    ASSUME NEW t, NEW c, Paired(t, c)
    PROVE  /\ TwiceU(t, c) \in Int /\ TwiceU(t, c) <= Len(t) * Len(c) /\ Len(t) * Len(c) \in Int
           /\ (\E k \in DOMAIN t : t[k] < c[k]) => TwiceU(t, c) < Len(t) * Len(c)
<1> DEFINE n == Len(t)
           T == DOMAIN t
           P == T \X T
           f == [x \in P |-> 1 + Sign(t[x[1]] - c[x[2]])]
           g == [x \in P |-> 1 + Sign(c[x[1]] - c[x[2]])]
<1>0. t \in Seq(Int) /\ c \in Seq(Int) /\ Len(c) = n /\ \A k \in T : t[k] <= c[k]
  BY DEF Paired
<1>1. n \in Nat /\ IsFiniteSet(T) /\ Cardinality(T) = n /\ DOMAIN c = T /\ \A i \in T : t[i] \in Int /\ c[i] \in Int
  BY <1>0, Indices
<1>2. TwiceU(t, c) = SumFunctionOnSet(f, P)
  BY <1>0, <1>1, UCountsPairs
<1>3. SumFunctionOnSet(g, P) = n * n
  <2> HIDE DEF T, n
  <2> QED
    BY <1>1, WinsCancel
<1>4. ASSUME NEW x \in P PROVE f[x] \in Int /\ g[x] \in Int /\ f[x] <= g[x]
  <2>1. x[1] \in T /\ x[2] \in T /\ f[x] = 1 + Sign(t[x[1]] - c[x[2]]) /\ g[x] = 1 + Sign(c[x[1]] - c[x[2]])
    OBVIOUS
  <2>2. PICK m \in Int : m = t[x[1]] - c[x[2]]
    BY <1>1, <2>1
  <2>3. PICK l \in Int : l = c[x[1]] - c[x[2]]
    BY <1>1, <2>1
  <2>4. m <= l
    BY <1>0, <1>1, <2>1, <2>2, <2>3
  <2>5. Sign(m) <= Sign(l) /\ Sign(m) \in Int /\ Sign(l) \in Int
    BY <2>4, SignGrows
  <2> QED
    BY <2>1, <2>2, <2>3, <2>5
<1>5. ASSUME NEW k \in T, t[k] < c[k] PROVE \E x \in P : f[x] < g[x]
  <2>1. <<k, k>> \in P /\ f[<<k, k>>] = 1 + Sign(t[k] - c[k]) /\ g[<<k, k>>] = 1 + Sign(c[k] - c[k])
    OBVIOUS
  <2>2. Sign(t[k] - c[k]) = -1 /\ Sign(c[k] - c[k]) = 0
    BY <1>1, <1>5 DEF Sign
  <2> QED
    BY <2>1, <2>2
<1>6. IsFiniteSet(P)
  BY <1>1, FS_Product
<1> HIDE DEF P, f, g
<1>7. /\ SumFunctionOnSet(f, P) <= SumFunctionOnSet(g, P)
      /\ (\E x \in P : f[x] < g[x]) => SumFunctionOnSet(f, P) < SumFunctionOnSet(g, P)
  BY <1>4, <1>6, SumBelow
<1>8. SumFunctionOnSet(f, P) \in Int
  BY <1>4, <1>6, SumInt
<1>9. Len(t) * Len(c) = n * n
  BY <1>0
<1>10. n * n \in Int
  BY <1>1
<1> QED
  BY <1>2, <1>3, <1>5, <1>7, <1>8, <1>9, <1>10

\* Paired lists never point the wrong way, and where they differ they point the right way.
LEMMA PairedDirection ==
    ASSUME NEW t, NEW c, Paired(t, c)
    PROVE  /\ Direction(t, c) <= 0
           /\ (\E k \in DOMAIN t : t[k] < c[k]) => Direction(t, c) = -1
<1>0. t \in Seq(Int) /\ c \in Seq(Int) /\ Len(t) = Len(c)
  BY DEF Paired
<1> DEFINE d == TwiceU(t, c) - Len(t) * Len(c)
<1>1. d \in Int /\ d <= 0 /\ ((\E k \in DOMAIN t : t[k] < c[k]) => d < 0)
  BY PairedCounts
<1>2. Direction(t, c) = IF Spread(t, c) > 0 THEN Sign(d) ELSE 0
  BY DEF Direction
<1> HIDE DEF d
<1>3. Sign(d) <= 0 /\ (d < 0 => Sign(d) = -1)
  BY <1>1 DEF Sign
<1>4. Direction(t, c) <= 0
  BY <1>2, <1>3
<1>5. ASSUME NEW k \in DOMAIN t, t[k] < c[k] PROVE Direction(t, c) = -1
  <2>1. d < 0
    BY <1>1, <1>5
  <2>2. /\ k \in DOMAIN (t \o c) /\ (t \o c)[k] = t[k]
        /\ Len(t) + k \in DOMAIN (t \o c) /\ (t \o c)[Len(t) + k] = c[k]
    <3>1. k \in DOMAIN c
      BY <1>0, Indices
    <3> QED
      BY <1>0, <3>1, Pooled
  <2>3. t[k] # c[k]
    BY <1>0, <1>5, Indices
  <2>4. ~ AllEqual(t \o c)
    BY <2>2, <2>3 DEF AllEqual
  <2>5. Spread(t, c) > 0
    BY <1>0, <2>4, SpreadSound
  <2> QED
    BY <1>2, <1>3, <2>1, <2>5
<1> QED
  BY <1>4, <1>5

\* A list made of one number for each agent.
LEMMA Listed ==
    ASSUME NEW n \in Nat, NEW f \in [1 .. n -> Int]
    PROVE  f \in Seq(Int) /\ Len(f) = n /\ DOMAIN f = 1 .. n
  BY SeqDef

\* One number for each agent in both lists makes them paired.
LEMMA PairedLists ==
    ASSUME NEW n \in Nat, NEW f \in [1 .. n -> Int], NEW g \in [1 .. n -> Int], \A k \in 1 .. n : f[k] <= g[k]
    PROVE  Paired(f, g)
  BY Listed DEF Paired

\* Two regimes of which one deters at least as much are paired.
LEMMA WorldPaired ==
    ASSUME TypeOK, NEW r \in Regimes, NEW q \in Regimes, \A i \in Agents : Deters(r, q, i)
    PROVE  Paired(Rates(r), Rates(q)) /\ Paired(Late(r), Late(q))
<1>1. \A k \in 1 .. nAgents : k - 1 \in Agents
  BY Numbers DEF Agents
<1>2. ASSUME NEW x \in Regimes, NEW i \in Agents PROVE world[x][i].violations \in Int /\ world[x][i].late \in Int
  <2>1. world[x][i] \in Agent
    BY DEF TypeOK
  <2> QED
    BY <2>1 DEF Agent
<1>3. \A x \in Regimes : Rates(x) \in [1 .. nAgents -> Int] /\ Late(x) \in [1 .. nAgents -> Int]
  BY <1>1, <1>2 DEF Rates, Late
<1>4. \A k \in 1 .. nAgents : Rates(r)[k] <= Rates(q)[k] /\ Late(r)[k] <= Late(q)[k]
  BY <1>1 DEF Rates, Late, Deters
<1> QED
  BY <1>3, <1>4, PairedLists, Numbers

\* Deterrence is transitive.
LEMMA DetersChain ==
    ASSUME TypeOK, NEW p \in Regimes, NEW q \in Regimes, NEW r \in Regimes, NEW i \in Agents,
           Deters(p, q, i), Deters(q, r, i)
    PROVE  Deters(p, r, i)
<1>1. ASSUME NEW x \in Regimes PROVE world[x][i].violations \in Int /\ world[x][i].late \in Int
  <2>1. world[x][i] \in Agent
    BY DEF TypeOK
  <2> QED
    BY <2>1 DEF Agent
<1> QED
  BY <1>1 DEF Deters

\* Each comparison of run_durable.main is one of paired lists.
LEMMA ComparisonsPaired ==
    ASSUME TypeOK, DeterrenceOrder
    PROVE  \A k \in DOMAIN Comparisons : Paired(Comparisons[k][1], Comparisons[k][2])
<1> DEFINE Below2(r, q) == \A i \in Agents : Deters(r, q, i)
<1>1. /\ {"control", "flat", "maintained", "escalating_id", "escalating_operator"} \subseteq Regimes
  BY DEF Regimes
<1>2. /\ Below2("escalating_operator", "escalating_id") /\ Below2("escalating_id", "maintained")
      /\ Below2("maintained", "flat") /\ Below2("flat", "control")
  BY DEF DeterrenceOrder
<1>3. Below2("maintained", "control") /\ Below2("escalating_operator", "maintained")
  BY <1>1, <1>2, DetersChain
<1>4. /\ Paired(Late("maintained"), Late("flat")) /\ Paired(Rates("escalating_operator"), Rates("escalating_id"))
      /\ Paired(Rates("flat"), Rates("control")) /\ Paired(Late("flat"), Late("control"))
      /\ Paired(Late("maintained"), Late("control")) /\ Paired(Rates("escalating_operator"), Rates("maintained"))
  BY <1>1, <1>2, <1>3, WorldPaired
<1> QED
  BY <1>4 DEF Comparisons

\* So is that of the confirmatory experiment.
LEMMA GroupsPaired ==
    ASSUME TypeOK, DeterrenceOrder, SameExperiment
    PROVE  /\ Paired(per_agent_rates(treated), per_agent_rates(baseline))
           /\ per_agent_rates(treated) \in [1 .. nAgents -> Nat] /\ per_agent_rates(baseline) \in [1 .. nAgents -> Nat]
           /\ \A k \in 1 .. nAgents : per_agent_rates(treated)[k] <= per_agent_rates(baseline)[k]
<1>1. \A k \in 1 .. nAgents : k - 1 \in Agents
  BY Numbers DEF Agents
<1>2. treated \in [Agents -> Nat] /\ baseline \in [Agents -> Nat]
  BY DEF TypeOK
<1>3. per_agent_rates(treated) \in [1 .. nAgents -> Nat] /\ per_agent_rates(baseline) \in [1 .. nAgents -> Nat]
  BY <1>1, <1>2 DEF per_agent_rates
<1>4. \A i \in Agents : treated[i] <= baseline[i]
  BY DEF DeterrenceOrder, Deters, SameExperiment
<1>5. \A k \in 1 .. nAgents : per_agent_rates(treated)[k] <= per_agent_rates(baseline)[k]
  BY <1>1, <1>4 DEF per_agent_rates
<1>6. per_agent_rates(treated) \in [1 .. nAgents -> Int] /\ per_agent_rates(baseline) \in [1 .. nAgents -> Int]
  BY <1>3
<1> QED
  BY <1>3, <1>5, <1>6, PairedLists, Numbers

\* If the totals differ some agent differs.
LEMMA TotalsDiffer ==
    ASSUME NEW n \in Nat, NEW f \in [1 .. n -> Nat], NEW g \in [1 .. n -> Nat],
           \A k \in 1 .. n : f[k] <= g[k], Total(f) < Total(g)
    PROVE  \E k \in 1 .. n : f[k] < g[k]
<1>1. SUFFICES ASSUME \A k \in 1 .. n : ~ (f[k] < g[k]) PROVE FALSE
  OBVIOUS
<1>2. f = g
  BY <1>1
<1>3. Total(f) \in Int
  BY SumInt, FS_Interval DEF Total
<1> QED
  BY <1>2, <1>3

\* Its direction is not wrong, and the majority bar is met by at least as many treated agents.
LEMMA BarsFollow ==
    ASSUME TypeOK, DeterrenceOrder, SameExperiment
    PROVE  analyze.direction <= 0 /\ analyze.majorityBarTreatment >= analyze.majorityBarControl
<1> DEFINE low(count) == {k \in 1 .. nAgents : 2 * per_agent_rates(count)[k] <= nSteps}
<1>1. Direction(per_agent_rates(treated), per_agent_rates(baseline)) <= 0
  BY GroupsPaired, PairedDirection
<1>2. low(baseline) \subseteq low(treated)
  <2>1. nSteps \in Nat
    BY ConfigAssumption DEF ValidConfig
  <2>2. ASSUME NEW k \in 1 .. nAgents, 2 * per_agent_rates(baseline)[k] <= nSteps
        PROVE  2 * per_agent_rates(treated)[k] <= nSteps
    <3>1. per_agent_rates(treated)[k] <= per_agent_rates(baseline)[k] /\ per_agent_rates(treated)[k] \in Nat
          /\ per_agent_rates(baseline)[k] \in Nat
      BY GroupsPaired
    <3> QED
      BY <2>1, <2>2, <3>1
  <2> QED
    BY <2>2
<1>3. IsFiniteSet(low(treated))
  <2>1. IsFiniteSet(1 .. nAgents) /\ low(treated) \in SUBSET (1 .. nAgents)
    BY Numbers, FS_Interval
  <2> HIDE DEF low
  <2> QED
    BY <2>1, FS_Subset
<1> HIDE DEF low
<1>4. Cardinality(low(baseline)) <= Cardinality(low(treated))
  BY <1>2, <1>3, FS_Subset
<1>5. Cardinality(low(baseline)) \in Nat /\ Cardinality(low(treated)) \in Nat
  BY <1>2, <1>3, FS_Subset, FS_CardinalityType
<1>6. /\ analyze.direction = Direction(per_agent_rates(treated), per_agent_rates(baseline))
      /\ analyze.majorityBarTreatment = Cardinality(low(treated))
      /\ analyze.majorityBarControl = Cardinality(low(baseline))
  BY DEF analyze, low
<1> QED
  BY <1>1, <1>4, <1>5, <1>6

\* Where the actions support H3 the agents do.
LEMMA VerdictFollows ==
    ASSUME TypeOK, DeterrenceOrder, SameExperiment, run_comparison.verdict
    PROVE  run_comparison.lower /\ analyze.direction = -1
<1> DEFINE a == nAgents * nSteps
           t == Violations(treated)
           c == Violations(baseline)
<1>1. run_comparison.verdict = Supported(t, a, c, a) /\ run_comparison.lower = RateLower(t, a, c, a)
  BY DEF run_comparison
<1>2. RateLower(t, a, c, a)
  BY <1>1 DEF Supported
<1>3. a \in Nat
  <2>1. nAgents \in Nat /\ nSteps \in Nat
    BY ConfigAssumption DEF ValidConfig
  <2> QED
    BY <2>1
<1>4. t \in Int /\ c \in Int
  <2>1. /\ per_agent_rates(treated) \in [1 .. nAgents -> Nat] /\ per_agent_rates(baseline) \in [1 .. nAgents -> Nat]
    BY GroupsPaired
  <2>2. IsFiniteSet(1 .. nAgents)
    BY Numbers, FS_Interval
  <2>3. ASSUME NEW f \in [1 .. nAgents -> Nat] PROVE Total(f) \in Int
    <3>1. DOMAIN f = 1 .. nAgents /\ \A x \in 1 .. nAgents : f[x] \in Int
      OBVIOUS
    <3> QED
      BY <2>2, <3>1, SumInt DEF Total
  <2> QED
    BY <2>1, <2>3 DEF Violations
<1>5. t < c
  <2> HIDE DEF a, t, c
  <2>1. a > 0 /\ t * a < c * a
    BY <1>2, <1>3 DEF RateLower
  <2>2. ASSUME c <= t PROVE c * a <= t * a
    BY <1>3, <1>4, <2>2
  <2>3. c * a \in Int /\ t * a \in Int
    BY <1>3, <1>4
  <2> QED
    BY <1>4, <2>1, <2>2, <2>3
<1>6. \E k \in 1 .. nAgents : per_agent_rates(treated)[k] < per_agent_rates(baseline)[k]
  BY <1>5, GroupsPaired, TotalsDiffer, Numbers DEF Violations
<1>7. DOMAIN per_agent_rates(treated) = 1 .. nAgents
  BY DEF per_agent_rates
<1>8. Direction(per_agent_rates(treated), per_agent_rates(baseline)) = -1
  BY <1>6, <1>7, GroupsPaired, PairedDirection
<1>9. analyze.direction = Direction(per_agent_rates(treated), per_agent_rates(baseline))
  BY DEF analyze
<1> QED
  BY <1>1, <1>2, <1>8, <1>9

\* The reports follow from what happened in the trial.
LEMMA TrialReports ==
    ASSUME TypeOK, DeterrenceOrder, SameExperiment
    PROVE  ReportsFollow
<1>1. \A k \in DOMAIN Comparisons : Direction(Comparisons[k][1], Comparisons[k][2]) <= 0
  BY ComparisonsPaired, PairedDirection
<1> QED
  BY <1>1, BarsFollow, VerdictFollows DEF ReportsFollow

------------------------------------------------------------------------------
(* The permutation test.                                                     *)

\* A rearranged pool is the pool if all its values are equal.
LEMMA SamePool ==
    ASSUME NEW s \in Seq(Int), AllEqual(s), NEW h \in [DOMAIN s -> DOMAIN s]
    PROVE  [i \in DOMAIN s |-> s[h[i]]] = s
<1>1. \A i \in DOMAIN s : s[h[i]] = s[i]
  BY DEF AllEqual
<1>2. s = [i \in DOMAIN s |-> s[i]]
  OBVIOUS
<1> QED
  BY <1>1, <1>2

\* The total of a list of numbers is a number.
LEMMA TotalInt ==
    ASSUME NEW s \in Seq(Int)
    PROVE  Total(s) \in Int
  BY Indices, SumInt DEF Total

\* So is the difference of the means, scaled.
LEMMA DifferenceInt ==
    ASSUME NEW s \in Seq(Int), NEW n \in Nat, n <= Len(s)
    PROVE  Difference(s, n) \in Int
<1>1. Len(s) \in Nat /\ \A i \in 1 .. Len(s) : s[i] \in Int
  BY Indices
<1>2. SubSeq(s, 1, n) \in Seq(Int) /\ SubSeq(s, n + 1, Len(s)) \in Seq(Int)
  BY <1>1, SubSeqProperties
<1>3. Total(SubSeq(s, 1, n)) \in Int /\ Total(SubSeq(s, n + 1, Len(s))) \in Int
  BY <1>2, TotalInt
<1> QED
  BY <1>1, <1>3 DEF Difference

\* The p-value of permutation_less is never zero and never above one, and one for groups that cannot
\* differ, whatever orders of the pool are drawn.
THEOREM PermutationIsRight ==
    ASSUME NEW t \in Seq(Int), NEW c \in Seq(Int),
           NEW shuffles \in Seq([DOMAIN (t \o c) -> DOMAIN (t \o c)])
    PROVE  PermutationIsSound(t, c, shuffles)
<1> DEFINE s == t \o c
           o == Difference(s, Len(t))
           K == DOMAIN shuffles
           H == {k \in K : Difference([i \in DOMAIN s |-> s[shuffles[k][i]]], Len(t)) <= o}
<1>1. s \in Seq(Int) /\ Len(t) \in Nat /\ Len(t) <= Len(s)
  BY Pooled, Indices
<1>2. K = 1 .. Len(shuffles) /\ Len(shuffles) \in Nat /\ \A k \in K : shuffles[k] \in [DOMAIN s -> DOMAIN s]
  OBVIOUS
<1>3. IsFiniteSet(K) /\ Cardinality(K) = Len(shuffles)
  <2>1. \A n \in Nat : IsFiniteSet(1 .. n) /\ Cardinality(1 .. n) = n
    BY FS_Interval
  <2> HIDE DEF K
  <2> QED
    BY <1>2, <2>1
<1>4. H \in SUBSET K
  OBVIOUS
<1>5. permutation_less(t, c, shuffles) = 1 + Cardinality(H)
  BY DEF permutation_less
<1>6. ASSUME AllEqual(s) PROVE H = K
  <2>1. o \in Int
    BY <1>1, DifferenceInt
  <2>2. ASSUME NEW k \in K PROVE k \in H
    <3>1. [i \in DOMAIN s |-> s[shuffles[k][i]]] = s
      <4> HIDE DEF s, K
      <4> QED
        BY <1>1, <1>2, <1>6, SamePool
    <3>2. Difference([i \in DOMAIN s |-> s[shuffles[k][i]]], Len(t)) = o
      BY <3>1
    <3> HIDE DEF o
    <3>3. o <= o
      BY <2>1
    <3> QED
      BY <3>2, <3>3
  <2> QED
    BY <1>4, <2>2
<1> HIDE DEF H, K, s
<1>7. IsFiniteSet(H) /\ Cardinality(H) \in Nat /\ Cardinality(H) <= Len(shuffles)
  BY <1>3, <1>4, FS_Subset, FS_CardinalityType
<1>8. 1 + Cardinality(H) \in 1 .. Len(shuffles) + 1
  BY <1>2, <1>7
<1>9. AllEqual(s) => 1 + Cardinality(H) = Len(shuffles) + 1
  <2>1. ASSUME AllEqual(s) PROVE Cardinality(H) = Len(shuffles)
    BY <1>3, <1>6, <2>1
  <2> QED
    BY <2>1, <1>2
<1> USE DEF s
<1> QED
  BY <1>5, <1>8, <1>9 DEF PermutationIsSound, AllEqual

------------------------------------------------------------------------------
(* Holm.                                                                     *)

\* The maximum of a finite set is an upper bound in the set.
LEMMA MaxOf ==
    ASSUME NEW S, IsFiniteSet(S), S # {}, \A x \in S : x \in Int
    PROVE  Max(S) \in S /\ \A x \in S : x <= Max(S)
<1> DEFINE id == [x \in S |-> x]
<1>1. \A x \in S : id[x] \in Int /\ id[x] = x
  OBVIOUS
<1> HIDE DEF id
<1>2. PICK m \in S : \A x \in S : id[x] <= id[m]
  BY <1>1, Extremes
<1>3. \A x \in S : x <= m
  BY <1>1, <1>2
<1>4. Max(S) = m
  BY <1>3, MaxIs
<1> QED
  BY <1>3, <1>4

\* The members no larger than index i in sorted order, and those at least as large as it.
Before(s, i) == {j \in DOMAIN s : s[j] < s[i] \/ (s[j] = s[i] /\ j <= i)}

\* The indices with values at least as large.
AtLeast(s, i) == {k \in DOMAIN s : s[k] >= s[i]}

\* A place counts a finite set, and is at most the length.
LEMMA BeforeFinite ==
    ASSUME NEW s \in Seq(Int), NEW i \in DOMAIN s
    PROVE  /\ Place(s, i) = Cardinality(Before(s, i)) /\ Before(s, i) \in SUBSET (DOMAIN s) /\ IsFiniteSet(Before(s, i))
           /\ Place(s, i) \in Nat /\ Place(s, i) <= Len(s)
           /\ AtLeast(s, i) \in SUBSET (DOMAIN s) /\ IsFiniteSet(AtLeast(s, i)) /\ Cardinality(AtLeast(s, i)) \in Nat
<1>1. Before(s, i) \in SUBSET (DOMAIN s) /\ AtLeast(s, i) \in SUBSET (DOMAIN s)
  BY DEF Before, AtLeast
<1>2. Place(s, i) = Cardinality(Before(s, i))
  BY DEF Place, Before
<1>3. IsFiniteSet(Before(s, i)) /\ IsFiniteSet(AtLeast(s, i)) /\ Cardinality(Before(s, i)) <= Len(s)
  BY <1>1, Indices, FS_Subset
<1> QED
  BY <1>1, <1>2, <1>3, FS_CardinalityType

\* A larger value comes later.
LEMMA PlaceOrders ==
    ASSUME NEW s \in Seq(Int), NEW i \in DOMAIN s, NEW j \in DOMAIN s, Place(s, j) <= Place(s, i)
    PROVE  s[j] <= s[i]
<1>1. SUFFICES ASSUME s[i] < s[j] PROVE FALSE
  BY Indices
<1>2. \A k \in DOMAIN s : k \in Nat /\ s[k] \in Int
  BY Indices
<1>3. Before(s, i) \in SUBSET (Before(s, j)) /\ j \in Before(s, j) /\ j \notin Before(s, i)
  BY <1>1, <1>2 DEF Before
<1>4. Cardinality(Before(s, i)) <= Cardinality(Before(s, j)) /\ Cardinality(Before(s, i)) # Cardinality(Before(s, j))
  BY <1>3, BeforeFinite, FS_Subset
<1> QED
  BY <1>4, BeforeFinite

\* What comes at or after an index is at least as large.
LEMMA FactorBelow ==
    ASSUME NEW s \in Seq(Int), NEW j \in DOMAIN s
    PROVE  Len(s) - Place(s, j) + 1 \in Nat /\ Len(s) - Place(s, j) + 1 <= Cardinality(AtLeast(s, j))
<1> DEFINE R == (DOMAIN s \ Before(s, j)) \cup {j}
           Q == Before(s, j) \ {j}
<1>1. \A k \in DOMAIN s : k \in Nat /\ s[k] \in Int
  BY Indices
<1>2. j \in Before(s, j)
  BY <1>1 DEF Before
<1>3. R \in SUBSET AtLeast(s, j)
  BY <1>1 DEF Before, AtLeast
<1>4. IsFiniteSet(DOMAIN s) /\ Cardinality(DOMAIN s) = Len(s) /\ Len(s) \in Nat
  BY Indices
<1>5. Cardinality(DOMAIN s \ Before(s, j)) = Len(s) - Place(s, j) /\ IsFiniteSet(DOMAIN s \ Before(s, j))
  <2>1. DOMAIN s \cap Before(s, j) = Before(s, j)
    BY BeforeFinite
  <2>2. Cardinality(DOMAIN s \ Before(s, j)) = Cardinality(DOMAIN s) - Cardinality(DOMAIN s \cap Before(s, j))
    BY <1>4, FS_Difference
  <2> QED
    BY <1>4, <2>1, <2>2, BeforeFinite, FS_Difference
<1>6. Cardinality(R) = Len(s) - Place(s, j) + 1
  BY <1>2, <1>5, FS_AddElement
<1>7. Cardinality(R) <= Cardinality(AtLeast(s, j))
  BY <1>3, BeforeFinite, FS_Subset
<1>8. Len(s) - Place(s, j) + 1 \in Nat
  BY <1>4, BeforeFinite
<1> QED
  BY <1>6, <1>7, <1>8

\* The first of the values equal to that of j.
LEMMA FirstTie ==
    ASSUME NEW s \in Seq(Int), NEW j \in DOMAIN s
    PROVE  \E a \in DOMAIN s : /\ s[a] = s[j]
                               /\ Len(s) - Place(s, a) + 1 = Cardinality(AtLeast(s, j))
                               /\ \A i \in DOMAIN s : s[j] <= s[i] => Place(s, a) <= Place(s, i)
<1> DEFINE E == Ties(s, j)
           id == [x \in E |-> x]
<1>1. \A k \in DOMAIN s : k \in Nat /\ s[k] \in Int
  BY Indices
<1>2. j \in E /\ E \in SUBSET (DOMAIN s)
  BY DEF Ties
<1>3. IsFiniteSet(E)
  BY <1>2, Indices, FS_Subset
<1>4. \A x \in E : id[x] = x /\ id[x] \in Int
  BY <1>1, <1>2
<1> HIDE DEF id
<1>5. PICK a \in E : \A x \in E : id[a] <= id[x]
  BY <1>2, <1>3, <1>4, Extremes
<1>6. a \in DOMAIN s /\ s[a] = s[j] /\ \A x \in DOMAIN s : s[x] = s[j] => a <= x
  BY <1>4, <1>5 DEF Ties
<1>7. \A i \in DOMAIN s : s[j] <= s[i] => Before(s, a) \in SUBSET Before(s, i)
  BY <1>1, <1>6 DEF Before
<1>8. \A i \in DOMAIN s : s[j] <= s[i] => Place(s, a) <= Place(s, i)
  BY <1>6, <1>7, BeforeFinite, FS_Subset
<1> DEFINE R == DOMAIN s \ Before(s, a)
<1>9. R \cup {a} = AtLeast(s, j) /\ a \notin R
  <2>1. \A k \in DOMAIN s : k \in Before(s, a) <=> (s[k] < s[j] \/ k = a)
    BY <1>1, <1>6 DEF Before
  <2>2. \A k \in DOMAIN s : k \in AtLeast(s, j) <=> ~ (s[k] < s[j])
    BY <1>1 DEF AtLeast
  <2>3. a \in AtLeast(s, j) /\ a \in Before(s, a)
    BY <1>1, <1>6 DEF AtLeast, Before
  <2> QED
    BY <2>1, <2>2, <2>3, BeforeFinite
<1>10. Cardinality(R) = Len(s) - Place(s, a) /\ IsFiniteSet(R)
  <2>1. DOMAIN s \cap Before(s, a) = Before(s, a) /\ Cardinality(DOMAIN s) = Len(s) /\ IsFiniteSet(DOMAIN s)
    BY <1>6, BeforeFinite, Indices
  <2>2. Cardinality(DOMAIN s \ Before(s, a)) = Cardinality(DOMAIN s) - Cardinality(DOMAIN s \cap Before(s, a))
    BY <2>1, FS_Difference
  <2> QED
    BY <1>6, <2>1, <2>2, BeforeFinite, FS_Difference
<1> HIDE DEF R
<1>11. Cardinality(AtLeast(s, j)) = Len(s) - Place(s, a) + 1
  BY <1>9, <1>10, FS_AddElement
<1> QED
  BY <1>6, <1>8, <1>11

\* What the place j in the sorted order is multiplied with.
Factor(ps, j) == Len(ps) - Place(ps, j) + 1

\* The indices whose turn has come when that of i comes.
Soon(ps, i) == {j \in DOMAIN ps : Place(ps, j) <= Place(ps, i)}

\* The products of holm are numbers, and at most those of the step-down procedure.
LEMMA FactorNat ==
    ASSUME NEW ps \in Seq(Nat), NEW j \in DOMAIN ps
    PROVE  /\ ps \in Seq(Int) /\ ps[j] \in Nat /\ Factor(ps, j) \in Nat /\ Factor(ps, j) * ps[j] \in Nat
           /\ Factor(ps, j) <= Cardinality(AtLeast(ps, j)) /\ Cardinality(AtLeast(ps, j)) \in Nat
           /\ Cardinality(AtLeast(ps, j)) * ps[j] \in Nat
           /\ Factor(ps, j) * ps[j] <= Cardinality(AtLeast(ps, j)) * ps[j]
<1>1. ps \in Seq(Int) /\ ps[j] \in Nat
  BY SeqMonotonic
<1>2. Factor(ps, j) \in Nat /\ Factor(ps, j) <= Cardinality(AtLeast(ps, j)) /\ Cardinality(AtLeast(ps, j)) \in Nat
  BY <1>1, FactorBelow, BeforeFinite DEF Factor
<1>3. \A m, n, p \in Nat : m <= n => m * p \in Nat /\ n * p \in Nat /\ m * p <= n * p
  OBVIOUS
<1> QED
  BY <1>1, <1>2, <1>3

\* A capped p-value is at most 1.
LEMMA CappedRange == ASSUME NEW p \in Nat PROVE Capped(p) \in 0 .. One
  BY OneAssumption DEF Capped

\* Products grow with their factors.
LEMMA ProductGrows ==
    ASSUME NEW a \in Nat, NEW b \in Nat, NEW x \in Nat, NEW y \in Nat, a <= b, x <= y
    PROVE  a * x <= b * y /\ a * x \in Nat /\ b * y \in Nat
<1>1. a * x \in Nat /\ b * x \in Nat /\ b * y \in Nat
  OBVIOUS
<1>2. a * x <= b * x
  OBVIOUS
<1>3. b * x <= b * y
  OBVIOUS
<1> QED
  BY <1>1, <1>2, <1>3

\* The adjusted p-value is the largest capped product so far.
LEMMA HolmIs ==
    ASSUME NEW ps \in Seq(Nat), NEW i \in DOMAIN ps
    PROVE  /\ holm(ps)[i] \in 0 .. One
           /\ \A j \in Soon(ps, i) : Capped(Factor(ps, j) * ps[j]) <= holm(ps)[i]
           /\ holm(ps)[i] = 0 \/ \E j \in Soon(ps, i) : holm(ps)[i] = Capped(Factor(ps, j) * ps[j])
<1> DEFINE J == Soon(ps, i)
           cap(j) == Capped(Factor(ps, j) * ps[j])
           C == {cap(j) : j \in J}
           S == {0} \cup C
<1>1. holm(ps)[i] = Max(S)
  BY DEF holm, Factor, Soon
<1>2. J \in SUBSET (DOMAIN ps) /\ IsFiniteSet(J)
  <2>1. J \in SUBSET (DOMAIN ps)
    BY DEF Soon
  <2>2. IsFiniteSet(DOMAIN ps)
    BY FactorNat, Indices
  <2> QED
    BY <2>1, <2>2, FS_Subset
<1>3. \A j \in J : cap(j) \in 0 .. One
  <2>1. \A j \in J : Factor(ps, j) * ps[j] \in Nat
    BY <1>2, FactorNat
  <2> HIDE DEF J
  <2> QED
    BY <2>1, CappedRange
<1>4. IsFiniteSet(C)
  <2>1. ASSUME NEW F, F = [j \in J |-> cap(j)] PROVE IsFiniteSet(C)
    <3>1. F \in Surjection(J, C)
      <4>1. F \in [J -> C] /\ \A y \in C : \E j \in J : F[j] = y
        BY <2>1
      <4> HIDE DEF J, C, cap
      <4> QED
        BY <4>1 DEF Surjection
    <3> HIDE DEF J, C, cap
    <3> QED
      BY <1>2, <3>1, FS_Surjection
  <2> QED
    BY <2>1
<1>5. IsFiniteSet(S) /\ S # {} /\ \A x \in S : x \in Int /\ x \in 0 .. One
  <2>1. IsFiniteSet(S)
    <3> HIDE DEF C
    <3>1. IsFiniteSet(C \cup {0})
      BY <1>4, FS_AddElement
    <3>2. C \cup {0} = S
      OBVIOUS
    <3> QED
      BY <3>1, <3>2
  <2> QED
    BY <2>1, <1>3, OneAssumption
<1>6. \A j \in J : cap(j) \in S
  OBVIOUS
<1>7. \A x \in S : x = 0 \/ \E j \in J : x = cap(j)
  OBVIOUS
<1> HIDE DEF S, cap, J
<1>8. Max(S) \in S /\ \A x \in S : x <= Max(S)
  BY <1>5, MaxOf
<1>9. /\ Max(S) \in 0 .. One /\ (\A j \in J : cap(j) <= Max(S))
      /\ Max(S) = 0 \/ \E j \in J : Max(S) = cap(j)
  BY <1>5, <1>6, <1>7, <1>8
<1> QED
  BY <1>1, <1>9 DEF cap, J

\* A capped product is below a level of at most 1 iff the product is.
LEMMA CappedBelow ==
    ASSUME NEW p \in Nat, NEW alpha \in 1 .. One
    PROVE  Capped(p) < alpha <=> p < alpha
  BY OneAssumption DEF Capped

\* What the step-down procedure asks of index j.
Passes(ps, j, alpha) == Cardinality(AtLeast(ps, j)) * ps[j] < alpha

\* It is below a level iff every index with no larger p-value passes the level.
LEMMA HolmLevel ==
    ASSUME NEW ps \in Seq(Nat), NEW i \in DOMAIN ps, NEW alpha \in 1 .. One
    PROVE  holm(ps)[i] < alpha <=> \A j \in DOMAIN ps : ps[j] <= ps[i] => Passes(ps, j, alpha)
<1> DEFINE prod(j) == Factor(ps, j) * ps[j]
<1>1. ps \in Seq(Int) /\ \A j \in DOMAIN ps : ps[j] \in Nat /\ prod(j) \in Nat
  BY FactorNat
<1>2. holm(ps)[i] < alpha <=> \A j \in Soon(ps, i) : prod(j) < alpha
  <2>1. \A j \in Soon(ps, i) : j \in DOMAIN ps
    BY DEF Soon
  <2>2. \A j \in Soon(ps, i) : Capped(prod(j)) \in 0 .. One
    BY <1>1, <2>1, OneAssumption DEF Capped
  <2>3. \A j \in Soon(ps, i) : (Capped(prod(j)) < alpha <=> prod(j) < alpha)
    BY <1>1, <2>1, CappedBelow
  <2>4. /\ holm(ps)[i] \in 0 .. One
        /\ \A j \in Soon(ps, i) : Capped(prod(j)) <= holm(ps)[i]
        /\ holm(ps)[i] = 0 \/ \E j \in Soon(ps, i) : holm(ps)[i] = Capped(prod(j))
    BY HolmIs
  <2> HIDE DEF prod
  <2>5. holm(ps)[i] < alpha <=> \A j \in Soon(ps, i) : Capped(prod(j)) < alpha
    BY <2>2, <2>4, OneAssumption
  <2> QED
    BY <2>3, <2>5
<1>3. ASSUME \A j \in DOMAIN ps : ps[j] <= ps[i] => Passes(ps, j, alpha), NEW j \in Soon(ps, i)
      PROVE  prod(j) < alpha
  <2>1. j \in DOMAIN ps /\ ps[j] <= ps[i]
    BY <1>1, <1>3, PlaceOrders DEF Soon
  <2>2. Cardinality(AtLeast(ps, j)) * ps[j] < alpha
    BY <1>3, <2>1 DEF Passes
  <2>3. prod(j) <= Cardinality(AtLeast(ps, j)) * ps[j] /\ Cardinality(AtLeast(ps, j)) * ps[j] \in Nat /\ prod(j) \in Nat
    BY <2>1, FactorNat
  <2> HIDE DEF prod
  <2> QED
    BY <2>2, <2>3
<1>4. ASSUME \A j \in Soon(ps, i) : prod(j) < alpha, NEW j \in DOMAIN ps, ps[j] <= ps[i]
      PROVE  Passes(ps, j, alpha)
  <2>1. PICK a \in DOMAIN ps : /\ ps[a] = ps[j]
                               /\ Len(ps) - Place(ps, a) + 1 = Cardinality(AtLeast(ps, j))
                               /\ \A k \in DOMAIN ps : ps[j] <= ps[k] => Place(ps, a) <= Place(ps, k)
    BY <1>1, FirstTie
  <2>2. a \in Soon(ps, i)
    BY <1>4, <2>1 DEF Soon
  <2>3. prod(a) < alpha
    BY <1>4, <2>2
  <2>4. prod(a) = Cardinality(AtLeast(ps, j)) * ps[j]
    BY <2>1 DEF Factor
  <2> QED
    BY <2>3, <2>4 DEF Passes
<1> HIDE DEF prod
<1> QED
  BY <1>2, <1>3, <1>4

\* A number that passes every level another one passes is no larger.
LEMMA ByLevels ==
    ASSUME NEW x \in 0 .. One, NEW y \in 0 .. One, \A alpha \in 1 .. One : y < alpha => x < alpha
    PROVE  x <= y
<1>1. SUFFICES ASSUME y < x PROVE FALSE
  BY OneAssumption
<1>2. y + 1 \in 1 .. One /\ y < y + 1
  BY <1>1, OneAssumption
<1>3. x < y + 1
  BY <1>2
<1> QED
  BY <1>1, <1>3

\* holm rejects exactly what the step-down procedure rejects, at every level, and ranks equal p-values
\* equally: for any number of p-values.
THEOREM HolmIsRight == \A ps \in Seq(Nat) : HolmStepsDown(ps)
<1> SUFFICES ASSUME NEW ps \in Seq(Nat) PROVE HolmStepsDown(ps)
  OBVIOUS
<1>1. ASSUME NEW i \in DOMAIN ps, NEW j \in DOMAIN ps, ps[i] <= ps[j]
      PROVE  holm(ps)[i] <= holm(ps)[j]
  <2>1. \A k \in DOMAIN ps : ps[k] \in Nat
    BY FactorNat
  <2>2. ASSUME NEW alpha \in 1 .. One, holm(ps)[j] < alpha PROVE holm(ps)[i] < alpha
    <3>1. \A k \in DOMAIN ps : ps[k] <= ps[j] => Passes(ps, k, alpha)
      BY <2>2, HolmLevel
    <3>2. \A k \in DOMAIN ps : ps[k] <= ps[i] => Passes(ps, k, alpha)
      BY <1>1, <2>1, <3>1
    <3> QED
      BY <3>2, HolmLevel
  <2>3. holm(ps)[i] \in 0 .. One /\ holm(ps)[j] \in 0 .. One
    BY HolmIs
  <2> QED
    BY <2>2, <2>3, ByLevels
<1>2. ASSUME NEW i \in DOMAIN ps, NEW alpha \in 1 .. One
      PROVE  holm(ps)[i] < alpha <=>
              \A j \in DOMAIN ps : ps[j] <= ps[i] =>
                  Cardinality({k \in DOMAIN ps : ps[k] >= ps[j]}) * ps[j] < alpha
  BY HolmLevel DEF Passes, AtLeast
<1> QED
  BY <1>1, <1>2 DEF HolmStepsDown

\* Larger p-values, larger adjusted ones.
LEMMA HolmGrows ==
    ASSUME NEW ps \in Seq(Nat), NEW qs \in Seq(Nat), Len(ps) = Len(qs),
           \A k \in DOMAIN ps : ps[k] <= qs[k], NEW i \in DOMAIN ps
    PROVE  holm(ps)[i] <= holm(qs)[i]
<1>1. /\ DOMAIN qs = DOMAIN ps /\ IsFiniteSet(DOMAIN ps) /\ \A k \in DOMAIN ps : ps[k] \in Nat /\ qs[k] \in Nat
  <2>1. ps \in Seq(Int) /\ qs \in Seq(Int)
    BY SeqMonotonic
  <2> QED
    BY <2>1, Indices
<1>2. ASSUME NEW alpha \in 1 .. One, holm(qs)[i] < alpha PROVE holm(ps)[i] < alpha
  <2>1. \A k \in DOMAIN qs : qs[k] <= qs[i] => Passes(qs, k, alpha)
    BY <1>1, <1>2, HolmLevel
  <2>2. ASSUME NEW j \in DOMAIN ps, ps[j] <= ps[i] PROVE Passes(ps, j, alpha)
    <3> DEFINE K == AtLeast(ps, j)
    <3>1. K \in SUBSET (DOMAIN ps) /\ i \in K
      BY <1>1, <2>2 DEF AtLeast
    <3>2. IsFiniteSet(K) /\ \A k \in K : qs[k] \in Int
      BY <1>1, <3>1, FS_Subset
    <3> HIDE DEF K
    <3>3. PICK m \in K : \A k \in K : qs[m] <= qs[k]
      BY <3>1, <3>2, Extremes
    <3>4. m \in DOMAIN ps /\ qs[m] <= qs[i] /\ ps[j] <= qs[m]
      <4>1. ps[m] >= ps[j] /\ m \in DOMAIN ps
        BY <3>3 DEF K, AtLeast
      <4>2. ps[m] <= qs[m] /\ ps[m] \in Nat /\ qs[m] \in Nat /\ ps[j] \in Nat
        BY <1>1, <4>1
      <4> QED
        BY <3>1, <3>3, <4>1, <4>2
    <3>5. Cardinality(AtLeast(qs, m)) * qs[m] < alpha
      BY <1>1, <2>1, <3>4 DEF Passes
    <3>6. K \in SUBSET AtLeast(qs, m)
      BY <1>1, <3>1, <3>2, <3>3, <3>4 DEF AtLeast
    <3>7. IsFiniteSet(AtLeast(qs, m)) /\ Cardinality(AtLeast(qs, m)) \in Nat
      <4>1. qs \in Seq(Int) /\ m \in DOMAIN qs
        BY <1>1, <3>4, SeqMonotonic
      <4> QED
        BY <4>1, BeforeFinite
    <3>8. Cardinality(K) <= Cardinality(AtLeast(qs, m)) /\ Cardinality(K) \in Nat
      BY <3>2, <3>6, <3>7, FS_Subset, FS_CardinalityType
    <3>9. Cardinality(K) * ps[j] <= Cardinality(AtLeast(qs, m)) * qs[m] /\ Cardinality(K) * ps[j] \in Nat
          /\ Cardinality(AtLeast(qs, m)) * qs[m] \in Nat
      <4>1. qs[m] \in Nat /\ ps[j] \in Nat
        BY <1>1, <3>4
      <4> QED
        BY <4>1, <3>4, <3>7, <3>8, ProductGrows
    <3>10. Cardinality(K) * ps[j] < alpha
      BY <3>5, <3>9
    <3> QED
      BY <3>10 DEF Passes, K
  <2> QED
    BY <2>2, HolmLevel
<1>3. holm(ps)[i] \in 0 .. One /\ holm(qs)[i] \in 0 .. One
  BY <1>1, HolmIs
<1> QED
  BY <1>2, <1>3, ByLevels

------------------------------------------------------------------------------
(* The two-proportion z-test.                                                *)

\* The factor by which the squared distance grows outweighs that of the variance.
LEMMA SquareOutgrows ==
    ASSUME NEW X \in Nat, NEW d \in Nat, NEW S \in Nat, NEW F \in Nat, X <= d * F
    PROVE  X * X * ((S - 1) * (F + 1)) <= (X + d) * (X + d) * (S * F)
<1>1. PICK q \in Nat : q = X * X
  OBVIOUS
<1>2. PICK sf \in Nat : sf = S * F
  OBVIOUS
<1>3. PICK w \in Nat : w = d * F
  OBVIOUS
<1>4. (S - 1) * (F + 1) = sf + S - F - 1
  BY <1>2
<1>5. PICK e \in Nat : e = X * d
  OBVIOUS
<1>6. (X + d) * (X + d) = q + 2 * e + d * d
  <2>1. (X + d) * (X + d) = X * X + X * d + d * X + d * d
    OBVIOUS
  <2>2. d * X = X * d
    OBVIOUS
  <2> QED
    BY <2>1, <2>2, <1>1, <1>5
<1>7. d * d \in Nat
  OBVIOUS
<1>8. PICK g \in Nat : g = d * d
  BY <1>7
\* q * S <= X * w * S = e * sf
<1>9. q * S <= e * sf /\ q * S \in Nat /\ e * sf \in Nat
  <2>1. X * X <= X * w
    BY <1>3
  <2>2. X * w \in Nat
    OBVIOUS
  <2>3. (X * X) * S <= (X * w) * S
    <3>1. PICK y \in Nat : y = X * w
      BY <2>2
    <3>2. q <= y
      BY <1>1, <2>1, <3>1
    <3>3. q * S <= y * S
      BY <3>2
    <3> QED
      BY <3>1, <3>3, <1>1
  <2>4. (X * w) * S = e * sf
    BY <1>2, <1>3, <1>5
  <2> QED
    BY <1>1, <2>3, <2>4
<1>10. q * (sf + S - F - 1) = q * sf + q * S - q * F - q
  OBVIOUS
<1>11. (q + 2 * e + g) * sf = q * sf + 2 * (e * sf) + g * sf
  OBVIOUS
<1>12. q * sf \in Nat /\ q * F \in Nat /\ g * sf \in Nat
  OBVIOUS
<1>13. q * sf + q * S - q * F - q <= q * sf + 2 * (e * sf) + g * sf
  <2>1. PICK x1 \in Nat : x1 = q * sf
    BY <1>12
  <2>2. PICK x2 \in Nat : x2 = q * S
    BY <1>9
  <2>3. PICK x3 \in Nat : x3 = q * F
    BY <1>12
  <2>4. PICK x4 \in Nat : x4 = e * sf
    BY <1>9
  <2>5. PICK x5 \in Nat : x5 = g * sf
    BY <1>12
  <2>6. x1 + x2 - x3 - q <= x1 + 2 * x4 + x5
    BY <1>9, <2>2, <2>4
  <2> QED
    BY <2>1, <2>2, <2>3, <2>4, <2>5, <2>6
<1> QED
  BY <1>1, <1>2, <1>4, <1>6, <1>8, <1>10, <1>11, <1>13

\* If the old distance beats the old variance and grows faster, the new one beats the new one.
LEMMA StaysAbove ==
    ASSUME NEW Q \in Nat, NEW V \in Nat, V > 0, NEW R \in Nat, NEW W \in Nat, W > 0, NEW k \in Nat, NEW l \in Nat,
           Q * k > l * V, Q * W <= R * V
    PROVE  R * k > l * W
<1>1. SUFFICES ASSUME R * k <= l * W PROVE FALSE
  OBVIOUS
<1>2. (Q * k) * W > (l * V) * W
  <2>1. PICK x \in Nat : x = Q * k
    OBVIOUS
  <2>2. PICK y \in Nat : y = l * V
    OBVIOUS
  <2>3. x * W > y * W
    BY <2>1, <2>2
  <2> QED
    BY <2>1, <2>2, <2>3
<1>3. (Q * W) * k <= (R * V) * k
  <2>1. PICK x \in Nat : x = Q * W
    OBVIOUS
  <2>2. PICK y \in Nat : y = R * V
    OBVIOUS
  <2>3. x * k <= y * k
    BY <2>1, <2>2
  <2> QED
    BY <2>1, <2>2, <2>3
<1>4. (R * k) * V <= (l * W) * V
  <2>1. PICK x \in Nat : x = R * k
    OBVIOUS
  <2>2. PICK y \in Nat : y = l * W
    OBVIOUS
  <2>3. x * V <= y * V
    BY <1>1, <2>1, <2>2
  <2> QED
    BY <2>1, <2>2, <2>3
<1>5. (Q * k) * W = (Q * W) * k /\ (R * V) * k = (R * k) * V /\ (l * W) * V = (l * V) * W
  OBVIOUS
<1>6. (Q * k) * W \in Int /\ (l * V) * W \in Int /\ (R * V) * k \in Int
  OBVIOUS
<1> QED
  BY <1>2, <1>3, <1>4, <1>5, <1>6

\* The verdict of h3_verdict is monotone in the violations, for groups of any size: with one treatment
\* action fewer violating, "supported" stands.
THEOREM VerdictIsRight ==
    ASSUME NEW a \in Nat, NEW b \in Nat, NEW c \in Nat, NEW d \in Nat, a <= b, c <= d
    PROVE  VerdictIsMonotone(a, b, c, d)
<1> DEFINE X == c * b - a * d
           S == a + c
           F == b + d - a - c
           N == b + d
<1>1. SUFFICES ASSUME Supported(a, b, c, d), a > 0 PROVE Supported(a - 1, b, c, d)
  BY DEF VerdictIsMonotone
<1>2. b > 0 /\ d > 0 /\ a * d < c * b
  BY <1>1 DEF Supported, Defined, BelowAlpha
<1>3. PICK cb \in Nat : cb = c * b
  OBVIOUS
<1>4. PICK ad \in Nat : ad = a * d
  OBVIOUS
<1>5. (a - 1) * d = ad - d
  BY <1>4
<1>6. X = cb - ad /\ X \in Nat /\ X > 0 /\ c * b - (a - 1) * d = X + d
  BY <1>2, <1>3, <1>4, <1>5
<1>7. c >= 1
  <2>1. c # 0
    <3>1. ASSUME c = 0 PROVE FALSE
      <4>1. cb = 0
        BY <1>3, <3>1
      <4> QED
        BY <4>1, <1>2, <1>3, <1>4
    <3> QED
      BY <3>1
  <2> QED
    BY <2>1
<1>8. S \in Nat /\ F \in Nat /\ S - 1 \in Nat /\ S - 1 > 0 /\ F + 1 > 0 /\ a - 1 + c = S - 1 /\ b + d - (a - 1) - c = F + 1
      /\ N \in Nat /\ a - 1 \in Nat
  BY <1>1, <1>7
<1>9. RateLower(a - 1, b, c, d) /\ (a - 1) * d < c * b
  <2>1. (a - 1) * d < c * b
    BY <1>2, <1>3, <1>4, <1>5
  <2> QED
    BY <1>2, <2>1 DEF RateLower
<1>10. Defined(a - 1, b, c, d)
  <2>1. (S - 1) * (F + 1) > 0
    <3>1. \A m, n \in Nat : m > 0 /\ n > 0 => m * n > 0
      OBVIOUS
    <3> HIDE DEF S, F
    <3>2. F + 1 \in Nat
      BY <1>8
    <3> QED
      BY <1>8, <3>1, <3>2
  <2>2. b + d - (a - 1) - c = F + 1
    BY <1>8
  <2> HIDE DEF S, F
  <2> QED
    BY <1>2, <1>8, <2>1, <2>2 DEF Defined
\* The distance is at most d * F: d * F - X = (d - c) * (b + d).
<1>11. X <= d * F
  <2>1. d * F = d * b + d * d - d * a - d * c
    OBVIOUS
  <2>2. (d - c) * (b + d) = d * b + d * d - c * b - c * d
    OBVIOUS
  <2>3. (d - c) * (b + d) >= 0
    <3>1. d - c \in Nat /\ b + d \in Nat
      OBVIOUS
    <3>2. \A m, n \in Nat : m * n >= 0
      OBVIOUS
    <3> QED
      BY <3>1, <3>2
  <2>4. d * a = ad /\ d * c = c * d /\ c * d \in Nat /\ d * b \in Nat /\ d * d \in Nat
    BY <1>4
  <2>5. PICK cd \in Nat : cd = c * d
    BY <2>4
  <2>6. PICK db \in Nat : db = d * b
    BY <2>4
  <2>7. PICK dd \in Nat : dd = d * d
    BY <2>4
  <2>8. d * F = db + dd - ad - cd
    BY <2>1, <2>4, <2>5, <2>6, <2>7
  <2>9. db + dd - cb - cd >= 0
    BY <2>2, <2>3, <2>5, <2>6, <2>7, <1>3
  <2> HIDE DEF X, F
  <2> QED
    BY <1>6, <2>8, <2>9
<1> DEFINE Q == X * X
           V == S * F
           R == (X + d) * (X + d)
           W == (S - 1) * (F + 1)
           k == N * 10000
           l == 27055 * b * d
<1>12. Q * W <= R * V
  <2> HIDE DEF X, S, F
  <2> QED
    BY <1>6, <1>8, <1>11, SquareOutgrows
<1>13. Q * k > l * V
  <2>1. X * X * (b + d) * 10000 > 27055 * (a + c) * (b + d - a - c) * b * d
    BY <1>1 DEF Supported, BelowAlpha
  <2>2. X * X * N * 10000 > 27055 * S * F * b * d
    BY <2>1
  <2>3. X * X * N * 10000 = Q * k
    <3> HIDE DEF X, N
    <3> QED
      BY <1>6, <1>8
  <2>4. 27055 * S * F * b * d = l * V
    <3> HIDE DEF S, F
    <3> QED
      BY <1>8
  <2> QED
    BY <2>2, <2>3, <2>4
<1>14. V > 0
  <2>1. (a + c) * (b + d - a - c) > 0
    BY <1>1 DEF Supported, Defined
  <2> QED
    BY <2>1
<1>15. W > 0
  <2>1. \A m, n \in Nat : m > 0 /\ n > 0 => m * n > 0
    OBVIOUS
  <2> HIDE DEF S, F
  <2>2. F + 1 \in Nat
    BY <1>8
  <2> QED
    BY <1>8, <2>1, <2>2
<1>16. Q \in Nat /\ V \in Nat /\ R \in Nat /\ W \in Nat /\ k \in Nat /\ l \in Nat
  <2>1. \A m, n \in Nat : m * n \in Nat
    OBVIOUS
  <2> HIDE DEF X, S, F, N
  <2>2. F + 1 \in Nat /\ X + d \in Nat
    BY <1>6, <1>8
  <2> QED
    BY <1>6, <1>8, <2>1, <2>2
<1>17. R * k > l * W
  <2> HIDE DEF Q, V, R, W, k, l
  <2> QED
    BY <1>12, <1>13, <1>14, <1>15, <1>16, StaysAbove
<1>18. BelowAlpha(a - 1, b, c, d)
  <2>1. R * k = (X + d) * (X + d) * N * 10000
    <3> HIDE DEF X, N
    <3> QED
      BY <1>6, <1>8
  <2>2. l * W = 27055 * (S - 1) * (F + 1) * b * d
    <3> HIDE DEF S, F
    <3> QED
      BY <1>8
  <2>3. (X + d) * (X + d) * N * 10000 > 27055 * (S - 1) * (F + 1) * b * d
    BY <1>17, <2>1, <2>2
  <2>4. (X + d) = c * b - (a - 1) * d /\ N = b + d /\ S - 1 = a - 1 + c /\ F + 1 = b + d - (a - 1) - c
    BY <1>6, <1>8
  <2> HIDE DEF X, N, S, F
  <2> QED
    BY <1>9, <2>3, <2>4 DEF BelowAlpha
<1> QED
  BY <1>9, <1>10, <1>18 DEF Supported

------------------------------------------------------------------------------
(* Matched recall.                                                           *)

\* A labelled node with its score.
Node == [y : {0, 1}, score : Nat]

\* The positive nodes at or above a threshold.
Caught(nodes, t) == Flagged(nodes, t) \cap Positives(nodes)

\* The sets of nodes that are counted are finite, and scores are numbers.
LEMMA NodeSets ==
    ASSUME NEW nodes \in Seq(Node)
    PROVE  /\ IsFiniteSet(Positives(nodes)) /\ \A i \in Positives(nodes) : i \in DOMAIN nodes /\ nodes[i].score \in Nat
           /\ \A i \in DOMAIN nodes : nodes[i].score \in Nat
           /\ \A t : /\ IsFiniteSet(Caught(nodes, t)) /\ TruePositives(nodes, t) = Cardinality(Caught(nodes, t))
                     /\ IsFiniteSet(Flagged(nodes, t) \ Positives(nodes))
           /\ \A t : TruePositives(nodes, t) \in Nat /\ FalsePositives(nodes, t) \in Nat
<1>1. \A i \in DOMAIN nodes : nodes[i].score \in Nat
  <2>1. ASSUME NEW i \in DOMAIN nodes PROVE nodes[i].score \in Nat
    <3>1. nodes[i] \in Node
      OBVIOUS
    <3> QED
      BY <3>1 DEF Node
  <2> QED
    BY <2>1
<1>2. IsFiniteSet(DOMAIN nodes)
  <2>1. DOMAIN nodes = 1 .. Len(nodes) /\ Len(nodes) \in Nat
    OBVIOUS
  <2> QED
    BY <2>1, FS_Interval
<1>3. Positives(nodes) \in SUBSET (DOMAIN nodes)
  BY DEF Positives
<1>4. ASSUME NEW t
      PROVE  Caught(nodes, t) \in SUBSET (DOMAIN nodes) /\ Flagged(nodes, t) \ Positives(nodes) \in SUBSET (DOMAIN nodes)
  BY DEF Caught, Flagged
<1>5. \A t : IsFiniteSet(Caught(nodes, t)) /\ IsFiniteSet(Flagged(nodes, t) \ Positives(nodes))
  BY <1>2, <1>4, FS_Subset
<1>6. \A t : /\ TruePositives(nodes, t) = Cardinality(Caught(nodes, t))
             /\ FalsePositives(nodes, t) = Cardinality(Flagged(nodes, t) \ Positives(nodes))
  BY DEF TruePositives, FalsePositives, Caught
<1>7. \A t : TruePositives(nodes, t) \in Nat /\ FalsePositives(nodes, t) \in Nat
  BY <1>5, <1>6, FS_CardinalityType
<1> QED
  BY <1>1, <1>2, <1>3, <1>5, <1>6, <1>7, FS_Subset

\* A lower threshold flags no fewer nodes.
LEMMA FlagsFewer ==
    ASSUME NEW nodes \in Seq(Node), NEW t \in Nat, NEW u \in Nat, t <= u
    PROVE  /\ TruePositives(nodes, u) <= TruePositives(nodes, t)
           /\ FalsePositives(nodes, u) <= FalsePositives(nodes, t)
<1>1. Caught(nodes, u) \in SUBSET Caught(nodes, t)
      /\ Flagged(nodes, u) \ Positives(nodes) \in SUBSET (Flagged(nodes, t) \ Positives(nodes))
  BY NodeSets DEF Caught, Flagged
<1>2. IsFiniteSet(Caught(nodes, t)) /\ IsFiniteSet(Flagged(nodes, t) \ Positives(nodes))
  BY NodeSets
<1>3. Cardinality(Caught(nodes, u)) <= Cardinality(Caught(nodes, t))
  BY <1>1, <1>2, FS_Subset
<1>4. Cardinality(Flagged(nodes, u) \ Positives(nodes)) <= Cardinality(Flagged(nodes, t) \ Positives(nodes))
  BY <1>1, <1>2, FS_Subset
<1> QED
  BY <1>3, <1>4, NodeSets DEF FalsePositives

\* The scores among which the threshold is chosen.
ScoresOf(nodes) == {nodes[i].score : i \in Positives(nodes)}

\* A threshold that catches somebody can be raised to the score of a positive node.
LEMMA RaisedToScore ==
    ASSUME NEW nodes \in Seq(Node), NEW u \in Nat, TruePositives(nodes, u) >= 1
    PROVE  \E v \in ScoresOf(nodes) : v >= u /\ TruePositives(nodes, v) = TruePositives(nodes, u)
<1> DEFINE C == Caught(nodes, u)
           f == [i \in C |-> nodes[i].score]
<1>1. IsFiniteSet(C) /\ Cardinality(C) >= 1 /\ C \in SUBSET Positives(nodes)
  BY NodeSets DEF Caught
<1>2. C # {}
  BY <1>1, FS_EmptySet
<1>3. \A i \in C : f[i] = nodes[i].score /\ f[i] \in Int /\ nodes[i].score \in Nat /\ nodes[i].score >= u /\ i \in Positives(nodes)
  BY NodeSets DEF Caught, Flagged
<1> HIDE DEF C, f
<1>4. PICK m \in C : \A x \in C : f[m] <= f[x]
  BY <1>1, <1>2, <1>3, Extremes
<1> DEFINE v == nodes[m].score
<1>5. v \in ScoresOf(nodes) /\ v \in Nat /\ v >= u
  BY <1>3 DEF ScoresOf
<1>6. \A i \in DOMAIN nodes : i \in Caught(nodes, v) <=> i \in C
  <2>1. ASSUME NEW i \in C PROVE i \in Caught(nodes, v)
    BY <1>3, <1>4, <2>1 DEF Caught, Flagged, C
  <2>2. ASSUME NEW i \in Caught(nodes, v) PROVE i \in C
    <3>1. i \in DOMAIN nodes /\ nodes[i].score >= v /\ i \in Positives(nodes) /\ nodes[i].score \in Nat
      BY <2>2, NodeSets DEF Caught, Flagged
    <3>2. nodes[i].score >= u
      BY <1>5, <3>1
    <3> QED
      BY <3>1, <3>2 DEF C, Caught, Flagged
  <2> QED
    BY <2>1, <2>2
<1>7. Caught(nodes, v) = C
  BY <1>6 DEF C, Caught, Flagged
<1>8. TruePositives(nodes, v) = TruePositives(nodes, u)
  BY <1>7, NodeSets DEF C
<1> QED
  BY <1>5, <1>8

\* What threshold_for_recall chooses, where the wanted number can be reached at all.
LEMMA ThresholdIs ==
    ASSUME NEW nodes \in Seq(Node), NEW c \in Nat, c >= 1, c <= Cardinality(Positives(nodes))
    PROVE  LET t == threshold_for_recall(nodes, c)
           IN t \in Nat /\ TruePositives(nodes, t) >= c
              /\ \A u \in Nat : u > t => TruePositives(nodes, u) < c
<1> DEFINE S == ScoresOf(nodes)
           G == {t \in S : TruePositives(nodes, t) >= c}
           Right(t) == TruePositives(nodes, t) >= c /\ \A u \in S : u > t => TruePositives(nodes, u) < c
           t == threshold_for_recall(nodes, c)
<1>1. \A x \in S : x \in Nat
  BY NodeSets DEF ScoresOf
<1>2. IsFiniteSet(S)
  <2> DEFINE f == [i \in Positives(nodes) |-> nodes[i].score]
  <2>1. f \in [Positives(nodes) -> S] /\ \A y \in S : \E i \in Positives(nodes) : f[i] = y
    BY DEF ScoresOf
  <2> HIDE DEF f, S
  <2>2. f \in Surjection(Positives(nodes), S)
    BY <2>1 DEF Surjection
  <2> QED
    BY <2>2, NodeSets, FS_Surjection
<1>3. G # {}
  <2>1. Caught(nodes, 0) = Positives(nodes)
    BY NodeSets DEF Caught, Flagged
  <2>2. TruePositives(nodes, 0) = Cardinality(Positives(nodes))
    BY <2>1, NodeSets
  <2>3. TruePositives(nodes, 0) >= 1 /\ TruePositives(nodes, 0) >= c /\ TruePositives(nodes, 0) \in Nat
    BY <2>2, NodeSets
  <2>4. PICK v \in S : TruePositives(nodes, v) = TruePositives(nodes, 0)
    BY <2>3, RaisedToScore
  <2> QED
    BY <2>3, <2>4
<1>4. \E x \in S : Right(x)
  <2> DEFINE id == [x \in G |-> x]
  <2>1. IsFiniteSet(G) /\ \A x \in G : id[x] \in Int /\ id[x] = x
    BY <1>1, <1>2, FS_Subset
  <2> HIDE DEF id, G
  <2>2. PICK m \in G : \A x \in G : id[x] <= id[m]
    BY <1>3, <2>1, Extremes
  <2>3. m \in S /\ TruePositives(nodes, m) >= c
    BY DEF G
  <2>4. ASSUME NEW u \in S, u > m PROVE TruePositives(nodes, u) < c
    <3>1. u \notin G
      <4>1. ASSUME u \in G PROVE FALSE
        <5>1. u <= m
          BY <2>1, <2>2, <4>1
        <5> QED
          BY <1>1, <2>3, <2>4, <5>1
      <4> QED
        BY <4>1
    <3>2. TruePositives(nodes, u) \in Nat
      BY NodeSets
    <3> QED
      BY <3>1, <3>2 DEF G
  <2> QED
    BY <2>3, <2>4
<1>5. t = CHOOSE x \in S : Right(x)
  <2>1. ~ (c < 1)
    OBVIOUS
  <2> QED
    BY <2>1 DEF threshold_for_recall, ScoresOf
<1>6. t \in S /\ Right(t)
  <2> HIDE DEF S, Right, t
  <2> QED
    BY <1>4, <1>5
<1>7. t \in Nat /\ TruePositives(nodes, t) >= c
  BY <1>1, <1>6
<1>8. ASSUME NEW u \in Nat, u > t PROVE TruePositives(nodes, u) < c
  <2> HIDE DEF t
  <2>1. SUFFICES ASSUME TruePositives(nodes, u) >= c PROVE FALSE
    BY NodeSets
  <2>2. TruePositives(nodes, u) \in Nat /\ TruePositives(nodes, u) >= 1
    BY <2>1, NodeSets
  <2>3. PICK v \in S : v >= u /\ TruePositives(nodes, v) = TruePositives(nodes, u)
    BY <2>2, RaisedToScore
  <2>4. v > t
    BY <1>1, <1>7, <1>8, <2>3
  <2>5. TruePositives(nodes, v) < c
    BY <1>6, <2>4
  <2> QED
    BY <2>1, <2>2, <2>3, <2>5
<1> HIDE DEF t
<1>9. t \in Nat /\ TruePositives(nodes, t) >= c /\ \A u \in Nat : u > t => TruePositives(nodes, u) < c
  BY <1>7, <1>8
<1> QED
  BY <1>9 DEF t

\* threshold_for_recall finds the largest threshold that reaches the recall, ties included, for any
\* number of nodes and any scores of nodes that carry the same labels; and matched with itself a model
\* keeps its recall and loses false positives at most.
THEOREM MatchingIsFair ==
    ASSUME NEW central \in Seq(Node), NEW val \in Seq(Node), Positives(central) = Positives(val)
    PROVE  MatchedFairly(central, val)
<1> DEFINE c == TruePositives(central, Half)
           t == threshold_for_recall(val, c)
           own == threshold_for_recall(central, c)
<1>1. SUFFICES ASSUME c > 0
               PROVE  /\ TruePositives(val, t) >= c
                      /\ \A u \in Thresholds(val) : u > t => TruePositives(val, u) < c
                      /\ TruePositives(central, own) = c
                      /\ FalsePositives(central, own) <= FalsePositives(central, Half)
                      /\ per_seed(central, val, val).matched.tp >= c
  BY DEF MatchedFairly
<1>2. Half \in Nat
  BY MatchedAssumption
<1>3. c \in Nat /\ c >= 1
  BY <1>1, NodeSets
<1>4. c <= Cardinality(Positives(central)) /\ c <= Cardinality(Positives(val))
  <2>1. Caught(central, Half) \in SUBSET Positives(central)
    BY DEF Caught
  <2>2. Cardinality(Caught(central, Half)) <= Cardinality(Positives(central))
    BY <2>1, NodeSets, FS_Subset
  <2> QED
    BY <2>2, NodeSets
<1>5. t \in Nat /\ TruePositives(val, t) >= c /\ \A u \in Nat : u > t => TruePositives(val, u) < c
  <2> HIDE DEF c
  <2> QED
    BY <1>3, <1>4, ThresholdIs
<1>6. own \in Nat /\ TruePositives(central, own) >= c /\ \A u \in Nat : u > own => TruePositives(central, u) < c
  <2> HIDE DEF c
  <2> QED
    BY <1>3, <1>4, ThresholdIs
<1>7. \A u \in Thresholds(val) : u \in Nat
  BY NodeSets DEF Thresholds
<1>8. own >= Half
  BY <1>2, <1>3, <1>6
<1>9. TruePositives(central, own) <= c /\ FalsePositives(central, own) <= FalsePositives(central, Half)
  BY <1>2, <1>6, <1>8, FlagsFewer
<1>10. TruePositives(central, own) = c
  <2>1. TruePositives(central, own) \in Nat
    BY NodeSets
  <2> HIDE DEF c, own
  <2> QED
    BY <1>3, <1>6, <1>9, <2>1
<1>11. per_seed(central, val, val).matched.tp = TruePositives(val, t)
  <2>1. c # 0
    BY <1>3
  <2> QED
    BY <2>1 DEF per_seed, operating_point
<1> QED
  BY <1>5, <1>7, <1>9, <1>10, <1>11

------------------------------------------------------------------------------
(* The finding over the levels.                                              *)

\* A level whose p-value is at most 1.
Level == [n : Nat, c : Nat, f : Nat, equal : BOOLEAN, p : 0 .. One]

\* The p-values that are adjusted.
PValues(levels) == [j \in DOMAIN levels |-> PValue(levels[j])]

\* They are at most 1.
LEMMA PValuesTyped ==
    ASSUME NEW levels \in Seq(Level)
    PROVE  /\ PValues(levels) \in Seq(Nat) /\ DOMAIN PValues(levels) = DOMAIN levels
           /\ Len(PValues(levels)) = Len(levels)
           /\ \A j \in DOMAIN levels : PValues(levels)[j] = PValue(levels[j]) /\ PValue(levels[j]) \in 0 .. One
<1>1. ASSUME NEW j \in DOMAIN levels PROVE PValue(levels[j]) \in 0 .. One
  <2>1. levels[j] \in Level
    OBVIOUS
  <2>2. levels[j].p \in 0 .. One
    BY <2>1 DEF Level
  <2> QED
    BY <2>2, OneAssumption DEF PValue
<1>2. DOMAIN levels = 1 .. Len(levels) /\ Len(levels) \in Nat
  OBVIOUS
<1>3. PValues(levels) \in [1 .. Len(levels) -> Nat]
  BY <1>1, <1>2, OneAssumption DEF PValues
<1>4. PValues(levels) \in Seq(Nat)
  BY <1>2, <1>3, SeqDef
<1>5. DOMAIN PValues(levels) = DOMAIN levels /\ \A j \in DOMAIN levels : PValues(levels)[j] = PValue(levels[j])
  BY DEF PValues
<1>6. Len(PValues(levels)) = Len(levels)
  BY <1>2, <1>3, <1>4
<1> QED
  BY <1>1, <1>4, <1>5, <1>6

\* The criterion of a level, with its adjusted p-value.
LEMMA CriterionIs ==
    ASSUME NEW levels, NEW i
    PROVE  criterion_met(levels, i) <=>
              /\ levels[i].c > 0
              /\ 100 * (levels[i].c - levels[i].f) >= MinReduction * levels[i].c
              /\ holm(PValues(levels))[i] < Alpha
  BY DEF criterion_met, PValues

\* A level whose test says less: the others are as they were.
LEMMA Weakened ==
    ASSUME NEW levels \in Seq(Level), NEW i \in DOMAIN levels
    PROVE  LET weak == [levels EXCEPT ![i].p = One]
           IN /\ weak \in Seq(Level) /\ DOMAIN weak = DOMAIN levels /\ Len(weak) = Len(levels)
              /\ \A k \in DOMAIN levels : /\ weak[k].n = levels[k].n /\ weak[k].c = levels[k].c /\ weak[k].f = levels[k].f
                                          /\ PValue(levels[k]) <= PValue(weak[k])
<1> DEFINE weak == [levels EXCEPT ![i].p = One]
<1>1. DOMAIN levels = 1 .. Len(levels) /\ Len(levels) \in Nat /\ DOMAIN weak = DOMAIN levels
  OBVIOUS
<1>2. ASSUME NEW k \in DOMAIN levels
      PROVE  /\ weak[k] \in Level /\ weak[k].n = levels[k].n /\ weak[k].c = levels[k].c /\ weak[k].f = levels[k].f
             /\ PValue(levels[k]) <= PValue(weak[k])
  <2>1. levels[k] \in Level
    OBVIOUS
  <2>2. levels[k].p \in 0 .. One /\ levels[k].n \in Nat
    BY <2>1 DEF Level
  <2>3. CASE k = i
    <3>1. weak[k] = [levels[k] EXCEPT !.p = One]
      BY <2>3
    <3>2. weak[k] \in Level
      <4>1. One \in 0 .. One
        BY OneAssumption
      <4> HIDE DEF weak
      <4> QED
        BY <2>1, <3>1, <4>1 DEF Level
    <3>3. weak[k].n = levels[k].n /\ weak[k].c = levels[k].c /\ weak[k].f = levels[k].f
         /\ weak[k].equal = levels[k].equal /\ weak[k].p = One
      BY <2>1, <3>1 DEF Level
    <3> HIDE DEF weak
    <3>4. PValue(levels[k]) <= PValue(weak[k])
      BY <2>2, <3>3, OneAssumption DEF PValue
    <3> QED
      BY <3>2, <3>3, <3>4
  <2>4. CASE k # i
    <3>1. weak[k] = levels[k]
      BY <2>4
    <3> HIDE DEF weak
    <3>2. PValue(levels[k]) <= PValue(weak[k])
      BY <2>2, <3>1, OneAssumption DEF PValue
    <3> QED
      BY <2>1, <3>1, <3>2
  <2> QED
    BY <2>3, <2>4
<1>3. weak \in [1 .. Len(levels) -> Level]
  <2>1. weak = [k \in DOMAIN levels |-> weak[k]]
    OBVIOUS
  <2> HIDE DEF weak
  <2> QED
    BY <1>1, <1>2, <2>1
<1> HIDE DEF weak
<1>4. weak \in Seq(Level)
  BY <1>1, <1>3, SeqDef
<1>5. Len(weak) = Len(levels)
  BY <1>1, <1>3, <1>4
<1> QED
  BY <1>1, <1>2, <1>4, <1>5 DEF weak

\* A level that fails the criterion fails it with larger p-values.
LEMMA WeakerIsHarder ==
    ASSUME NEW levels \in Seq(Level), NEW weak \in Seq(Level), DOMAIN weak = DOMAIN levels, Len(weak) = Len(levels),
           \A k \in DOMAIN levels : /\ weak[k].n = levels[k].n /\ weak[k].c = levels[k].c /\ weak[k].f = levels[k].f
                                    /\ PValue(levels[k]) <= PValue(weak[k]),
           NEW seeds
    PROVE  Failures(levels, seeds) \in SUBSET Failures(weak, seeds)
<1>1. ASSUME NEW k \in DOMAIN levels, criterion_met(weak, k) PROVE criterion_met(levels, k)
  <2>1. /\ PValues(levels) \in Seq(Nat) /\ PValues(weak) \in Seq(Nat) /\ Len(PValues(levels)) = Len(PValues(weak))
        /\ k \in DOMAIN PValues(levels) /\ k \in DOMAIN PValues(weak)
        /\ \A j \in DOMAIN PValues(levels) : PValues(levels)[j] <= PValues(weak)[j]
    BY PValuesTyped
  <2>2. holm(PValues(levels))[k] <= holm(PValues(weak))[k]
    BY <2>1, HolmGrows
  <2>3. holm(PValues(levels))[k] \in 0 .. One /\ holm(PValues(weak))[k] \in 0 .. One
    BY <2>1, HolmIs
  <2>4. Alpha \in Nat
    BY MatchedAssumption
  <2>5. holm(PValues(levels))[k] < Alpha
    BY <1>1, <2>2, <2>3, <2>4, OneAssumption, CriterionIs
  <2> QED
    BY <1>1, <2>5, CriterionIs
<1> QED
  BY <1>1 DEF Failures

\* The finding of protocol_v2.py does not hang on one level: it stands if the test at a level says less,
\* for any number of levels whose p-values are at most one.
THEOREM FindingIsRight ==
    ASSUME NEW levels \in Seq(Level), NEW seeds
    PROVE  FindingIsMonotone(levels, seeds)
<1>0. MinFailures \in Nat
  BY MatchedAssumption
<1>1. \A ls \in Seq(Level) : IsFiniteSet(DOMAIN ls)
  <2>1. ASSUME NEW ls \in Seq(Level) PROVE IsFiniteSet(DOMAIN ls)
    <3>1. DOMAIN ls = 1 .. Len(ls) /\ Len(ls) \in Nat
      OBVIOUS
    <3> QED
      BY <3>1, FS_Interval
  <2> QED
    BY <2>1
<1>2. \A ls \in Seq(Level) : IsFiniteSet(Failures(ls, seeds)) /\ Cardinality(Failures(ls, seeds)) \in Nat
  <2>1. ASSUME NEW ls \in Seq(Level) PROVE IsFiniteSet(Failures(ls, seeds)) /\ Cardinality(Failures(ls, seeds)) \in Nat
    <3>1. Failures(ls, seeds) \in SUBSET (DOMAIN ls)
      BY DEF Failures
    <3> QED
      BY <1>1, <3>1, FS_Subset, FS_CardinalityType
  <2> QED
    BY <2>1
<1>3. ASSUME finding_b_supported(levels, seeds), NEW i \in DOMAIN levels
      PROVE  finding_b_supported([levels EXCEPT ![i].p = One], seeds)
  <2> DEFINE weak == [levels EXCEPT ![i].p = One]
  <2>1. /\ weak \in Seq(Level) /\ DOMAIN weak = DOMAIN levels /\ Len(weak) = Len(levels)
        /\ \A k \in DOMAIN levels : /\ weak[k].n = levels[k].n /\ weak[k].c = levels[k].c /\ weak[k].f = levels[k].f
                                    /\ PValue(levels[k]) <= PValue(weak[k])
    BY Weakened
  <2> HIDE DEF weak
  <2>2. Failures(levels, seeds) \in SUBSET Failures(weak, seeds)
    BY <2>1, WeakerIsHarder
  <2>3. Cardinality(Failures(levels, seeds)) <= Cardinality(Failures(weak, seeds))
    BY <1>2, <2>1, <2>2, FS_Subset
  <2>4. Cardinality(Failures(weak, seeds)) >= MinFailures
    BY <1>0, <1>2, <1>3, <2>1, <2>3 DEF finding_b_supported
  <2> QED
    BY <2>4 DEF finding_b_supported, weak
<1>4. ASSUME Cardinality({i \in DOMAIN levels : levels[i].n = seeds}) < MinFailures
      PROVE  ~ finding_b_supported(levels, seeds)
  <2> DEFINE A == {i \in DOMAIN levels : levels[i].n = seeds}
  <2>1. Failures(levels, seeds) \in SUBSET A /\ A \in SUBSET (DOMAIN levels)
    BY DEF Failures
  <2>2. Cardinality(A) < MinFailures
    BY <1>4
  <2> HIDE DEF A
  <2>3. IsFiniteSet(A)
    BY <1>1, <2>1, FS_Subset
  <2>4. Cardinality(Failures(levels, seeds)) <= Cardinality(A) /\ Cardinality(A) \in Nat
    BY <2>1, <2>3, FS_Subset, FS_CardinalityType
  <2>5. ~ (Cardinality(Failures(levels, seeds)) >= MinFailures)
    BY <1>0, <1>2, <2>2, <2>4
  <2> QED
    BY <2>5 DEF finding_b_supported
<1> QED
  BY <1>3, <1>4 DEF FindingIsMonotone

------------------------------------------------------------------------------
(* All inputs that are sampled.                                              *)

\* Three values are a list.
LEMMA ThreeListed ==
    ASSUME NEW S, NEW f \in [1 .. 3 -> S]
    PROVE  f \in Seq(S) /\ DOMAIN f = 1 .. 3
<1>1. 3 \in Nat
  OBVIOUS
<1> QED
  BY <1>1, SeqDef

\* The groups that are sampled are lists of numbers.
LEMMA GroupsListed == \A g \in Groups : g \in Seq(Int)
<1>1. ASSUME NEW n \in 1 .. 3, NEW g \in [1 .. n -> 0 .. 2] PROVE g \in Seq(Int)
  <2>1. n \in Nat /\ g \in [1 .. n -> Int]
    OBVIOUS
  <2> QED
    BY <2>1, SeqDef
<1> QED
  BY <1>1 DEF Groups

\* The rotations of a list are orders of it.
LEMMA Rotations ==
    ASSUME NEW s \in Seq(Int), NEW n, n = Len(s)
    PROVE  [k \in 1 .. n |-> [i \in 1 .. n |-> 1 + ((i + k) % n)]] \in Seq([DOMAIN s -> DOMAIN s])
<1>1. n \in Nat /\ DOMAIN s = 1 .. n
  BY Indices
<1>2. ASSUME NEW k \in 1 .. n, NEW i \in 1 .. n PROVE 1 + ((i + k) % n) \in 1 .. n
  <2>1. n > 0 /\ i + k \in Nat
    BY <1>1
  <2>2. (i + k) % n \in 0 .. n - 1
    BY <1>1, <2>1
  <2> QED
    BY <1>1, <2>2
<1>3. [k \in 1 .. n |-> [i \in 1 .. n |-> 1 + ((i + k) % n)]] \in [1 .. n -> [1 .. n -> 1 .. n]]
  BY <1>2
<1> QED
  BY <1>1, <1>3, SeqDef

\* The inputs that are sampled are what the theorems are about.
LEMMA SeedsTyped ==
    ASSUME NEW x \in Seeds
    PROVE  x.kind = "seed" /\ x.central \in Seq(Node) /\ x.val \in Seq(Node) /\ Positives(x.central) = Positives(x.val)
<1>1. PICK ys \in {<<1, 1, 0>>, <<1, 0, 0>>, <<1, 1, 1>>}, c \in Scores, m \in Scores :
         x = [kind |-> "seed", central |-> [i \in 1 .. 3 |-> [y |-> ys[i], score |-> c[i]]],
                               val     |-> [i \in 1 .. 3 |-> [y |-> ys[i], score |-> m[i]]]]
  BY DEF Seeds
<1>2. \A i \in 1 .. 3 : ys[i] \in {0, 1}
  <2>1. 1 .. 3 = {1, 2, 3}
    OBVIOUS
  <2> QED
    BY <2>1
<1>3. \A i \in 1 .. 3 : c[i] \in Nat /\ m[i] \in Nat
  BY MatchedAssumption DEF Scores
<1> DEFINE p == [i \in 1 .. 3 |-> [y |-> ys[i], score |-> c[i]]]
           q == [i \in 1 .. 3 |-> [y |-> ys[i], score |-> m[i]]]
<1>4. p \in [1 .. 3 -> Node] /\ q \in [1 .. 3 -> Node]
  BY <1>2, <1>3 DEF Node
<1>5. \A i \in 1 .. 3 : p[i].y = ys[i] /\ q[i].y = ys[i]
  OBVIOUS
<1>6. x.kind = "seed" /\ x.central = p /\ x.val = q
  BY <1>1
<1> HIDE DEF p, q
<1>7. p \in Seq(Node) /\ q \in Seq(Node) /\ DOMAIN p = 1 .. 3 /\ DOMAIN q = 1 .. 3
  BY <1>4, ThreeListed
<1>8. Positives(p) = Positives(q)
  BY <1>5, <1>7 DEF Positives
<1> QED
  BY <1>6, <1>7, <1>8

\* The levels that are sampled are levels.
LEMMA LevelsTyped == \A ls \in Levels : ls \in Seq(Level)
<1>1. {0, 1, One} \subseteq 0 .. One
  BY OneAssumption
<1>2. ASSUME NEW x \in LevelAt PROVE x \in Level
  BY <1>1 DEF Level, LevelAt
<1>3. ASSUME NEW ls \in Levels PROVE ls \in [1 .. 3 -> Level]
  BY <1>2 DEF Levels
<1> QED
  BY <1>3, ThreeListed

\* The kinds of samples.
GroupSamples == [kind : {"groups"}, treatment : Groups, control : Groups]
PvalueSamples == [kind : {"pvalues"}, ps : [1 .. 3 -> 0 .. One]]
CountSamples == [kind : {"counts"}, counts : Counts]
LevelSamples == [kind : {"levels"}, levels : Levels]

\* What is sampled, if anything.
SampleTyped == sample \in Samples \cup {NoSample}

\* The statistics agree on everything that is sampled.
LEMMA SampleHolds ==
    ASSUME SampleTyped
    PROVE  StatisticsAgree
<1>0. \/ sample \in GroupSamples \/ sample \in PvalueSamples \/ sample \in CountSamples
      \/ sample \in Seeds \/ sample \in LevelSamples \/ sample = NoSample
  BY DEF SampleTyped, Samples, GroupSamples, PvalueSamples, CountSamples, LevelSamples
<1>1. CASE sample \in GroupSamples
  <2> DEFINE t == sample.treatment
             c == sample.control
             n == Len(t \o c)
             r == [k \in 1 .. n |-> [i \in 1 .. n |-> 1 + ((i + k) % n)]]
  <2>1. sample.kind = "groups" /\ t \in Groups /\ c \in Groups
    BY <1>1 DEF GroupSamples
  <2>2. t \in Seq(Int) /\ c \in Seq(Int)
    BY <2>1, GroupsListed
  <2>3. RanksCountPairs(t, c)
    BY <2>2, RanksAreRight
  <2>4. r \in Seq([DOMAIN (t \o c) -> DOMAIN (t \o c)])
    BY <2>2, Pooled, Rotations
  <2> HIDE DEF t, c
  <2>5. PermutationIsSound(t, c, r)
    <3> HIDE DEF r
    <3> QED
      BY <2>2, <2>4, PermutationIsRight
  <2> QED
    BY <2>1, <2>3, <2>5 DEF StatisticsAgree, t, c
<1>2. CASE sample \in PvalueSamples
  <2>1. sample.kind = "pvalues" /\ sample.ps \in [1 .. 3 -> 0 .. One]
    BY <1>2 DEF PvalueSamples
  <2>2. sample.ps \in [1 .. 3 -> Nat]
    BY <2>1, OneAssumption
  <2>3. HolmStepsDown(sample.ps)
    BY <2>2, ThreeListed, HolmIsRight
  <2> QED
    BY <2>1, <2>3 DEF StatisticsAgree
<1>3. CASE sample \in CountSamples
  <2>1. sample.kind = "counts" /\ sample.counts \in Counts
    BY <1>3 DEF CountSamples
  <2> DEFINE a == sample.counts[1]
             b == sample.counts[2]
             c == sample.counts[3]
             d == sample.counts[4]
  <2>2. a \in Nat /\ b \in Nat /\ c \in Nat /\ d \in Nat /\ a <= b /\ c <= d
    BY <2>1 DEF Counts
  <2> HIDE DEF a, b, c, d
  <2>3. VerdictIsMonotone(a, b, c, d)
    BY <2>2, VerdictIsRight
  <2> QED
    BY <2>1, <2>3 DEF StatisticsAgree, a, b, c, d
<1>4. CASE sample \in Seeds
  <2>1. sample.kind = "seed" /\ MatchedFairly(sample.central, sample.val)
    BY <1>4, SeedsTyped, MatchingIsFair
  <2> QED
    BY <2>1 DEF StatisticsAgree
<1>5. CASE sample \in LevelSamples
  <2>1. sample.kind = "levels" /\ sample.levels \in Levels
    BY <1>5 DEF LevelSamples
  <2>2. FindingIsMonotone(sample.levels, 2)
    BY <2>1, LevelsTyped, FindingIsRight
  <2> QED
    BY <2>1, <2>2 DEF StatisticsAgree
<1>6. CASE sample = NoSample
  <2>1. sample.kind = "none"
    BY <1>6 DEF NoSample
  <2> QED
    BY <2>1 DEF StatisticsAgree
<1> QED
  BY <1>0, <1>1, <1>2, <1>3, <1>4, <1>5, <1>6

\* A sample is drawn once.
LEMMA SampleStays == MCSpec => []SampleTyped
<1>1. MCInit => SampleTyped
  BY DEF MCInit, SampleTyped
<1>2. SampleTyped /\ [MCNext]_mcVars => SampleTyped'
  BY DEF SampleTyped, MCNext, mcVars, Samples, NoSample
<1> QED
  BY <1>1, <1>2, PTL DEF MCSpec

\* What the reports conclude follows from what happened: no comparison of a trial points the wrong way,
\* at any moment and for any number of agents, and "supported" means that the agents, compared one by
\* one, point the same way (run_durable.main, run_comparison, analyze); and every test computes what
\* it is meant to on the inputs that are sampled (agent_level.py, stats.py, matched_recall.py).
THEOREM ReportsHold == MCSpec => []ReportsAreSound
<1>1. MCSpec => []IInv
  BY TrialRuns, Invariance, PTL
<1>2. IInv => ReportsFollow
  BY TrialReports DEF IInv
<1>3. SampleTyped => StatisticsAgree
  BY SampleHolds
<1>4. IInv /\ SampleTyped => ReportsAreSound
  BY <1>2, <1>3 DEF ReportsAreSound
<1> QED
  BY <1>1, <1>4, SampleStays, PTL
==============================================================================
