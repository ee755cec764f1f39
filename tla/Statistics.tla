------------------------------ MODULE Statistics ------------------------------
(***************************************************************************)
(* The tests H3 reports (h3-abt): the Mann-Whitney comparison of agents    *)
(* (agent_level.py), its permutation counterpart, the Holm adjustment      *)
(* (run_durable.py, run_learning.py) and the pre-registered two-proportion *)
(* z-test (stats.py), in integers: a rank and a U are doubled, a p-value   *)
(* is a multiple of 1 / One, and a comparison of z with the 5% quantile is *)
(* squared.                                                                *)
(***************************************************************************)
EXTENDS Integers, Sequences, FiniteSets, FiniteSetsExt, Functions

CONSTANT One   \* p = 1, in the units p-values are given in

ASSUME OneAssumption == One \in Nat \ {0}

Total(s) == SumFunctionOnSet(s, DOMAIN s)

Sign(n) == IF n > 0 THEN 1 ELSE IF n < 0 THEN -1 ELSE 0

\* sorted(): the place at which index i comes, by value and among equal values as they stand.
Place(s, i) == Cardinality({j \in DOMAIN s : s[j] < s[i] \/ (s[j] = s[i] /\ j <= i)})

------------------------------------------------------------------------------
(* mann_whitney_less                                                         *)

\* pool is the treatment followed by the control.  The inner while loop finds the run of values
\* equal to that of index i; all of them have the rank half way between its first and last place.
Ties(pool, i) == {j \in DOMAIN pool : pool[j] = pool[i]}

TwiceRank(pool, i) ==
    LET places == {Place(pool, j) : j \in Ties(pool, i)}
    IN Min(places) + Max(places)

\* A run of t adds t^3 - t; here each of its members adds t^2 - 1.
TieTerm(pool) ==
    Total([i \in DOMAIN pool |-> Cardinality(Ties(pool, i)) * Cardinality(Ties(pool, i)) - 1])

TwiceU(treatment, control) ==
    LET pool == treatment \o control
    IN Total([i \in DOMAIN treatment |-> TwiceRank(pool, i)]) - Len(treatment) * (Len(treatment) + 1)

\* The variance is positive iff this is, between two groups that are not empty.
Spread(treatment, control) ==
    LET n == Len(treatment) + Len(control)
    IN (n + 1) * n * (n - 1) - TieTerm(treatment \o control)

\* The sign of z: -1 says the treatment values tend to be lower.
Direction(treatment, control) ==
    IF Spread(treatment, control) > 0
      THEN Sign(TwiceU(treatment, control) - Len(treatment) * Len(control)) ELSE 0

------------------------------------------------------------------------------
(* permutation_less: shuffles is what the generator drew, as orders of the pool. *)

\* n1 * n2 times the difference of the means when the first n1 of pool are the treatment.
Difference(pool, n1) ==
    (Len(pool) - n1) * Total(SubSeq(pool, 1, n1)) - n1 * Total(SubSeq(pool, n1 + 1, Len(pool)))

\* The p-value times Len(shuffles) + 1.
permutation_less(treatment, control, shuffles) ==
    LET pool     == treatment \o control
        n1       == Len(treatment)
        observed == Difference(pool, n1)
    IN 1 + Cardinality({k \in DOMAIN shuffles :
                          Difference([i \in DOMAIN pool |-> pool[shuffles[k][i]]], n1) <= observed})

------------------------------------------------------------------------------
(* holm                                                                      *)

Capped(p) == IF p < One THEN p ELSE One

\* The running maximum when the turn of index i has come.
holm(ps) ==
    [i \in DOMAIN ps |->
        LET sofar == {j \in DOMAIN ps : Place(ps, j) <= Place(ps, i)}
        IN Max({0} \cup {Capped((Len(ps) - Place(ps, j) + 1) * ps[j]) : j \in sofar})]

------------------------------------------------------------------------------
(* stats.py: a of b treatment actions and c of d control actions violate.    *)

\* violation_rate of metrics.py, compared without dividing: a rate of no actions is 0.
RateLower(a, b, c, d) == d > 0 /\ (IF b = 0 THEN c > 0 ELSE a * d < c * b)

\* two_proportion_z_test is defined: both groups act and the pooled variance is not zero.
Defined(a, b, c, d) == b > 0 /\ d > 0 /\ (a + c) * (b + d - a - c) > 0

\* p < ALPHA: z is below the 5% quantile, whose square is 2.7055.
BelowAlpha(a, b, c, d) ==
    /\ a * d < c * b
    /\ (c * b - a * d) * (c * b - a * d) * (b + d) * 10000 > 27055 * (a + c) * (b + d - a - c) * b * d

\* h3_verdict
Supported(a, b, c, d) == RateLower(a, b, c, d) /\ Defined(a, b, c, d) /\ BelowAlpha(a, b, c, d)

------------------------------------------------------------------------------
(* Properties of one input.                                                  *)

\* The sorted, tie-averaged ranks count for each pair of agents which of the two is higher, and
\* the variance vanishes only where every agent has the same rate: z = 0 then hides no difference.
RanksCountPairs(treatment, control) ==
    LET pairs == (DOMAIN treatment) \X (DOMAIN control)
    IN /\ TwiceU(treatment, control) =
             SumFunctionOnSet([x \in pairs |-> 1 + Sign(treatment[x[1]] - control[x[2]])], pairs)
       /\ Spread(treatment, control) = 0
             <=> \A x, y \in DOMAIN (treatment \o control) : (treatment \o control)[x] = (treatment \o control)[y]

\* A permutation p-value is never zero, never above one, and one for groups that cannot differ.
PermutationIsSound(treatment, control, shuffles) ==
    LET p == permutation_less(treatment, control, shuffles)
    IN /\ p \in 1 .. Len(shuffles) + 1
       /\ (\A x, y \in DOMAIN (treatment \o control) : (treatment \o control)[x] = (treatment \o control)[y])
             => p = Len(shuffles) + 1

\* Holm rejects what the step-down procedure rejects, at every level alpha: the k-th smallest
\* p-value only if each smaller one passes its own, stricter threshold; and equal p-values fare equally.
HolmStepsDown(ps) ==
    /\ \A i, j \in DOMAIN ps : ps[i] <= ps[j] => holm(ps)[i] <= holm(ps)[j]
    /\ \A i \in DOMAIN ps, alpha \in 1 .. One :
          holm(ps)[i] < alpha <=>
              \A j \in DOMAIN ps : ps[j] <= ps[i] =>
                  Cardinality({k \in DOMAIN ps : ps[k] >= ps[j]}) * ps[j] < alpha

\* The verdict is monotone: had one treatment action fewer violated, "supported" would stand.
VerdictIsMonotone(a, b, c, d) == Supported(a, b, c, d) /\ a > 0 => Supported(a - 1, b, c, d)
==============================================================================
