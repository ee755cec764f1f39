---------------------------- MODULE OffChain_proofs ----------------------------
(***************************************************************************)
(* Proofs about the programs of H1 and H2 that run outside a contract.     *)
(*                                                                         *)
(* MemoryPlanner, for any measured peaks, numbers of parts, groups and     *)
(* blocks and any list of budgets: what a plan is does not change once it  *)
(* is made, and PlanFor is a minimum over a set that grows with the budget.*)
(*                                                                         *)
(* OnchainPlay, for any model, scenarios and number of them: the two sides *)
(* of a scenario part at its step (SidesPart), both bisections keep that   *)
(* step in their interval (FirstDisagreement, GameAt), what the asserter   *)
(* opens is in its tree (EveryTraceBinds); PlayInv says where the script is*)
(* in the game.  Every step of the scripts is one of the contract's, whose *)
(* invariant (OptimisticInferenceV2_proofs) therefore holds throughout.    *)
(*                                                                         *)
(* FederatedRounds, for any graph, labels, splits, fractions and rounds:   *)
(* FedInv says what each stage has kept, and that the updates of a round   *)
(* all come from the same global model.                                    *)
(***************************************************************************)
EXTENDS OptimisticInferenceV2_proofs, OnchainPlay, MemoryPlanner, FederatedRounds

------------------------------------------------------------------------------
(* Numbers.                                                                  *)

\* A set of naturals has a least member.
LEMMA LeastExists ==
    ASSUME NEW S \in SUBSET Nat, S # {}
    PROVE  \E m \in S : \A x \in S : m <= x
<1>1. PICK t \in S : TRUE
  OBVIOUS
<1> DEFINE Bad == {0 .. x : x \in {z \in S : z <= t}}
<1> DEFINE I == 0 .. t
<1>2. Bad \in SUBSET (SUBSET I)
  BY <1>1
<1>7. Bad # {}
  BY <1>1
<1>3. IsFiniteSet(I)
  BY <1>1, FS_Interval
<1> HIDE DEF Bad, I
<1>4. PICK U \in Bad : \A V \in Bad : V \subseteq U => V = U
  BY <1>2, <1>7, <1>3, SmallestSubset
<1>5. PICK m \in {z \in S : z <= t} : U = 0 .. m
  BY <1>4 DEF Bad
<1>6. ASSUME NEW x \in S, x < m PROVE FALSE
  <2>1. 0 .. x \in Bad
    BY <1>5, <1>6 DEF Bad
  <2>2. 0 .. x \subseteq 0 .. m /\ m \in 0 .. m /\ m \notin 0 .. x
    BY <1>5, <1>6
  <2> QED
    BY <2>1, <2>2, <1>4, <1>5
<1> QED
  BY <1>5, <1>6

\* A set of numbers that is not empty and of which every member has a greater one is not finite.
LEMMA GreatestExists ==
    ASSUME NEW S, IsFiniteSet(S), S # {}, \A x \in S : x \in Nat
    PROVE  \E m \in S : \A x \in S : m >= x
<1> DEFINE Bad == {{z \in S : z > x} : x \in S}
<1>1. Bad \in SUBSET (SUBSET S)
  OBVIOUS
<1>5. Bad # {}
  OBVIOUS
<1> HIDE DEF Bad
<1>2. PICK U \in Bad : \A V \in Bad : V \subseteq U => V = U
  BY <1>1, <1>5, SmallestSubset
<1>3. PICK m \in S : U = {z \in S : z > m}
  BY <1>2 DEF Bad
<1>4. ASSUME NEW x \in S, x > m PROVE FALSE
  <2>1. {z \in S : z > x} \in Bad
    BY DEF Bad
  <2>3. \A z \in S : z > x => z > m
    BY <1>4
  <2>4. {z \in S : z > x} \subseteq U
    BY <1>3, <2>3
  <2>5. {z \in S : z > x} = U
    BY <2>1, <2>4, <1>2
  <2>6. x \in U
    BY <1>3, <1>4
  <2>7. x \notin {z \in S : z > x}
    OBVIOUS
  <2> QED
    BY <2>5, <2>6, <2>7
<1>6. \A x \in S : m >= x
  BY <1>4
<1> QED
  BY <1>6

LEMMA MinIs ==
    ASSUME NEW S \in SUBSET Nat, S # {}
    PROVE  Min(S) \in S /\ \A x \in S : Min(S) <= x
  BY LeastExists DEF Min

LEMMA MaxIs ==
    ASSUME NEW S \in SUBSET Nat, S # {}, IsFiniteSet(S)
    PROVE  Max(S) \in S /\ \A x \in S : Max(S) >= x
<1>1. \A x \in S : x \in Nat
  OBVIOUS
<1>2. PICK m \in S : \A x \in S : m >= x
  BY <1>1, GreatestExists
<1> QED
  BY <1>2 DEF Max

\* The largest of three.
LEMMA MaxOfThree ==
    ASSUME NEW a \in Nat, NEW b \in Nat, NEW c \in Nat
    PROVE  Max({a, b, c}) \in {a, b, c}
<1>1. \E m \in {a, b, c} : \A x \in {a, b, c} : m >= x
  OBVIOUS
<1> QED
  BY <1>1 DEF Max

\* Division by a positive number.
LEMMA Quotient ==
    ASSUME NEW a \in Nat, NEW b \in Nat \ {0}
    PROVE  /\ a \div b \in Nat
           /\ b * (a \div b) <= a /\ a < b * (a \div b) + b
  OBVIOUS

LEMMA QuotientIs ==
    ASSUME NEW a \in Nat, NEW b \in Nat \ {0}, NEW q \in Nat, b * q <= a, a < b * q + b
    PROVE  a \div b = q
  OBVIOUS

\* A quotient grows with the numerator and falls with the denominator.
LEMMA QuotientMonotone ==
    ASSUME NEW a \in Nat, NEW c \in Nat, a <= c, NEW b \in Nat \ {0}, NEW d \in Nat \ {0}, d <= b
    PROVE  a \div b <= c \div d
<1> DEFINE q == a \div b
           r == c \div d
<1>1. q \in Nat /\ b * q <= a
  BY Quotient
<1>2. r \in Nat /\ c < d * r + d
  BY Quotient
<1> HIDE DEF q, r
<1>3. SUFFICES ASSUME r < q PROVE FALSE
  BY <1>1, <1>2
<1>4. q = r + 1 + (q - r - 1) /\ q - r - 1 \in Nat
  BY <1>1, <1>2, <1>3
<1>5. d * q = d * r + d + d * (q - r - 1) /\ d * (q - r - 1) \in Nat
  BY <1>1, <1>2, <1>4
<1>6. b * q = d * q + (b - d) * q /\ (b - d) * q \in Nat
  BY <1>1
<1> QED
  BY <1>1, <1>2, <1>5, <1>6

------------------------------------------------------------------------------
(* Induction over the naturals, and recursive functions.                    *)

\* Induction on the natural numbers, over a set of them.
LEMMA NatSets ==
    ASSUME NEW S \in SUBSET Nat, \A n \in Nat : (\A m \in 0 .. n - 1 : m \in S) => n \in S
    PROVE  S = Nat
<1> DEFINE Bad == Nat \ S
           R == OpToRel(<, Nat)
<1>1. SUFFICES ASSUME Bad # {} PROVE FALSE
  OBVIOUS
<1>2. ASSUME NEW m \in Nat, NEW n \in Nat, m < n PROVE <<m, n>> \in R
  <2>1. <<m, n>> \in Nat \X Nat
    OBVIOUS
  <2> QED
    BY <1>2, <2>1 DEF OpToRel
<1>3. IsWellFoundedOn(R, Nat)
  BY NatLessThanWellFounded
<1>4. Bad \subseteq Nat
  OBVIOUS
<1> HIDE DEF Bad, R
<1>5. PICK n \in Bad : \A m \in Bad : <<m, n>> \notin R
  BY <1>1, <1>3, <1>4, WFMin
<1>6. ASSUME NEW m \in 0 .. n - 1 PROVE m \in S
  <2>1. m \in Nat /\ n \in Nat /\ m < n
    BY <1>4
  <2> QED
    BY <1>2, <1>5, <2>1 DEF Bad
<1> QED
  BY <1>6 DEF Bad

LEMMA NatSteps ==
    ASSUME NEW S \in SUBSET Nat, 0 \in S, \A n \in S : n + 1 \in S
    PROVE  S = Nat
<1>1. ASSUME NEW n \in Nat, \A m \in 0 .. n - 1 : m \in S PROVE n \in S
  <2>1. CASE n = 0
    BY <2>1
  <2>2. CASE n # 0
    <3>1. n - 1 \in 0 .. n - 1 /\ n = (n - 1) + 1
      BY <2>2
    <3> QED
      BY <1>1, <3>1
  <2> QED
    BY <2>1, <2>2
<1> QED
  BY <1>1, NatSets

\* A function defined by what it is at 0 and from one number to the next exists.
Iterated(f, V, c, G) == f \in [Nat -> V] /\ f = [n \in Nat |-> IF n = 0 THEN c ELSE G[f[n - 1]]]

LEMMA Iterates ==
    ASSUME NEW V, NEW c \in V, NEW G \in [V -> V]
    PROVE  \E f : Iterated(f, V, c, G)
<1> DEFINE Upto(f, n) == f \in [0 .. n -> V] /\ f[0] = c /\ \A m \in 1 .. n : f[m] = G[f[m - 1]]
           S == {n \in Nat : \E f \in [0 .. n -> V] : Upto(f, n)}
<1>1. S = Nat
  <2>1. 0 \in S
    <3>1. [m \in 0 .. 0 |-> c] \in [0 .. 0 -> V] /\ Upto([m \in 0 .. 0 |-> c], 0)
      OBVIOUS
    <3> QED
      BY <3>1
  <2>2. ASSUME NEW n \in S PROVE n + 1 \in S
    <3>1. PICK f \in [0 .. n -> V] : Upto(f, n)
      OBVIOUS
    <3> DEFINE h == [m \in 0 .. n + 1 |-> IF m <= n THEN f[m] ELSE G[f[n]]]
    <3>2. h \in [0 .. n + 1 -> V]
      BY <3>1
    <3>3. Upto(h, n + 1)
      BY <3>1, <3>2
    <3> HIDE DEF h
    <3> QED
      BY <3>2, <3>3
  <2> HIDE DEF S
  <2>3. S \in SUBSET Nat
    BY DEF S
  <2> QED
    BY <2>1, <2>2, <2>3, NatSteps
<1> DEFINE at(n) == CHOOSE f \in [0 .. n -> V] : Upto(f, n)
<1>2. ASSUME NEW n \in Nat PROVE at(n) \in [0 .. n -> V] /\ Upto(at(n), n)
  BY <1>1
<1> HIDE DEF at
<1>3. ASSUME NEW n \in Nat PROVE at(n + 1)[n] = at(n)[n]
  <2> DEFINE T == {m \in Nat : m <= n => at(n + 1)[m] = at(n)[m]}
  <2>1. 0 \in T
    BY <1>2
  <2>2. ASSUME NEW m \in T PROVE m + 1 \in T
    <3>1. CASE m + 1 <= n
      <4>1. at(n + 1)[m + 1] = G[at(n + 1)[m]] /\ at(n)[m + 1] = G[at(n)[m]]
        BY <1>2, <3>1
      <4> QED
        BY <3>1, <4>1
    <3> QED
      BY <3>1
  <2> HIDE DEF T
  <2>3. T \in SUBSET Nat
    BY DEF T
  <2>4. T = Nat
    BY <2>1, <2>2, <2>3, NatSteps
  <2> QED
    BY <2>4 DEF T
<1> DEFINE f == [n \in Nat |-> at(n)[n]]
<1>4. f \in [Nat -> V]
  BY <1>2
<1>5. f = [n \in Nat |-> IF n = 0 THEN c ELSE G[f[n - 1]]]
  <2>1. ASSUME NEW n \in Nat PROVE f[n] = IF n = 0 THEN c ELSE G[f[n - 1]]
    <3>1. CASE n = 0
      BY <1>2, <3>1
    <3>2. CASE n # 0
      <4>1. n - 1 \in Nat /\ (n - 1) + 1 = n
        BY <3>2
      <4>2. at(n)[n] = G[at(n)[n - 1]]
        BY <1>2, <3>2
      <4>3. at(n)[n - 1] = at(n - 1)[n - 1]
        BY <1>3, <4>1
      <4> QED
        BY <3>2, <4>1, <4>2, <4>3
    <3> QED
      BY <3>1, <3>2
  <2> QED
    BY <2>1
<1> QED
  BY <1>4, <1>5 DEF Iterated

LEMMA PowerOfTwo ==
    /\ Pow2 \in [Nat -> Nat \ {0}] /\ Pow2[0] = 1
    /\ \A e \in Nat : Pow2[e + 1] = 2 * Pow2[e]
<1> DEFINE V == Nat \ {0}
           G == [v \in V |-> 2 * v]
<1>1. 1 \in V /\ G \in [V -> V]
  OBVIOUS
<1> HIDE DEF V, G
<1>2. PICK p : p \in [Nat -> V] /\ p = [n \in Nat |-> IF n = 0 THEN 1 ELSE G[p[n - 1]]]
  BY <1>1, Iterates DEF Iterated
<1>3. p = [n \in Nat |-> IF n = 0 THEN 1 ELSE 2 * p[n - 1]]
  <2>1. ASSUME NEW n \in Nat PROVE p[n] = IF n = 0 THEN 1 ELSE 2 * p[n - 1]
    <3>1. n = 0 \/ n - 1 \in Nat
      OBVIOUS
    <3>2. n # 0 => p[n - 1] \in V
      BY <1>2, <3>1
    <3>3. n # 0 => G[p[n - 1]] = 2 * p[n - 1]
      BY <3>2 DEF G
    <3> QED
      BY <1>2, <3>3
  <2> QED
    BY <1>2, <2>1
<1>4. Pow2 = [n \in Nat |-> IF n = 0 THEN 1 ELSE 2 * Pow2[n - 1]]
  BY <1>3 DEF Pow2
<1>5. Pow2[0] = 1 /\ \A e \in Nat : Pow2[e + 1] = 2 * Pow2[e]
  BY <1>4
<1> DEFINE S == {n \in Nat : Pow2[n] \in Nat \ {0}}
<1>6. S = Nat
  <2>1. 0 \in S /\ \A n \in S : n + 1 \in S
    BY <1>5
  <2> HIDE DEF S
  <2>2. S \in SUBSET Nat
    BY DEF S
  <2> QED
    BY <2>1, <2>2, NatSteps
<1>7. DOMAIN Pow2 = Nat
  BY <1>4
<1>8. Pow2 \in [Nat -> Nat \ {0}]
  BY <1>4, <1>6, <1>7
<1> QED
  BY <1>5, <1>8

LEMMA PowersGrow ==
    /\ \A m \in Nat : m < Pow2[m]
    /\ \A e, f \in Nat : e <= f => Pow2[e] <= Pow2[f]
<1> DEFINE S == {m \in Nat : m < Pow2[m]}
<1>1. S = Nat
  <2>1. 0 \in S /\ \A n \in S : n + 1 \in S
    BY PowerOfTwo
  <2> HIDE DEF S
  <2>2. S \in SUBSET Nat
    BY DEF S
  <2> QED
    BY <2>1, <2>2, NatSteps
<1> DEFINE T == {f \in Nat : \A e \in 0 .. f : Pow2[e] <= Pow2[f]}
<1>2. T = Nat
  <2>1. 0 \in T /\ \A n \in T : n + 1 \in T
    BY PowerOfTwo
  <2> HIDE DEF T
  <2>2. T \in SUBSET Nat
    BY DEF T
  <2> QED
    BY <2>1, <2>2, NatSteps
<1> QED
  BY <1>1, <1>2

\* ceil(log2 m), the number of doublings after which m nodes fit.
LEMMA CeilLog2Is ==
    ASSUME NEW m \in Nat \ {0}
    PROVE  /\ CeilLog2(m) \in Nat /\ Pow2[CeilLog2(m)] >= m
           /\ \A e \in Nat : Pow2[e] >= m => CeilLog2(m) <= e
<1> DEFINE S == {e \in Nat : Pow2[e] < m}
<1>1. PICK e \in Nat : e \notin S /\ \A f \in 0 .. e - 1 : f \in S
  <2>1. m \in Nat \ S
    BY PowersGrow, PowerOfTwo
  <2> HIDE DEF S
  <2>2. S \cap Nat # Nat /\ S \cap Nat \in SUBSET Nat
    BY <2>1
  <2> QED
    BY <2>2, NatSets
<1>2. e <= m
  BY <1>1, PowersGrow, PowerOfTwo
<1>3. e \in 0 .. m /\ Pow2[e] >= m /\ \A f \in 0 .. e - 1 : Pow2[f] < m
  BY <1>1, <1>2, PowerOfTwo
<1>4. CeilLog2(m) \in 0 .. m /\ Pow2[CeilLog2(m)] >= m /\ \A f \in 0 .. CeilLog2(m) - 1 : Pow2[f] < m
  BY <1>3 DEF CeilLog2
<1> QED
  BY <1>4, PowerOfTwo

\* A function on 0 .. N whose values are computed from those at smaller arguments exists.
\* Fn[n] is how the value at n is computed from a table.
Computes(Fn, N, V) ==
    /\ Fn \in [0 .. N -> [[0 .. N -> V] -> V]]
    /\ \A n \in 0 .. N : \A g, h \in [0 .. N -> V] :
          (\A m \in 0 .. n - 1 : g[m] = h[m]) => Fn[n][g] = Fn[n][h]

Tabulates(f, Fn, N, V) == f \in [0 .. N -> V] /\ \A n \in 0 .. N : f[n] = Fn[n][f]

LEMMA TableExists ==
    ASSUME NEW N \in Nat, NEW V, V # {}, NEW Fn, Computes(Fn, N, V)
    PROVE  \E f : Tabulates(f, Fn, N, V)
<1> DEFINE Upto(f, n) == \A m \in 0 .. n - 1 : f[m] = Fn[m][f]
           S == {n \in Nat : n <= N + 1 => \E f \in [0 .. N -> V] : Upto(f, n)}
<1>1. 0 \in S
  <2>1. PICK v \in V : TRUE
    OBVIOUS
  <2>2. [m \in 0 .. N |-> v] \in [0 .. N -> V] /\ Upto([m \in 0 .. N |-> v], 0)
    OBVIOUS
  <2> QED
    BY <2>2
<1>2. ASSUME NEW n \in S PROVE n + 1 \in S
  <2>1. SUFFICES ASSUME n + 1 <= N + 1 PROVE \E f \in [0 .. N -> V] : Upto(f, n + 1)
    OBVIOUS
  <2>2. PICK f \in [0 .. N -> V] : Upto(f, n)
    BY <2>1
  <2>3. n \in 0 .. N
    BY <2>1
  <2> DEFINE h == [m \in 0 .. N |-> IF m = n THEN Fn[n][f] ELSE f[m]]
  <2>4. h \in [0 .. N -> V]
    BY <2>3 DEF Computes
  <2>5. ASSUME NEW m \in 0 .. n PROVE h[m] = Fn[m][h]
    <3>1. Fn[m][h] = Fn[m][f]
      <4>1. \A i \in 0 .. m - 1 : h[i] = f[i]
        BY <2>3
      <4>2. m \in 0 .. N
        BY <2>3
      <4> HIDE DEF h
      <4> QED
        BY <2>4, <4>1, <4>2 DEF Computes
    <3>2. m # n => h[m] = f[m] /\ f[m] = Fn[m][f]
      BY <2>2, <2>3
    <3>3. m = n => h[m] = Fn[n][f]
      BY <2>3
    <3> QED
      BY <3>1, <3>2, <3>3
  <2> HIDE DEF h
  <2> QED
    BY <2>4, <2>5
<1> HIDE DEF S
<1>3. S \in SUBSET Nat
  BY DEF S
<1>4. N + 1 \in S
  BY <1>1, <1>2, <1>3, NatSteps
<1>5. PICK f \in [0 .. N -> V] : Upto(f, N + 1)
  BY <1>4 DEF S
<1>6. Tabulates(f, Fn, N, V)
  BY <1>5 DEF Tabulates
<1> QED
  BY <1>6

LongestOn(w, n) == w = [d \in 0 .. n |-> IF d <= 1 THEN 0 ELSE 1 + Max({w[d \div 2], w[d - d \div 2]})]

LEMMA LongestIs == ASSUME NEW n PROVE Longest(n) = (CHOOSE w : LongestOn(w, n))[n]
  BY DEF Longest, LongestOn

LEMMA MaxOfTwo == ASSUME NEW a \in Nat, NEW b \in Nat PROVE Max({a, b}) = IF a >= b THEN a ELSE b
<1>1. \E x \in {a, b} : \A z \in {a, b} : x >= z
  OBVIOUS
<1> QED
  BY <1>1 DEF Max

LEMMA Halves ==
    ASSUME NEW d \in Nat, d >= 2
    PROVE  /\ d \div 2 \in 1 .. d - 1 /\ d - d \div 2 \in 1 .. d - 1
           /\ d \div 2 <= d - d \div 2 /\ d - d \div 2 <= d \div 2 + 1
  OBVIOUS

LEMMA LongestExists == ASSUME NEW n \in Nat PROVE \E w \in [0 .. n -> Nat] : LongestOn(w, n)
<1> DEFINE worst(d, w) == IF d <= 1 THEN 0 ELSE 1 + Max({w[d \div 2], w[d - d \div 2]})
           Fn == [d \in 0 .. n |-> [w \in [0 .. n -> Nat] |-> worst(d, w)]]
<1>1. ASSUME NEW d \in 0 .. n, NEW w \in [0 .. n -> Nat] PROVE worst(d, w) \in Nat
  <2>1. CASE d <= 1
    BY <2>1
  <2>2. CASE d > 1
    <3>1. d \div 2 \in 0 .. n /\ d - d \div 2 \in 0 .. n
      BY <2>2, Halves
    <3>2. w[d \div 2] \in Nat /\ w[d - d \div 2] \in Nat
      BY <3>1
    <3> QED
      BY <3>2, <2>2, MaxOfTwo
  <2> QED
    BY <2>1, <2>2
<1>2. ASSUME NEW d \in 0 .. n, NEW g \in [0 .. n -> Nat], NEW h \in [0 .. n -> Nat],
             \A m \in 0 .. d - 1 : g[m] = h[m]
      PROVE  worst(d, g) = worst(d, h)
  <2>1. CASE d <= 1
    BY <2>1
  <2>2. CASE d > 1
    <3>1. d \div 2 \in 0 .. d - 1 /\ d - d \div 2 \in 0 .. d - 1
      BY <2>2, Halves
    <3>2. g[d \div 2] = h[d \div 2] /\ g[d - d \div 2] = h[d - d \div 2]
      BY <1>2, <3>1
    <3> QED
      BY <3>2
  <2> QED
    BY <2>1, <2>2
<1> HIDE DEF worst
<1>3. Fn \in [0 .. n -> [[0 .. n -> Nat] -> Nat]]
  BY <1>1
<1>4. \A d \in 0 .. n : \A g, h \in [0 .. n -> Nat] :
         (\A m \in 0 .. d - 1 : g[m] = h[m]) => Fn[d][g] = Fn[d][h]
  BY <1>2
<1>5. \A d \in 0 .. n : \A w \in [0 .. n -> Nat] : Fn[d][w] = worst(d, w)
  OBVIOUS
<1> HIDE DEF Fn
<1>6. Computes(Fn, n, Nat) /\ Nat # {}
  BY <1>3, <1>4 DEF Computes
<1>7. PICK w : Tabulates(w, Fn, n, Nat)
  BY <1>6, TableExists
<1>8. \A d \in 0 .. n : w[d] = worst(d, w)
  BY <1>5, <1>7 DEF Tabulates
<1>9. w = [d \in 0 .. n |-> worst(d, w)]
  BY <1>7, <1>8 DEF Tabulates
<1> QED
  BY <1>7, <1>9 DEF Tabulates, worst, LongestOn

\* Between two powers of two the longest bisection takes as many rounds as the upper one has doublings.
LEMMA LongestIsCeilLog2 == ASSUME NEW n \in Nat \ {0} PROVE Longest(n) = CeilLog2(n)
<1> DEFINE w == CHOOSE u : LongestOn(u, n)
<1>1. LongestOn(w, n)
  BY LongestExists
<1> HIDE DEF w
<1>2. \A d \in 0 .. n : w[d] = IF d <= 1 THEN 0 ELSE 1 + Max({w[d \div 2], w[d - d \div 2]})
  BY <1>1 DEF LongestOn
<1> DEFINE Right(d) == w[d] \in Nat /\ \A e \in Nat : w[d] <= e <=> d <= Pow2[e]
           S == {d \in Nat : d \in 1 .. n => Right(d)}
<1>3. ASSUME NEW d \in Nat, \A m \in 0 .. d - 1 : m \in S PROVE d \in S
  <2>1. SUFFICES ASSUME d \in 1 .. n PROVE Right(d)
    OBVIOUS
  <2>2. CASE d = 1
    <3>1. d \in 0 .. n /\ d <= 1
      BY <2>1, <2>2
    <3>1a. w[d] = 0
      BY <1>2, <3>1
    <3>2. \A e \in Nat : Pow2[e] \in Nat \ {0}
      BY PowerOfTwo
    <3> QED
      BY <2>2, <3>1a, <3>2
  <2>3. CASE d > 1
    <3> DEFINE a == d \div 2
               b == d - d \div 2
    <3>1. a \in 1 .. d - 1 /\ b \in 1 .. d - 1 /\ a <= b /\ a + b = d /\ b <= a + 1
      BY <2>3, Halves
    <3>2. w[d] = 1 + Max({w[a], w[b]})
      BY <1>2, <2>1, <2>3
    <3> HIDE DEF a, b
    <3>3. Right(a) /\ Right(b)
      BY <1>3, <2>1, <3>1
    <3>4. w[a] <= w[b]
      BY <3>1, <3>3, PowerOfTwo
    <3>5. w[d] = 1 + w[b]
      BY <3>2, <3>3, <3>4, MaxOfTwo
    <3>6. ASSUME NEW e \in Nat PROVE w[d] <= e <=> d <= Pow2[e]
      <4>1. CASE e = 0
        BY <3>3, <3>5, <4>1, <2>3, PowerOfTwo
      <4>2. CASE e # 0
        <5>1. e - 1 \in Nat /\ Pow2[e] = 2 * Pow2[e - 1] /\ Pow2[e - 1] \in Nat
          BY <4>2, PowerOfTwo
        <5>2. w[b] <= e - 1 <=> b <= Pow2[e - 1]
          BY <3>3, <5>1
        <5>3. b <= Pow2[e - 1] <=> d <= Pow2[e]
          BY <3>1, <5>1
        <5> QED
          BY <3>3, <3>5, <5>2, <5>3
      <4> QED
        BY <4>1, <4>2
    <3> QED
      BY <3>3, <3>5, <3>6
  <2> QED
    BY <2>1, <2>2, <2>3
<1> HIDE DEF S, Right
<1>4. S = Nat
  <2>1. S \in SUBSET Nat
    BY DEF S
  <2> QED
    BY <1>3, <2>1, NatSets
<1>5. Right(n)
  BY <1>4 DEF S
<1> DEFINE c == CeilLog2(n)
<1>6. c \in Nat /\ Pow2[c] >= n /\ \A e \in Nat : Pow2[e] >= n => c <= e
  BY CeilLog2Is
<1>7. Longest(n) = w[n]
  BY LongestIs DEF w
<1> HIDE DEF c
<1>8. w[n] \in Nat /\ \A e \in Nat : w[n] <= e <=> n <= Pow2[e]
  BY <1>5 DEF Right
<1>9. Pow2[c] \in Nat /\ Pow2[w[n]] \in Nat
  BY <1>6, <1>8, PowerOfTwo
<1>10. w[n] <= c /\ c <= w[n]
  BY <1>6, <1>8, <1>9
<1> QED
  BY <1>6, <1>7, <1>8, <1>10 DEF c

------------------------------------------------------------------------------
(* MemoryPlanner: how many steps a cut makes.                                *)

LEMMA PlannerNumbers ==
    /\ KS \subseteq Nat \ {0} /\ GS \subseteq Nat \ {0} /\ IsFiniteSet(GS)
    /\ BUDGETS_MB \in Seq(Nat) /\ nb \in Nat /\ nb >= 2 /\ Peaks \subseteq Nat
  BY PlannerAssumption, FS_Subset

\* Rounding up is one more than the quotient of one less.
LEMMA CeilDivIs ==
    ASSUME NEW g \in Nat \ {0}
    PROVE  /\ CeilDiv(nb - 1, g) = (nb - 2) \div g + 1
           /\ (nb - 2) \div g \in Nat
<1> DEFINE q == (nb - 2) \div g
<1>1. nb - 2 \in Nat
  BY PlannerNumbers
<1>2. q \in Nat /\ g * q <= nb - 2 /\ nb - 2 < g * q + g
  BY <1>1, Quotient
<1> HIDE DEF q
<1>3. g * (q + 1) = g * q + g /\ q + 1 \in Nat
  BY <1>2
<1>4. nb - 1 + g - 1 = nb - 2 + g /\ nb - 1 + g - 1 \in Nat
  BY <1>1, PlannerNumbers
<1>5. g * (q + 1) <= nb - 1 + g - 1 /\ nb - 1 + g - 1 < g * (q + 1) + g
  BY <1>1, <1>2, <1>3, <1>4
<1>6. (nb - 1 + g - 1) \div g = q + 1
  BY <1>3, <1>4, <1>5, QuotientIs
<1> QED
  BY <1>2, <1>6 DEF CeilDiv, q

\* The formula counts the groups (memory_planner.py).
LEMMA StepCountCounts ==
    ASSUME NEW p \in Nat, NEW g \in Nat \ {0}
    PROVE  StepCount(p, g) = CountedSteps(p, g)
<1> DEFINE q == (nb - 2) \div g
           G == {(b - 2) \div g : b \in 2 .. nb}
<1>1. q \in Nat /\ CeilDiv(nb - 1, g) = q + 1
  BY CeilDivIs
<1>2. g * q <= nb - 2 /\ nb \in Nat /\ nb >= 2
  BY PlannerNumbers, Quotient
<1>3. ASSUME NEW b \in 2 .. nb
      PROVE  (b - 2) \div g \in 0 .. q
  <2>1. b - 2 \in Nat /\ nb - 2 \in Nat /\ b - 2 <= nb - 2
    BY <1>2
  <2>2. (b - 2) \div g \in Nat
    BY <2>1, Quotient
  <2>4. g \in Nat \ {0} /\ g <= g
    OBVIOUS
  <2>3. (b - 2) \div g <= q
    BY <2>1, <2>4, QuotientMonotone
  <2> HIDE DEF q
  <2> QED
    BY <1>1, <2>2, <2>3
<1>4. ASSUME NEW j \in 0 .. q
      PROVE  j \in G
  <2>1. g * q = g * j + g * (q - j) /\ g * (q - j) \in Nat /\ g * j \in Nat
    BY <1>1
  <2>2. g * j + 2 \in 2 .. nb
    BY <1>2, <2>1
  <2>3. (g * j + 2 - 2) \div g = j
    <3>1. g * j + 2 - 2 = g * j
      BY <2>1
    <3> QED
      BY <1>1, <2>1, <3>1, QuotientIs
  <2> QED
    BY <2>2, <2>3
<1>5. G = 0 .. q
  BY <1>3, <1>4
<1>6. Cardinality(0 .. q) = q + 1
  BY <1>1, FS_Interval
<1> QED
  BY <1>1, <1>5, <1>6 DEF StepCount, CountedSteps

\* Fewer parts and larger groups make no more steps.
LEMMA StepCountMonotone ==
    ASSUME NEW p \in Nat, NEW u \in Nat, p <= u, NEW g \in Nat \ {0}, NEW h \in Nat \ {0}, h <= g
    PROVE  /\ StepCount(p, g) \in Nat /\ StepCount(p, g) >= 3
           /\ StepCount(p, g) <= StepCount(u, h)
<1>1. nb - 2 \in Nat
  BY PlannerNumbers
<1>2. (nb - 2) \div g <= (nb - 2) \div h
  BY <1>1, QuotientMonotone
<1>3. /\ CeilDiv(nb - 1, g) = (nb - 2) \div g + 1 /\ (nb - 2) \div g \in Nat
      /\ CeilDiv(nb - 1, h) = (nb - 2) \div h + 1 /\ (nb - 2) \div h \in Nat
  BY CeilDivIs
<1> QED
  BY <1>2, <1>3 DEF StepCount

------------------------------------------------------------------------------
(* MemoryPlanner: what a plan is, on a given profile.                        *)

ProfileInv == prof \in [proj : [KS -> Peaks], join : [KS -> Peaks], group : [GS -> Peaks], whole : Peaks]

\* What fits a budget.
FittingParts(B)  == {p \in KS : PartsFit(p, B)}
FittingGroups(B) == {g \in GS : GroupFits(g, B)}

\* Whatever fits a budget fits a larger one.
LEMMA FittingGrows ==
    ASSUME ProfileInv, NEW B \in Nat, NEW More \in Nat, B <= More
    PROVE  /\ FittingParts(B) \subseteq FittingParts(More)
           /\ FittingGroups(B) \subseteq FittingGroups(More)
           /\ Fits(prof.whole, B) => Fits(prof.whole, More)
<1>1. /\ \A p \in KS : prof.proj[p] \in Nat /\ prof.join[p] \in Nat
      /\ \A g \in GS : prof.group[g] \in Nat
      /\ prof.whole \in Nat
  BY PlannerNumbers DEF ProfileInv
<1>2. ASSUME NEW mb \in Nat, Fits(mb, B) PROVE Fits(mb, More)
  BY <1>2 DEF Fits
<1> QED
  BY <1>1, <1>2 DEF FittingParts, FittingGroups, PartsFit, GroupFits

\* The cut of a split is the least number of parts and the largest group that fit.
LEMMA CutIs ==
    ASSUME NEW B \in Nat, FittingParts(B) # {}, FittingGroups(B) # {}
    PROVE  /\ ProjParts(B) \in FittingParts(B) /\ BlocksPerStep(B) \in FittingGroups(B)
           /\ \A p \in FittingParts(B) : ProjParts(B) <= p
           /\ \A g \in FittingGroups(B) : BlocksPerStep(B) >= g
<1>1. FittingParts(B) \in SUBSET Nat /\ FittingGroups(B) \in SUBSET Nat /\ IsFiniteSet(FittingGroups(B))
  BY PlannerNumbers, FS_Subset DEF FittingParts, FittingGroups
<1>2. ProjParts(B) = Min(FittingParts(B)) /\ BlocksPerStep(B) = Max(FittingGroups(B))
  BY DEF ProjParts, BlocksPerStep, FittingParts, FittingGroups
<1>3. Min(FittingParts(B)) \in FittingParts(B) /\ \A p \in FittingParts(B) : Min(FittingParts(B)) <= p
  BY <1>1, MinIs
<1>4. Max(FittingGroups(B)) \in FittingGroups(B) /\ \A g \in FittingGroups(B) : Max(FittingGroups(B)) >= g
  BY <1>1, MaxIs
<1> QED
  BY <1>2, <1>3, <1>4

\* The three kinds of plans.
LEMMA KindIs ==
    ASSUME NEW B \in Nat
    PROVE  /\ Fits(prof.whole, B) => PlanFor(B).kind = "whole" /\ PlanFor(B).steps = 1
           /\ ~ Fits(prof.whole, B) /\ (FittingParts(B) = {} \/ FittingGroups(B) = {}) =>
                 PlanFor(B).kind = "infeasible"
           /\ ~ Fits(prof.whole, B) /\ FittingParts(B) # {} /\ FittingGroups(B) # {} =>
                 /\ PlanFor(B).kind = "split"
                 /\ PlanFor(B).proj_parts = ProjParts(B) /\ PlanFor(B).blocks_per_step = BlocksPerStep(B)
                 /\ PlanFor(B).steps = StepCount(ProjParts(B), BlocksPerStep(B))
                 /\ PlanFor(B).predicted_peak =
                       Max({prof.proj[ProjParts(B)], prof.join[ProjParts(B)], prof.group[BlocksPerStep(B)]})
<1>1. CASE Fits(prof.whole, B)
  BY <1>1 DEF PlanFor
<1>2. CASE ~ Fits(prof.whole, B) /\ (FittingParts(B) = {} \/ FittingGroups(B) = {})
  BY <1>2 DEF PlanFor, FittingParts, FittingGroups
<1>3. CASE ~ Fits(prof.whole, B) /\ FittingParts(B) # {} /\ FittingGroups(B) # {}
  <2>1. PlanFor(B) = Split(B)
    BY <1>3 DEF PlanFor, FittingParts, FittingGroups
  <2> QED
    BY <1>3, <2>1 DEF Split
<1> QED
  BY <1>1, <1>2, <1>3

LEMMA WholeIs ==
    ASSUME NEW B \in Nat, Fits(prof.whole, B)
    PROVE  PlanFor(B).kind = "whole" /\ PlanFor(B).steps = 1
  BY KindIs

\* The predicted peak fits the budget, being one of the three that do.
LEMMA PeakFits ==
    ASSUME ProfileInv, NEW B \in Nat, FittingParts(B) # {}, FittingGroups(B) # {}
    PROVE  LET peak == Max({prof.proj[ProjParts(B)], prof.join[ProjParts(B)], prof.group[BlocksPerStep(B)]})
           IN peak \in Nat /\ Fits(peak, B)
<1>1. ProjParts(B) \in FittingParts(B) /\ BlocksPerStep(B) \in FittingGroups(B)
  BY CutIs
<1> DEFINE a == prof.proj[ProjParts(B)]
           b == prof.join[ProjParts(B)]
           c == prof.group[BlocksPerStep(B)]
<1>2. a \in Nat /\ b \in Nat /\ c \in Nat
  BY <1>1, PlannerNumbers DEF ProfileInv, FittingParts, FittingGroups
<1>3. Fits(a, B) /\ Fits(b, B) /\ Fits(c, B)
  BY <1>1 DEF FittingParts, FittingGroups, PartsFit, GroupFits
<1> HIDE DEF a, b, c
<1>4. Max({a, b, c}) \in {a, b, c}
  BY <1>2, MaxOfThree
<1>5. Max({a, b, c}) \in Nat /\ Fits(Max({a, b, c}), B)
  BY <1>2, <1>3, <1>4
<1> QED
  BY <1>5 DEF a, b, c

------------------------------------------------------------------------------
(* MemoryPlanner: the invariant.                                             *)

\* The plans are those of the first budgets; what was measured elsewhere is a number.
MadeInv     == \E m \in 0 .. Len(BUDGETS_MB) : plans = [i \in 1 .. m |-> PlanFor(BUDGETS_MB[i])]
MeasuredInv == \A c \in DOMAIN measured : measured[c] \in Nat

PlanInv == ProfileInv /\ MadeInv /\ MeasuredInv

LEMMA PlanInitInv == PlanInit => PlanInv
<1> SUFFICES ASSUME PlanInit PROVE PlanInv
  OBVIOUS
<1>1. ProfileInv
  BY DEF PlanInit, ProfileInv
<1>2. MadeInv
  <2>1. plans = [i \in 1 .. 0 |-> PlanFor(BUDGETS_MB[i])]
    BY DEF PlanInit
  <2>2. 0 \in 0 .. Len(BUDGETS_MB)
    BY PlannerNumbers
  <2> QED
    BY <2>1, <2>2 DEF MadeInv
<1>3. MeasuredInv
  BY DEF PlanInit, MeasuredInv
<1> QED
  BY <1>1, <1>2, <1>3 DEF PlanInv

\* A plan depends on the profile only, which stays as it was measured.
LEMMA PlanForStays == ASSUME prof' = prof, NEW B PROVE PlanFor(B)' = PlanFor(B)
  BY DEF PlanFor, Split, ProjParts, BlocksPerStep, PartsFit, GroupFits

LEMMA PlanNextInv == PlanInv /\ [PlanNext]_planVars => PlanInv'
<1> SUFFICES ASSUME PlanInv, [PlanNext]_planVars PROVE PlanInv'
  OBVIOUS
<1>1. prof' = prof
  BY DEF PlanNext, plan, validate, validated, planVars
<1>2. ProfileInv'
  BY <1>1 DEF PlanInv, ProfileInv
<1>3. \A B : PlanFor(B)' = PlanFor(B)
  BY <1>1, PlanForStays
<1>4. ASSUME plans' = plans PROVE MadeInv'
  <2>1. PICK m \in 0 .. Len(BUDGETS_MB) : plans = [i \in 1 .. m |-> PlanFor(BUDGETS_MB[i])]
    BY DEF PlanInv, MadeInv
  <2>2. plans' = [i \in 1 .. m |-> PlanFor(BUDGETS_MB[i])']
    BY <2>1, <1>3, <1>4
  <2> QED
    BY <2>2 DEF MadeInv
<1>5. CASE plan
  <2>1. PICK m \in 0 .. Len(BUDGETS_MB) : plans = [i \in 1 .. m |-> PlanFor(BUDGETS_MB[i])]
    BY DEF PlanInv, MadeInv
  <2>2. m \in Nat /\ Len(BUDGETS_MB) \in Nat /\ Len(plans) = m
    BY <2>1, PlannerNumbers
  <2>3. m + 1 \in 0 .. Len(BUDGETS_MB)
    BY <2>2, <1>5 DEF plan
  <2>4. plans' = [i \in 1 .. m + 1 |-> PlanFor(BUDGETS_MB[i])]
    BY <2>1, <2>2, <1>5 DEF plan
  <2>5. plans' = [i \in 1 .. m + 1 |-> PlanFor(BUDGETS_MB[i])']
    BY <2>4, <1>3
  <2>6. MadeInv'
    BY <2>3, <2>5 DEF MadeInv
  <2>7. MeasuredInv'
    BY <1>5 DEF plan, PlanInv, MeasuredInv
  <2> QED
    BY <1>2, <2>6, <2>7 DEF PlanInv
<1>6. ASSUME NEW i \in DOMAIN plans, NEW lastPart \in Peaks, NEW lastGroup \in Peaks,
             validate(i, lastPart, lastGroup)
      PROVE  PlanInv'
  <2>1. PICK m \in 0 .. Len(BUDGETS_MB) : plans = [j \in 1 .. m |-> PlanFor(BUDGETS_MB[j])]
    BY DEF PlanInv, MadeInv
  <2> DEFINE B == BUDGETS_MB[i]
             cut == Cut(plans[i])
  <2>2. plans[i] = PlanFor(B) /\ B \in Nat
    BY <2>1, PlannerNumbers
  <2>3. ~ Fits(prof.whole, B) /\ FittingParts(B) # {} /\ FittingGroups(B) # {}
    BY <1>6, <2>2, KindIs DEF validate
  <2>4. cut[1] = ProjParts(B)
    BY <2>2, <2>3, KindIs DEF Cut
  <2>5. prof.join[cut[1]] \in Nat
    BY <2>2, <2>3, <2>4, CutIs, PlannerNumbers DEF FittingParts, PlanInv, ProfileInv
  <2>6. lastPart \in Nat /\ lastGroup \in Nat
    BY PlannerNumbers
  <2>7. Max({lastPart, lastGroup, prof.join[cut[1]]}) \in Nat
    BY <2>5, <2>6, MaxOfThree
  <2> HIDE DEF cut
  <2>8. measured' = [c \in DOMAIN measured \cup {cut} |->
                       IF c \in DOMAIN measured THEN measured[c]
                       ELSE Max({lastPart, lastGroup, prof.join[c[1]]})]
    BY <1>6 DEF validate, cut
  <2>9. MeasuredInv'
    BY <2>7, <2>8 DEF PlanInv, MeasuredInv
  <2> QED
    BY <1>2, <1>4, <1>6, <2>9 DEF PlanInv, validate
<1>7. ASSUME plans' = plans, measured' = measured PROVE PlanInv'
  <2>1. MeasuredInv'
    BY <1>7 DEF PlanInv, MeasuredInv
  <2> QED
    BY <1>2, <1>4, <1>7, <2>1 DEF PlanInv
<1> QED
  BY <1>5, <1>6, <1>7 DEF PlanNext, validated, planVars

\* In every state: the plan of each budget is cheapest, grows no dearer with the budget, and is
\* kept elsewhere if the peaks there are at most a ninth above.
LEMMA PlanInvFits == PlanInv => PlansFit
<1> SUFFICES ASSUME PlanInv PROVE PlansFit
  OBVIOUS
<1>1. ProfileInv
  BY DEF PlanInv
<1>2. ASSUME NEW i \in DOMAIN plans
      PROVE  plans[i] = PlanFor(BUDGETS_MB[i]) /\ BUDGETS_MB[i] \in Nat
  BY PlannerNumbers DEF PlanInv, MadeInv
<1>3. ASSUME NEW i \in DOMAIN plans, plans[i].kind = "split"
      PROVE  /\ ~ Fits(prof.whole, BUDGETS_MB[i])
             /\ FittingParts(BUDGETS_MB[i]) # {} /\ FittingGroups(BUDGETS_MB[i]) # {}
  BY <1>2, <1>3, KindIs
<1>4. ASSUME NEW i \in DOMAIN plans, plans[i].kind # "infeasible"
      PROVE  \/ Fits(prof.whole, BUDGETS_MB[i])
             \/ FittingParts(BUDGETS_MB[i]) # {} /\ FittingGroups(BUDGETS_MB[i]) # {}
  BY <1>2, <1>4, KindIs
<1>5. ASSUME NEW i \in DOMAIN plans
      PROVE  LET p == plans[i]
                 B == BUDGETS_MB[i]
                 fitting == {c \in KS \X GS : PartsFit(c[1], B) /\ GroupFits(c[2], B)}
             IN /\ p.kind = "whole" <=> Fits(prof.whole, B)
                /\ p.kind = "infeasible" => fitting = {}
                /\ p.kind = "split" =>
                      /\ Cut(p) \in fitting /\ Fits(p.predicted_peak, B)
                      /\ p.steps = CountedSteps(p.proj_parts, p.blocks_per_step)
                      /\ \A c \in fitting : CountedSteps(c[1], c[2]) >= p.steps
                      /\ p.blocks_per_step = 1 => DOMAIN dispute_steps(p.proj_parts, nb + 2) = 0 .. p.steps - 1
  <2> DEFINE p == plans[i]
             B == BUDGETS_MB[i]
             fitting == {c \in KS \X GS : PartsFit(c[1], B) /\ GroupFits(c[2], B)}
             u == ProjParts(B)
             g == BlocksPerStep(B)
  <2>1. p = PlanFor(B) /\ B \in Nat
    BY <1>2
  <2>2. \A c \in fitting : c[1] \in FittingParts(B) /\ c[2] \in FittingGroups(B)
    BY DEF FittingParts, FittingGroups
  <2>3. p.kind = "whole" <=> Fits(prof.whole, B)
    BY <2>1, KindIs
  <2>4. ASSUME p.kind = "infeasible" PROVE fitting = {}
    <3>1. FittingParts(B) = {} \/ FittingGroups(B) = {}
      BY <2>1, <2>4, KindIs
    <3> QED
      BY <2>2, <3>1
  <2>5. ASSUME p.kind = "split"
        PROVE  /\ Cut(p) \in fitting /\ Fits(p.predicted_peak, B)
               /\ p.steps = CountedSteps(p.proj_parts, p.blocks_per_step)
               /\ \A c \in fitting : CountedSteps(c[1], c[2]) >= p.steps
               /\ p.blocks_per_step = 1 => DOMAIN dispute_steps(p.proj_parts, nb + 2) = 0 .. p.steps - 1
    <3>1. ~ Fits(prof.whole, B) /\ FittingParts(B) # {} /\ FittingGroups(B) # {}
      BY <1>3, <2>5
    <3>2. /\ p.proj_parts = u /\ p.blocks_per_step = g /\ p.steps = StepCount(u, g)
          /\ p.predicted_peak = Max({prof.proj[u], prof.join[u], prof.group[g]})
      BY <2>1, <3>1, KindIs
    <3>3. /\ u \in FittingParts(B) /\ g \in FittingGroups(B)
          /\ \A x \in FittingParts(B) : u <= x
          /\ \A x \in FittingGroups(B) : g >= x
      BY <2>1, <3>1, CutIs
    <3>4. u \in Nat \ {0} /\ g \in Nat \ {0} /\ u \in KS /\ g \in GS
      BY <3>3, PlannerNumbers DEF FittingParts, FittingGroups
    <3>5. Fits(p.predicted_peak, B)
      BY <1>1, <2>1, <3>1, <3>2, PeakFits
    <3> HIDE DEF u, g
    <3>6. Cut(p) \in fitting
      BY <3>2, <3>3, <3>4 DEF Cut, FittingParts, FittingGroups
    <3>7. p.steps = CountedSteps(p.proj_parts, p.blocks_per_step)
      BY <3>2, <3>4, StepCountCounts
    <3>8. ASSUME NEW c \in fitting PROVE CountedSteps(c[1], c[2]) >= p.steps
      <4>1. c[1] \in FittingParts(B) /\ c[2] \in FittingGroups(B)
        BY <2>2
      <4>2. c[1] \in Nat \ {0} /\ c[2] \in Nat \ {0}
        BY <4>1, PlannerNumbers DEF FittingParts, FittingGroups
      <4>3. u <= c[1] /\ c[2] <= g
        BY <3>3, <3>4, <4>1, <4>2
      <4>4. StepCount(c[1], c[2]) = CountedSteps(c[1], c[2])
        BY <4>2, StepCountCounts
      <4>7. StepCount(u, g) \in Nat /\ StepCount(u, g) <= StepCount(c[1], c[2])
        BY <3>4, <4>2, <4>3, StepCountMonotone
      <4>8. StepCount(c[1], c[2]) \in Nat
        BY <4>2, StepCountMonotone
      <4> QED
        BY <3>2, <4>4, <4>7, <4>8
    <3>9. ASSUME p.blocks_per_step = 1
          PROVE  DOMAIN dispute_steps(p.proj_parts, nb + 2) = 0 .. p.steps - 1
      <4>1. p.steps = u + 1 + CeilDiv(nb - 1, 1) + 1
        BY <3>2, <3>9 DEF StepCount
      <4>2. CeilDiv(nb - 1, 1) = nb - 1
        BY PlannerNumbers DEF CeilDiv
      <4>3. p.steps - 1 = u + (nb + 2) - 2
        BY <3>4, <4>1, <4>2, PlannerNumbers
      <4> QED
        BY <3>2, <4>3 DEF dispute_steps
    <3> QED
      BY <3>5, <3>6, <3>7, <3>8, <3>9
  <2> QED
    BY <2>3, <2>4, <2>5
<1>6. ASSUME NEW i \in DOMAIN plans, NEW j \in DOMAIN plans,
             BUDGETS_MB[i] <= BUDGETS_MB[j], plans[i].kind # "infeasible"
      PROVE  plans[j].kind # "infeasible" /\ plans[j].steps <= plans[i].steps
  <2> DEFINE B == BUDGETS_MB[i]
             More == BUDGETS_MB[j]
  <2>1. B \in Nat /\ More \in Nat /\ B <= More /\ plans[i] = PlanFor(B) /\ plans[j] = PlanFor(More)
    BY <1>2, <1>6
  <2>2. /\ FittingParts(B) \subseteq FittingParts(More) /\ FittingGroups(B) \subseteq FittingGroups(More)
        /\ Fits(prof.whole, B) => Fits(prof.whole, More)
    BY <1>1, <2>1, FittingGrows
  <2>3. CASE Fits(prof.whole, More)
    <3>1. plans[j].kind = "whole" /\ plans[j].steps = 1
      BY <2>1, <2>3, WholeIs
    <3>2. CASE Fits(prof.whole, B)
      <4>1. plans[i].steps = 1
        BY <2>1, <3>2, WholeIs
      <4> QED
        BY <3>1, <4>1
    <3>3. CASE ~ Fits(prof.whole, B)
      <4>1. FittingParts(B) # {} /\ FittingGroups(B) # {}
        BY <1>4, <1>6, <3>3
      <4>2. plans[i].steps = StepCount(ProjParts(B), BlocksPerStep(B))
        BY <2>1, <3>3, <4>1, KindIs
      <4>3. ProjParts(B) \in Nat /\ BlocksPerStep(B) \in Nat \ {0}
        BY <2>1, <4>1, CutIs, PlannerNumbers DEF FittingParts, FittingGroups
      <4>4. StepCount(ProjParts(B), BlocksPerStep(B)) \in Nat /\ StepCount(ProjParts(B), BlocksPerStep(B)) >= 3
        BY <4>3, StepCountMonotone
      <4> QED
        BY <3>1, <4>2, <4>4
    <3> QED
      BY <3>2, <3>3
  <2>4. CASE ~ Fits(prof.whole, More)
    <3>1. ~ Fits(prof.whole, B) /\ FittingParts(B) # {} /\ FittingGroups(B) # {}
      BY <1>4, <1>6, <2>2, <2>4
    <3>2. FittingParts(More) # {} /\ FittingGroups(More) # {}
      BY <2>2, <3>1
    <3>3. /\ plans[i].steps = StepCount(ProjParts(B), BlocksPerStep(B))
          /\ plans[j].kind = "split" /\ plans[j].steps = StepCount(ProjParts(More), BlocksPerStep(More))
      BY <2>1, <2>4, <3>1, <3>2, KindIs
    <3>4. ProjParts(B) \in FittingParts(More) /\ BlocksPerStep(B) \in FittingGroups(More)
      BY <2>1, <2>2, <3>1, CutIs
    <3>5. ProjParts(More) <= ProjParts(B) /\ BlocksPerStep(More) >= BlocksPerStep(B)
      BY <2>1, <3>2, <3>4, CutIs
    <3>6. ProjParts(More) \in FittingParts(More) /\ BlocksPerStep(More) \in FittingGroups(More)
      BY <2>1, <3>2, CutIs
    <3>7. /\ ProjParts(B) \in Nat /\ BlocksPerStep(B) \in Nat \ {0}
          /\ ProjParts(More) \in Nat /\ BlocksPerStep(More) \in Nat \ {0}
      BY <3>4, <3>6, PlannerNumbers DEF FittingParts, FittingGroups
    <3>8. StepCount(ProjParts(More), BlocksPerStep(More)) <= StepCount(ProjParts(B), BlocksPerStep(B))
      BY <3>5, <3>7, StepCountMonotone
    <3> QED
      BY <3>3, <3>8
  <2> QED
    BY <2>3, <2>4
<1>7. ASSUME NEW i \in DOMAIN plans, plans[i].kind = "split", Cut(plans[i]) \in DOMAIN measured,
             9 * measured[Cut(plans[i])] <= 10 * plans[i].predicted_peak
      PROVE  within_budget(i)
  <2> DEFINE B == BUDGETS_MB[i]
             peak == plans[i].predicted_peak
             found == measured[Cut(plans[i])]
  <2>1. B \in Nat /\ plans[i] = PlanFor(B)
    BY <1>2
  <2>2. ~ Fits(prof.whole, B) /\ FittingParts(B) # {} /\ FittingGroups(B) # {}
    BY <1>3, <1>7
  <2>8. peak = Max({prof.proj[ProjParts(B)], prof.join[ProjParts(B)], prof.group[BlocksPerStep(B)]})
    BY <2>1, <2>2, KindIs
  <2>3. peak \in Nat /\ Fits(peak, B)
    BY <1>1, <2>1, <2>2, <2>8, PeakFits
  <2>4. found \in Nat
    BY <1>7 DEF PlanInv, MeasuredInv
  <2>5. 9 * found <= 10 * peak
    BY <1>7
  <2> HIDE DEF B, peak, found
  <2>6. found <= B
    BY <2>1, <2>3, <2>4, <2>5 DEF Fits
  <2> QED
    BY <2>6 DEF within_budget, B, found
<1> QED
  BY <1>5, <1>6, <1>7 DEF PlansFit

\* A plan keeps the rounds it announces, and they are those of the longest bisection of its steps.
LEMMA PlanInvRounds == PlanInv => RoundsAreLongest
<1> SUFFICES ASSUME PlanInv, NEW i \in DOMAIN plans, plans[i].kind = "split"
             PROVE  plans[i].bisection_rounds = Longest(plans[i].steps)
  BY DEF RoundsAreLongest
<1> DEFINE B == BUDGETS_MB[i]
           p == ProjParts(B)
           g == BlocksPerStep(B)
<1>1. plans[i] = PlanFor(B) /\ B \in Nat
  BY PlannerNumbers DEF PlanInv, MadeInv
<1>2. ~ Fits(prof.whole, B) /\ FittingParts(B) # {} /\ FittingGroups(B) # {}
  BY <1>1, KindIs
<1>3. PlanFor(B).steps = StepCount(p, g) /\ PlanFor(B).bisection_rounds = CeilLog2(StepCount(p, g))
  BY <1>2 DEF PlanFor, Split, FittingParts, FittingGroups
<1>4. StepCount(p, g) \in Nat \ {0}
  <2>1. p \in Nat \ {0} /\ g \in Nat \ {0}
    BY <1>1, <1>2, CutIs, PlannerNumbers DEF FittingParts, FittingGroups
  <2>2. CeilDiv(nb - 1, g) \in Nat
    BY <2>1, CeilDivIs
  <2> HIDE DEF p, g
  <2> QED
    BY <2>1, <2>2 DEF StepCount
<1> HIDE DEF p, g, B
<1> QED
  BY <1>1, <1>3, <1>4, LongestIsCeilLog2

\* memory_planner.py, for every profile and every list of budgets: a plan fits what it was made
\* for, no fitting cut has fewer steps, a larger budget never gets a dearer plan, and the rounds
\* announced are those of the longest dispute.
THEOREM PlansAreRight == PlanSpec => []PlansAreSound
<1>1. PlanSpec => []PlanInv
  BY PlanInitInv, PlanNextInv, PTL DEF PlanSpec
<1>2. PlanInv => PlansAreSound
  BY PlanInvFits, PlanInvRounds DEF PlansAreSound
<1> QED
  BY <1>1, <1>2, PTL


------------------------------------------------------------------------------
(* The scripts.  A run of the model and the traces committed of it.         *)

LEMMA PlayFacts ==
    /\ Steps = 0 .. Last /\ Last \in Nat /\ Last >= 1 /\ Last + 1 = NSteps /\ tx \in TxInput
    /\ TrueLeaf[tx] \in [Steps -> Leaf] /\ Leaf # {} /\ Junk \notin Leaf /\ NoStep \notin Steps
<1>1. TrueLeaf[tx] \in [Steps -> Leaf] /\ 0 \in Steps
  BY StepFacts, TrueLeafAssumption, PlayAssumption
<1> QED
  BY <1>1, ModelAssumption, TraceAssumption, PlayAssumption DEF Steps, Last, NoStep

\* Induction along the steps of the model.
LEMMA StepInduction ==
    ASSUME NEW S, \A n \in Steps : (\A m \in 0 .. n - 1 : m \in S) => n \in S
    PROVE  \A n \in Steps : n \in S
<1> DEFINE T == {n \in Nat : n \in Steps => n \in S}
<1>1. ASSUME NEW n \in Nat, \A m \in 0 .. n - 1 : m \in T PROVE n \in T
  <2>1. n \in Steps => \A m \in 0 .. n - 1 : m \in Steps
    BY PlayFacts
  <2> QED
    BY <1>1, <2>1
<1> HIDE DEF T
<1>2. T \in SUBSET Nat
  BY DEF T
<1>3. T = Nat
  BY <1>1, <1>2, NatSets
<1> QED
  BY <1>3, PlayFacts DEF T

------------------------------------------------------------------------------
(* run_steps                                                                 *)

\* What step n outputs in a run with the outputs o so far, tampered with at step c.
OutOf(n, o, c) ==
    LET v == StepOut(n, [j \in StepInputs[n] |-> IF j = -1 THEN tx ELSE o[j]])
    IN IF n = c THEN corrupt_fn(v) ELSE v

RunOn(o, c) == o = [n \in Steps |-> OutOf(n, o, c)]

LEMMA RunIs == ASSUME NEW c PROVE run_steps(c) = CHOOSE o : RunOn(o, c)
  BY DEF run_steps, RunOn, OutOf

LEMMA OutIsLeaf ==
    ASSUME NEW n \in Steps, NEW o \in [Steps -> Leaf], NEW c
    PROVE  OutOf(n, o, c) \in Leaf
<1> DEFINE ins == [j \in StepInputs[n] |-> IF j = -1 THEN tx ELSE o[j]]
<1>1. \A j \in StepInputs[n] : j = -1 \/ j \in Steps
  BY ModelAssumption DEF Steps
<1>2. ins \in [StepInputs[n] -> Leaf \cup {tx}]
  BY <1>1
<1>3. StepOut(n, ins) \in Leaf
  BY <1>2, LeafAssumption
<1> QED
  BY <1>3, LeafAssumption DEF OutOf

LEMMA OutIsLocal ==
    ASSUME NEW n \in Steps, NEW c, NEW g, NEW h, \A m \in 0 .. n - 1 : g[m] = h[m]
    PROVE  OutOf(n, g, c) = OutOf(n, h, c)
<1>1. \A j \in StepInputs[n] : j = -1 \/ j \in 0 .. n - 1
  BY ModelAssumption DEF Steps
<1>2. [j \in StepInputs[n] |-> IF j = -1 THEN tx ELSE g[j]] = [j \in StepInputs[n] |-> IF j = -1 THEN tx ELSE h[j]]
  BY <1>1
<1> QED
  BY <1>2 DEF OutOf

LEMMA RunExists ==
    ASSUME NEW c
    PROVE  run_steps(c) \in [Steps -> Leaf] /\ \A n \in Steps : run_steps(c)[n] = OutOf(n, run_steps(c), c)
<1> DEFINE Fn == [n \in 0 .. Last |-> [o \in [0 .. Last -> Leaf] |-> OutOf(n, o, c)]]
<1>1. Computes(Fn, Last, Leaf)
  <2>1. Fn \in [0 .. Last -> [[0 .. Last -> Leaf] -> Leaf]]
    BY OutIsLeaf, PlayFacts
  <2>2. ASSUME NEW n \in 0 .. Last, NEW g \in [0 .. Last -> Leaf], NEW h \in [0 .. Last -> Leaf],
               \A m \in 0 .. n - 1 : g[m] = h[m]
        PROVE  Fn[n][g] = Fn[n][h]
    BY <2>2, OutIsLocal, PlayFacts
  <2> HIDE DEF Fn
  <2> QED
    BY <2>1, <2>2 DEF Computes
<1>2. \A n \in 0 .. Last : \A o \in [0 .. Last -> Leaf] : Fn[n][o] = OutOf(n, o, c)
  OBVIOUS
<1> HIDE DEF Fn
<1>3. PICK o : Tabulates(o, Fn, Last, Leaf)
  BY <1>1, PlayFacts, TableExists
<1>4. o \in [Steps -> Leaf] /\ \A n \in Steps : o[n] = OutOf(n, o, c)
  BY <1>2, <1>3, PlayFacts DEF Tabulates
<1>5. RunOn(o, c)
  BY <1>4 DEF RunOn
<1>6. RunOn(run_steps(c), c)
  BY <1>5, RunIs
<1> DEFINE u == run_steps(c)
<1> HIDE DEF u
<1>7. u = [n \in Steps |-> OutOf(n, u, c)]
  BY <1>6 DEF RunOn, u
<1>8. \A n \in Steps : u[n] = OutOf(n, u, c)
  BY <1>7
<1> DEFINE S == {n \in Steps : u[n] \in Leaf}
<1>9. ASSUME NEW n \in Steps, \A m \in 0 .. n - 1 : m \in S PROVE n \in S
  <2> DEFINE w == [m \in Steps |-> IF m < n THEN u[m] ELSE TrueLeaf[tx][m]]
  <2>1. w \in [Steps -> Leaf]
    BY <1>9, PlayFacts
  <2>2. \A m \in 0 .. n - 1 : w[m] = u[m]
    BY PlayFacts
  <2> HIDE DEF w
  <2>3. OutOf(n, w, c) = OutOf(n, u, c) /\ OutOf(n, w, c) \in Leaf
    BY <2>1, <2>2, OutIsLocal, OutIsLeaf
  <2> QED
    BY <1>8, <2>3
<1> HIDE DEF S
<1>10. \A n \in Steps : n \in S
  BY <1>9, StepInduction
<1>11. \A n \in Steps : u[n] \in Leaf
  BY <1>10 DEF S
<1>12. u \in [Steps -> Leaf]
  BY <1>7, <1>11
<1> QED
  BY <1>8, <1>12 DEF u

\* A run is the run of the model up to where it is tampered with.
LEMMA RunAgrees ==
    ASSUME NEW c
    PROVE  \A n \in Steps : (\A m \in 0 .. n : m # c) => run_steps(c)[n] = TrueLeaf[tx][n]
<1> DEFINE u == run_steps(c)
           S == {n \in Steps : (\A m \in 0 .. n : m # c) => u[n] = TrueLeaf[tx][n]}
<1>1. ASSUME NEW n \in Steps, \A m \in 0 .. n - 1 : m \in S PROVE n \in S
  <2>1. SUFFICES ASSUME \A m \in 0 .. n : m # c PROVE u[n] = TrueLeaf[tx][n]
    OBVIOUS
  <2>2. \A m \in 0 .. n - 1 : u[m] = TrueLeaf[tx][m]
    BY <1>1, <2>1, PlayFacts
  <2>3. u[n] = OutOf(n, u, c)
    BY RunExists
  <2> HIDE DEF u
  <2>4. OutOf(n, u, c) = OutOf(n, TrueLeaf[tx], c)
    BY <2>2, OutIsLocal
  <2>5. OutOf(n, TrueLeaf[tx], c) = StepOut(n, [j \in StepInputs[n] |-> IF j = -1 THEN tx ELSE TrueLeaf[tx][j]])
    BY <2>1, PlayFacts DEF OutOf
  <2> QED
    BY <2>3, <2>4, <2>5, TrueLeafAssumption, PlayFacts
<1> HIDE DEF S
<1>2. \A n \in Steps : n \in S
  BY <1>1, StepInduction
<1> QED
  BY <1>2 DEF S

LEMMA HonestRun == run_steps(NoStep) = TrueLeaf[tx]
<1>1. run_steps(NoStep) \in [Steps -> Leaf] /\ \A n \in Steps : run_steps(NoStep)[n] = TrueLeaf[tx][n]
  <2>1. \A n \in Steps : \A m \in 0 .. n : m # NoStep
    BY DEF NoStep
  <2> QED
    BY <2>1, RunExists, RunAgrees
<1> QED
  BY <1>1, PlayFacts

\* The tampered output is a wrong one.
LEMMA TamperedRun == ASSUME NEW c \in Steps PROVE run_steps(c)[c] # TrueLeaf[tx][c]
<1> DEFINE u == run_steps(c)
           v == StepOut(c, [j \in StepInputs[c] |-> IF j = -1 THEN tx ELSE TrueLeaf[tx][j]])
<1>1. \A m \in 0 .. c - 1 : u[m] = TrueLeaf[tx][m]
  BY RunAgrees, PlayFacts
<1>2. u[c] = OutOf(c, u, c)
  BY RunExists
<1> HIDE DEF u
<1>3. OutOf(c, u, c) = OutOf(c, TrueLeaf[tx], c)
  BY <1>1, OutIsLocal
<1>4. v = TrueLeaf[tx][c] /\ v \in Leaf
  BY TrueLeafAssumption, PlayFacts
<1>5. OutOf(c, TrueLeaf[tx], c) = corrupt_fn(v)
  BY DEF OutOf
<1> HIDE DEF v
<1> QED
  BY <1>2, <1>3, <1>4, <1>5, LeafAssumption DEF u

------------------------------------------------------------------------------
(* commit_trace                                                              *)

Hashed(n, P, outs, g) == IF n = g THEN <<Junk>> ELSE Append(IF n = 0 THEN <<>> ELSE P[n - 1], outs[n])

ChainOn(P, outs, g) == P = [n \in Steps |-> Hashed(n, P, outs, g)]

ChainOf(outs, g) == CHOOSE P : ChainOn(P, outs, g)

LEMMA TraceIs ==
    ASSUME NEW outs, NEW g
    PROVE  commit_trace(outs, g) = [n \in Steps |-> [leaf |-> outs[n], prefix |-> ChainOf(outs, g)[n]]]
  BY DEF commit_trace, ChainOf, ChainOn, Hashed

LEMMA HashedIsPrefix ==
    ASSUME NEW n \in Steps, NEW outs \in [Steps -> Leaf], NEW g, NEW P, n = 0 \/ P[n - 1] \in Prefix
    PROVE  Hashed(n, P, outs, g) \in Prefix
<1>1. outs[n] \in Leaf \cup {Junk} /\ Junk \in Leaf \cup {Junk}
  OBVIOUS
<1>2. <<>> \in Prefix
  BY DEF Prefix
<1>3. \A p \in Prefix : Append(p, outs[n]) \in Prefix
  BY <1>1 DEF Prefix
<1>4. <<Junk>> \in Prefix
  BY DEF Prefix
<1> QED
  BY <1>2, <1>3, <1>4 DEF Hashed

LEMMA ChainExists ==
    ASSUME NEW outs \in [Steps -> Leaf], NEW g
    PROVE  LET P == ChainOf(outs, g)
           IN P \in [Steps -> Prefix] /\ \A n \in Steps : P[n] = Hashed(n, P, outs, g)
<1> DEFINE Fn == [n \in 0 .. Last |-> [P \in [0 .. Last -> Prefix] |-> Hashed(n, P, outs, g)]]
<1>1. Computes(Fn, Last, Prefix)
  <2>1. ASSUME NEW n \in 0 .. Last, NEW P \in [0 .. Last -> Prefix] PROVE Hashed(n, P, outs, g) \in Prefix
    <3>1. n \in Steps /\ (n = 0 \/ n - 1 \in 0 .. Last)
      BY PlayFacts
    <3> QED
      BY <3>1, HashedIsPrefix
  <2>2. Fn \in [0 .. Last -> [[0 .. Last -> Prefix] -> Prefix]]
    BY <2>1
  <2>3. ASSUME NEW n \in 0 .. Last, NEW P \in [0 .. Last -> Prefix], NEW Q \in [0 .. Last -> Prefix],
               \A m \in 0 .. n - 1 : P[m] = Q[m]
        PROVE  Fn[n][P] = Fn[n][Q]
    <3>1. n = 0 \/ n - 1 \in 0 .. n - 1
      OBVIOUS
    <3> QED
      BY <2>3, <3>1 DEF Hashed
  <2> HIDE DEF Fn
  <2> QED
    BY <2>2, <2>3 DEF Computes
<1>2. \A n \in 0 .. Last : \A P \in [0 .. Last -> Prefix] : Fn[n][P] = Hashed(n, P, outs, g)
  OBVIOUS
<1>3. Prefix # {}
  <2>1. <<>> \in Prefix
    BY DEF Prefix
  <2> QED
    BY <2>1
<1> HIDE DEF Fn
<1>4. PICK P : Tabulates(P, Fn, Last, Prefix)
  BY <1>1, <1>3, PlayFacts, TableExists
<1>5. P \in [Steps -> Prefix] /\ \A n \in Steps : P[n] = Hashed(n, P, outs, g)
  BY <1>2, <1>4, PlayFacts DEF Tabulates
<1>6. ChainOn(P, outs, g)
  BY <1>5 DEF ChainOn
<1>7. ChainOn(ChainOf(outs, g), outs, g)
  BY <1>6 DEF ChainOf
<1> DEFINE U == ChainOf(outs, g)
           S == {n \in Steps : U[n] \in Prefix}
<1> HIDE DEF U
<1>8. U = [n \in Steps |-> Hashed(n, U, outs, g)]
  BY <1>7 DEF ChainOn, U
<1>9. \A n \in Steps : U[n] = Hashed(n, U, outs, g)
  BY <1>8
<1>10. ASSUME NEW n \in Steps, \A m \in 0 .. n - 1 : m \in S PROVE n \in S
  <2>1. n = 0 \/ n - 1 \in 0 .. n - 1
    BY PlayFacts
  <2>2. n = 0 \/ U[n - 1] \in Prefix
    BY <1>10, <2>1
  <2> QED
    BY <1>9, <2>2, HashedIsPrefix
<1> HIDE DEF S
<1>11. \A n \in Steps : n \in S
  BY <1>10, StepInduction
<1>12. U \in [Steps -> Prefix]
  BY <1>8, <1>11 DEF S
<1> QED
  BY <1>9, <1>12 DEF U

LEMMA TraceFacts ==
    ASSUME NEW outs \in [Steps -> Leaf], NEW g
    PROVE  LET T == commit_trace(outs, g)
           IN /\ T \in [Steps -> Opening]
              /\ \A n \in Steps :
                    /\ T[n].leaf = outs[n]
                    /\ T[n].prefix = IF n = g THEN <<Junk>>
                                     ELSE Append(IF n = 0 THEN <<>> ELSE T[n - 1].prefix, outs[n])
<1> DEFINE T == commit_trace(outs, g)
           P == ChainOf(outs, g)
<1>1. T = [n \in Steps |-> [leaf |-> outs[n], prefix |-> P[n]]]
  BY TraceIs
<1>2. P \in [Steps -> Prefix] /\ \A n \in Steps : P[n] = Hashed(n, P, outs, g)
  BY ChainExists
<1> HIDE DEF P, T
<1>3. T \in [Steps -> Opening]
  BY <1>1, <1>2 DEF Opening
<1>4. \A n \in Steps : n = 0 \/ n - 1 \in Steps
  BY PlayFacts
<1>5. ASSUME NEW n \in Steps
      PROVE  /\ T[n].leaf = outs[n]
             /\ T[n].prefix = IF n = g THEN <<Junk>>
                              ELSE Append(IF n = 0 THEN <<>> ELSE T[n - 1].prefix, outs[n])
  BY <1>1, <1>2, <1>4 DEF Hashed
<1> QED
  BY <1>3, <1>5 DEF T

\* The step after which a run of the scenario is tampered with, and where garbage is committed.
Corrupted(sc) == IF malformed(sc) THEN sc.step + 1 ELSE sc.step
Garbage(sc)   == IF malformed(sc) THEN sc.step ELSE NoStep

LEMMA ScenarioFacts ==
    ASSUME NEW sc \in SCENARIOS
    PROVE  /\ sc.step \in Steps /\ Corrupted(sc) \in Steps /\ sc.step <= Corrupted(sc)
           /\ sc.cheat \in {"asserter", "challenger", "asserter_malformed_chain"}
           /\ malformed(sc) => sc.step # Last
           /\ ~ malformed(sc) => Corrupted(sc) = sc.step /\ Garbage(sc) = NoStep
           /\ Badly(sc) = commit_trace(run_steps(Corrupted(sc)), Garbage(sc))
<1>1. sc.step \in Steps /\ sc.cheat \in {"asserter", "challenger", "asserter_malformed_chain"}
      /\ (malformed(sc) => sc.step # Last)
  BY DEF SCENARIOS, malformed
<1>2. sc.step \in Steps \ {Last} => sc.step + 1 \in Steps
  BY PlayFacts
<1> QED
  BY <1>1, <1>2, PlayFacts DEF Corrupted, Garbage, Badly, malformed

LEMMA AppendSame ==
    ASSUME NEW p \in Prefix, NEW q \in Prefix, NEW a \in Leaf \cup {Junk}, NEW b \in Leaf \cup {Junk},
           Append(p, a) = Append(q, b)
    PROVE  p = q /\ a = b
<1>1. p \in Seq(Leaf \cup {Junk}) /\ q \in Seq(Leaf \cup {Junk})
  BY DEF Prefix
<1>2. Len(p) = Len(q)
  BY <1>1, LenProperties
<1>3. \A n \in 1 .. Len(p) : Append(p, a)[n] = p[n] /\ Append(q, b)[n] = q[n]
  BY <1>1, <1>2
<1>4. Append(p, a)[Len(p) + 1] = a /\ Append(q, b)[Len(p) + 1] = b
  BY <1>1, <1>2
<1>5. p = q
  BY <1>1, <1>2, <1>3, SeqEqual
<1> QED
  BY <1>4, <1>5

LEMMA TruePrefixAt ==
    ASSUME NEW n \in Steps
    PROVE  /\ TruePrefix(tx, n) \in Prefix /\ TruePrefix(tx, n - 1) \in Prefix
           /\ TruePrefix(tx, n) = Append(TruePrefix(tx, n - 1), TrueLeaf[tx][n])
           /\ n = 0 => TruePrefix(tx, n - 1) = <<>>
<1>1. n \in -1 .. Last /\ n - 1 \in -1 .. Last /\ tx \in TxInput
  BY PlayFacts
<1>2. TruePrefix(tx, n) \in Prefix
  BY <1>1, TruePrefixIs
<1>3. TruePrefix(tx, n - 1) \in Prefix
  BY <1>1, TruePrefixIs
<1>4. TruePrefix(tx, n) = Append(TruePrefix(tx, n - 1), TrueLeaf[tx][n])
  BY <1>1, TruePrefixStep
<1>5. n = 0 => n - 1 = -1
  OBVIOUS
<1>6. n = 0 => TruePrefix(tx, n - 1) = <<>>
  BY <1>1, <1>5, TruePrefixEmpty
<1> QED
  BY <1>2, <1>3, <1>4, <1>6

\* What the script commits for an honest run is the honest trace.
LEMMA HonestTrace == Honestly = TrueTrace(tx)
<1> DEFINE T == commit_trace(TrueLeaf[tx], NoStep)
           S == {n \in Steps : T[n].prefix = TruePrefix(tx, n)}
<1>1. Honestly = T
  BY HonestRun DEF Honestly
<1>2. /\ T \in [Steps -> Opening]
      /\ \A n \in Steps : /\ T[n].leaf = TrueLeaf[tx][n]
                          /\ T[n].prefix = Append(IF n = 0 THEN <<>> ELSE T[n - 1].prefix, TrueLeaf[tx][n])
  <2>1. /\ T \in [Steps -> Opening]
        /\ \A n \in Steps : /\ T[n].leaf = TrueLeaf[tx][n]
                            /\ T[n].prefix = IF n = NoStep THEN <<Junk>>
                                             ELSE Append(IF n = 0 THEN <<>> ELSE T[n - 1].prefix, TrueLeaf[tx][n])
    BY TraceFacts, PlayFacts
  <2> HIDE DEF T
  <2>2. \A n \in Steps : n # NoStep
    BY PlayFacts
  <2> QED
    BY <2>1, <2>2
<1> HIDE DEF T
<1>3. ASSUME NEW n \in Steps, \A m \in 0 .. n - 1 : m \in S PROVE n \in S
  <2>1. n # 0 => T[n - 1].prefix = TruePrefix(tx, n - 1)
    BY <1>3, PlayFacts
  <2> QED
    BY <1>2, <2>1, TruePrefixAt
<1> HIDE DEF S
<1>4. \A n \in Steps : T[n].prefix = TruePrefix(tx, n)
  BY <1>3, StepInduction DEF S
<1>5. \A n \in Steps : T[n] = [leaf |-> TrueLeaf[tx][n], prefix |-> TruePrefix(tx, n)]
  BY <1>2, <1>4 DEF Opening
<1> QED
  BY <1>1, <1>2, <1>5 DEF TrueTrace

\* A tampered trace: honest before the step, another prefix from there on.
LEMMA BadTrace ==
    ASSUME NEW sc \in SCENARIOS
    PROVE  LET T == Badly(sc)
               b == sc.step
           IN /\ T \in [Steps -> Opening]
              /\ \A n \in Steps : T[n].prefix = TruePrefix(tx, n) <=> n < b
              /\ \A n \in Steps : n < b => T[n].leaf = TrueLeaf[tx][n]
              /\ T[b].leaf = TrueLeaf[tx][b] <=> malformed(sc)
              /\ \A n \in Steps : T[n].prefix = Append(IF n = 0 THEN <<>> ELSE T[n - 1].prefix, T[n].leaf)
                                    <=> ~ (malformed(sc) /\ n = b)
<1> DEFINE outs == run_steps(Corrupted(sc))
           T == Badly(sc)
           b == sc.step
           g == Garbage(sc)
<1>0. /\ b \in Steps /\ Corrupted(sc) \in Steps /\ b <= Corrupted(sc) /\ g = IF malformed(sc) THEN b ELSE NoStep
      /\ ~ malformed(sc) => Corrupted(sc) = b
      /\ malformed(sc) => Corrupted(sc) = b + 1
  BY ScenarioFacts DEF Garbage, Corrupted
<1>1. outs \in [Steps -> Leaf]
  BY RunExists
<1>2. T = commit_trace(outs, g)
  BY ScenarioFacts
<1>3. \A n \in Steps : n < Corrupted(sc) => outs[n] = TrueLeaf[tx][n]
  <2>1. ASSUME NEW n \in Steps, n < Corrupted(sc) PROVE \A m \in 0 .. n : m # Corrupted(sc)
    BY <1>0, <2>1, PlayFacts
  <2> QED
    BY <2>1, RunAgrees
<1>4. outs[Corrupted(sc)] # TrueLeaf[tx][Corrupted(sc)]
  BY <1>0, TamperedRun
<1> HIDE DEF outs, T, g
<1>5. T \in [Steps -> Opening]
  BY <1>1, <1>2, TraceFacts
<1>6. \A n \in Steps : /\ T[n].leaf = outs[n]
                       /\ T[n].prefix = IF n = g THEN <<Junk>>
                                        ELSE Append(IF n = 0 THEN <<>> ELSE T[n - 1].prefix, outs[n])
  BY <1>1, <1>2, TraceFacts
<1> HIDE DEF b
<1>7. ASSUME NEW n \in Steps
      PROVE  /\ T[n].prefix \in Prefix /\ T[n].leaf \in Leaf
             /\ n # 0 => n - 1 \in Steps /\ T[n - 1].prefix \in Prefix
             /\ (IF n = 0 THEN <<>> ELSE T[n - 1].prefix) \in Prefix
  <2>1. n # 0 => n - 1 \in Steps
    BY PlayFacts
  <2>2. <<>> \in Prefix
    BY DEF Prefix
  <2> QED
    BY <1>5, <2>1, <2>2 DEF Opening
<1>8. \A n \in Steps : n < b => T[n].prefix = TruePrefix(tx, n)
  <2> DEFINE S == {n \in Steps : n < b => T[n].prefix = TruePrefix(tx, n)}
  <2>1. ASSUME NEW n \in Steps, \A m \in 0 .. n - 1 : m \in S PROVE n \in S
    <3>1. SUFFICES ASSUME n < b PROVE T[n].prefix = TruePrefix(tx, n)
      OBVIOUS
    <3>2. n # g /\ outs[n] = TrueLeaf[tx][n]
      BY <1>0, <1>3, <3>1, PlayFacts
    <3>3. n # 0 => T[n - 1].prefix = TruePrefix(tx, n - 1)
      BY <2>1, <3>1, <1>0, PlayFacts
    <3> QED
      BY <1>6, <3>2, <3>3, TruePrefixAt
  <2> HIDE DEF S
  <2> QED
    BY <2>1, StepInduction DEF S
<1>9. T[b].prefix # TruePrefix(tx, b)
  <2>1. CASE malformed(sc)
    <3>1. T[b].prefix = <<Junk>>
      BY <1>0, <1>6, <2>1
    <3>2. b \in -1 .. Last
      BY <1>0, PlayFacts
    <3>3. TruePrefix(tx, b) \in Seq(Leaf) /\ Len(TruePrefix(tx, b)) = b + 1
      BY <3>2, PlayFacts, TruePrefixIs
    <3>4. ASSUME <<Junk>> = TruePrefix(tx, b) PROVE FALSE
      <4>1. Len(<<Junk>>) = 1 /\ <<Junk>>[1] = Junk
        OBVIOUS
      <4>2. TruePrefix(tx, b)[1] \in Leaf
        BY <3>3, <3>4, <4>1
      <4> QED
        BY <3>4, <4>1, <4>2, PlayFacts
    <3> QED
      BY <3>1, <3>4
  <2>2. CASE ~ malformed(sc)
    <3>1. T[b].prefix = Append(IF b = 0 THEN <<>> ELSE T[b - 1].prefix, outs[b]) /\ outs[b] # TrueLeaf[tx][b]
      BY <1>0, <1>4, <1>6, <2>2, PlayFacts
    <3>2. outs[b] \in Leaf /\ TrueLeaf[tx][b] \in Leaf
      BY <1>0, <1>1, PlayFacts
    <3> QED
      BY <1>0, <1>7, <3>1, <3>2, AppendSame, TruePrefixAt
  <2> QED
    BY <2>1, <2>2
<1>10. \A n \in Steps : n >= b => T[n].prefix # TruePrefix(tx, n)
  <2> DEFINE S == {n \in Steps : n >= b => T[n].prefix # TruePrefix(tx, n)}
  <2>1. ASSUME NEW n \in Steps, \A m \in 0 .. n - 1 : m \in S PROVE n \in S
    <3>1. SUFFICES ASSUME n > b PROVE T[n].prefix # TruePrefix(tx, n)
      BY <1>0, <1>9, PlayFacts
    <3>2. n # g /\ n # 0 /\ n - 1 \in 0 .. n - 1 /\ n - 1 >= b
      BY <1>0, <3>1, PlayFacts
    <3>3. T[n - 1].prefix # TruePrefix(tx, n - 1)
      BY <2>1, <3>2
    <3>4. T[n].prefix = Append(T[n - 1].prefix, outs[n])
      BY <1>6, <3>2
    <3>5. outs[n] \in Leaf /\ TrueLeaf[tx][n] \in Leaf
      BY <1>1, PlayFacts
    <3>6. n - 1 \in Steps /\ T[n - 1].prefix \in Prefix
      BY <1>7, <3>2
    <3>7. /\ TruePrefix(tx, n - 1) \in Prefix
          /\ TruePrefix(tx, n) = Append(TruePrefix(tx, n - 1), TrueLeaf[tx][n])
      BY TruePrefixAt
    <3>8. ASSUME T[n].prefix = TruePrefix(tx, n) PROVE FALSE
      <4>1. Append(T[n - 1].prefix, outs[n]) = Append(TruePrefix(tx, n - 1), TrueLeaf[tx][n])
        BY <3>4, <3>7, <3>8
      <4>2. T[n - 1].prefix = TruePrefix(tx, n - 1)
        BY <3>5, <3>6, <3>7, <4>1, AppendSame
      <4> QED
        BY <3>3, <4>2
    <3> QED
      BY <3>8
  <2> HIDE DEF S
  <2> QED
    BY <2>1, StepInduction DEF S
<1>11. \A n \in Steps : T[n].prefix = TruePrefix(tx, n) <=> n < b
  BY <1>0, <1>8, <1>10, PlayFacts
<1>12. \A n \in Steps : n < b => T[n].leaf = TrueLeaf[tx][n]
  BY <1>0, <1>3, <1>6, PlayFacts
<1>13. T[b].leaf = TrueLeaf[tx][b] <=> malformed(sc)
  BY <1>0, <1>3, <1>4, <1>6, PlayFacts
<1>14. ASSUME NEW n \in Steps
       PROVE  T[n].prefix = Append(IF n = 0 THEN <<>> ELSE T[n - 1].prefix, T[n].leaf)
                 <=> ~ (malformed(sc) /\ n = b)
  <2>1. CASE n # g
    BY <1>0, <1>6, <2>1, PlayFacts
  <2>2. CASE n = g
    <3>1. malformed(sc) /\ n = b
      BY <1>0, <2>2, PlayFacts
    <3> DEFINE p == IF n = 0 THEN <<>> ELSE T[n - 1].prefix
    <3>2. T[n].prefix = Append(<<>>, Junk) /\ <<>> \in Prefix /\ p \in Prefix
      BY <1>6, <1>7, <2>2 DEF Prefix
    <3>3. outs[n] \in Leaf /\ T[n].leaf = outs[n]
      BY <1>1, <1>6
    <3> HIDE DEF p
    <3>4. Append(<<>>, Junk) # Append(p, T[n].leaf)
      BY <3>2, <3>3, AppendSame, PlayFacts
    <3> QED
      BY <3>1, <3>2, <3>4 DEF p
  <2> QED
    BY <2>1, <2>2
<1> QED
  BY <1>5, <1>11, <1>12, <1>13, <1>14 DEF T, b

LEMMA LeastNat ==
    ASSUME NEW S \in SUBSET Nat, NEW e \in S
    PROVE  Min(S) \in S /\ \A n \in S : Min(S) <= n
<1>1. PICK l \in S : \A n \in S : l <= n
  <2> DEFINE T == Nat \ S
  <2>1. T # Nat /\ T \in SUBSET Nat
    BY DEF T
  <2>2. PICK l \in Nat : l \notin T /\ \A n \in 0 .. l - 1 : n \in T
    BY <2>1, NatSets
  <2>3. l \in S
    BY <2>2
  <2>4. ASSUME NEW n \in S PROVE l <= n
    BY <2>2, <2>4
  <2> QED
    BY <2>3, <2>4
<1> QED
  BY <1>1 DEF Min

------------------------------------------------------------------------------
(* The bisection.                                                            *)

Interval == [lo : -1 .. Last, hi : Steps]

NextInterval(P, Q, s) == IF Narrow(s) THEN s ELSE halve(P, Q, s)

BisectionOn(s, P, Q) ==
    s = [r \in 0 .. NSteps |-> IF r = 0 THEN [lo |-> -1, hi |-> Last] ELSE NextInterval(P, Q, s[r - 1])]

LEMMA BisectionIs == ASSUME NEW P, NEW Q PROVE bisection(P, Q) = CHOOSE s : BisectionOn(s, P, Q)
  BY DEF bisection, BisectionOn, NextInterval

\* A turn halves the interval, and what is first wrong stays in it.
LEMMA IntervalHalves ==
    ASSUME NEW P, NEW Q, NEW s \in Interval
    PROVE  /\ NextInterval(P, Q, s) \in Interval
           /\ Narrow(s) => NextInterval(P, Q, s) = s
           /\ ~ Narrow(s) => (s.lo + s.hi) \div 2 \in Steps
           /\ \A p \in Nat : p >= 1 /\ s.hi - s.lo <= 2 * p => NextInterval(P, Q, s).hi - NextInterval(P, Q, s).lo <= p
           /\ \A b \in Steps :
                 /\ \A n \in Steps : P[n].prefix = Q[n].prefix <=> n < b
                 /\ s.lo < b /\ b <= s.hi
                 => NextInterval(P, Q, s).lo < b /\ b <= NextInterval(P, Q, s).hi
<1> DEFINE mid == (s.lo + s.hi) \div 2
           lo == s.lo
           hi == s.hi
           t == NextInterval(P, Q, s)
<1>1. /\ lo \in Int /\ hi \in Int /\ lo >= -1 /\ hi <= Last /\ hi \in Steps /\ s = [lo |-> lo, hi |-> hi]
      /\ lo \in -1 .. Last
  BY PlayFacts DEF Interval
<1>2. CASE Narrow(s)
  BY <1>1, <1>2, PlayFacts DEF NextInterval, Narrow
<1>3. CASE ~ Narrow(s)
  <2>1. hi - lo > 1
    BY <1>1, <1>3 DEF Narrow
  <2>2. mid \in Int /\ lo < mid /\ mid < hi /\ 2 * mid <= lo + hi /\ lo + hi <= 2 * mid + 1
    BY <1>1, <2>1
  <2> HIDE DEF mid
  <2>3. mid \in Steps /\ mid \in -1 .. Last
    BY <1>1, <2>2, PlayFacts
  <2>4. t = IF P[mid].prefix = Q[mid].prefix THEN [lo |-> mid, hi |-> hi] ELSE [lo |-> lo, hi |-> mid]
    BY <1>1, <1>3 DEF NextInterval, halve, mid
  <2>5. t \in Interval
    BY <1>1, <2>3, <2>4 DEF Interval
  <2>6. t.lo = (IF P[mid].prefix = Q[mid].prefix THEN mid ELSE lo)
        /\ t.hi = IF P[mid].prefix = Q[mid].prefix THEN hi ELSE mid
    BY <2>4
  <2>7. ASSUME NEW p \in Nat, p >= 1, s.hi - s.lo <= 2 * p PROVE t.hi - t.lo <= p
    BY <1>1, <2>2, <2>6, <2>7
  <2>8. ASSUME NEW b \in Steps, \A n \in Steps : P[n].prefix = Q[n].prefix <=> n < b, s.lo < b, b <= s.hi
        PROVE  t.lo < b /\ b <= t.hi
    <3>1. P[mid].prefix = Q[mid].prefix <=> mid < b
      BY <2>3, <2>8
    <3> QED
      BY <1>1, <2>2, <2>6, <2>8, <3>1, PlayFacts
  <2> HIDE DEF t
  <2> QED
    BY <1>3, <2>3, <2>5, <2>7, <2>8 DEF t, mid
<1> QED
  BY <1>2, <1>3

LEMMA BisectionRuns ==
    ASSUME NEW P, NEW Q
    PROVE  LET s == bisection(P, Q)
           IN /\ s \in [0 .. NSteps -> Interval] /\ s[0] = [lo |-> -1, hi |-> Last]
              /\ \A r \in 1 .. NSteps : s[r] = NextInterval(P, Q, s[r - 1])
<1> DEFINE c == [lo |-> -1, hi |-> Last]
           G == [v \in Interval |-> NextInterval(P, Q, v)]
<1>1. c \in Interval
  BY PlayFacts DEF Interval
<1>2. G \in [Interval -> Interval]
  BY IntervalHalves
<1>3. \A v \in Interval : G[v] = NextInterval(P, Q, v)
  OBVIOUS
<1> HIDE DEF c, G
<1>4. PICK f : Iterated(f, Interval, c, G)
  BY <1>1, <1>2, Iterates
<1>4a. f \in [Nat -> Interval] /\ f = [n \in Nat |-> IF n = 0 THEN c ELSE G[f[n - 1]]]
  BY <1>4 DEF Iterated
<1>5. ASSUME NEW n \in Nat PROVE f[n] = IF n = 0 THEN c ELSE NextInterval(P, Q, f[n - 1])
  <2>1. n = 0 \/ n - 1 \in Nat
    OBVIOUS
  <2>2. n # 0 => f[n - 1] \in Interval
    BY <1>4a, <2>1
  <2> QED
    BY <1>3, <1>4a, <2>2
<1> DEFINE u == [r \in 0 .. NSteps |-> f[r]]
<1>6. \A r \in 0 .. NSteps : u[r] = f[r] /\ (r # 0 => u[r - 1] = f[r - 1])
  BY PlayFacts
<1>6a. u = [r \in 0 .. NSteps |-> u[r]]
  OBVIOUS
<1> HIDE DEF u
<1>7. BisectionOn(u, P, Q)
  <2>1. \A r \in 0 .. NSteps : u[r] = IF r = 0 THEN c ELSE NextInterval(P, Q, u[r - 1])
    BY <1>5, <1>6
  <2> QED
    BY <1>6a, <2>1 DEF BisectionOn, c
<1> DEFINE s == bisection(P, Q)
<1>8. BisectionOn(s, P, Q)
  BY <1>7, BisectionIs
<1> HIDE DEF s
<1>8a. s = [r \in 0 .. NSteps |-> IF r = 0 THEN c ELSE NextInterval(P, Q, s[r - 1])]
  BY <1>8 DEF BisectionOn, c
<1>9. DOMAIN s = 0 .. NSteps /\ \A r \in 0 .. NSteps : s[r] = IF r = 0 THEN c ELSE NextInterval(P, Q, s[r - 1])
  BY <1>8a
<1> DEFINE S == {r \in Nat : r <= NSteps => s[r] \in Interval}
<1>10. S = Nat
  <2>1. 0 \in S
    BY <1>1, <1>9, PlayFacts
  <2>2. ASSUME NEW n \in S PROVE n + 1 \in S
    <3>1. n + 1 <= NSteps => s[n + 1] = NextInterval(P, Q, s[n])
      BY <1>9, PlayFacts
    <3> QED
      BY <2>2, <3>1, IntervalHalves, PlayFacts
  <2> HIDE DEF S
  <2>3. S \in SUBSET Nat
    BY DEF S
  <2> QED
    BY <2>1, <2>2, <2>3, NatSteps
<1>11. \A r \in 0 .. NSteps : s[r] \in Interval
  BY <1>10, PlayFacts
<1>12. s \in [0 .. NSteps -> Interval]
  BY <1>8a, <1>9, <1>11
<1>13. s[0] = c /\ \A r \in 1 .. NSteps : s[r] = NextInterval(P, Q, s[r - 1])
  BY <1>9, PlayFacts
<1> QED
  BY <1>12, <1>13 DEF s, c

\* Of two chains that part at step b the bisection keeps b, and halves its interval every round.
LEMMA BisectionFinds ==
    ASSUME NEW P, NEW Q, NEW b \in Steps, \A n \in Steps : P[n].prefix = Q[n].prefix <=> n < b
    PROVE  LET s == bisection(P, Q)
               e == CeilLog2(NSteps)
           IN /\ e \in 0 .. NSteps
              /\ \A r \in 0 .. NSteps : s[r].lo < b /\ b <= s[r].hi
              /\ Narrow(s[e])
<1> DEFINE s == bisection(P, Q)
           e == CeilLog2(NSteps)
           Width(r) == s[r].hi - s[r].lo <= Pow2[e - r]
           Holds(r) == /\ s[r] \in Interval /\ s[r].lo < b /\ b <= s[r].hi
                       /\ r <= e => Width(r)
           S == {r \in Nat : r <= NSteps => Holds(r)}
<1>1. e \in 0 .. NSteps /\ Pow2[e] >= NSteps
  <2>1. NSteps \in Nat \ {0} /\ NSteps \in Nat
    BY PlayFacts, ModelAssumption
  <2>2. e \in Nat /\ Pow2[e] >= NSteps /\ \A f \in Nat : Pow2[f] >= NSteps => e <= f
    BY <2>1, CeilLog2Is
  <2>3. Pow2[NSteps] >= NSteps /\ Pow2[NSteps] \in Nat
    BY <2>1, PowersGrow, PowerOfTwo
  <2> HIDE DEF e
  <2> QED
    BY <2>1, <2>2, <2>3
<1>2. s \in [0 .. NSteps -> Interval] /\ s[0] = [lo |-> -1, hi |-> Last]
      /\ \A r \in 1 .. NSteps : s[r] = NextInterval(P, Q, s[r - 1])
  BY BisectionRuns
<1> HIDE DEF s, e
<1>3. 0 \in S
  <2>1. s[0].lo = -1 /\ s[0].hi = Last
    BY <1>2
  <2>2. s[0] \in Interval
    BY <1>2, PlayFacts
  <2>3. Pow2[e - 0] >= NSteps
    BY <1>1
  <2>4. s[0].hi - s[0].lo <= Pow2[e - 0]
    <3>1. s[0].hi - s[0].lo = NSteps /\ NSteps \in Nat
      BY <2>1, PlayFacts
    <3>2. Pow2[e - 0] \in Nat
      BY <1>1, PowerOfTwo
    <3> QED
      BY <2>3, <3>1, <3>2
  <2> QED
    BY <2>1, <2>2, <2>4, PlayFacts
<1>4. ASSUME NEW n \in S PROVE n + 1 \in S
  <2>1. SUFFICES ASSUME n + 1 <= NSteps PROVE Holds(n + 1)
    OBVIOUS
  <2>2. Holds(n) /\ n \in Nat
    BY <2>1, PlayFacts
  <2>3. s[n + 1] = NextInterval(P, Q, s[n])
    <3>1. n + 1 \in 1 .. NSteps /\ (n + 1) - 1 = n
      BY <2>1, <2>2, PlayFacts
    <3> QED
      BY <1>2, <3>1
  <2>4. s[n + 1] \in Interval /\ s[n + 1].lo < b /\ b <= s[n + 1].hi
    BY <2>2, <2>3, IntervalHalves
  <2>5. ASSUME n + 1 <= e PROVE s[n + 1].hi - s[n + 1].lo <= Pow2[e - (n + 1)]
    <3> DEFINE m == e - (n + 1)
    <3>1. m \in Nat /\ e - n = m + 1
      BY <1>1, <2>2, <2>5
    <3>2. Pow2[e - n] = 2 * Pow2[m] /\ Pow2[m] \in Nat /\ Pow2[m] >= 1
      BY <3>1, PowerOfTwo
    <3>3. s[n].hi - s[n].lo <= Pow2[e - n]
      BY <1>1, <2>2, <2>5
    <3> HIDE DEF m
    <3>4. s[n + 1].hi - s[n + 1].lo <= Pow2[m]
      BY <2>2, <2>3, <3>2, <3>3, IntervalHalves
    <3> QED
      BY <3>4 DEF m
  <2> QED
    BY <2>4, <2>5
<1> HIDE DEF S
<1>5. S = Nat
  <2>1. S \in SUBSET Nat
    BY DEF S
  <2> QED
    BY <1>3, <1>4, <2>1, NatSteps
<1>6. \A r \in 0 .. NSteps : Holds(r)
  BY <1>5, PlayFacts DEF S
<1>7. Narrow(s[e])
  <2>1. s[e].hi - s[e].lo <= Pow2[e - e]
    BY <1>1, <1>6
  <2>2. Pow2[e - e] = 1
    BY <1>1, PowerOfTwo
  <2> QED
    BY <2>1, <2>2 DEF Narrow
<1> QED
  BY <1>1, <1>6, <1>7 DEF s, e

\* The disagreement found is the first one, within ceil(log2 n) rounds.
LEMMA FirstDisagreement ==
    ASSUME NEW P, NEW Q, NEW b \in Steps, \A n \in Steps : P[n].prefix = Q[n].prefix <=> n < b
    PROVE  LET f == first_disagreement(P, Q)
               s == bisection(P, Q)
           IN /\ f.k = b /\ f.rounds \in 0 .. CeilLog2(NSteps) /\ f.rounds \in 0 .. NSteps
              /\ Narrow(s[f.rounds])
              /\ \A r \in 0 .. NSteps : Narrow(s[r]) => f.rounds <= r
<1> DEFINE s == bisection(P, Q)
           e == CeilLog2(NSteps)
           S == {r \in DOMAIN s : Narrow(s[r])}
           m == Min(S)
<1>1. s \in [0 .. NSteps -> Interval] /\ DOMAIN s = 0 .. NSteps
  BY BisectionRuns
<1>2. e \in 0 .. NSteps /\ Narrow(s[e]) /\ \A r \in 0 .. NSteps : s[r].lo < b /\ b <= s[r].hi
  BY BisectionFinds
<1> DEFINE f == first_disagreement(P, Q)
<1>4. f = [k |-> s[m].hi, rounds |-> m]
  BY DEF first_disagreement
<1> HIDE DEF s, e, f
<1>3. m \in S /\ \A r \in S : m <= r
  <2>1. S \in SUBSET Nat /\ e \in S
    BY <1>1, <1>2, PlayFacts
  <2> HIDE DEF S
  <2> QED
    BY <2>1, LeastNat
<1> HIDE DEF m
<1>5. m \in 0 .. NSteps /\ Narrow(s[m]) /\ m <= e /\ \A r \in 0 .. NSteps : Narrow(s[r]) => m <= r
  BY <1>1, <1>2, <1>3
<1>6. s[m].hi = b
  <2>1. s[m].lo \in Int /\ s[m].hi \in Int /\ b \in Int /\ s[m].lo < b /\ b <= s[m].hi
    BY <1>1, <1>2, <1>5, PlayFacts DEF Interval
  <2> QED
    BY <1>5, <2>1 DEF Narrow
<1>7. f.k = b /\ f.rounds = m
  BY <1>4, <1>6
<1>8. m \in 0 .. e
  BY <1>2, <1>5
<1> QED
  BY <1>5, <1>7, <1>8 DEF s, e, f

\* The traces of the two sides part at the step of the scenario.
LEMMA SidesPart ==
    ASSUME NEW sc \in SCENARIOS
    PROVE  /\ A(sc) \in [Steps -> Opening] /\ C(sc) \in [Steps -> Opening] /\ sc.step \in Steps
           /\ \A n \in Steps : A(sc)[n].prefix = C(sc)[n].prefix <=> n < sc.step
           /\ \A n \in Steps : n < sc.step => A(sc)[n].leaf = TrueLeaf[tx][n] /\ C(sc)[n].leaf = TrueLeaf[tx][n]
           /\ \A n \in Steps : n < sc.step => /\ A(sc)[n].prefix = TruePrefix(tx, n)
                                              /\ C(sc)[n].prefix = TruePrefix(tx, n)
           /\ A(sc)[sc.step].leaf = TrueLeaf[tx][sc.step] <=> sc.cheat # "asserter"
           /\ malformed(sc) => C(sc)[sc.step].leaf = TrueLeaf[tx][sc.step]
           /\ \A n \in Steps : chain_consistent_at(A(sc), n) <=> ~ (malformed(sc) /\ n = sc.step)
<1> DEFINE T == Badly(sc)
           H == TrueTrace(tx)
           b == sc.step
<1>1. /\ T \in [Steps -> Opening]
      /\ \A n \in Steps : T[n].prefix = TruePrefix(tx, n) <=> n < b
      /\ \A n \in Steps : n < b => T[n].leaf = TrueLeaf[tx][n]
      /\ T[b].leaf = TrueLeaf[tx][b] <=> malformed(sc)
      /\ \A n \in Steps : T[n].prefix = Append(IF n = 0 THEN <<>> ELSE T[n - 1].prefix, T[n].leaf)
                            <=> ~ (malformed(sc) /\ n = b)
  BY BadTrace
<1>2. b \in Steps /\ sc.cheat \in {"asserter", "challenger", "asserter_malformed_chain"}
  BY ScenarioFacts
<1>3. ASSUME NEW n \in Steps
      PROVE  /\ H[n] = [leaf |-> TrueLeaf[tx][n], prefix |-> TruePrefix(tx, n)] /\ H[n] \in Opening
             /\ H[n].leaf = TrueLeaf[tx][n] /\ H[n].prefix = TruePrefix(tx, n)
             /\ H[n].prefix = Append(IF n = 0 THEN <<>> ELSE H[n - 1].prefix, H[n].leaf)
  <2>1. H[n] = [leaf |-> TrueLeaf[tx][n], prefix |-> TruePrefix(tx, n)]
    BY DEF TrueTrace
  <2>2. n # 0 => n - 1 \in Steps /\ H[n - 1].prefix = TruePrefix(tx, n - 1)
    BY PlayFacts DEF TrueTrace
  <2>3. TrueLeaf[tx][n] \in Leaf
    BY PlayFacts
  <2> HIDE DEF H
  <2> QED
    BY <2>1, <2>2, <2>3, TruePrefixAt DEF Opening
<1>4. H \in [Steps -> Opening]
  BY <1>3 DEF TrueTrace
<1> HIDE DEF H, T, b
<1>5. A(sc) = (IF sc.cheat = "challenger" THEN H ELSE T) /\ C(sc) = IF sc.cheat = "challenger" THEN T ELSE H
  BY HonestTrace DEF A, C, H, T
<1>6. malformed(sc) <=> sc.cheat = "asserter_malformed_chain"
  BY DEF malformed
<1>7. CASE sc.cheat = "challenger"
  <2>1. A(sc) = H /\ C(sc) = T /\ ~ malformed(sc)
    BY <1>5, <1>6, <1>7
  <2>2. \A n \in Steps : chain_consistent_at(H, n)
    BY <1>3 DEF chain_consistent_at
  <2> QED
    BY <1>1, <1>2, <1>3, <1>4, <1>7, <2>1, <2>2 DEF b
<1>8. CASE sc.cheat # "challenger"
  <2>1. A(sc) = T /\ C(sc) = H
    BY <1>5, <1>8
  <2>2. \A n \in Steps : chain_consistent_at(T, n) <=> ~ (malformed(sc) /\ n = b)
    BY <1>1 DEF chain_consistent_at
  <2>3. A(sc)[b].leaf = TrueLeaf[tx][b] <=> sc.cheat # "asserter"
    BY <1>1, <1>2, <1>6, <1>8, <2>1
  <2>4. C(sc)[b].leaf = TrueLeaf[tx][b]
    BY <1>2, <1>3, <2>1
  <2> QED
    BY <1>1, <1>2, <1>3, <1>4, <2>1, <2>2, <2>3, <2>4 DEF b
<1> QED
  BY <1>7, <1>8

\* What both sides have agreed on is the honest input of the disputed step.
LEMMA AgreedInputsHonest ==
    ASSUME NEW sc \in SCENARIOS
    PROVE  /\ AgreedInputs(A(sc), sc.step) = AgreedInputs(C(sc), sc.step)
           /\ AgreedInputs(C(sc), sc.step)
                = [j \in StepInputs[sc.step] |-> IF j = -1 THEN tx ELSE TrueLeaf[tx][j]]
           /\ StepOut(sc.step, AgreedInputs(C(sc), sc.step)) = TrueLeaf[tx][sc.step]
<1>1. sc.step \in Steps
  BY SidesPart
<1>2. \A j \in StepInputs[sc.step] : j = -1 \/ (j \in Steps /\ j < sc.step)
  BY <1>1, ModelAssumption DEF Steps
<1>3. \A j \in StepInputs[sc.step] : j # -1 => A(sc)[j].leaf = TrueLeaf[tx][j] /\ C(sc)[j].leaf = TrueLeaf[tx][j]
  BY <1>2, SidesPart
<1>4. /\ AgreedInputs(A(sc), sc.step) = [j \in StepInputs[sc.step] |-> IF j = -1 THEN tx ELSE TrueLeaf[tx][j]]
      /\ AgreedInputs(C(sc), sc.step) = [j \in StepInputs[sc.step] |-> IF j = -1 THEN tx ELSE TrueLeaf[tx][j]]
  BY <1>3 DEF AgreedInputs
<1>5. TrueLeaf[tx][sc.step] = StepOut(sc.step, [j \in StepInputs[sc.step] |-> IF j = -1 THEN tx ELSE TrueLeaf[tx][j]])
  BY <1>1, TrueLeafAssumption, PlayFacts
<1> QED
  BY <1>4, <1>5

\* dispute.py, for every scenario: its bisection finds the step within ceil(log2 n) rounds and it
\* decides for the honest side, a malformed chain included.
THEOREM OffChainRight ==
    ASSUME NEW sc \in SCENARIOS
    PROVE  /\ first_disagreement(A(sc), C(sc)).k = sc.step
           /\ res(sc).located_correctly /\ res(sc).outcome_correct
           /\ res(sc).bisection_rounds = first_disagreement(A(sc), C(sc)).rounds
           /\ res(sc).bisection_rounds \in 0 .. CeilLog2(NSteps)
           /\ res(sc).asserter_claim_upheld <=> sc.cheat = "challenger"
           /\ malformed(sc) => res(sc).leaf_k_is_honest
<1> DEFINE f == first_disagreement(A(sc), C(sc))
           b == sc.step
           P == A(sc)
           Q == C(sc)
<1>1. f.k = b /\ f.rounds \in 0 .. CeilLog2(NSteps)
  BY SidesPart, FirstDisagreement
<1>2. chain_consistent_at(P, b) <=> ~ malformed(sc)
  BY SidesPart
<1>3. AgreedInputs(P, b) = AgreedInputs(Q, b) /\ StepOut(b, AgreedInputs(Q, b)) = TrueLeaf[tx][b]
  BY AgreedInputsHonest
<1>4. P[b].leaf = TrueLeaf[tx][b] <=> sc.cheat # "asserter"
  BY SidesPart
<1>5. malformed(sc) => Q[b].leaf = TrueLeaf[tx][b]
  BY SidesPart
<1>6. malformed(sc) <=> sc.cheat = "asserter_malformed_chain"
  BY DEF malformed
<1>7. sc.cheat \in {"asserter", "challenger", "asserter_malformed_chain"}
  BY ScenarioFacts
<1>8. Upheld(sc) <=> chain_consistent_at(P, b) /\ AgreedInputs(Q, b) = AgreedInputs(P, b)
                     /\ StepOut(b, AgreedInputs(Q, b)) = P[b].leaf
  BY <1>1 DEF Upheld
<1>9. Upheld(sc) <=> sc.cheat = "challenger"
  BY <1>2, <1>3, <1>4, <1>6, <1>7, <1>8
<1>10. res(sc) = [first_bad_step |-> f.k, bisection_rounds |-> f.rounds,
                  located_correctly |-> f.k = b, asserter_claim_upheld |-> Upheld(sc),
                  leaf_k_is_honest |-> P[f.k].leaf = Q[f.k].leaf,
                  outcome_correct |-> IF ~ chain_consistent_at(P, f.k) THEN sc.cheat # "challenger"
                                      ELSE sc.cheat = IF Upheld(sc) THEN "challenger" ELSE "asserter"]
  BY DEF res
<1> HIDE DEF f, P, Q
<1>11. res(sc).located_correctly /\ res(sc).bisection_rounds = f.rounds
       /\ (res(sc).asserter_claim_upheld <=> sc.cheat = "challenger")
  <2>1. res(sc).located_correctly = (f.k = b) /\ res(sc).bisection_rounds = f.rounds
    BY <1>10
  <2>2. res(sc).asserter_claim_upheld = Upheld(sc)
    BY <1>10
  <2> QED
    BY <1>1, <1>9, <2>1, <2>2
<1>12. res(sc).outcome_correct
  <2>1. res(sc).outcome_correct = IF ~ chain_consistent_at(P, b) THEN sc.cheat # "challenger"
                                  ELSE sc.cheat = IF Upheld(sc) THEN "challenger" ELSE "asserter"
    BY <1>1, <1>10
  <2> QED
    BY <1>2, <1>6, <1>7, <1>9, <2>1
<1>13. malformed(sc) => res(sc).leaf_k_is_honest
  <2>1. res(sc).leaf_k_is_honest = (P[b].leaf = Q[b].leaf)
    BY <1>1, <1>10
  <2> QED
    BY <1>4, <1>5, <1>6, <2>1
<1> QED
  BY <1>1, <1>11, <1>12, <1>13 DEF f

------------------------------------------------------------------------------
(* The Merkle tree.                                                          *)

LevelFrom(tr, e, L) ==
    [j \in 0 .. Pow2[Depth(tr) - e] - 1 |->
        IF e = 0 THEN LET i == IF j < Cardinality(DOMAIN tr) THEN j ELSE Cardinality(DOMAIN tr) - 1
                      IN Node(i, tr[i].leaf, tr[i].prefix)
        ELSE <<L[e - 1][2 * j], L[e - 1][2 * j + 1]>>]

LevelsOn(L, tr, m) == L = [e \in 0 .. m |-> LevelFrom(tr, e, L)]

LEMMA LevelsAre == ASSUME NEW tr PROVE merkle_levels(tr) = CHOOSE L : LevelsOn(L, tr, Depth(tr))
  BY DEF merkle_levels, LevelsOn, LevelFrom

LEMMA LevelsExist ==
    ASSUME NEW tr, NEW m \in Nat
    PROVE  \E L : LevelsOn(L, tr, m)
<1> DEFINE S == {n \in Nat : \E L : LevelsOn(L, tr, n)}
<1>1. 0 \in S
  <2> DEFINE L == [e \in 0 .. 0 |-> LevelFrom(tr, 0, <<>>)]
  <2>1. \A e \in 0 .. 0 : LevelFrom(tr, e, L) = LevelFrom(tr, 0, <<>>)
    BY DEF LevelFrom
  <2>2. LevelsOn(L, tr, 0)
    BY <2>1 DEF LevelsOn
  <2> QED
    BY <2>2
<1>2. ASSUME NEW n \in S PROVE n + 1 \in S
  <2>1. PICK L : LevelsOn(L, tr, n)
    OBVIOUS
  <2> DEFINE U == [e \in 0 .. n + 1 |-> IF e <= n THEN L[e] ELSE LevelFrom(tr, n + 1, L)]
  <2>2. \A e \in 0 .. n : U[e] = L[e]
    OBVIOUS
  <2>2a. U[n + 1] = LevelFrom(tr, n + 1, L) /\ U = [e \in 0 .. n + 1 |-> U[e]]
    OBVIOUS
  <2> HIDE DEF U
  <2>3. ASSUME NEW e \in 0 .. n + 1 PROVE LevelFrom(tr, e, U) = LevelFrom(tr, e, L)
    <3>1. e = 0 \/ e - 1 \in 0 .. n
      OBVIOUS
    <3>2. e = 0 \/ U[e - 1] = L[e - 1]
      BY <2>2, <3>1
    <3> QED
      BY <3>2 DEF LevelFrom
  <2>4. \A e \in 0 .. n : L[e] = LevelFrom(tr, e, L)
    BY <2>1 DEF LevelsOn
  <2>5. \A e \in 0 .. n + 1 : U[e] = LevelFrom(tr, e, U)
    <3>1. \A e \in 0 .. n + 1 : e \in 0 .. n \/ e = n + 1
      OBVIOUS
    <3> QED
      BY <2>2, <2>2a, <2>3, <2>4, <3>1
  <2>6. LevelsOn(U, tr, n + 1)
    BY <2>2a, <2>5 DEF LevelsOn
  <2> QED
    BY <2>6
<1> HIDE DEF S
<1>3. S \in SUBSET Nat
  BY DEF S
<1>4. m \in S
  BY <1>1, <1>2, <1>3, NatSteps
<1> QED
  BY <1>4 DEF S

Hash(i, x, pfx, p, e, h) ==
    IF e = 0 THEN Node(i, x, pfx)
    ELSE IF (i \div Pow2[e - 1]) % 2 = 0 THEN <<h[e - 1], p[e - 1]>> ELSE <<p[e - 1], h[e - 1]>>

HashesOn(h, i, x, pfx, p, m) == h = [e \in 0 .. m |-> Hash(i, x, pfx, p, e, h)]

LEMMA VerifyIs ==
    ASSUME NEW r, NEW i, NEW x, NEW pfx, NEW p
    PROVE  LET m == Cardinality(DOMAIN p)
           IN verify_opening(r, i, x, pfx, p) <=> (CHOOSE h : HashesOn(h, i, x, pfx, p, m))[m] = r
  BY DEF verify_opening, HashesOn, Hash

LEMMA HashesExist ==
    ASSUME NEW i, NEW x, NEW pfx, NEW p, NEW m \in Nat
    PROVE  \E h : HashesOn(h, i, x, pfx, p, m)
<1> DEFINE S == {n \in Nat : \E h : HashesOn(h, i, x, pfx, p, n)}
<1>1. 0 \in S
  <2> DEFINE h == [e \in 0 .. 0 |-> Node(i, x, pfx)]
  <2>1. \A e \in 0 .. 0 : Hash(i, x, pfx, p, e, h) = Node(i, x, pfx)
    BY DEF Hash
  <2>2. HashesOn(h, i, x, pfx, p, 0)
    BY <2>1 DEF HashesOn
  <2> QED
    BY <2>2
<1>2. ASSUME NEW n \in S PROVE n + 1 \in S
  <2>1. PICK h : HashesOn(h, i, x, pfx, p, n)
    OBVIOUS
  <2> DEFINE u == [e \in 0 .. n + 1 |-> IF e <= n THEN h[e] ELSE Hash(i, x, pfx, p, n + 1, h)]
  <2>2. \A e \in 0 .. n : u[e] = h[e]
    OBVIOUS
  <2>2a. u[n + 1] = Hash(i, x, pfx, p, n + 1, h) /\ u = [e \in 0 .. n + 1 |-> u[e]]
    OBVIOUS
  <2> HIDE DEF u
  <2>3. ASSUME NEW e \in 0 .. n + 1 PROVE Hash(i, x, pfx, p, e, u) = Hash(i, x, pfx, p, e, h)
    <3>1. e = 0 \/ e - 1 \in 0 .. n
      OBVIOUS
    <3>2. e = 0 \/ u[e - 1] = h[e - 1]
      BY <2>2, <3>1
    <3> QED
      BY <3>2 DEF Hash
  <2>4. \A e \in 0 .. n : h[e] = Hash(i, x, pfx, p, e, h)
    BY <2>1 DEF HashesOn
  <2>5. \A e \in 0 .. n + 1 : u[e] = Hash(i, x, pfx, p, e, u)
    <3>1. \A e \in 0 .. n + 1 : e \in 0 .. n \/ e = n + 1
      OBVIOUS
    <3> QED
      BY <2>2, <2>2a, <2>3, <2>4, <3>1
  <2>6. HashesOn(u, i, x, pfx, p, n + 1)
    BY <2>2a, <2>5 DEF HashesOn
  <2> QED
    BY <2>6
<1> HIDE DEF S
<1>3. S \in SUBSET Nat
  BY DEF S
<1>4. m \in S
  BY <1>1, <1>2, <1>3, NatSteps
<1> QED
  BY <1>4 DEF S

\* The tree of a tr: its leaves are the nodes, padded with the last one.
TreeOf(tr, L, d) ==
    /\ d \in Nat /\ NSteps <= Pow2[d] /\ Pow2[d] \in Nat
    /\ \A j \in 0 .. Pow2[d] - 1 :
          L[0][j] = IF j < NSteps THEN Node(j, tr[j].leaf, tr[j].prefix)
                    ELSE Node(Last, tr[Last].leaf, tr[Last].prefix)
    /\ \A e \in 1 .. d : \A j \in 0 .. Pow2[d - e] - 1 : L[e][j] = <<L[e - 1][2 * j], L[e - 1][2 * j + 1]>>

LEMMA MerkleTree ==
    ASSUME NEW tr \in [Steps -> Opening]
    PROVE  LET L == merkle_levels(tr)
               d == Depth(tr)
           IN /\ TreeOf(tr, L, d) /\ merkle_root(tr) = L[d][0]
              /\ \A i : merkle_proof(tr, i) = [e \in 0 .. d - 1 |-> L[e][Sibling(i \div Pow2[e])]]
<1> DEFINE L == merkle_levels(tr)
           d == Depth(tr)
<1>1. DOMAIN tr = 0 .. Last /\ Cardinality(DOMAIN tr) = NSteps
  <2>1. DOMAIN tr = 0 .. Last /\ Last \in Int /\ 0 \in Int /\ Last + 1 = NSteps /\ Last >= 0 /\ NSteps \in Int
    BY PlayFacts, ModelAssumption
  <2>2. Cardinality(0 .. Last) = IF 0 > Last THEN 0 ELSE Last - 0 + 1
    BY <2>1, FS_Interval
  <2> QED
    BY <2>1, <2>2
<1>2. d \in Nat /\ NSteps <= Pow2[d] /\ Pow2[d] \in Nat
  <2>1. d = CeilLog2(NSteps)
    BY <1>1 DEF Depth
  <2>2. NSteps \in Nat \ {0}
    BY ModelAssumption
  <2> HIDE DEF d
  <2>3. d \in Nat /\ Pow2[d] >= NSteps
    BY <2>1, <2>2, CeilLog2Is
  <2> QED
    BY <2>2, <2>3, PowerOfTwo
<1>3. LevelsOn(L, tr, d)
  BY <1>2, LevelsExist, LevelsAre
<1>4. /\ merkle_root(tr) = L[d][0]
      /\ \A i : merkle_proof(tr, i) = [e \in 0 .. d - 1 |-> L[e][Sibling(i \div Pow2[e])]]
  BY DEF merkle_root, merkle_proof
<1>4a. ASSUME NEW e PROVE LevelFrom(tr, e, L) =
          [j \in 0 .. Pow2[d - e] - 1 |->
             IF e = 0 THEN LET i == IF j < NSteps THEN j ELSE Last IN Node(i, tr[i].leaf, tr[i].prefix)
             ELSE <<L[e - 1][2 * j], L[e - 1][2 * j + 1]>>]
  BY <1>1 DEF LevelFrom, Last
<1> HIDE DEF L, d
<1>5. \A e \in 0 .. d : L[e] = LevelFrom(tr, e, L)
  BY <1>3 DEF LevelsOn
<1>6. ASSUME NEW j \in 0 .. Pow2[d] - 1
      PROVE  L[0][j] = IF j < NSteps THEN Node(j, tr[j].leaf, tr[j].prefix)
                       ELSE Node(Last, tr[Last].leaf, tr[Last].prefix)
  <2>1. L[0] = LevelFrom(tr, 0, L) /\ d - 0 = d
    BY <1>2, <1>5
  <2>2. L[0] = [n \in 0 .. Pow2[d - 0] - 1 |->
                  LET i == IF n < NSteps THEN n ELSE Last IN Node(i, tr[i].leaf, tr[i].prefix)]
    BY <1>4a, <2>1
  <2>3. L[0][j] = LET i == IF j < NSteps THEN j ELSE Last IN Node(i, tr[i].leaf, tr[i].prefix)
    BY <2>1, <2>2
  <2> QED
    BY <2>3
<1>7. ASSUME NEW e \in 1 .. d, NEW j \in 0 .. Pow2[d - e] - 1
      PROVE  L[e][j] = <<L[e - 1][2 * j], L[e - 1][2 * j + 1]>>
  <2>1. L[e] = LevelFrom(tr, e, L) /\ e # 0
    BY <1>2, <1>5
  <2>2. L[e] = [n \in 0 .. Pow2[d - e] - 1 |-> <<L[e - 1][2 * n], L[e - 1][2 * n + 1]>>]
    BY <1>4a, <2>1
  <2> QED
    BY <2>2
<1> QED
  BY <1>2, <1>4, <1>6, <1>7 DEF TreeOf, L, d

\* The hashes on the way from an opening to the root.
Climbs(h, i, x, pfx, p, d) ==
    /\ h[0] = Node(i, x, pfx)
    /\ \A e \in 1 .. d : h[e] = IF (i \div Pow2[e - 1]) % 2 = 0 THEN <<h[e - 1], p[e - 1]>> ELSE <<p[e - 1], h[e - 1]>>

Decides(h, r, i, x, pfx, p, d) == Climbs(h, i, x, pfx, p, d) /\ (verify_opening(r, i, x, pfx, p) <=> h[d] = r)

LEMMA VerifyClimbs ==
    ASSUME NEW r, NEW i, NEW x, NEW pfx, NEW p, NEW d \in Nat, DOMAIN p = 0 .. d - 1
    PROVE  \E h : Decides(h, r, i, x, pfx, p, d)
<1>1. Cardinality(DOMAIN p) = d
  <2>1. d - 1 \in Int /\ 0 \in Int
    OBVIOUS
  <2> QED
    BY <2>1, FS_Interval
<1> DEFINE h == CHOOSE u : HashesOn(u, i, x, pfx, p, d)
<1>2. HashesOn(h, i, x, pfx, p, d)
  BY HashesExist
<1>3. verify_opening(r, i, x, pfx, p) <=> h[d] = r
  BY <1>1, VerifyIs
<1> HIDE DEF h
<1>4. \A e \in 0 .. d : h[e] = Hash(i, x, pfx, p, e, h)
  BY <1>2 DEF HashesOn
<1>4a. h[0] = Node(i, x, pfx)
  <2>1. 0 \in 0 .. d
    OBVIOUS
  <2>2. h[0] = Hash(i, x, pfx, p, 0, h)
    BY <1>4, <2>1
  <2> QED
    BY <2>2 DEF Hash
<1>4b. ASSUME NEW e \in 1 .. d
       PROVE  h[e] = IF (i \div Pow2[e - 1]) % 2 = 0 THEN <<h[e - 1], p[e - 1]>> ELSE <<p[e - 1], h[e - 1]>>
  <2>1. e \in 0 .. d /\ e # 0
    OBVIOUS
  <2>2. h[e] = Hash(i, x, pfx, p, e, h)
    BY <1>4, <2>1
  <2> QED
    BY <2>1, <2>2 DEF Hash
<1>5. Climbs(h, i, x, pfx, p, d)
  BY <1>4a, <1>4b DEF Climbs
<1> QED
  BY <1>3, <1>5 DEF Decides

LEMMA HalfOf == ASSUME NEW i \in Nat, NEW e \in Nat
                PROVE  /\ i \div Pow2[e + 1] = (i \div Pow2[e]) \div 2 /\ i \div Pow2[e] \in Nat
<1>1. Pow2[e] \in Nat /\ Pow2[e] > 0 /\ Pow2[e + 1] = 2 * Pow2[e]
  BY PowerOfTwo
<1> QED
  BY <1>1

\* The ancestor of node i at level e.
LEMMA Ancestor ==
    ASSUME NEW d \in Nat, NEW i \in Nat, i < Pow2[d]
    PROVE  \A e \in 0 .. d : i \div Pow2[e] \in 0 .. Pow2[d - e] - 1
<1> DEFINE S == {e \in Nat : e <= d => i \div Pow2[e] \in 0 .. Pow2[d - e] - 1}
<1>1. 0 \in S
  <2>1. Pow2[0] = 1 /\ d - 0 = d /\ Pow2[d] \in Nat
    BY PowerOfTwo
  <2> QED
    BY <2>1
<1>2. ASSUME NEW e \in S PROVE e + 1 \in S
  <2>1. SUFFICES ASSUME e + 1 <= d PROVE i \div Pow2[e + 1] \in 0 .. Pow2[d - (e + 1)] - 1
    OBVIOUS
  <2> DEFINE q == i \div Pow2[e]
             m == d - (e + 1)
  <2>2. e \in Nat /\ m \in Nat /\ d - e = m + 1
    BY <2>1
  <2>3. i \div Pow2[e + 1] = q \div 2 /\ q \in Nat
    BY <2>2, HalfOf
  <2>4. Pow2[d - e] = 2 * Pow2[m] /\ Pow2[m] \in Nat
    BY <2>2, PowerOfTwo
  <2>5. q \in 0 .. Pow2[d - e] - 1
    BY <2>1, <2>2
  <2> HIDE DEF q, m
  <2>6. q \div 2 \in 0 .. Pow2[m] - 1
    BY <2>3, <2>4, <2>5
  <2> QED
    BY <2>3, <2>6 DEF m
<1> HIDE DEF S
<1>3. S \in SUBSET Nat
  BY DEF S
<1>4. S = Nat
  BY <1>1, <1>2, <1>3, NatSteps
<1>5. ASSUME NEW e \in 0 .. d PROVE i \div Pow2[e] \in 0 .. Pow2[d - e] - 1
  <2>1. e \in S /\ e <= d
    BY <1>4
  <2> QED
    BY <2>1 DEF S
<1> QED
  BY <1>5

LEMMA SiblingIs ==
    ASSUME NEW q \in Nat
    PROVE  /\ q % 2 = 0 => 2 * (q \div 2) = q /\ 2 * (q \div 2) + 1 = Sibling(q)
           /\ q % 2 # 0 => 2 * (q \div 2) + 1 = q /\ 2 * (q \div 2) = Sibling(q)
  BY DEF Sibling

\* The path of a node leads to the root.
LEMMA PathLeadsUp ==
    ASSUME NEW tr, NEW L, NEW d, TreeOf(tr, L, d), NEW i \in Steps, NEW h, NEW p,
           \A e \in 0 .. d - 1 : p[e] = L[e][Sibling(i \div Pow2[e])],
           Climbs(h, i, tr[i].leaf, tr[i].prefix, p, d)
    PROVE  h[d] = L[d][0]
<1> DEFINE S == {e \in Nat : e <= d => h[e] = L[e][i \div Pow2[e]]}
<1>1. d \in Nat /\ i \in Nat /\ i < Pow2[d] /\ Pow2[d] \in Nat /\ i < NSteps
  BY PlayFacts, ModelAssumption DEF TreeOf
<1>2. \A e \in 0 .. d : i \div Pow2[e] \in 0 .. Pow2[d - e] - 1
  BY <1>1, Ancestor
<1>3. 0 \in S
  <2>1. Pow2[0] = 1 /\ i \div 1 = i
    BY <1>1, PowerOfTwo
  <2>2. i \in 0 .. Pow2[d] - 1
    BY <1>1
  <2>3. L[0][i] = Node(i, tr[i].leaf, tr[i].prefix)
    BY <1>1, <2>2 DEF TreeOf
  <2>4. h[0] = Node(i, tr[i].leaf, tr[i].prefix)
    BY DEF Climbs
  <2> QED
    BY <2>1, <2>3, <2>4
<1>4. ASSUME NEW n \in S PROVE n + 1 \in S
  <2>1. SUFFICES ASSUME n + 1 <= d PROVE h[n + 1] = L[n + 1][i \div Pow2[n + 1]]
    OBVIOUS
  <2> DEFINE e == n + 1
             q == i \div Pow2[n]
  <2>2. e \in 1 .. d /\ e \in 0 .. d /\ e - 1 = n /\ n \in 0 .. d - 1 /\ n \in Nat
    BY <1>1, <2>1
  <2>3. i \div Pow2[e] = q \div 2 /\ q \in Nat
    BY <1>1, <2>2, HalfOf
  <2>4. h[n] = L[n][q] /\ p[n] = L[n][Sibling(q)]
    BY <1>1, <2>1, <2>2
  <2>5. q \div 2 \in 0 .. Pow2[d - e] - 1
    BY <1>2, <2>2, <2>3
  <2>6. h[e] = IF q % 2 = 0 THEN <<h[n], p[n]>> ELSE <<p[n], h[n]>>
    BY <2>2 DEF Climbs
  <2> HIDE DEF e, q
  <2>7. L[e][q \div 2] = <<L[n][2 * (q \div 2)], L[n][2 * (q \div 2) + 1]>>
    <3>1. L[e][q \div 2] = <<L[e - 1][2 * (q \div 2)], L[e - 1][2 * (q \div 2) + 1]>>
      BY <2>2, <2>5 DEF TreeOf
    <3> QED
      BY <2>2, <3>1
  <2>8. h[e] = L[e][q \div 2]
    <3>1. CASE q % 2 = 0
      BY <2>3, <2>4, <2>6, <2>7, <3>1, SiblingIs
    <3>2. CASE q % 2 # 0
      BY <2>3, <2>4, <2>6, <2>7, <3>2, SiblingIs
    <3> QED
      BY <3>1, <3>2
  <2> QED
    BY <2>3, <2>8 DEF e
<1> HIDE DEF S
<1>5. S = Nat
  <2>1. S \in SUBSET Nat
    BY DEF S
  <2> QED
    BY <1>3, <1>4, <2>1, NatSteps
<1>6. h[d] = L[d][i \div Pow2[d]]
  BY <1>1, <1>5 DEF S
<1>7. i \div Pow2[d] = 0
  BY <1>1
<1> QED
  BY <1>6, <1>7

\* What leads to the root is a node of the trace at its place, and its path.
LEMMA RootBinds ==
    ASSUME NEW tr, NEW L, NEW d, TreeOf(tr, L, d), NEW i \in Nat, NEW x, NEW pfx, NEW h, NEW p,
           Climbs(h, i, x, pfx, p, d), h[d] = L[d][0]
    PROVE  /\ i \in Steps /\ x = tr[i].leaf /\ pfx = tr[i].prefix
           /\ \A e \in 0 .. d - 1 : p[e] = L[e][Sibling(i \div Pow2[e])]
<1> DEFINE Somewhere(e) == \E j \in 0 .. Pow2[d - e] - 1 : h[e] = L[e][j]
           S == {n \in Nat : n <= d => Somewhere(d - n)}
<1>1. d \in Nat /\ Pow2[d] \in Nat /\ NSteps <= Pow2[d] /\ NSteps \in Nat /\ Last = NSteps - 1 /\ Last \in Steps
  BY PlayFacts, ModelAssumption DEF TreeOf
<1>2. ASSUME NEW e \in 1 .. d, NEW j \in 0 .. Pow2[d - e] - 1, h[e] = L[e][j]
      PROVE  /\ (i \div Pow2[e - 1]) % 2 = 0 => h[e - 1] = L[e - 1][2 * j] /\ p[e - 1] = L[e - 1][2 * j + 1]
             /\ (i \div Pow2[e - 1]) % 2 # 0 => h[e - 1] = L[e - 1][2 * j + 1] /\ p[e - 1] = L[e - 1][2 * j]
  <2>1. L[e][j] = <<L[e - 1][2 * j], L[e - 1][2 * j + 1]>>
    BY DEF TreeOf
  <2>2. h[e] = IF (i \div Pow2[e - 1]) % 2 = 0 THEN <<h[e - 1], p[e - 1]>> ELSE <<p[e - 1], h[e - 1]>>
    BY DEF Climbs
  <2>3. CASE (i \div Pow2[e - 1]) % 2 = 0
    BY <1>2, <2>1, <2>2, <2>3
  <2>4. CASE (i \div Pow2[e - 1]) % 2 # 0
    BY <1>2, <2>1, <2>2, <2>4
  <2> QED
    BY <2>3, <2>4
<1>3. 0 \in S
  <2>1. d - 0 = d /\ d - d = 0 /\ Pow2[0] = 1 /\ 0 \in 0 .. Pow2[0] - 1
    BY <1>1, PowerOfTwo
  <2> QED
    BY <2>1
<1>4. ASSUME NEW n \in S PROVE n + 1 \in S
  <2>1. SUFFICES ASSUME n + 1 <= d PROVE Somewhere(d - (n + 1))
    OBVIOUS
  <2> DEFINE e == d - n
  <2>2. e \in 1 .. d /\ d - (n + 1) = e - 1 /\ e - 1 \in Nat /\ d - e = n /\ d - (e - 1) = n + 1 /\ n \in Nat
    BY <1>1, <2>1
  <2>2a. Somewhere(e)
    <3> HIDE DEF Somewhere
    <3> QED
      BY <1>1, <2>2
  <2>3. PICK j \in 0 .. Pow2[d - e] - 1 : h[e] = L[e][j]
    BY <2>2a
  <2> HIDE DEF e
  <2>4. h[e - 1] = L[e - 1][2 * j] \/ h[e - 1] = L[e - 1][2 * j + 1]
    BY <1>2, <2>2, <2>3
  <2>5. Pow2[d - (e - 1)] = 2 * Pow2[d - e] /\ Pow2[d - e] \in Nat
    BY <2>2, PowerOfTwo
  <2>6. 2 * j \in 0 .. Pow2[d - (e - 1)] - 1 /\ 2 * j + 1 \in 0 .. Pow2[d - (e - 1)] - 1
    BY <2>3, <2>5
  <2>7. Somewhere(e - 1)
    BY <2>4, <2>6
  <2> QED
    BY <2>2, <2>7
<1> HIDE DEF S
<1>5. S = Nat
  <2>1. S \in SUBSET Nat
    BY DEF S
  <2> QED
    BY <1>3, <1>4, <2>1, NatSteps
<1>6. PICK j \in 0 .. Pow2[d] - 1 : h[0] = L[0][j]
  <2>1. d \in S /\ d - d = 0 /\ d - 0 = d
    BY <1>1, <1>5
  <2> QED
    BY <1>1, <2>1 DEF S
<1>7. i \in Steps /\ x = tr[i].leaf /\ pfx = tr[i].prefix
  <2>1. h[0] = <<i, x, pfx>>
    BY DEF Climbs, Node
  <2>2. L[0][j] = IF j < NSteps THEN <<j, tr[j].leaf, tr[j].prefix>> ELSE <<Last, tr[Last].leaf, tr[Last].prefix>>
    BY DEF TreeOf, Node
  <2>3. j < NSteps => j \in Steps
    BY <1>1, PlayFacts
  <2>4. CASE j < NSteps
    <3>1. <<i, x, pfx>> = <<j, tr[j].leaf, tr[j].prefix>>
      BY <1>6, <2>1, <2>2, <2>4
    <3> QED
      BY <2>3, <2>4, <3>1
  <2>5. CASE ~ (j < NSteps)
    <3>1. <<i, x, pfx>> = <<Last, tr[Last].leaf, tr[Last].prefix>>
      BY <1>6, <2>1, <2>2, <2>5
    <3> QED
      BY <1>1, <3>1
  <2> QED
    BY <2>4, <2>5
<1> DEFINE U == {n \in Nat : n <= d => h[d - n] = L[d - n][i \div Pow2[d - n]]}
<1>8. i < Pow2[d]
  BY <1>1, <1>7, PlayFacts
<1>8a. \A e \in 0 .. d : i \div Pow2[e] \in 0 .. Pow2[d - e] - 1
  BY <1>1, <1>8, Ancestor
<1>9. ASSUME NEW e \in 1 .. d, h[e] = L[e][i \div Pow2[e]]
      PROVE  /\ h[e - 1] = L[e - 1][i \div Pow2[e - 1]]
             /\ p[e - 1] = L[e - 1][Sibling(i \div Pow2[e - 1])]
  <2> DEFINE q == i \div Pow2[e - 1]
  <2>1. e - 1 \in Nat /\ (e - 1) + 1 = e /\ e \in 0 .. d
    BY <1>1
  <2>2. i \div Pow2[e] = q \div 2 /\ q \in Nat
    <3>1. i \div Pow2[(e - 1) + 1] = q \div 2 /\ q \in Nat
      BY <2>1, HalfOf
    <3> QED
      BY <2>1, <3>1
  <2>3. q \div 2 \in 0 .. Pow2[d - e] - 1
    BY <1>8a, <2>1, <2>2
  <2>4. h[e] = L[e][q \div 2]
    BY <1>9, <2>2
  <2>5. /\ q % 2 = 0 => h[e - 1] = L[e - 1][2 * (q \div 2)] /\ p[e - 1] = L[e - 1][2 * (q \div 2) + 1]
        /\ q % 2 # 0 => h[e - 1] = L[e - 1][2 * (q \div 2) + 1] /\ p[e - 1] = L[e - 1][2 * (q \div 2)]
    BY <1>2, <2>3, <2>4
  <2> HIDE DEF q
  <2>6. CASE q % 2 = 0
    BY <2>2, <2>5, <2>6, SiblingIs DEF q
  <2>7. CASE q % 2 # 0
    BY <2>2, <2>5, <2>7, SiblingIs DEF q
  <2> QED
    BY <2>6, <2>7
<1>10. 0 \in U
  <2>1. d - 0 = d /\ i \div Pow2[d] = 0
    BY <1>1, <1>8
  <2> QED
    BY <2>1
<1>11. ASSUME NEW n \in U PROVE n + 1 \in U
  <2>1. SUFFICES ASSUME n + 1 <= d PROVE h[d - (n + 1)] = L[d - (n + 1)][i \div Pow2[d - (n + 1)]]
    OBVIOUS
  <2>2. d - n \in 1 .. d /\ d - (n + 1) = (d - n) - 1 /\ n <= d
    BY <1>1, <2>1
  <2> QED
    BY <1>9, <2>2
<1> HIDE DEF U
<1>12. U = Nat
  <2>1. U \in SUBSET Nat
    BY DEF U
  <2> QED
    BY <1>10, <1>11, <2>1, NatSteps
<1>13. ASSUME NEW e \in 0 .. d - 1 PROVE p[e] = L[e][Sibling(i \div Pow2[e])]
  <2>1. e + 1 \in 1 .. d /\ (e + 1) - 1 = e /\ d - (e + 1) \in Nat /\ d - (d - (e + 1)) = e + 1 /\ d - (e + 1) <= d
    BY <1>1
  <2>2. h[e + 1] = L[e + 1][i \div Pow2[e + 1]]
    BY <1>12, <2>1 DEF U
  <2> QED
    BY <1>9, <2>1, <2>2
<1> QED
  BY <1>7, <1>13

\* chain.py, for every trace that can be committed, of any number of steps: verify_opening accepts
\* the openings of the tree at their own positions with their own paths, and no other.
THEOREM EveryTraceBinds == ASSUME NEW tr \in [Steps -> Opening] PROVE OpeningsBind(tr)
<1> DEFINE L == merkle_levels(tr)
           d == Depth(tr)
           root == merkle_root(tr)
           proof == [i \in DOMAIN tr |-> merkle_proof(tr, i)]
<1>1. TreeOf(tr, L, d) /\ root = L[d][0]
      /\ \A i : merkle_proof(tr, i) = [e \in 0 .. d - 1 |-> L[e][Sibling(i \div Pow2[e])]]
  BY MerkleTree
<1>2. DOMAIN tr = Steps /\ d \in Nat /\ Pow2[d] \in Nat
  BY <1>1 DEF TreeOf
<1> HIDE DEF L, d, root
<1>3. \A i \in Steps : proof[i] = [e \in 0 .. d - 1 |-> L[e][Sibling(i \div Pow2[e])]]
  BY <1>1, <1>2
<1> HIDE DEF proof
<1>4. ASSUME NEW at \in 0 .. 2 * Pow2[d], NEW i \in Steps, NEW j \in Steps, NEW l \in Steps
      PROVE  verify_opening(root, at, tr[i].leaf, tr[j].prefix, proof[l])
                <=> /\ at \in Steps /\ proof[l] = proof[at]
                    /\ tr[i].leaf = tr[at].leaf /\ tr[j].prefix = tr[at].prefix
  <2> DEFINE x == tr[i].leaf
             pfx == tr[j].prefix
             p == proof[l]
  <2>1. at \in Nat /\ DOMAIN p = 0 .. d - 1 /\ p = [e \in 0 .. d - 1 |-> p[e]]
    <3>1. p = [e \in 0 .. d - 1 |-> L[e][Sibling(l \div Pow2[e])]]
      BY <1>3
    <3>2. DOMAIN p = 0 .. d - 1
      BY <3>1
    <3>3. p = [e \in 0 .. d - 1 |-> p[e]]
      BY <3>1
    <3>4. at \in Nat
      BY <1>2
    <3> QED
      BY <3>2, <3>3, <3>4
  <2> HIDE DEF p, x, pfx
  <2>2a. PICK h : Decides(h, root, at, x, pfx, p, d)
    BY <1>2, <2>1, VerifyClimbs
  <2>2. Climbs(h, at, x, pfx, p, d) /\ (verify_opening(root, at, x, pfx, p) <=> h[d] = root)
    BY <2>2a DEF Decides
  <2>3. ASSUME h[d] = root PROVE at \in Steps /\ p = proof[at] /\ x = tr[at].leaf /\ pfx = tr[at].prefix
    <3>1. /\ at \in Steps /\ x = tr[at].leaf /\ pfx = tr[at].prefix
          /\ \A e \in 0 .. d - 1 : p[e] = L[e][Sibling(at \div Pow2[e])]
      <4>1. TreeOf(tr, L, d) /\ h[d] = L[d][0] /\ Climbs(h, at, x, pfx, p, d) /\ at \in Nat
        BY <1>1, <2>1, <2>2, <2>3
      <4> QED
        BY <4>1, RootBinds
    <3>2. p = proof[at]
      BY <1>3, <2>1, <3>1
    <3> QED
      BY <3>1, <3>2
  <2>4. ASSUME at \in Steps, p = proof[at], x = tr[at].leaf, pfx = tr[at].prefix PROVE h[d] = root
    <3>1. \A e \in 0 .. d - 1 : p[e] = L[e][Sibling(at \div Pow2[e])]
      BY <1>3, <2>4
    <3>2. Climbs(h, at, tr[at].leaf, tr[at].prefix, p, d)
      BY <2>2, <2>4
    <3> QED
      BY <1>1, <2>4, <3>1, <3>2, PathLeadsUp
  <2> QED
    BY <2>2, <2>3, <2>4 DEF p, x, pfx
<1> QED
  BY <1>2, <1>4 DEF OpeningsBind, proof, d, root

------------------------------------------------------------------------------
(* The game on the chain, against the bisection off it.                      *)

RoundsOf(sc)    == first_disagreement(A(sc), C(sc)).rounds
Interval_at(sc, r) == bisection(A(sc), C(sc))[r]

\* The range of a dispute is the interval after r rounds.
RangeIs(sc, d, r) == d.lo1 = Interval_at(sc, r).lo + 1 /\ d.hi = Interval_at(sc, r).hi

OpenedAs(sc, d) ==
    /\ AgreedPrefix(d) = TruePrefix(tx, d.lo1 - 1)
    /\ d.hiLeaf = A(sc)[d.hi].leaf /\ d.hiPrefix = A(sc)[d.hi].prefix

PhaseWon(sc) == IF sc.cheat = "challenger" THEN "AsserterWon" ELSE "ChallengerWon"

\* Where the dispute d over a scenario can be after r reveals.
Revealing(sc, d, r) ==
    d.phase = "AwaitReveal" /\ r \in 0 .. RoundsOf(sc) - 1 /\ RangeIs(sc, d, r) /\ OpenedAs(sc, d)

Responding(sc, d, r) ==
    /\ d.phase = "AwaitResponse" /\ r \in 1 .. RoundsOf(sc) /\ RangeIs(sc, d, r - 1) /\ OpenedAs(sc, d)
    /\ d.curLeaf = A(sc)[Mid(d)].leaf /\ d.curPrefix = A(sc)[Mid(d)].prefix

Proving(sc, d, r) ==
    /\ d.phase = "AwaitProof" /\ r = RoundsOf(sc) /\ d.hi = sc.step /\ ~ malformed(sc)
    /\ d.hiLeaf = A(sc)[d.hi].leaf

Decided(sc, d, r) == d.phase = PhaseWon(sc) /\ r = RoundsOf(sc) /\ d.hi = sc.step

GameAt(sc, d, r) == Revealing(sc, d, r) \/ Responding(sc, d, r) \/ Proving(sc, d, r) \/ Decided(sc, d, r)

Started(d, r) == d.phase = "AwaitOpening" /\ r = 0 /\ d.lo1 = 0 /\ d.hi = Last

\* What the script commits.
CommittedAs(sc, cl) == cl.root = A(sc) /\ cl.inputHash = tx /\ cl.outputDigest = A(sc)[Last].leaf

\* The dispute is written as e, and nothing else of the game changes.
Writes(id, c, e) ==
    /\ disputes'[id][c] = e
    /\ \A i \in ClaimIds, p \in Parties : i # id \/ p # c => disputes'[i][p] = disputes[i][p]

LEMMA WriteOne ==
    ASSUME TypeOK, NEW id \in ClaimIds, NEW c \in Parties, NEW e,
           disputes' = [disputes EXCEPT ![id][c] = e]
    PROVE  Writes(id, c, e)
<1>1. disputes \in [ClaimIds -> [Parties -> Dispute]]
  BY DEF TypeOK
<1> QED
  BY <1>1 DEF Writes

LEMMA FinishWrites ==
    ASSUME TypeOK, NEW id \in ClaimIds, NEW c \in Parties, NEW d, NEW b, Finish(id, c, d, b)
    PROVE  Writes(id, c, [d EXCEPT !.phase = IF b THEN "AsserterWon" ELSE "ChallengerWon"])
<1>1. disputes' = [disputes EXCEPT ![id][c] = [d EXCEPT !.phase = IF b THEN "AsserterWon" ELSE "ChallengerWon"]]
  BY DEF Finish
<1> QED
  BY <1>1, WriteOne

LEMMA NextTurnWrites ==
    ASSUME TypeOK, NEW id \in ClaimIds, NEW c \in Parties, NEW d, NEW ph, NextTurn(id, c, d, ph)
    PROVE  Writes(id, c, [d EXCEPT !.phase = ph, !.deadline = now + turnTimeout])
<1>1. disputes' = [disputes EXCEPT ![id][c] = [d EXCEPT !.phase = ph, !.deadline = now + turnTimeout]]
  BY DEF NextTurn
<1> QED
  BY <1>1, WriteOne

\* The rounds of a scenario, and its interval after each.
LEMMA RoundFacts ==
    ASSUME NEW sc \in SCENARIOS
    PROVE  /\ RoundsOf(sc) \in 0 .. NSteps /\ RoundsOf(sc) \in Nat /\ RoundsOf(sc) >= 1
           /\ \A r \in 0 .. NSteps : Interval_at(sc, r) \in Interval
           /\ \A r \in 0 .. NSteps : Narrow(Interval_at(sc, r)) => RoundsOf(sc) <= r
           /\ Narrow(Interval_at(sc, RoundsOf(sc))) /\ Interval_at(sc, RoundsOf(sc)).hi = sc.step
           /\ Interval_at(sc, RoundsOf(sc)).lo + 1 = sc.step
           /\ Interval_at(sc, 0) = [lo |-> -1, hi |-> Last]
           /\ \A r \in 1 .. NSteps :
                 Interval_at(sc, r) = NextInterval(A(sc), C(sc), Interval_at(sc, r - 1))
<1> DEFINE P == A(sc)
           Q == C(sc)
           s == bisection(P, Q)
           R == RoundsOf(sc)
           b == sc.step
<1>1. b \in Steps /\ \A n \in Steps : P[n].prefix = Q[n].prefix <=> n < b
  BY SidesPart
<1>2. R \in 0 .. NSteps /\ Narrow(s[R]) /\ \A r \in 0 .. NSteps : Narrow(s[r]) => R <= r
  BY <1>1, FirstDisagreement DEF RoundsOf
<1>3. \A r \in 0 .. NSteps : s[r].lo < b /\ b <= s[r].hi
  BY <1>1, BisectionFinds
<1>4. /\ s \in [0 .. NSteps -> Interval] /\ s[0] = [lo |-> -1, hi |-> Last]
      /\ \A r \in 1 .. NSteps : s[r] = NextInterval(P, Q, s[r - 1])
  BY BisectionRuns
<1>5. \A r : Interval_at(sc, r) = s[r]
  BY DEF Interval_at
<1> HIDE DEF s, P, Q, R
<1>6. s[R].hi = b /\ s[R].lo + 1 = b
  <2>1. s[R].lo \in Int /\ s[R].hi \in Int /\ b \in Int
    BY <1>1, <1>2, <1>4, PlayFacts DEF Interval
  <2> QED
    BY <1>2, <1>3, <2>1 DEF Narrow
<1>7. R >= 1 /\ R \in Nat
  <2>1. ~ Narrow(s[0])
    <3>1. s[0].lo = -1 /\ s[0].hi = Last /\ Last \in Nat /\ Last >= 1
      BY <1>4, PlayFacts
    <3> QED
      BY <3>1 DEF Narrow
  <2>2. R # 0 /\ NSteps \in Nat
    BY <1>2, <2>1, ModelAssumption
  <2> QED
    BY <1>2, <2>2
<1>8. \A r \in 0 .. NSteps : s[r] \in Interval
  BY <1>4
<1> QED
  BY <1>2, <1>4, <1>5, <1>6, <1>7, <1>8 DEF P, Q, R, b

LEMMA ChallengeOpens ==
    ASSUME IInv, NEW id \in ClaimIds, NEW c \in Parties, challenge(c, id)
    PROVE  \E e : Writes(id, c, e) /\ Started(e, 0)
<1> DEFINE a == claims[id].asserter
           d == disputes[id][c]
           e == [d EXCEPT !.phase = "AwaitOpening", !.hi = Last,
                          !.lockedBond = LockAmount(a), !.deadline = now + turnTimeout]
<1>1. d = NoDispute
  BY DEF IInv, NoneInv, challenge
<1>2. disputes' = [disputes EXCEPT ![id][c] = e]
  BY DEF challenge
<1>3. Writes(id, c, e)
  BY <1>2, WriteOne DEF IInv
<1>4. Started(e, 0)
  BY <1>1 DEF Started, NoDispute
<1> QED
  BY <1>3, <1>4

LEMMA OpenFinalOpens ==
    ASSUME IInv, NEW id \in ClaimIds, NEW c \in Parties, NEW sc \in SCENARIOS,
           CommittedAs(sc, claims[id]), Started(disputes[id][c], 0), openFinal(id, c)
    PROVE  \E e : Writes(id, c, e) /\ GameAt(sc, e, 0)
<1> DEFINE cl   == claims[id]
           head == cl.root[Last]
           prev == cl.root[Last - 1]
           d    == [disputes[id][c] EXCEPT !.hiLeaf = head.leaf, !.hiPrefix = head.prefix]
           e    == [d EXCEPT !.phase = "AwaitReveal", !.deadline = now + turnTimeout]
<1>1. disputes[id][c] \in Dispute /\ TypeOK
  BY DEF IInv, TypeOK
<1>2. d.lo1 = 0 /\ d.hi = Last /\ d.hiLeaf = A(sc)[Last].leaf /\ d.hiPrefix = A(sc)[Last].prefix
      /\ e.lo1 = 0 /\ e.hi = Last /\ e.hiLeaf = A(sc)[Last].leaf /\ e.hiPrefix = A(sc)[Last].prefix
      /\ e.phase = "AwaitReveal"
  BY <1>1 DEF Started, CommittedAs, Dispute
<1>3. head.leaf = cl.outputDigest /\ head.prefix = Append(prev.prefix, head.leaf)
  <2>1. chain_consistent_at(A(sc), Last)
    <3>1. Last \in Steps /\ ~ (malformed(sc) /\ Last = sc.step)
      BY StepFacts, ScenarioFacts
    <3> QED
      BY <3>1, SidesPart
  <2> QED
    BY <2>1, StepFacts DEF chain_consistent_at, CommittedAs
<1>4. Advance(id, c, d)
  BY <1>3 DEF openFinal
<1>5. NextTurn(id, c, d, "AwaitReveal")
  <2>1. d.hi # d.lo1
    BY <1>2, StepFacts
  <2> HIDE DEF d
  <2> QED
    BY <1>4, <2>1 DEF Advance
<1> HIDE DEF d
<1>6. Writes(id, c, e)
  BY <1>1, <1>5, NextTurnWrites
<1>7. RangeIs(sc, e, 0) /\ 0 \in 0 .. RoundsOf(sc) - 1
  BY <1>2, RoundFacts DEF RangeIs
<1>8. OpenedAs(sc, e)
  <2>1. AgreedPrefix(e) = <<>>
    BY <1>2 DEF AgreedPrefix
  <2>2. TruePrefix(tx, e.lo1 - 1) = <<>>
    <3>1. e.lo1 - 1 = -1 /\ tx \in TxInput
      BY <1>2, PlayFacts
    <3> QED
      BY <3>1, TruePrefixEmpty
  <2> QED
    BY <1>2, <2>1, <2>2 DEF OpenedAs
<1> QED
  BY <1>2, <1>6, <1>7, <1>8 DEF GameAt, Revealing

\* The middle of a range is the middle of its interval.
LEMMA MiddleOf ==
    ASSUME NEW sc \in SCENARIOS, NEW d \in Dispute, NEW r \in 0 .. RoundsOf(sc) - 1, RangeIs(sc, d, r)
    PROVE  LET s == Interval_at(sc, r)
           IN /\ s \in Interval /\ ~ Narrow(s) /\ r \in 0 .. NSteps /\ r + 1 \in 1 .. NSteps
              /\ d.lo1 \in Nat /\ d.hi \in Nat /\ d.lo1 < d.hi /\ s.lo = d.lo1 - 1 /\ s.hi = d.hi
              /\ Mid(d) = (s.lo + s.hi) \div 2 /\ Mid(d) \in Steps
<1> DEFINE s == Interval_at(sc, r)
<1>1. r \in 0 .. NSteps /\ r + 1 \in 1 .. NSteps /\ r < RoundsOf(sc)
  BY RoundFacts, ModelAssumption
<1>2. s \in Interval /\ ~ Narrow(s)
  BY <1>1, RoundFacts
<1>3. s.lo \in Int /\ s.hi \in Nat /\ s.lo >= -1
  BY <1>2, PlayFacts DEF Interval
<1> HIDE DEF s
<1>4. d.lo1 = s.lo + 1 /\ d.hi = s.hi
  BY DEF RangeIs, s
<1>5. s.lo = d.lo1 - 1 /\ d.lo1 \in Nat /\ d.hi \in Nat /\ d.lo1 < d.hi
  BY <1>2, <1>3, <1>4 DEF Narrow
<1>6. Mid(d) = (s.lo + s.hi) \div 2
  <2>1. Mid(d) = (d.lo1 + d.hi - 1) \div 2
    BY <1>5 DEF Mid
  <2> QED
    BY <1>3, <1>4, <2>1
<1>7. (s.lo + s.hi) \div 2 \in Steps
  BY <1>2, IntervalHalves
<1> QED
  BY <1>1, <1>2, <1>4, <1>5, <1>6, <1>7 DEF s

LEMMA RevealReveals ==
    ASSUME IInv, NEW id \in ClaimIds, NEW c \in Parties, NEW sc \in SCENARIOS, NEW r,
           CommittedAs(sc, claims[id]), GameAt(sc, disputes[id][c], r), reveal(id, c)
    PROVE  \E e : Writes(id, c, e) /\ GameAt(sc, e, r + 1)
<1> DEFINE d  == disputes[id][c]
           op == claims[id].root[Mid(d)]
           f  == [d EXCEPT !.curLeaf = op.leaf, !.curPrefix = op.prefix]
           e  == [f EXCEPT !.phase = "AwaitResponse", !.deadline = now + turnTimeout]
<1>1. d \in Dispute /\ TypeOK
  BY DEF IInv, TypeOK
<1>2. d.phase = "AwaitReveal" /\ NextTurn(id, c, f, "AwaitResponse")
  BY DEF reveal, Turn
<1>3. Revealing(sc, d, r)
  BY <1>2 DEF GameAt, Revealing, Responding, Proving, Decided, PhaseWon
<1>4. Writes(id, c, e)
  BY <1>1, <1>2, NextTurnWrites
<1>5. /\ e.phase = "AwaitResponse" /\ e.lo1 = d.lo1 /\ e.hi = d.hi /\ e.loPrefix = d.loPrefix
      /\ e.hiLeaf = d.hiLeaf /\ e.hiPrefix = d.hiPrefix /\ e.curLeaf = op.leaf /\ e.curPrefix = op.prefix
  BY <1>1 DEF Dispute
<1>6. Mid(e) = Mid(d) /\ AgreedPrefix(e) = AgreedPrefix(d)
  BY <1>5 DEF Mid, AgreedPrefix
<1>7. r + 1 \in 1 .. RoundsOf(sc) /\ (r + 1) - 1 = r
  BY <1>3, RoundFacts DEF Revealing
<1> HIDE DEF d, e
<1>8. OpenedAs(sc, e) /\ RangeIs(sc, e, (r + 1) - 1)
  BY <1>3, <1>5, <1>6, <1>7 DEF Revealing, OpenedAs, RangeIs
<1>9. e.curLeaf = A(sc)[Mid(e)].leaf /\ e.curPrefix = A(sc)[Mid(e)].prefix
  BY <1>5, <1>6 DEF CommittedAs
<1>10. Responding(sc, e, r + 1)
  BY <1>5, <1>7, <1>8, <1>9 DEF Responding
<1> QED
  BY <1>4, <1>10 DEF GameAt

LEMMA RespondResponds ==
    ASSUME IInv, NEW id \in ClaimIds, NEW c \in Parties, NEW sc \in SCENARIOS, NEW r, NEW agree \in BOOLEAN,
           CommittedAs(sc, claims[id]), GameAt(sc, disputes[id][c], r),
           agree <=> A(sc)[Mid(disputes[id][c])].prefix = C(sc)[Mid(disputes[id][c])].prefix,
           respond(id, c, agree)
    PROVE  \E e : Writes(id, c, e) /\ GameAt(sc, e, r)
<1> DEFINE d   == disputes[id][c]
           mid == Mid(d)
           f   == IF agree THEN [d EXCEPT !.lo1 = mid + 1, !.loPrefix = d.curPrefix]
                  ELSE [d EXCEPT !.hi = mid, !.hiLeaf = d.curLeaf, !.hiPrefix = d.curPrefix]
           s   == Interval_at(sc, r - 1)
           t   == Interval_at(sc, r)
<1>1. d \in Dispute /\ TypeOK
  BY DEF IInv, TypeOK
<1>2. d.phase = "AwaitResponse" /\ Advance(id, c, f)
  BY DEF respond, Turn
<1>3. Responding(sc, d, r)
  BY <1>2 DEF GameAt, Revealing, Responding, Proving, Decided, PhaseWon
<1>4. r \in Nat /\ r \in 1 .. NSteps /\ r <= RoundsOf(sc) /\ r - 1 \in 0 .. RoundsOf(sc) - 1 /\ (r - 1) + 1 = r
  BY <1>3, RoundFacts, ModelAssumption DEF Responding
<1>5. RangeIs(sc, d, r - 1) /\ OpenedAs(sc, d) /\ d.curLeaf = A(sc)[mid].leaf /\ d.curPrefix = A(sc)[mid].prefix
  BY <1>3 DEF Responding
<1>6. /\ s \in Interval /\ ~ Narrow(s) /\ d.lo1 \in Nat /\ d.hi \in Nat /\ d.lo1 < d.hi
      /\ s.lo = d.lo1 - 1 /\ s.hi = d.hi /\ mid = (s.lo + s.hi) \div 2 /\ mid \in Steps
  BY <1>1, <1>4, <1>5, MiddleOf
<1>7. t = NextInterval(A(sc), C(sc), s)
  BY <1>4, RoundFacts
<1>8. t = halve(A(sc), C(sc), s)
  BY <1>6, <1>7 DEF NextInterval
<1>8a. agree <=> A(sc)[mid].prefix = C(sc)[mid].prefix
  OBVIOUS
<1>9. t = IF agree THEN [s EXCEPT !.lo = mid] ELSE [s EXCEPT !.hi = mid]
  BY <1>6, <1>8, <1>8a DEF halve
<1>10. agree => mid < sc.step /\ A(sc)[mid].prefix = TruePrefix(tx, mid)
  BY <1>6, <1>8a, SidesPart
<1> HIDE DEF mid, s, t
<1>11. f.lo1 = (IF agree THEN mid + 1 ELSE d.lo1) /\ f.hi = (IF agree THEN d.hi ELSE mid)
       /\ f.loPrefix = (IF agree THEN d.curPrefix ELSE d.loPrefix)
       /\ f.hiLeaf = (IF agree THEN d.hiLeaf ELSE d.curLeaf)
       /\ f.hiPrefix = (IF agree THEN d.hiPrefix ELSE d.curPrefix)
  <2>1. CASE agree
    BY <1>1, <2>1 DEF Dispute
  <2>2. CASE ~ agree
    BY <1>1, <2>2 DEF Dispute
  <2> QED
    BY <2>1, <2>2
<1>11a. f = [f EXCEPT !.deadline = f.deadline] /\ DOMAIN f = DOMAIN d
  <2>1. CASE agree
    BY <1>1, <2>1 DEF Dispute
  <2>2. CASE ~ agree
    BY <1>1, <2>2 DEF Dispute
  <2> QED
    BY <2>1, <2>2
<1>12. t.lo = (IF agree THEN mid ELSE s.lo) /\ t.hi = (IF agree THEN s.hi ELSE mid)
  BY <1>6, <1>9 DEF Interval
<1>13. RangeIs(sc, f, r)
  <2>1. f.lo1 = t.lo + 1 /\ f.hi = t.hi
    BY <1>6, <1>11, <1>12
  <2> QED
    BY <2>1 DEF RangeIs, t
<1>14. OpenedAs(sc, f)
  <2>1. CASE agree
    <3>1. f.lo1 = mid + 1 /\ f.loPrefix = TruePrefix(tx, mid) /\ mid \in Nat
      BY <1>5, <1>6, <1>10, <1>11, <2>1, PlayFacts DEF mid
    <3>2. f.lo1 # 0 /\ f.lo1 - 1 = mid
      BY <3>1
    <3>3. AgreedPrefix(f) = TruePrefix(tx, f.lo1 - 1)
      BY <3>1, <3>2 DEF AgreedPrefix
    <3> QED
      BY <1>5, <1>11, <2>1, <3>3 DEF OpenedAs
  <2>2. CASE ~ agree
    <3>1. AgreedPrefix(f) = AgreedPrefix(d) /\ f.lo1 = d.lo1
      BY <1>11, <2>2 DEF AgreedPrefix
    <3>2. f.hiLeaf = A(sc)[f.hi].leaf /\ f.hiPrefix = A(sc)[f.hi].prefix
      BY <1>5, <1>11, <2>2 DEF mid
    <3> QED
      BY <1>5, <3>1, <3>2 DEF OpenedAs
  <2> QED
    BY <2>1, <2>2
<1>15. t \in Interval /\ (Narrow(t) <=> f.hi = f.lo1)
  <2>1. t.hi - t.lo = f.hi - f.lo1 + 1 /\ f.lo1 \in Nat /\ f.hi \in Nat /\ f.lo1 <= f.hi /\ t.hi \in Int /\ t.lo \in Int
    <3>1. s.lo \in Int /\ s.hi \in Int /\ mid \in Int /\ mid \in Nat /\ s.lo < mid /\ mid < s.hi
      <4>1. s.hi - s.lo > 1 /\ s.lo \in Int /\ s.hi \in Int /\ s.lo >= -1
        BY <1>6 DEF Narrow
      <4>2. mid \in Nat
        BY <1>6, PlayFacts
      <4>3. 2 * mid <= s.lo + s.hi /\ s.lo + s.hi <= 2 * mid + 1
        BY <1>6, <4>1, <4>2
      <4> QED
        BY <4>1, <4>2, <4>3
    <3> QED
      BY <1>6, <1>11, <1>12, <3>1
  <2>2. t \in Interval
    BY <1>4, RoundFacts DEF t
  <2> QED
    BY <2>1, <2>2 DEF Narrow
<1> DEFINE g == [f EXCEPT !.phase = "AwaitReveal", !.deadline = now + turnTimeout]
           h == [f EXCEPT !.phase = "AwaitProof", !.deadline = now + turnTimeout]
           z == [f EXCEPT !.phase = "ChallengerWon"]
<1>16. /\ g.phase = "AwaitReveal" /\ h.phase = "AwaitProof" /\ z.phase = "ChallengerWon"
       /\ g.lo1 = f.lo1 /\ g.hi = f.hi /\ g.loPrefix = f.loPrefix /\ g.hiLeaf = f.hiLeaf /\ g.hiPrefix = f.hiPrefix
       /\ h.hi = f.hi /\ h.hiLeaf = f.hiLeaf /\ z.hi = f.hi
  <2>1. {"phase", "deadline", "lo1", "hi", "loPrefix", "hiLeaf", "hiPrefix"} \subseteq DOMAIN f
    BY <1>1, <1>11a DEF Dispute
  <2> HIDE DEF f
  <2> QED
    BY <2>1
<1> HIDE DEF f, d
<1>17. CASE f.hi # f.lo1
  <2>1. NextTurn(id, c, f, "AwaitReveal")
    BY <1>2, <1>17 DEF Advance
  <2>2. Writes(id, c, g)
    BY <1>1, <2>1, NextTurnWrites
  <2>3. r \in 0 .. RoundsOf(sc) - 1
    <3>1. ~ Narrow(t) /\ r # RoundsOf(sc)
      BY <1>15, <1>17, RoundFacts DEF t
    <3> QED
      BY <1>4, <3>1, RoundFacts
  <2> HIDE DEF g
  <2>4. RangeIs(sc, g, r) /\ OpenedAs(sc, g)
    BY <1>13, <1>14, <1>16 DEF RangeIs, OpenedAs, AgreedPrefix
  <2>5. Revealing(sc, g, r)
    BY <1>16, <2>3, <2>4 DEF Revealing
  <2> QED
    BY <2>2, <2>5 DEF GameAt
<1>18. CASE f.hi = f.lo1
  <2>1. r = RoundsOf(sc)
    <3>1. Narrow(t) /\ r \in 0 .. NSteps
      BY <1>4, <1>15, <1>18
    <3> QED
      BY <1>4, <3>1, RoundFacts DEF t
  <2>2. f.hi = sc.step /\ f.lo1 = sc.step
    BY <1>13, <1>18, <2>1, RoundFacts DEF RangeIs
  <2>3. f.hiPrefix = Append(AgreedPrefix(f), f.hiLeaf) <=> ~ malformed(sc)
    <3> DEFINE b == sc.step
    <3>1. b \in Steps /\ (chain_consistent_at(A(sc), b) <=> ~ malformed(sc))
      BY SidesPart
    <3>2. f.hiPrefix = A(sc)[b].prefix /\ f.hiLeaf = A(sc)[b].leaf
      BY <1>14, <2>2 DEF OpenedAs
    <3>3. AgreedPrefix(f) = IF b = 0 THEN <<>> ELSE A(sc)[b - 1].prefix
      <4>1. CASE b = 0
        BY <2>2, <4>1 DEF AgreedPrefix
      <4>2. CASE b # 0
        <5>1. b - 1 \in Steps /\ b - 1 < b
          BY <3>1, <4>2, PlayFacts
        <5>2. A(sc)[b - 1].prefix = TruePrefix(tx, b - 1)
          BY <5>1, SidesPart
        <5> QED
          BY <1>14, <2>2, <4>2, <5>2 DEF OpenedAs
      <4> QED
        BY <4>1, <4>2
    <3> QED
      BY <3>1, <3>2, <3>3 DEF chain_consistent_at
  <2>4. CASE ~ malformed(sc)
    <3>1. NextTurn(id, c, f, "AwaitProof")
      BY <1>2, <1>18, <2>3, <2>4 DEF Advance
    <3>2. Writes(id, c, h)
      BY <1>1, <3>1, NextTurnWrites
    <3> HIDE DEF h
    <3>3. Proving(sc, h, r)
      BY <1>14, <1>16, <2>1, <2>2, <2>4 DEF Proving, OpenedAs
    <3> QED
      BY <3>2, <3>3 DEF GameAt
  <2>5. CASE malformed(sc)
    <3>1. Finish(id, c, f, FALSE)
      BY <1>2, <1>18, <2>3, <2>5 DEF Advance
    <3>2. Writes(id, c, z)
      BY <1>1, <3>1, FinishWrites
    <3> HIDE DEF z
    <3>3. Decided(sc, z, r)
      BY <1>16, <2>1, <2>2, <2>5 DEF Decided, PhaseWon, malformed
    <3> QED
      BY <3>2, <3>3 DEF GameAt
  <2> QED
    BY <2>4, <2>5
<1> QED
  BY <1>17, <1>18

LEMMA ResolveDecides ==
    ASSUME IInv, NEW id \in ClaimIds, NEW c \in Parties, NEW sc \in SCENARIOS, NEW r,
           GameAt(sc, disputes[id][c], r),
           resolve(id, c, AgreedInputs(C(sc), disputes[id][c].hi))
    PROVE  \E e : Writes(id, c, e) /\ GameAt(sc, e, r)
<1> DEFINE d   == disputes[id][c]
           won == StepOut(d.hi, AgreedInputs(C(sc), d.hi)) = d.hiLeaf
           e   == [d EXCEPT !.phase = IF won THEN "AsserterWon" ELSE "ChallengerWon"]
<1>1. d \in Dispute /\ TypeOK
  BY DEF IInv, TypeOK
<1>2. d.phase = "AwaitProof" /\ Finish(id, c, d, won)
  BY DEF resolve, Turn
<1>3. Proving(sc, d, r)
  BY <1>2 DEF GameAt, Revealing, Responding, Proving, Decided, PhaseWon
<1>4. Writes(id, c, e)
  BY <1>1, <1>2, FinishWrites
<1>5. won <=> sc.cheat # "asserter"
  <2>1. StepOut(sc.step, AgreedInputs(C(sc), sc.step)) = TrueLeaf[tx][sc.step]
    BY AgreedInputsHonest
  <2>2. A(sc)[sc.step].leaf = TrueLeaf[tx][sc.step] <=> sc.cheat # "asserter"
    BY SidesPart
  <2> QED
    BY <1>3, <2>1, <2>2 DEF Proving
<1>6. sc.cheat # "asserter_malformed_chain" /\ sc.cheat \in {"asserter", "challenger", "asserter_malformed_chain"}
  BY <1>3, ScenarioFacts DEF Proving, malformed
<1>7. e.hi = d.hi /\ e.phase = IF won THEN "AsserterWon" ELSE "ChallengerWon"
  BY <1>1 DEF Dispute
<1> HIDE DEF e, won
<1>8. e.phase = PhaseWon(sc)
  BY <1>5, <1>6, <1>7 DEF PhaseWon
<1>9. Decided(sc, e, r)
  BY <1>3, <1>7, <1>8 DEF Decided, Proving
<1> QED
  BY <1>4, <1>9 DEF GameAt

------------------------------------------------------------------------------
(* The script.                                                               *)

Stages == {"deposit", "next", "commit", "challenge", "open", "bisect", "measure", "game"}

InGame == play.at \in {"challenge", "open", "bisect", "game"}

\* The claims the results can be about.
Past == IF InGame THEN nClaims - 1 ELSE nClaims

Records == [sc : SCENARIOS, cid : Nat, found_step : Steps, rounds : Nat, winner : {"asserter", "challenger"}]

Functions_called == {"depositBond", "commit", "challenge", "openFinal", "reveal", "respond", "resolve"}

Logs == [who : Parties, function : Functions_called, status : {0, 1}]

PlayTypes ==
    /\ play \in [sc : SCENARIOS \cup {NoScenario}, at : Stages, rounds : Nat, attacked : BOOLEAN]
    /\ results \in Seq(Records) /\ transactions \in Seq(Logs)

RecordedRight(r) ==
    /\ r.cid \in 0 .. Past - 1 /\ r.found_step = r.sc.step /\ r.rounds = RoundsOf(r.sc)
    /\ r.winner = honest_side(r.sc) /\ disputes[r.cid][challenger].phase = PhaseWon(r.sc)

ResultsInv == \A i \in DOMAIN results : RecordedRight(results[i])

LogInv == \A i \in DOMAIN transactions :
             transactions[i].status = 0 => transactions[i].who = asserter /\ transactions[i].function = "resolve"

StageInv ==
    /\ play.at \in {"commit", "challenge", "open", "bisect", "game"} => play.sc \in SCENARIOS
    /\ InGame => nClaims \in 1 .. MaxClaims /\ CommittedAs(play.sc, claims[nClaims - 1])
    /\ play.at \in {"commit", "challenge"} => play.rounds = 0
    /\ play.at = "open" => Started(disputes[nClaims - 1][challenger], play.rounds)
    /\ play.at = "bisect" => GameAt(play.sc, disputes[nClaims - 1][challenger], play.rounds)
    /\ play.at = "game" =>
          /\ play.sc.cheat = "asserter"
          /\ \/ disputes[nClaims - 1][challenger].phase = "None" /\ play.rounds = 0
             \/ Started(disputes[nClaims - 1][challenger], play.rounds)
             \/ GameAt(play.sc, disputes[nClaims - 1][challenger], play.rounds)

PlayInv == PlayTypes /\ ResultsInv /\ LogInv /\ StageInv

LEMMA PartiesPlay ==
    /\ asserter \in Asserters /\ asserter \in Parties /\ challenger \in Parties /\ challenger # asserter
    /\ Honest = {} /\ deposited \in Amounts
  BY PlayAssumption, TraceAssumption

LEMMA SentLogs ==
    ASSUME PlayTypes, LogInv, NEW who \in Parties, NEW fn \in Functions_called, NEW status \in {0, 1},
           Sent(who, fn, status), status = 0 => who = asserter /\ fn = "resolve"
    PROVE  transactions' \in Seq(Logs) /\ LogInv'
<1> DEFINE t == [who |-> who, function |-> fn, status |-> status]
<1>1. t \in Logs /\ transactions \in Seq(Logs) /\ transactions' = Append(transactions, t)
  BY DEF Logs, PlayTypes, Sent
<1>2. t.status = 0 => t.who = asserter /\ t.function = "resolve"
  OBVIOUS
<1> HIDE DEF t
<1>3. transactions' \in Seq(Logs)
  BY <1>1
<1>4. ASSUME NEW i \in DOMAIN transactions'
      PROVE  transactions'[i].status = 0 => transactions'[i].who = asserter /\ transactions'[i].function = "resolve"
  <2>1. i \in 1 .. Len(transactions) + 1 /\ Len(transactions) \in Nat
    BY <1>1
  <2>2. CASE i = Len(transactions) + 1
    BY <1>1, <1>2, <2>2
  <2>3. CASE i # Len(transactions) + 1
    <3>1. i \in DOMAIN transactions /\ transactions'[i] = transactions[i]
      BY <1>1, <2>1, <2>3
    <3> QED
      BY <3>1 DEF LogInv
  <2> QED
    BY <2>2, <2>3
<1> QED
  BY <1>3, <1>4 DEF LogInv

Logged == transactions' \in Seq(Logs) /\ LogInv'

LEMMA SentSucceeds ==
    ASSUME PlayInv, NEW who \in Parties, NEW fn \in Functions_called, Sent(who, fn, 1)
    PROVE  Logged
<1>1. 1 \in {0, 1} /\ (1 = 0 => who = asserter /\ fn = "resolve") /\ PlayTypes /\ LogInv
  BY DEF PlayInv
<1> QED
  BY <1>1, SentLogs DEF Logged

\* Results stay right while their disputes are left alone.
LEMMA ResultsKept ==
    ASSUME IInv, PlayTypes, ResultsInv, results' = results, Past \in Nat, Past' \in Nat, Past <= Past',
           \A n \in 0 .. Past - 1 : disputes'[n][challenger] = disputes[n][challenger]
    PROVE  ResultsInv'
<1> SUFFICES ASSUME NEW i \in DOMAIN results' PROVE RecordedRight(results[i])'
  BY DEF ResultsInv
<1> DEFINE r == results[i]
<1>1. r' = r /\ RecordedRight(r)
  BY DEF ResultsInv
<1> HIDE DEF r
<1>2. r.cid \in 0 .. Past' - 1
  BY <1>1 DEF RecordedRight
<1>3. disputes'[r.cid][challenger].phase = PhaseWon(r.sc)
  BY <1>1 DEF RecordedRight
<1> QED
  BY <1>1, <1>2, <1>3 DEF RecordedRight, r

\* A move in the game of the last claim.
LEMMA MoveKeepsResults ==
    ASSUME IInv, PlayTypes, ResultsInv, nClaims \in 1 .. MaxClaims, InGame, InGame', UNCHANGED <<nClaims, results>>,
           NEW e, Writes(nClaims - 1, challenger, e)
    PROVE  ResultsInv'
<1>1. Past = nClaims - 1 /\ Past' = nClaims - 1 /\ Past \in Nat /\ Past <= Past' /\ MaxClaims \in Nat
  BY TimingAssumption DEF Past
<1>2. \A n \in 0 .. Past - 1 : n \in ClaimIds /\ n # nClaims - 1
  BY <1>1 DEF ClaimIds
<1>3. \A n \in 0 .. Past - 1 : disputes'[n][challenger] = disputes[n][challenger]
  BY <1>2, PartiesPlay DEF Writes
<1> QED
  BY <1>1, <1>3, ResultsKept

LEMMA LastClaim ==
    ASSUME IInv, nClaims \in 1 .. MaxClaims
    PROVE  nClaims - 1 \in ClaimIds /\ nClaims \in Nat /\ nClaims - 1 \in Nat /\ cid = nClaims - 1
  BY TimingAssumption DEF ClaimIds, cid

LEMMA MoveKeepsClaims ==
    ASSUME StageInv, InGame, UNCHANGED <<nClaims, claims>>, play'.sc = play.sc
    PROVE  nClaims' \in 1 .. MaxClaims /\ CommittedAs(play'.sc, claims'[nClaims' - 1]) /\ play'.sc \in SCENARIOS
<1>1. play.sc \in SCENARIOS
  BY DEF StageInv, InGame
<1> QED
  BY <1>1 DEF StageInv

\* What is committed, and its place in the book.
LEMMA CommitBooks ==
    ASSUME IInv, NEW a, NEW tr, NEW out, NEW x, commit(a, tr, out, x)
    PROVE  /\ nClaims' = nClaims + 1 /\ nClaims \in ClaimIds /\ nClaims' \in 1 .. MaxClaims /\ nClaims \in Nat
           /\ claims'[nClaims' - 1] = [root |-> tr, outputDigest |-> out, inputHash |-> x, asserter |-> a,
                                       committedAt |-> now]
           /\ disputes' = disputes /\ disputes'[nClaims' - 1][challenger].phase = "None"
<1>1. nClaims \in 0 .. MaxClaims /\ nClaims < MaxClaims /\ MaxClaims \in Nat /\ claims \in [ClaimIds -> Claim \cup {NoClaim}]
  BY TimingAssumption DEF IInv, TypeOK, commit
<1>2. nClaims' = nClaims + 1 /\ disputes' = disputes
      /\ claims' = [claims EXCEPT ![nClaims] = [root |-> tr, outputDigest |-> out, inputHash |-> x, asserter |-> a,
                                                committedAt |-> now]]
  BY DEF commit
<1>3. nClaims \in ClaimIds /\ nClaims \in Nat /\ nClaims' \in 1 .. MaxClaims /\ nClaims' - 1 = nClaims
  BY <1>1, <1>2 DEF ClaimIds
<1>4. disputes[nClaims][challenger].phase = "None"
  BY <1>3, PartiesPlay DEF IInv, OpenedInv
<1> QED
  BY <1>1, <1>2, <1>3, <1>4

LEMMA TracesMay ==
    /\ \A sc \in SCENARIOS : /\ A(sc) \in Traces \cup {TrueTrace(tx)} /\ A(sc)[Last].leaf \in Leaf
                             /\ CommittedAs(sc, [root |-> A(sc), outputDigest |-> A(sc)[Last].leaf, inputHash |-> tx,
                                                 asserter |-> asserter, committedAt |-> now])
    /\ trace(NoStep) = TrueTrace(tx) /\ trace(NoStep)[Last].leaf \in Leaf /\ tx \in TxInput
<1>1. Honestly = TrueTrace(tx) /\ trace(NoStep) = Honestly
  BY HonestTrace DEF Honestly, trace
<1>2. TrueTrace(tx)[Last].leaf \in Leaf /\ tx \in TxInput
  BY PlayFacts, StepFacts DEF TrueTrace
<1>3. ASSUME NEW sc \in SCENARIOS PROVE A(sc) \in Traces \cup {TrueTrace(tx)}
  <2>1. A(sc) = Badly(sc) \/ A(sc) = Honestly
    BY DEF A
  <2> QED
    BY <1>1, <2>1, ScriptAssumption
<1>4. ASSUME NEW sc \in SCENARIOS PROVE A(sc)[Last].leaf \in Leaf
  BY SidesPart, StepFacts DEF Opening
<1> QED
  BY <1>1, <1>2, <1>3, <1>4 DEF CommittedAs

\* gas_game_v2.py's game is the scenario of an asserter that cheats at one step.
GasScenario(n) == [cheat |-> "asserter", step |-> n, wrong_weights |-> FALSE]

LEMMA GasGame ==
    ASSUME NEW sc \in SCENARIOS, sc.cheat = "asserter"
    PROVE  trace(sc.step) = A(sc) /\ trace(NoStep) = C(sc)
  BY DEF trace, A, C, Badly, Honestly, malformed

LEMMA GasScenarioIs == ASSUME NEW n \in Steps PROVE GasScenario(n) \in SCENARIOS
  BY DEF GasScenario, SCENARIOS

LEMMA PlayEstablishes == PlayInit => IInv /\ PlayInv
<1> SUFFICES ASSUME PlayInit PROVE IInv /\ PlayInv
  OBVIOUS
<1>1. IInv
  BY InitEstablishes DEF PlayInit
<1>2. play = [sc |-> NoScenario, at |-> "deposit", rounds |-> 0, attacked |-> FALSE] /\ results = <<>> /\ transactions = <<>>
  BY DEF PlayInit
<1>3. PlayTypes
  BY <1>2 DEF PlayTypes, Stages
<1>4. ResultsInv /\ LogInv
  BY <1>2 DEF ResultsInv, LogInv
<1>5. StageInv
  BY <1>2 DEF StageInv, InGame
<1> QED
  BY <1>1, <1>3, <1>4, <1>5 DEF PlayInv

\* A move of the game in the stage of the script it belongs to.
LEMMA MovePreserves_play ==
    ASSUME IInv, PlayInv, InGame, UNCHANGED <<nClaims, claims, results>>,
           Logged, NEW e, Writes(nClaims - 1, challenger, e),
           play' \in [sc : SCENARIOS \cup {NoScenario}, at : Stages, rounds : Nat, attacked : BOOLEAN],
           play'.sc = play.sc,
           \/ play'.at = "open" /\ Started(e, play'.rounds)
           \/ play'.at = "bisect" /\ GameAt(play.sc, e, play'.rounds)
           \/ play'.at = "game" /\ play.at = "game" /\ (Started(e, play'.rounds) \/ GameAt(play.sc, e, play'.rounds))
    PROVE  PlayInv'
<1>1. PlayTypes /\ ResultsInv /\ LogInv /\ StageInv /\ nClaims \in 1 .. MaxClaims
  BY DEF PlayInv, StageInv
<1>2. transactions' \in Seq(Logs) /\ LogInv'
  BY DEF Logged
<1>3. PlayTypes'
  BY <1>1, <1>2 DEF PlayTypes
<1>4. InGame'
  BY DEF InGame
<1>5. ResultsInv'
  BY <1>1, <1>4, MoveKeepsResults
<1>6. nClaims' \in 1 .. MaxClaims /\ CommittedAs(play'.sc, claims'[nClaims' - 1]) /\ play'.sc \in SCENARIOS
  BY <1>1, MoveKeepsClaims
<1>7. disputes'[nClaims' - 1][challenger] = e
  BY <1>1 DEF Writes
<1>8. play.at = "game" => play.sc.cheat = "asserter"
  BY <1>1 DEF StageInv
<1>9. StageInv'
  BY <1>6, <1>7, <1>8 DEF StageInv
<1> QED
  BY <1>2, <1>3, <1>5, <1>9 DEF PlayInv

LEMMA PlayRecord ==
    ASSUME PlayInv
    PROVE  /\ \A s \in Stages : /\ [play EXCEPT !.at = s] \in [sc : SCENARIOS \cup {NoScenario}, at : Stages,
                                                               rounds : Nat, attacked : BOOLEAN]
                                /\ [play EXCEPT !.at = s].sc = play.sc /\ [play EXCEPT !.at = s].at = s
                                /\ [play EXCEPT !.at = s].rounds = play.rounds
           /\ [play EXCEPT !.rounds = @ + 1] \in [sc : SCENARIOS \cup {NoScenario}, at : Stages,
                                                  rounds : Nat, attacked : BOOLEAN]
           /\ [play EXCEPT !.rounds = @ + 1].sc = play.sc /\ [play EXCEPT !.rounds = @ + 1].at = play.at
           /\ [play EXCEPT !.rounds = @ + 1].rounds = play.rounds + 1
           /\ play \in [sc : SCENARIOS \cup {NoScenario}, at : Stages, rounds : Nat, attacked : BOOLEAN]
  BY DEF PlayInv, PlayTypes

LEMMA InGameFacts ==
    ASSUME IInv, PlayInv, InGame
    PROVE  /\ nClaims \in 1 .. MaxClaims /\ cid = nClaims - 1 /\ cid \in ClaimIds /\ nClaims - 1 \in ClaimIds
           /\ play.sc \in SCENARIOS /\ CommittedAs(play.sc, claims[nClaims - 1])
<1>1. nClaims \in 1 .. MaxClaims /\ play.sc \in SCENARIOS /\ CommittedAs(play.sc, claims[nClaims - 1])
  BY DEF PlayInv, StageInv, InGame
<1> QED
  BY <1>1, LastClaim

LEMMA ChallengePlays ==
    ASSUME IInv, PlayInv, InGame, play.rounds = 0, challenge(challenger, cid), Sent(challenger, "challenge", 1),
           \/ play.at = "challenge" /\ Go("open")
           \/ play.at = "game" /\ UNCHANGED play
           , UNCHANGED results
    PROVE  PlayInv' /\ Next
<1>0. Logged
  <2>1. challenger \in Parties /\ "challenge" \in Functions_called
    BY PartiesPlay DEF Functions_called
  <2> QED
    BY <2>1, SentSucceeds
<1>1. /\ nClaims \in 1 .. MaxClaims /\ cid = nClaims - 1 /\ cid \in ClaimIds
      /\ play.sc \in SCENARIOS /\ CommittedAs(play.sc, claims[nClaims - 1])
  BY InGameFacts
<1>2. PICK e : Writes(cid, challenger, e) /\ Started(e, 0)
  BY <1>1, PartiesPlay, ChallengeOpens
<1>3. UNCHANGED <<nClaims, claims>>
  BY DEF challenge, book
<1>4. Next
  BY <1>1, PartiesPlay DEF Next
<1>5. /\ play' \in [sc : SCENARIOS \cup {NoScenario}, at : Stages, rounds : Nat, attacked : BOOLEAN]
      /\ play'.sc = play.sc /\ play'.rounds = 0
      /\ play'.at = "open" \/ (play'.at = "game" /\ play.at = "game")
  BY PlayRecord DEF Go, Stages
<1>6. Writes(nClaims - 1, challenger, e) /\ Started(e, play'.rounds)
  BY <1>1, <1>2, <1>5
<1>7. PlayInv'
  BY <1>3, <1>5, <1>6, <1>0, MovePreserves_play
<1> QED
  BY <1>4, <1>7

LEMMA OpenPlays ==
    ASSUME IInv, PlayInv, InGame, openFinal(cid, challenger), Sent(asserter, "openFinal", 1),
           \/ play.at = "open" /\ Go("bisect")
           \/ play.at = "game" /\ UNCHANGED play
           , UNCHANGED results
    PROVE  PlayInv' /\ Next
<1>0. Logged
  <2>1. asserter \in Parties /\ "openFinal" \in Functions_called
    BY PartiesPlay DEF Functions_called
  <2> QED
    BY <2>1, SentSucceeds
<1>1. /\ nClaims \in 1 .. MaxClaims /\ cid = nClaims - 1 /\ cid \in ClaimIds
      /\ play.sc \in SCENARIOS /\ CommittedAs(play.sc, claims[cid])
  BY InGameFacts
<1>2. disputes[cid][challenger].phase = "AwaitOpening"
  BY DEF openFinal, Turn
<1>3. Started(disputes[cid][challenger], 0) /\ play.rounds = 0
  <2>1. Started(disputes[cid][challenger], play.rounds)
    BY <1>1, <1>2 DEF PlayInv, StageInv, GameAt, Revealing, Responding, Proving, Decided, PhaseWon
  <2> QED
    BY <2>1 DEF Started
<1>4. PICK e : Writes(cid, challenger, e) /\ GameAt(play.sc, e, 0)
  BY <1>1, <1>3, PartiesPlay, OpenFinalOpens
<1>5. UNCHANGED <<nClaims, claims>>
  BY DEF openFinal, book
<1>6. Next
  BY <1>1, PartiesPlay DEF Next, Play
<1>7. /\ play' \in [sc : SCENARIOS \cup {NoScenario}, at : Stages, rounds : Nat, attacked : BOOLEAN]
      /\ play'.sc = play.sc /\ play'.rounds = 0
      /\ play'.at = "bisect" \/ (play'.at = "game" /\ play.at = "game")
  BY <1>3, PlayRecord DEF Go, Stages
<1>8. Writes(nClaims - 1, challenger, e) /\ GameAt(play.sc, e, play'.rounds)
  BY <1>1, <1>4, <1>7
<1>9. PlayInv'
  BY <1>5, <1>7, <1>8, <1>0, MovePreserves_play
<1> QED
  BY <1>6, <1>9

\* In a game that is open for moves.
LEMMA GameIsAt ==
    ASSUME IInv, PlayInv, play.at \in {"bisect", "game"},
           disputes[cid][challenger].phase \notin {"None", "AwaitOpening"}
    PROVE  GameAt(play.sc, disputes[cid][challenger], play.rounds) /\ InGame
<1>1. InGame
  BY DEF InGame
<1>2. cid = nClaims - 1
  BY <1>1, InGameFacts
<1> QED
  BY <1>1, <1>2 DEF PlayInv, StageInv, Started

LEMMA RevealPlays ==
    ASSUME IInv, PlayInv, play.at \in {"bisect", "game"}, reveal(cid, challenger), Sent(asserter, "reveal", 1),
           play' = [play EXCEPT !.rounds = @ + 1], UNCHANGED results
    PROVE  PlayInv' /\ Next
<1>0. Logged
  <2>1. asserter \in Parties /\ "reveal" \in Functions_called
    BY PartiesPlay DEF Functions_called
  <2> QED
    BY <2>1, SentSucceeds
<1>1. disputes[cid][challenger].phase = "AwaitReveal"
  BY DEF reveal, Turn
<1>2. GameAt(play.sc, disputes[cid][challenger], play.rounds) /\ InGame
  BY <1>1, GameIsAt
<1>3. /\ nClaims \in 1 .. MaxClaims /\ cid = nClaims - 1 /\ cid \in ClaimIds
      /\ play.sc \in SCENARIOS /\ CommittedAs(play.sc, claims[cid])
  BY <1>2, InGameFacts
<1>4. PICK e : Writes(cid, challenger, e) /\ GameAt(play.sc, e, play.rounds + 1)
  BY <1>2, <1>3, PartiesPlay, RevealReveals
<1>5. UNCHANGED <<nClaims, claims>>
  BY DEF reveal, book
<1>6. Next
  BY <1>3, PartiesPlay DEF Next, Play
<1>7. /\ play' \in [sc : SCENARIOS \cup {NoScenario}, at : Stages, rounds : Nat, attacked : BOOLEAN]
      /\ play'.sc = play.sc /\ play'.rounds = play.rounds + 1 /\ play'.at = play.at
  BY PlayRecord
<1>8. Writes(nClaims - 1, challenger, e) /\ GameAt(play.sc, e, play'.rounds)
  BY <1>3, <1>4, <1>7
<1>9. PlayInv'
  BY <1>2, <1>5, <1>7, <1>8, <1>0, MovePreserves_play
<1> QED
  BY <1>6, <1>9

LEMMA RespondPlays ==
    ASSUME IInv, PlayInv, play.at \in {"bisect", "game"}, NEW agree \in BOOLEAN,
           agree <=> A(play.sc)[Mid(disputes[cid][challenger])].prefix
                       = C(play.sc)[Mid(disputes[cid][challenger])].prefix,
           respond(cid, challenger, agree), Sent(challenger, "respond", 1), UNCHANGED <<play, results>>
    PROVE  PlayInv' /\ Next
<1>0. Logged
  <2>1. challenger \in Parties /\ "respond" \in Functions_called
    BY PartiesPlay DEF Functions_called
  <2> QED
    BY <2>1, SentSucceeds
<1>1. disputes[cid][challenger].phase = "AwaitResponse"
  BY DEF respond, Turn
<1>2. GameAt(play.sc, disputes[cid][challenger], play.rounds) /\ InGame
  BY <1>1, GameIsAt
<1>3. /\ nClaims \in 1 .. MaxClaims /\ cid = nClaims - 1 /\ cid \in ClaimIds
      /\ play.sc \in SCENARIOS /\ CommittedAs(play.sc, claims[cid])
  BY <1>2, InGameFacts
<1>4. PICK e : Writes(cid, challenger, e) /\ GameAt(play.sc, e, play.rounds)
  BY <1>2, <1>3, PartiesPlay, RespondResponds
<1>5. UNCHANGED <<nClaims, claims>>
  BY DEF respond, book
<1>6. Next
  BY <1>3, PartiesPlay DEF Next, Play
<1>7. play' \in [sc : SCENARIOS \cup {NoScenario}, at : Stages, rounds : Nat, attacked : BOOLEAN]
  BY PlayRecord
<1>8. Writes(nClaims - 1, challenger, e) /\ GameAt(play.sc, e, play'.rounds)
  BY <1>3, <1>4
<1>9. PlayInv'
  BY <1>2, <1>5, <1>7, <1>8, <1>0, MovePreserves_play
<1> QED
  BY <1>6, <1>9

LEMMA ResolvePlays ==
    ASSUME IInv, PlayInv, play.at \in {"bisect", "game"},
           resolve(cid, challenger, AgreedInputs(C(play.sc), disputes[cid][challenger].hi)),
           Sent(challenger, "resolve", 1), UNCHANGED <<play, results>>
    PROVE  PlayInv' /\ Next
<1> DEFINE d   == disputes[cid][challenger]
           ins == AgreedInputs(C(play.sc), d.hi)
<1>0. Logged
  <2>1. challenger \in Parties /\ "resolve" \in Functions_called
    BY PartiesPlay DEF Functions_called
  <2> QED
    BY <2>1, SentSucceeds
<1>1. d.phase = "AwaitProof"
  BY DEF resolve, Turn
<1>2. GameAt(play.sc, d, play.rounds) /\ InGame
  BY <1>1, GameIsAt
<1>3. /\ nClaims \in 1 .. MaxClaims /\ cid = nClaims - 1 /\ cid \in ClaimIds
      /\ play.sc \in SCENARIOS /\ CommittedAs(play.sc, claims[cid])
  BY <1>2, InGameFacts
<1>4. PICK e : Writes(cid, challenger, e) /\ GameAt(play.sc, e, play.rounds)
  BY <1>2, <1>3, PartiesPlay, ResolveDecides
<1>5. UNCHANGED <<nClaims, claims>>
  BY DEF resolve, book
<1>6. ins \in [StepInputs[d.hi] -> Leaf \cup TxInput]
  <2>1. d.hi = play.sc.step
    BY <1>1, <1>2 DEF GameAt, Revealing, Responding, Proving, Decided, PhaseWon
  <2>2. ins = [j \in StepInputs[d.hi] |-> IF j = -1 THEN tx ELSE TrueLeaf[tx][j]]
    BY <1>3, <2>1, AgreedInputsHonest
  <2>3. \A j \in StepInputs[d.hi] : j = -1 \/ j \in Steps
    BY <1>3, <2>1, SidesPart, ModelAssumption DEF Steps
  <2>4. \A j \in StepInputs[d.hi] : (IF j = -1 THEN tx ELSE TrueLeaf[tx][j]) \in Leaf \cup TxInput
    BY <2>3, PlayFacts
  <2> QED
    BY <2>2, <2>4
<1>7. Next
  BY <1>3, <1>6, PartiesPlay DEF Next, Play
<1>8. play' \in [sc : SCENARIOS \cup {NoScenario}, at : Stages, rounds : Nat, attacked : BOOLEAN]
  BY PlayRecord
<1>9. Writes(nClaims - 1, challenger, e) /\ GameAt(play.sc, e, play'.rounds)
  BY <1>3, <1>4
<1>10. PlayInv'
  BY <1>2, <1>5, <1>8, <1>9, <1>0, MovePreserves_play
<1> QED
  BY <1>7, <1>10

\* A commitment in the stage of the script it belongs to.
LEMMA CommitPlays ==
    ASSUME IInv, PlayInv, ~ InGame, NEW sc \in SCENARIOS, commit(asserter, A(sc), A(sc)[Last].leaf, tx),
           Sent(asserter, "commit", 1), UNCHANGED results,
           play' \in [sc : SCENARIOS \cup {NoScenario}, at : Stages, rounds : Nat, attacked : BOOLEAN],
           play'.sc = sc, play'.rounds = 0,
           play'.at = "challenge" \/ (play'.at = "game" /\ sc.cheat = "asserter")
    PROVE  PlayInv' /\ Next
<1>0. Logged
  <2>1. asserter \in Parties /\ "commit" \in Functions_called
    BY PartiesPlay DEF Functions_called
  <2> QED
    BY <2>1, SentSucceeds
<1>1. PlayTypes /\ ResultsInv /\ LogInv
  BY DEF PlayInv
<1>2. /\ nClaims' = nClaims + 1 /\ nClaims' \in 1 .. MaxClaims /\ nClaims \in Nat
      /\ claims'[nClaims' - 1] = [root |-> A(sc), outputDigest |-> A(sc)[Last].leaf, inputHash |-> tx,
                                  asserter |-> asserter, committedAt |-> now]
      /\ disputes' = disputes /\ disputes'[nClaims' - 1][challenger].phase = "None"
  BY CommitBooks
<1>3. transactions' \in Seq(Logs) /\ LogInv'
  BY <1>0 DEF Logged
<1>4. PlayTypes'
  BY <1>1, <1>3 DEF PlayTypes
<1>5. InGame'
  BY DEF InGame
<1>6. ResultsInv'
  <2>1. Past = nClaims /\ Past' = nClaims
    BY <1>2, <1>5 DEF Past
  <2> QED
    BY <1>1, <1>2, <2>1, ResultsKept
<1>7. CommittedAs(sc, claims'[nClaims' - 1])
  BY <1>2 DEF CommittedAs
<1>8. StageInv'
  BY <1>2, <1>7 DEF StageInv
<1>9. Next
  BY TracesMay, PartiesPlay DEF Next
<1> QED
  BY <1>3, <1>4, <1>6, <1>8, <1>9 DEF PlayInv

\* The script goes on to another scenario, or ends one.
LEMMA StagePreserves ==
    ASSUME IInv, PlayInv, UNCHANGED vars, UNCHANGED <<results, transactions>>, ~ InGame, ~ InGame',
           play' \in [sc : SCENARIOS \cup {NoScenario}, at : Stages, rounds : Nat, attacked : BOOLEAN],
           play'.at = "commit" => play'.sc \in SCENARIOS /\ play'.rounds = 0
    PROVE  PlayInv'
<1>1. PlayTypes /\ ResultsInv /\ LogInv /\ UNCHANGED <<nClaims, claims, disputes>> /\ nClaims \in Nat
  BY TimingAssumption DEF PlayInv, vars, IInv, TypeOK
<1>2. PlayTypes' /\ LogInv'
  BY <1>1 DEF PlayTypes, LogInv
<1>3. ResultsInv'
  <2>1. Past = nClaims /\ Past' = nClaims
    BY <1>1 DEF Past
  <2> QED
    BY <1>1, <2>1, ResultsKept
<1>4. StageInv'
  BY DEF StageInv, InGame
<1> QED
  BY <1>2, <1>3, <1>4 DEF PlayInv

\* The result of a decided game is noted down.
LEMMA RecordPreserves ==
    ASSUME IInv, PlayInv, InGame, play.at \in {"bisect", "game"}, Phase \in Won, UNCHANGED vars,
           UNCHANGED transactions, NEW w, w = IF Phase = "AsserterWon" THEN "asserter" ELSE "challenger",
           results' = Append(results, [sc |-> play.sc, cid |-> cid, found_step |-> disputes[cid][challenger].hi,
                                       rounds |-> play.rounds, winner |-> w]),
           NEW s \in {"next", "measure"}, Go(s)
    PROVE  PlayInv'
<1>0. PICK r : r = [sc |-> play.sc, cid |-> cid, found_step |-> disputes[cid][challenger].hi,
                    rounds |-> play.rounds, winner |-> w]
  OBVIOUS
<1>1. PlayTypes /\ ResultsInv /\ LogInv /\ UNCHANGED <<nClaims, claims, disputes>>
  BY DEF PlayInv, vars
<1>2. /\ nClaims \in 1 .. MaxClaims /\ cid = nClaims - 1 /\ nClaims \in Nat /\ nClaims - 1 \in Nat
      /\ play.sc \in SCENARIOS
  BY InGameFacts, LastClaim
<1>3. Decided(play.sc, disputes[cid][challenger], play.rounds)
  <2>1. GameAt(play.sc, disputes[cid][challenger], play.rounds)
    BY GameIsAt DEF Phase, Won
  <2> QED
    BY <2>1 DEF GameAt, Revealing, Responding, Proving, Phase, Won
<1>4. /\ play' \in [sc : SCENARIOS \cup {NoScenario}, at : Stages, rounds : Nat, attacked : BOOLEAN]
      /\ play'.at = s
  BY PlayRecord DEF Go, Stages
<1>5. Past = nClaims - 1 /\ Past' = nClaims
  BY <1>1, <1>4 DEF Past, InGame
<1>6. w = honest_side(play.sc) /\ Phase = PhaseWon(play.sc)
  BY <1>3 DEF Decided, PhaseWon, honest_side, Phase
<1>7. /\ r.sc = play.sc /\ r.cid = nClaims - 1 /\ r.found_step = play.sc.step /\ r.rounds = RoundsOf(play.sc)
      /\ r.winner = honest_side(play.sc) /\ r \in Records /\ results' = Append(results, r)
  <2>1. play.sc.step \in Steps /\ RoundsOf(play.sc) \in Nat
    BY <1>2, SidesPart, RoundFacts
  <2>2. w \in {"asserter", "challenger"}
    OBVIOUS
  <2>3. disputes[cid][challenger].hi = play.sc.step /\ play.rounds = RoundsOf(play.sc)
    BY <1>3 DEF Decided
  <2>4. r = [sc |-> play.sc, cid |-> nClaims - 1, found_step |-> play.sc.step, rounds |-> RoundsOf(play.sc), winner |-> w]
    BY <1>0, <1>2, <2>3
  <2>5. r \in Records
    BY <1>2, <2>1, <2>2, <2>4 DEF Records
  <2> QED
    BY <1>0, <1>2, <1>6, <2>4, <2>5
<1>8. RecordedRight(r)'
  <2>1. r.cid \in 0 .. Past' - 1
    BY <1>2, <1>5, <1>7
  <2>2. disputes'[r.cid][challenger].phase = PhaseWon(r.sc)
    BY <1>1, <1>2, <1>6, <1>7 DEF Phase
  <2> QED
    BY <1>7, <2>1, <2>2 DEF RecordedRight
<1>9. PlayTypes' /\ LogInv'
  <2>1. results' \in Seq(Records)
    BY <1>1, <1>7 DEF PlayTypes
  <2>2. transactions' = transactions
    OBVIOUS
  <2> QED
    BY <1>1, <1>4, <2>1, <2>2 DEF PlayTypes, LogInv
<1>10. ResultsInv'
  <2>1. ASSUME NEW i \in DOMAIN results' PROVE RecordedRight(results[i])'
    <3>0. results \in Seq(Records) /\ Len(results) \in Nat
      BY <1>1 DEF PlayTypes
    <3>1. i \in 1 .. Len(results) + 1
      BY <1>7, <3>0
    <3>2. CASE i = Len(results) + 1
      <4>1. results'[i] = r
        BY <1>7, <3>0, <3>2
      <4> QED
        BY <1>8, <4>1 DEF RecordedRight
    <3>3. CASE i # Len(results) + 1
      <4>1. i \in DOMAIN results /\ results'[i] = results[i]
        BY <1>7, <3>0, <3>1, <3>3
      <4>2. PICK q : q = results[i]
        OBVIOUS
      <4>3. RecordedRight(q)
        BY <1>1, <4>1, <4>2 DEF ResultsInv
      <4>4. RecordedRight(q)'
        BY <1>1, <1>2, <1>5, <4>3 DEF RecordedRight
      <4> QED
        BY <4>1, <4>2, <4>4 DEF RecordedRight
    <3> QED
      BY <3>2, <3>3
  <2> QED
    BY <2>1 DEF ResultsInv
<1>11. StageInv'
  BY <1>4 DEF StageInv, InGame
<1> QED
  BY <1>9, <1>10, <1>11 DEF PlayInv

LEMMA DepositPlays == ASSUME IInv, PlayInv, deposit PROVE PlayInv' /\ Next
<1>1. depositBond(asserter, deposited) /\ Next
  <2>1. depositBond(asserter, deposited)
    BY DEF deposit
  <2> QED
    BY <2>1, PartiesPlay DEF Next
<1>2. UNCHANGED <<nClaims, claims, disputes, results>> /\ play.at = "deposit" /\ Sent(asserter, "depositBond", 1)
      /\ play' = [play EXCEPT !.at = "next"]
  BY DEF deposit, depositBond, book, Go
<1>3. Logged
  <2>1. asserter \in Parties /\ "depositBond" \in Functions_called
    BY PartiesPlay DEF Functions_called
  <2> QED
    BY <1>2, <2>1, SentSucceeds
<1>4. PlayTypes /\ ResultsInv /\ nClaims \in Nat
  BY TimingAssumption DEF PlayInv, IInv, TypeOK
<1>5. play' \in [sc : SCENARIOS \cup {NoScenario}, at : Stages, rounds : Nat, attacked : BOOLEAN] /\ play'.at = "next"
  BY <1>2, PlayRecord DEF Stages
<1>6. PlayTypes'
  BY <1>2, <1>3, <1>4, <1>5 DEF PlayTypes, Logged
<1>7. ResultsInv'
  <2>1. Past = nClaims /\ Past' = nClaims
    BY <1>2, <1>5 DEF Past, InGame
  <2> QED
    BY <1>2, <1>4, <2>1, ResultsKept
<1>8. StageInv'
  BY <1>5 DEF StageInv, InGame
<1> QED
  BY <1>1, <1>3, <1>6, <1>7, <1>8 DEF PlayInv, Logged

LEMMA NextScenarioPlays ==
    ASSUME IInv, PlayInv, NEW sc \in SCENARIOS, nextScenario(sc) PROVE PlayInv' /\ UNCHANGED vars
<1>1. play.at = "next" /\ play' = [sc |-> sc, at |-> "commit", rounds |-> 0, attacked |-> FALSE]
      /\ UNCHANGED <<vars, results, transactions>>
  BY DEF nextScenario
<1>2. play' \in [sc : SCENARIOS \cup {NoScenario}, at : Stages, rounds : Nat, attacked : BOOLEAN]
      /\ play'.sc \in SCENARIOS /\ play'.rounds = 0 /\ play'.at = "commit"
  BY <1>1 DEF Stages
<1>3. ~ InGame /\ ~ InGame'
  BY <1>1, <1>2 DEF InGame
<1> QED
  BY <1>1, <1>2, <1>3, StagePreserves

LEMMA CommitClaimPlays == ASSUME IInv, PlayInv, commitClaim PROVE PlayInv' /\ Next
<1>1. play.at = "commit" /\ commit(asserter, A(play.sc), A(play.sc)[Last].leaf, tx)
      /\ Sent(asserter, "commit", 1) /\ UNCHANGED results /\ play' = [play EXCEPT !.at = "challenge"]
  BY DEF commitClaim, Go
<1>2. play.sc \in SCENARIOS /\ play.rounds = 0
  BY <1>1 DEF PlayInv, StageInv
<1>3. /\ play' \in [sc : SCENARIOS \cup {NoScenario}, at : Stages, rounds : Nat, attacked : BOOLEAN]
      /\ play'.sc = play.sc /\ play'.rounds = 0 /\ play'.at = "challenge"
  BY <1>1, <1>2, PlayRecord DEF Stages
<1>4. ~ InGame
  BY <1>1 DEF InGame
<1> QED
  BY <1>1, <1>2, <1>3, <1>4, CommitPlays

LEMMA WrongWeightsPlays == ASSUME IInv, PlayInv, wrongWeights PROVE PlayInv' /\ UNCHANGED vars
<1>1. /\ play.at = "bisect" /\ play' = [play EXCEPT !.attacked = TRUE] /\ Sent(asserter, "resolve", 0)
      /\ UNCHANGED <<vars, results>> /\ UNCHANGED <<nClaims, claims, disputes>>
  BY DEF wrongWeights, vars
<1>2. PlayTypes /\ ResultsInv /\ LogInv /\ StageInv
  BY DEF PlayInv
<1>3. /\ play' \in [sc : SCENARIOS \cup {NoScenario}, at : Stages, rounds : Nat, attacked : BOOLEAN]
      /\ play'.sc = play.sc /\ play'.at = play.at /\ play'.rounds = play.rounds
  BY <1>1, <1>2 DEF PlayTypes
<1>4. transactions' \in Seq(Logs) /\ LogInv'
  <2>1. asserter \in Parties /\ "resolve" \in Functions_called /\ 0 \in {0, 1}
    BY PartiesPlay DEF Functions_called
  <2> QED
    BY <1>1, <1>2, <2>1, SentLogs
<1>5. PlayTypes'
  BY <1>1, <1>2, <1>3, <1>4 DEF PlayTypes
<1>6. InGame /\ InGame'
  BY <1>1, <1>3 DEF InGame
<1>7. nClaims \in 1 .. MaxClaims /\ MaxClaims \in Nat
  BY <1>6, InGameFacts, TimingAssumption
<1>8. ResultsInv'
  <2>1. Past = nClaims - 1 /\ Past' = nClaims - 1 /\ nClaims - 1 \in Nat
    BY <1>1, <1>6, <1>7 DEF Past
  <2> QED
    BY <1>1, <1>2, <2>1, ResultsKept
<1>9. StageInv'
  BY <1>1, <1>2, <1>3 DEF StageInv, InGame
<1> QED
  BY <1>1, <1>4, <1>5, <1>8, <1>9 DEF PlayInv

LEMMA CommitFirstPlays == ASSUME IInv, PlayInv, commitFirst PROVE PlayInv' /\ Next
<1>1. play.at = "next" /\ commit(asserter, trace(NoStep), trace(NoStep)[Last].leaf, tx)
      /\ Sent(asserter, "commit", 1) /\ UNCHANGED results /\ play' = [play EXCEPT !.at = "measure"]
  BY DEF commitFirst, Go
<1>2. Logged
  <2>1. asserter \in Parties /\ "commit" \in Functions_called
    BY PartiesPlay DEF Functions_called
  <2> QED
    BY <1>1, <2>1, SentSucceeds
<1>3. PlayTypes /\ ResultsInv /\ nClaims' = nClaims + 1 /\ nClaims \in Nat /\ disputes' = disputes
  BY <1>1, CommitBooks DEF PlayInv
<1>4. /\ play' \in [sc : SCENARIOS \cup {NoScenario}, at : Stages, rounds : Nat, attacked : BOOLEAN]
      /\ play'.at = "measure"
  BY <1>1, PlayRecord DEF Stages
<1>5. PlayTypes'
  BY <1>1, <1>2, <1>3, <1>4 DEF PlayTypes, Logged
<1>6. ResultsInv'
  <2>1. Past = nClaims /\ Past' = nClaims + 1
    BY <1>1, <1>3, <1>4 DEF Past, InGame
  <2> QED
    BY <1>1, <1>3, <2>1, ResultsKept
<1>7. StageInv'
  BY <1>4 DEF StageInv, InGame
<1>8. Next
  <2>1. trace(NoStep) \in Traces \cup {TrueTrace(tx)} /\ trace(NoStep)[Last].leaf \in Leaf /\ tx \in TxInput
    BY TracesMay
  <2> QED
    BY <1>1, <2>1, PartiesPlay DEF Next
<1> QED
  BY <1>2, <1>5, <1>6, <1>7, <1>8 DEF PlayInv, Logged

LEMMA GasDisputePlays == ASSUME IInv, PlayInv, NEW n \in Steps, gasDispute(n) PROVE PlayInv' /\ Next
<1> DEFINE sc == GasScenario(n)
<1>1. sc \in SCENARIOS /\ sc.cheat = "asserter" /\ sc.step = n
  BY GasScenarioIs DEF GasScenario
<1>2. trace(n) = A(sc)
  BY <1>1, GasGame
<1>3. play.at = "measure" /\ commit(asserter, A(sc), A(sc)[Last].leaf, tx)
      /\ Sent(asserter, "commit", 1) /\ UNCHANGED results
      /\ play' = [sc |-> sc, at |-> "game", rounds |-> 0, attacked |-> FALSE]
  BY <1>2 DEF gasDispute, GasScenario
<1> HIDE DEF sc
<1>4. /\ play' \in [sc : SCENARIOS \cup {NoScenario}, at : Stages, rounds : Nat, attacked : BOOLEAN]
      /\ play'.sc = sc /\ play'.rounds = 0 /\ play'.at = "game"
  BY <1>1, <1>3 DEF Stages
<1>5. ~ InGame
  BY <1>3 DEF InGame
<1> QED
  BY <1>1, <1>3, <1>4, <1>5, CommitPlays

LEMMA GasMovePlays == ASSUME IInv, PlayInv, gasMove PROVE PlayInv' /\ Next
<1> DEFINE dis == disputes[cid][challenger]
<1>1. play.at = "game" /\ UNCHANGED results /\ InGame
  BY DEF gasMove, InGame
<1>2. play.sc \in SCENARIOS /\ play.sc.cheat = "asserter" /\ cid = nClaims - 1
  BY <1>1, InGameFacts DEF PlayInv, StageInv
<1>3. trace(play.sc.step) = A(play.sc) /\ trace(NoStep) = C(play.sc)
  BY <1>2, GasGame
<1>4. CASE challenge(challenger, cid) /\ Sent(challenger, "challenge", 1) /\ UNCHANGED play
  <2>1. dis.phase = "None"
    BY <1>4 DEF challenge
  <2>2. play.rounds = 0
    BY <1>1, <1>2, <2>1 DEF PlayInv, StageInv, Started, GameAt, Revealing, Responding, Proving, Decided, PhaseWon
  <2> QED
    BY <1>1, <1>4, <2>2, ChallengePlays
<1>5. CASE openFinal(cid, challenger) /\ Sent(asserter, "openFinal", 1) /\ UNCHANGED play
  BY <1>1, <1>5, OpenPlays
<1>6. CASE reveal(cid, challenger) /\ Sent(asserter, "reveal", 1) /\ play' = [play EXCEPT !.rounds = @ + 1]
  BY <1>1, <1>6, RevealPlays
<1>7. CASE /\ respond(cid, challenger, trace(play.sc.step)[Mid(dis)].prefix = trace(NoStep)[Mid(dis)].prefix)
           /\ Sent(challenger, "respond", 1) /\ UNCHANGED play
  <2> DEFINE agree == trace(play.sc.step)[Mid(dis)].prefix = trace(NoStep)[Mid(dis)].prefix
  <2>1. agree \in BOOLEAN /\ (agree <=> A(play.sc)[Mid(dis)].prefix = C(play.sc)[Mid(dis)].prefix)
    BY <1>3
  <2>2. respond(cid, challenger, agree) /\ Sent(challenger, "respond", 1)
    BY <1>7
  <2> HIDE DEF agree
  <2> QED
    BY <1>1, <1>7, <2>1, <2>2, RespondPlays
<1>8. CASE /\ dis.phase = "AwaitProof" /\ dis.hi = play.sc.step
           /\ resolve(cid, challenger, honest_proof_args(play.sc.step))
           /\ Sent(challenger, "resolve", 1) /\ UNCHANGED play
  <2>1. honest_proof_args(play.sc.step) = AgreedInputs(C(play.sc), dis.hi)
    BY <1>3, <1>8 DEF honest_proof_args
  <2>2. resolve(cid, challenger, AgreedInputs(C(play.sc), disputes[cid][challenger].hi))
    BY <1>8, <2>1
  <2> QED
    BY <1>1, <1>8, <2>2, ResolvePlays
<1> QED
  BY <1>4, <1>5, <1>6, <1>7, <1>8 DEF gasMove, Phase

\* Every step of the script is a step of the contract or leaves it alone.
LEMMA PlaysPreserve == ASSUME IInv, PlayInv, [PlayNext]_<<vars, playVars>> PROVE PlayInv' /\ [Next]_vars
<1>1. CASE deposit
  BY <1>1, DepositPlays
<1>2. CASE \E sc \in SCENARIOS : nextScenario(sc)
  BY <1>2, NextScenarioPlays
<1>3. CASE commitClaim
  BY <1>3, CommitClaimPlays
<1>4. CASE challengeClaim
  <2>1. play.at = "challenge" /\ play.rounds = 0 /\ InGame
    BY <1>4 DEF challengeClaim, InGame, PlayInv, StageInv
  <2> QED
    BY <1>4, <2>1, ChallengePlays DEF challengeClaim
<1>5. CASE open
  <2>1. InGame
    BY <1>5 DEF open, InGame
  <2> QED
    BY <1>5, <2>1, OpenPlays DEF open
<1>6. CASE revealMid
  BY <1>6, RevealPlays DEF revealMid
<1>7. CASE respondMid
  <2> DEFINE agree == Agrees(Mid(disputes[cid][challenger]))
  <2>1. agree \in BOOLEAN /\ (agree <=> A(play.sc)[Mid(disputes[cid][challenger])].prefix
                                          = C(play.sc)[Mid(disputes[cid][challenger])].prefix)
    BY DEF Agrees
  <2>2. respond(cid, challenger, agree) /\ Sent(challenger, "respond", 1) /\ UNCHANGED <<play, results>>
        /\ play.at = "bisect"
    BY <1>7 DEF respondMid
  <2> HIDE DEF agree
  <2> QED
    BY <2>1, <2>2, RespondPlays
<1>8. CASE wrongWeights
  BY <1>8, WrongWeightsPlays
<1>9. CASE resolveDispute
  BY <1>9, ResolvePlays DEF resolveDispute
<1>10. CASE conclude
  <2> DEFINE w == IF Phase = "AsserterWon" THEN "asserter" ELSE "challenger"
  <2>1. InGame /\ play.at = "bisect" /\ Phase \in Won /\ UNCHANGED vars /\ UNCHANGED transactions /\ Go("next")
    BY <1>10 DEF conclude, InGame
  <2>2. results' = Append(results, [sc |-> play.sc, cid |-> cid, found_step |-> disputes[cid][challenger].hi,
                                    rounds |-> play.rounds, winner |-> w])
    BY <1>10 DEF conclude
  <2> QED
    BY <2>1, <2>2, RecordPreserves
<1>11. CASE done
  <2>1. UNCHANGED <<vars, playVars>>
    BY <1>11 DEF done
  <2> QED
    BY <2>1 DEF vars, playVars, PlayInv, PlayTypes, ResultsInv, LogInv, StageInv, RecordedRight, Past, InGame
<1>12. CASE commitFirst
  BY <1>12, CommitFirstPlays
<1>13. CASE \E n \in Steps : gasDispute(n)
  BY <1>13, GasDisputePlays
<1>14. CASE gasMove
  BY <1>14, GasMovePlays
<1>15. CASE gasMeasured
  <2>1. InGame /\ play.at = "game" /\ Phase = "ChallengerWon" /\ UNCHANGED vars /\ UNCHANGED transactions /\ Go("measure")
    BY <1>15 DEF gasMeasured, InGame
  <2>2. results' = Append(results, [sc |-> play.sc, cid |-> cid, found_step |-> disputes[cid][challenger].hi,
                                    rounds |-> play.rounds, winner |-> "challenger"])
    BY <1>15 DEF gasMeasured
  <2>3. Phase \in Won /\ "challenger" = IF Phase = "AsserterWon" THEN "asserter" ELSE "challenger"
    BY <2>1 DEF Won
  <2> QED
    BY <2>1, <2>2, <2>3, RecordPreserves
<1>16. CASE UNCHANGED <<vars, playVars>>
  BY <1>16 DEF vars, playVars, PlayInv, PlayTypes, ResultsInv, LogInv, StageInv, RecordedRight, Past, InGame
<1> QED
  BY <1>1, <1>2, <1>3, <1>4, <1>5, <1>6, <1>7, <1>8, <1>9, <1>10, <1>11, <1>12, <1>13, <1>14, <1>15, <1>16 DEF PlayNext

\* The script plays the contract: every execution of it is one of the contract's.
THEOREM ScriptPlaysContract == PlaySpec => Spec
<1>1. IInv /\ PlayInv /\ [PlayNext]_<<vars, playVars>> => IInv' /\ PlayInv' /\ [Next]_vars
  BY PlaysPreserve, NextPreserves
<1>2. PlayInit => Init
  BY DEF PlayInit
<1> QED
  BY <1>1, <1>2, PlayEstablishes, PTL DEF PlaySpec, Spec

\* Whatever is tampered with, and wherever, the contract and the off-chain bisection stop at the
\* same step after the same number of rounds and decide for the honest side.
THEOREM PlaysAreDecidedRight == PlaySpec => []DisputesPlayedRight
<1>1. IInv /\ PlayInv => DisputesPlayedRight
  <2> SUFFICES ASSUME IInv, PlayInv PROVE DisputesPlayedRight
    OBVIOUS
  <2>1. PlayTypes /\ ResultsInv /\ LogInv
    BY DEF PlayInv
  <2>2. ASSUME NEW i \in DOMAIN results
        PROVE  LET r == results[i]
                   b == res(r.sc)
               IN /\ r.found_step = r.sc.step /\ b.located_correctly
                  /\ r.rounds = b.bisection_rounds /\ r.rounds <= CeilLog2(NSteps)
                  /\ r.winner = honest_side(r.sc) /\ b.outcome_correct
                  /\ b.asserter_claim_upheld <=> r.winner = "asserter"
                  /\ malformed(r.sc) => b.leaf_k_is_honest
                  /\ i = Len(results) /\ play.at = "next" => OpeningsBind(A(r.sc))
    <3> DEFINE r == results[i]
               sc == r.sc
    <3>1. RecordedRight(r) /\ sc \in SCENARIOS
      <4>1. RecordedRight(r)
        BY <2>1 DEF ResultsInv
      <4>2. r \in Records
        BY <2>1 DEF PlayTypes
      <4>3. \A x \in Records : x.sc \in SCENARIOS
        BY DEF Records
      <4> QED
        BY <4>1, <4>2, <4>3
    <3> HIDE DEF r
    <3>2. /\ r.found_step = sc.step /\ r.rounds = RoundsOf(sc) /\ r.winner = honest_side(sc)
      BY <3>1 DEF RecordedRight
    <3>3. /\ res(sc).located_correctly /\ res(sc).outcome_correct
          /\ res(sc).bisection_rounds = RoundsOf(sc) /\ res(sc).bisection_rounds \in 0 .. CeilLog2(NSteps)
          /\ res(sc).asserter_claim_upheld <=> sc.cheat = "challenger"
          /\ malformed(sc) => res(sc).leaf_k_is_honest
      BY <3>1, OffChainRight DEF RoundsOf
    <3>4. honest_side(sc) = "asserter" <=> sc.cheat = "challenger"
      BY DEF honest_side
    <3>5. OpeningsBind(A(sc))
      BY <3>1, SidesPart, EveryTraceBinds
    <3>6. r.rounds <= CeilLog2(NSteps)
      BY <3>2, <3>3
    <3>7. res(sc).asserter_claim_upheld <=> r.winner = "asserter"
      BY <3>2, <3>3, <3>4
    <3> QED
      BY <3>2, <3>3, <3>5, <3>6, <3>7 DEF r
  <2>3. verify_record
    <3>1. ASSUME NEW i \in DOMAIN results
          PROVE  disputes[results[i].cid][challenger].phase =
                    IF results[i].winner = "asserter" THEN "AsserterWon" ELSE "ChallengerWon"
      <4>1. RecordedRight(results[i])
        BY <2>1 DEF ResultsInv
      <4> QED
        BY <4>1 DEF RecordedRight, honest_side, PhaseWon
    <3>2. \A t \in {transactions[i] : i \in DOMAIN transactions} : t.status = 0 => t.who = asserter /\ t.function = "resolve"
      BY <2>1 DEF LogInv
    <3> QED
      BY <3>1, <3>2 DEF verify_record
  <2> QED
    BY <2>2, <2>3 DEF DisputesPlayedRight
<1>2. IInv /\ PlayInv /\ [PlayNext]_<<vars, playVars>> => IInv' /\ PlayInv'
  BY PlaysPreserve, NextPreserves
<1> QED
  BY <1>1, <1>2, PlayEstablishes, PTL DEF PlaySpec

------------------------------------------------------------------------------
(* FederatedRounds: the invariant.                                           *)

\* A model has learnt from labels that were kept, and with privacy on from protected updates only.
Models ==
    [labels : SUBSET train_mask, exposed : IF case.privacy = "off" THEN SUBSET institutions ELSE {{}}, at : Nat]

Bests == [f1 : Int, at : Nat, state : Models]

FedTypeInv ==
    /\ case \in run_seed \cup run_config /\ splits \in Splits /\ owners \in [Nodes -> institutions]
    /\ train_mask \subseteq splits.train
    /\ stage \in {"partition", "train", "merge", "select", "done"} /\ done_rounds \in 0 .. rounds
    /\ model \in Models /\ best \in Bests /\ f1s \in Seq(Nat)

\* Before the institutions are made nothing has happened; after it scarcity has left labels.
PartitionInv ==
    IF stage = "partition"
      THEN /\ train_mask = {} /\ done_rounds = 0 /\ model = Fresh /\ updates = <<>>
           /\ foreign_embeddings = <<>> /\ best = Unselected /\ f1s = <<>>
      ELSE /\ train_mask # {}
           /\ \A p \in institutions : Illicit(splits.train \cap node_ids(p)) # {} => Illicit(OwnTrain(p)) # {}

\* The updates of a round are those of the first institutions, all from the same global model.
RoundInv ==
    /\ stage \in {"train", "merge"} => done_rounds < rounds
    /\ stage = "merge" => case.method = "federated"
    /\ case.method = "federated" =>
          \E m \in 0 .. k :
             /\ updates = [i \in 1 .. m |-> train_local(i - 1)]
             /\ m = k \/ stage # "merge"
             /\ m < k \/ stage # "train"
             /\ m = 0 \/ stage \in {"train", "merge"}

\* A model is of the last round until the best is taken.
EndInv ==
    /\ stage # "done" => model.at = done_rounds
    /\ stage = "select" =>
          done_rounds = rounds \/ (case.method = "local_only" /\ OwnTrain(InTurn) = {})
    /\ stage = "done" /\ case.method # "local_only" =>
          model.at = IF f1s = <<>> THEN rounds ELSE best.at

\* Selecting, there is one score per round and the best is the first of the highest.
Selecting == case.select_on_val /\ (case.method = "local_only" => CanSelect(InTurn))

ScoresInv ==
    /\ IF Selecting THEN Len(f1s) = done_rounds ELSE f1s = <<>>
    /\ f1s = <<>> => best = Unselected
    /\ EarliestBest(best, f1s)

\* What an institution alone returns, and how it starts again.
ReturnedRight(i) ==
    /\ updates[i].state.labels \subseteq OwnTrain(i - 1)
    /\ EarliestBest(updates[i].best, updates[i].f1s)
    /\ updates[i].state.at = IF OwnTrain(i - 1) = {} THEN 0
                             ELSE IF updates[i].f1s = <<>> THEN rounds ELSE updates[i].best.at

AloneInv ==
    case.method = "local_only" =>
        /\ model.labels \cup best.state.labels \subseteq OwnTrain(InTurn)
        /\ OwnTrain(InTurn) = {} => done_rounds = 0 /\ model = Fresh /\ best = Unselected
        /\ updates \in Seq([state : Models, best : Bests, f1s : Seq(Nat)])
        /\ \A i \in DOMAIN updates : ReturnedRight(i)

\* The embeddings at hand are those of every boundary node, protected, of the last round.
EmbeddingsInv ==
    /\ \A v \in DOMAIN foreign_embeddings :
          LET e == foreign_embeddings[v]
          IN /\ e.labels \subseteq train_mask /\ e.protection = case.privacy /\ e.at = done_rounds
             /\ v \in boundary_ids(owners[v]) /\ owners[v] = e.of /\ case.lambda
    /\ case.lambda /\ done_rounds > 0 =>
          \A p \in institutions : UNION {peer_pairs(p)[v] : v \in boundary_ids(p)} \subseteq DOMAIN foreign_embeddings

FedInv ==
    /\ FedTypeInv /\ PartitionInv /\ RoundInv /\ EndInv /\ ScoresInv /\ AloneInv /\ EmbeddingsInv

------------------------------------------------------------------------------
(* FederatedRounds: what the operators give.                                 *)

LEMMA TrainingNumbers ==
    /\ k \in Nat \ {0} /\ IsFiniteSet(Nodes) /\ Nodes \subseteq Nat /\ rounds \in Nat \ {0}
    /\ F1s \subseteq Nat /\ Fractions \subseteq 1 .. 100 /\ Edges \subseteq Nodes \X Nodes
    /\ \A s \in Splits : s.train \subseteq Nodes /\ s.train # {}
<1>1. k \in Nat \ {0} /\ IsFiniteSet(Nodes) /\ rounds \in Nat \ {0} /\ F1s \subseteq Nat
  BY FederatedAssumption
<1>2. Fractions \subseteq 1 .. 100 /\ Edges \subseteq Nodes \X Nodes
  BY FederatedAssumption
<1>3. Nodes \subseteq Nat
  <2>1. Cardinality(Nodes) \in Nat
    BY <1>1, FS_CardinalityType
  <2>2. Nodes = 0 .. Cardinality(Nodes) - 1
    BY FederatedAssumption
  <2> QED
    BY <2>1, <2>2
<1>4. ASSUME NEW s \in Splits PROVE s.train \subseteq Nodes /\ s.train # {}
  BY FederatedAssumption
<1> QED
  BY <1>1, <1>2, <1>3, <1>4

\* Only the federated method shares embeddings or protects updates, and pooling always selects.
LEMMA CaseIs ==
    ASSUME NEW c \in run_seed \cup run_config
    PROVE  /\ c.method \in {"centralized", "local_only", "federated"}
           /\ c.privacy \in {"off", "clip", "noise"} /\ c.lambda \in BOOLEAN /\ c.select_on_val \in BOOLEAN
           /\ c.lambda => c.method = "federated"
           /\ c.method # "federated" => c.privacy = "off"
           /\ c.method = "centralized" => c.select_on_val
  BY DEF run_seed, run_config

\* After the partition is made nothing about it changes.
LEMMA PlacesStay ==
    ASSUME case' = case, splits' = splits, owners' = owners, train_mask' = train_mask, NEW p
    PROVE  /\ Models' = Models /\ Bests' = Bests /\ OwnTrain(p)' = OwnTrain(p) /\ CanSelect(p)' = CanSelect(p)
           /\ node_ids(p)' = node_ids(p) /\ peer_pairs(p)' = peer_pairs(p) /\ boundary_ids(p)' = boundary_ids(p)
<1>1. node_ids(p)' = node_ids(p) /\ Models' = Models
  BY DEF node_ids, Models
<1>2. peer_pairs(p)' = peer_pairs(p)
  BY DEF peer_pairs
<1>3. Bests' = Bests
  BY <1>1 DEF Bests
<1>4. OwnTrain(p)' = OwnTrain(p) /\ CanSelect(p)' = CanSelect(p)
  BY <1>1 DEF OwnTrain, CanSelect
<1> QED
  BY <1>1, <1>2, <1>3, <1>4 DEF boundary_ids

\* A boundary node belongs to the institution it is a boundary of, and its peers are boundary
\* nodes of theirs.
LEMMA BoundaryIs ==
    ASSUME owners \in [Nodes -> institutions], NEW p, NEW v \in boundary_ids(p)
    PROVE  /\ v \in Nodes /\ owners[v] = p
           /\ \A w \in peer_pairs(p)[v] : owners[w] \in institutions /\ w \in boundary_ids(owners[w])
<1> DEFINE crossing == {e \in Edges : owners[e[1]] # owners[e[2]]}
           pairs(q) == {e \in crossing : owners[e[1]] = q}
                         \cup {<<e[2], e[1]>> : e \in {x \in crossing : owners[x[2]] = q}}
<1>1. \A q : boundary_ids(q) = {e[1] : e \in pairs(q)}
  BY DEF boundary_ids, peer_pairs
<1>2. peer_pairs(p)[v] = {e[2] : e \in {x \in pairs(p) : x[1] = v}}
  BY DEF boundary_ids, peer_pairs
<1>3. ASSUME NEW e \in crossing
      PROVE  /\ e[1] \in Nodes /\ e[2] \in Nodes /\ e = <<e[1], e[2]>>
             /\ owners[e[1]] \in institutions /\ owners[e[2]] \in institutions
  <2>1. e \in Nodes \X Nodes
    BY TrainingNumbers
  <2>2. e[1] \in Nodes /\ e[2] \in Nodes /\ e = <<e[1], e[2]>>
    BY <2>1
  <2> QED
    BY <2>2
<1>4. \A q : \A e \in pairs(q) : /\ e[1] \in Nodes /\ owners[e[1]] = q /\ owners[e[2]] \in institutions
                                 /\ <<e[2], e[1]>> \in pairs(owners[e[2]])
  BY <1>3
<1> HIDE DEF pairs
<1>5. v \in Nodes /\ owners[v] = p
  <2>1. PICK e \in pairs(p) : v = e[1]
    BY <1>1
  <2> QED
    BY <1>4, <2>1
<1>6. ASSUME NEW w \in peer_pairs(p)[v] PROVE owners[w] \in institutions /\ w \in boundary_ids(owners[w])
  <2>1. PICK e \in pairs(p) : e[1] = v /\ w = e[2]
    BY <1>2, <1>6
  <2>2. owners[w] \in institutions /\ <<w, v>> \in pairs(owners[w])
    BY <1>4, <2>1
  <2>3. <<w, v>>[1] = w
    OBVIOUS
  <2> QED
    BY <1>1, <2>2, <2>3
<1> QED
  BY <1>5, <1>6

\* Something is kept of what is not empty.
LEMMA KeptIs == ASSUME NEW n \in Nat \ {0}, NEW fraction \in Nat PROVE Kept(n, fraction) # 0
<1> DEFINE q == (n * fraction) \div 100
           r == Round(n * fraction, 100)
<1>1. n * fraction \in Nat
  OBVIOUS
<1>2. q \in Nat
  BY <1>1
<1> HIDE DEF q
<1>3. r \in {q, q + 1}
  BY DEF Round, q
<1>4. r \in Nat
  BY <1>2, <1>3
<1> HIDE DEF r
<1>5. Kept(n, fraction) = IF r < 1 THEN 1 ELSE r
  BY DEF Kept, r
<1> QED
  BY <1>4, <1>5

\* The mask scarcity may leave: of training labels, not empty, and with an illicit one wherever
\* there was one.
LEMMA ScarcityLeaves ==
    ASSUME splits \in Splits, owners \in [Nodes -> institutions],
           NEW fraction \in Fractions, NEW mask \in apply_institutional_illicit_scarcity(fraction)
    PROVE  /\ mask \subseteq splits.train /\ mask # {}
           /\ \A p \in institutions : Illicit(splits.train \cap node_ids(p)) # {} => Illicit(mask \cap node_ids(p)) # {}
<1>1. splits.train \subseteq Nodes /\ splits.train # {} /\ IsFiniteSet(Nodes)
  BY TrainingNumbers
<1>2. PICK kept \in SUBSET Illicit(splits.train) :
        /\ mask = (splits.train \ Illicit(splits.train)) \cup kept
        /\ \A p \in institutions : Cardinality(kept \cap node_ids(p)) =
                                     Kept(Cardinality(Illicit(splits.train) \cap node_ids(p)), fraction)
  BY DEF apply_institutional_illicit_scarcity
<1>3. ASSUME NEW p \in institutions, Illicit(splits.train) \cap node_ids(p) # {}
      PROVE  kept \cap node_ids(p) # {}
  <2>1. IsFiniteSet(Illicit(splits.train) \cap node_ids(p))
    BY <1>1, FS_Subset DEF Illicit
  <2>2. Cardinality(Illicit(splits.train) \cap node_ids(p)) \in Nat \ {0}
    BY <1>3, <2>1, FS_CardinalityType, FS_EmptySet
  <2>3. Kept(Cardinality(Illicit(splits.train) \cap node_ids(p)), fraction) # 0
    BY <2>2, KeptIs, TrainingNumbers
  <2> QED
    BY <1>2, <2>3, FS_EmptySet
<1>4. Illicit(splits.train) \subseteq splits.train
  BY DEF Illicit
<1>5. mask \subseteq splits.train
  BY <1>2, <1>4
<1>6. mask # {}
  <2>1. PICK v \in splits.train : TRUE
    BY <1>1
  <2>2. CASE v \in Illicit(splits.train)
    <3>1. owners[v] \in institutions /\ v \in node_ids(owners[v])
      BY <1>1 DEF node_ids
    <3> QED
      BY <1>2, <1>3, <2>2, <3>1
  <2> QED
    BY <1>2, <2>1, <2>2
<1>7. ASSUME NEW p \in institutions, Illicit(splits.train \cap node_ids(p)) # {}
      PROVE  Illicit(mask \cap node_ids(p)) # {}
  <2>1. Illicit(splits.train) \cap node_ids(p) # {}
    BY <1>7 DEF Illicit
  <2>2. PICK v \in kept \cap node_ids(p) : TRUE
    BY <1>3, <2>1
  <2>3. v \in mask /\ y[v] = 1
    BY <1>2, <2>2 DEF Illicit
  <2> QED
    BY <2>2, <2>3 DEF Illicit
<1> QED
  BY <1>5, <1>6, <1>7

\* The count that weighs an update is that of the institution's labels.
LEMMA OwnTrainIs ==
    ASSUME FedTypeInv, NEW p
    PROVE  /\ OwnTrain(p) \subseteq train_mask /\ Cardinality(OwnTrain(p)) \in Nat
           /\ Cardinality(OwnTrain(p)) > 0 <=> OwnTrain(p) # {}
<1>1. OwnTrain(p) \subseteq train_mask /\ OwnTrain(p) \subseteq Nodes
  BY TrainingNumbers DEF OwnTrain, FedTypeInv
<1>2. IsFiniteSet(OwnTrain(p))
  BY <1>1, TrainingNumbers, FS_Subset
<1>3. Cardinality(OwnTrain(p)) \in Nat /\ (Cardinality(OwnTrain(p)) = 0 <=> OwnTrain(p) = {})
  BY <1>2, FS_CardinalityType, FS_EmptySet
<1> QED
  BY <1>1, <1>3

\* Each training node is an institution's.
LEMMA SomeoneTrains ==
    ASSUME FedTypeInv, train_mask # {} PROVE \E p \in institutions : OwnTrain(p) # {}
<1>1. PICK v \in train_mask : v \in Nodes
  BY TrainingNumbers DEF FedTypeInv
<1>2. owners[v] \in institutions /\ v \in OwnTrain(owners[v])
  BY <1>1 DEF OwnTrain, node_ids, FedTypeInv
<1> QED
  BY <1>2

\* Training, aligned or not, adds labels that were kept.
LEMMA LearntIs == ASSUME FedTypeInv, EmbeddingsInv, NEW p PROVE Learnt(p) \in Models
<1>1. model \in Models /\ OwnTrain(p) \subseteq train_mask
  BY OwnTrainIs DEF FedTypeInv
<1>2. UNION {e.labels : e \in Aligned(p)} \subseteq train_mask
  <2>1. \A e \in Aligned(p) : \E v \in DOMAIN foreign_embeddings : e = foreign_embeddings[v]
    BY DEF Aligned
  <2>2. \A e \in Aligned(p) : e.labels \subseteq train_mask
    BY <2>1 DEF EmbeddingsInv
  <2> QED
    BY <2>2
<1>3. CASE OwnTrain(p) = {}
  BY <1>1, <1>3 DEF Learnt
<1>4. CASE OwnTrain(p) # {}
  <2> DEFINE labels == model.labels \cup OwnTrain(p) \cup UNION {e.labels : e \in Aligned(p)}
  <2>1. labels \in SUBSET train_mask
    BY <1>1, <1>2 DEF Models
  <2>2. Learnt(p) = [model EXCEPT !.labels = labels]
    BY <1>4 DEF Learnt
  <2> HIDE DEF labels
  <2> QED
    BY <1>1, <2>1, <2>2 DEF Models
<1> QED
  BY <1>3, <1>4

LEMMA TrainedIs ==
    ASSUME FedTypeInv, EmbeddingsInv, NEW p
    PROVE  /\ train_local(p).state \in Models /\ train_local(p).protection = "off"
           /\ train_local(p).n \in Nat /\ (train_local(p).n > 0 <=> OwnTrain(p) # {})
           /\ DOMAIN train_local(p).payload = boundary_ids(p)
           /\ \A v \in boundary_ids(p) :
                 LET e == train_local(p).payload[v]
                 IN e.of = p /\ e.at = done_rounds + 1 /\ e.labels \subseteq train_mask /\ e.protection = "off"
<1>1. Learnt(p) \in Models
  BY LearntIs
<1>2. train_local(p) = [state |-> Learnt(p), n |-> Cardinality(OwnTrain(p)),
                        payload |-> Payload(p, Learnt(p)), protection |-> "off"]
  BY DEF train_local
<1>3. Learnt(p).labels \subseteq train_mask
  BY <1>1 DEF Models
<1>4. /\ DOMAIN Payload(p, Learnt(p)) = boundary_ids(p)
      /\ \A v \in boundary_ids(p) :
            Payload(p, Learnt(p))[v] = [of |-> p, at |-> done_rounds + 1, labels |-> Learnt(p).labels, protection |-> "off"]
  BY DEF Payload
<1>5. /\ train_local(p).state = Learnt(p) /\ train_local(p).n = Cardinality(OwnTrain(p))
      /\ train_local(p).payload = Payload(p, Learnt(p)) /\ train_local(p).protection = "off"
  BY <1>2
<1> QED
  BY <1>1, <1>3, <1>4, <1>5, OwnTrainIs

\* While a round lasts an institution would train alike at any moment of it.
LEMMA TrainedStay ==
    ASSUME case' = case, splits' = splits, owners' = owners, train_mask' = train_mask,
           model' = model, foreign_embeddings' = foreign_embeddings, done_rounds' = done_rounds, NEW p
    PROVE  train_local(p)' = train_local(p)
<1>1. /\ OwnTrain(p)' = OwnTrain(p) /\ peer_pairs(p)' = peer_pairs(p) /\ boundary_ids(p)' = boundary_ids(p)
  BY PlacesStay
<1>2. Aligned(p)' = Aligned(p)
  BY <1>1 DEF Aligned
<1>3. Learnt(p)' = Learnt(p)
  BY <1>1, <1>2 DEF Learnt
<1> QED
  BY <1>1, <1>3 DEF train_local, Payload

\* A score is added and the first of the highest stays selected.
LEMMA ScoreAdded ==
    ASSUME NEW scores \in Seq(Nat), NEW f1 \in Nat, NEW m, m.at = Len(scores) + 1,
           best.f1 \in Int, EarliestBest(best, scores), scores = <<>> => best.f1 = -1
    PROVE  EarliestBest(Selected(f1, m), Append(scores, f1)) /\ Append(scores, f1) \in Seq(Nat)
           /\ Len(Append(scores, f1)) = Len(scores) + 1 /\ Append(scores, f1) # <<>>
<1> DEFINE t == Append(scores, f1)
           n == Len(scores)
<1>1. t \in Seq(Nat) /\ Len(t) = n + 1 /\ n \in Nat /\ t # <<>>
  OBVIOUS
<1>2. (\A i \in 1 .. n : t[i] = scores[i]) /\ t[n + 1] = f1 /\ DOMAIN t = 1 .. n + 1 /\ DOMAIN scores = 1 .. n
  OBVIOUS
<1>3. \A i \in 1 .. n : scores[i] \in Nat
  OBVIOUS
<1>4. scores # <<>> <=> n # 0
  OBVIOUS
<1> DEFINE c == Selected(f1, m)
<1> HIDE DEF t, n
<1>5. CASE f1 > best.f1
  <2>1. c.f1 = f1 /\ c.at = n + 1 /\ c.state.at = n + 1
    BY <1>5 DEF Selected, n
  <2>2. \A i \in 1 .. n : scores[i] <= best.f1
    BY <1>2, <1>4 DEF EarliestBest
  <2>3. \A i \in 1 .. n + 1 : t[i] <= f1 /\ (i < n + 1 => t[i] < f1)
    BY <1>1, <1>2, <1>3, <1>5, <2>2
  <2> HIDE DEF c
  <2> QED
    BY <1>1, <1>2, <2>1, <2>3 DEF EarliestBest, t, n, c
<1>6. CASE ~ (f1 > best.f1)
  <2>1. c = best /\ n # 0
    BY <1>4, <1>6 DEF Selected
  <2>2. /\ best.at \in 1 .. n /\ best.f1 = scores[best.at] /\ best.state.at = best.at
        /\ \A i \in 1 .. n : scores[i] <= best.f1 /\ (i < best.at => scores[i] < best.f1)
    BY <1>2, <1>4, <2>1 DEF EarliestBest
  <2>3. best.at \in 1 .. n + 1 /\ t[best.at] = best.f1
    BY <1>1, <1>2, <2>2
  <2>4. \A i \in 1 .. n + 1 : t[i] <= best.f1 /\ (i < best.at => t[i] < best.f1)
    BY <1>1, <1>2, <1>3, <1>6, <2>2
  <2> QED
    BY <1>1, <1>2, <2>1, <2>2, <2>3, <2>4 DEF EarliestBest, t, n, c
<1> QED
  BY <1>1, <1>5, <1>6 DEF t, n, c

------------------------------------------------------------------------------
(* FederatedRounds: every step keeps the invariant.                          *)

\* Before anything is trained the state of the training is the same, wherever the nodes are.
Untrained ==
    /\ case \in run_seed \cup run_config /\ splits \in Splits /\ owners \in [Nodes -> institutions]
    /\ train_mask \subseteq splits.train /\ done_rounds = 0 /\ model = Fresh /\ updates = <<>>
    /\ foreign_embeddings = <<>> /\ best = Unselected /\ f1s = <<>> /\ stage \in {"partition", "train"}

TrainingInv == FedTypeInv /\ RoundInv /\ EndInv /\ ScoresInv /\ AloneInv /\ EmbeddingsInv

LEMMA UntrainedIs == Untrained => TrainingInv
<1> SUFFICES ASSUME Untrained PROVE TrainingInv
  OBVIOUS
<1>1. Fresh \in Models /\ Unselected \in Bests
  BY DEF Fresh, Unselected, Models, Bests
<1>2. 0 \in 0 .. rounds /\ 0 < rounds /\ 0 \in 0 .. k /\ 0 < k
  BY TrainingNumbers
<1>3. FedTypeInv
  BY <1>1, <1>2 DEF Untrained, FedTypeInv
<1>4. RoundInv
  <2>1. updates = [i \in 1 .. 0 |-> train_local(i - 1)]
    BY DEF Untrained
  <2> QED
    BY <1>2, <2>1 DEF Untrained, RoundInv
<1>5. EndInv
  BY DEF Untrained, EndInv, Fresh
<1>6. ScoresInv
  BY DEF Untrained, ScoresInv, EarliestBest
<1>7. AloneInv
  BY DEF Untrained, AloneInv, Fresh, Unselected
<1>8. EmbeddingsInv
  BY DEF Untrained, EmbeddingsInv
<1> QED
  BY <1>3, <1>4, <1>5, <1>6, <1>7, <1>8 DEF TrainingInv

LEMMA FedInitInv == FedInit => FedInv
<1> SUFFICES ASSUME FedInit PROVE FedInv
  OBVIOUS
<1>1. owners \in [Nodes -> institutions]
  BY DEF FedInit, randomOwners
<1>2. TrainingInv
  BY <1>1, UntrainedIs DEF FedInit, Untrained
<1>3. PartitionInv
  BY DEF FedInit, PartitionInv
<1> QED
  BY <1>2, <1>3 DEF FedInv, TrainingInv

LEMMA sweepInv == ASSUME FedInv, sweep PROVE FedInv'
<1>1. /\ case \in run_seed \cup run_config /\ splits \in Splits
      /\ train_mask = {} /\ done_rounds = 0 /\ model = Fresh /\ updates = <<>>
      /\ foreign_embeddings = <<>> /\ best = Unselected /\ f1s = <<>> /\ stage = "partition"
  BY DEF sweep, FedInv, FedTypeInv, PartitionInv
<1>2. owners' \in [Nodes -> institutions]
  BY DEF sweep
<1>3. /\ case' = case /\ splits' = splits /\ train_mask' = train_mask /\ stage' = stage
      /\ done_rounds' = done_rounds /\ model' = model /\ updates' = updates
      /\ foreign_embeddings' = foreign_embeddings /\ best' = best /\ f1s' = f1s
  BY DEF sweep, Outcome
<1>4. Untrained'
  BY <1>1, <1>2, <1>3 DEF Untrained, run_seed, run_config, institutions, Fresh, Unselected
<1>5. TrainingInv'
  BY <1>4, UntrainedIs, PTL
<1>6. PartitionInv'
  BY <1>1, <1>3 DEF PartitionInv, Fresh, Unselected
<1> QED
  BY <1>5, <1>6 DEF FedInv, TrainingInv

LEMMA institutionsInv == ASSUME FedInv, _institutions_and_training PROVE FedInv'
<1>1. /\ case \in run_seed \cup run_config /\ splits \in Splits /\ owners \in [Nodes -> institutions]
      /\ done_rounds = 0 /\ model = Fresh /\ updates = <<>>
      /\ foreign_embeddings = <<>> /\ best = Unselected /\ f1s = <<>>
  BY DEF _institutions_and_training, FedInv, FedTypeInv, PartitionInv
<1>2. PICK fraction \in Fractions : train_mask' \in apply_institutional_illicit_scarcity(fraction)
  BY DEF _institutions_and_training
<1>3. /\ case' = case /\ splits' = splits /\ owners' = owners /\ stage' = "train"
      /\ done_rounds' = done_rounds /\ model' = model /\ updates' = updates
      /\ foreign_embeddings' = foreign_embeddings /\ best' = best /\ f1s' = f1s
  BY DEF _institutions_and_training, Outcome
<1>4. PICK mask : mask = train_mask'
  OBVIOUS
<1>5. /\ mask \subseteq splits.train /\ mask # {}
      /\ \A p \in institutions : Illicit(splits.train \cap node_ids(p)) # {} => Illicit(mask \cap node_ids(p)) # {}
  BY <1>1, <1>2, <1>4, ScarcityLeaves
<1>6. Untrained'
  BY <1>1, <1>3, <1>4, <1>5 DEF Untrained, run_seed, run_config, institutions, Fresh, Unselected
<1>7. TrainingInv'
  BY <1>6, UntrainedIs, PTL
<1>8. \A p : node_ids(p)' = node_ids(p) /\ OwnTrain(p)' = mask \cap node_ids(p)
  BY <1>3, <1>4 DEF node_ids, OwnTrain
<1>9. PartitionInv'
  <2>1. \A p \in institutions' : Illicit(splits.train \cap node_ids(p))' # {} => Illicit(OwnTrain(p))' # {}
    BY <1>3, <1>5, <1>8 DEF Illicit, institutions
  <2> QED
    BY <1>3, <1>4, <1>5, <2>1 DEF PartitionInv
<1> QED
  BY <1>7, <1>9 DEF FedInv, TrainingInv

\* Once training has begun, what scarcity left stays.
LEMMA SteadyInv ==
    ASSUME FedInv, stage # "partition", stage' \in {"train", "merge", "select", "done"},
           case' = case, splits' = splits, owners' = owners, train_mask' = train_mask
    PROVE  /\ PartitionInv'
           /\ case' \in run_seed \cup run_config /\ splits' \in Splits /\ owners' \in [Nodes -> institutions]
           /\ train_mask' \subseteq splits'.train /\ Models' = Models /\ Bests' = Bests
           /\ \A p : /\ OwnTrain(p)' = OwnTrain(p) /\ CanSelect(p)' = CanSelect(p) /\ node_ids(p)' = node_ids(p)
                     /\ peer_pairs(p)' = peer_pairs(p) /\ boundary_ids(p)' = boundary_ids(p)
<1>1. \A p : /\ OwnTrain(p)' = OwnTrain(p) /\ CanSelect(p)' = CanSelect(p) /\ node_ids(p)' = node_ids(p)
             /\ peer_pairs(p)' = peer_pairs(p) /\ boundary_ids(p)' = boundary_ids(p)
  BY PlacesStay
<1>2. Models' = Models /\ Bests' = Bests
  BY DEF Models, Bests
<1>3. PartitionInv'
  <2>1. train_mask # {}
        /\ \A p \in institutions : Illicit(splits.train \cap node_ids(p)) # {} => Illicit(OwnTrain(p)) # {}
    BY DEF FedInv, PartitionInv
  <2> QED
    BY <1>1, <2>1 DEF PartitionInv, Illicit, institutions
<1> QED
  BY <1>1, <1>2, <1>3 DEF FedInv, FedTypeInv

\* Embeddings stay those of the last round.
LEMMA EmbeddingsStay ==
    ASSUME FedInv, case' = case, owners' = owners, train_mask' = train_mask,
           foreign_embeddings' = foreign_embeddings,
           done_rounds' = done_rounds \/ ~ case.lambda
    PROVE  EmbeddingsInv'
<1>1. \A p : boundary_ids(p)' = boundary_ids(p) /\ peer_pairs(p)' = peer_pairs(p)
  BY DEF boundary_ids, peer_pairs
<1>2. EmbeddingsInv
  BY DEF FedInv
<1> QED
  BY <1>1, <1>2 DEF EmbeddingsInv, institutions

LEMMA trainLocalInv == ASSUME FedInv, trainLocal PROVE FedInv'
<1>1. /\ case.method = "federated" /\ stage = "train" /\ updates' = Append(updates, train_local(InTurn))
      /\ stage' = IF InTurn = k - 1 THEN "merge" ELSE stage
      /\ case' = case /\ splits' = splits /\ owners' = owners /\ train_mask' = train_mask
      /\ done_rounds' = done_rounds /\ model' = model /\ foreign_embeddings' = foreign_embeddings
      /\ best' = best /\ f1s' = f1s
  BY DEF trainLocal
<1>2. /\ PartitionInv'
      /\ case' \in run_seed \cup run_config /\ splits' \in Splits /\ owners' \in [Nodes -> institutions]
      /\ train_mask' \subseteq splits'.train /\ Models' = Models /\ Bests' = Bests
      /\ \A p : OwnTrain(p)' = OwnTrain(p) /\ CanSelect(p)' = CanSelect(p)
  BY <1>1, SteadyInv
<1>3. \A p : train_local(p)' = train_local(p)
  BY <1>1, TrainedStay
<1>4. PICK m \in 0 .. k : updates = [i \in 1 .. m |-> train_local(i - 1)] /\ m < k
  BY <1>1 DEF FedInv, RoundInv
<1>5. m \in Nat /\ k \in Nat \ {0} /\ Len(updates) = m
  BY <1>4, TrainingNumbers
<1>6. updates' = [i \in 1 .. m + 1 |-> train_local(i - 1)]
  <2>1. InTurn = m
    BY <1>5 DEF InTurn
  <2>2. Append(updates, train_local(m)) = [i \in 1 .. m + 1 |-> train_local(i - 1)]
    BY <1>4, <1>5
  <2> QED
    BY <1>1, <2>1, <2>2
<1>7. FedTypeInv'
  BY <1>1, <1>2 DEF FedInv, FedTypeInv, institutions
<1>8. RoundInv'
  <2>1. updates' = [i \in 1 .. m + 1 |-> train_local(i - 1)']
    BY <1>3, <1>6
  <2>2. /\ m + 1 \in 0 .. k /\ stage' \in {"train", "merge"}
        /\ IF stage' = "merge" THEN m + 1 = k ELSE m + 1 < k
    BY <1>1, <1>4, <1>5 DEF InTurn
  <2>3. done_rounds' < rounds
    BY <1>1 DEF FedInv, RoundInv
  <2> QED
    BY <1>1, <2>1, <2>2, <2>3 DEF RoundInv
<1>9. EndInv'
  BY <1>1 DEF FedInv, EndInv
<1>10. ScoresInv'
  BY <1>1 DEF FedInv, ScoresInv, Selecting, EarliestBest, Unselected, Fresh
<1>11. AloneInv'
  BY <1>1 DEF AloneInv
<1>12. EmbeddingsInv'
  BY <1>1, EmbeddingsStay
<1> QED
  BY <1>2, <1>7, <1>8, <1>9, <1>10, <1>11, <1>12 DEF FedInv

\* One more round is scored, and the selection keeps up with it.
LEMMA ScoreStep ==
    ASSUME FedInv, NEW f1 \in F1s, NEW m, m \in Models, m.at = done_rounds + 1, Selecting, Selecting',
           best' = Selected(f1, m), f1s' = Append(f1s, f1), done_rounds' = done_rounds + 1
    PROVE  ScoresInv' /\ f1s' \in Seq(Nat) /\ best' \in Bests /\ best'.state \in {best.state, m}
<1>1. /\ f1s \in Seq(Nat) /\ best \in Bests /\ best.f1 \in Int /\ f1 \in Nat /\ Len(f1s) = done_rounds
      /\ EarliestBest(best, f1s) /\ (f1s = <<>> => best.f1 = -1)
  <2>1. f1s \in Seq(Nat) /\ best \in Bests
    BY DEF FedInv, FedTypeInv
  <2>2. best.f1 \in Int
    BY <2>1 DEF Bests
  <2>3. Len(f1s) = done_rounds /\ EarliestBest(best, f1s) /\ (f1s = <<>> => best = Unselected)
    BY DEF FedInv, ScoresInv
  <2> QED
    BY <2>1, <2>2, <2>3, TrainingNumbers DEF Unselected
<1>2. /\ EarliestBest(best', f1s') /\ f1s' \in Seq(Nat) /\ Len(f1s') = done_rounds' /\ f1s' # <<>>
  <2>1. m.at = Len(f1s) + 1
    BY <1>1
  <2>2. /\ EarliestBest(Selected(f1, m), Append(f1s, f1)) /\ Append(f1s, f1) \in Seq(Nat)
        /\ Len(Append(f1s, f1)) = Len(f1s) + 1 /\ Append(f1s, f1) # <<>>
    BY <1>1, <2>1, ScoreAdded
  <2> QED
    BY <1>1, <2>2
<1>3. best' \in Bests /\ best'.state \in {best.state, m}
  <2>1. CASE f1 > best.f1
    <3>1. best' = [f1 |-> f1, at |-> m.at, state |-> m]
      BY <2>1 DEF Selected
    <3>2. m.at \in Nat
      BY DEF Models
    <3> QED
      BY <1>1, <3>1, <3>2 DEF Bests
  <2>2. CASE ~ (f1 > best.f1)
    <3>1. best' = best
      BY <2>2 DEF Selected
    <3> QED
      BY <1>1, <3>1
  <2> QED
    BY <2>1, <2>2
<1>4. ScoresInv'
  BY <1>2 DEF ScoresInv, EarliestBest
<1> QED
  BY <1>2, <1>3, <1>4

\* Where nothing is selected the selection stays empty.
LEMMA NoScoreStep ==
    ASSUME FedInv, ~ Selecting, ~ Selecting', best' = best, f1s' = f1s PROVE ScoresInv'
  BY DEF FedInv, ScoresInv, EarliestBest, Unselected, Fresh

\* After a round the next begins, or the best is taken.
LEMMA RoundEnds ==
    ASSUME FedInv, stage \in {"train", "merge"}, done_rounds' = done_rounds + 1, stage' = Ended
    PROVE  /\ done_rounds' \in 0 .. rounds /\ stage' \in {"train", "select"}
           /\ stage' = "train" => done_rounds' < rounds
           /\ stage' = "select" => done_rounds' = rounds
<1>1. done_rounds \in Nat /\ done_rounds < rounds /\ rounds \in Nat
  BY TrainingNumbers DEF FedInv, FedTypeInv, RoundInv
<1> QED
  BY <1>1 DEF Ended

LEMMA pooledEpochInv == ASSUME FedInv, NEW f1 \in F1s, pooledEpoch(f1) PROVE FedInv'
<1>1. /\ case.method = "centralized" /\ stage = "train"
      /\ model' = [model EXCEPT !.labels = @ \cup train_mask, !.at = done_rounds + 1]
      /\ done_rounds' = done_rounds + 1 /\ best' = Selected(f1, model') /\ f1s' = Append(f1s, f1)
      /\ stage' = Ended /\ case' = case /\ splits' = splits /\ owners' = owners /\ train_mask' = train_mask
      /\ updates' = updates /\ foreign_embeddings' = foreign_embeddings
  BY DEF pooledEpoch
<1>2. /\ done_rounds' \in 0 .. rounds /\ stage' \in {"train", "select"}
      /\ stage' = "train" => done_rounds' < rounds
      /\ stage' = "select" => done_rounds' = rounds
  BY <1>1, RoundEnds
<1>3. /\ PartitionInv'
      /\ case' \in run_seed \cup run_config /\ splits' \in Splits /\ owners' \in [Nodes -> institutions]
      /\ train_mask' \subseteq splits'.train /\ Models' = Models /\ Bests' = Bests
  BY <1>1, <1>2, SteadyInv
<1>4. case.select_on_val /\ ~ case.lambda
  BY <1>1, CaseIs DEF FedInv, FedTypeInv
<1>5. PICK m : m = model'
  OBVIOUS
<1>6. m \in Models /\ m.at = done_rounds + 1
  <2>1. model \in Models /\ model.labels \cup train_mask \in SUBSET train_mask /\ done_rounds + 1 \in Nat
    BY TrainingNumbers DEF FedInv, FedTypeInv, Models
  <2>2. m = [model EXCEPT !.labels = model.labels \cup train_mask, !.at = done_rounds + 1]
    BY <1>1, <1>5
  <2> QED
    BY <2>1, <2>2 DEF Models
<1>7. ScoresInv' /\ f1s' \in Seq(Nat) /\ best' \in Bests
  <2>1. Selecting /\ Selecting'
    BY <1>1, <1>4 DEF Selecting
  <2>2. best' = Selected(f1, m)
    BY <1>1, <1>5
  <2> QED
    BY <1>1, <1>6, <2>1, <2>2, ScoreStep
<1>8. FedTypeInv'
  BY <1>2, <1>3, <1>5, <1>6, <1>7 DEF FedTypeInv, institutions
<1>9. RoundInv'
  BY <1>1, <1>2 DEF RoundInv
<1>10. EndInv'
  BY <1>1, <1>2, <1>5, <1>6 DEF EndInv
<1>11. AloneInv'
  BY <1>1 DEF AloneInv
<1>12. EmbeddingsInv'
  BY <1>1, <1>4, EmbeddingsStay
<1> QED
  BY <1>3, <1>7, <1>8, <1>9, <1>10, <1>11, <1>12 DEF FedInv

\* Whose turn it is, and what it may learn from, while it trains.
LEMMA TurnStays ==
    ASSUME case' = case, splits' = splits, owners' = owners, train_mask' = train_mask, updates' = updates
    PROVE  /\ OwnTrain(InTurn)' = OwnTrain(InTurn) /\ Selecting' = Selecting
           /\ \A i : ReturnedRight(i)' = ReturnedRight(i)
<1>1. \A p : OwnTrain(p)' = OwnTrain(p)
  BY DEF OwnTrain, node_ids
<1> QED
  BY <1>1 DEF OwnTrain, node_ids, InTurn, Selecting, CanSelect, ReturnedRight, EarliestBest

LEMMA localEpochInv == ASSUME FedInv, NEW f1 \in F1s, localEpoch(f1) PROVE FedInv'
<1>1. /\ case.method = "local_only" /\ stage = "train" /\ OwnTrain(InTurn) # {}
      /\ model' = [model EXCEPT !.labels = @ \cup OwnTrain(InTurn), !.at = done_rounds + 1]
      /\ done_rounds' = done_rounds + 1
      /\ IF CanSelect(InTurn) THEN best' = Selected(f1, model') /\ f1s' = Append(f1s, f1)
         ELSE best' = best /\ f1s' = f1s
      /\ stage' = Ended /\ case' = case /\ splits' = splits /\ owners' = owners /\ train_mask' = train_mask
      /\ updates' = updates /\ foreign_embeddings' = foreign_embeddings
  BY DEF localEpoch
<1>2. /\ done_rounds' \in 0 .. rounds /\ stage' \in {"train", "select"}
      /\ stage' = "train" => done_rounds' < rounds
      /\ stage' = "select" => done_rounds' = rounds
  BY <1>1, RoundEnds
<1>3. /\ PartitionInv'
      /\ case' \in run_seed \cup run_config /\ splits' \in Splits /\ owners' \in [Nodes -> institutions]
      /\ train_mask' \subseteq splits'.train /\ Models' = Models /\ Bests' = Bests
  BY <1>1, <1>2, SteadyInv
<1>4. ~ case.lambda
  BY <1>1, CaseIs DEF FedInv, FedTypeInv
<1>5. PICK m : m = model'
  OBVIOUS
<1>6. m \in Models /\ m.at = done_rounds + 1 /\ m.labels \subseteq OwnTrain(InTurn)
  <2>1. model \in Models /\ done_rounds + 1 \in Nat
    BY TrainingNumbers DEF FedInv, FedTypeInv
  <2>2. model.labels \subseteq OwnTrain(InTurn) /\ OwnTrain(InTurn) \subseteq train_mask
    BY <1>1, OwnTrainIs DEF FedInv, AloneInv
  <2>3. m = [model EXCEPT !.labels = model.labels \cup OwnTrain(InTurn), !.at = done_rounds + 1]
    BY <1>1, <1>5
  <2>4. model.labels \cup OwnTrain(InTurn) \in SUBSET train_mask
    BY <2>2
  <2> QED
    BY <2>1, <2>2, <2>3, <2>4 DEF Models
<1>7. ScoresInv' /\ f1s' \in Seq(Nat) /\ best' \in Bests /\ best'.state \in {best.state, m}
  <2>1. Selecting' = Selecting /\ (Selecting <=> CanSelect(InTurn))
    BY <1>1, TurnStays DEF Selecting, CanSelect
  <2>2. CASE CanSelect(InTurn)
    <3>1. best' = Selected(f1, m) /\ f1s' = Append(f1s, f1)
      BY <1>1, <1>5, <2>2
    <3> QED
      BY <1>1, <1>6, <2>1, <2>2, <3>1, ScoreStep
  <2>3. CASE ~ CanSelect(InTurn)
    BY <1>1, <2>1, <2>3, NoScoreStep DEF FedInv, FedTypeInv
  <2> QED
    BY <2>2, <2>3
<1>8. FedTypeInv'
  BY <1>2, <1>3, <1>5, <1>6, <1>7 DEF FedTypeInv, institutions
<1>9. RoundInv'
  BY <1>1, <1>2 DEF RoundInv
<1>10. EndInv'
  BY <1>1, <1>2, <1>5, <1>6 DEF EndInv
<1>11. AloneInv'
  <2>1. OwnTrain(InTurn)' = OwnTrain(InTurn) /\ \A i : ReturnedRight(i)' = ReturnedRight(i)
    BY <1>1, TurnStays
  <2>2. model'.labels \cup best'.state.labels \subseteq OwnTrain(InTurn)
    BY <1>1, <1>5, <1>6, <1>7 DEF FedInv, AloneInv
  <2>3. /\ updates \in Seq([state : Models, best : Bests, f1s : Seq(Nat)])
        /\ \A i \in DOMAIN updates : ReturnedRight(i)
    BY <1>1 DEF FedInv, AloneInv
  <2> QED
    BY <1>1, <1>3, <2>1, <2>2, <2>3 DEF AloneInv
<1>12. EmbeddingsInv'
  BY <1>1, <1>4, EmbeddingsStay
<1> QED
  BY <1>3, <1>7, <1>8, <1>9, <1>10, <1>11, <1>12 DEF FedInv

LEMMA skipUnlabelledInv == ASSUME FedInv, skipUnlabelled PROVE FedInv'
<1>1. /\ case.method = "local_only" /\ stage = "train" /\ OwnTrain(InTurn) = {} /\ stage' = "select"
      /\ case' = case /\ splits' = splits /\ owners' = owners /\ train_mask' = train_mask
      /\ done_rounds' = done_rounds /\ model' = model /\ updates' = updates
      /\ foreign_embeddings' = foreign_embeddings /\ best' = best /\ f1s' = f1s
  BY DEF skipUnlabelled, Outcome
<1>2. /\ PartitionInv'
      /\ case' \in run_seed \cup run_config /\ splits' \in Splits /\ owners' \in [Nodes -> institutions]
      /\ train_mask' \subseteq splits'.train /\ Models' = Models /\ Bests' = Bests
  BY <1>1, SteadyInv
<1>3. OwnTrain(InTurn)' = OwnTrain(InTurn) /\ Selecting' = Selecting /\ \A i : ReturnedRight(i)' = ReturnedRight(i)
  BY <1>1, TurnStays
<1>4. FedTypeInv'
  BY <1>1, <1>2 DEF FedInv, FedTypeInv, institutions
<1>5. RoundInv'
  BY <1>1 DEF RoundInv
<1>6. EndInv'
  BY <1>1, <1>3 DEF FedInv, EndInv
<1>7. ScoresInv'
  BY <1>1, <1>3 DEF FedInv, ScoresInv, EarliestBest, Unselected, Fresh
<1>8. AloneInv'
  BY <1>1, <1>2, <1>3 DEF FedInv, AloneInv, Unselected, Fresh
<1>9. EmbeddingsInv'
  BY <1>1, EmbeddingsStay
<1> QED
  BY <1>2, <1>4, <1>5, <1>6, <1>7, <1>8, <1>9 DEF FedInv

\* What is kept at the end is a model, and the selected one wherever there are scores.
LEMMA FinalIs ==
    ASSUME FedInv
    PROVE  /\ Final \in {model, best.state} /\ Final \in Models
           /\ Final.at = IF f1s = <<>> THEN model.at ELSE best.at
<1>1. model \in Models /\ best \in Bests /\ best.state \in Models /\ f1s \in Seq(Nat)
  BY DEF FedInv, FedTypeInv, Bests
<1>2. CASE f1s = <<>>
  <2>1. best.at = 0
    BY <1>2 DEF FedInv, ScoresInv, Unselected
  <2> QED
    BY <1>1, <1>2, <2>1 DEF Final
<1>3. CASE f1s # <<>>
  <2>1. best.at \in 1 .. Len(f1s) /\ best.state.at = best.at
    BY <1>1, <1>3 DEF FedInv, ScoresInv, EarliestBest
  <2> QED
    BY <1>1, <1>3, <2>1 DEF Final
<1> QED
  BY <1>2, <1>3

LEMMA selectInv == ASSUME FedInv, select PROVE FedInv'
<1>1. /\ stage = "select" /\ case.method # "local_only" /\ model' = Final /\ stage' = "done"
      /\ case' = case /\ splits' = splits /\ owners' = owners /\ train_mask' = train_mask
      /\ done_rounds' = done_rounds /\ updates' = updates
      /\ foreign_embeddings' = foreign_embeddings /\ best' = best /\ f1s' = f1s
  BY DEF select
<1>2. /\ PartitionInv'
      /\ case' \in run_seed \cup run_config /\ splits' \in Splits /\ owners' \in [Nodes -> institutions]
      /\ train_mask' \subseteq splits'.train /\ Models' = Models /\ Bests' = Bests
      /\ \A p : OwnTrain(p)' = OwnTrain(p)
  BY <1>1, SteadyInv
<1>3. Final \in Models /\ Final.at = IF f1s = <<>> THEN model.at ELSE best.at
  BY FinalIs
<1>4. FedTypeInv'
  BY <1>1, <1>2, <1>3 DEF FedInv, FedTypeInv, institutions
<1>5. RoundInv'
  <2>1. case.method = "federated" => updates = <<>>
    <3>1. ASSUME NEW m \in 0 .. k, updates = [i \in 1 .. m |-> train_local(i - 1)], m = 0 PROVE updates = <<>>
      BY <3>1
    <3> QED
      BY <1>1, <3>1 DEF FedInv, RoundInv
  <2>2. updates' = <<>> => updates' = [i \in 1 .. 0 |-> train_local(i - 1)']
    OBVIOUS
  <2>3. 0 \in 0 .. k
    BY TrainingNumbers
  <2> QED
    BY <1>1, <2>1, <2>2, <2>3 DEF RoundInv
<1>6. EndInv'
  <2>1. model.at = done_rounds /\ done_rounds = rounds
    BY <1>1 DEF FedInv, EndInv
  <2> QED
    BY <1>1, <1>3, <2>1 DEF EndInv
<1>7. ScoresInv'
  BY <1>1 DEF FedInv, ScoresInv, Selecting, EarliestBest, Unselected, Fresh
<1>8. AloneInv'
  BY <1>1 DEF AloneInv
<1>9. EmbeddingsInv'
  BY <1>1, EmbeddingsStay
<1> QED
  BY <1>2, <1>4, <1>5, <1>6, <1>7, <1>8, <1>9 DEF FedInv

LEMMA selectLocalInv == ASSUME FedInv, selectLocal PROVE FedInv'
<1> DEFINE r == [state |-> Final, best |-> best, f1s |-> f1s]
<1>1. /\ stage = "select" /\ case.method = "local_only" /\ updates' = Append(updates, r)
      /\ model' = Fresh /\ best' = Unselected /\ f1s' = <<>> /\ done_rounds' = 0
      /\ stage' \in {"train", "done"}
      /\ case' = case /\ splits' = splits /\ owners' = owners /\ train_mask' = train_mask
      /\ foreign_embeddings' = foreign_embeddings
  BY DEF selectLocal
<1>2. /\ PartitionInv'
      /\ case' \in run_seed \cup run_config /\ splits' \in Splits /\ owners' \in [Nodes -> institutions]
      /\ train_mask' \subseteq splits'.train /\ Models' = Models /\ Bests' = Bests
      /\ \A p : OwnTrain(p)' = OwnTrain(p)
  BY <1>1, SteadyInv
<1>3. Fresh \in Models /\ Unselected \in Bests /\ 0 \in 0 .. rounds /\ 0 < rounds
  BY TrainingNumbers DEF Fresh, Unselected, Models, Bests
<1>4. FedTypeInv'
  <2>1. model' \in Models' /\ best' \in Bests' /\ f1s' \in Seq(Nat)
    BY <1>1, <1>2, <1>3
  <2> QED
    BY <1>1, <1>2, <1>3, <2>1 DEF FedTypeInv, institutions
<1>5. RoundInv'
  BY <1>1, <1>3 DEF RoundInv
<1>6. EndInv'
  BY <1>1 DEF EndInv, Fresh
<1>7. ScoresInv'
  BY <1>1 DEF ScoresInv, EarliestBest, Unselected, Fresh
<1>8. AloneInv'
  <2> DEFINE Returned == [state : Models, best : Bests, f1s : Seq(Nat)]
  <2>0. PICK n : n = Len(updates)
    OBVIOUS
  <2>1. /\ updates \in Seq(Returned) /\ (\A i \in DOMAIN updates : ReturnedRight(i))
        /\ model.labels \cup best.state.labels \subseteq OwnTrain(InTurn)
        /\ OwnTrain(InTurn) = {} => done_rounds = 0 /\ model = Fresh /\ best = Unselected
    BY <1>1 DEF FedInv, AloneInv
  <2>2. Final \in {model, best.state} /\ Final \in Models /\ Final.at = IF f1s = <<>> THEN model.at ELSE best.at
    BY FinalIs
  <2>3. r \in Returned
    BY <2>2 DEF FedInv, FedTypeInv
  <2>4. r.state = Final /\ r.best = best /\ r.f1s = f1s
    OBVIOUS
  <2>5. model.at = done_rounds /\ EarliestBest(best, f1s)
        /\ (OwnTrain(InTurn) # {} => done_rounds = rounds) /\ (f1s # <<>> /\ OwnTrain(InTurn) = {} => FALSE)
    <3>1. model.at = done_rounds /\ EarliestBest(best, f1s) /\ (OwnTrain(InTurn) # {} => done_rounds = rounds)
      BY <1>1 DEF FedInv, EndInv, ScoresInv
    <3>2. ASSUME f1s # <<>>, OwnTrain(InTurn) = {} PROVE FALSE
      <4>1. Len(f1s) = done_rounds /\ done_rounds = 0 /\ f1s \in Seq(Nat)
        BY <2>1, <3>2 DEF FedInv, ScoresInv, FedTypeInv
      <4> QED
        BY <3>2, <4>1
    <3> QED
      BY <3>1, <3>2
  <2> HIDE DEF r, Returned
  <2>6. /\ updates' \in Seq(Returned) /\ n \in Nat /\ DOMAIN updates' = 1 .. n + 1 /\ DOMAIN updates = 1 .. n
        /\ updates'[n + 1] = r /\ \A i \in 1 .. n : updates'[i] = updates[i]
    BY <1>1, <2>0, <2>1, <2>3
  <2>7. ASSUME NEW i \in 1 .. n PROVE ReturnedRight(i)'
    <3>1. OwnTrain(i - 1)' = OwnTrain(i - 1)
      BY <1>2
    <3>2. updates'[i] = updates[i] /\ ReturnedRight(i)
      BY <2>1, <2>6
    <3> QED
      BY <3>1, <3>2 DEF ReturnedRight, EarliestBest
  <2>8. ReturnedRight(n + 1)'
    <3>1. n = InTurn /\ OwnTrain(n)' = OwnTrain(InTurn) /\ updates'[n + 1] = r /\ (n + 1) - 1 = n
      BY <1>2, <2>0, <2>6 DEF InTurn
    <3>2. r.state.labels \subseteq OwnTrain(InTurn)
      BY <2>1, <2>2, <2>4
    <3>3. EarliestBest(r.best, r.f1s)
      BY <2>4, <2>5
    <3>4. r.state.at = IF OwnTrain(InTurn) = {} THEN 0 ELSE IF r.f1s = <<>> THEN rounds ELSE r.best.at
      BY <2>1, <2>2, <2>4, <2>5
    <3>5. /\ updates'[n + 1].state.labels \subseteq OwnTrain(n)'
          /\ EarliestBest(updates'[n + 1].best, updates'[n + 1].f1s)
          /\ updates'[n + 1].state.at = IF OwnTrain(n)' = {} THEN 0
                                        ELSE IF updates'[n + 1].f1s = <<>> THEN rounds ELSE updates'[n + 1].best.at
      BY <3>1, <3>2, <3>3, <3>4
    <3> QED
      BY <3>1, <3>5 DEF ReturnedRight, EarliestBest
  <2>9. \A i \in DOMAIN updates' : ReturnedRight(i)'
    <3>1. \A i \in 1 .. n + 1 : i \in 1 .. n \/ i = n + 1
      BY <2>6
    <3> QED
      BY <2>6, <2>7, <2>8, <3>1
  <2>10. OwnTrain(InTurn)' \subseteq OwnTrain(InTurn)' /\ model'.labels = {} /\ best'.state.labels = {}
    BY <1>1 DEF Fresh, Unselected
  <2> QED
    BY <1>1, <1>2, <2>6, <2>9, <2>10 DEF AloneInv, Returned, Fresh, Unselected
<1>9. EmbeddingsInv'
  <2>1. ~ case.lambda
    BY <1>1, CaseIs DEF FedInv, FedTypeInv
  <2> QED
    BY <1>1, <2>1, EmbeddingsStay
<1> QED
  BY <1>2, <1>4, <1>5, <1>6, <1>7, <1>8, <1>9 DEF FedInv

\* There is always something to weigh by.
LEMMA MergeCounts == ASSUME FedInv, stage = "merge" PROVE Total(updates) > 0
<1>1. updates = [i \in 1 .. k |-> train_local(i - 1)]
  BY DEF FedInv, RoundInv
<1>2. DOMAIN updates = 1 .. k /\ IsFiniteSet(1 .. k)
  <2>1. DOMAIN updates = 1 .. k
    BY <1>1
  <2>2. 1 \in Int /\ k \in Int
    BY TrainingNumbers
  <2>3. IsFiniteSet(1 .. k)
    BY <2>2, FS_Interval
  <2> QED
    BY <2>1, <2>3
<1> DEFINE f == [i \in DOMAIN updates |-> updates[i].n]
<1>3. \A i \in 1 .. k : f[i] \in Nat /\ f[i] = train_local(i - 1).n
  BY <1>1, <1>2, TrainedIs DEF FedInv
<1>4. PICK p \in institutions : OwnTrain(p) # {}
  BY SomeoneTrains DEF FedInv, PartitionInv
<1>5. p + 1 \in 1 .. k /\ (p + 1) - 1 = p
  BY <1>4, TrainingNumbers DEF institutions
<1>6. f[p + 1] > 0
  BY <1>3, <1>4, <1>5, TrainedIs DEF FedInv
<1> HIDE DEF f
<1>7. f[p + 1] <= SumFunctionOnSet(f, 1 .. k) /\ SumFunctionOnSet(f, 1 .. k) \in Nat
  BY <1>2, <1>3, <1>5, SumAtLeast, SumNat
<1>8. Total(updates) = SumFunctionOnSet(f, 1 .. k)
  BY <1>2 DEF Total, f
<1> QED
  BY <1>3, <1>5, <1>6, <1>7, <1>8

\* What others get to see of an institution's embeddings.
LEMMA PayloadIs ==
    ASSUME FedInv, NEW p, NEW payload,
           payload = IF case.privacy = "off" THEN train_local(p).payload
                     ELSE privatize_boundary_payload(train_local(p).payload)
    PROVE  /\ DOMAIN payload = boundary_ids(p)
           /\ \A v \in boundary_ids(p) :
                 /\ payload[v].of = p /\ payload[v].at = done_rounds + 1
                 /\ payload[v].labels \subseteq train_mask /\ payload[v].protection = case.privacy
<1> DEFINE sent == train_local(p).payload
<1>1. /\ DOMAIN sent = boundary_ids(p)
      /\ \A v \in boundary_ids(p) : sent[v] = [of |-> p, at |-> done_rounds + 1, labels |-> Learnt(p).labels,
                                               protection |-> "off"]
  BY DEF train_local, Payload
<1>2. Learnt(p).labels \subseteq train_mask
  BY LearntIs DEF FedInv, Models
<1> HIDE DEF sent
<1>3. CASE case.privacy = "off"
  BY <1>1, <1>2, <1>3 DEF sent
<1>4. CASE case.privacy # "off"
  <2>1. payload = [v \in boundary_ids(p) |-> [sent[v] EXCEPT !.protection = case.privacy]]
    BY <1>1, <1>4 DEF privatize_boundary_payload, sent
  <2> QED
    BY <1>1, <1>2, <2>1
<1> QED
  BY <1>3, <1>4

LEMMA mergeInv == ASSUME FedInv, merge PROVE FedInv'
<1> DEFINE sent == IF case.privacy = "off" THEN updates
                   ELSE [i \in DOMAIN updates |-> privatize_model_update(updates[i])]
           payloads == [i \in DOMAIN updates |->
                          IF case.privacy = "off" THEN updates[i].payload
                          ELSE privatize_boundary_payload(updates[i].payload)]
<1>1. /\ stage = "merge" /\ case.method = "federated"
      /\ model' = fedavg(sent)
      /\ foreign_embeddings' = IF case.lambda THEN payload_lookup(payloads) ELSE <<>>
      /\ updates' = <<>> /\ done_rounds' = done_rounds + 1 /\ stage' = Ended
      /\ IF case.select_on_val
           THEN \E f1 \in F1s : best' = Selected(f1, model') /\ f1s' = Append(f1s, f1)
           ELSE best' = best /\ f1s' = f1s
      /\ case' = case /\ splits' = splits /\ owners' = owners /\ train_mask' = train_mask
  BY DEF merge, FedInv, RoundInv
<1>2. /\ done_rounds' \in 0 .. rounds /\ stage' \in {"train", "select"}
      /\ stage' = "train" => done_rounds' < rounds
      /\ stage' = "select" => done_rounds' = rounds
  BY <1>1, RoundEnds
<1>3. /\ PartitionInv'
      /\ case' \in run_seed \cup run_config /\ splits' \in Splits /\ owners' \in [Nodes -> institutions]
      /\ train_mask' \subseteq splits'.train /\ Models' = Models /\ Bests' = Bests
      /\ \A p : boundary_ids(p)' = boundary_ids(p) /\ peer_pairs(p)' = peer_pairs(p)
  BY <1>1, <1>2, SteadyInv
<1>4. updates = [i \in 1 .. k |-> train_local(i - 1)]
  BY <1>1 DEF FedInv, RoundInv
<1>5. DOMAIN updates = 1 .. k /\ DOMAIN sent = 1 .. k /\ DOMAIN payloads = 1 .. k
  BY <1>4
<1>6. ASSUME NEW i \in 1 .. k
      PROVE  /\ i - 1 \in institutions
             /\ sent[i].state \in Models /\ sent[i].protection = case.privacy
             /\ DOMAIN payloads[i] = boundary_ids(i - 1)
             /\ \A v \in boundary_ids(i - 1) :
                   /\ payloads[i][v].of = i - 1 /\ payloads[i][v].at = done_rounds + 1
                   /\ payloads[i][v].labels \subseteq train_mask /\ payloads[i][v].protection = case.privacy
  <2>1. i - 1 \in institutions
    BY TrainingNumbers DEF institutions
  <2>2. updates[i] = train_local(i - 1)
    BY <1>4
  <2>3. train_local(i - 1).state \in Models /\ train_local(i - 1).protection = "off"
    BY TrainedIs DEF FedInv
  <2>4. sent[i].state \in Models /\ sent[i].protection = case.privacy
    <3>1. CASE case.privacy = "off"
      BY <2>2, <2>3, <3>1
    <3>2. CASE case.privacy # "off"
      <4>1. sent[i] = [train_local(i - 1) EXCEPT !.protection = case.privacy]
        BY <1>5, <2>2, <3>2 DEF privatize_model_update
      <4> QED
        BY <2>3, <4>1 DEF train_local
    <3> QED
      BY <3>1, <3>2
  <2>5. payloads[i] = IF case.privacy = "off" THEN train_local(i - 1).payload
                      ELSE privatize_boundary_payload(train_local(i - 1).payload)
    BY <1>5, <2>2
  <2> HIDE DEF sent, payloads
  <2> QED
    BY <2>1, <2>4, <2>5, PayloadIs
<1> HIDE DEF sent, payloads
<1>7. PICK m : m = model'
  OBVIOUS
<1>8. m \in Models /\ m.at = done_rounds + 1
  <2> DEFINE counted == {i \in DOMAIN sent : sent[i].n > 0}
             opened == {i - 1 : i \in {j \in counted : sent[j].protection = "off"}}
             labels == UNION {sent[i].state.labels : i \in counted}
             exposed == (UNION {sent[i].state.exposed : i \in counted}) \cup opened
  <2>1. m = [labels |-> labels, exposed |-> exposed, at |-> done_rounds + 1]
    BY <1>1, <1>7 DEF fedavg
  <2>2. \A i \in counted : i \in 1 .. k
    BY <1>5
  <2>3. \A i \in counted : sent[i].state \in Models
    BY <1>6, <2>2
  <2>4. labels \in SUBSET train_mask
    BY <2>3 DEF Models
  <2>5. opened \subseteq institutions /\ (case.privacy # "off" => opened = {})
    BY <1>6, <2>2
  <2> HIDE DEF opened, counted
  <2>6. UNION {sent[i].state.exposed : i \in counted} \in IF case.privacy = "off" THEN SUBSET institutions ELSE {{}}
    BY <2>3 DEF Models
  <2>7. exposed \in IF case.privacy = "off" THEN SUBSET institutions ELSE {{}}
    BY <2>5, <2>6
  <2>8. done_rounds + 1 \in Nat
    BY TrainingNumbers DEF FedInv, FedTypeInv
  <2> HIDE DEF labels, exposed
  <2> QED
    BY <2>1, <2>4, <2>7, <2>8 DEF Models
<1>9. ScoresInv' /\ f1s' \in Seq(Nat) /\ best' \in Bests
  <2>1. Selecting' = Selecting /\ (Selecting <=> case.select_on_val)
    BY <1>1 DEF Selecting
  <2>2. CASE case.select_on_val
    <3>1. PICK f1 \in F1s : best' = Selected(f1, m) /\ f1s' = Append(f1s, f1)
      BY <1>1, <1>7, <2>2
    <3> QED
      BY <1>1, <1>8, <2>1, <2>2, <3>1, ScoreStep
  <2>3. CASE ~ case.select_on_val
    BY <1>1, <2>1, <2>3, NoScoreStep DEF FedInv, FedTypeInv
  <2> QED
    BY <2>2, <2>3
<1>10. FedTypeInv'
  BY <1>2, <1>3, <1>7, <1>8, <1>9 DEF FedTypeInv, institutions
<1>11. RoundInv'
  <2>1. updates' = [i \in 1 .. 0 |-> train_local(i - 1)']
    BY <1>1
  <2>2. 0 \in 0 .. k /\ 0 < k
    BY TrainingNumbers
  <2> QED
    BY <1>1, <1>2, <2>1, <2>2 DEF RoundInv
<1>12. EndInv'
  BY <1>1, <1>2, <1>7, <1>8 DEF EndInv
<1>13. AloneInv'
  BY <1>1 DEF AloneInv
<1>14. EmbeddingsInv'
  <2>1. CASE ~ case.lambda
    BY <1>1, <2>1 DEF EmbeddingsInv
  <2>2. CASE case.lambda
    <3>1. foreign_embeddings' = payload_lookup(payloads)
      BY <1>1, <2>2
    <3> DEFINE known == UNION {DOMAIN payloads[i] : i \in DOMAIN payloads}
               holder(v) == CHOOSE i \in DOMAIN payloads : v \in DOMAIN payloads[i]
    <3>2. foreign_embeddings' = [v \in known |-> payloads[holder(v)][v]]
      BY <3>1 DEF payload_lookup
    <3>3. ASSUME NEW v \in known
          PROVE  /\ holder(v) \in 1 .. k /\ v \in boundary_ids(holder(v) - 1) /\ owners[v] = holder(v) - 1
                 /\ v \in Nodes
      <4>1. \E i \in 1 .. k : v \in DOMAIN payloads[i]
        BY <1>5
      <4>2. holder(v) \in 1 .. k /\ v \in DOMAIN payloads[holder(v)]
        BY <1>5, <4>1
      <4> HIDE DEF holder
      <4>3. v \in boundary_ids(holder(v) - 1)
        BY <1>6, <4>2
      <4> QED
        BY <4>2, <4>3, BoundaryIs DEF FedInv, FedTypeInv
    <3>4. ASSUME NEW p \in institutions, NEW v \in boundary_ids(p) PROVE v \in known
      <4>1. p + 1 \in 1 .. k /\ (p + 1) - 1 = p
        BY TrainingNumbers DEF institutions
      <4>2. v \in DOMAIN payloads[p + 1]
        BY <1>6, <4>1
      <4> QED
        BY <1>5, <4>1, <4>2
    <3> HIDE DEF known, holder
    <3>5. ASSUME NEW v \in known
          PROVE  LET e == foreign_embeddings'[v]
                 IN /\ e.labels \subseteq train_mask /\ e.protection = case.privacy /\ e.at = done_rounds + 1
                    /\ v \in boundary_ids(owners[v]) /\ owners[v] = e.of
      <4>1. foreign_embeddings'[v] = payloads[holder(v)][v]
        BY <3>2
      <4> QED
        BY <1>6, <3>3, <4>1
    <3>6. ASSUME NEW p \in institutions
          PROVE  UNION {peer_pairs(p)[v] : v \in boundary_ids(p)} \subseteq known
      <4>1. ASSUME NEW v \in boundary_ids(p), NEW w \in peer_pairs(p)[v] PROVE w \in known
        BY <3>4, BoundaryIs DEF FedInv, FedTypeInv
      <4> QED
        BY <4>1
    <3>7. DOMAIN foreign_embeddings' = known
      BY <3>2
    <3>8. \A v \in DOMAIN foreign_embeddings' :
             LET e == foreign_embeddings'[v]
             IN /\ e.labels \subseteq train_mask' /\ e.protection = case'.privacy /\ e.at = done_rounds'
                /\ v \in boundary_ids(owners[v])' /\ owners'[v] = e.of /\ case'.lambda
      <4>1. \A v : boundary_ids(owners[v])' = boundary_ids(owners[v])
        BY <1>1 DEF boundary_ids, peer_pairs
      <4> QED
        BY <1>1, <2>2, <3>5, <3>7, <4>1
    <3>9. \A p \in institutions : UNION {peer_pairs(p)[v] : v \in boundary_ids(p)}' \subseteq DOMAIN foreign_embeddings'
      BY <1>3, <3>6, <3>7
    <3> QED
      BY <3>8, <3>9 DEF EmbeddingsInv, institutions
  <2> QED
    BY <2>1, <2>2
<1> QED
  BY <1>3, <1>9, <1>10, <1>11, <1>12, <1>13, <1>14 DEF FedInv

LEMMA FedNextInv == FedInv /\ [FedNext]_fedVars => FedInv'
<1> SUFFICES ASSUME FedInv, [FedNext]_fedVars PROVE FedInv'
  OBVIOUS
<1>1. ASSUME fedVars' = fedVars PROVE FedInv'
  <2>1. /\ case' = case /\ splits' = splits /\ owners' = owners /\ train_mask' = train_mask /\ stage' = stage
        /\ done_rounds' = done_rounds /\ model' = model /\ updates' = updates
        /\ foreign_embeddings' = foreign_embeddings /\ best' = best /\ f1s' = f1s
    BY <1>1 DEF fedVars
  <2>2. /\ OwnTrain(InTurn)' = OwnTrain(InTurn) /\ Selecting' = Selecting
        /\ \A i : ReturnedRight(i)' = ReturnedRight(i)
    BY <2>1, TurnStays
  <2>3. \A p : /\ OwnTrain(p)' = OwnTrain(p) /\ node_ids(p)' = node_ids(p) /\ peer_pairs(p)' = peer_pairs(p)
               /\ boundary_ids(p)' = boundary_ids(p) /\ train_local(p)' = train_local(p)
    BY <2>1, PlacesStay, TrainedStay
  <2>4. Models' = Models /\ Bests' = Bests
    BY <2>1 DEF Models, Bests
  <2>5. FedTypeInv'
    BY <2>1, <2>4 DEF FedInv, FedTypeInv, run_seed, run_config, institutions
  <2>6. PartitionInv'
    BY <2>1, <2>3 DEF FedInv, PartitionInv, Illicit, institutions, Fresh, Unselected
  <2>7. RoundInv'
    BY <2>1, <2>3 DEF FedInv, RoundInv
  <2>8. EndInv' /\ ScoresInv'
    BY <2>1, <2>2 DEF FedInv, EndInv, ScoresInv, EarliestBest, Unselected, Fresh
  <2>9. AloneInv'
    BY <2>1, <2>2, <2>4 DEF FedInv, AloneInv, Unselected, Fresh
  <2>10. EmbeddingsInv'
    BY <2>1, EmbeddingsStay
  <2> QED
    BY <2>5, <2>6, <2>7, <2>8, <2>9, <2>10 DEF FedInv
<1>2. CASE sweep
  BY <1>2, sweepInv
<1>3. CASE _institutions_and_training
  BY <1>3, institutionsInv
<1>4. CASE trainLocal
  BY <1>4, trainLocalInv
<1>5. CASE merge
  BY <1>5, mergeInv
<1>6. ASSUME NEW f1 \in F1s, pooledEpoch(f1) PROVE FedInv'
  BY <1>6, pooledEpochInv
<1>7. ASSUME NEW f1 \in F1s, localEpoch(f1) PROVE FedInv'
  BY <1>7, localEpochInv
<1>8. CASE skipUnlabelled
  BY <1>8, skipUnlabelledInv
<1>9. CASE select
  BY <1>9, selectInv
<1>10. CASE selectLocal
  BY <1>10, selectLocalInv
<1>11. CASE fedDone
  BY <1>1, <1>11 DEF fedDone
<1> QED
  BY <1>1, <1>2, <1>3, <1>4, <1>5, <1>6, <1>7, <1>8, <1>9, <1>10, <1>11 DEF FedNext

\* In every state what was learnt, shared and selected is what H2 says it is.
LEMMA FedInvSound == FedInv => TrainingIsSound
<1> SUFFICES ASSUME FedInv PROVE TrainingIsSound
  OBVIOUS
<1>1. LearnsFromKept
  <2>1. model.labels \subseteq train_mask /\ train_mask \subseteq splits.train
    BY DEF FedInv, FedTypeInv, Models
  <2>2. UNION {foreign_embeddings[v].labels : v \in DOMAIN foreign_embeddings} \subseteq train_mask
    BY DEF FedInv, EmbeddingsInv
  <2>3. case.method = "local_only" => \A i \in DOMAIN updates : updates[i].state.labels \subseteq OwnTrain(i - 1)
    BY DEF FedInv, AloneInv, ReturnedRight
  <2>4. stage = "merge" => Total(updates) > 0
    BY MergeCounts
  <2>5. stage # "partition" =>
          \A p \in institutions : Illicit(splits.train \cap node_ids(p)) # {} => Illicit(OwnTrain(p)) # {}
    BY DEF FedInv, PartitionInv
  <2> QED
    BY <2>1, <2>2, <2>3, <2>4, <2>5 DEF LearnsFromKept
<1>2. EmbeddingsAreFresh
  <2>1. case.privacy # "off" => model.exposed = {}
    BY DEF FedInv, FedTypeInv, Models
  <2> QED
    BY <2>1 DEF FedInv, EmbeddingsInv, EmbeddingsAreFresh
<1>3. BestRoundEvaluated
  BY DEF FedInv, ScoresInv, EndInv, AloneInv, ReturnedRight, BestRoundEvaluated
<1> QED
  BY <1>1, <1>2, <1>3 DEF TrainingIsSound

\* h2-federated-aml/src, for every graph, partition, split and number of rounds: only kept labels
\* are learnt from, embeddings are protected and of the last round, the first best round is kept.
THEOREM TrainingSound == FedSpec => []TrainingIsSound
<1>1. FedSpec => []FedInv
  BY FedInitInv, FedNextInv, PTL DEF FedSpec
<1> QED
  BY <1>1, FedInvSound, PTL
==============================================================================
