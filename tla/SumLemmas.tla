------------------------------- MODULE SumLemmas -------------------------------
(***************************************************************************)
(* Sums of a function over a finite set (SumFunctionOnSet): what the       *)
(* conservation invariants of the contracts are stated with.  The library's*)
(* induction theorems are about operators; here a fact that fails of a     *)
(* finite set fails of a smallest subset of it.                            *)
(***************************************************************************)
EXTENDS Integers, FiniteSets, Functions, FiniteSetTheorems, WellFoundedInduction, TLAPS

\* A set of subsets of a finite set has a member with no strict subset in it.
LEMMA SmallestSubset ==
    ASSUME NEW S, IsFiniteSet(S), NEW Bad \in SUBSET (SUBSET S), Bad # {}
    PROVE  \E T \in Bad : \A U \in Bad : U \subseteq T => U = T
<1>1. IsWellFoundedOn(StrictSubsetOrdering(S), SUBSET S)
  BY FS_StrictSubsetOrderingWellFounded, FS_FiniteSubsetsOfFinite
<1>2. PICK T \in Bad : \A U \in Bad : <<U, T>> \notin StrictSubsetOrdering(S)
  BY <1>1, WFMin
<1>3. ASSUME NEW U \in Bad, U \subseteq T, U # T
      PROVE  <<U, T>> \in StrictSubsetOrdering(S)
  BY <1>3 DEF StrictSubsetOrdering
<1>4. \A U \in Bad : U \subseteq T => U = T
  BY <1>2, <1>3
<1> QED
  BY <1>4

Pick(s) == CHOOSE x \in s : TRUE

\* The partial sums of f over the subsets of S.
SumsOn(g, f, S) ==
    g = [s \in SUBSET S |-> IF s = {} THEN 0 ELSE f[Pick(s)] + g[s \ {Pick(s)}]]

Sums(f, S) == CHOOSE g : SumsOn(g, f, S)

\* The sum is the partial sum of the whole set.
LEMMA SumIsSums == ASSUME NEW f, NEW S PROVE SumFunctionOnSet(f, S) = Sums(f, S)[S]
  BY DEF SumFunctionOnSet, FoldFunctionOnSet, MapThenFoldSet, Sums, SumsOn, Pick

LEMMA PickIn == ASSUME NEW s, s # {} PROVE Pick(s) \in s
  BY DEF Pick

\* There is at most one table of partial sums.
LEMMA SumsUnique ==
    ASSUME NEW f, NEW S, IsFiniteSet(S), NEW g, NEW h, SumsOn(g, f, S), SumsOn(h, f, S)
    PROVE  g = h
<1> DEFINE Bad == {s \in SUBSET S : g[s] # h[s]}
<1>1. SUFFICES ASSUME Bad # {} PROVE FALSE
  BY DEF SumsOn
<1>2. Bad \in SUBSET (SUBSET S)
  OBVIOUS
<1> HIDE DEF Bad
<1>3. PICK T \in Bad : \A U \in Bad : U \subseteq T => U = T
  BY <1>1, <1>2, SmallestSubset
<1> USE DEF Bad
<1>4. T # {}
  BY DEF SumsOn
<1>5. Pick(T) \in T
  BY <1>4, PickIn
<1>6. g[T \ {Pick(T)}] = h[T \ {Pick(T)}]
  BY <1>3, <1>5
<1> QED
  BY <1>4, <1>6 DEF SumsOn

\* The table of a set, cut down to a subset, is the table of the subset.
LEMMA SumsRestrict ==
    ASSUME NEW f, NEW S, NEW g, SumsOn(g, f, S), NEW U \in SUBSET S
    PROVE  SumsOn([s \in SUBSET U |-> g[s]], f, U)
<1> DEFINE h == [s \in SUBSET U |-> g[s]]
<1>1. \A s \in SUBSET U : h[s] = IF s = {} THEN 0 ELSE f[Pick(s)] + g[s \ {Pick(s)}]
  BY DEF SumsOn
<1>2. \A s \in SUBSET U : g[s \ {Pick(s)}] = h[s \ {Pick(s)}]
  OBVIOUS
<1> QED
  BY <1>1, <1>2 DEF SumsOn

\* The tables of a set and of a subset agree on the subset.
LEMMA SumsAgree ==
    ASSUME NEW f, NEW u, NEW v \in SUBSET u, IsFiniteSet(v), SumsOn(Sums(f, u), f, u), SumsOn(Sums(f, v), f, v)
    PROVE  Sums(f, u)[v] = Sums(f, v)[v]
<1> DEFINE g == Sums(f, u)
           h == Sums(f, v)
<1>1. SumsOn(g, f, u) /\ SumsOn(h, f, v)
  OBVIOUS
<1> HIDE DEF g, h
<1>2. SumsOn([w \in SUBSET v |-> g[w]], f, v)
  BY <1>1, SumsRestrict
<1>3. [w \in SUBSET v |-> g[w]] = h
  BY <1>1, <1>2, SumsUnique
<1>4. g[v] = h[v]
  BY <1>3
<1> QED
  BY <1>4 DEF g, h

\* Every finite set has a table of partial sums.
LEMMA SumsExist == ASSUME NEW f, NEW S, IsFiniteSet(S) PROVE SumsOn(Sums(f, S), f, S)
<1> DEFINE Bad == {T \in SUBSET S : ~ SumsOn(Sums(f, T), f, T)}
<1>1. SUFFICES ASSUME Bad # {} PROVE FALSE
  OBVIOUS
<1>2. Bad \in SUBSET (SUBSET S)
  OBVIOUS
<1> HIDE DEF Bad
<1>3. PICK T \in Bad : \A U \in Bad : U \subseteq T => U = T
  BY <1>1, <1>2, SmallestSubset
<1>4. T \in SUBSET S /\ ~ SumsOn(Sums(f, T), f, T)
  BY DEF Bad
<1>5. ASSUME NEW U \in SUBSET T, U # T
      PROVE  SumsOn(Sums(f, U), f, U)
  BY <1>3, <1>4, <1>5 DEF Bad
<1> DEFINE total(s) == IF s = {} THEN 0 ELSE f[Pick(s)] + Sums(f, s \ {Pick(s)})[s \ {Pick(s)}]
           G == [s \in SUBSET T |-> total(s)]
<1>6. ASSUME NEW s \in SUBSET T, s # {}
      PROVE  G[s \ {Pick(s)}] = Sums(f, s \ {Pick(s)})[s \ {Pick(s)}]
  <2> DEFINE u == s \ {Pick(s)}
             v == u \ {Pick(u)}
  <2>1. Pick(s) \in s
    BY <1>6, PickIn
  <2>2. u \in SUBSET T /\ u # T
    BY <2>1
  <2>3. SumsOn(Sums(f, u), f, u)
    BY <1>5, <2>2
  <2>4. CASE u = {}
    BY <2>2, <2>3, <2>4 DEF SumsOn
  <2>5. CASE u # {}
    <3>1. Pick(u) \in u
      BY <2>5, PickIn
    <3>2. v \in SUBSET u /\ v \in SUBSET T /\ v # T
      BY <3>1, <2>2
    <3>3. SumsOn(Sums(f, v), f, v)
      BY <1>5, <3>2
    <3>4. IsFiniteSet(v)
      BY <1>4, <3>2, FS_Subset
    <3> HIDE DEF u, v, total, G
    <3>5. Sums(f, u)[v] = Sums(f, v)[v]
      BY <2>3, <3>2, <3>3, <3>4, SumsAgree
    <3> USE DEF u, v, total, G
    <3>6. Sums(f, u)[u] = f[Pick(u)] + Sums(f, u)[v]
      BY <2>3, <2>5 DEF SumsOn
    <3> QED
      BY <2>2, <2>5, <3>5, <3>6
  <2> QED
    BY <2>4, <2>5
<1>7. SumsOn(G, f, T)
  BY <1>6 DEF SumsOn
<1> QED
  BY <1>4, <1>7 DEF Sums

------------------------------------------------------------------------------
(* Facts about sums.                                                         *)

LEMMA SumEmpty == ASSUME NEW f PROVE SumFunctionOnSet(f, {}) = 0
<1>1. IsFiniteSet({})
  BY FS_EmptySet
<1>2. SumsOn(Sums(f, {}), f, {})
  BY <1>1, SumsExist
<1>3. Sums(f, {})[{}] = 0
  BY <1>2 DEF SumsOn
<1> QED
  BY <1>3, SumIsSums

\* A sum is taken apart at the element that the definition picks.
LEMMA SumPick ==
    ASSUME NEW f, NEW S, IsFiniteSet(S), S # {}
    PROVE  SumFunctionOnSet(f, S) = f[Pick(S)] + SumFunctionOnSet(f, S \ {Pick(S)})
<1> DEFINE U == S \ {Pick(S)}
<1>1. SumsOn(Sums(f, S), f, S)
  BY SumsExist
<1>2. U \in SUBSET S /\ IsFiniteSet(U)
  BY FS_Subset
<1>3. SumsOn([s \in SUBSET U |-> Sums(f, S)[s]], f, U)
  BY <1>1, <1>2, SumsRestrict
<1>4. SumsOn(Sums(f, U), f, U)
  BY <1>2, SumsExist
<1>5. [s \in SUBSET U |-> Sums(f, S)[s]] = Sums(f, U)
  BY <1>2, <1>3, <1>4, SumsUnique
<1>6. Sums(f, S)[U] = Sums(f, U)[U]
  BY <1>5
<1>7. Sums(f, S)[S] = f[Pick(S)] + Sums(f, S)[U]
  BY <1>1 DEF SumsOn
<1> QED
  BY <1>6, <1>7, SumIsSums

LEMMA SumInt ==
    ASSUME NEW f, NEW S, IsFiniteSet(S), \A x \in S : f[x] \in Int
    PROVE  SumFunctionOnSet(f, S) \in Int
<1> DEFINE Bad == {T \in SUBSET S : SumFunctionOnSet(f, T) \notin Int}
<1>1. SUFFICES ASSUME Bad # {} PROVE FALSE
  OBVIOUS
<1>2. Bad \in SUBSET (SUBSET S)
  OBVIOUS
<1> HIDE DEF Bad
<1>3. PICK T \in Bad : \A U \in Bad : U \subseteq T => U = T
  BY <1>1, <1>2, SmallestSubset
<1>4. T \in SUBSET S /\ SumFunctionOnSet(f, T) \notin Int
  BY DEF Bad
<1>5. T # {} /\ IsFiniteSet(T)
  <2>1. SumFunctionOnSet(f, {}) \in Int
    BY SumEmpty
  <2> QED
    BY <1>4, <2>1, FS_Subset
<1>6. Pick(T) \in T
  BY <1>5, PickIn
<1>7. SumFunctionOnSet(f, T \ {Pick(T)}) \in Int
  BY <1>3, <1>4, <1>6 DEF Bad
<1> QED
  BY <1>4, <1>5, <1>6, <1>7, SumPick

\* A sum is taken apart at any of its elements.
LEMMA SumRemove ==
    ASSUME NEW f, NEW S, IsFiniteSet(S), \A x \in S : f[x] \in Int, NEW a \in S
    PROVE  SumFunctionOnSet(f, S) = f[a] + SumFunctionOnSet(f, S \ {a})
<1> DEFINE Splits(T, x) == SumFunctionOnSet(f, T) = f[x] + SumFunctionOnSet(f, T \ {x})
           Bad == {T \in SUBSET S : \E x \in T : ~ Splits(T, x)}
<1>1. SUFFICES ASSUME Bad # {} PROVE FALSE
  OBVIOUS
<1>2. Bad \in SUBSET (SUBSET S)
  OBVIOUS
<1> HIDE DEF Bad
<1>3. PICK T \in Bad : \A U \in Bad : U \subseteq T => U = T
  BY <1>1, <1>2, SmallestSubset
<1>4. PICK x \in T : ~ Splits(T, x)
  BY DEF Bad
<1>5. T \in SUBSET S /\ T # {} /\ IsFiniteSet(T)
  BY <1>4, FS_Subset DEF Bad
<1> DEFINE c == Pick(T)
<1>6. c \in T /\ Splits(T, c)
  BY <1>5, PickIn, SumPick
<1>7. c # x /\ x \in T \ {c} /\ c \in T \ {x}
  BY <1>4, <1>6
<1> HIDE DEF c, Splits
<1>8. Splits(T \ {c}, x) /\ Splits(T \ {x}, c)
  BY <1>3, <1>5, <1>6, <1>7 DEF Bad
<1> DEFINE R == SumFunctionOnSet(f, (T \ {c}) \ {x})
<1>9. R \in Int /\ (T \ {c}) \ {x} = (T \ {x}) \ {c}
  BY <1>5, SumInt, FS_Subset
<1>10. f[x] \in Int /\ f[c] \in Int
  BY <1>4, <1>5, <1>6
<1>11. SumFunctionOnSet(f, T) = f[c] + SumFunctionOnSet(f, T \ {c})
  BY <1>6 DEF Splits
<1>12. SumFunctionOnSet(f, T \ {c}) = f[x] + R
  BY <1>8 DEF Splits
<1>13. SumFunctionOnSet(f, T \ {x}) = f[c] + R
  BY <1>8, <1>9 DEF Splits
<1> HIDE DEF R
<1>14. SumFunctionOnSet(f, T) = f[x] + SumFunctionOnSet(f, T \ {x})
  BY <1>9, <1>10, <1>11, <1>12, <1>13
<1> QED
  BY <1>4, <1>14 DEF Splits

\* A sum over one more element.
LEMMA SumAdd ==
    ASSUME NEW f, NEW S, IsFiniteSet(S), NEW a, a \notin S, \A x \in S \cup {a} : f[x] \in Int
    PROVE  SumFunctionOnSet(f, S \cup {a}) = f[a] + SumFunctionOnSet(f, S)
<1>1. IsFiniteSet(S \cup {a}) /\ (S \cup {a}) \ {a} = S
  BY FS_AddElement
<1> QED
  BY <1>1, SumRemove

\* The sum is about the values of the function on the set only.
LEMMA SumSame ==
    ASSUME NEW f, NEW g, NEW S, IsFiniteSet(S), \A x \in S : f[x] = g[x]
    PROVE  SumFunctionOnSet(f, S) = SumFunctionOnSet(g, S)
<1> DEFINE Bad == {T \in SUBSET S : SumFunctionOnSet(f, T) # SumFunctionOnSet(g, T)}
<1>1. SUFFICES ASSUME Bad # {} PROVE FALSE
  OBVIOUS
<1>2. Bad \in SUBSET (SUBSET S)
  OBVIOUS
<1> HIDE DEF Bad
<1>3. PICK T \in Bad : \A U \in Bad : U \subseteq T => U = T
  BY <1>1, <1>2, SmallestSubset
<1>4. T \in SUBSET S /\ SumFunctionOnSet(f, T) # SumFunctionOnSet(g, T)
  BY DEF Bad
<1>5. T # {} /\ IsFiniteSet(T)
  BY <1>4, SumEmpty, FS_Subset
<1>6. Pick(T) \in T
  BY <1>5, PickIn
<1>7. SumFunctionOnSet(f, T \ {Pick(T)}) = SumFunctionOnSet(g, T \ {Pick(T)})
  BY <1>3, <1>4, <1>6 DEF Bad
<1> QED
  BY <1>4, <1>5, <1>6, <1>7, SumPick

\* One value changes.
LEMMA SumUpdate ==
    ASSUME NEW f, NEW g, NEW S, IsFiniteSet(S), NEW a \in S,
           \A x \in S : f[x] \in Int, \A x \in S \ {a} : f[x] = g[x], g[a] \in Int
    PROVE  SumFunctionOnSet(g, S) = SumFunctionOnSet(f, S) + g[a] - f[a]
<1>1. IsFiniteSet(S \ {a}) /\ \A x \in S : g[x] \in Int
  BY FS_Subset
<1>2. SumFunctionOnSet(f, S \ {a}) = SumFunctionOnSet(g, S \ {a})
  BY <1>1, SumSame
<1>3. SumFunctionOnSet(f, S) = f[a] + SumFunctionOnSet(f, S \ {a})
  BY SumRemove
<1>4. SumFunctionOnSet(g, S) = g[a] + SumFunctionOnSet(g, S \ {a})
  BY <1>1, SumRemove
<1>5. SumFunctionOnSet(f, S \ {a}) \in Int
  BY <1>1, SumInt
<1> QED
  BY <1>1, <1>2, <1>3, <1>4, <1>5

\* Nothing but zeros.
LEMMA SumZero ==
    ASSUME NEW f, NEW S, IsFiniteSet(S), \A x \in S : f[x] = 0
    PROVE  SumFunctionOnSet(f, S) = 0
<1> DEFINE Bad == {T \in SUBSET S : SumFunctionOnSet(f, T) # 0}
<1>1. SUFFICES ASSUME Bad # {} PROVE FALSE
  OBVIOUS
<1>2. Bad \in SUBSET (SUBSET S)
  OBVIOUS
<1> HIDE DEF Bad
<1>3. PICK T \in Bad : \A U \in Bad : U \subseteq T => U = T
  BY <1>1, <1>2, SmallestSubset
<1>4. T \in SUBSET S /\ SumFunctionOnSet(f, T) # 0
  BY DEF Bad
<1>5. T # {} /\ IsFiniteSet(T)
  BY <1>4, SumEmpty, FS_Subset
<1>6. Pick(T) \in T
  BY <1>5, PickIn
<1>7. SumFunctionOnSet(f, T \ {Pick(T)}) = 0
  BY <1>3, <1>4, <1>6 DEF Bad
<1>8. f[Pick(T)] = 0
  BY <1>4, <1>6
<1> QED
  BY <1>4, <1>5, <1>7, <1>8, SumPick

\* A sum of amounts is an amount.
LEMMA SumNat ==
    ASSUME NEW f, NEW S, IsFiniteSet(S), \A x \in S : f[x] \in Nat
    PROVE  SumFunctionOnSet(f, S) \in Nat
<1> DEFINE Bad == {T \in SUBSET S : SumFunctionOnSet(f, T) \notin Nat}
<1>1. SUFFICES ASSUME Bad # {} PROVE FALSE
  OBVIOUS
<1>2. Bad \in SUBSET (SUBSET S)
  OBVIOUS
<1> HIDE DEF Bad
<1>3. PICK T \in Bad : \A U \in Bad : U \subseteq T => U = T
  BY <1>1, <1>2, SmallestSubset
<1>4. T \in SUBSET S /\ SumFunctionOnSet(f, T) \notin Nat
  BY DEF Bad
<1>5. T # {} /\ IsFiniteSet(T)
  <2>1. SumFunctionOnSet(f, {}) \in Nat
    BY SumEmpty
  <2> QED
    BY <1>4, <2>1, FS_Subset
<1>6. Pick(T) \in T
  BY <1>5, PickIn
<1>7. SumFunctionOnSet(f, T \ {Pick(T)}) \in Nat
  BY <1>3, <1>4, <1>6 DEF Bad
<1> QED
  BY <1>4, <1>5, <1>6, <1>7, SumPick

\* One of several amounts is at most their sum.
LEMMA SumAtLeast ==
    ASSUME NEW f, NEW S, IsFiniteSet(S), \A x \in S : f[x] \in Nat, NEW a \in S
    PROVE  f[a] <= SumFunctionOnSet(f, S)
<1>1. IsFiniteSet(S \ {a}) /\ \A x \in S \ {a} : f[x] \in Nat
  BY FS_Subset
<1>2. SumFunctionOnSet(f, S \ {a}) \in Nat
  BY <1>1, SumNat
<1>3. SumFunctionOnSet(f, S) = f[a] + SumFunctionOnSet(f, S \ {a})
  BY SumRemove
<1> QED
  BY <1>2, <1>3

\* A sum over part of a set is the sum over the set of the values there and zeros elsewhere.
LEMMA SumPart ==
    ASSUME NEW f, NEW g, NEW S, IsFiniteSet(S), NEW P \in SUBSET S, \A x \in P : f[x] \in Int,
           \A x \in P : g[x] = f[x], \A x \in S \ P : g[x] = 0
    PROVE  SumFunctionOnSet(f, P) = SumFunctionOnSet(g, S)
<1> DEFINE Bad == {T \in SUBSET S : SumFunctionOnSet(f, T \cap P) # SumFunctionOnSet(g, T)}
<1>1. SUFFICES ASSUME Bad # {} PROVE FALSE
  <2>1. S \cap P = P /\ (S \in Bad \/ SumFunctionOnSet(f, S \cap P) = SumFunctionOnSet(g, S))
    OBVIOUS
  <2> QED
    BY <2>1
<1>2. Bad \in SUBSET (SUBSET S)
  OBVIOUS
<1> HIDE DEF Bad
<1>3. PICK T \in Bad : \A U \in Bad : U \subseteq T => U = T
  BY <1>1, <1>2, SmallestSubset
<1>4. T \in SUBSET S /\ SumFunctionOnSet(f, T \cap P) # SumFunctionOnSet(g, T)
  BY DEF Bad
<1>5. T # {} /\ IsFiniteSet(T) /\ IsFiniteSet(T \cap P)
  <2>1. SumFunctionOnSet(f, {}) = SumFunctionOnSet(g, {})
    BY SumEmpty
  <2>2. T # {}
    BY <1>4, <2>1
  <2>3. T \cap P \in SUBSET S
    BY <1>4
  <2> QED
    BY <1>4, <2>2, <2>3, FS_Subset
<1> DEFINE c == Pick(T)  U == T \ {c}
<1>6. c \in T
  BY <1>5, PickIn
<1>7. SumFunctionOnSet(f, U \cap P) = SumFunctionOnSet(g, U)
  BY <1>3, <1>4, <1>6 DEF Bad
<1>8. SumFunctionOnSet(g, T) = g[c] + SumFunctionOnSet(g, U)
  BY <1>5, SumPick
<1> HIDE DEF c
<1>9. CASE c \in P
  <2>1. U \cap P = (T \cap P) \ {c} /\ c \in T \cap P
    BY <1>6, <1>9
  <2>2. SumFunctionOnSet(f, T \cap P) = f[c] + SumFunctionOnSet(f, (T \cap P) \ {c})
    BY <1>5, <2>1, SumRemove
  <2> QED
    BY <1>4, <1>7, <1>8, <1>9, <2>1, <2>2
<1>10. CASE c \notin P
  <2>1. U \cap P = T \cap P /\ g[c] = 0
    BY <1>4, <1>6, <1>10
  <2>2. IsFiniteSet(U \cap P) /\ \A x \in U \cap P : f[x] \in Int
    BY <1>5, <2>1
  <2>3. SumFunctionOnSet(f, U \cap P) \in Int
    BY <2>2, SumInt
  <2>4. SumFunctionOnSet(f, T \cap P) = SumFunctionOnSet(g, U) /\ SumFunctionOnSet(g, U) \in Int
    BY <1>7, <2>1, <2>3
  <2>5. SumFunctionOnSet(g, T) = SumFunctionOnSet(g, U)
    BY <1>8, <2>1, <2>4
  <2> QED
    BY <1>4, <2>4, <2>5
<1> QED
  BY <1>9, <1>10

\* Terms that correspond one to one add up to the same.
LEMMA SumMatched ==
    ASSUME NEW S, NEW T, NEW b \in Bijection(S, T), IsFiniteSet(S), NEW f, NEW g,
           \A x \in S : f[x] \in Int /\ g[b[x]] = f[x]
    PROVE  SumFunctionOnSet(f, S) = SumFunctionOnSet(g, T)
<1> DEFINE image(U) == {b[x] : x \in U}
           Bad == {U \in SUBSET S : SumFunctionOnSet(f, U) # SumFunctionOnSet(g, image(U))}
<1>1. b \in [S -> T] /\ (\A x, y \in S : b[x] = b[y] => x = y) /\ (\A t \in T : \E x \in S : b[x] = t)
  BY DEF Bijection, Injection, IsInjective, Surjection
<1>2. image(S) = T
  BY <1>1
<1>3. SUFFICES ASSUME Bad # {} PROVE FALSE
  BY <1>2
<1>4. Bad \in SUBSET (SUBSET S)
  OBVIOUS
<1> HIDE DEF Bad
<1>5. PICK U \in Bad : \A V \in Bad : V \subseteq U => V = U
  BY <1>3, <1>4, SmallestSubset
<1>6. U \in SUBSET S /\ SumFunctionOnSet(f, U) # SumFunctionOnSet(g, image(U))
  BY DEF Bad
<1>7. U # {}
  <2>1. image({}) = {}
    OBVIOUS
  <2>2. SumFunctionOnSet(f, {}) = SumFunctionOnSet(g, {})
    BY SumEmpty
  <2> QED
    BY <1>6, <2>1, <2>2
<1>8. PICK a \in U : TRUE
  BY <1>7
<1>9. image(U \ {a}) = image(U) \ {b[a]} /\ b[a] \in image(U)
  BY <1>1, <1>6, <1>8
<1>10. SumFunctionOnSet(f, U \ {a}) = SumFunctionOnSet(g, image(U \ {a}))
  BY <1>5, <1>6, <1>8 DEF Bad
<1>11. IsFiniteSet(U) /\ IsFiniteSet(image(U)) /\ \A y \in image(U) : g[y] \in Int
  <2>1. IsFiniteSet(U)
    BY <1>6, FS_Subset
  <2>2. [x \in U |-> b[x]] \in Surjection(U, image(U))
    BY <1>6 DEF Surjection
  <2>3. IsFiniteSet(image(U))
    BY <2>1, <2>2, FS_Surjection
  <2> QED
    BY <1>6, <2>1, <2>3
<1>12. SumFunctionOnSet(f, U) = f[a] + SumFunctionOnSet(f, U \ {a})
  BY <1>6, <1>8, <1>11, SumRemove
<1> DEFINE I == image(U)
<1> HIDE DEF image
<1>13. SumFunctionOnSet(g, I) = g[b[a]] + SumFunctionOnSet(g, I \ {b[a]})
  BY <1>9, <1>11, SumRemove
<1>14. g[b[a]] = f[a]
  BY <1>6, <1>8
<1> QED
  BY <1>6, <1>9, <1>10, <1>12, <1>13, <1>14

\* Leaving out terms that are natural numbers does not make a sum larger.
LEMMA SumMonotone ==
    ASSUME NEW f, NEW S, IsFiniteSet(S), \A x \in S : f[x] \in Nat, NEW P \in SUBSET S
    PROVE  SumFunctionOnSet(f, P) <= SumFunctionOnSet(f, S)
<1> DEFINE rest == [x \in S |-> IF x \in P THEN f[x] ELSE 0]
           Bad == {U \in SUBSET S : SumFunctionOnSet(rest, U) > SumFunctionOnSet(f, U)}
<1>1. SumFunctionOnSet(f, P) = SumFunctionOnSet(rest, S)
  BY SumPart
<1>2. SUFFICES ASSUME Bad # {} PROVE FALSE
  <2>1. SumFunctionOnSet(f, S) \in Nat
    BY SumNat
  <2>2. \A x \in S : rest[x] \in Nat
    OBVIOUS
  <2> HIDE DEF rest
  <2>3. SumFunctionOnSet(rest, S) \in Nat
    BY <2>2, SumNat
  <2>4. S \in Bad \/ SumFunctionOnSet(rest, S) <= SumFunctionOnSet(f, S)
    BY <2>1, <2>3
  <2> QED
    BY <1>1, <2>4
<1>3. Bad \in SUBSET (SUBSET S)
  OBVIOUS
<1>4. \A x \in S : rest[x] \in Nat /\ rest[x] <= f[x]
  OBVIOUS
<1> HIDE DEF Bad, rest
<1>5. PICK U \in Bad : \A V \in Bad : V \subseteq U => V = U
  BY <1>2, <1>3, SmallestSubset
<1>6. U \in SUBSET S /\ SumFunctionOnSet(rest, U) > SumFunctionOnSet(f, U)
  BY <1>5 DEF Bad
<1>7. U # {}
  <2>1. SumFunctionOnSet(rest, {}) = 0 /\ SumFunctionOnSet(f, {}) = 0
    BY SumEmpty
  <2> QED
    BY <1>6, <2>1
<1>8. PICK a \in U : TRUE
  BY <1>7
<1>9. IsFiniteSet(U) /\ IsFiniteSet(U \ {a})
  BY <1>6, FS_Subset
<1>10. SumFunctionOnSet(f, U) = f[a] + SumFunctionOnSet(f, U \ {a})
  BY <1>6, <1>8, <1>9, SumRemove
<1>11. SumFunctionOnSet(rest, U) = rest[a] + SumFunctionOnSet(rest, U \ {a})
  BY <1>4, <1>6, <1>8, <1>9, SumRemove
<1>12. SumFunctionOnSet(f, U \ {a}) \in Nat /\ SumFunctionOnSet(rest, U \ {a}) \in Nat
  BY <1>4, <1>6, <1>9, SumNat
<1>13. ~ (SumFunctionOnSet(rest, U \ {a}) > SumFunctionOnSet(f, U \ {a}))
  BY <1>5, <1>6, <1>8 DEF Bad
<1>14. rest[a] \in Nat /\ f[a] \in Nat /\ rest[a] <= f[a]
  BY <1>4, <1>6, <1>8
<1> QED
  BY <1>6, <1>10, <1>11, <1>12, <1>13, <1>14

\* If all terms are positive, only the whole set adds up to its sum.
LEMMA SumWhole ==
    ASSUME NEW f, NEW S, IsFiniteSet(S), \A x \in S : f[x] \in Nat \ {0}, NEW P \in SUBSET S,
           SumFunctionOnSet(f, P) = SumFunctionOnSet(f, S)
    PROVE  P = S
<1> SUFFICES ASSUME NEW a \in S, a \notin P PROVE FALSE
  OBVIOUS
<1>1. IsFiniteSet(S \ {a}) /\ P \in SUBSET (S \ {a})
  BY FS_Subset
<1>2. SumFunctionOnSet(f, P) <= SumFunctionOnSet(f, S \ {a}) /\ SumFunctionOnSet(f, S \ {a}) \in Nat
  BY <1>1, SumMonotone, SumNat
<1>3. SumFunctionOnSet(f, S) = f[a] + SumFunctionOnSet(f, S \ {a})
  BY SumRemove
<1>4. f[a] \in Nat \ {0} /\ SumFunctionOnSet(f, P) \in Nat
  <2>1. IsFiniteSet(P)
    BY FS_Subset
  <2> QED
    BY <2>1, SumNat
<1> QED
  BY <1>2, <1>3, <1>4

------------------------------------------------------------------------------
(* Two functions, two sets, pairs.                                          *)

\* A family of subsets with the empty set that is closed under adding an element has the whole set.
LEMMA SetInduction ==
    ASSUME NEW S, IsFiniteSet(S), NEW F, {} \in F,
           \A T \in SUBSET S : \A a \in S \ T : T \in F => T \cup {a} \in F
    PROVE  S \in F
<1> DEFINE Bad == {T \in SUBSET S : T \notin F}
<1>1. SUFFICES ASSUME Bad # {} PROVE FALSE
  OBVIOUS
<1>2. Bad \in SUBSET (SUBSET S)
  OBVIOUS
<1> HIDE DEF Bad
<1>3. PICK T \in Bad : \A U \in Bad : U \subseteq T => U = T
  BY <1>1, <1>2, SmallestSubset
<1> USE DEF Bad
<1>4. PICK a \in T : TRUE
  OBVIOUS
<1>5. T \ {a} \in F
  BY <1>3, <1>4
<1>6. (T \ {a}) \cup {a} = T /\ T \ {a} \in SUBSET S /\ a \in S \ (T \ {a})
  BY <1>4
<1> QED
  BY <1>5, <1>6

\* The sum of a sum.
LEMMA SumPlus ==
    ASSUME NEW f, NEW g, NEW h, NEW S, IsFiniteSet(S),
           \A x \in S : f[x] \in Int /\ g[x] \in Int /\ h[x] = f[x] + g[x]
    PROVE  SumFunctionOnSet(h, S) = SumFunctionOnSet(f, S) + SumFunctionOnSet(g, S)
<1> DEFINE F == {T \in SUBSET S : SumFunctionOnSet(h, T) = SumFunctionOnSet(f, T) + SumFunctionOnSet(g, T)}
<1>1. {} \in F
  BY SumEmpty
<1>2. ASSUME NEW T \in SUBSET S, NEW a \in S \ T, T \in F PROVE T \cup {a} \in F
  <2>1. IsFiniteSet(T) /\ \A x \in T \cup {a} : f[x] \in Int /\ g[x] \in Int /\ h[x] \in Int
    BY FS_Subset
  <2>2. /\ SumFunctionOnSet(f, T \cup {a}) = f[a] + SumFunctionOnSet(f, T)
        /\ SumFunctionOnSet(g, T \cup {a}) = g[a] + SumFunctionOnSet(g, T)
        /\ SumFunctionOnSet(h, T \cup {a}) = h[a] + SumFunctionOnSet(h, T)
    BY <2>1, SumAdd
  <2>3. SumFunctionOnSet(f, T) \in Int /\ SumFunctionOnSet(g, T) \in Int
    BY <2>1, SumInt
  <2>4. SumFunctionOnSet(h, T) = SumFunctionOnSet(f, T) + SumFunctionOnSet(g, T)
    BY <1>2
  <2>5. h[a] = f[a] + g[a] /\ f[a] \in Int /\ g[a] \in Int
    OBVIOUS
  <2> QED
    BY <2>2, <2>3, <2>4, <2>5
<1> HIDE DEF F
<1>3. S \in F
  BY <1>1, <1>2, SetInduction
<1> QED
  BY <1>3 DEF F

\* The sum of equal values.
LEMMA SumConstant ==
    ASSUME NEW f, NEW S, IsFiniteSet(S), NEW c \in Int, \A x \in S : f[x] = c
    PROVE  SumFunctionOnSet(f, S) = c * Cardinality(S)
<1> DEFINE F == {T \in SUBSET S : SumFunctionOnSet(f, T) = c * Cardinality(T)}
<1>1. {} \in F
  BY SumEmpty, FS_EmptySet
<1>2. ASSUME NEW T \in SUBSET S, NEW a \in S \ T, T \in F PROVE T \cup {a} \in F
  <2>1. IsFiniteSet(T) /\ Cardinality(T) \in Nat
    BY FS_Subset, FS_CardinalityType
  <2>2. SumFunctionOnSet(f, T \cup {a}) = c + SumFunctionOnSet(f, T)
    BY <2>1, SumAdd
  <2>3. Cardinality(T \cup {a}) = Cardinality(T) + 1
    BY <2>1, FS_AddElement
  <2> DEFINE n == Cardinality(T)
  <2>4. SumFunctionOnSet(f, T) = c * n /\ n \in Nat
    BY <1>2, <2>1
  <2> HIDE DEF n
  <2>5. c + c * n = c * (n + 1)
    BY <2>4
  <2> QED
    BY <2>2, <2>3, <2>4, <2>5 DEF n
<1> HIDE DEF F
<1>3. S \in F
  BY <1>1, <1>2, SetInduction
<1> QED
  BY <1>3 DEF F

\* A sum of smaller values is smaller, strictly if one of them is.
LEMMA SumBelow ==
    ASSUME NEW f, NEW g, NEW S, IsFiniteSet(S), \A x \in S : f[x] \in Int /\ g[x] \in Int /\ f[x] <= g[x]
    PROVE  /\ SumFunctionOnSet(f, S) <= SumFunctionOnSet(g, S)
           /\ (\E x \in S : f[x] < g[x]) => SumFunctionOnSet(f, S) < SumFunctionOnSet(g, S)
<1> DEFINE h == [x \in S |-> g[x] - f[x]]
<1>1. \A x \in S : h[x] \in Nat /\ g[x] = f[x] + h[x]
  OBVIOUS
<1>2. SumFunctionOnSet(g, S) = SumFunctionOnSet(f, S) + SumFunctionOnSet(h, S)
  BY <1>1, SumPlus
<1> HIDE DEF h
<1>3. SumFunctionOnSet(h, S) \in Nat /\ SumFunctionOnSet(f, S) \in Int
  BY <1>1, SumNat, SumInt
<1>4. ASSUME NEW x \in S, f[x] < g[x] PROVE SumFunctionOnSet(h, S) >= 1
  <2>1. h[x] <= SumFunctionOnSet(h, S) /\ h[x] \in Nat
    BY <1>1, SumAtLeast
  <2> QED
    BY <1>1, <1>3, <1>4, <2>1
<1> QED
  BY <1>2, <1>3, <1>4

\* The sum over the pairs that i begins.
RowSum(f, i, T) == SumFunctionOnSet([j \in T |-> f[<<i, j>>]], T)

\* The sum over pairs is the sum of the sums.
LEMMA SumPairs ==
    ASSUME NEW S, NEW T, IsFiniteSet(S), IsFiniteSet(T), NEW f, NEW g,
           \A a \in S : \A b \in T : f[<<a, b>>] \in Int,
           \A a \in S : g[a] = RowSum(f, a, T)
    PROVE  SumFunctionOnSet(f, S \X T) = SumFunctionOnSet(g, S)
<1> DEFINE F == {U \in SUBSET S : SumFunctionOnSet(f, U \X T) = SumFunctionOnSet(g, U)}
<1>0. \A a \in S : g[a] \in Int
  <2>1. ASSUME NEW a \in S PROVE g[a] \in Int
    <3> DEFINE r == [b \in T |-> f[<<a, b>>]]
    <3>1. (\A b \in T : r[b] \in Int) /\ g[a] = SumFunctionOnSet(r, T)
      BY DEF RowSum
    <3> HIDE DEF r
    <3> QED
      BY <3>1, SumInt
  <2> QED
    BY <2>1
<1>1. {} \in F
  <2>1. {} \X T = {}
    OBVIOUS
  <2> QED
    BY <2>1, SumEmpty
<1>2. ASSUME NEW U \in SUBSET S, NEW a \in S \ U, U \in F PROVE U \cup {a} \in F
  <2> DEFINE V == (U \cup {a}) \X T
             P == U \X T
             R == {a} \X T
             f0 == [x \in V |-> IF x \in P THEN f[x] ELSE 0]
             f1 == [x \in V |-> IF x \in R THEN f[x] ELSE 0]
             ga == [b \in T |-> f[<<a, b>>]]
             m == [b \in T |-> <<a, b>>]
  <2>1. IsFiniteSet(U) /\ IsFiniteSet({a}) /\ IsFiniteSet(U \cup {a})
    BY FS_Subset, FS_Singleton, FS_AddElement
  <2>2. IsFiniteSet(V) /\ IsFiniteSet(P) /\ IsFiniteSet(R)
    BY <2>1, FS_Product
  <2>3. P \in SUBSET V /\ R \in SUBSET V /\ V = P \cup R /\ P \cap R = {}
    OBVIOUS
  <2>4. \A x \in V : f[x] \in Int
    OBVIOUS
  <2>5. SumFunctionOnSet(f, V) = SumFunctionOnSet(f0, V) + SumFunctionOnSet(f1, V)
    <3>1. \A x \in V : f0[x] \in Int /\ f1[x] \in Int /\ f[x] = f0[x] + f1[x]
      <4> HIDE DEF V, P, R
      <4> QED
        BY <2>3, <2>4
    <3> HIDE DEF f0, f1, V
    <3> QED
      BY <2>2, <3>1, SumPlus
  <2>6. SumFunctionOnSet(f, P) = SumFunctionOnSet(f0, V)
    <3>1. /\ \A x \in P : f[x] \in Int /\ f0[x] = f[x]
          /\ \A x \in V \ P : f0[x] = 0
      <4> HIDE DEF V, P, R
      <4> QED
        BY <2>3, <2>4
    <3> HIDE DEF f0, V, P
    <3> QED
      BY <2>2, <2>3, <3>1, SumPart
  <2>7. SumFunctionOnSet(f, R) = SumFunctionOnSet(f1, V)
    <3>1. /\ \A x \in R : f[x] \in Int /\ f1[x] = f[x]
          /\ \A x \in V \ R : f1[x] = 0
      <4> HIDE DEF V, P, R
      <4> QED
        BY <2>3, <2>4
    <3> HIDE DEF f1, V, R
    <3> QED
      BY <2>2, <2>3, <3>1, SumPart
  <2>8. m \in Bijection(T, R)
    <3>1. m \in [T -> R]
      OBVIOUS
    <3>2. \A b, c \in T : m[b] = m[c] => b = c
      OBVIOUS
    <3>3. \A y \in R : \E b \in T : m[b] = y
      OBVIOUS
    <3> HIDE DEF m, R
    <3> QED
      BY <3>1, <3>2, <3>3 DEF Bijection, Injection, Surjection, IsInjective
  <2>9. SumFunctionOnSet(ga, T) = SumFunctionOnSet(f, R)
    <3>1. \A b \in T : ga[b] \in Int /\ f[m[b]] = ga[b]
      OBVIOUS
    <3> HIDE DEF ga, m, R
    <3> QED
      BY <2>8, <3>1, SumMatched
  <2>10. SumFunctionOnSet(g, U \cup {a}) = g[a] + SumFunctionOnSet(g, U)
    BY <2>1, <1>0, SumAdd
  <2>11. g[a] = SumFunctionOnSet(ga, T)
    BY DEF RowSum
  <2>12. SumFunctionOnSet(f, P) = SumFunctionOnSet(g, U)
    BY <1>2
  <2>13. SumFunctionOnSet(f, P) \in Int /\ SumFunctionOnSet(f, R) \in Int
    BY <2>2, <2>3, <2>4, SumInt
  <2> HIDE DEF V, P, R, f0, f1, ga
  <2>14. SumFunctionOnSet(f, V) = SumFunctionOnSet(g, U \cup {a})
    BY <2>5, <2>6, <2>7, <2>9, <2>10, <2>11, <2>12, <2>13
  <2> QED
    BY <2>14 DEF V
<1> HIDE DEF F
<1>3. S \in F
  BY <1>1, <1>2, SetInduction
<1> QED
  BY <1>3 DEF F

\* Counting is summing ones.
LEMMA SumCounts ==
    ASSUME NEW S, IsFiniteSet(S), NEW P \in SUBSET S, NEW f, \A x \in P : f[x] = 1, \A x \in S \ P : f[x] = 0
    PROVE  SumFunctionOnSet(f, S) = Cardinality(P)
<1>1. IsFiniteSet(P) /\ Cardinality(P) \in Nat
  BY FS_Subset, FS_CardinalityType
<1>2. SumFunctionOnSet(f, P) = 1 * Cardinality(P)
  BY <1>1, SumConstant
<1>3. SumFunctionOnSet(f, P) = SumFunctionOnSet(f, S)
  BY SumPart
<1> QED
  BY <1>1, <1>2, <1>3

\* A finite set has a member with the least key and one with the greatest.
LEMMA Extremes ==
    ASSUME NEW S, IsFiniteSet(S), S # {}, NEW f, \A x \in S : f[x] \in Int
    PROVE  /\ \E m \in S : \A x \in S : f[m] <= f[x]
           /\ \E m \in S : \A x \in S : f[x] <= f[m]
<1> DEFINE F == {T \in SUBSET S : T # {} => /\ \E m \in T : \A x \in T : f[m] <= f[x]
                                            /\ \E m \in T : \A x \in T : f[x] <= f[m]}
<1>1. {} \in F
  OBVIOUS
<1>2. ASSUME NEW T \in SUBSET S, NEW a \in S \ T, T \in F PROVE T \cup {a} \in F
  <2>1. CASE T = {}
    <3>1. \A x \in {a} : f[a] <= f[x] /\ f[x] <= f[a]
      OBVIOUS
    <3> QED
      BY <2>1, <3>1
  <2>2. CASE T # {}
    <3>1. PICK m \in T : \A x \in T : f[m] <= f[x]
      BY <1>2, <2>2
    <3>2. PICK n \in T : \A x \in T : f[x] <= f[n]
      BY <1>2, <2>2
    <3>3. f[a] \in Int /\ f[m] \in Int /\ f[n] \in Int /\ \A x \in T : f[x] \in Int
      OBVIOUS
    <3>4. \E k \in T \cup {a} : \A x \in T \cup {a} : f[k] <= f[x]
      <4>1. CASE f[m] <= f[a]
        BY <4>1, <3>1, <3>3
      <4>2. CASE f[a] <= f[m]
        BY <4>2, <3>1, <3>3
      <4> QED
        BY <4>1, <4>2, <3>3
    <3>5. \E k \in T \cup {a} : \A x \in T \cup {a} : f[x] <= f[k]
      <4>1. CASE f[a] <= f[n]
        BY <4>1, <3>2, <3>3
      <4>2. CASE f[n] <= f[a]
        BY <4>2, <3>2, <3>3
      <4> QED
        BY <4>1, <4>2, <3>3
    <3> QED
      BY <3>4, <3>5
  <2> QED
    BY <2>1, <2>2
<1> HIDE DEF F
<1>3. S \in F
  BY <1>1, <1>2, SetInduction
<1> QED
  BY <1>3 DEF F

\* The sum over two sets without common elements.
LEMMA SumSplit ==
    ASSUME NEW f, NEW P, NEW Q, IsFiniteSet(P), IsFiniteSet(Q), P \cap Q = {}, \A x \in P \cup Q : f[x] \in Int
    PROVE  SumFunctionOnSet(f, P \cup Q) = SumFunctionOnSet(f, P) + SumFunctionOnSet(f, Q)
<1> DEFINE S == P \cup Q
           p == [x \in S |-> IF x \in P THEN f[x] ELSE 0]
           q == [x \in S |-> IF x \in Q THEN f[x] ELSE 0]
<1>1. IsFiniteSet(S)
  BY FS_Union
<1>2. \A x \in S : p[x] \in Int /\ q[x] \in Int /\ f[x] = p[x] + q[x]
  OBVIOUS
<1>3. P \in SUBSET S /\ \A x \in P : f[x] \in Int /\ p[x] = f[x]
  OBVIOUS
<1>4. Q \in SUBSET S /\ \A x \in Q : f[x] \in Int /\ q[x] = f[x]
  OBVIOUS
<1>5. (\A x \in S \ P : p[x] = 0) /\ (\A x \in S \ Q : q[x] = 0)
  OBVIOUS
<1> HIDE DEF S, p, q
<1>6. SumFunctionOnSet(f, S) = SumFunctionOnSet(p, S) + SumFunctionOnSet(q, S)
  BY <1>1, <1>2, SumPlus
<1>7. SumFunctionOnSet(f, P) = SumFunctionOnSet(p, S)
  BY <1>1, <1>3, <1>5, SumPart
<1>8. SumFunctionOnSet(f, Q) = SumFunctionOnSet(q, S)
  BY <1>1, <1>4, <1>5, SumPart
<1> QED
  BY <1>6, <1>7, <1>8 DEF S

\* Sums of the same values are the same.
LEMMA SumEqual ==
    ASSUME NEW S, IsFiniteSet(S), NEW f, NEW g, \A x \in S : f[x] \in Int /\ g[x] = f[x]
    PROVE  SumFunctionOnSet(f, S) = SumFunctionOnSet(g, S)
  BY SumPart
==============================================================================
