------------------------------ MODULE PrefixTree ------------------------------
(***************************************************************************)
(* The Merkle tree of h1-zkopml-v2/chain.py over the nodes (i, leaf_i, P_i) *)
(* of a trace, padded to a power of two with its last node.  A hash is the *)
(* tuple of what was hashed: 96 bytes for a node, 64 for a pair.           *)
(***************************************************************************)
EXTENDS Integers, FiniteSets

Pow2[e \in Nat] == IF e = 0 THEN 1 ELSE 2 * Pow2[e - 1]

\* How often size = 1 doubles until m nodes fit.
CeilLog2(m) == CHOOSE e \in 0 .. m : Pow2[e] >= m /\ \A f \in 0 .. e - 1 : Pow2[f] < m

Depth(trace) == CeilLog2(Cardinality(DOMAIN trace))

Node(i, leaf, prefix) == <<i, leaf, prefix>>

\* trace[i] is [leaf, prefix], i from 0.
merkle_levels(trace) ==
    LET n == Cardinality(DOMAIN trace)
        d == Depth(trace)
        levels[e \in 0 .. d] ==
            [j \in 0 .. Pow2[d - e] - 1 |->
                IF e = 0 THEN LET i == IF j < n THEN j ELSE n - 1
                              IN Node(i, trace[i].leaf, trace[i].prefix)
                ELSE <<levels[e - 1][2 * j], levels[e - 1][2 * j + 1]>>]
    IN levels

merkle_root(trace) == merkle_levels(trace)[Depth(trace)][0]

\* i ^ 1
Sibling(i) == IF i % 2 = 0 THEN i + 1 ELSE i - 1

\* A proof names its hashes from the leaf up, from 0.
merkle_proof(trace, i) ==
    LET levels == merkle_levels(trace)
    IN [e \in 0 .. Depth(trace) - 1 |-> levels[e][Sibling(i \div Pow2[e])]]

verify_opening(root, i, leaf, prefix, proof) ==
    LET h[e \in 0 .. Cardinality(DOMAIN proof)] ==
            IF e = 0 THEN Node(i, leaf, prefix)
            ELSE IF (i \div Pow2[e - 1]) % 2 = 0 THEN <<h[e - 1], proof[e - 1]>> ELSE <<proof[e - 1], h[e - 1]>>
    IN h[Cardinality(DOMAIN proof)] = root

\* Every opening of a trace verifies; an opening moved to another position, padding positions
\* and indexes beyond the tree included, or with a leaf, a prefix or a path of another, does not.
OpeningsBind(trace) ==
    LET root  == merkle_root(trace)
        proof == [i \in DOMAIN trace |-> merkle_proof(trace, i)]
    IN \A at \in 0 .. 2 * Pow2[Depth(trace)], i, j, l \in DOMAIN trace :
          verify_opening(root, at, trace[i].leaf, trace[j].prefix, proof[l])
              <=> /\ at \in DOMAIN trace /\ proof[l] = proof[at]
                  /\ trace[i].leaf = trace[at].leaf /\ trace[j].prefix = trace[at].prefix
==============================================================================
