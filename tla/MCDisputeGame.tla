--------------------------- MODULE MCDisputeGame ---------------------------
(***************************************************************************)
(* The bisection game in two scopes of one instance: one dispute about any *)
(* trace whatever, and, about few traces, the dispute of an honest watcher *)
(* beside the one of an accomplice of the asserter.                        *)
(***************************************************************************)
EXTENDS MCDispute

CONSTANT Accomplices   \* challengers that only play about the flat traces

\* The same leaf throughout, chained.
MCFlatTraces == {[i \in Steps |-> [leaf |-> v, prefix |-> [m \in 1 .. i + 1 |-> v]]] : v \in Leaf}

InScope ==
    \A id \in ClaimIds :
        (\E c \in Accomplices : disputes[id][c].phase # "None") =>
            claims[id].asserter \notin Honest /\ claims[id].root \in MCFlatTraces
==============================================================================
