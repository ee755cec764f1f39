------------------------------ MODULE MCOffline ------------------------------
(***************************************************************************)
(* TLC instances of OfflinePayments.                                       *)
(***************************************************************************)
EXTENDS OfflinePayments, TLC

PayeeSymmetry == Permutations(Payees)

\* Two payments of an honest device and one of a manipulated one where payees reconnect
\* together, or three of the manipulated device alone where they reconnect as they like.
FewPayments ==
    \/ /\ together
       /\ \A d \in Devices : counter[d] <= IF d \in Manipulated THEN 2 ELSE 3
    \/ \A d \in Devices \ Manipulated : counter[d] = 1
============================================================================
