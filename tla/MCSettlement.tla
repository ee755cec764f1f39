---------------------------- MODULE MCSettlement ----------------------------
(***************************************************************************)
(* TLC instances of SettlementGate.  The validators that check are         *)
(* interchangeable, and so are the nonces, in the runs of safety only.     *)
(***************************************************************************)
EXTENDS SettlementGate, TLC

HonestSymmetry == Permutations(Validators \ Byzantine)

OneWallet == CHOOSE w \in Wallets : TRUE

\* Money moves between wallets at one moment, or stakes come and go in time while requests of
\* one wallet to itself are blocked, refused or executed.
OneKindOfMoney ==
    \/ /\ now = 0
       /\ \A o \in Operators : Slashable(o) <= baseSlash /\ operators[o].pendingWithdrawal = 0
       /\ \A i \in Nonces : bundles[i] # NoBundle => bundles[i].request.amount > 0
    \/ /\ \A w \in Wallets : minted[w] = 0 /\ (mandate[w] # {} => w = OneWallet)
       /\ \A i \in Nonces : bundles[i] # NoBundle =>
             /\ bundles[i].request.amount = 0
             /\ {bundles[i].request.from, bundles[i].request.to} = {OneWallet}
============================================================================
