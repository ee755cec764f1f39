------------------------ MODULE OfflinePayments_proofs ------------------------
(***************************************************************************)
(* Safety of OfflinePayments, for any number of devices, payees, amounts   *)
(* and attestations, and whoever reconnects when: types, the bound on what *)
(* a device settles, no payment settled or accepted twice, nothing settled *)
(* that its secure element did not attest (IInv); and, from what becomes   *)
(* of each accepted payment (FateInv), that overspending is flagged and    *)
(* that honest devices are paid out, but for payments whose proof another  *)
(* payment used up and for apps that pay before they have concluded.       *)
(***************************************************************************)
EXTENDS OfflinePayments, FiniteSetTheorems, SumLemmas, TLAPS

------------------------------------------------------------------------------
(* The inductive invariant.                                                  *)

\* What the secure element signs for b (binding).
Bind(b) == [proof |-> b.proof, payee |-> b.payee, amount |-> b.amount, cum |-> b.cum]

\* What of check_bundle does not depend on the time.
Sound(b) == b.amount <= b.cum /\ b.cum <= allowance /\ b.amount = b.proof.amount

MadeInv     == /\ \A b \in bundles : b.att = Bind(b)
               /\ \A b \in open : b.cum <= allowance
QueueInv    == \A p \in Payees : queue[p] \subseteq bundles
BatchInv    == \A b \in batch : b \in bundles /\ Sound(b)
\* A payee has seen the counter of all that it took.
LastInv     == \A p \in Payees : \A i \in DOMAIN accepted[p] :
                   accepted[p][i].counter <= last[p][accepted[p][i].dev]
\* The ledger remembers all that it settled, and its total is the greatest of them.
RememberInv == \A i \in DOMAIN settled :
                   /\ <<settled[i].dev, settled[i].counter>> \in seen
                   /\ settled[i].proof \in commitments
                   /\ settled[i].cum <= cum[settled[i].dev]

LedgerInv == RememberInv /\ SettledWithinAllowance /\ SettledOnce /\ SettledIsAttested
PayeeInv  == QueueInv /\ LastInv /\ AcceptedOnce

IInv == TypeOK /\ MadeInv /\ BatchInv /\ PayeeInv /\ LedgerInv

------------------------------------------------------------------------------
(* Lemmas about the operators.                                               *)

\* A counter below the bound can go up.
LEMMA CounterGoesUp ==
    ASSUME TypeOK, NEW d \in Devices, counter[d] < MaxCounter
    PROVE  counter[d] \in Counters /\ counter[d] + 1 \in Counters
<1>1. counter[d] \in 0 .. MaxCounter
  BY DEF TypeOK, Counters
<1>2. MaxCounter \in Nat
  BY OfflineAssumption
<1> QED
  BY <1>1, <1>2 DEF Counters

\* What a secure element certifies is a bundle that binds its own fields (SecureElement.certify).
LEMMA CertifiedIs ==
    ASSUME TypeOK, NEW d \in Devices, NEW p \in Payees, NEW amount \in Amounts, NEW sum \in Nat,
           NEW proof \in Proof, counter[d] < MaxCounter
    PROVE  LET b == Certified(d, proof, p, amount, sum)
           IN  b \in Bundle /\ b.att = Bind(b) /\ b.cum = sum
<1>1. counter[d] + 1 \in Counters
  BY CounterGoesUp
<1>2. [proof |-> proof, payee |-> p, amount |-> amount, cum |-> sum] \in Binding
  BY DEF Binding
<1> QED
  BY <1>1, <1>2 DEF Certified, Bundle, Bind

LEMMA FreshIs ==
    ASSUME TypeOK, NEW d \in Devices, NEW amount \in Amounts, NEW viol \in BOOLEAN,
           counter[d] < MaxCounter
    PROVE  FreshProof(d, amount, viol) \in Proof
<1>1. counter[d] + 1 \in Counters
  BY CounterGoesUp
<1> QED
  BY <1>1 DEF FreshProof, Proof, Draws

\* Whatever is changed on the way, only a bundle as it was made passes check_bundle.
LEMMA ShownIsMade ==
    ASSUME TypeOK, MadeInv, NEW made \in bundles, NEW q \in Payees, NEW v \in Amounts,
           Valid(Carried(made, q, v))
    PROVE  Carried(made, q, v) = made
<1> DEFINE b == Carried(made, q, v)
<1>1. made \in Bundle /\ made.att = Bind(made)
  BY DEF TypeOK, MadeInv
<1>2. b.att = made.att /\ b.payee = q /\ b.amount = v
  BY <1>1 DEF Bundle, Carried
<1>3. b.att = Bind(b)
  BY DEF Valid, Bind
<1>4. q = made.payee /\ v = made.amount
  BY <1>1, <1>2, <1>3 DEF Bind
<1> QED
  BY <1>1, <1>4 DEF Bundle, Carried

\* Appending to a sequence: the old entries stay, the new one is the last.
LEMMA Appended ==
    ASSUME NEW S, NEW s \in Seq(S), NEW e \in S
    PROVE  /\ Append(s, e) \in Seq(S)
           /\ \A i \in DOMAIN Append(s, e) :
                 \/ i \in DOMAIN s /\ i # Len(s) + 1 /\ Append(s, e)[i] = s[i]
                 \/ i = Len(s) + 1 /\ Append(s, e)[i] = e
           /\ \A i \in DOMAIN s : i < Len(s) + 1
  OBVIOUS

\* Taking a bundle keeps what a payee knows (Payee.receive).
LEMMA TakePreserves ==
    ASSUME IInv, NEW p \in Payees, NEW b \in Bundle, Acceptable(p, b), Take(p, b),
           bundles \subseteq bundles', b \in bundles'
    PROVE  /\ last' \in [Payees -> [Devices -> Counters]]
           /\ queue' \in [Payees -> SUBSET Bundle] /\ accepted' \in [Payees -> Seq(Bundle)]
           /\ PayeeInv'
<1>1. b.dev \in Devices /\ b.counter \in Counters /\ b.counter > last[p][b.dev]
  BY DEF Bundle, Acceptable
<1>2. /\ last \in [Payees -> [Devices -> Counters]]
      /\ queue \in [Payees -> SUBSET Bundle] /\ accepted \in [Payees -> Seq(Bundle)]
      /\ last' = [last EXCEPT ![p][b.dev] = b.counter]
      /\ queue' = [queue EXCEPT ![p] = @ \cup {b}]
      /\ accepted' = [accepted EXCEPT ![p] = Append(@, b)]
  BY DEF IInv, TypeOK, Take
<1>3. /\ accepted[p] \in Seq(Bundle) /\ accepted'[p] = Append(accepted[p], b)
      /\ \A o \in Payees : o # p => accepted'[o] = accepted[o] /\ last'[o] = last[o]
  BY <1>2
<1>4. last' \in [Payees -> [Devices -> Counters]] /\ queue' \in [Payees -> SUBSET Bundle]
  BY <1>1, <1>2
<1>5. accepted' \in [Payees -> Seq(Bundle)]
  BY <1>2, <1>3, Appended
<1>6. QueueInv'
  BY <1>2 DEF IInv, PayeeInv, QueueInv
<1>7. \A i \in DOMAIN accepted'[p] :
         \/ i \in DOMAIN accepted[p] /\ accepted'[p][i] = accepted[p][i]
         \/ i = Len(accepted[p]) + 1 /\ accepted'[p][i] = b
  BY <1>3, Appended
<1>8. \A i \in DOMAIN accepted[p] :
         /\ accepted[p][i] \in Bundle
         /\ accepted[p][i].dev \in Devices /\ accepted[p][i].counter \in Counters
         /\ accepted[p][i].counter <= last[p][accepted[p][i].dev]
  <2>1. \A i \in DOMAIN accepted[p] : accepted[p][i] \in Bundle
    BY <1>3
  <2>2. \A e \in Bundle : e.dev \in Devices /\ e.counter \in Counters
    BY DEF Bundle
  <2> QED
    BY <2>1, <2>2 DEF IInv, PayeeInv, LastInv
<1>9. LastInv'
  <2> SUFFICES ASSUME NEW o \in Payees, NEW i \in DOMAIN accepted'[o]
               PROVE  accepted'[o][i].counter <= last'[o][accepted'[o][i].dev]
    BY DEF LastInv
  <2>1. CASE o # p
    BY <1>3, <2>1 DEF IInv, PayeeInv, LastInv
  <2>2. CASE o = p /\ i \in DOMAIN accepted[p] /\ accepted'[p][i] = accepted[p][i]
    <3> DEFINE a == accepted[p][i]
    <3>1. a.dev \in Devices /\ a.counter \in Counters /\ a.counter <= last[p][a.dev]
      BY <1>8, <2>2
    <3>2. last[p][a.dev] \in Counters
      BY <1>2, <3>1
    <3>3. last'[p][a.dev] = IF a.dev = b.dev THEN b.counter ELSE last[p][a.dev]
      BY <1>1, <1>2, <3>1
    <3>4. a.counter <= last'[p][a.dev]
      BY <1>1, <3>1, <3>2, <3>3 DEF Counters
    <3> QED
      BY <2>2, <3>4
  <2>3. CASE o = p /\ accepted'[p][i] = b
    <3>1. last'[p][b.dev] = b.counter /\ b.counter \in Int
      BY <1>1, <1>2 DEF Counters
    <3> QED
      BY <2>3, <3>1
  <2> QED
    BY <1>7, <2>1, <2>2, <2>3
<1>10. AcceptedOnce'
  <2> SUFFICES ASSUME NEW o \in Payees, NEW i \in DOMAIN accepted'[o], NEW j \in DOMAIN accepted'[o],
                      i # j
               PROVE  \/ accepted'[o][i].dev # accepted'[o][j].dev
                      \/ accepted'[o][i].counter # accepted'[o][j].counter
    BY DEF AcceptedOnce
  <2>1. CASE o # p
    BY <1>3, <2>1 DEF IInv, PayeeInv, AcceptedOnce
  <2>2. ASSUME NEW k \in DOMAIN accepted[p], accepted[p][k].dev = b.dev
        PROVE  accepted[p][k].counter # b.counter
    BY <1>1, <1>2, <1>8, <2>2 DEF Counters
  <2>3. CASE o = p
    <3>1. \A k \in DOMAIN accepted[p], l \in DOMAIN accepted[p] : k # l =>
             \/ accepted[p][k].dev # accepted[p][l].dev
             \/ accepted[p][k].counter # accepted[p][l].counter
      BY DEF IInv, PayeeInv, AcceptedOnce
    <3> QED
      BY <1>7, <2>2, <2>3, <3>1
  <2> QED
    BY <2>1, <2>3
<1> QED
  BY <1>4, <1>5, <1>6, <1>9, <1>10 DEF PayeeInv

\* A bundle more breaks nothing.
LEMMA MadeOneMore ==
    ASSUME IInv, NEW b \in Bundle, b.att = Bind(b), bundles' = bundles \cup {b},
           open' = open \/ (open' = open \cup {b} /\ b.cum <= allowance), UNCHANGED ledger
    PROVE  bundles' \subseteq Bundle /\ open' \subseteq bundles' /\ MadeInv' /\ BatchInv' /\ LedgerInv'
<1>1. bundles' \subseteq Bundle /\ open' \subseteq bundles'
  BY DEF IInv, TypeOK
<1>2. MadeInv'
  BY DEF IInv, MadeInv, Bind
<1>3. BatchInv'
  BY DEF IInv, BatchInv, ledger, Sound
<1>4. SettledIsAttested'
  BY DEF IInv, LedgerInv, SettledIsAttested, ledger
<1>5. RememberInv' /\ SettledWithinAllowance' /\ SettledOnce'
  BY DEF IInv, LedgerInv, RememberInv, SettledWithinAllowance, SettledOnce, ledger
<1> QED
  BY <1>1, <1>2, <1>3, <1>4, <1>5 DEF LedgerInv

\* What depends on nothing but variables that stay as they are.
LEMMA PayeesUntouched ==
    ASSUME IInv, UNCHANGED payees, bundles \subseteq bundles'
    PROVE  PayeeInv'
BY DEF IInv, PayeeInv, QueueInv, LastInv, AcceptedOnce, payees

\* The ledger's memory is about the settled bundles only.
LEMMA LedgerUntouched ==
    ASSUME IInv, UNCHANGED <<cum, seen, commitments, settled>>, bundles' = bundles
    PROVE  LedgerInv'
<1>1. RememberInv'
  BY DEF IInv, LedgerInv, RememberInv
<1>2. SettledWithinAllowance' /\ SettledOnce' /\ SettledIsAttested'
  BY DEF IInv, LedgerInv, SettledWithinAllowance, SettledOnce, SettledIsAttested
<1> QED
  BY <1>1, <1>2 DEF LedgerInv

\* The settling branch of sync's loop: a sound bundle the ledger does not know and whose total
\* follows.
LEMMA SettlePreserves ==
    ASSUME IInv, NEW b \in bundles, Sound(b), ~ Known(b), Follows(b),
           seen' = seen \cup {<<b.dev, b.counter>>}, commitments' = commitments \cup {b.proof},
           cum' = [cum EXCEPT ![b.dev] = b.cum], settled' = Append(settled, b), bundles' = bundles
    PROVE  /\ cum' \in [Devices -> 0 .. allowance] /\ settled' \in Seq(Bundle)
           /\ seen' \subseteq Devices \X Counters /\ commitments' \subseteq Proof
           /\ LedgerInv'
<1>1. /\ b \in Bundle /\ b.dev \in Devices /\ b.counter \in Counters /\ b.proof \in Proof
      /\ b.cum \in Nat /\ b.amount \in Nat /\ allowance \in Nat
  BY OfflineAssumption DEF IInv, TypeOK, Bundle
<1>2. cum \in [Devices -> 0 .. allowance] /\ cum[b.dev] \in Nat /\ settled \in Seq(Bundle)
  BY <1>1 DEF IInv, TypeOK
<1>3. b.cum = cum[b.dev] + b.amount /\ b.cum <= allowance /\ b.amount = b.proof.amount
  BY DEF Follows, Sound
<1>4. cum' \in [Devices -> 0 .. allowance] /\ cum'[b.dev] = b.cum
  BY <1>1, <1>2, <1>3
<1>12. \A d \in Devices : cum[d] \in Nat /\ cum'[d] \in Nat /\ cum[d] <= cum'[d]
  <2>1. ASSUME NEW d \in Devices
        PROVE  cum[d] \in 0 .. allowance /\ cum'[d] \in 0 .. allowance
               /\ cum'[d] = IF d = b.dev THEN b.cum ELSE cum[d]
    BY <1>2, <1>4
  <2> QED
    BY <1>1, <1>2, <1>3, <2>1
<1>5. seen' \subseteq Devices \X Counters /\ commitments' \subseteq Proof
  BY <1>1 DEF IInv, TypeOK
<1>6. /\ settled' \in Seq(Bundle)
      /\ \A i \in DOMAIN settled' :
            \/ i \in DOMAIN settled /\ i # Len(settled) + 1 /\ settled'[i] = settled[i]
            \/ i = Len(settled) + 1 /\ settled'[i] = b
      /\ \A i \in DOMAIN settled : i < Len(settled) + 1
  BY <1>1, <1>2, Appended
<1>7. \A i \in DOMAIN settled :
         /\ settled[i].dev \in Devices /\ settled[i].cum \in Nat /\ settled[i].amount \in Nat
         /\ <<settled[i].dev, settled[i].counter>> \in seen
         /\ settled[i].proof \in commitments
         /\ settled[i].cum <= cum[settled[i].dev]
  <2>1. \A i \in DOMAIN settled : settled[i] \in Bundle
    BY <1>2
  <2>2. \A e \in Bundle : e.dev \in Devices /\ e.cum \in Nat /\ e.amount \in Nat
    BY OfflineAssumption DEF Bundle
  <2> QED
    BY <2>1, <2>2 DEF IInv, LedgerInv, RememberInv
<1>8. RememberInv'
  <2> SUFFICES ASSUME NEW i \in DOMAIN settled'
               PROVE  /\ <<settled'[i].dev, settled'[i].counter>> \in seen'
                      /\ settled'[i].proof \in commitments'
                      /\ settled'[i].cum <= cum'[settled'[i].dev]
    BY DEF RememberInv
  <2>1. CASE i \in DOMAIN settled /\ settled'[i] = settled[i]
    <3> DEFINE s == settled[i]
    <3>1. /\ s.dev \in Devices /\ s.cum \in Nat /\ s.cum <= cum[s.dev]
          /\ <<s.dev, s.counter>> \in seen /\ s.proof \in commitments
      BY <1>7, <2>1
    <3> HIDE DEF s
    <3>2. cum[s.dev] \in Nat /\ cum'[s.dev] \in Nat /\ cum[s.dev] <= cum'[s.dev]
      BY <1>12, <3>1
    <3>3. s.cum <= cum'[s.dev]
      BY <3>1, <3>2
    <3>4. settled'[i] = s
      BY <2>1 DEF s
    <3> QED
      BY <3>1, <3>3, <3>4
  <2>2. CASE settled'[i] = b
    BY <1>1, <1>4, <2>2
  <2> QED
    BY <1>6, <2>1, <2>2
<1>9. SettledWithinAllowance'
  <2>1. ASSUME NEW j \in DOMAIN settled, settled[j].dev = b.dev
        PROVE  settled[j].cum + b.amount <= b.cum
    <3>1. settled[j].cum \in Nat /\ settled[j].cum <= cum[b.dev]
      BY <1>7, <2>1
    <3> QED
      BY <1>1, <1>2, <1>3, <3>1
  <2> SUFFICES ASSUME NEW i \in DOMAIN settled'
               PROVE  /\ settled'[i].cum <= allowance
                      /\ \A j \in 1 .. i - 1 : settled'[j].dev = settled'[i].dev =>
                            settled'[j].cum + settled'[i].amount <= settled'[i].cum
    BY DEF SettledWithinAllowance
  <2>2. \A j \in 1 .. i - 1 : j \in DOMAIN settled /\ settled'[j] = settled[j]
    BY <1>2
  <2>3. CASE i \in DOMAIN settled /\ settled'[i] = settled[i]
    BY <2>2, <2>3 DEF IInv, LedgerInv, SettledWithinAllowance
  <2>4. CASE settled'[i] = b
    BY <1>3, <2>1, <2>2, <2>4
  <2> QED
    BY <1>6, <2>3, <2>4
<1>10. SettledOnce'
  <2>1. ASSUME NEW j \in DOMAIN settled
        PROVE  <<settled[j].dev, settled[j].counter>> # <<b.dev, b.counter>> /\ settled[j].proof # b.proof
    BY <1>7 DEF Known
  <2>2. \A i, j \in DOMAIN settled : i # j =>
           /\ <<settled[i].dev, settled[i].counter>> # <<settled[j].dev, settled[j].counter>>
           /\ settled[i].proof # settled[j].proof
    BY DEF IInv, LedgerInv, SettledOnce
  <2> SUFFICES ASSUME NEW i \in DOMAIN settled', NEW j \in DOMAIN settled', i # j
               PROVE  /\ <<settled'[i].dev, settled'[i].counter>> # <<settled'[j].dev, settled'[j].counter>>
                      /\ settled'[i].proof # settled'[j].proof
    BY DEF SettledOnce
  <2> QED
    BY <1>6, <2>1, <2>2
<1>11. SettledIsAttested'
  <2>1. \A i \in DOMAIN settled :
           settled[i] \in bundles /\ settled[i].amount = settled[i].proof.amount
    BY DEF IInv, LedgerInv, SettledIsAttested
  <2> QED
    BY <1>3, <1>6, <2>1 DEF SettledIsAttested
<1> QED
  BY <1>4, <1>5, <1>6, <1>8, <1>9, <1>10, <1>11 DEF LedgerInv

------------------------------------------------------------------------------
(* Every action preserves the invariant.                                     *)

LEMMA InitEstablishes == Init => IInv
<1> SUFFICES ASSUME Init PROVE IInv
  OBVIOUS
<1>1. 0 \in 0 .. allowance /\ 0 \in Counters /\ 1 \in Counters /\ <<>> \in Seq(Bundle) /\ DOMAIN <<>> = {}
  BY OfflineAssumption DEF Counters
<1>2. TypeOK
  BY <1>1 DEF Init, payeesInit, ledgerInit, TypeOK
<1>3. MadeInv /\ BatchInv /\ QueueInv /\ LastInv /\ AcceptedOnce
  BY <1>1 DEF Init, payeesInit, ledgerInit, MadeInv, BatchInv, QueueInv, LastInv, AcceptedOnce
<1>4. LedgerInv
  BY <1>1 DEF Init, payeesInit, ledgerInit, LedgerInv, RememberInv, SettledWithinAllowance, SettledOnce, SettledIsAttested
<1> QED
  BY <1>2, <1>3, <1>4 DEF IInv, PayeeInv

LEMMA PayPreserves ==
    ASSUME IInv, NEW d \in Devices, NEW p \in Payees, NEW amount \in Amounts, NEW viol \in BOOLEAN,
           pay(d, p, amount, viol)
    PROVE  IInv'
<1> DEFINE b == Certified(d, FreshProof(d, amount, viol), p, amount, total[d] + amount)
<1>1. /\ counter[d] < MaxCounter /\ total[d] + amount <= allowance
      /\ counter' = [counter EXCEPT ![d] = @ + 1]
      /\ bundles' = bundles \cup {b} /\ open' = open \cup {b}
      /\ hasty' = hasty \/ hasty' = hasty \cup {d}
      /\ UNCHANGED <<now, total, payees, ledger>>
  BY DEF pay
<1>2. total[d] + amount \in Nat /\ total[d] + amount <= allowance
  <2>1. amount \in Nat /\ allowance \in Nat
    BY OfflineAssumption
  <2>2. total[d] \in 0 .. allowance
    BY DEF IInv, TypeOK
  <2> QED
    BY <1>1, <2>1, <2>2
<1>3. b \in Bundle /\ b.att = Bind(b) /\ b.cum = total[d] + amount
  BY <1>1, <1>2, FreshIs, CertifiedIs DEF IInv
<1> HIDE DEF b
<1>4. bundles' \subseteq Bundle /\ open' \subseteq bundles' /\ MadeInv' /\ BatchInv' /\ LedgerInv'
  BY <1>1, <1>2, <1>3, MadeOneMore
<1>5. counter' \in [Devices -> Counters] /\ hasty' \subseteq Devices
  BY <1>1, CounterGoesUp DEF IInv, TypeOK
<1>6. PayeeInv'
  BY <1>1, PayeesUntouched
<1>7. TypeOK'
  BY <1>1, <1>4, <1>5 DEF IInv, TypeOK, payees, ledger
<1> QED
  BY <1>4, <1>6, <1>7 DEF IInv

LEMMA PayAsLikedPreserves ==
    ASSUME IInv, NEW d \in Devices, NEW p \in Payees, NEW amount \in Amounts, NEW sum \in Nat,
           NEW proof \in Proof, payAsLiked(d, p, amount, sum, proof)
    PROVE  IInv'
<1> DEFINE b == Certified(d, proof, p, amount, sum)
<1>1. /\ counter[d] < MaxCounter /\ counter' = [counter EXCEPT ![d] = @ + 1]
      /\ bundles' = bundles \cup {b}
      /\ UNCHANGED <<now, total, open, hasty, payees, ledger>>
  BY DEF payAsLiked, apps
<1>2. b \in Bundle /\ b.att = Bind(b)
  BY <1>1, CertifiedIs DEF IInv
<1> HIDE DEF b
<1>3. bundles' \subseteq Bundle /\ open' \subseteq bundles' /\ MadeInv' /\ BatchInv' /\ LedgerInv'
  BY <1>1, <1>2, MadeOneMore
<1>4. counter' \in [Devices -> Counters]
  BY <1>1, CounterGoesUp DEF IInv, TypeOK
<1>5. PayeeInv'
  BY <1>1, PayeesUntouched
<1>6. TypeOK'
  BY <1>1, <1>3, <1>4 DEF IInv, TypeOK, payees, ledger
<1> QED
  BY <1>3, <1>5, <1>6 DEF IInv

LEMMA ConfirmPreserves ==
    ASSUME IInv, NEW b \in open, confirm(b)
    PROVE  IInv'
<1>1. /\ total' = [total EXCEPT ![b.dev] = b.cum] /\ open' = open \ {b}
      /\ UNCHANGED <<now, counter, hasty, bundles, payees, ledger>>
  BY DEF confirm
<1>2. b.cum \in Nat /\ b.cum <= allowance /\ allowance \in Nat
  BY OfflineAssumption DEF IInv, TypeOK, MadeInv, Bundle
<1>3. b.cum \in 0 .. allowance
  BY <1>2
<1>4. total' \in [Devices -> 0 .. allowance]
  BY <1>1, <1>3 DEF IInv, TypeOK
<1>5. MadeInv' /\ BatchInv'
  BY <1>1 DEF IInv, MadeInv, Bind, BatchInv, Sound, ledger
<1>6. PayeeInv'
  BY <1>1, PayeesUntouched
<1>7. LedgerInv'
  BY <1>1, LedgerUntouched DEF ledger
<1>8. TypeOK'
  BY <1>1, <1>4 DEF IInv, TypeOK, payees, ledger
<1> QED
  BY <1>5, <1>6, <1>7, <1>8 DEF IInv

LEMMA ReceivePreserves ==
    ASSUME IInv, NEW p \in Payees, NEW made \in bundles, NEW q \in Payees, NEW v \in Amounts,
           receive(p, Carried(made, q, v))
    PROVE  IInv'
<1>1. /\ Acceptable(p, Carried(made, q, v)) /\ Take(p, Carried(made, q, v))
      /\ UNCHANGED <<now, counter, total, open, hasty, bundles, ledger>>
  BY DEF receive, apps
<1>2. Acceptable(p, made) /\ Take(p, made) /\ made \in Bundle
  BY <1>1, ShownIsMade DEF IInv, TypeOK, Acceptable
<1>3. /\ last' \in [Payees -> [Devices -> Counters]]
      /\ queue' \in [Payees -> SUBSET Bundle] /\ accepted' \in [Payees -> Seq(Bundle)]
      /\ PayeeInv'
  BY <1>1, <1>2, TakePreserves
<1>4. MadeInv' /\ BatchInv'
  BY <1>1 DEF IInv, MadeInv, Bind, BatchInv, Sound, ledger
<1>5. LedgerInv'
  BY <1>1, LedgerUntouched DEF ledger
<1>6. TypeOK'
  BY <1>1, <1>3 DEF IInv, TypeOK, ledger
<1> QED
  BY <1>3, <1>4, <1>5, <1>6 DEF IInv

LEMMA SyncPreserves ==
    ASSUME IInv, NEW S \in SUBSET Payees, sync(S)
    PROVE  IInv'
<1>1. /\ batch' = {b \in UNION {queue[p] : p \in S} : Valid(b)}
      /\ queue' = [p \in Payees |-> IF p \in S THEN {} ELSE queue[p]]
      /\ together' = (together /\ S = Payees)
      /\ UNCHANGED <<now, counter, total, open, hasty, bundles, last, accepted, cum, seen, commitments, settled, flagged>>
  BY DEF sync, apps
<1>2. \A b \in batch' : b \in bundles /\ Valid(b)
  BY <1>1 DEF IInv, PayeeInv, QueueInv
<1>3. MadeInv' /\ BatchInv'
  BY <1>1, <1>2 DEF IInv, MadeInv, Bind, BatchInv, Sound, Valid
<1>4. PayeeInv'
  BY <1>1 DEF IInv, PayeeInv, QueueInv, LastInv, AcceptedOnce
<1>5. LedgerInv'
  BY <1>1, LedgerUntouched
<1>6. batch' \subseteq Bundle /\ queue' \in [Payees -> SUBSET Bundle]
  BY <1>1, <1>2 DEF IInv, TypeOK
<1>7. TypeOK'
  BY <1>1, <1>6 DEF IInv, TypeOK
<1> QED
  BY <1>3, <1>4, <1>5, <1>7 DEF IInv

LEMMA SettleActionPreserves ==
    ASSUME IInv, NEW b \in batch, settle(b)
    PROVE  IInv'
<1>1. batch' \subseteq batch /\ UNCHANGED <<now, counter, total, open, hasty, bundles, payees, together>>
  BY DEF settle, apps
<1>2. MadeInv' /\ BatchInv'
  BY <1>1 DEF IInv, MadeInv, Bind, BatchInv, Sound
<1>3. PayeeInv'
  BY <1>1, PayeesUntouched
<1>4. /\ cum' \in [Devices -> 0 .. allowance] /\ settled' \in Seq(Bundle)
      /\ seen' \subseteq Devices \X Counters /\ commitments' \subseteq Proof
      /\ flagged' \subseteq Devices /\ LedgerInv'
  <2>1. CASE Known(b) /\ UNCHANGED <<cum, seen, commitments, settled, flagged>>
    BY <1>1, <2>1, LedgerUntouched DEF IInv, TypeOK
  <2>2. CASE flagged' = flagged \cup {b.dev} /\ UNCHANGED <<cum, seen, commitments, settled>>
    <3>1. b.dev \in Devices
      BY DEF IInv, TypeOK, Bundle
    <3> QED
      BY <1>1, <2>2, <3>1, LedgerUntouched DEF IInv, TypeOK
  <2>3. CASE /\ ~ Known(b) /\ Follows(b)
             /\ seen' = seen \cup {<<b.dev, b.counter>>}
             /\ commitments' = commitments \cup {b.proof}
             /\ cum' = [cum EXCEPT ![b.dev] = b.cum]
             /\ settled' = Append(settled, b)
             /\ UNCHANGED flagged
    <3>1. b \in bundles /\ Sound(b)
      BY DEF IInv, BatchInv
    <3> QED
      BY <1>1, <2>3, <3>1, SettlePreserves DEF IInv, TypeOK
  <2> QED
    BY <2>1, <2>2, <2>3 DEF settle
<1>5. TypeOK'
  BY <1>1, <1>4 DEF IInv, TypeOK, payees
<1> QED
  BY <1>2, <1>3, <1>4, <1>5 DEF IInv

\* The counter that is deleted and defined again, the clock, and stuttering.
LEMMA RestPreserves ==
    ASSUME IInv, \/ \E d \in Devices : recreateCounter(d)
                 \/ Tick
                 \/ UNCHANGED vars
    PROVE  IInv'
<1>1. /\ counter' \in [Devices -> Counters] /\ now' \in Nat
      /\ UNCHANGED <<total, open, hasty, bundles, payees, ledger>>
  <2>1. ASSUME NEW d \in Devices, recreateCounter(d)
        PROVE  counter' \in [Devices -> Counters] /\ now' \in Nat
               /\ UNCHANGED <<total, open, hasty, bundles, payees, ledger>>
    BY <2>1, CounterGoesUp DEF recreateCounter, apps, IInv, TypeOK
  <2>2. CASE Tick
    BY <2>2 DEF Tick, apps, IInv, TypeOK
  <2>3. CASE UNCHANGED vars
    BY <2>3 DEF vars, apps, IInv, TypeOK
  <2> QED
    BY <2>1, <2>2, <2>3
<1>2. MadeInv' /\ BatchInv'
  BY <1>1 DEF IInv, MadeInv, Bind, BatchInv, Sound, ledger
<1>3. PayeeInv'
  BY <1>1, PayeesUntouched
<1>4. LedgerInv'
  BY <1>1, LedgerUntouched DEF ledger
<1>5. TypeOK'
  BY <1>1 DEF IInv, TypeOK, payees, ledger
<1> QED
  BY <1>2, <1>3, <1>4, <1>5 DEF IInv

LEMMA NextPreserves == IInv /\ [Next]_vars => IInv'
<1> SUFFICES ASSUME IInv, [Next]_vars PROVE IInv'
  OBVIOUS
<1>1. ASSUME NEW d \in Devices, NEW p \in Payees, NEW amount \in Amounts, NEW viol \in BOOLEAN,
             pay(d, p, amount, viol)
      PROVE  IInv'
  BY <1>1, PayPreserves
<1>2. ASSUME NEW d \in Devices, NEW p \in Payees, NEW amount \in Amounts, NEW viol \in BOOLEAN,
             NEW sum \in Totals,
             NEW proof \in {FreshProof(d, amount, viol)} \cup {b.proof : b \in bundles},
             payAsLiked(d, p, amount, sum, proof)
      PROVE  IInv'
  <2>1. sum \in Nat
    BY OfflineAssumption DEF Totals
  <2>2. FreshProof(d, amount, viol) \in Proof
    BY <1>2, FreshIs DEF IInv, payAsLiked
  <2>3. proof \in Proof
    BY <2>2 DEF IInv, TypeOK, Bundle
  <2> QED
    BY <1>2, <2>1, <2>3, PayAsLikedPreserves
<1>6. ASSUME NEW b \in open, confirm(b)
      PROVE  IInv'
  BY <1>6, ConfirmPreserves
<1>3. ASSUME NEW p \in Payees, NEW made \in bundles, NEW q \in Payees, NEW v \in Amounts,
             receive(p, Carried(made, q, v))
      PROVE  IInv'
  BY <1>3, ReceivePreserves
<1>4. ASSUME NEW S \in SUBSET Payees, sync(S)
      PROVE  IInv'
  BY <1>4, SyncPreserves
<1>5. ASSUME NEW b \in batch, settle(b)
      PROVE  IInv'
  BY <1>5, SettleActionPreserves
<1> QED
  BY <1>1, <1>2, <1>3, <1>4, <1>5, <1>6, RestPreserves DEF Next

LEMMA Invariance == Spec => []IInv
<1> QED
  BY InitEstablishes, NextPreserves, PTL DEF Spec

------------------------------------------------------------------------------
(* What becomes of an accepted payment: the second invariant.                *)

Taken         == UNION {AcceptedBy(p) : p \in Payees}
Queued        == UNION {queue[p] : p \in Payees}
AllSettled(d) == {b \in SettledSet : b.dev = d}
Before(d, c)  == {b \in AllAccepted(d) : b.counter < c}

\* What of check_bundle does not depend on the time, the attestation included.
Passes(b) == b.att = Bind(b) /\ Sound(b) /\ ~ b.proof.viol

\* An attestation is of one bundle only, and an honest device draws anew for each.
OriginInv ==
    /\ \A b \in bundles : b.counter <= counter[b.dev]
    /\ \A b, c \in bundles : b.dev = c.dev /\ b.counter = c.counter => b = c
    /\ \A b \in bundles : b.dev \notin Manipulated => b.proof.r = <<b.dev, b.counter>>

\* Payees take what passes and is for them; only what they took is ever settled.
TakenInv ==
    /\ \A p \in Payees : \A b \in AcceptedBy(p) : b \in bundles /\ b.payee = p /\ Passes(b)
    /\ \A p \in Payees, d \in Devices : last[p][d] <= counter[d]
    /\ \A b \in batch : Valid(b)
    /\ Queued \cup batch \cup SettledSet \subseteq Taken

\* While the snapshot is valid no accepted payment gets lost: it waits, is settled (or its
\* attestation or proof is), or its device was flagged.
HandledInv ==
    now <= expires => \A b \in Taken : b \in Queued \cup batch \/ b.dev \in flagged \/ Known(b)

\* The ledger remembers nothing but what it settled.
SeenInv ==
    /\ \A s \in seen : \E b \in SettledSet : s = <<b.dev, b.counter>>
    /\ \A c \in commitments : \E b \in SettledSet : c = b.proof

\* A device's total at the ledger is the sum of its settled payments.
SumInv == \A d \in Devices : cum[d] = AmountOf(AllSettled(d))

\* The payments of d that a payee took or still may take.
Live(d) == {b \in bundles : b.dev = d /\ Passes(b) /\ (b \in Taken \/ now <= expires)}

\* The books of an app that concludes each payment before the next: what is live is taken or is
\* its latest payment, its total is the sum of what it has confirmed, and each payment declares
\* the sum of those taken before it.
Books(d) ==
    /\ \A b \in Live(d) : b \in Taken \cup open
    /\ \A b \in Live(d) \cap open, c \in Live(d) : c # b => c.counter < b.counter
    /\ total[d] = AmountOf(AllAccepted(d) \ open)
    /\ \A b \in Live(d) : b.cum = b.amount + AmountOf(Before(d, b.counter))

HonestInv == \A d \in Devices \ (Manipulated \cup hasty) : Books(d)

\* Payees that reconnect together hand in everything, so that an undisturbed device's payments
\* settle in the order they were made.
TogetherInv ==
    together =>
        /\ batch # {} => Queued = {}
        /\ \A d \in flagged : ~ Undisturbed(d)
        /\ \A s \in SettledSet, b \in Queued \cup batch :
              s.dev = b.dev /\ s.dev \notin Manipulated \cup hasty => s.counter < b.counter

FateInv == OriginInv /\ TakenInv /\ HandledInv /\ SeenInv /\ SumInv /\ HonestInv /\ TogetherInv

------------------------------------------------------------------------------
(* Lemmas about sums of amounts and about the sets above.                    *)

amounts == [b \in Bundle |-> b.amount]

LEMMA AmountIs ==
    ASSUME NEW S, IsFiniteSet(S), S \subseteq Bundle
    PROVE  /\ AmountOf(S) = SumFunctionOnSet(amounts, S)
           /\ \A b \in S : amounts[b] = b.amount /\ amounts[b] \in Nat
<1> DEFINE f == [b \in S |-> b.amount]
<1>1. \A b \in S : amounts[b] = b.amount /\ f[b] = b.amount
  BY DEF amounts
<1>2. \A b \in Bundle : b.amount \in Nat
  BY OfflineAssumption DEF Bundle
<1>3. AmountOf(S) = SumFunctionOnSet(f, S)
  BY DEF AmountOf, SumFunction
<1> HIDE DEF f
<1>4. SumFunctionOnSet(f, S) = SumFunctionOnSet(amounts, S)
  BY <1>1, SumSame
<1> QED
  BY <1>1, <1>2, <1>3, <1>4

LEMMA AmountEmpty == AmountOf({}) = 0
  BY AmountIs, FS_EmptySet, SumEmpty

LEMMA AmountNat ==
    ASSUME NEW S, IsFiniteSet(S), S \subseteq Bundle
    PROVE  AmountOf(S) \in Nat
  BY AmountIs, SumNat

LEMMA AmountAdd ==
    ASSUME NEW S, IsFiniteSet(S), S \subseteq Bundle, NEW b \in Bundle, b \notin S
    PROVE  AmountOf(S \cup {b}) = AmountOf(S) + b.amount
<1>1. IsFiniteSet(S \cup {b}) /\ S \cup {b} \subseteq Bundle
  BY FS_AddElement
<1>2. \A x \in S \cup {b} : amounts[x] = x.amount /\ amounts[x] \in Nat
  BY <1>1, AmountIs
<1>3. SumFunctionOnSet(amounts, S \cup {b}) = amounts[b] + SumFunctionOnSet(amounts, S)
  BY <1>2, SumAdd
<1>4. AmountOf(S) \in Nat
  BY AmountNat
<1> QED
  BY <1>1, <1>2, <1>3, <1>4, AmountIs

LEMMA AmountMonotone ==
    ASSUME NEW S, IsFiniteSet(S), S \subseteq Bundle, NEW P \in SUBSET S
    PROVE  AmountOf(P) <= AmountOf(S)
<1>1. IsFiniteSet(P) /\ P \subseteq Bundle
  BY FS_Subset
<1>2. \A x \in S : amounts[x] \in Nat
  BY AmountIs
<1>3. SumFunctionOnSet(amounts, P) <= SumFunctionOnSet(amounts, S)
  BY <1>2, SumMonotone
<1> QED
  BY <1>1, <1>3, AmountIs

LEMMA ValidIs ==
    ASSUME NEW b
    PROVE  /\ Valid(b) <=> now <= expires /\ Passes(b)
           /\ Valid(b)' <=> now' <= expires /\ Passes(b)
  BY DEF Valid, Passes, Bind, Sound

\* What is in the sets above are bundles that were made, of finitely many attestations each.
LEMMA SetsOfBundles ==
    ASSUME TypeOK, OriginInv, TakenInv
    PROVE  /\ Taken \subseteq bundles /\ Taken \subseteq Bundle
           /\ \A b \in Bundle : b.dev \in Devices /\ b.counter \in Nat /\ b.amount \in Nat /\ b.cum \in Nat
           /\ \A d : /\ AllAccepted(d) \subseteq Taken /\ AllSettled(d) \subseteq AllAccepted(d)
                     /\ IsFiniteSet(AllAccepted(d)) /\ IsFiniteSet(AllSettled(d))
                     /\ \A c : Before(d, c) \subseteq AllAccepted(d) /\ IsFiniteSet(Before(d, c))
<1>1. Taken \subseteq bundles /\ Taken \subseteq Bundle
  BY DEF TypeOK, TakenInv, Taken
<1>2. \A b \in Bundle : b.dev \in Devices /\ b.counter \in Counters /\ b.amount \in Nat /\ b.cum \in Nat
  BY OfflineAssumption DEF Bundle
<1>3. Counters \subseteq Nat /\ IsFiniteSet(Counters)
  <2>1. MaxCounter \in Int
    BY OfflineAssumption
  <2> QED
    BY <2>1, FS_Interval DEF Counters
<1>4. ASSUME NEW d
      PROVE  /\ AllAccepted(d) \subseteq Taken /\ AllSettled(d) \subseteq AllAccepted(d)
             /\ IsFiniteSet(AllAccepted(d)) /\ IsFiniteSet(AllSettled(d))
             /\ \A c : Before(d, c) \subseteq AllAccepted(d) /\ IsFiniteSet(Before(d, c))
  <2>1. AllAccepted(d) = {b \in Taken : b.dev = d}
    BY DEF AllAccepted, Taken, AcceptedBy
  <2>2. AllSettled(d) \subseteq AllAccepted(d)
    BY <2>1 DEF AllSettled, TakenInv
  <2> DEFINE f == [b \in AllAccepted(d) |-> b.counter]
  <2>3. f \in [AllAccepted(d) -> Counters]
    BY <1>1, <1>2, <2>1
  <2>4. \A b, c \in AllAccepted(d) : f[b] = f[c] => b = c
    BY <1>1, <2>1 DEF OriginInv
  <2> HIDE DEF f
  <2>5. f \in Injection(AllAccepted(d), Counters)
    BY <2>3, <2>4 DEF Injection, IsInjective
  <2>6. IsFiniteSet(AllAccepted(d))
    BY <1>3, <2>5, FS_Injection
  <2> QED
    BY <2>1, <2>2, <2>6, FS_Subset DEF Before
<1> QED
  BY <1>1, <1>2, <1>3, <1>4

LEMMA LiveIs ==
    ASSUME TypeOK, OriginInv, TakenInv, NEW d
    PROVE  /\ AllAccepted(d) = {b \in Taken : b.dev = d} /\ AllAccepted(d) \subseteq Live(d)
           /\ Live(d) \subseteq bundles /\ \A b \in Live(d) : b.dev = d /\ Passes(b) /\ b.counter \in Nat
<1>1. AllAccepted(d) = {b \in Taken : b.dev = d}
  BY DEF AllAccepted, Taken
<1>2. \A b \in Taken : b \in bundles /\ Passes(b)
  BY DEF TakenInv, Taken
<1>3. \A b \in Live(d) : b \in bundles /\ b.dev = d /\ Passes(b)
  BY DEF Live
<1>4. \A b \in bundles : b.counter \in Nat
  BY SetsOfBundles DEF TypeOK
<1> QED
  BY <1>1, <1>2, <1>3, <1>4 DEF Live

LEMMA LiveNext ==
    ASSUME NEW d
    PROVE  Live(d)' = {b \in bundles' : b.dev = d /\ Passes(b) /\ (b \in Taken' \/ now' <= expires)}
  BY DEF Live, Passes, Bind, Sound

\* A device that was disturbed stays so.
LEMMA DisturbedStays ==
    ASSUME NEW d, ~ Undisturbed(d), SettledSet \subseteq SettledSet', Taken \subseteq Taken',
           hasty \subseteq hasty'
    PROVE  ~ Undisturbed(d)'
<1>1. AllAccepted(d) \subseteq AllAccepted(d)'
  BY DEF AllAccepted, Taken
<1>2. Forestalled(d) => Forestalled(d)'
  BY <1>1 DEF Forestalled
<1> QED
  BY <1>2 DEF Undisturbed

\* What taking a bundle adds to what payees took and to what waits.
LEMMA TakeAdds ==
    ASSUME TypeOK, NEW p \in Payees, NEW b \in Bundle, Take(p, b)
    PROVE  /\ \A o \in Payees : AcceptedBy(o)' = IF o = p THEN AcceptedBy(p) \cup {b} ELSE AcceptedBy(o)
           /\ Taken' = Taken \cup {b} /\ Queued' = Queued \cup {b}
           /\ \A o \in Payees, e \in Devices :
                 last'[o][e] = IF o = p /\ e = b.dev THEN b.counter ELSE last[o][e]
<1>1. /\ last \in [Payees -> [Devices -> Counters]] /\ queue \in [Payees -> SUBSET Bundle]
      /\ accepted \in [Payees -> Seq(Bundle)] /\ accepted[p] \in Seq(Bundle)
      /\ last' = [last EXCEPT ![p][b.dev] = b.counter]
      /\ queue' = [queue EXCEPT ![p] = @ \cup {b}]
      /\ accepted' = [accepted EXCEPT ![p] = Append(@, b)]
  BY DEF TypeOK, Take
<1>2. AcceptedBy(p)' = AcceptedBy(p) \cup {b}
  <2>1. accepted'[p] = Append(accepted[p], b)
    BY <1>1
  <2>2. /\ DOMAIN accepted[p] = 1 .. Len(accepted[p]) /\ Len(accepted[p]) \in Nat
        /\ DOMAIN Append(accepted[p], b) = 1 .. Len(accepted[p]) + 1
        /\ Append(accepted[p], b)[Len(accepted[p]) + 1] = b
        /\ \A i \in 1 .. Len(accepted[p]) : Append(accepted[p], b)[i] = accepted[p][i]
    BY <1>1
  <2>3. ASSUME NEW x \in AcceptedBy(p)'
        PROVE  x \in AcceptedBy(p) \cup {b}
    <3>1. PICK i \in DOMAIN accepted'[p] : x = accepted'[p][i]
      BY DEF AcceptedBy
    <3>2. i \in DOMAIN accepted[p] \/ i = Len(accepted[p]) + 1
      BY <2>1, <2>2, <3>1
    <3> QED
      BY <2>1, <2>2, <3>1, <3>2 DEF AcceptedBy
  <2>4. ASSUME NEW i \in DOMAIN accepted[p]
        PROVE  i \in DOMAIN accepted'[p] /\ accepted'[p][i] = accepted[p][i]
    BY <2>1, <2>2
  <2>5. Len(accepted[p]) + 1 \in DOMAIN accepted'[p] /\ accepted'[p][Len(accepted[p]) + 1] = b
    BY <2>1, <2>2
  <2> QED
    BY <2>3, <2>4, <2>5 DEF AcceptedBy
<1>3. \A o \in Payees : o # p => AcceptedBy(o)' = AcceptedBy(o)
  BY <1>1 DEF AcceptedBy
<1>4. Taken' = Taken \cup {b}
  BY <1>2, <1>3 DEF Taken
<1>5. Queued' = Queued \cup {b}
  BY <1>1 DEF Queued
<1>6. ASSUME NEW o \in Payees, NEW e \in Devices
      PROVE  last'[o][e] = IF o = p /\ e = b.dev THEN b.counter ELSE last[o][e]
  BY <1>1 DEF Bundle
<1> QED
  BY <1>2, <1>3, <1>4, <1>5, <1>6

\* The ledger knows an undisturbed device's payment only once it is settled.
LEMMA KnownIsSettled ==
    ASSUME IInv, FateInv, NEW b \in Taken, Known(b), Undisturbed(b.dev)
    PROVE  b \in SettledSet
<1>1. b \in bundles /\ SettledSet \subseteq bundles /\ b \in AllAccepted(b.dev)
  BY SetsOfBundles, LiveIs DEF IInv, FateInv, TakenInv
<1>2. CASE <<b.dev, b.counter>> \in seen
  BY <1>1, <1>2 DEF FateInv, SeenInv, OriginInv
<1>3. CASE b.proof \in commitments
  <2>1. PICK s \in SettledSet : b.proof = s.proof
    BY <1>3 DEF FateInv, SeenInv
  <2>2. s.dev \notin Manipulated /\ b.dev \notin Manipulated
    BY <1>1, <2>1 DEF Undisturbed, Forestalled
  <2>3. s.proof.r = <<s.dev, s.counter>> /\ b.proof.r = <<b.dev, b.counter>>
    BY <1>1, <2>1, <2>2 DEF FateInv, OriginInv
  <2>4. s.dev = b.dev /\ s.counter = b.counter
    BY <2>1, <2>3
  <2> QED
    BY <1>1, <2>1, <2>4 DEF FateInv, OriginInv
<1> QED
  BY <1>2, <1>3 DEF Known

\* When payees have always reconnected together, the total an honest device declares follows what
\* is settled when its turn comes (Ledger.sync).
LEMMA HonestFollows ==
    ASSUME IInv, FateInv, together, NEW b \in batch, NextItem(b), Undisturbed(b.dev)
    PROVE  Follows(b)
<1>1. /\ b \in Taken /\ b \in Bundle /\ b.dev \in Devices /\ b.counter \in Nat /\ b \in AllAccepted(b.dev)
      /\ b.dev \notin Manipulated \cup hasty
  BY SetsOfBundles, LiveIs DEF IInv, FateInv, TakenInv, Undisturbed
<1>2. now <= expires
  BY ValidIs DEF FateInv, TakenInv
<1>3. Queued = {} /\ b.dev \notin flagged
  BY DEF FateInv, TogetherInv
<1>4. ASSUME NEW a \in Before(b.dev, b.counter)
      PROVE  a \in AllSettled(b.dev)
  <2>1. a \in Taken /\ a.dev = b.dev /\ a.counter < b.counter /\ a.counter \in Nat
    BY <1>4, SetsOfBundles, LiveIs DEF IInv, FateInv, Before
  <2>2. a \notin batch
    BY <1>1, <2>1 DEF NextItem
  <2>3. Known(a)
    BY <1>2, <1>3, <2>1, <2>2 DEF FateInv, HandledInv
  <2> QED
    BY <2>1, <2>3, KnownIsSettled DEF AllSettled
<1>5. ASSUME NEW a \in AllSettled(b.dev)
      PROVE  a \in Before(b.dev, b.counter)
  <2>1. a \in SettledSet /\ a.dev = b.dev /\ a \in AllAccepted(b.dev)
    BY SetsOfBundles DEF IInv, FateInv, AllSettled
  <2>2. a.counter < b.counter
    BY <1>1, <2>1 DEF FateInv, TogetherInv
  <2> QED
    BY <2>1, <2>2 DEF Before
<1>6. AllSettled(b.dev) = Before(b.dev, b.counter)
  BY <1>4, <1>5
<1>7. b.cum = b.amount + AmountOf(Before(b.dev, b.counter))
  BY <1>1, LiveIs DEF IInv, FateInv, HonestInv, Books
<1>8. cum[b.dev] = AmountOf(AllSettled(b.dev))
  BY <1>1 DEF FateInv, SumInv
<1>9. AmountOf(AllSettled(b.dev)) \in Nat /\ b.amount \in Nat
  BY <1>1, AmountNat, SetsOfBundles DEF IInv, FateInv
<1> QED
  BY <1>6, <1>7, <1>8, <1>9 DEF Follows

------------------------------------------------------------------------------
(* Every action preserves the second invariant.                              *)

LEMMA InitFate == Init => FateInv
<1> SUFFICES ASSUME Init PROVE FateInv
  OBVIOUS
<1>1. DOMAIN settled = {} /\ \A p \in Payees : DOMAIN accepted[p] = {}
  BY DEF Init, payeesInit, ledgerInit
<1>2. /\ Taken = {} /\ Queued = {} /\ SettledSet = {} /\ \A d : AllAccepted(d) = {} /\ AllSettled(d) = {}
      /\ \A d : Live(d) = {} /\ AllAccepted(d) \ open = {}
  BY <1>1 DEF Init, payeesInit, ledgerInit, Taken, AcceptedBy, Queued, SettledSet, AllAccepted, AllSettled, Live
<1>3. OriginInv
  BY DEF Init, payeesInit, ledgerInit, OriginInv
<1>4. TakenInv
  BY <1>1, <1>2 DEF Init, payeesInit, ledgerInit, TakenInv, AcceptedBy
<1>5. HandledInv /\ SeenInv /\ TogetherInv
  BY <1>2 DEF Init, payeesInit, ledgerInit, HandledInv, SeenInv, TogetherInv
<1>6. SumInv /\ HonestInv
  BY <1>2, AmountEmpty DEF Init, payeesInit, ledgerInit, SumInv, HonestInv, Books
<1> QED
  BY <1>3, <1>4, <1>5, <1>6 DEF FateInv

\* A bundle more, attested by the next value of its device's counter (SecureElement.certify).
LEMMA OneMade ==
    ASSUME IInv, FateInv, NEW b \in Bundle, b.counter = counter[b.dev] + 1,
           b.dev \notin Manipulated => b.proof.r = <<b.dev, b.counter>>,
           counter' = [counter EXCEPT ![b.dev] = @ + 1], bundles' = bundles \cup {b}
    PROVE  /\ OriginInv' /\ b \notin bundles
           /\ \A d \in Devices : counter[d] <= counter'[d] /\ counter[d] \in Nat /\ counter'[d] \in Nat
<1>1. /\ b.dev \in Devices /\ counter \in [Devices -> Counters] /\ Counters \subseteq Nat
      /\ \A a \in bundles : a.dev \in Devices /\ a.counter \in Nat /\ a.counter <= counter[a.dev]
  BY OfflineAssumption DEF IInv, TypeOK, Bundle, Counters, FateInv, OriginInv
<1>2. \A d \in Devices : counter[d] \in Nat /\ counter'[d] \in Nat /\ counter[d] <= counter'[d]
  <2>1. ASSUME NEW d \in Devices
        PROVE  counter[d] \in Nat /\ counter'[d] = IF d = b.dev THEN counter[d] + 1 ELSE counter[d]
    BY <1>1
  <2> QED
    BY <2>1
<1>3. counter'[b.dev] = counter[b.dev] + 1
  BY <1>1
<1>4. \A a \in bundles : a.dev = b.dev => a.counter # b.counter
  BY <1>1, <1>2
<1>5. \A a \in bundles' : a.counter <= counter'[a.dev]
  <2> SUFFICES ASSUME NEW a \in bundles' PROVE a.counter <= counter'[a.dev]
    OBVIOUS
  <2>1. CASE a \in bundles
    BY <1>1, <1>2, <2>1 DEF FateInv, OriginInv
  <2>2. CASE a = b
    BY <1>1, <1>2, <1>3, <2>2
  <2> QED
    BY <2>1, <2>2
<1>6. \A a, c \in bundles' : a.dev = c.dev /\ a.counter = c.counter => a = c
  BY <1>4 DEF FateInv, OriginInv
<1>7. \A a \in bundles' : a.dev \notin Manipulated => a.proof.r = <<a.dev, a.counter>>
  BY DEF FateInv, OriginInv
<1> QED
  BY <1>2, <1>4, <1>5, <1>6, <1>7 DEF OriginInv

\* Steps in which no payee takes anything and the ledger does nothing.
LEMMA NothingTaken ==
    ASSUME IInv, FateInv, UNCHANGED <<payees, ledger>>,
           now' = now \/ (now' = now + 1 /\ batch = {}),
           \A d \in Devices : counter[d] <= counter'[d] /\ counter[d] \in Nat /\ counter'[d] \in Nat,
           bundles \subseteq bundles', hasty \subseteq hasty'
    PROVE  TakenInv' /\ HandledInv' /\ SeenInv' /\ SumInv' /\ TogetherInv'
<1>1. Taken' = Taken /\ Queued' = Queued /\ \A p \in Payees : AcceptedBy(p)' = AcceptedBy(p)
  BY DEF payees, Taken, AcceptedBy, Queued
<1>2. SettledSet' = SettledSet /\ \A d : AllSettled(d)' = AllSettled(d)
  BY DEF ledger, SettledSet, AllSettled
<1>4. now \in Nat /\ now <= now' /\ now' \in Nat /\ expires \in Nat
  BY OfflineAssumption DEF IInv, TypeOK
<1>5. TakenInv'
  <2>1. \A p \in Payees, d \in Devices : last'[p][d] <= counter'[d]
    <3> SUFFICES ASSUME NEW p \in Payees, NEW d \in Devices PROVE last'[p][d] <= counter'[d]
      OBVIOUS
    <3>1. last[p][d] \in Nat /\ last'[p][d] = last[p][d] /\ last[p][d] <= counter[d]
      BY OfflineAssumption DEF IInv, TypeOK, Counters, payees, FateInv, TakenInv
    <3> QED
      BY <3>1
  <2>2. \A b \in batch' : Valid(b)'
    BY ValidIs DEF FateInv, TakenInv, ledger
  <2>3. \A p \in Payees : \A b \in AcceptedBy(p)' : b \in bundles' /\ b.payee = p /\ Passes(b)
    BY <1>1 DEF FateInv, TakenInv
  <2>4. Queued' \cup batch' \cup SettledSet' \subseteq Taken'
    BY <1>1, <1>2 DEF FateInv, TakenInv, ledger
  <2> QED
    BY <2>1, <2>2, <2>3, <2>4 DEF TakenInv, Passes, Bind, Sound
<1>6. HandledInv'
  <2>1. now' <= expires => now <= expires
    BY <1>4
  <2> QED
    BY <1>1, <2>1 DEF FateInv, HandledInv, Known, ledger
<1>7. SeenInv'
  BY <1>2 DEF FateInv, SeenInv, ledger
<1>8. SumInv'
  BY <1>2 DEF FateInv, SumInv, ledger
<1>9. TogetherInv'
  <2>1. \A d : ~ Undisturbed(d) => ~ Undisturbed(d)'
    BY <1>1, <1>2, DisturbedStays
  <2> QED
    BY <1>1, <1>2, <2>1 DEF FateInv, TogetherInv, ledger
<1> QED
  BY <1>5, <1>6, <1>7, <1>8, <1>9

\* Steps that leave honest apps, and what was taken, alone.
LEMMA BooksKept ==
    ASSUME IInv, FateInv, UNCHANGED <<accepted, apps>>, now' = now \/ now' = now + 1,
           \A b \in bundles' : b \in bundles \/ b.dev \in Manipulated
    PROVE  HonestInv'
<1> SUFFICES ASSUME NEW d \in Devices \ (Manipulated \cup hasty) PROVE Books(d)'
  BY DEF HonestInv, apps
<1>1. Books(d)
  BY DEF FateInv, HonestInv
<1>2. Taken' = Taken /\ AllAccepted(d)' = AllAccepted(d) /\ open' = open /\ total' = total
  BY DEF Taken, AcceptedBy, AllAccepted, apps
<1>3. \A c : Before(d, c)' = Before(d, c)
  BY <1>2 DEF Before
<1>4. now' <= expires => now <= expires
  BY OfflineAssumption DEF IInv, TypeOK
<1>5. Live(d)' \subseteq Live(d)
  BY <1>2, <1>4, LiveNext DEF Live
<1> QED
  BY <1>1, <1>2, <1>3, <1>5 DEF Books

\* pay of an honest app.
LEMMA PayFate ==
    ASSUME IInv, FateInv, NEW d \in Devices, NEW p \in Payees, NEW amount \in Amounts, NEW viol \in BOOLEAN,
           pay(d, p, amount, viol)
    PROVE  FateInv'
<1> DEFINE made == Certified(d, FreshProof(d, amount, viol), p, amount, total[d] + amount)
<1>1. /\ amount \in Nat /\ counter[d] + 1 \in Counters /\ counter[d] \in Nat
      /\ total[d] \in Nat /\ total[d] + amount \in Nat
  <2>1. counter[d] + 1 \in Counters /\ counter[d] \in Nat
    BY CounterGoesUp, OfflineAssumption DEF IInv, Counters, pay
  <2>2. amount \in Nat /\ allowance \in Nat
    BY OfflineAssumption
  <2>3. total[d] \in 0 .. allowance
    BY DEF IInv, TypeOK
  <2> QED
    BY <2>1, <2>2, <2>3
<1>2. made \in Bundle /\ made.att = Bind(made) /\ made.cum = total[d] + amount
  BY <1>1, FreshIs, CertifiedIs DEF IInv, pay
<1>3. PICK b \in Bundle : b = made
  BY <1>2
<1>4. /\ b \in Bundle /\ b.cum = total[d] + amount
      /\ b.dev = d /\ b.counter = counter[d] + 1 /\ b.amount = amount
      /\ b.proof.r = <<d, counter[d] + 1>>
  BY <1>2, <1>3 DEF Certified, FreshProof
<1>5. /\ d \notin Manipulated /\ counter' = [counter EXCEPT ![d] = @ + 1]
      /\ bundles' = bundles \cup {b} /\ open' = open \cup {b}
      /\ hasty' = IF Outstanding(d) = {} THEN hasty ELSE hasty \cup {d}
      /\ UNCHANGED <<now, total, payees, ledger>>
  BY <1>3 DEF pay
<1> HIDE DEF made
<1>6. /\ OriginInv' /\ b \notin bundles /\ hasty \subseteq hasty'
      /\ \A e \in Devices : counter[e] <= counter'[e] /\ counter[e] \in Nat /\ counter'[e] \in Nat
  BY <1>4, <1>5, OneMade
<1>7. TakenInv' /\ HandledInv' /\ SeenInv' /\ SumInv' /\ TogetherInv'
  BY <1>5, <1>6, NothingTaken
<1>8. /\ Taken' = Taken /\ b \notin Taken /\ \A e : AllAccepted(e)' = AllAccepted(e)
      /\ \A e, c : Before(e, c)' = Before(e, c)
  BY <1>5, <1>6, SetsOfBundles DEF payees, Taken, AcceptedBy, AllAccepted, Before, IInv, FateInv
<1>9. ASSUME NEW e \in Devices \ (Manipulated \cup hasty')
      PROVE  Books(e)'
  <2>1. /\ Books(e) /\ AllAccepted(e) \ open' = AllAccepted(e) \ open
        /\ total' = total
    BY <1>5, <1>6, <1>8, <1>9, LiveIs DEF FateInv, HonestInv, IInv
  <2>2. CASE Live(e)' = Live(e) /\ b \notin Live(e)
    BY <1>5, <1>8, <2>1, <2>2 DEF Books
  <2>3. CASE e # d
    <3>1. Live(e)' = Live(e) /\ b \notin Live(e)
      BY <1>4, <1>5, <1>8, <2>3, LiveNext DEF Live
    <3> QED
      BY <2>2, <3>1
  <2>4. CASE e = d /\ ~ (now <= expires)
    <3>1. Live(e)' = Live(e) /\ b \notin Live(e)
      BY <1>4, <1>5, <1>8, <2>4, LiveNext DEF Live
    <3> QED
      BY <2>2, <3>1
  <2>5. CASE e = d /\ now <= expires
    <3>1. Outstanding(d) = {}
      BY <1>5, <1>9, <2>5
    <3>2. Live(d) \cap open = {}
      BY <2>5, <3>1, ValidIs DEF Outstanding, Live
    <3>3. Live(d) = AllAccepted(d) /\ AllAccepted(d) \ open = AllAccepted(d)
      <4>1. AllAccepted(d) = {c \in Taken : c.dev = d} /\ AllAccepted(d) \subseteq Live(d)
        BY LiveIs DEF IInv, FateInv
      <4>2. \A c \in Live(d) : c \in Taken /\ c.dev = d
        BY <2>1, <2>5, <3>2 DEF Books, Live
      <4> QED
        BY <3>2, <4>1, <4>2
    <3>4. Live(d)' \subseteq Live(d) \cup {b}
      BY <1>5, <1>8, LiveNext DEF Live
    <3>5. \A c \in Live(d) : c.counter \in Nat /\ c.counter < b.counter
      <4> SUFFICES ASSUME NEW c \in Live(d) PROVE c.counter \in Nat /\ c.counter < b.counter
        OBVIOUS
      <4>1. c \in bundles /\ c.dev = d /\ c.counter \in Nat
        BY LiveIs DEF IInv, FateInv
      <4>2. c.counter <= counter[d]
        BY <4>1 DEF FateInv, OriginInv
      <4> QED
        BY <1>1, <1>4, <4>1, <4>2
    <3>6. Before(d, b.counter) = AllAccepted(d)
      BY <3>3, <3>5 DEF Before
    <3>7. b.cum = b.amount + AmountOf(Before(d, b.counter))
      BY <1>1, <1>4, <2>1, <2>5, <3>3, <3>6 DEF Books
    <3>8. \A c \in Live(d)' : c \in Taken' \cup open'
      BY <1>5, <1>8, <3>3, <3>4, LiveIs DEF IInv, FateInv
    <3>9. \A x \in Live(d)' \cap open', c \in Live(d)' : c # x => c.counter < x.counter
      BY <1>5, <3>2, <3>4, <3>5
    <3>10. \A c \in Live(d)' : c.cum = c.amount + AmountOf(Before(d, c.counter)')
      BY <1>8, <2>1, <2>5, <3>4, <3>7 DEF Books
    <3>11. total'[d] = AmountOf(AllAccepted(d)' \ open')
      BY <1>8, <2>1, <2>5 DEF Books
    <3> QED
      BY <2>5, <3>8, <3>9, <3>10, <3>11 DEF Books
  <2> QED
    BY <2>3, <2>4, <2>5
<1> QED
  BY <1>6, <1>7, <1>9 DEF FateInv, HonestInv

\* A manipulated app's payment.
LEMMA PayAsLikedFate ==
    ASSUME IInv, FateInv, NEW d \in Devices, NEW p \in Payees, NEW amount \in Amounts, NEW sum \in Nat,
           NEW proof \in Proof, payAsLiked(d, p, amount, sum, proof)
    PROVE  FateInv'
<1> DEFINE made == Certified(d, proof, p, amount, sum)
<1>1. /\ counter[d] < MaxCounter /\ d \in Manipulated /\ batch = {}
      /\ counter' = [counter EXCEPT ![d] = @ + 1] /\ bundles' = bundles \cup {made}
      /\ UNCHANGED <<now, apps, payees, ledger>>
  BY DEF payAsLiked
<1>2. made \in Bundle
  BY <1>1, CertifiedIs DEF IInv
<1>3. PICK b \in Bundle : b = made
  BY <1>2
<1>4. b.dev = d /\ b.counter = counter[d] + 1
  BY <1>3 DEF Certified
<1> HIDE DEF made
<1>5. /\ OriginInv' /\ bundles \subseteq bundles' /\ hasty' = hasty
      /\ \A e \in Devices : counter[e] <= counter'[e] /\ counter[e] \in Nat /\ counter'[e] \in Nat
  BY <1>1, <1>3, <1>4, OneMade DEF apps
<1>6. TakenInv' /\ HandledInv' /\ SeenInv' /\ SumInv' /\ TogetherInv'
  BY <1>1, <1>5, NothingTaken
<1>7. HonestInv'
  BY <1>1, <1>3, <1>4, BooksKept DEF payees
<1> QED
  BY <1>5, <1>6, <1>7 DEF FateInv

\* confirm: the payment is the only one that is taken and open, and the latest taken.
LEMMA ConfirmFate ==
    ASSUME IInv, FateInv, NEW b \in open, confirm(b)
    PROVE  FateInv'
<1>1. /\ total' = [total EXCEPT ![b.dev] = b.cum] /\ open' = open \ {b} /\ b \in AcceptedBy(b.payee)
      /\ UNCHANGED <<now, counter, hasty, bundles, payees, ledger>>
  BY DEF confirm
<1>2. /\ b \in bundles /\ b \in Bundle /\ b.dev \in Devices /\ b.counter \in Nat /\ b.amount \in Nat
      /\ b \in Taken
  <2>1. b \in bundles /\ b \in Bundle
    BY DEF IInv, TypeOK
  <2>2. b.dev \in Devices /\ b.counter \in Nat /\ b.amount \in Nat /\ b.payee \in Payees
    <3>1. b.dev \in Devices /\ b.counter \in Counters /\ b.amount \in Amounts /\ b.payee \in Payees
      BY <2>1 DEF Bundle
    <3>2. Counters \subseteq Nat /\ Amounts \subseteq Nat
      BY OfflineAssumption DEF Counters
    <3> QED
      BY <3>1, <3>2
  <2> QED
    BY <1>1, <2>1, <2>2 DEF Taken
<1>3. \A e \in Devices : counter[e] \in Nat
  BY OfflineAssumption DEF IInv, TypeOK, Counters
<1>4. OriginInv'
  BY <1>1 DEF FateInv, OriginInv
<1>5. TakenInv' /\ HandledInv' /\ SeenInv' /\ SumInv' /\ TogetherInv'
  BY <1>1, <1>3, NothingTaken
<1>6. /\ Taken' = Taken /\ \A e : AllAccepted(e)' = AllAccepted(e)
      /\ \A e, c : Before(e, c)' = Before(e, c)
  BY <1>1 DEF payees, Taken, AcceptedBy, AllAccepted, Before
<1>7. \A e : Live(e)' = Live(e)
  BY <1>1, <1>6, LiveNext DEF Live
<1>8. ASSUME NEW e \in Devices \ (Manipulated \cup hasty)
      PROVE  Books(e)'
  <2>1. Books(e)
    BY DEF FateInv, HonestInv
  <2>2. total'[e] = AmountOf(AllAccepted(e) \ open')
    <3>1. CASE e # b.dev
      <4>1. total'[e] = total[e]
        BY <1>1, <1>2, <3>1 DEF IInv, TypeOK
      <4>2. AllAccepted(e) \ open' = AllAccepted(e) \ open
        BY <1>1, <3>1, LiveIs DEF IInv, FateInv
      <4> QED
        BY <2>1, <4>1, <4>2 DEF Books
    <3>2. CASE e = b.dev
      <4>1. b \in AllAccepted(e) /\ b \in Live(e) \cap open
        BY <1>2, <3>2, LiveIs DEF IInv, FateInv
      <4>2. \A c \in AllAccepted(e) : c # b => c.counter < b.counter /\ c \notin open
        <5> SUFFICES ASSUME NEW c \in AllAccepted(e), c # b
                     PROVE  c.counter < b.counter /\ c \notin open
          OBVIOUS
        <5>1. c \in Live(e) /\ c.counter \in Nat
          BY LiveIs DEF IInv, FateInv
        <5>2. c.counter < b.counter
          BY <2>1, <4>1, <5>1 DEF Books
        <5>3. c \in open => b.counter < c.counter
          BY <2>1, <4>1, <5>1 DEF Books
        <5> QED
          BY <1>2, <5>1, <5>2, <5>3
      <4>3. AllAccepted(e) \ open' = AllAccepted(e)
        BY <1>1, <4>2
      <4>4. b \notin Before(e, b.counter) /\ AllAccepted(e) = Before(e, b.counter) \cup {b}
        BY <1>2, <4>1, <4>2 DEF Before
      <4>5. IsFiniteSet(Before(e, b.counter)) /\ Before(e, b.counter) \subseteq Bundle
        BY SetsOfBundles DEF IInv, FateInv
      <4>6. /\ AmountOf(AllAccepted(e)) = AmountOf(Before(e, b.counter)) + b.amount
            /\ AmountOf(Before(e, b.counter)) \in Nat
        BY <1>2, <4>4, <4>5, AmountAdd, AmountNat
      <4>7. b.cum = b.amount + AmountOf(Before(e, b.counter))
        BY <2>1, <4>1 DEF Books
      <4>8. total'[e] = b.cum
        BY <1>1, <1>2, <3>2 DEF IInv, TypeOK
      <4> QED
        <5>1. b.cum = AmountOf(AllAccepted(e))
          BY <1>2, <4>6, <4>7
        <5> QED
          BY <4>3, <4>8, <5>1
    <3> QED
      BY <3>1, <3>2
  <2>3. \A c \in Live(e) : c \in Taken \cup open'
    BY <1>1, <1>2, <2>1 DEF Books
  <2>4. \A x \in Live(e) \cap open', c \in Live(e) : c # x => c.counter < x.counter
    BY <1>1, <2>1 DEF Books
  <2>5. \A c \in Live(e) : c.cum = c.amount + AmountOf(Before(e, c.counter)')
    BY <1>6, <2>1 DEF Books
  <2> QED
    BY <1>6, <1>7, <2>2, <2>3, <2>4, <2>5 DEF Books
<1> QED
  BY <1>1, <1>4, <1>5, <1>8 DEF FateInv, HonestInv

\* receive: a bundle taken before is not acceptable again, so that of an app that concludes its
\* payments it is the latest.
LEMMA ReceiveFate ==
    ASSUME IInv, FateInv, NEW p \in Payees, NEW made \in bundles, NEW q \in Payees, NEW v \in Amounts,
           receive(p, Carried(made, q, v))
    PROVE  FateInv'
<1>1. /\ Acceptable(p, Carried(made, q, v)) /\ Take(p, Carried(made, q, v)) /\ batch = {}
      /\ UNCHANGED <<now, counter, total, open, hasty, bundles, ledger>>
  BY DEF receive, apps
<1>2. PICK b \in bundles : b = made
  OBVIOUS
<1>3. Acceptable(p, b) /\ Take(p, b) /\ b \in Bundle
  BY <1>1, <1>2, ShownIsMade DEF IInv, TypeOK, Acceptable
<1>4. b.dev \in Devices /\ b.counter \in Nat /\ b.payee = p /\ Passes(b) /\ now <= expires
  BY <1>3, ValidIs, SetsOfBundles DEF Acceptable, IInv, FateInv
<1>5. /\ \A o \in Payees : AcceptedBy(o)' = IF o = p THEN AcceptedBy(p) \cup {b} ELSE AcceptedBy(o)
      /\ Taken' = Taken \cup {b} /\ Queued' = Queued \cup {b}
      /\ \A o \in Payees, e \in Devices :
            last'[o][e] = IF o = p /\ e = b.dev THEN b.counter ELSE last[o][e]
  BY <1>3, TakeAdds DEF IInv
<1>6. b \notin Taken
  <2>1. SUFFICES ASSUME b \in Taken PROVE FALSE
    OBVIOUS
  <2>2. PICK o \in Payees : b \in AcceptedBy(o)
    BY <2>1 DEF Taken
  <2>3. o = p
    BY <1>4, <2>2 DEF FateInv, TakenInv
  <2>4. b.counter <= last[p][b.dev]
    BY <2>2, <2>3 DEF IInv, PayeeInv, LastInv, AcceptedBy
  <2>5. b.counter > last[p][b.dev] /\ last[p][b.dev] \in Nat
    BY <1>3, <1>4, OfflineAssumption DEF Acceptable, IInv, TypeOK, Counters
  <2> QED
    BY <1>4, <2>4, <2>5
<1>7. SettledSet' = SettledSet /\ (\A d : AllSettled(d)' = AllSettled(d)) /\ batch' = {} /\ batch = {}
  BY <1>1 DEF ledger, SettledSet, AllSettled
<1>8. OriginInv'
  BY <1>1 DEF FateInv, OriginInv
<1>9. TakenInv'
  <2>1. \A o \in Payees, d \in Devices : last'[o][d] <= counter'[d]
    BY <1>1, <1>5 DEF FateInv, TakenInv, OriginInv
  <2>2. \A o \in Payees : \A a \in AcceptedBy(o)' : a \in bundles' /\ a.payee = o /\ Passes(a)
    BY <1>1, <1>4, <1>5 DEF FateInv, TakenInv
  <2>3. Queued' \cup batch' \cup SettledSet' \subseteq Taken'
    BY <1>5, <1>7 DEF FateInv, TakenInv
  <2> QED
    BY <1>7, <2>1, <2>2, <2>3 DEF TakenInv, Passes, Bind, Sound
<1>10. HandledInv' /\ SeenInv' /\ SumInv'
  BY <1>1, <1>5, <1>7 DEF FateInv, HandledInv, Known, SeenInv, SumInv, ledger
<1>11. b.dev \notin Manipulated \cup hasty => b \in Live(b.dev) \cap open /\ Books(b.dev)
  BY <1>4, <1>6 DEF FateInv, HonestInv, Live, Books
<1>12. TogetherInv'
  <2> SUFFICES ASSUME together
               PROVE  /\ \A d \in flagged : ~ Undisturbed(d)'
                      /\ \A s \in SettledSet, a \in Queued \cup {b} :
                            s.dev = a.dev /\ s.dev \notin Manipulated \cup hasty => s.counter < a.counter
    BY <1>1, <1>5, <1>7 DEF TogetherInv, ledger
  <2>1. \A d \in flagged : ~ Undisturbed(d)'
    BY <1>1, <1>5, <1>7, DisturbedStays DEF FateInv, TogetherInv
  <2>2. ASSUME NEW s \in SettledSet, s.dev = b.dev, s.dev \notin Manipulated \cup hasty
        PROVE  s.counter < b.counter
    <3>1. s \in Taken /\ s # b
      BY <1>6 DEF FateInv, TakenInv
    <3>2. s \in Live(b.dev)
      BY <2>2, <3>1, LiveIs DEF IInv, FateInv
    <3> QED
      BY <1>11, <2>2, <3>1, <3>2 DEF Books
  <2>3. \A s \in SettledSet, a \in Queued :
           s.dev = a.dev /\ s.dev \notin Manipulated \cup hasty => s.counter < a.counter
    BY DEF FateInv, TogetherInv
  <2> QED
    BY <2>1, <2>2, <2>3
<1>13. \A e : AllAccepted(e)' = IF e = b.dev THEN AllAccepted(e) \cup {b} ELSE AllAccepted(e)
  <2>1. \A e : AllAccepted(e) = {a \in Taken : a.dev = e} /\ AllAccepted(e)' = {a \in Taken' : a.dev = e}
    BY DEF AllAccepted, Taken
  <2>2. \A e : e = b.dev => AllAccepted(e)' = AllAccepted(e) \cup {b}
    BY <1>5, <2>1
  <2>3. \A e : e # b.dev => AllAccepted(e)' = AllAccepted(e)
    BY <1>5, <2>1
  <2> QED
    BY <2>2, <2>3
<1>14. \A e : Live(e)' = Live(e)
  BY <1>1, <1>4, LiveNext DEF Live
<1>15. ASSUME NEW e \in Devices \ (Manipulated \cup hasty)
       PROVE  Books(e)'
  <2>1. Books(e)
    BY DEF FateInv, HonestInv
  <2>2. AllAccepted(e)' \ open = AllAccepted(e) \ open
    BY <1>11, <1>13, <1>15
  <2>3. \A c \in Live(e) : Before(e, c.counter)' = Before(e, c.counter)
    <3> SUFFICES ASSUME NEW c \in Live(e), e = b.dev PROVE ~ (b.counter < c.counter)
      BY <1>13 DEF Before
    <3>1. c = b \/ c.counter < b.counter
      BY <1>11, <1>15 DEF Books
    <3>2. c.counter \in Nat
      BY LiveIs DEF IInv, FateInv
    <3> QED
      BY <1>4, <3>1, <3>2
  <2>4. \A c \in Live(e) : c.cum = c.amount + AmountOf(Before(e, c.counter)')
    BY <2>1, <2>3 DEF Books
  <2>5. total[e] = AmountOf(AllAccepted(e)' \ open)
    BY <2>1, <2>2 DEF Books
  <2>6. /\ \A c \in Live(e) : c \in Taken' \cup open
        /\ \A x \in Live(e) \cap open, c \in Live(e) : c # x => c.counter < x.counter
    BY <1>5, <2>1 DEF Books
  <2> QED
    BY <1>1, <1>14, <2>4, <2>5, <2>6 DEF Books
<1> QED
  BY <1>1, <1>8, <1>9, <1>10, <1>12, <1>15 DEF FateInv, HonestInv

\* The counter that is deleted and defined again, the clock, and stuttering.
LEMMA RestFate ==
    ASSUME IInv, FateInv, \/ \E d \in Devices : recreateCounter(d)
                          \/ Tick
                          \/ UNCHANGED vars
    PROVE  FateInv'
<1>1. \A d \in Devices : counter[d] \in Nat
  BY OfflineAssumption DEF IInv, TypeOK, Counters
<1>2. /\ UNCHANGED <<apps, bundles, payees, ledger>> /\ (now' = now \/ (now' = now + 1 /\ batch = {}))
      /\ \A e \in Devices : counter[e] <= counter'[e] /\ counter'[e] \in Nat
  <2>1. ASSUME NEW d \in Devices, recreateCounter(d)
        PROVE  \A e \in Devices : counter[e] <= counter'[e] /\ counter'[e] \in Nat
    <3> SUFFICES ASSUME NEW e \in Devices PROVE counter[e] <= counter'[e] /\ counter'[e] \in Nat
      OBVIOUS
    <3>1. counter'[e] = IF e = d THEN counter[e] + 1 ELSE counter[e]
      BY <2>1 DEF recreateCounter, IInv, TypeOK
    <3> QED
      BY <1>1, <3>1
  <2>2. CASE Tick
    BY <1>1, <2>2 DEF Tick
  <2>3. CASE UNCHANGED vars
    BY <1>1, <2>3 DEF vars
  <2> QED
    BY <2>1, <2>2, <2>3 DEF recreateCounter
<1>3. OriginInv'
  <2>1. \A b \in bundles : b.counter \in Nat /\ b.dev \in Devices /\ b.counter <= counter[b.dev]
    BY SetsOfBundles DEF IInv, TypeOK, FateInv, OriginInv
  <2>2. \A b \in bundles : b.counter <= counter'[b.dev]
    <3> SUFFICES ASSUME NEW b \in bundles PROVE b.counter <= counter'[b.dev]
      OBVIOUS
    <3>1. /\ b.counter \in Nat /\ b.counter <= counter[b.dev] /\ counter[b.dev] <= counter'[b.dev]
          /\ counter[b.dev] \in Nat /\ counter'[b.dev] \in Nat
      BY <1>1, <1>2, <2>1
    <3> QED
      BY <3>1
  <2> QED
    BY <1>2, <2>2 DEF FateInv, OriginInv
<1>4. TakenInv' /\ HandledInv' /\ SeenInv' /\ SumInv' /\ TogetherInv'
  BY <1>1, <1>2, NothingTaken DEF apps
<1>5. HonestInv'
  BY <1>2, BooksKept DEF payees
<1> QED
  BY <1>3, <1>4, <1>5 DEF FateInv

\* sync takes over what is queued and still passes.
LEMMA SyncFate ==
    ASSUME IInv, FateInv, NEW S \in SUBSET Payees, sync(S)
    PROVE  FateInv'
<1>1. /\ batch = {}
      /\ batch' = {b \in UNION {queue[p] : p \in S} : Valid(b)}
      /\ queue' = [p \in Payees |-> IF p \in S THEN {} ELSE queue[p]]
      /\ together' = (together /\ S = Payees)
      /\ UNCHANGED <<now, counter, apps, bundles, last, accepted, cum, seen, commitments, settled, flagged>>
  BY DEF sync
<1>2. /\ Taken' = Taken /\ \A p \in Payees : AcceptedBy(p)' = AcceptedBy(p)
      /\ \A d : AllAccepted(d)' = AllAccepted(d)
      /\ SettledSet' = SettledSet /\ \A d : AllSettled(d)' = AllSettled(d)
  BY <1>1 DEF Taken, AcceptedBy, AllAccepted, SettledSet, AllSettled
<1>4. Queued' \cup batch' \subseteq Queued /\ \A b \in batch' : Valid(b)
  BY <1>1 DEF Queued
<1>5. \A b \in Queued : b \in Queued' \cup batch' \/ ~ Valid(b)
  BY <1>1 DEF Queued
<1>6. OriginInv'
  BY <1>1 DEF FateInv, OriginInv
<1>7. TakenInv'
  <2>1. \A b \in batch' : Valid(b)'
    BY <1>1, <1>4, ValidIs
  <2>2. \A p \in Payees : \A b \in AcceptedBy(p)' : b \in bundles' /\ b.payee = p /\ Passes(b)
    BY <1>1, <1>2 DEF FateInv, TakenInv
  <2>3. \A p \in Payees, d \in Devices : last'[p][d] <= counter'[d]
    BY <1>1 DEF FateInv, TakenInv
  <2>4. Queued' \cup batch' \cup SettledSet' \subseteq Taken'
    BY <1>2, <1>4 DEF FateInv, TakenInv
  <2> QED
    BY <2>1, <2>2, <2>3, <2>4 DEF TakenInv, Passes, Bind, Sound
<1>8. HandledInv'
  <2>1. \A b \in Taken : Passes(b)
    BY DEF FateInv, TakenInv, Taken
  <2>2. now <= expires => \A b \in Queued : b \in Queued' \cup batch'
    BY <1>5, <2>1, ValidIs DEF FateInv, TakenInv
  <2> QED
    BY <1>1, <1>2, <2>2 DEF FateInv, HandledInv, Known
<1>9. SeenInv' /\ SumInv'
  BY <1>1, <1>2 DEF FateInv, SeenInv, SumInv
<1>10. HonestInv'
  BY <1>1, BooksKept
<1>11. TogetherInv'
  <2>1. S = Payees => Queued' = {}
    BY <1>1 DEF Queued
  <2>2. \A d : ~ Undisturbed(d) => ~ Undisturbed(d)'
    BY <1>1, <1>2, DisturbedStays DEF apps
  <2>3. hasty' = hasty
    BY <1>1 DEF apps
  <2> QED
    BY <1>1, <1>2, <1>4, <2>1, <2>2, <2>3 DEF FateInv, TogetherInv
<1> QED
  BY <1>6, <1>7, <1>8, <1>9, <1>10, <1>11 DEF FateInv

\* The loop body of sync.
LEMMA SettleFate ==
    ASSUME IInv, FateInv, NEW b \in batch, settle(b)
    PROVE  FateInv'
<1>1. /\ NextItem(b) /\ batch' = batch \ {b}
      /\ UNCHANGED <<now, counter, apps, bundles, payees, together>>
  BY DEF settle
<1>2. /\ b \in Taken /\ b \in Bundle /\ b \in bundles /\ b.dev \in Devices /\ b.counter \in Nat
      /\ b.proof \in Proof
  BY SetsOfBundles DEF IInv, TypeOK, Bundle, FateInv, TakenInv
<1>3. /\ Taken' = Taken /\ Queued' = Queued /\ \A p \in Payees : AcceptedBy(p)' = AcceptedBy(p)
      /\ \A d : AllAccepted(d)' = AllAccepted(d)
  BY <1>1 DEF payees, Taken, AcceptedBy, AllAccepted, Queued
<1>5. \/ /\ Known(b) /\ UNCHANGED <<cum, seen, commitments, settled, flagged>>
      \/ /\ ~ Known(b) /\ ~ Follows(b)
         /\ flagged' = flagged \cup {b.dev} /\ UNCHANGED <<cum, seen, commitments, settled>>
      \/ /\ ~ Known(b) /\ Follows(b)
         /\ seen' = seen \cup {<<b.dev, b.counter>>} /\ commitments' = commitments \cup {b.proof}
         /\ cum' = [cum EXCEPT ![b.dev] = b.cum] /\ settled' = Append(settled, b)
         /\ UNCHANGED flagged
  BY DEF settle
<1>6. \/ SettledSet' = SettledSet /\ UNCHANGED <<cum, seen, commitments, settled>>
      \/ /\ SettledSet' = SettledSet \cup {b} /\ ~ Known(b) /\ Follows(b)
         /\ seen' = seen \cup {<<b.dev, b.counter>>} /\ commitments' = commitments \cup {b.proof}
         /\ cum' = [cum EXCEPT ![b.dev] = b.cum]
  <2>1. ASSUME settled' = Append(settled, b)
        PROVE  SettledSet' = SettledSet \cup {b}
    <3>1. /\ DOMAIN settled = 1 .. Len(settled) /\ Len(settled) \in Nat
          /\ DOMAIN settled' = 1 .. Len(settled) + 1
          /\ settled'[Len(settled) + 1] = b
          /\ \A i \in 1 .. Len(settled) : settled'[i] = settled[i]
      BY <2>1 DEF IInv, TypeOK
    <3>2. ASSUME NEW x \in SettledSet'
          PROVE  x \in SettledSet \cup {b}
      <4>1. PICK i \in DOMAIN settled' : x = settled'[i]
        BY <3>2 DEF SettledSet
      <4>2. i \in DOMAIN settled \/ i = Len(settled) + 1
        BY <3>1, <4>1
      <4> QED
        BY <3>1, <4>1, <4>2 DEF SettledSet
    <3>3. ASSUME NEW i \in DOMAIN settled
          PROVE  i \in DOMAIN settled' /\ settled'[i] = settled[i]
      BY <3>1
    <3>4. Len(settled) + 1 \in DOMAIN settled'
      BY <3>1
    <3> QED
      BY <3>1, <3>2, <3>3, <3>4 DEF SettledSet
  <2>2. settled' = settled => SettledSet' = SettledSet
    BY DEF SettledSet
  <2> QED
    BY <1>5, <2>1, <2>2
<1>7. OriginInv'
  BY <1>1 DEF FateInv, OriginInv
<1>8. TakenInv'
  <2>1. \A a \in batch' : Valid(a)'
    BY <1>1, ValidIs DEF FateInv, TakenInv
  <2>2. \A p \in Payees : \A a \in AcceptedBy(p)' : a \in bundles' /\ a.payee = p /\ Passes(a)
    BY <1>1, <1>3 DEF FateInv, TakenInv
  <2>3. \A p \in Payees, d \in Devices : last'[p][d] <= counter'[d]
    BY <1>1 DEF FateInv, TakenInv, payees
  <2>4. Queued' \cup batch' \cup SettledSet' \subseteq Taken'
    BY <1>1, <1>2, <1>3, <1>6 DEF FateInv, TakenInv
  <2> QED
    BY <2>1, <2>2, <2>3, <2>4 DEF TakenInv, Passes, Bind, Sound
<1>9. HandledInv'
  <2>1. b.dev \in flagged' \/ Known(b)'
    BY <1>5 DEF Known
  <2>2. flagged \subseteq flagged' /\ seen \subseteq seen' /\ commitments \subseteq commitments'
    BY <1>5
  <2> QED
    BY <1>1, <1>3, <2>1, <2>2 DEF FateInv, HandledInv, Known
<1>10. SeenInv'
  BY <1>6 DEF FateInv, SeenInv
<1>11. SumInv'
  <2> SUFFICES ASSUME NEW d \in Devices PROVE cum'[d] = AmountOf(AllSettled(d)')
    BY DEF SumInv
  <2>1. cum[d] = AmountOf(AllSettled(d))
    BY DEF FateInv, SumInv
  <2>2. CASE SettledSet' = SettledSet /\ UNCHANGED cum
    <3>1. AllSettled(d)' = AllSettled(d)
      BY <2>2 DEF AllSettled
    <3> QED
      BY <2>1, <2>2, <3>1
  <2>3. CASE SettledSet' = SettledSet \cup {b} /\ ~ Known(b) /\ Follows(b) /\ cum' = [cum EXCEPT ![b.dev] = b.cum]
    <3>1. CASE d # b.dev
      <4>1. AllSettled(d)' = AllSettled(d) /\ cum'[d] = cum[d]
        BY <2>3, <3>1 DEF AllSettled, IInv, TypeOK
      <4> QED
        BY <2>1, <4>1
    <3>2. CASE d = b.dev
      <4>1. AllSettled(d)' = AllSettled(d) \cup {b} /\ cum'[d] = b.cum
        BY <2>3, <3>2 DEF AllSettled, IInv, TypeOK
      <4>2. b \notin AllSettled(d)
        BY <2>3 DEF Known, AllSettled, SettledSet, IInv, LedgerInv, RememberInv
      <4>3. IsFiniteSet(AllSettled(d)) /\ AllSettled(d) \subseteq Bundle
        BY SetsOfBundles DEF IInv, FateInv
      <4>4. AmountOf(AllSettled(d) \cup {b}) = AmountOf(AllSettled(d)) + b.amount
        BY <1>2, <4>2, <4>3, AmountAdd
      <4>5. b.cum = cum[d] + b.amount
        BY <2>3, <3>2 DEF Follows
      <4> QED
        BY <2>1, <4>1, <4>4, <4>5
    <3> QED
      BY <3>1, <3>2
  <2> QED
    BY <1>6, <2>2, <2>3
<1>12. HonestInv'
  BY <1>1, BooksKept DEF payees
<1>13. TogetherInv'
  <2> SUFFICES ASSUME together
               PROVE  /\ Queued = {}
                      /\ \A d \in flagged' : ~ Undisturbed(d)'
                      /\ \A s \in SettledSet', a \in batch' :
                            s.dev = a.dev /\ s.dev \notin Manipulated \cup hasty => s.counter < a.counter
    BY <1>1, <1>3 DEF TogetherInv, apps
  <2>1. Queued = {} /\ \A d \in flagged : ~ Undisturbed(d)
    BY DEF FateInv, TogetherInv
  <2>2. Follows(b) \/ ~ Undisturbed(b.dev)
    BY <1>1, HonestFollows
  <2>3. \A d \in flagged' : ~ Undisturbed(d)
    BY <1>5, <2>1, <2>2
  <2>4. \A d \in flagged' : ~ Undisturbed(d)'
    BY <1>1, <1>3, <1>6, <2>3, DisturbedStays DEF apps
  <2>5. ASSUME NEW a \in batch', a.dev = b.dev
        PROVE  b.counter < a.counter
    <3>1. a \in batch /\ a # b /\ a \in bundles /\ a.counter \in Nat
      BY <1>1, SetsOfBundles DEF IInv, FateInv, TakenInv
    <3>2. a.counter # b.counter
      BY <1>2, <2>5, <3>1 DEF FateInv, OriginInv
    <3>3. b.counter <= a.counter
      BY <1>1, <2>5, <3>1 DEF NextItem
    <3> QED
      BY <1>2, <3>1, <3>2, <3>3
  <2>6. \A s \in SettledSet, a \in batch' :
           s.dev = a.dev /\ s.dev \notin Manipulated \cup hasty => s.counter < a.counter
    BY <1>1 DEF FateInv, TogetherInv
  <2> QED
    BY <1>6, <2>1, <2>4, <2>5, <2>6
<1> QED
  BY <1>7, <1>8, <1>9, <1>10, <1>11, <1>12, <1>13 DEF FateInv

LEMMA NextFate == IInv /\ FateInv /\ [Next]_vars => FateInv'
<1> SUFFICES ASSUME IInv, FateInv, [Next]_vars PROVE FateInv'
  OBVIOUS
<1>1. ASSUME NEW d \in Devices, NEW p \in Payees, NEW amount \in Amounts, NEW viol \in BOOLEAN,
             pay(d, p, amount, viol)
      PROVE  FateInv'
  BY <1>1, PayFate
<1>2. ASSUME NEW d \in Devices, NEW p \in Payees, NEW amount \in Amounts, NEW viol \in BOOLEAN,
             NEW sum \in Totals,
             NEW proof \in {FreshProof(d, amount, viol)} \cup {b.proof : b \in bundles},
             payAsLiked(d, p, amount, sum, proof)
      PROVE  FateInv'
  <2>1. sum \in Nat
    BY OfflineAssumption DEF Totals
  <2>2. FreshProof(d, amount, viol) \in Proof
    BY <1>2, FreshIs DEF IInv, payAsLiked
  <2>3. proof \in Proof
    BY <2>2 DEF IInv, TypeOK, Bundle
  <2> QED
    BY <1>2, <2>1, <2>3, PayAsLikedFate
<1>6. ASSUME NEW b \in open, confirm(b)
      PROVE  FateInv'
  BY <1>6, ConfirmFate
<1>3. ASSUME NEW p \in Payees, NEW made \in bundles, NEW q \in Payees, NEW v \in Amounts,
             receive(p, Carried(made, q, v))
      PROVE  FateInv'
  BY <1>3, ReceiveFate
<1>4. ASSUME NEW S \in SUBSET Payees, sync(S)
      PROVE  FateInv'
  BY <1>4, SyncFate
<1>5. ASSUME NEW b \in batch, settle(b)
      PROVE  FateInv'
  BY <1>5, SettleFate
<1> QED
  BY <1>1, <1>2, <1>3, <1>4, <1>5, <1>6, RestFate DEF Next

LEMMA FateInvariance == Spec => [](IInv /\ FateInv)
<1> QED
  BY InitEstablishes, NextPreserves, InitFate, NextFate, PTL DEF Spec

------------------------------------------------------------------------------
(* Theorems.                                                                 *)

\* Every reachable state is well typed; no device's settled total exceeds its allowance.
THEOREM OfflineTypeCorrect == Spec => []TypeOK
<1>1. IInv => TypeOK
  BY DEF IInv
<1> QED
  BY <1>1, Invariance, PTL

\* Each settled payment comes on top of all that the device settled before, within its
\* allowance, however its app lies and whichever payees reconnect in which company
\* (Ledger.sync).
THEOREM AllowanceHolds == Spec => []SettledWithinAllowance
<1>1. IInv => SettledWithinAllowance
  BY DEF IInv, LedgerInv
<1> QED
  BY <1>1, Invariance, PTL

\* What settles was made by the device as it is settled (check_bundle, attestation).
THEOREM AttestedSettles == Spec => []SettledIsAttested
<1>1. IInv => SettledIsAttested
  BY DEF IInv, LedgerInv
<1> QED
  BY <1>1, Invariance, PTL

\* No attestation and no commitment settles twice, and no payee takes a payment twice
\* (Ledger.sync, seen and commitments; Payee.receive, last counter).
THEOREM NothingCountsTwice == Spec => []NothingTwice
<1>1. IInv => NothingTwice
  BY DEF IInv, LedgerInv, PayeeInv, NothingTwice
<1> QED
  BY <1>1, Invariance, PTL

\* Once all payees have reconnected in time, a device that had more accepted than its allowance is
\* flagged, where payments whose proof settled in another payment, of whichever device, do not
\* count: the ledger refuses those as already settled without a flag (Ledger.sync). Had it not
\* been flagged, all that count would be settled, and their sum within the allowance.
THEOREM OverspendingIsFlagged == Spec => []OverspendDetected
<1>1. IInv /\ FateInv => OverspendDetected
  <2> SUFFICES ASSUME IInv, FateInv PROVE OverspendDetected
    OBVIOUS
  <2> SUFFICES ASSUME NEW d \in Devices, Synced, now <= expires, d \notin flagged,
                      AmountOf({b \in AllAccepted(d) : ~ Displaced(b)}) > allowance
               PROVE  FALSE
    BY DEF OverspendDetected
  <2> DEFINE counted == {b \in AllAccepted(d) : ~ Displaced(b)}
  <2>1. Queued = {} /\ batch = {}
    BY DEF Synced, Queued
  <2>2. ASSUME NEW b \in AllAccepted(d), ~ Displaced(b)
        PROVE  b \in AllSettled(d)
    <3>1. b \in Taken /\ b.dev = d /\ b \in bundles
      BY <2>2, SetsOfBundles, LiveIs DEF IInv, FateInv
    <3>2. Known(b)
      BY <2>1, <3>1 DEF FateInv, HandledInv
    <3>3. SettledSet \subseteq bundles
      BY SetsOfBundles DEF IInv, FateInv, TakenInv
    <3>4. CASE <<b.dev, b.counter>> \in seen
      BY <3>1, <3>3, <3>4 DEF FateInv, SeenInv, OriginInv, AllSettled
    <3>5. CASE b.proof \in commitments
      BY <2>2, <3>1, <3>5 DEF FateInv, SeenInv, Displaced, AllSettled
    <3> QED
      BY <3>2, <3>4, <3>5 DEF Known
  <2>3. IsFiniteSet(AllSettled(d)) /\ AllSettled(d) \subseteq Bundle /\ counted \in SUBSET AllSettled(d)
    BY <2>2, SetsOfBundles DEF IInv, FateInv
  <2> HIDE DEF counted
  <2>4. AmountOf(counted) <= AmountOf(AllSettled(d))
    BY <2>3, AmountMonotone
  <2>5. cum[d] = AmountOf(AllSettled(d)) /\ cum[d] \in 0 .. allowance /\ allowance \in Nat
    BY OfflineAssumption DEF FateInv, SumInv, IInv, TypeOK
  <2>6. AmountOf(counted) \in Nat /\ AmountOf(counted) > allowance
    BY <2>3, AmountNat, FS_Subset DEF counted
  <2> QED
    BY <2>4, <2>5, <2>6
<1> QED
  BY <1>1, FateInvariance, PTL

\* While payees reconnect together, an honest device is not flagged, and what was accepted from it
\* is settled once all have reconnected in time, if its app concludes each payment before the next
\* and no manipulated device has settled one of its proofs first (Payer.pay, Payer.confirm,
\* Ledger.sync).
THEOREM HonestGetPaid == Spec => []HonestPaidOut
<1>1. IInv /\ FateInv => HonestPaidOut
  <2> SUFFICES ASSUME IInv, FateInv PROVE HonestPaidOut
    OBVIOUS
  <2>1. HonestNeverFlagged
    BY DEF HonestNeverFlagged, FateInv, TogetherInv
  <2>2. AcceptedIsSettled
    <3> SUFFICES ASSUME NEW d \in Devices, together, Synced, now <= expires, Undisturbed(d),
                        NEW b \in AllAccepted(d)
                 PROVE  b \in SettledSet
      BY DEF AcceptedIsSettled
    <3>1. b \in Taken /\ b.dev = d
      BY SetsOfBundles, LiveIs DEF IInv, FateInv
    <3>2. Queued = {} /\ batch = {}
      BY DEF Synced, Queued
    <3>3. Known(b)
      BY <2>1, <3>1, <3>2 DEF FateInv, HandledInv, HonestNeverFlagged
    <3> QED
      BY <3>1, <3>3, KnownIsSettled
  <2> QED
    BY <2>1, <2>2 DEF HonestPaidOut
<1> QED
  BY <1>1, FateInvariance, PTL
==============================================================================
