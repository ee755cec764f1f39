--------------------------- MODULE OfflinePayments ---------------------------
(***************************************************************************)
(* Offline payments, integration/embodiments/offline_sim.py.  Payer        *)
(* devices with a secure element pay without a network up to an allowance  *)
(* that the validators have certified for them; payees check and queue the *)
(* bundles; when payees reconnect the ledger settles what they queued.     *)
(*                                                                         *)
(* The secure element's attestation cannot be forged: it is the field att  *)
(* of a bundle, which nobody alters, while whoever carries the bundle may  *)
(* alter what it claims.  A commitment stands for the proof it is in, and  *)
(* neither is tied to a device: whoever has seen a bundle can have its     *)
(* proof certified by a secure element of its own.  The snapshot, its      *)
(* three signatures and the device's certified key are the constants       *)
(* allowance and expires.                                                  *)
(***************************************************************************)
EXTENDS Integers, Sequences, FiniteSets, Functions

CONSTANTS
    Devices, Payees,
    Manipulated,      \* the devices whose app declares what it likes
    Amounts,          \* what a payment can be
    allowance, expires,
    MaxCounter, MaxTime   \* bounds: attestations per device, time

ASSUME OfflineAssumption ==
    /\ Manipulated \subseteq Devices
    /\ Amounts \subseteq Nat \ {0}
    /\ {allowance, expires, MaxTime} \subseteq Nat /\ MaxCounter \in Nat \ {0}

VARIABLES
    now,
    counter,          \* per device: its secure element's monotonic counter
    total,            \* per device: the app's offline spending so far (Payer.cum)
    open,             \* bundles of honest apps that they have not confirmed
    hasty,            \* devices that have paid while a payment that passes was unconfirmed
    bundles,          \* every bundle a device has made: anybody may show one again
    last, queue,      \* per payee: last counter seen of each device, bundles to hand in
    accepted,         \* per payee: the payments it took, in order
    batch,            \* what a running sync still has to settle
    cum, seen, commitments, settled, flagged,  \* the ledger
    together          \* whether payees have always reconnected all at once, as in main()

payees == <<last, queue, accepted>>
ledger == <<batch, cum, seen, commitments, settled, flagged, together>>
apps   == <<total, open, hasty>>
vars   == <<now, counter, apps, bundles, payees, ledger>>

Counters == 0 .. MaxCounter
\* A commitment's randomness, named by the draw that gave it: no secure element draws the same
\* twice, and no check looks at who drew it.
Draws    == Devices \X Counters
Proof    == [r : Draws, amount : Amounts, viol : BOOLEAN]
Binding  == [proof : Proof, payee : Payees, amount : Amounts, cum : Nat]
Bundle   == [dev : Devices, counter : Counters, proof : Proof, payee : Payees, amount : Amounts,
             cum : Nat, att : Binding]

\* Payee: nothing queued, no counter of any device seen.
payeesInit ==
    /\ last = [p \in Payees |-> [d \in Devices |-> 0]]
    /\ queue = [p \in Payees |-> {}]
    /\ accepted = [p \in Payees |-> <<>>]

\* Ledger: nothing seen, nothing settled, nobody flagged.
ledgerInit ==
    /\ batch = {}
    /\ cum = [d \in Devices |-> 0]
    /\ seen = {} /\ commitments = {} /\ settled = <<>> /\ flagged = {}
    /\ together = TRUE

Init ==
    /\ now = 0
    /\ counter = [d \in Devices |-> 1]
    /\ total = [d \in Devices |-> 0]
    /\ open = {} /\ hasty = {}
    /\ bundles = {}
    /\ payeesInit /\ ledgerInit

------------------------------------------------------------------------------
(* What a payee checks offline and the ledger checks again.                  *)

\* Variants of the operations, each with one slip; only the mutation runs use them.
ValidUnbound(b) ==
    /\ now <= expires
    /\ b.amount <= b.cum /\ b.cum <= allowance
    /\ b.amount = b.proof.amount
    /\ ~ b.proof.viol

\* check_bundle, without the two checks that only a payee makes.
Valid(b) ==
    /\ now <= expires
    /\ b.att = [proof |-> b.proof, payee |-> b.payee, amount |-> b.amount, cum |-> b.cum]
    /\ b.amount <= b.cum /\ b.cum <= allowance
    /\ b.amount = b.proof.amount
    /\ ~ b.proof.viol

AcceptableAgain(p, b) == Valid(b) /\ b.payee = p

Acceptable(p, b) == Valid(b) /\ b.payee = p /\ b.counter > last[p][b.dev]

------------------------------------------------------------------------------
(* Payer devices.                                                            *)

\* SecureElement.certify: the counter goes up and is signed with what the app asks for.
Certified(d, proof, p, amount, sum) ==
    [dev |-> d, counter |-> counter[d] + 1, proof |-> proof, payee |-> p, amount |-> amount, cum |-> sum,
     att |-> [proof |-> proof, payee |-> p, amount |-> amount, cum |-> sum]]

\* random_ternary and prove.
FreshProof(d, amount, viol) == [r |-> <<d, counter[d] + 1>>, amount |-> amount, viol |-> viol]

\* The payments of d that a payee may still take, or has taken, and that the app has not confirmed.
Outstanding(d) == {b \in open : b.dev = d /\ Valid(b)}

\* An honest app refuses beyond the allowance, judged by the payments it has confirmed.
pay(d, p, amount, viol) ==
    LET b == Certified(d, FreshProof(d, amount, viol), p, amount, total[d] + amount) IN
    /\ batch = {}
    /\ d \notin Manipulated /\ counter[d] < MaxCounter
    /\ total[d] + amount <= allowance
    /\ counter' = [counter EXCEPT ![d] = @ + 1]
    /\ bundles' = bundles \cup {b} /\ open' = open \cup {b}
    /\ hasty' = IF Outstanding(d) = {} THEN hasty ELSE hasty \cup {d}
    /\ UNCHANGED <<now, total, payees, ledger>>

\* The totals worth declaring: those above the allowance are as good as each other.
Totals == 1 .. allowance + 1

\* A manipulated app declares any total (lie_cum), with a proof of its own making or any that it
\* has seen.
payAsLiked(d, p, amount, sum, proof) ==
    /\ batch = {}
    /\ d \in Manipulated /\ counter[d] < MaxCounter
    /\ counter' = [counter EXCEPT ![d] = @ + 1]
    /\ bundles' = bundles \cup {Certified(d, proof, p, amount, sum)}
    /\ UNCHANGED <<now, apps, payees, ledger>>

AcceptedBy(p) == {accepted[p][i] : i \in DOMAIN accepted[p]}

confirmRefused(b) ==
    /\ batch = {}
    /\ total' = [total EXCEPT ![b.dev] = b.cum]
    /\ open' = open \ {b}
    /\ UNCHANGED <<now, counter, hasty, bundles, payees, ledger>>

\* The payee has taken the payment: the total it declares is what is spent.
confirm(b) ==
    /\ batch = {}
    /\ b \in AcceptedBy(b.payee)
    /\ total' = [total EXCEPT ![b.dev] = b.cum]
    /\ open' = open \ {b}
    /\ UNCHANGED <<now, counter, hasty, bundles, payees, ledger>>

\* The counter is deleted and defined again: the TPM resumes above the old value.
recreateCounter(d) ==
    /\ batch = {}
    /\ counter[d] < MaxCounter
    /\ counter' = [counter EXCEPT ![d] = @ + 1]
    /\ UNCHANGED <<now, apps, bundles, payees, ledger>>

------------------------------------------------------------------------------
(* Payees.                                                                   *)

\* Whoever carries a bundle may change the payee and the amount it names, or leave them.
Carried(b, q, v) == [b EXCEPT !.payee = q, !.amount = v]

Take(p, b) ==
    /\ last' = [last EXCEPT ![p][b.dev] = b.counter]
    /\ queue' = [queue EXCEPT ![p] = @ \cup {b}]
    /\ accepted' = [accepted EXCEPT ![p] = Append(@, b)]

\* A bundle is shown to payee p, for the first time or again.
receive(p, b) ==
    /\ batch = {}
    /\ Acceptable(p, b)
    /\ Take(p, b)
    /\ UNCHANGED <<now, counter, apps, bundles, ledger>>

------------------------------------------------------------------------------
(* The ledger.  sync runs to its end before anything else happens; its loop  *)
(* body is an action.                                                        *)

sync(S) ==
    /\ batch = {}
    /\ S # {}
    /\ together' = (together /\ S = Payees)
    /\ batch' = {b \in UNION {queue[p] : p \in S} : Valid(b)}
    /\ queue' = [p \in Payees |-> IF p \in S THEN {} ELSE queue[p]]
    /\ UNCHANGED <<now, counter, apps, bundles, last, accepted, cum, seen, commitments, settled, flagged>>

\* Variants of the loop's conditions, each with one slip; only the mutation runs use them.
FollowsRoughly(b) == b.cum >= b.amount

\* The items are taken in the order of the secure element's counter.
NextItem(b) == \A o \in batch : o.dev = b.dev => b.counter <= o.counter

Known(b)   == <<b.dev, b.counter>> \in seen \/ b.proof \in commitments
Follows(b) == b.cum = cum[b.dev] + b.amount

settle(b) ==
    /\ b \in batch /\ NextItem(b)
    /\ batch' = batch \ {b}
    /\ \/ /\ Known(b)
          /\ UNCHANGED <<cum, seen, commitments, settled, flagged>>
       \/ /\ ~ Known(b) /\ ~ Follows(b)
          /\ flagged' = flagged \cup {b.dev}
          /\ UNCHANGED <<cum, seen, commitments, settled>>
       \/ /\ ~ Known(b) /\ Follows(b)
          /\ seen' = seen \cup {<<b.dev, b.counter>>}
          /\ commitments' = commitments \cup {b.proof}
          /\ cum' = [cum EXCEPT ![b.dev] = b.cum]
          /\ settled' = Append(settled, b)
          /\ UNCHANGED flagged
    /\ UNCHANGED <<now, counter, apps, bundles, payees, together>>

Tick ==
    /\ batch = {}
    /\ now < MaxTime
    /\ now' = now + 1
    /\ UNCHANGED <<counter, apps, bundles, payees, ledger>>

Next ==
    \/ \E d \in Devices, p \in Payees, amount \in Amounts, viol \in BOOLEAN :
          \/ pay(d, p, amount, viol)
          \/ \E sum \in Totals, proof \in {FreshProof(d, amount, viol)} \cup {b.proof : b \in bundles} :
                payAsLiked(d, p, amount, sum, proof)
    \/ \E b \in open : confirm(b)
    \/ \E d \in Devices : recreateCounter(d)
    \/ \E p \in Payees, b \in bundles, q \in Payees, v \in Amounts : receive(p, Carried(b, q, v))
    \/ \E S \in SUBSET Payees : sync(S)
    \/ \E b \in batch : settle(b)
    \/ Tick

Spec == Init /\ [][Next]_vars

------------------------------------------------------------------------------
(* Properties.                                                               *)

TypeOK ==
    /\ now \in Nat
    /\ counter \in [Devices -> Counters] /\ total \in [Devices -> 0 .. allowance]
    /\ open \subseteq bundles /\ hasty \subseteq Devices
    /\ bundles \subseteq Bundle
    /\ last \in [Payees -> [Devices -> Counters]]
    /\ queue \in [Payees -> SUBSET Bundle] /\ accepted \in [Payees -> Seq(Bundle)]
    /\ batch \subseteq Bundle
    /\ cum \in [Devices -> 0 .. allowance]
    /\ seen \subseteq Devices \X Counters /\ commitments \subseteq Proof
    /\ settled \in Seq(Bundle) /\ flagged \subseteq Devices /\ together \in BOOLEAN

\* However an app lies, and in whatever order and company its payees reconnect, each settled
\* payment of a device comes on top of all that were settled before, within the allowance: a
\* device never settles more than its allowance in total.
SettledWithinAllowance ==
    \A i \in DOMAIN settled :
        /\ settled[i].cum <= allowance
        /\ \A j \in 1 .. i - 1 :
              settled[j].dev = settled[i].dev => settled[j].cum + settled[i].amount <= settled[i].cum

\* No attestation and no commitment settles twice, also when it is queued by several payees or
\* handed in at several syncs.
SettledOnce ==
    \A i, j \in DOMAIN settled :
        i # j => /\ <<settled[i].dev, settled[i].counter>> # <<settled[j].dev, settled[j].counter>>
                 /\ settled[i].proof # settled[j].proof

\* What settles is a payment some device made, unaltered on its way: payee, amount and total are
\* those bound by the secure element, and the amount is the one proven.
SettledIsAttested ==
    \A i \in DOMAIN settled : settled[i] \in bundles /\ settled[i].amount = settled[i].proof.amount

\* A payee takes no payment twice, so that it never hands out goods for a replay.
AcceptedOnce ==
    \A p \in Payees : \A i, j \in DOMAIN accepted[p] :
        i # j => <<accepted[p][i].dev, accepted[p][i].counter>> # <<accepted[p][j].dev, accepted[p][j].counter>>

\* No payment counts twice, neither for goods at a payee nor for money at the ledger.
NothingTwice == SettledOnce /\ AcceptedOnce

AllAccepted(d) == {b \in UNION {AcceptedBy(p) : p \in Payees} : b.dev = d}

AmountOf(S) == SumFunction([b \in S |-> b.amount])

Synced == batch = {} /\ \A p \in Payees : queue[p] = {}

SettledSet == {settled[i] : i \in DOMAIN settled}

\* The proof of b has settled in another payment, so that b itself is refused as already settled.
Displaced(b) == \E s \in SettledSet : s # b /\ s.proof = b.proof

\* "overspending the offline allowance is detected at sync and the device is flagged": once all
\* payees have reconnected in time, whichever first, a device that had more accepted than its
\* allowance is flagged; payments whose proof settled in another payment are refused without a
\* flag and do not count.
OverspendDetected ==
    \A d \in Devices :
        /\ Synced /\ now <= expires
        /\ AmountOf({b \in AllAccepted(d) : ~ Displaced(b)}) > allowance
        => d \in flagged

\* A proof of an accepted payment of d was settled in a manipulated device's payment.
Forestalled(d) == \E b \in AllAccepted(d), s \in SettledSet : s.dev \in Manipulated /\ s.proof = b.proof

\* An honest app that concludes each payment before the next, none of whose proofs another
\* device has settled first.
Undisturbed(d) == d \notin Manipulated \cup hasty /\ ~ Forestalled(d)

\* Payees that reconnect together never get an undisturbed device flagged.
HonestNeverFlagged == together => \A d \in flagged : ~ Undisturbed(d)

\* What was accepted from an undisturbed device is settled when all payees have reconnected
\* before the snapshot expires, each time together.
AcceptedIsSettled ==
    \A d \in Devices :
        together /\ Synced /\ now <= expires /\ Undisturbed(d) => AllAccepted(d) \subseteq SettledSet

\* An honest device's payments are paid out and the device stays in good standing, whatever else
\* a manipulated device does at the same payees, unless its app pays before it has concluded the
\* payment before, or another device settles one of its proofs first.
HonestPaidOut == HonestNeverFlagged /\ AcceptedIsSettled

\* "overspending the offline allowance is detected at sync and the device is flagged" (module
\* docstring): a flagged device has had more accepted than it was allowed, lied, or paid before
\* it had concluded the payment before.
FlaggedHasOverspent ==
    \A d \in flagged :
        d \in Manipulated \cup hasty \/ AmountOf(AllAccepted(d)) > allowance
==============================================================================
