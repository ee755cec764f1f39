--------------------------- MODULE Admission_proofs ---------------------------
(***************************************************************************)
(* Safety of Admission for any number of TPMs, accounts, keys, challenges, *)
(* nonces and attestations, and of the attested enclaves built on it.      *)
(***************************************************************************)
EXTENDS Attestation, TLAPS

------------------------------------------------------------------------------
(* The inductive invariant.                                                  *)

\* Whatever material was mixed, a challenge is for a key made in some TPM, and only the TPM the
\* key is in recovers its secret.
ChallengeInv ==
    /\ \A a \in Accounts : pending[a] # NoPending => pending[a].ak.resident
    /\ \A a \in activated : pending[a].ak.tpm = pending[a].tpm

\* The registry remembers of each admission its counter and that its nonce is used up.
HistoryInv ==
    \A i \in DOMAIN admitted :
        /\ operators[admitted[i].tpm] # NoOperator
        /\ admitted[i].counter <= operators[admitted[i].tpm].last_counter
        /\ admitted[i].nonce \in 1 .. issued /\ admitted[i].nonce \notin nonces

AdmissionInv == HistoryInv /\ AdmittedInOrder /\ AdmittedIsAttested

IInv == TypeOK /\ KeysAreResident /\ ChallengeInv /\ AdmissionInv

------------------------------------------------------------------------------
(* Lemmas.                                                                   *)

\* Appending to a sequence: the old entries stay, the new one is the last.
LEMMA AppendedTo ==
    ASSUME NEW S, NEW s \in Seq(S), NEW e \in S
    PROVE  /\ Append(s, e) \in Seq(S)
           /\ \A i \in DOMAIN Append(s, e) :
                 \/ i \in DOMAIN s /\ i # Len(s) + 1 /\ Append(s, e)[i] = s[i]
                 \/ i = Len(s) + 1 /\ Append(s, e)[i] = e
           /\ \A i \in DOMAIN s : i < Len(s) + 1
  OBVIOUS

\* The keys a TPM holds.
LEMMA HeldKeys ==
    ASSUME TypeOK, NEW t \in TPMs
    PROVE  /\ Resident(t) \in AK /\ Resident(t).tpm = t /\ Resident(t).resident
           /\ Imported(t) \in AK /\ Imported(t).tpm = t /\ ~ Imported(t).resident
<1>1. key[t] \in 1 .. MaxKeys /\ MaxKeys \in Nat
  BY AdmissionAssumption DEF TypeOK
<1>2. key[t] \in 0 .. MaxKeys /\ 0 \in 0 .. MaxKeys
  BY <1>1
<1> QED
  BY <1>2 DEF Resident, Imported, AK

\* What admissions rest on changes with them only.
LEMMA AdmissionsUntouched ==
    ASSUME IInv, UNCHANGED <<nonces, admitted>>, attests \subseteq attests',
           issued' \in Nat, issued <= issued',
           \A t \in TPMs : operators[t] # NoOperator => operators'[t] = operators[t]
    PROVE  AdmissionInv'
<1>1. issued \in Nat
  BY AdmissionAssumption DEF IInv, TypeOK
<1>2. \A i \in DOMAIN admitted : admitted[i].tpm \in TPMs
  <2>1. admitted \in Seq(Admitted)
    BY DEF IInv, TypeOK
  <2>2. \A i \in DOMAIN admitted : admitted[i] \in Admitted
    BY <2>1
  <2> QED
    BY <2>2 DEF Admitted
<1>3. HistoryInv'
  BY <1>1, <1>2 DEF IInv, AdmissionInv, HistoryInv
<1>4. AdmittedInOrder'
  BY DEF IInv, AdmissionInv, AdmittedInOrder
<1>5. AdmittedIsAttested'
  BY DEF IInv, AdmissionInv, AdmittedIsAttested
<1> QED
  BY <1>3, <1>4, <1>5 DEF AdmissionInv

\* Neither do enrolments depend on what TPMs certify and the registry admits.
LEMMA EnrolmentUntouched ==
    ASSUME IInv, UNCHANGED <<ak_owner, pending, activated>>,
           \A t \in TPMs : operators[t] # NoOperator => operators'[t] # NoOperator
    PROVE  KeysAreResident' /\ ChallengeInv'
<1>1. \A ak \in AK : ak.tpm \in TPMs
  BY DEF AK
<1>2. KeysAreResident'
  BY <1>1 DEF IInv, KeysAreResident
<1>3. ChallengeInv'
  BY DEF IInv, ChallengeInv
<1> QED
  BY <1>2, <1>3

------------------------------------------------------------------------------
(* Every action preserves the invariant.                                     *)

LEMMA InitEstablishes == Init => IInv
<1> SUFFICES ASSUME Init PROVE IInv
  OBVIOUS
<1>1. /\ 1 \in 1 .. MaxKeys /\ 1 \in Counters /\ 0 \in 0 .. MaxNonces /\ 0 \in 0 .. MaxChallenges
      /\ <<>> \in Seq(Admitted) /\ DOMAIN <<>> = {}
  BY AdmissionAssumption DEF Counters
<1>2. TypeOK
  BY <1>1 DEF Init, TypeOK
<1>3. KeysAreResident /\ ChallengeInv
  BY DEF Init, KeysAreResident, ChallengeInv
<1>4. AdmissionInv
  BY <1>1 DEF Init, AdmissionInv, HistoryInv, AdmittedInOrder, AdmittedIsAttested
<1> QED
  BY <1>2, <1>3, <1>4 DEF IInv

\* The actions of the TPMs.
LEMMA TPMsPreserve ==
    ASSUME IInv, NEW t \in TPMs,
           \/ provision(t)
           \/ recreateCounter(t)
           \/ \E nonce \in 1 .. issued, agent \in Agents : attest_registration(t, nonce, agent)
    PROVE  IInv'
<1>1. /\ key' \in [TPMs -> 1 .. MaxKeys] /\ counter' \in [TPMs -> Counters]
      /\ attests' \subseteq Attest /\ attests \subseteq attests'
      /\ UNCHANGED <<enrolment, admission>>
  <2>1. key \in [TPMs -> 1 .. MaxKeys] /\ counter \in [TPMs -> Counters] /\ attests \subseteq Attest
    BY DEF IInv, TypeOK
  <2>2. CASE provision(t)
    <3>1. key[t] + 1 \in 1 .. MaxKeys
      BY <2>1, <2>2, AdmissionAssumption DEF provision
    <3> QED
      BY <2>1, <2>2, <3>1 DEF provision
  <2>3. ASSUME counter[t] < MaxCounter PROVE counter[t] + 1 \in Counters
    <3>1. counter[t] \in 0 .. MaxCounter /\ MaxCounter \in Nat
      BY <2>1, AdmissionAssumption DEF Counters
    <3> QED
      BY <2>3, <3>1 DEF Counters
  <2>4. CASE recreateCounter(t)
    BY <2>1, <2>3, <2>4 DEF recreateCounter
  <2>5. ASSUME NEW nonce \in 1 .. issued, NEW agent \in Agents, attest_registration(t, nonce, agent)
        PROVE  /\ key' \in [TPMs -> 1 .. MaxKeys] /\ counter' \in [TPMs -> Counters]
               /\ attests' \subseteq Attest /\ attests \subseteq attests'
               /\ UNCHANGED <<enrolment, admission>>
    <3>1. Resident(t) \in AK
      BY HeldKeys DEF IInv
    <3>2. nonce \in 1 .. MaxNonces
      BY AdmissionAssumption DEF IInv, TypeOK
    <3>3. counter[t] + 1 \in Counters
      BY <2>3, <2>5 DEF attest_registration
    <3>4. [ak |-> Resident(t), counter |-> counter[t] + 1, nonce |-> nonce, agent |-> agent] \in Attest
      BY <3>1, <3>2, <3>3 DEF Attest
    <3> QED
      BY <2>1, <2>5, <3>3, <3>4 DEF attest_registration
  <2> QED
    BY <2>2, <2>4, <2>5
<1>2. KeysAreResident' /\ ChallengeInv'
  BY <1>1, EnrolmentUntouched DEF enrolment
<1>3. issued' \in Nat /\ issued <= issued'
  BY <1>1, AdmissionAssumption DEF IInv, TypeOK, admission
<1>4. AdmissionInv'
  BY <1>1, <1>3, AdmissionsUntouched DEF enrolment, admission
<1>5. TypeOK'
  BY <1>1 DEF IInv, TypeOK, enrolment, admission
<1> QED
  BY <1>2, <1>4, <1>5 DEF IInv

LEMMA BeginPreserves ==
    ASSUME IInv, NEW a \in Accounts, NEW t \in TPMs, NEW ak \in AK, begin_enrolment(a, t, ak)
    PROVE  IInv'
<1> DEFINE p == [tpm |-> t, ak |-> ak]
<1>1. /\ challenged < MaxChallenges /\ challenged' = challenged + 1
      /\ ak.resident
      /\ pending' = [pending EXCEPT ![a] = p] /\ activated' = activated \ {a}
      /\ UNCHANGED <<tpmVars, operators, ak_owner, credentialed, admission>>
  BY DEF begin_enrolment, Enrollable
<1>2. p \in Pending /\ p # NoPending /\ p.ak = ak
  BY NoneAssumption DEF Pending
<1> HIDE DEF p
<1>3. challenged' \in 0 .. MaxChallenges
  BY <1>1, AdmissionAssumption DEF IInv, TypeOK
<1>4. pending' \in [Accounts -> Pending \cup {NoPending}]
  BY <1>1, <1>2 DEF IInv, TypeOK
<1>5. \A b \in Accounts : pending'[b] = IF b = a THEN p ELSE pending[b]
  BY <1>1 DEF IInv, TypeOK
<1>6. activated' \subseteq {b \in Accounts : pending'[b] # NoPending}
  BY <1>1, <1>5 DEF IInv, TypeOK
<1>7. TypeOK'
  BY <1>1, <1>3, <1>4, <1>6 DEF IInv, TypeOK, tpmVars, admission
<1>8. ChallengeInv'
  BY <1>1, <1>2, <1>5, <1>6 DEF IInv, ChallengeInv, TypeOK
<1>9. KeysAreResident'
  BY <1>1 DEF IInv, KeysAreResident
<1>10. AdmissionInv'
  BY <1>1, AdmissionAssumption, AdmissionsUntouched DEF IInv, TypeOK, tpmVars, admission
<1> QED
  BY <1>7, <1>8, <1>9, <1>10 DEF IInv

LEMMA ActivatePreserves ==
    ASSUME IInv, NEW a \in Accounts, activate_credential(a)
    PROVE  IInv'
<1>1. /\ pending[a] # NoPending
      /\ pending[a].ak \in {Resident(pending[a].tpm), Imported(pending[a].tpm)}
      /\ activated' = activated \cup {a}
      /\ UNCHANGED <<tpmVars, operators, ak_owner, pending, challenged, credentialed, admission>>
  BY DEF activate_credential
<1>2. pending[a] \in Pending /\ pending[a].tpm \in TPMs
  BY <1>1 DEF IInv, TypeOK, Pending
<1>3. pending[a].ak.tpm = pending[a].tpm
  BY <1>1, <1>2, HeldKeys DEF IInv
<1>4. ChallengeInv'
  BY <1>1, <1>3 DEF IInv, ChallengeInv
<1>5. KeysAreResident'
  BY <1>1 DEF IInv, KeysAreResident
<1>6. TypeOK'
  BY <1>1 DEF IInv, TypeOK, tpmVars, admission
<1>7. AdmissionInv'
  BY <1>1, AdmissionAssumption, AdmissionsUntouched DEF IInv, TypeOK, tpmVars, admission
<1> QED
  BY <1>4, <1>5, <1>6, <1>7 DEF IInv

\* Enrolling keeps the operators that are there (setdefault).
LEMMA BoundKeeps ==
    ASSUME TypeOK, NEW a \in Accounts, NEW p \in Pending
    PROVE  /\ Bound(p, a) \in [TPMs -> Operator \cup {NoOperator}]
           /\ Bound(p, a)[p.tpm] # NoOperator
           /\ \A t \in TPMs : operators[t] # NoOperator => Bound(p, a)[t] = operators[t]
           /\ New(p) => Bound(p, a)[p.tpm].account = a
<1> DEFINE o == [account |-> a, last_counter |-> 0]
<1>1. o \in Operator /\ o # NoOperator /\ o.account = a
  BY AdmissionAssumption, NoneAssumption DEF Operator, Counters
<1>2. p.tpm \in TPMs /\ operators \in [TPMs -> Operator \cup {NoOperator}]
  BY DEF Pending, TypeOK
<1> HIDE DEF o
<1>3. CASE New(p)
  <2>1. Bound(p, a) = [operators EXCEPT ![p.tpm] = o] /\ operators[p.tpm] = NoOperator
    BY <1>3 DEF Bound, New, o
  <2> QED
    BY <1>1, <1>2, <2>1
<1>4. CASE ~ New(p)
  BY <1>2, <1>4 DEF Bound, New
<1> QED
  BY <1>3, <1>4

\* finish_enrolment either enrols the challenged key or refuses; the challenge is used up.
LEMMA FinishPreserves ==
    ASSUME IInv, NEW a \in Accounts, NEW mined \in BOOLEAN, finish_enrolment(a, mined)
    PROVE  IInv'
<1> DEFINE p == pending[a]
<1>1. /\ p # NoPending
      /\ pending' = [pending EXCEPT ![a] = NoPending] /\ activated' = activated \ {a}
      /\ \/ /\ a \in activated
            /\ operators' = Bound(p, a)
            /\ ak_owner' = [ak_owner EXCEPT ![p.ak] = p.tpm]
            /\ credentialed' = Credentials(p, a, mined)
         \/ UNCHANGED <<operators, ak_owner, credentialed>>
      /\ UNCHANGED <<tpmVars, challenged, admission>>
  BY DEF finish_enrolment, RightSecret
<1>2. /\ p \in Pending /\ p.tpm \in TPMs /\ p.ak \in AK
      /\ p.ak.resident /\ (a \in activated => p.ak.tpm = p.tpm)
  BY <1>1 DEF IInv, TypeOK, Pending, ChallengeInv
<1> HIDE DEF p
<1>3. /\ \A b \in Accounts : pending'[b] = IF b = a THEN NoPending ELSE pending[b]
      /\ pending' \in [Accounts -> Pending \cup {NoPending}]
      /\ activated' \subseteq {b \in Accounts : pending'[b] # NoPending}
  BY <1>1 DEF IInv, TypeOK
<1>4. /\ operators' \in [TPMs -> Operator \cup {NoOperator}]
      /\ ak_owner' \in [AK -> TPMs \cup {Nobody}] /\ credentialed' \subseteq Accounts
      /\ \A t \in TPMs : operators[t] # NoOperator => operators'[t] = operators[t]
      /\ KeysAreResident'
  <2>1. CASE UNCHANGED <<operators, ak_owner, credentialed>>
    BY <2>1 DEF IInv, TypeOK, KeysAreResident
  <2>2. CASE /\ a \in activated
             /\ operators' = Bound(p, a)
             /\ ak_owner' = [ak_owner EXCEPT ![p.ak] = p.tpm]
             /\ credentialed' = Credentials(p, a, mined)
    <3>1. /\ operators' \in [TPMs -> Operator \cup {NoOperator}]
          /\ operators'[p.tpm] # NoOperator
          /\ \A t \in TPMs : operators[t] # NoOperator => operators'[t] = operators[t]
      BY <1>2, <2>2, BoundKeeps DEF IInv
    <3>2. /\ ak_owner' \in [AK -> TPMs \cup {Nobody}]
          /\ \A ak \in AK : ak_owner'[ak] = IF ak = p.ak THEN p.tpm ELSE ak_owner[ak]
      BY <1>2, <2>2 DEF IInv, TypeOK
    <3>3. credentialed' \subseteq Accounts
      BY <2>2 DEF IInv, TypeOK, Credentials
    <3>4. KeysAreResident'
      <4> SUFFICES ASSUME NEW ak \in AK, ak_owner'[ak] # Nobody
                   PROVE  ak.resident /\ ak.tpm = ak_owner'[ak] /\ operators'[ak.tpm] # NoOperator
        BY DEF KeysAreResident
      <4>1. CASE ak = p.ak
        BY <1>2, <2>2, <3>1, <3>2, <4>1
      <4>2. CASE ak # p.ak
        <5>1. ak.resident /\ ak.tpm = ak_owner[ak] /\ operators[ak.tpm] # NoOperator
          BY <3>2, <4>2 DEF IInv, KeysAreResident
        <5>2. ak.tpm \in TPMs
          BY DEF AK
        <5> QED
          BY <3>1, <3>2, <4>2, <5>1, <5>2
      <4> QED
        BY <4>1, <4>2
    <3> QED
      BY <3>1, <3>2, <3>3, <3>4
  <2> QED
    BY <1>1, <2>1, <2>2
<1>5. ChallengeInv'
  BY <1>1, <1>3 DEF IInv, ChallengeInv, TypeOK
<1>6. TypeOK'
  BY <1>1, <1>3, <1>4 DEF IInv, TypeOK, tpmVars, admission
<1>7. AdmissionInv'
  BY <1>1, <1>4, AdmissionAssumption, AdmissionsUntouched DEF IInv, TypeOK, tpmVars, admission
<1> QED
  BY <1>4, <1>5, <1>6, <1>7 DEF IInv

LEMMA RevokePreserves ==
    ASSUME IInv, NEW a \in Accounts, revokeCredential(a)
    PROVE  IInv'
<1>1. /\ credentialed' = credentialed \ {a}
      /\ UNCHANGED <<tpmVars, operators, ak_owner, pending, activated, challenged, admission>>
  BY DEF revokeCredential
<1>2. TypeOK'
  BY <1>1 DEF IInv, TypeOK, tpmVars, admission
<1>3. KeysAreResident' /\ ChallengeInv'
  BY <1>1, EnrolmentUntouched
<1>4. AdmissionInv'
  BY <1>1, AdmissionAssumption, AdmissionsUntouched DEF IInv, TypeOK, tpmVars, admission
<1> QED
  BY <1>2, <1>3, <1>4 DEF IInv

\* A fresh nonce is the nonce of no admission.
LEMMA NoncePreserves == IInv /\ issue_nonce => IInv'
<1> SUFFICES ASSUME IInv, issue_nonce PROVE IInv'
  OBVIOUS
<1>1. /\ issued < MaxNonces /\ issued' = issued + 1 /\ nonces' = nonces \cup {issued + 1}
      /\ UNCHANGED <<tpmVars, enrolment, admitted>>
  BY DEF issue_nonce
<1>2. /\ issued \in Nat /\ issued' \in 0 .. MaxNonces
      /\ nonces' \subseteq 1 .. issued'
  BY <1>1, AdmissionAssumption DEF IInv, TypeOK
<1>3. TypeOK'
  BY <1>1, <1>2 DEF IInv, TypeOK, tpmVars, enrolment
<1>4. KeysAreResident' /\ ChallengeInv'
  BY <1>1, EnrolmentUntouched DEF enrolment
<1>5. HistoryInv'
  <2> SUFFICES ASSUME NEW i \in DOMAIN admitted
               PROVE  /\ operators[admitted[i].tpm] # NoOperator
                      /\ admitted[i].counter <= operators[admitted[i].tpm].last_counter
                      /\ admitted[i].nonce \in 1 .. issued' /\ admitted[i].nonce \notin nonces'
    BY <1>1 DEF HistoryInv, enrolment
  <2>1. /\ operators[admitted[i].tpm] # NoOperator
        /\ admitted[i].counter <= operators[admitted[i].tpm].last_counter
        /\ admitted[i].nonce \in 1 .. issued /\ admitted[i].nonce \notin nonces
    BY DEF IInv, AdmissionInv, HistoryInv
  <2> QED
    BY <1>1, <1>2, <2>1
<1>6. AdmittedInOrder' /\ AdmittedIsAttested'
  BY <1>1 DEF IInv, AdmissionInv, AdmittedInOrder, AdmittedIsAttested, tpmVars
<1> QED
  BY <1>3, <1>4, <1>5, <1>6 DEF IInv, AdmissionInv

\* What passes the checks of _admit was certified by the TPM of the operator it is booked to:
\* the forged attestations are signed with keys that are in no TPM, and none of these is enrolled.
LEMMA AcceptedIsGenuine ==
    ASSUME IInv, NEW att \in attests \cup Forged, ak_owner[att.ak] # Nobody
    PROVE  /\ att \in attests /\ att.counter \in Counters /\ att.agent \in Agents
           /\ att.nonce \in 1 .. MaxNonces
           /\ ak_owner[att.ak] \in TPMs /\ att.ak.tpm = ak_owner[att.ak]
           /\ operators[ak_owner[att.ak]] \in Operator
<1>1. att.ak \in AK
  <2>1. CASE att \in attests
    BY <2>1 DEF IInv, TypeOK, Attest
  <2>2. CASE att \in Forged
    BY <2>2, HeldKeys DEF Forged, IInv
  <2> QED
    BY <2>1, <2>2
<1>2. att.ak.resident /\ att.ak.tpm = ak_owner[att.ak] /\ operators[att.ak.tpm] # NoOperator
  BY <1>1 DEF IInv, KeysAreResident
<1>3. att \notin Forged
  BY <1>2, HeldKeys DEF Forged, IInv
<1>4. att \in Attest
  BY <1>3 DEF IInv, TypeOK
<1>5. att.ak.tpm \in TPMs
  BY <1>1 DEF AK
<1> QED
  BY <1>2, <1>3, <1>4, <1>5 DEF IInv, TypeOK, Attest

LEMMA AdmitPreserves ==
    ASSUME IInv, NEW agent \in Agents, NEW nonce \in nonces, NEW att \in attests \cup Forged,
           admit_agent(agent, nonce, att)
    PROVE  IInv'
<1> DEFINE t == ak_owner[att.ak]
           o == [operators[t] EXCEPT !.last_counter = att.counter]
           e == [tpm |-> t, agent |-> agent, nonce |-> nonce, counter |-> att.counter]
<1>1. /\ t # Nobody /\ att.agent = agent /\ att.nonce = nonce
      /\ att.counter > operators[t].last_counter
      /\ nonces' = nonces \ {nonce}
      /\ operators' = [operators EXCEPT ![t] = o]
      /\ admitted' = Append(admitted, e)
      /\ UNCHANGED <<tpmVars, ak_owner, pending, activated, challenged, credentialed, issued>>
  BY DEF admit_agent, BoundTo, Above
<1>2. /\ att \in attests /\ att.counter \in Counters /\ nonce \in 1 .. MaxNonces
      /\ t \in TPMs /\ att.ak.tpm = t /\ operators[t] \in Operator
  BY <1>1, AcceptedIsGenuine
<1>3. /\ o \in Operator /\ o # NoOperator /\ o.last_counter = att.counter
      /\ operators[t].last_counter \in Int /\ att.counter \in Int
  BY <1>2, NoneAssumption, AdmissionAssumption DEF Operator, Counters
<1>4. e \in Admitted /\ e.tpm = t /\ e.agent = agent /\ e.nonce = nonce /\ e.counter = att.counter
  BY <1>2 DEF Admitted
<1> HIDE DEF t, o, e
<1>5. /\ operators' \in [TPMs -> Operator \cup {NoOperator}]
      /\ \A u \in TPMs : operators'[u] = IF u = t THEN o ELSE operators[u]
  BY <1>1, <1>2, <1>3 DEF IInv, TypeOK
<1>6. /\ admitted \in Seq(Admitted) /\ admitted' \in Seq(Admitted)
      /\ \A i \in DOMAIN admitted' :
            \/ i \in DOMAIN admitted /\ i # Len(admitted) + 1 /\ admitted'[i] = admitted[i]
            \/ i = Len(admitted) + 1 /\ admitted'[i] = e
      /\ \A i \in DOMAIN admitted : i < Len(admitted) + 1
  BY <1>1, <1>4, AppendedTo DEF IInv, TypeOK
<1>7. TypeOK'
  BY <1>1, <1>5, <1>6 DEF IInv, TypeOK, tpmVars
<1>8. KeysAreResident' /\ ChallengeInv'
  BY <1>1, <1>3, <1>5, EnrolmentUntouched
<1>9. \A i \in DOMAIN admitted :
        /\ admitted[i].tpm \in TPMs /\ admitted[i].counter \in Int
        /\ operators[admitted[i].tpm] # NoOperator
        /\ admitted[i].counter <= operators[admitted[i].tpm].last_counter
        /\ admitted[i].nonce \in 1 .. issued /\ admitted[i].nonce \notin nonces
  <2>1. \A i \in DOMAIN admitted : admitted[i] \in Admitted
    BY <1>6
  <2>2. \A i \in DOMAIN admitted : admitted[i].tpm \in TPMs /\ admitted[i].counter \in Int
    BY <2>1, AdmissionAssumption DEF Admitted, Counters
  <2> QED
    BY <2>2 DEF IInv, AdmissionInv, HistoryInv
<1>10. nonce \in 1 .. issued
  BY DEF IInv, TypeOK
<1>11. HistoryInv'
  <2> SUFFICES ASSUME NEW i \in DOMAIN admitted'
               PROVE  /\ operators'[admitted'[i].tpm] # NoOperator
                      /\ admitted'[i].counter <= operators'[admitted'[i].tpm].last_counter
                      /\ admitted'[i].nonce \in 1 .. issued' /\ admitted'[i].nonce \notin nonces'
    BY DEF HistoryInv
  <2>1. CASE i = Len(admitted) + 1 /\ admitted'[i] = e
    BY <1>1, <1>2, <1>3, <1>4, <1>5, <1>10, <2>1
  <2>2. CASE i \in DOMAIN admitted /\ admitted'[i] = admitted[i]
    <3>1. admitted[i].tpm = t => admitted[i].counter <= o.last_counter
      BY <1>1, <1>3, <1>9, <2>2
    <3> QED
      BY <1>1, <1>3, <1>5, <1>9, <2>2, <3>1
  <2> QED
    BY <1>6, <2>1, <2>2
<1>12. AdmittedInOrder'
  <2> SUFFICES ASSUME NEW i \in DOMAIN admitted', NEW j \in 1 .. i - 1
               PROVE  /\ admitted'[j].tpm = admitted'[i].tpm => admitted'[j].counter < admitted'[i].counter
                      /\ admitted'[j].nonce # admitted'[i].nonce
    BY DEF AdmittedInOrder
  <2>1. i \in Nat /\ Len(admitted) \in Nat /\ DOMAIN admitted = 1 .. Len(admitted)
    BY <1>6
  <2>2. j \in DOMAIN admitted /\ admitted'[j] = admitted[j]
    <3>1. i <= Len(admitted) + 1
      BY <1>6, <2>1
    <3>2. j \in DOMAIN admitted /\ j # Len(admitted) + 1
      BY <2>1, <3>1
    <3>3. j \in DOMAIN admitted'
      BY <1>1, <1>6, <2>1, <3>2
    <3> QED
      BY <1>6, <3>2, <3>3
  <2>3. CASE i = Len(admitted) + 1 /\ admitted'[i] = e
    BY <1>1, <1>3, <1>4, <1>9, <2>2, <2>3
  <2>4. CASE i \in DOMAIN admitted /\ admitted'[i] = admitted[i]
    BY <2>2, <2>4 DEF IInv, AdmissionInv, AdmittedInOrder
  <2> QED
    BY <1>6, <2>3, <2>4
<1>13. AdmittedIsAttested'
  <2> SUFFICES ASSUME NEW i \in DOMAIN admitted'
               PROVE  \E c \in attests :
                         /\ c.ak.tpm = admitted'[i].tpm
                         /\ c.agent = admitted'[i].agent /\ c.nonce = admitted'[i].nonce
                         /\ c.counter = admitted'[i].counter
    BY <1>1 DEF AdmittedIsAttested, tpmVars
  <2>1. CASE admitted'[i] = e
    BY <1>1, <1>2, <1>4, <2>1
  <2>2. CASE i \in DOMAIN admitted /\ admitted'[i] = admitted[i]
    BY <2>2 DEF IInv, AdmissionInv, AdmittedIsAttested
  <2> QED
    BY <1>6, <2>1, <2>2
<1> QED
  BY <1>7, <1>8, <1>11, <1>12, <1>13 DEF IInv, AdmissionInv

------------------------------------------------------------------------------
(* The invariant.                                                            *)

LEMMA NextPreserves == IInv /\ [Next]_vars => IInv'
<1> SUFFICES ASSUME IInv, [Next]_vars PROVE IInv'
  OBVIOUS
<1>1. CASE UNCHANGED vars
  <2>1. UNCHANGED <<tpmVars, operators, ak_owner, pending, activated, challenged, credentialed, admission>>
    BY <1>1 DEF vars, enrolment
  <2>2. TypeOK' /\ KeysAreResident' /\ ChallengeInv'
    BY <2>1 DEF IInv, TypeOK, KeysAreResident, ChallengeInv, tpmVars, admission
  <2>3. AdmissionInv'
    BY <2>1, AdmissionAssumption, AdmissionsUntouched DEF IInv, TypeOK, tpmVars, admission
  <2> QED
    BY <2>2, <2>3 DEF IInv
<1>2. ASSUME NEW t \in TPMs,
             \/ provision(t)
             \/ recreateCounter(t)
             \/ \E nonce \in 1 .. issued, agent \in Agents : attest_registration(t, nonce, agent)
      PROVE  IInv'
  BY <1>2, TPMsPreserve
<1>3. ASSUME NEW a \in Accounts, NEW t \in TPMs, NEW u \in TPMs,
             NEW ak \in {Resident(u), Imported(u)}, begin_enrolment(a, t, ak)
      PROVE  IInv'
  <2>1. ak \in AK
    BY HeldKeys DEF IInv
  <2> QED
    BY <1>3, <2>1, BeginPreserves
<1>4. ASSUME NEW a \in Accounts, activate_credential(a) PROVE IInv'
  BY <1>4, ActivatePreserves
<1>5. ASSUME NEW a \in Accounts, NEW mined \in BOOLEAN, finish_enrolment(a, mined) PROVE IInv'
  BY <1>5, FinishPreserves
<1>6. ASSUME NEW a \in Accounts, revokeCredential(a) PROVE IInv'
  BY <1>6, RevokePreserves
<1>7. CASE issue_nonce
  BY <1>7, NoncePreserves
<1>8. ASSUME NEW agent \in Agents, NEW nonce \in nonces, NEW att \in attests \cup Forged,
             admit_agent(agent, nonce, att)
      PROVE  IInv'
  BY <1>8, AdmitPreserves
<1> QED
  BY <1>1, <1>2, <1>3, <1>4, <1>5, <1>6, <1>7, <1>8 DEF Next

LEMMA Invariance == Spec => []IInv
  BY InitEstablishes, NextPreserves, PTL DEF Spec

------------------------------------------------------------------------------
(* The theorems.                                                             *)

\* The registry, the TPMs and the chain hold what their variables are declared to hold.
THEOREM AdmissionTypeCorrect == Spec => []TypeOK
<1>1. IInv => TypeOK
  BY DEF IInv
<1> QED
  BY <1>1, Invariance, PTL

\* However material of several TPMs is mixed in begin_enrolment, and whatever happens to a
\* challenge until finish_enrolment, only keys made in the certified TPM are enrolled.
THEOREM KeysReside == Spec => []KeysAreResident
<1>1. IInv => KeysAreResident
  BY DEF IInv
<1> QED
  BY <1>1, Invariance, PTL

\* admit_agent books no nonce twice, and what it books for a TPM follows that TPM's counter.
THEOREM AdmissionsInOrder == Spec => []AdmittedInOrder
<1>1. IInv => AdmittedInOrder
  BY DEF IInv, AdmissionInv
<1> QED
  BY <1>1, Invariance, PTL

\* What admit_agent books as attested was certified by the TPM it is booked to.
THEOREM AdmissionsAttested == Spec => []AdmittedIsAttested
<1>1. IInv => AdmittedIsAttested
  BY DEF IInv, AdmissionInv
<1> QED
  BY <1>1, Invariance, PTL

\* An operator changes in two steps only: enrolment leaves one that is there alone, admission
\* raises its counter.
LEMMA OperatorKept ==
    ASSUME IInv, [Next]_vars, NEW t \in TPMs, operators[t] # NoOperator
    PROVE  /\ operators'[t] # NoOperator
           /\ operators'[t].account = operators[t].account
           /\ operators'[t].last_counter >= operators[t].last_counter
<1>1. operators \in [TPMs -> Operator \cup {NoOperator}] /\ operators[t] \in Operator
  BY DEF IInv, TypeOK
<1>2. operators[t].last_counter \in Int
  BY <1>1, AdmissionAssumption DEF Operator, Counters
<1>3. CASE operators'[t] = operators[t]
  BY <1>2, <1>3
<1>4. ASSUME NEW a \in Accounts, NEW mined \in BOOLEAN, finish_enrolment(a, mined)
      PROVE  operators'[t] = operators[t]
  <2>1. pending[a] \in Pending
    BY <1>4 DEF finish_enrolment, IInv, TypeOK
  <2>2. operators' = Bound(pending[a], a) \/ operators' = operators
    BY <1>4 DEF finish_enrolment
  <2> QED
    BY <2>1, <2>2, BoundKeeps DEF IInv
<1>5. ASSUME NEW agent \in Agents, NEW nonce \in nonces, NEW att \in attests \cup Forged,
             admit_agent(agent, nonce, att)
      PROVE  /\ operators'[t] # NoOperator
             /\ operators'[t].account = operators[t].account
             /\ operators'[t].last_counter >= operators[t].last_counter
  <2> DEFINE u == ak_owner[att.ak]
             o == [operators[u] EXCEPT !.last_counter = att.counter]
  <2>1. u # Nobody /\ att.counter > operators[u].last_counter /\ operators' = [operators EXCEPT ![u] = o]
    BY <1>5 DEF admit_agent, Above
  <2>2. att.counter \in Counters /\ u \in TPMs /\ operators[u] \in Operator
    BY <2>1, AcceptedIsGenuine
  <2>3. /\ o \in Operator /\ o # NoOperator
        /\ o.account = operators[u].account /\ o.last_counter = att.counter /\ att.counter \in Int
    BY <2>2, NoneAssumption, AdmissionAssumption DEF Operator, Counters
  <2> HIDE DEF u, o
  <2>4. operators'[t] = IF t = u THEN o ELSE operators[t]
    BY <1>1, <2>1
  <2> QED
    BY <1>1, <1>2, <2>1, <2>3, <2>4
<1>6. CASE \/ \E s \in TPMs : \/ provision(s) \/ recreateCounter(s)
                             \/ \E nonce \in 1 .. issued, agent \in Agents :
                                   attest_registration(s, nonce, agent)
           \/ \E a \in Accounts :
                 \/ \E s, u \in TPMs : \E ak \in {Resident(u), Imported(u)} : begin_enrolment(a, s, ak)
                 \/ activate_credential(a)
                 \/ revokeCredential(a)
           \/ issue_nonce
           \/ UNCHANGED vars
  <2>1. operators' = operators
    BY <1>6 DEF provision, recreateCounter, attest_registration, begin_enrolment,
                activate_credential, revokeCredential, issue_nonce, vars, enrolment
  <2> QED
    BY <1>3, <2>1
<1> QED
  BY <1>3, <1>4, <1>5, <1>6 DEF Next

\* No enrolment, by whomever, resets the account or the counter a TPM is known by.
THEOREM HistoryIsKept == Spec => HistoryKept
<1>1. IInv /\ [Next]_vars =>
        [\A t \in TPMs : operators[t] # NoOperator =>
            /\ operators'[t] # NoOperator
            /\ operators'[t].account = operators[t].account
            /\ operators'[t].last_counter >= operators[t].last_counter]_vars
  BY OperatorKept
<1> QED
  BY <1>1, Invariance, PTL DEF Spec, HistoryKept

\* Credentials are new in a single step, the enrolment of a TPM that had no operator.
LEMMA CredentialStep ==
    ASSUME IInv, [Next]_vars, NEW b \in credentialed' \ credentialed
    PROVE  \E t \in TPMs : /\ operators[t] = NoOperator
                           /\ operators'[t] # NoOperator /\ operators'[t].account = b
<1>1. ASSUME NEW a \in Accounts, NEW mined \in BOOLEAN, finish_enrolment(a, mined)
      PROVE  \E t \in TPMs : /\ operators[t] = NoOperator
                             /\ operators'[t] # NoOperator /\ operators'[t].account = b
  <2> DEFINE p == pending[a]
  <2>1. /\ p # NoPending
        /\ operators' = Bound(p, a) /\ credentialed' = Credentials(p, a, mined)
    BY <1>1 DEF finish_enrolment
  <2>2. p \in Pending /\ p.tpm \in TPMs
    BY <2>1 DEF IInv, TypeOK, Pending
  <2> HIDE DEF p
  <2>3. New(p) /\ b = a
    BY <2>1 DEF Credentials
  <2>4. operators[p.tpm] = NoOperator
    BY <2>3 DEF New
  <2>5. Bound(p, a)[p.tpm] # NoOperator /\ Bound(p, a)[p.tpm].account = a
    BY <2>2, <2>3, BoundKeeps DEF IInv
  <2> QED
    BY <2>1, <2>2, <2>3, <2>4, <2>5
<1>2. CASE \/ \E s \in TPMs : \/ provision(s) \/ recreateCounter(s)
                             \/ \E nonce \in 1 .. issued, agent \in Agents :
                                   attest_registration(s, nonce, agent)
           \/ \E a \in Accounts :
                 \/ \E s, u \in TPMs : \E ak \in {Resident(u), Imported(u)} : begin_enrolment(a, s, ak)
                 \/ activate_credential(a)
                 \/ revokeCredential(a)
           \/ issue_nonce
           \/ \E agent \in Agents, nonce \in nonces, att \in attests \cup Forged :
                 admit_agent(agent, nonce, att)
           \/ UNCHANGED vars
  <2>1. credentialed' \subseteq credentialed
    BY <1>2 DEF provision, recreateCounter, attest_registration, begin_enrolment, admit_agent,
                activate_credential, revokeCredential, issue_nonce, vars, enrolment
  <2> QED
    BY <2>1
<1> QED
  BY <1>1, <1>2 DEF Next

\* One TPM yields one credential, however many accounts enrol it and in whatever order.
THEOREM CredentialsFollowHardware == Spec => CredentialNeedsNewHardware
<1>1. IInv /\ [Next]_vars =>
        [\A a \in credentialed' \ credentialed :
            \E t \in TPMs : /\ operators[t] = NoOperator
                            /\ operators'[t] # NoOperator /\ operators'[t].account = a]_vars
  BY CredentialStep
<1> QED
  BY <1>1, Invariance, PTL DEF Spec, CredentialNeedsNewHardware

------------------------------------------------------------------------------
(* Attested enclaves.                                                        *)

\* An enclave with this key runs on machine t, is genuine, and hashed the verifier that m measures.
Runs(k, t, m) ==
    /\ k \in DOMAIN enclaves
    /\ enclaves[k].tpm = t /\ enclaves[k].build = m.verifier

\* A measurement of the genuine program names such an enclave, unless it misled.
Truthful(k, t, m) == k \in misled \/ m.program # "genuine" \/ Runs(k, t, m)

\* A launch past its start has measured; when it comes to its quote, the key is what it measured.
LaunchInv ==
    \A t \in TPMs :
        /\ launching[t].at # "idle" => pcr[t] \in Measurement
        /\ launching[t].at = "identified" => Truthful(launching[t].key, t, pcr[t])

\* So does a quote.
QuoteInv == \A q \in quotes : q.ak.resident /\ Truthful(q.extra, q.ak.tpm, q.pcr)

AttesterInv ==
    \A a \in attesters : a \in misled \/
        /\ a \in DOMAIN enclaves
        /\ enclaves[a].build \in approved
        /\ operators[enclaves[a].tpm] # NoOperator

\* What is being checked was hashed as the build that was launched.
CheckInv ==
    \A n \in DOMAIN enclaves : \A c \in enclaves[n].checking : c.hashed = enclaves[n].build

SignedInv ==
    \A s \in signed : s.signer # HostKey =>
        /\ s.signer \in DOMAIN enclaves
        /\ enclaves[s.signer].build \in approved => s.slipped \/ s.deserved

AttestationInv ==
    AttestationTypeOK /\ LaunchInv /\ QuoteInv /\ AttesterInv /\ CheckInv /\ SignedInv

\* Machine and build of an enclave stay, and a key that misled has misled.
LEMMA EnclavesStay ==
    ASSUME AttestationTypeOK, AttestationNext
    PROVE  /\ misled \subseteq misled'
           /\ \A n \in DOMAIN enclaves : /\ n \in DOMAIN enclaves'
                                         /\ enclaves'[n].tpm = enclaves[n].tpm
                                         /\ enclaves'[n].build = enclaves[n].build
<1>1. enclaves \in Seq(Enclave) /\ \A n \in DOMAIN enclaves : enclaves[n] \in Enclave
  BY DEF AttestationTypeOK
<1>2. ASSUME NEW n \in DOMAIN enclaves, NEW e, enclaves' = [enclaves EXCEPT ![n] = e],
             e.tpm = enclaves[n].tpm, e.build = enclaves[n].build, NEW m \in DOMAIN enclaves
      PROVE  /\ m \in DOMAIN enclaves'
             /\ enclaves'[m].tpm = enclaves[m].tpm /\ enclaves'[m].build = enclaves[m].build
  BY <1>1, <1>2
<1>3. ASSUME NEW n \in DOMAIN enclaves, NEW b \in Builds, tamper(n, b), NEW m \in DOMAIN enclaves
      PROVE  /\ m \in DOMAIN enclaves'
             /\ enclaves'[m].tpm = enclaves[m].tpm /\ enclaves'[m].build = enclaves[m].build
  BY <1>1, <1>3 DEF tamper, Enclave
<1>4. ASSUME NEW n \in DOMAIN enclaves, NEW deserved \in BOOLEAN, rehash(n, deserved), NEW m \in DOMAIN enclaves
      PROVE  /\ m \in DOMAIN enclaves'
             /\ enclaves'[m].tpm = enclaves[m].tpm /\ enclaves'[m].build = enclaves[m].build
  BY <1>1, <1>4 DEF rehash, Enclave
<1>5. ASSUME NEW n \in DOMAIN enclaves, NEW c \in enclaves[n].checking, NEW accept \in BOOLEAN,
             decide(n, c, accept), NEW m \in DOMAIN enclaves
      PROVE  /\ m \in DOMAIN enclaves'
             /\ enclaves'[m].tpm = enclaves[m].tpm /\ enclaves'[m].build = enclaves[m].build
  BY <1>1, <1>5 DEF decide, Enclave
<1>6. ASSUME NEW t \in TPMs, identify(t), NEW m \in DOMAIN enclaves
      PROVE  m \in DOMAIN enclaves' /\ enclaves'[m] = enclaves[m]
  BY <1>1, <1>6 DEF identify
<1>7. misled \subseteq misled'
  BY DEF AttestationNext, replaceOnDisk, measure, start, identify, pretend, quote, tamper, rehash,
         decide, signOnHost, register
<1>8. CASE enclaves' = enclaves
  BY <1>7, <1>8
<1> QED
  BY <1>3, <1>4, <1>5, <1>6, <1>7, <1>8 DEF AttestationNext, replaceOnDisk, measure, start, pretend,
     quote, signOnHost, register

\* What has been named truthfully stays so.
LEMMA TruthfulStays ==
    ASSUME AttestationTypeOK, AttestationNext, NEW k, NEW t, NEW m, Truthful(k, t, m)
    PROVE  Truthful(k, t, m)'
BY EnclavesStay DEF Truthful, Runs

LEMMA AnsweredType ==
    ASSUME launching \in [TPMs -> Launch], NEW t \in TPMs, NEW m, NEW k \in Keys, answered(t, m, k)
    PROVE  launching' \in [TPMs -> Launch]
<1> DEFINE l == IF Agrees(t, m)
                  THEN [at |-> "identified", program |-> launching[t].program, key |-> k] ELSE Idle
<1>1. l \in Launch
  BY DEF Launch, Idle, Keys, Programs
<1>2. launching' = [launching EXCEPT ![t] = l]
  BY DEF answered
<1> HIDE DEF l
<1> QED
  BY <1>1, <1>2

LEMMA AttestationTypes ==
    ASSUME IInv, AttestationTypeOK, LaunchInv, AttestationNext
    PROVE  AttestationTypeOK'
<1>1. /\ disk \in [program : Programs, verifier : Builds]
      /\ pcr \in [TPMs -> Measurement \cup {NoMeasurement}] /\ launching \in [TPMs -> Launch]
      /\ enclaves \in Seq(Enclave) /\ Len(enclaves) <= MaxEnclaves
      /\ quotes \subseteq Quote /\ signed \subseteq Signature
      /\ attesters \subseteq Keys /\ misled \subseteq Keys
  BY DEF AttestationTypeOK
<1>2. /\ DOMAIN enclaves = 1 .. Len(enclaves) /\ Len(enclaves) \in Nat
      /\ \A n \in DOMAIN enclaves : enclaves[n] \in Enclave
  BY <1>1
<1>3. DOMAIN enclaves \subseteq Keys /\ KeysThere \subseteq Keys
  BY <1>1, <1>2, BuildsAssumption DEF KeysThere, Keys
<1>4. ASSUME NEW d \in [program : Programs, verifier : Builds], replaceOnDisk(d)
      PROVE  AttestationTypeOK'
  BY <1>1, <1>4 DEF replaceOnDisk, AttestationTypeOK
<1>5. ASSUME NEW t \in TPMs, measure(t) PROVE AttestationTypeOK'
  <2>1. [launching[t] EXCEPT !.at = "measured"] \in Launch
    BY <1>1 DEF Launch
  <2>2. launching' = [launching EXCEPT ![t] = [launching[t] EXCEPT !.at = "measured"]]
    BY <1>5 DEF measure
  <2>3. Measured(disk) \in Measurement
    BY <1>1 DEF Measured, Measurement, Programs
  <2> QED
    BY <1>1, <1>5, <2>1, <2>2, <2>3 DEF measure, AttestationTypeOK
<1>6. ASSUME NEW t \in TPMs, start(t) PROVE AttestationTypeOK'
  <2> DEFINE l == [launching[t] EXCEPT !.at = "started", !.program = disk.program]
  <2>1. l \in Launch
    BY <1>1 DEF Launch
  <2>2. launching' = [launching EXCEPT ![t] = l]
    BY <1>6 DEF start
  <2> HIDE DEF l
  <2> QED
    BY <1>1, <1>6, <2>1, <2>2 DEF start, AttestationTypeOK
<1>7. ASSUME NEW t \in TPMs, identify(t) PROVE AttestationTypeOK'
  <2> DEFINE n == Len(enclaves) + 1
             e == [tpm |-> t, build |-> disk.verifier, copy |-> disk.verifier, checking |-> {}]
  <2>1. e \in Enclave /\ n \in Keys
    BY <1>1, <1>2, <1>7, BuildsAssumption DEF identify, Enclave, Keys
  <2>2. enclaves' = Append(enclaves, e) /\ answered(t, Measured(disk), n) /\ n <= MaxEnclaves
    BY <1>7 DEF identify
  <2>3. launching' \in [TPMs -> Launch]
    BY <1>1, <2>1, <2>2, AnsweredType
  <2>4. enclaves' \in Seq(Enclave) /\ Len(enclaves') <= MaxEnclaves
    BY <1>1, <2>1, <2>2
  <2> QED
    BY <1>1, <1>7, <2>3, <2>4 DEF identify, AttestationTypeOK
<1>8. ASSUME NEW t \in TPMs, NEW m \in Measurement, NEW k \in KeysThere, pretend(t, m, k)
      PROVE  AttestationTypeOK'
  <2>1. launching' \in [TPMs -> Launch]
    BY <1>1, <1>3, <1>8, AnsweredType DEF pretend
  <2> QED
    BY <1>1, <1>3, <1>8, <2>1 DEF pretend, AttestationTypeOK
<1>9. ASSUME NEW t \in TPMs, quote(t) PROVE AttestationTypeOK'
  <2> DEFINE q == [ak |-> Resident(t), extra |-> launching[t].key, pcr |-> pcr[t]]
  <2>1. q \in Quote /\ Idle \in Launch
    BY <1>1, HeldKeys DEF IInv, Quote, Launch, Idle, Keys, Programs
  <2>2. quotes' = quotes \cup {q} /\ launching' = [launching EXCEPT ![t] = Idle]
    BY <1>9 DEF quote
  <2> HIDE DEF q
  <2> QED
    BY <1>1, <1>9, <2>1, <2>2 DEF quote, AttestationTypeOK
<1>10. ASSUME NEW n \in DOMAIN enclaves, NEW e \in Enclave, enclaves' = [enclaves EXCEPT ![n] = e]
       PROVE  enclaves' \in Seq(Enclave) /\ Len(enclaves') <= MaxEnclaves
  BY <1>1, <1>10
<1>11. ASSUME NEW n \in DOMAIN enclaves, NEW b \in Builds, tamper(n, b) PROVE AttestationTypeOK'
  <2>1. [enclaves[n] EXCEPT !.copy = b] \in Enclave
    BY <1>2 DEF Enclave
  <2>2. enclaves' = [enclaves EXCEPT ![n] = [enclaves[n] EXCEPT !.copy = b]]
    BY <1>11 DEF tamper
  <2> QED
    BY <1>1, <1>10, <1>11, <2>1, <2>2 DEF tamper, AttestationTypeOK
<1>12. ASSUME NEW n \in DOMAIN enclaves, NEW deserved \in BOOLEAN, rehash(n, deserved)
       PROVE  AttestationTypeOK'
  <2> DEFINE c == [deserved |-> deserved, hashed |-> enclaves[n].copy]
             e == [enclaves[n] EXCEPT !.checking = {c}]
  <2>1. c \in Check
    BY <1>2 DEF Enclave, Check
  <2> HIDE DEF c
  <2>2. e \in Enclave
    BY <1>2, <2>1 DEF Enclave
  <2>3. enclaves' = [enclaves EXCEPT ![n] = e]
    BY <1>12 DEF rehash, c
  <2> HIDE DEF e
  <2> QED
    BY <1>1, <1>10, <1>12, <2>2, <2>3 DEF rehash, AttestationTypeOK
<1>13. ASSUME NEW n \in DOMAIN enclaves, NEW c \in enclaves[n].checking, NEW accept \in BOOLEAN,
              decide(n, c, accept)
       PROVE  AttestationTypeOK'
  <2> DEFINE s == [signer |-> n, deserved |-> c.deserved, slipped |-> enclaves[n].copy # c.hashed]
             e == [enclaves[n] EXCEPT !.checking = {}]
  <2>1. c \in Check /\ e \in Enclave
    BY <1>2 DEF Enclave
  <2>2. s \in Signature
    BY <1>3, <2>1 DEF Signature, Check
  <2>3. signed' \subseteq signed \cup {s} /\ enclaves' = [enclaves EXCEPT ![n] = e]
    BY <1>13 DEF decide
  <2> HIDE DEF s, e
  <2> QED
    BY <1>1, <1>10, <1>13, <2>1, <2>2, <2>3 DEF decide, AttestationTypeOK
<1>14. ASSUME NEW deserved \in BOOLEAN, signOnHost(deserved) PROVE AttestationTypeOK'
  <2>1. [signer |-> HostKey, deserved |-> deserved, slipped |-> FALSE] \in Signature
    BY DEF Signature, Keys
  <2> QED
    BY <1>1, <1>14, <2>1 DEF signOnHost, AttestationTypeOK
<1>15. ASSUME NEW address \in KeysThere, NEW q \in quotes \cup ForgedQuotes, register(address, q)
       PROVE  AttestationTypeOK'
  BY <1>1, <1>3, <1>15 DEF register, AttestationTypeOK
<1> QED
  BY <1>4, <1>5, <1>6, <1>7, <1>8, <1>9, <1>11, <1>12, <1>13, <1>14, <1>15 DEF AttestationNext

\* A launch that is answered goes on with the key that was named, over what was measured.
LEMMA AnsweredLaunch ==
    ASSUME AttestationTypeOK, LaunchInv, AttestationNext, UNCHANGED pcr,
           NEW t \in TPMs, launching[t].at # "idle", NEW m, NEW k \in Keys, answered(t, m, k),
           m = pcr[t] => Truthful(k, t, pcr[t])'
    PROVE  LaunchInv'
<1>1. launching \in [TPMs -> Launch]
  BY DEF AttestationTypeOK
<1>2. \A u \in TPMs \ {t} : launching'[u] = launching[u]
  BY <1>1 DEF answered
<1>3. launching'[t] = IF m = pcr[t] THEN [at |-> "identified", program |-> launching[t].program, key |-> k] ELSE Idle
  BY <1>1 DEF answered, Agrees
<1>4. CASE m = pcr[t]
  <2>1. launching'[t].at = "identified" /\ launching'[t].key = k
    BY <1>3, <1>4
  <2>2. ASSUME NEW u \in TPMs
        PROVE  /\ launching'[u].at # "idle" => pcr'[u] \in Measurement
               /\ launching'[u].at = "identified" => Truthful(launching[u].key, u, pcr[u])'
    BY <1>2, <1>4, <2>1, TruthfulStays DEF LaunchInv
  <2> QED
    BY <2>2 DEF LaunchInv
<1>5. CASE m # pcr[t]
  <2>1. launching'[t].at = "idle"
    BY <1>3, <1>5 DEF Idle
  <2>2. ASSUME NEW u \in TPMs
        PROVE  /\ launching'[u].at # "idle" => pcr'[u] \in Measurement
               /\ launching'[u].at = "identified" => Truthful(launching[u].key, u, pcr[u])'
    BY <1>2, <2>1, TruthfulStays DEF LaunchInv
  <2> QED
    BY <2>2 DEF LaunchInv
<1> QED
  BY <1>4, <1>5

LEMMA LaunchStep ==
    ASSUME AttestationTypeOK, LaunchInv, AttestationNext
    PROVE  LaunchInv'
<1>1. /\ launching \in [TPMs -> Launch] /\ pcr \in [TPMs -> Measurement \cup {NoMeasurement}]
      /\ disk \in [program : Programs, verifier : Builds]
      /\ enclaves \in Seq(Enclave) /\ Len(enclaves) <= MaxEnclaves
      /\ DOMAIN enclaves = 1 .. Len(enclaves) /\ Len(enclaves) \in Nat
  BY DEF AttestationTypeOK
<1>2. ASSUME NEW u \in TPMs, launching'[u] = launching[u], pcr'[u] = pcr[u]
      PROVE  /\ launching'[u].at # "idle" => pcr'[u] \in Measurement
             /\ launching'[u].at = "identified" => Truthful(launching[u].key, u, pcr[u])'
  BY <1>2, TruthfulStays DEF LaunchInv
<1>3. ASSUME NEW t \in TPMs, measure(t) PROVE LaunchInv'
  <2>1. Measured(disk) \in Measurement
    BY <1>1 DEF Measured, Measurement, Programs
  <2>2. launching' = [launching EXCEPT ![t] = [launching[t] EXCEPT !.at = "measured"]]
    BY <1>3 DEF measure
  <2>3. launching'[t].at = "measured" /\ pcr'[t] \in Measurement
    BY <1>1, <1>3, <2>1, <2>2 DEF measure, Launch
  <2>4. \A u \in TPMs \ {t} : launching'[u] = launching[u] /\ pcr'[u] = pcr[u]
    BY <1>1, <1>3, <2>2 DEF measure
  <2> QED
    BY <1>2, <2>3, <2>4 DEF LaunchInv
<1>4. ASSUME NEW t \in TPMs, start(t) PROVE LaunchInv'
  <2> DEFINE l == [launching[t] EXCEPT !.at = "started", !.program = disk.program]
  <2>1. launching' = [launching EXCEPT ![t] = l] /\ launching[t].at = "measured" /\ pcr' = pcr
    BY <1>4 DEF start
  <2>2. l.at = "started"
    BY <1>1 DEF Launch
  <2> HIDE DEF l
  <2>3. launching'[t].at = "started" /\ pcr'[t] \in Measurement
    BY <1>1, <2>1, <2>2 DEF LaunchInv
  <2>4. \A u \in TPMs \ {t} : launching'[u] = launching[u] /\ pcr'[u] = pcr[u]
    BY <1>1, <2>1
  <2> QED
    BY <1>2, <2>3, <2>4 DEF LaunchInv
<1>5. ASSUME NEW t \in TPMs, identify(t) PROVE LaunchInv'
  <2>0. PICK n \in Nat : n = Len(enclaves) + 1
    BY <1>1
  <2>1. /\ launching[t].at = "started" /\ pcr' = pcr /\ n <= MaxEnclaves
        /\ enclaves' = Append(enclaves, [tpm |-> t, build |-> disk.verifier,
                                         copy |-> disk.verifier, checking |-> {}])
        /\ answered(t, Measured(disk), n)
    BY <1>5, <2>0 DEF identify
  <2>2. n \in DOMAIN enclaves' /\ enclaves'[n].tpm = t /\ enclaves'[n].build = disk.verifier
    BY <1>1, <2>0, <2>1
  <2>3. Measured(disk).verifier = disk.verifier
    BY DEF Measured
  <2>4. Measured(disk) = pcr[t] => Truthful(n, t, pcr[t])'
    BY <2>1, <2>2, <2>3 DEF Truthful, Runs
  <2>5. n \in Keys /\ launching[t].at # "idle"
    BY <1>1, <2>0, <2>1 DEF Keys
  <2> QED
    BY <2>1, <2>4, <2>5, AnsweredLaunch
<1>6. ASSUME NEW t \in TPMs, NEW m \in Measurement, NEW k \in KeysThere, pretend(t, m, k) PROVE LaunchInv'
  <2>1. /\ launching[t].at = "started" /\ pcr' = pcr /\ answered(t, m, k)
        /\ misled' = IF pcr[t].program = "genuine" THEN misled \cup {k} ELSE misled
    BY <1>6 DEF pretend
  <2>2. Truthful(k, t, pcr[t])'
    BY <2>1 DEF Truthful
  <2>3. k \in Keys
    BY <1>1, BuildsAssumption DEF KeysThere, Keys
  <2> QED
    BY <2>1, <2>2, <2>3, AnsweredLaunch
<1>7. ASSUME NEW t \in TPMs, quote(t) PROVE LaunchInv'
  <2>1. /\ launching'[t].at = "idle"
        /\ \A u \in TPMs \ {t} : launching'[u] = launching[u] /\ pcr'[u] = pcr[u]
    BY <1>1, <1>7 DEF quote, Idle
  <2> QED
    BY <1>2, <2>1 DEF LaunchInv
<1>8. CASE launching' = launching /\ pcr' = pcr
  BY <1>2, <1>8 DEF LaunchInv
<1> QED
  BY <1>3, <1>4, <1>5, <1>6, <1>7, <1>8
     DEF AttestationNext, replaceOnDisk, tamper, rehash, decide, signOnHost, register

\* Only a registration adds an attester.
LEMMA RegisterAttests ==
    ASSUME IInv, AttestationTypeOK, QuoteInv,
           NEW address \in KeysThere, NEW q \in quotes \cup ForgedQuotes, register(address, q)
    PROVE  address \in misled \/
               /\ address \in DOMAIN enclaves
               /\ enclaves[address].build \in approved
               /\ operators[enclaves[address].tpm] # NoOperator
<1>1. ak_owner[q.ak] # Nobody /\ q.extra = address /\ q.pcr \in ApprovedMeasurements
  BY DEF register
<1>2. q.ak \in AK
  <2>1. q \in quotes => q.ak \in AK
    BY DEF AttestationTypeOK, Quote
  <2>2. q \in ForgedQuotes => q.ak \in AK
    BY HeldKeys DEF ForgedQuotes, IInv
  <2> QED
    BY <2>1, <2>2
<1>3. q.ak.resident /\ operators[q.ak.tpm] # NoOperator
  BY <1>1, <1>2 DEF IInv, KeysAreResident
<1>4. q \in quotes
  <2>1. q \in ForgedQuotes => ~ q.ak.resident
    BY HeldKeys DEF ForgedQuotes, IInv
  <2> QED
    BY <1>3, <2>1
<1>5. q.pcr.program = "genuine" /\ q.pcr.verifier \in approved
  BY <1>1 DEF ApprovedMeasurements
<1> QED
  BY <1>1, <1>3, <1>4, <1>5 DEF QuoteInv, Truthful, Runs

LEMMA CheckStep ==
    ASSUME AttestationTypeOK, CheckInv, AttestationNext
    PROVE  CheckInv'
<1>1. /\ enclaves \in Seq(Enclave) /\ DOMAIN enclaves = 1 .. Len(enclaves) /\ Len(enclaves) \in Nat
      /\ \A n \in DOMAIN enclaves : enclaves[n] \in Enclave
  BY DEF AttestationTypeOK
<1>2. ASSUME NEW n \in DOMAIN enclaves, NEW e, enclaves' = [enclaves EXCEPT ![n] = e],
             \A c \in e.checking : c.hashed = e.build
      PROVE  CheckInv'
  BY <1>1, <1>2 DEF CheckInv
<1>3. ASSUME NEW n \in DOMAIN enclaves, NEW b \in Builds, tamper(n, b) PROVE CheckInv'
  <2> DEFINE e == [enclaves[n] EXCEPT !.copy = b]
  <2>1. enclaves' = [enclaves EXCEPT ![n] = e]
    BY <1>3 DEF tamper
  <2>2. e.checking = enclaves[n].checking /\ e.build = enclaves[n].build
    BY <1>1 DEF Enclave
  <2> HIDE DEF e
  <2> QED
    BY <1>2, <2>1, <2>2 DEF CheckInv
<1>4. ASSUME NEW n \in DOMAIN enclaves, NEW deserved \in BOOLEAN, rehash(n, deserved) PROVE CheckInv'
  <2> DEFINE e == [enclaves[n] EXCEPT !.checking = {[deserved |-> deserved, hashed |-> enclaves[n].copy]}]
  <2>1. enclaves' = [enclaves EXCEPT ![n] = e] /\ enclaves[n].copy = enclaves[n].build
    BY <1>4 DEF rehash, Rehashed
  <2>2. e.checking = {[deserved |-> deserved, hashed |-> enclaves[n].copy]} /\ e.build = enclaves[n].build
    BY <1>1 DEF Enclave
  <2> HIDE DEF e
  <2>3. \A c \in e.checking : c.hashed = e.build
    BY <2>1, <2>2
  <2> QED
    BY <1>2, <2>1, <2>3
<1>5. ASSUME NEW n \in DOMAIN enclaves, NEW c \in enclaves[n].checking, NEW accept \in BOOLEAN, decide(n, c, accept)
      PROVE  CheckInv'
  <2> DEFINE e == [enclaves[n] EXCEPT !.checking = {}]
  <2>1. enclaves' = [enclaves EXCEPT ![n] = e]
    BY <1>5 DEF decide
  <2>2. e.checking = {}
    BY <1>1 DEF Enclave
  <2> HIDE DEF e
  <2> QED
    BY <1>2, <2>1, <2>2
<1>6. ASSUME NEW t \in TPMs, identify(t) PROVE CheckInv'
  <2> DEFINE e == [tpm |-> t, build |-> disk.verifier, copy |-> disk.verifier, checking |-> {}]
  <2>1. enclaves' = Append(enclaves, e)
    BY <1>6 DEF identify
  <2>2. e.checking = {}
    OBVIOUS
  <2> HIDE DEF e
  <2>3. \A n \in DOMAIN enclaves' : enclaves'[n] = e \/ (n \in DOMAIN enclaves /\ enclaves'[n] = enclaves[n])
    BY <1>1, <2>1
  <2> QED
    BY <2>2, <2>3 DEF CheckInv
<1>7. CASE enclaves' = enclaves
  BY <1>7 DEF CheckInv
<1> QED
  BY <1>3, <1>4, <1>5, <1>6, <1>7
     DEF AttestationNext, replaceOnDisk, measure, start, pretend, quote, signOnHost, register

LEMMA AttestationSteps ==
    ASSUME IInv, AttestationInv, AttestationNext, UNCHANGED vars
    PROVE  LaunchInv' /\ QuoteInv' /\ AttesterInv' /\ CheckInv' /\ SignedInv'
<1>1. /\ AttestationTypeOK /\ LaunchInv /\ QuoteInv /\ AttesterInv /\ CheckInv /\ SignedInv
      /\ UNCHANGED <<operators, ak_owner, key>>
  BY DEF AttestationInv, vars, tpmVars, enrolment
<1>2. /\ misled \subseteq misled'
      /\ \A n \in DOMAIN enclaves : /\ n \in DOMAIN enclaves'
                                    /\ enclaves'[n].tpm = enclaves[n].tpm
                                    /\ enclaves'[n].build = enclaves[n].build
  BY <1>1, EnclavesStay
<1>3. LaunchInv' /\ CheckInv'
  BY <1>1, LaunchStep, CheckStep
<1>4. QuoteInv'
  <2>1. ASSUME NEW t \in TPMs, quote(t) PROVE QuoteInv'
    <3> DEFINE p == [ak |-> Resident(t), extra |-> launching[t].key, pcr |-> pcr[t]]
    <3>1. p.ak.resident /\ p.ak.tpm = t /\ p.extra = launching[t].key /\ p.pcr = pcr[t]
      BY HeldKeys DEF IInv
    <3>2. launching[t].at = "identified" /\ quotes' = quotes \cup {p}
      BY <2>1 DEF quote
    <3> HIDE DEF p
    <3>3. Truthful(p.extra, p.ak.tpm, p.pcr)
      BY <1>1, <3>1, <3>2 DEF LaunchInv
    <3> QED
      BY <1>1, <3>1, <3>2, <3>3, TruthfulStays DEF QuoteInv
  <2>2. CASE quotes' = quotes
    BY <1>1, <2>2, TruthfulStays DEF QuoteInv
  <2> QED
    BY <2>1, <2>2 DEF AttestationNext, replaceOnDisk, measure, start, identify, pretend, tamper,
                      rehash, decide, signOnHost, register
<1>5. AttesterInv'
  <2>1. ASSUME NEW address \in KeysThere, NEW q \in quotes \cup ForgedQuotes, register(address, q)
        PROVE  AttesterInv'
    <3>1. attesters' = attesters \cup {address}
      BY <2>1 DEF register
    <3>2. address \in misled \/ /\ address \in DOMAIN enclaves
                                /\ enclaves[address].build \in approved
                                /\ operators[enclaves[address].tpm] # NoOperator
      BY <1>1, <2>1, RegisterAttests
    <3> QED
      BY <1>1, <1>2, <3>1, <3>2 DEF AttesterInv
  <2>2. CASE attesters' = attesters
    BY <1>1, <1>2, <2>2 DEF AttesterInv
  <2> QED
    BY <2>1, <2>2 DEF AttestationNext, replaceOnDisk, measure, start, identify, pretend, quote, tamper,
                      rehash, decide, signOnHost
<1>6. SignedInv'
  <2>1. ASSUME NEW n \in DOMAIN enclaves, NEW c \in enclaves[n].checking, NEW accept \in BOOLEAN, decide(n, c, accept)
        PROVE  SignedInv'
    <3> DEFINE s == [signer |-> n, deserved |-> c.deserved, slipped |-> enclaves[n].copy # c.hashed]
    <3>1. c.hashed = enclaves[n].build
      BY <1>1 DEF CheckInv
    <3>2. s.signer = n /\ s.deserved = c.deserved /\ (s.slipped <=> enclaves[n].copy # c.hashed)
      OBVIOUS
    <3>3. enclaves[n].copy \in approved => accept = c.deserved
      BY <2>1 DEF decide
    <3>4. signed' = IF accept THEN signed \cup {s} ELSE signed
      BY <2>1 DEF decide
    <3> HIDE DEF s
    <3>5. accept /\ enclaves[n].build \in approved => s.slipped \/ s.deserved
      BY <3>1, <3>2, <3>3
    <3>6. ASSUME NEW x \in signed', x.signer # HostKey
          PROVE  x.signer \in DOMAIN enclaves /\ (enclaves[x.signer].build \in approved => x.slipped \/ x.deserved)
      BY <1>1, <3>2, <3>4, <3>5, <3>6 DEF SignedInv
    <3> QED
      BY <1>2, <3>6 DEF SignedInv
  <2>2. ASSUME NEW deserved \in BOOLEAN, signOnHost(deserved) PROVE SignedInv'
    <3> DEFINE s == [signer |-> HostKey, deserved |-> deserved, slipped |-> FALSE]
    <3>1. signed' = signed \cup {s} /\ s.signer = HostKey /\ enclaves' = enclaves
      BY <2>2 DEF signOnHost
    <3> HIDE DEF s
    <3> QED
      BY <1>1, <3>1 DEF SignedInv
  <2>3. CASE signed' = signed
    BY <1>1, <1>2, <2>3 DEF SignedInv
  <2> QED
    BY <2>1, <2>2, <2>3 DEF AttestationNext, replaceOnDisk, measure, start, identify, pretend, quote,
                            tamper, rehash, register
<1> QED
  BY <1>3, <1>4, <1>5, <1>6

\* Enrolments and admissions leave the enclaves alone, and no platform loses its operator.
LEMMA AdmissionKeepsAttestation ==
    ASSUME IInv, AttestationInv, [Next]_vars, UNCHANGED attestationVars
    PROVE  AttestationInv'
<1>1. AttestationTypeOK' /\ LaunchInv' /\ QuoteInv' /\ CheckInv' /\ SignedInv'
  BY DEF AttestationInv, attestationVars, AttestationTypeOK, LaunchInv, QuoteInv, CheckInv, SignedInv,
         Truthful, Runs
<1>2. \A n \in DOMAIN enclaves : enclaves[n].tpm \in TPMs
  <2>1. \A n \in DOMAIN enclaves : enclaves[n] \in Enclave
    BY DEF AttestationInv, AttestationTypeOK
  <2> QED
    BY <2>1 DEF Enclave
<1>3. AttesterInv'
  BY <1>2, OperatorKept DEF AttestationInv, AttesterInv, attestationVars
<1> QED
  BY <1>1, <1>3 DEF AttestationInv

LEMMA AttestationInvariance == AttestationSpec => []IInv /\ []AttestationInv
<1>1. AttestationInit => IInv /\ AttestationInv
  <2> SUFFICES ASSUME AttestationInit PROVE AttestationInv
    BY InitEstablishes DEF AttestationInit
  <2>1. Idle \in Launch /\ <<>> \in Seq(Enclave) /\ Len(<<>>) <= MaxEnclaves
    BY BuildsAssumption DEF Idle, Launch, Programs, Keys
  <2>2. AttestationTypeOK
    BY <2>1, BuildsAssumption DEF AttestationInit, AttestationTypeOK, Programs
  <2> QED
    BY <2>2 DEF AttestationInit, AttestationInv, LaunchInv, QuoteInv, AttesterInv, CheckInv, SignedInv, Idle
<1>2. ASSUME IInv, AttestationInv,
             [(Next /\ UNCHANGED attestationVars) \/ (AttestationNext /\ UNCHANGED vars)]_<<vars, attestationVars>>
      PROVE  IInv' /\ AttestationInv'
  <2>1. IInv'
    BY <1>2, NextPreserves
  <2>2. CASE AttestationNext /\ UNCHANGED vars
    BY <1>2, <2>1, <2>2, AttestationTypes, AttestationSteps DEF AttestationInv
  <2>3. CASE [Next]_vars /\ UNCHANGED attestationVars
    BY <1>2, <2>1, <2>3, AdmissionKeepsAttestation
  <2> QED
    BY <1>2, <2>1, <2>2, <2>3
<1> QED
  BY <1>1, <1>2, PTL DEF AttestationSpec

\* A signature that counts was given by a genuine enclave that hashed an approved build, on a
\* machine whose TPM is enrolled, and on a request that deserved it, unless the private copy was
\* exchanged between its re-hash and its run for that request; or the signer was named by a program
\* that was not the measured one.  For any files on disk, any launches and any re-keyed TPMs.
THEOREM CountedVerified == AttestationSpec => []CountedIsVerified
<1>1. AttestationInv => CountedIsVerified
  <2> SUFFICES ASSUME AttestationInv, NEW s \in signed, s.signer \in attesters, s.signer \notin misled
               PROVE  /\ s.slipped \/ s.deserved
                      /\ s.signer \in DOMAIN enclaves
                      /\ enclaves[s.signer].build \in approved
                      /\ operators[enclaves[s.signer].tpm] # NoOperator
    BY DEF CountedIsVerified, counts
  <2>1. s.signer \in DOMAIN enclaves /\ enclaves[s.signer].build \in approved
        /\ operators[enclaves[s.signer].tpm] # NoOperator
    BY DEF AttestationInv, AttesterInv
  <2>2. s.signer # HostKey
    BY <2>1, BuildsAssumption DEF AttestationInv, AttestationTypeOK
  <2> QED
    BY <2>1, <2>2 DEF AttestationInv, SignedInv
<1> QED
  BY <1>1, AttestationInvariance, PTL
==============================================================================
