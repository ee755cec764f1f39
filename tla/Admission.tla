------------------------------ MODULE Admission ------------------------------
(***************************************************************************)
(* Hardware-anchored operator identity: the admission registry             *)
(* (integration/hw_identity/admission.py), the operators' TPMs (tpm.py) and *)
(* the credentials it issues on the LiabilityRegistry.                     *)
(*                                                                         *)
(* A TPM stands for its endorsement key and so for k(O).  An attestation   *)
(* key is the TPM it was loaded in, a number, and whether it was made in   *)
(* that TPM; a key that was imported has its private part elsewhere too.   *)
(* Certificates that do not chain, keys that do not match and attestations *)
(* that are no counter attestations are refused and change nothing: they   *)
(* are left out.  So are agents admitted on a deposit, which leave the     *)
(* registry as it is.                                                      *)
(***************************************************************************)
EXTENDS Integers, Sequences

CONSTANTS
    TPMs, Accounts, Agents,
    NoOperator, NoPending, Nobody,
    MaxKeys, MaxCounter,         \* bounds: keys and counter of a TPM,
    MaxNonces, MaxChallenges     \*         nonces and enrolment challenges of the registry

ASSUME AdmissionAssumption ==
    {MaxKeys, MaxCounter} \subseteq Nat \ {0} /\ {MaxNonces, MaxChallenges} \subseteq Nat

VARIABLES
    key, counter,        \* per TPM: the number of its present AK, its monotonic counter
    attests,             \* what the TPMs have certified
    operators, ak_owner, pending, nonces,   \* the registry
    activated,           \* the accounts whose pending secret a TPM has recovered
    challenged, issued,  \* how many challenges and nonces were made
    credentialed,        \* the accounts with a credential on chain
    admitted             \* the attested admissions, in order

tpmVars      == <<key, counter, attests>>
enrolment    == <<operators, ak_owner, pending, activated, challenged, credentialed>>
admission    == <<nonces, issued, admitted>>
vars         == <<tpmVars, enrolment, admission>>

Counters == 0 .. MaxCounter
AK       == [tpm : TPMs, number : 0 .. MaxKeys, resident : BOOLEAN]
Attest   == [ak : AK, counter : Counters, nonce : 1 .. MaxNonces, agent : Agents]
Operator == [account : Accounts, last_counter : Counters]
Pending  == [tpm : TPMs, ak : AK]
Admitted == [tpm : TPMs, agent : Agents, nonce : 1 .. MaxNonces, counter : Counters]

\* None, where the code has no entry.
ASSUME NoneAssumption == NoOperator \notin Operator /\ NoPending \notin Pending /\ Nobody \notin TPMs

Resident(t) == [tpm |-> t, number |-> key[t], resident |-> TRUE]
Imported(t) == [tpm |-> t, number |-> 0, resident |-> FALSE]

Init ==
    /\ key = [t \in TPMs |-> 1] /\ counter = [t \in TPMs |-> 1]
    /\ attests = {}
    /\ operators = [t \in TPMs |-> NoOperator]
    /\ ak_owner = [k \in AK |-> Nobody]
    /\ pending = [a \in Accounts |-> NoPending]
    /\ challenged = 0 /\ issued = 0
    /\ nonces = {} /\ activated = {} /\ credentialed = {} /\ admitted = <<>>

------------------------------------------------------------------------------
(* The operators' TPMs.                                                      *)

\* A new AK takes the handle of the old one, which is gone (provision).
provision(t) ==
    /\ key[t] < MaxKeys
    /\ key' = [key EXCEPT ![t] = @ + 1]
    /\ UNCHANGED <<counter, attests, enrolment, admission>>

\* delete_counter, define_counter: the TPM resumes above the old value.
recreateCounter(t) ==
    /\ counter[t] < MaxCounter
    /\ counter' = [counter EXCEPT ![t] = @ + 1]
    /\ UNCHANGED <<key, attests, enrolment, admission>>

attest_registration(t, nonce, agent) ==
    /\ counter[t] < MaxCounter
    /\ counter' = [counter EXCEPT ![t] = @ + 1]
    /\ attests' = attests \cup
          {[ak |-> Resident(t), counter |-> counter[t] + 1, nonce |-> nonce, agent |-> agent]}
    /\ UNCHANGED <<key, enrolment, admission>>

\* The secret of a pending enrolment comes out of the TPM it was encrypted to, if that TPM
\* holds the key it was bound to; any account may come to know it.
activate_credential(a) ==
    /\ pending[a] # NoPending
    /\ pending[a].ak \in {Resident(pending[a].tpm), Imported(pending[a].tpm)}
    /\ activated' = activated \cup {a}
    /\ UNCHANGED <<tpmVars, operators, ak_owner, pending, challenged, credentialed, admission>>

------------------------------------------------------------------------------
(* Enrolment.                                                                *)

\* Variants of the operations, each with one slip; only the mutation runs use them.
AnySecret(a)                   == TRUE
BoundAfresh(p, a)              == [operators EXCEPT ![p.tpm] = [account |-> a, last_counter |-> 0]]
CredentialsAlways(p, a, mined) == IF mined THEN credentialed \cup {a} ELSE credentialed

\* The attributes an AK must have.
Enrollable(ak) == ak.resident

\* The material of any TPM with any key, on any account: certificates and public areas are
\* public.  Another challenge of the same account is overwritten.
begin_enrolment(a, t, ak) ==
    /\ challenged < MaxChallenges
    /\ challenged' = challenged + 1
    /\ Enrollable(ak)
    /\ operators[t] # NoOperator => operators[t].account = a
    /\ pending' = [pending EXCEPT ![a] = [tpm |-> t, ak |-> ak]]
    /\ activated' = activated \ {a}
    /\ UNCHANGED <<tpmVars, operators, ak_owner, credentialed, admission>>

RightSecret(a) == a \in activated

New(p) == operators[p.tpm] = NoOperator

\* setdefault: an operator that is there stays as it is.
Bound(p, a) ==
    IF New(p) THEN [operators EXCEPT ![p.tpm] = [account |-> a, last_counter |-> 0]] ELSE operators

\* The transaction that issues the credential may fail.
Credentials(p, a, mined) == IF New(p) /\ mined THEN credentialed \cup {a} ELSE credentialed

\* An attempt uses the challenge up, with the right secret or a wrong one.  The credential is
\* the last step: if its transaction fails, what comes before stays.
finish_enrolment(a, mined) ==
    LET p == pending[a] IN
    /\ p # NoPending
    /\ pending' = [pending EXCEPT ![a] = NoPending]
    /\ activated' = activated \ {a}
    /\ \/ /\ RightSecret(a)
          /\ operators' = Bound(p, a)
          /\ ak_owner' = [ak_owner EXCEPT ![p.ak] = p.tpm]
          /\ credentialed' = Credentials(p, a, mined)
       \/ UNCHANGED <<operators, ak_owner, credentialed>>
    /\ UNCHANGED <<tpmVars, challenged, admission>>

\* The regulator takes a credential back on chain.
revokeCredential(a) ==
    /\ a \in credentialed
    /\ credentialed' = credentialed \ {a}
    /\ UNCHANGED <<tpmVars, operators, ak_owner, pending, activated, challenged, admission>>

------------------------------------------------------------------------------
(* Admission of agents.                                                      *)

issue_nonce ==
    /\ issued < MaxNonces
    /\ issued' = issued + 1
    /\ nonces' = nonces \cup {issued'}
    /\ UNCHANGED <<tpmVars, enrolment, admitted>>

\* Whoever has the private part of an imported key signs what he likes with it, and counters
\* that no TPM has reached.
Forged == [ak : {Imported(t) : t \in TPMs}, counter : 0 .. MaxCounter + 1, nonce : 1 .. issued, agent : Agents]

AnyBinding(att, agent, nonce) == TRUE
AnyCounter(t, att)            == TRUE

BoundTo(att, agent, nonce) == att.agent = agent /\ att.nonce = nonce

Above(t, att) == att.counter > operators[t].last_counter

\* _admit: signed by an enrolled key, for a nonce that is open, bound to nonce and agent, with a
\* counter above the last one.
admit_agent(agent, nonce, att) ==
    LET signer == ak_owner[att.ak] IN
    /\ signer # Nobody
    /\ nonce \in nonces
    /\ BoundTo(att, agent, nonce)
    /\ Above(signer, att)
    /\ nonces' = nonces \ {nonce}
    /\ operators' = [operators EXCEPT ![signer].last_counter = att.counter]
    /\ admitted' = Append(admitted,
          [tpm |-> signer, agent |-> agent, nonce |-> nonce, counter |-> att.counter])
    /\ UNCHANGED <<tpmVars, ak_owner, pending, activated, challenged, credentialed, issued>>

Next ==
    \/ \E t \in TPMs :
          \/ provision(t) \/ recreateCounter(t)
          \/ \E nonce \in 1 .. issued, agent \in Agents : attest_registration(t, nonce, agent)
    \/ \E a \in Accounts :
          \/ \E t, u \in TPMs : \E ak \in {Resident(u), Imported(u)} : begin_enrolment(a, t, ak)
          \/ activate_credential(a)
          \/ \E mined \in BOOLEAN : finish_enrolment(a, mined)
          \/ revokeCredential(a)
    \/ issue_nonce
    \/ \E agent \in Agents, nonce \in nonces, att \in attests \cup Forged : admit_agent(agent, nonce, att)

Spec == Init /\ [][Next]_vars

------------------------------------------------------------------------------
(* Properties.                                                               *)

TypeOK ==
    /\ key \in [TPMs -> 1 .. MaxKeys] /\ counter \in [TPMs -> Counters]
    /\ attests \subseteq Attest
    /\ operators \in [TPMs -> Operator \cup {NoOperator}]
    /\ ak_owner \in [AK -> TPMs \cup {Nobody}]
    /\ pending \in [Accounts -> Pending \cup {NoPending}]
    /\ nonces \subseteq 1 .. issued /\ issued \in 0 .. MaxNonces /\ challenged \in 0 .. MaxChallenges
    /\ activated \subseteq {a \in Accounts : pending[a] # NoPending}
    /\ credentialed \subseteq Accounts /\ admitted \in Seq(Admitted)

\* Every enrolled key was made in the TPM it is enrolled for, and that TPM has an operator:
\* activating the challenge "proves the AK lives in the certified TPM" (module docstring), also
\* with the public material of two TPMs mixed, keys replaced under way and challenges overwritten.
KeysAreResident ==
    \A ak \in AK : ak_owner[ak] # Nobody =>
        ak.resident /\ ak.tpm = ak_owner[ak] /\ operators[ak.tpm] # NoOperator

\* Admissions of one TPM come in the order of its counter, whatever keys it has had since, and
\* none uses the nonce of another: nothing is admitted twice.
AdmittedInOrder ==
    \A i \in DOMAIN admitted : \A j \in 1 .. i - 1 :
        /\ admitted[j].tpm = admitted[i].tpm => admitted[j].counter < admitted[i].counter
        /\ admitted[j].nonce # admitted[i].nonce

\* An attested admission is one that the TPM of the operator it is booked to certified for this
\* agent, with this nonce and counter.
AdmittedIsAttested ==
    \A i \in DOMAIN admitted : \E att \in attests :
        /\ att.ak.tpm = admitted[i].tpm
        /\ att.agent = admitted[i].agent /\ att.nonce = admitted[i].nonce
        /\ att.counter = admitted[i].counter

\* A TPM keeps its account and its counter history, however often it is enrolled again, by
\* whomever and with whatever key: "re-keying does not reset the operator's history".
HistoryKept ==
    [][\A t \in TPMs : operators[t] # NoOperator =>
          /\ operators'[t] # NoOperator
          /\ operators'[t].account = operators[t].account
          /\ operators'[t].last_counter >= operators[t].last_counter]_vars

\* An account comes by a credential, or by one again after it was revoked, only with a TPM that
\* had no operator before, also when several accounts enrol one TPM at the same time.
CredentialNeedsNewHardware ==
    [][\A a \in credentialed' \ credentialed :
          \E t \in TPMs : /\ operators[t] = NoOperator
                          /\ operators'[t] # NoOperator /\ operators'[t].account = a]_vars
==============================================================================
