----------------------------- MODULE Attestation -----------------------------
(***************************************************************************)
(* Verify-then-sign in a trusted execution environment with remote         *)
(* attestation (integration/embodiments/tee_sim.py, enclave.py), on the    *)
(* machines whose TPMs the admission registry has enrolled.                *)
(*                                                                         *)
(* A verifier build stands for its hash.  What runs as the enclave is      *)
(* enclave.py with the modules it imports: as written ("genuine"), changed *)
(* in enclave.py itself ("replaced"), or in a module the measurement does  *)
(* not cover ("unmeasured").  An enclave's signing key is the enclave's    *)
(* number; HostKey is a key outside any genuine enclave.  A request is one *)
(* that the approved build accepts or not.  Launches on one machine come   *)
(* one after the other, as in main; the files on disk and the private copy *)
(* of an enclave may be changed at any moment.                             *)
(***************************************************************************)
EXTENDS Admission

CONSTANTS Builds, approved,   \* verifier builds; those whose measurement is approved
          HostKey, NoMeasurement, MaxEnclaves

ASSUME BuildsAssumption ==
    approved \subseteq Builds /\ MaxEnclaves \in Nat /\ HostKey \notin Nat

VARIABLES
    disk,        \* the enclave's program and the verifier the launcher is pointed at
    pcr,         \* per TPM: what PCR 16 was reset and extended with
    launching,   \* per TPM: how far the launch has come, the program it runs, the key it names
    enclaves,    \* the genuine enclaves, in order
    misled,      \* the keys named by a program that is not the one that was measured
    quotes,      \* what the TPMs have quoted
    attesters,   \* AttesterRegistry.attesters
    signed       \* the signatures given out: signer, whether the request deserved it, and
                 \* whether the copy that decided was put there after the re-hash

attestationVars == <<disk, pcr, launching, enclaves, misled, quotes, attesters, signed>>

Programs    == {"genuine", "replaced", "unmeasured"}
Keys        == (1 .. MaxEnclaves) \cup {HostKey}
Measurement == [program : {"genuine", "replaced"}, verifier : Builds]
Launch      == [at : {"idle", "measured", "started", "identified"}, program : Programs, key : Keys]
Quote       == [ak : AK, extra : Keys, pcr : Measurement \cup {NoMeasurement}]
Signature   == [signer : Keys, deserved : BOOLEAN, slipped : BOOLEAN]

\* A genuine enclave: its machine, the verifier it hashed at its start, its private copy by now,
\* and the request between re-hash and decision, if any: whether it deserves the signature, and
\* what the copy was when it was hashed.
Check   == [deserved : BOOLEAN, hashed : Builds]
Enclave == [tpm : TPMs, build : Builds, copy : Builds, checking : SUBSET Check]

\* measurement: over enclave.py and the verifier, not over what enclave.py imports.
Measured(d) == [program  |-> IF d.program = "unmeasured" THEN "genuine" ELSE d.program,
                verifier |-> d.verifier]

ApprovedMeasurements == [program : {"genuine"}, verifier : approved]

Idle == [at |-> "idle", program |-> "genuine", key |-> HostKey]

AttestationInit ==
    /\ Init
    /\ disk \in [program : {"genuine"}, verifier : approved]
    /\ pcr = [t \in TPMs |-> NoMeasurement]
    /\ launching = [t \in TPMs |-> Idle]
    /\ enclaves = <<>>
    /\ misled = {} /\ quotes = {} /\ attesters = {} /\ signed = {}

------------------------------------------------------------------------------
(* The launcher and what it starts.                                          *)

replaceOnDisk(d) ==
    /\ disk' = d
    /\ UNCHANGED <<pcr, launching, enclaves, misled, quotes, attesters, signed>>

\* launch: measurement, tpm2_pcrreset, tpm2_pcrextend.
measure(t) ==
    /\ launching[t].at = "idle"
    /\ pcr' = [pcr EXCEPT ![t] = Measured(disk)]
    /\ launching' = [launching EXCEPT ![t].at = "measured"]
    /\ UNCHANGED <<disk, enclaves, misled, quotes, attesters, signed>>

\* Enclave: a process with the program on disk by now.
start(t) ==
    /\ launching[t].at = "measured"
    /\ launching' = [launching EXCEPT ![t].at = "started", ![t].program = disk.program]
    /\ UNCHANGED <<disk, pcr, enclaves, misled, quotes, attesters, signed>>

\* Variants of the operations, each with one slip; only the mutation runs use them.
AgreesUnchecked(t, m) == TRUE
RehashedUnchecked(n)  == TRUE

\* The launcher compares what it measured with what the enclave says of itself.
Agrees(t, m) == m = pcr[t]

\* The launch goes on with the key that was named, or ends in an exception without a quote.
answered(t, m, k) ==
    launching' = [launching EXCEPT ![t] =
                     IF Agrees(t, m) THEN [at |-> "identified", program |-> @.program, key |-> k] ELSE Idle]

\* A genuine enclave copies the verifier that is on disk by now, hashes the copy and the file of
\* its own program, and makes a key.
identify(t) ==
    LET n == Len(enclaves) + 1
        v == disk.verifier
    IN  /\ launching[t].at = "started" /\ launching[t].program = "genuine" /\ n <= MaxEnclaves
        /\ enclaves' = Append(enclaves, [tpm |-> t, build |-> v, copy |-> v, checking |-> {}])
        /\ answered(t, Measured(disk), n)
        /\ UNCHANGED <<disk, pcr, misled, quotes, attesters, signed>>

\* Any other program says what it likes of itself, and names whichever key it likes.
pretend(t, m, k) ==
    /\ launching[t].at = "started" /\ launching[t].program # "genuine"
    /\ answered(t, m, k)
    /\ misled' = IF pcr[t].program = "genuine" THEN misled \cup {k} ELSE misled
    /\ UNCHANGED <<disk, pcr, enclaves, quotes, attesters, signed>>

\* tpm2_quote, with the attestation key the TPM holds by now.
quote(t) ==
    /\ launching[t].at = "identified"
    /\ quotes' = quotes \cup {[ak |-> Resident(t), extra |-> launching[t].key, pcr |-> pcr[t]]}
    /\ launching' = [launching EXCEPT ![t] = Idle]
    /\ UNCHANGED <<disk, pcr, enclaves, misled, attesters, signed>>

\* The private copy is changed after the launch.
tamper(n, b) ==
    /\ enclaves' = [enclaves EXCEPT ![n].copy = b]
    /\ UNCHANGED <<disk, pcr, launching, misled, quotes, attesters, signed>>

\* enclave.py, "attest": hash the private copy again.
Rehashed(n) == enclaves[n].copy = enclaves[n].build

rehash(n, deserved) ==
    /\ enclaves[n].checking = {}
    /\ Rehashed(n)
    /\ enclaves' = [enclaves EXCEPT ![n].checking =
                       {[deserved |-> deserved, hashed |-> enclaves[n].copy]}]
    /\ UNCHANGED <<disk, pcr, launching, misled, quotes, attesters, signed>>

\* Then run the copy that is there by now, and sign when it accepts.  An approved build refuses
\* what does not deserve a signature; one that is not approved may accept or refuse anything.
decide(n, c, accept) ==
    LET copy == enclaves[n].copy IN
    /\ copy \in approved => accept = c.deserved
    /\ signed' = IF accept
                 THEN signed \cup {[signer |-> n, deserved |-> c.deserved, slipped |-> copy # c.hashed]}
                 ELSE signed
    /\ enclaves' = [enclaves EXCEPT ![n].checking = {}]
    /\ UNCHANGED <<disk, pcr, launching, misled, quotes, attesters>>

\* A key outside any genuine enclave signs whatever its holder likes.
signOnHost(deserved) ==
    /\ signed' = signed \cup {[signer |-> HostKey, deserved |-> deserved, slipped |-> FALSE]}
    /\ UNCHANGED <<disk, pcr, launching, enclaves, misled, quotes, attesters>>

------------------------------------------------------------------------------
(* The registry of attesters and the settlement side.                        *)

KeysThere == DOMAIN enclaves \cup {HostKey}

\* A quote for any key over any PCR, signed with an attestation key that is held outside its TPM.
ForgedQuotes ==
    [ak : {Imported(t) : t \in TPMs}, extra : KeysThere, pcr : Measurement]

\* register: signed by an enrolled platform, bound to the key, over an approved measurement.
register(address, q) ==
    /\ ak_owner[q.ak] # Nobody
    /\ q.extra = address
    /\ q.pcr \in ApprovedMeasurements
    /\ attesters' = attesters \cup {address}
    /\ UNCHANGED <<disk, pcr, launching, enclaves, misled, quotes, signed>>

counts(s) == s.signer \in attesters

AttestationNext ==
    \/ \E d \in [program : Programs, verifier : Builds] : replaceOnDisk(d)
    \/ \E t \in TPMs : \/ measure(t) \/ start(t) \/ identify(t) \/ quote(t)
                       \/ \E m \in Measurement, k \in KeysThere : pretend(t, m, k)
    \/ \E n \in DOMAIN enclaves : \/ \E b \in Builds : tamper(n, b)
                                  \/ \E deserved \in BOOLEAN : rehash(n, deserved)
                                  \/ \E c \in enclaves[n].checking, accept \in BOOLEAN : decide(n, c, accept)
    \/ \E deserved \in BOOLEAN : signOnHost(deserved)
    \/ \E address \in KeysThere, q \in quotes \cup ForgedQuotes : register(address, q)

AttestationSpec ==
    /\ AttestationInit
    /\ [][(Next /\ UNCHANGED attestationVars) \/ (AttestationNext /\ UNCHANGED vars)]_<<vars, attestationVars>>

------------------------------------------------------------------------------
(* Properties.                                                               *)

AttestationTypeOK ==
    /\ disk \in [program : Programs, verifier : Builds]
    /\ pcr \in [TPMs -> Measurement \cup {NoMeasurement}]
    /\ launching \in [TPMs -> Launch]
    /\ enclaves \in Seq(Enclave) /\ Len(enclaves) <= MaxEnclaves
    /\ quotes \subseteq Quote /\ signed \subseteq Signature
    /\ attesters \subseteq Keys /\ misled \subseteq Keys

\* "Counts a signature only if its signer is a registered enclave key" that runs the approved
\* verifier: a counted signature was given by a genuine enclave that hashed the approved build, on a
\* machine that is enrolled; and the request deserved it, unless the private copy was exchanged
\* between the re-hash and the run of that very request.  So it is whatever is put on disk and
\* whenever, whichever keys the TPM has had, and whatever is quoted and registered again, for every
\* key but those named by a program that was exchanged between its measurement and its start, or
\* that imports what no measurement covers.
CountedIsVerified ==
    \A s \in signed : counts(s) =>
        \/ s.signer \in misled
        \/ /\ s.slipped \/ s.deserved
           /\ s.signer \in DOMAIN enclaves
           /\ enclaves[s.signer].build \in approved
           /\ operators[enclaves[s.signer].tpm] # NoOperator
==============================================================================
