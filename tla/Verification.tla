---------------------------- MODULE Verification ----------------------------
(***************************************************************************)
(* The verification oracle of the registry: the verifier set, threshold    *)
(* and validity the admins configure, and the attestations of one invoice  *)
(* (each invoice has a list of its own).  Of the invoice only whether it   *)
(* still takes attestations matters; hashes are left out, and so are the   *)
(* fees, which move tokens of the originator and no state of the registry. *)
(***************************************************************************)
EXTENDS Integers, SequencesExt

CONSTANTS
  Verifiers,        \* accounts that may be trusted
  Types,            \* VERIFICATION_TYPES
  MaxVerifiers,     \* MAX_VERIFIERS
  MaxAttestations,  \* MAX_ATTESTATIONS_PER_INVOICE
  MinValidity,      \* MIN_ATTESTATION_VALIDITY_SECS
  MaxValidity,      \* MAX_ATTESTATION_VALIDITY_SECS
  Thresholds,       \* bound: thresholds the admins may submit
  Validities,       \* bound: validities the admins may submit
  MaxTime           \* bound: last ledger time

(* The last conjunct is the arithmetic the comment on evict_one_slot rests *)
(* on: in the code 60 = 20 * 3.                                            *)
ASSUME VerificationAssumption ==
  /\ IsFiniteSet(Types)
  /\ Types # {}
  /\ MaxVerifiers \in Nat \ {0}
  /\ MinValidity \in Nat
  /\ MaxValidity \in Nat
  /\ Thresholds \subseteq Nat
  /\ Validities \subseteq Nat
  /\ MaxTime \in Nat
  /\ MaxAttestations \in Nat
  /\ MaxAttestations >= MaxVerifiers * Cardinality(Types)

VARIABLES
  now,           \* env.ledger().timestamp()
  paused,        \* the "paused" flag
  attestable,    \* the invoice is Pending or Financed
  verifiers,     \* "verifrs"
  threshold,     \* "verthr"
  validity,      \* "vervld"
  attestations   \* the attestations of the invoice, oldest first

configVars == <<verifiers, threshold, validity>>
verVars    == <<now, paused, attestable, configVars, attestations>>

VerificationStatuses == {"Pending", "Verified", "Rejected", "Expired"}

Attestation == [verifier    : Verifiers,
                v_type      : Types,
                valid_until : Nat,
                status      : VerificationStatuses \ {"Pending"}]

-----------------------------------------------------------------------------
(* What the attestations say *)

(* effective_status: expiry is derived from the clock                      *)
EffectiveStatus(r) == IF now > r.valid_until THEN "Expired" ELSE r.status

(* type_status.  Only the verifiers of today are heard.                    *)
TypeStatusOf(list, t) ==
  LET heard == {k \in DOMAIN list : list[k].v_type = t /\ list[k].verifier \in verifiers}
      saying(s) == {k \in heard : EffectiveStatus(list[k]) = s}
  IN CASE saying("Rejected") # {} -> "Rejected"
       [] saying("Rejected") = {} /\ Cardinality(saying("Verified")) >= threshold -> "Verified"
       [] saying("Rejected") = {} /\ saying("Verified") = {} /\ saying("Expired") # {} -> "Expired"
       [] OTHER -> "Pending"

(* get_verification_status                                                 *)
TypeStatus(t) == TypeStatusOf(attestations, t)

(* get_invoice_verification_status                                         *)
InvoiceVerificationStatus ==
  LET said == {TypeStatus(t) : t \in Types}
  IN CASE "Rejected" \in said -> "Rejected"
       [] said = {"Verified"} -> "Verified"
       [] "Rejected" \notin said /\ "Expired" \in said -> "Expired"
       [] OTHER -> "Pending"

-----------------------------------------------------------------------------
VerInit ==
  /\ now = 0
  /\ paused = FALSE
  /\ attestable = TRUE
  /\ verifiers = {}
  /\ threshold = 1
  /\ validity \in Validities
  /\ attestations = << >>

(* Configuration by a quorum of admins *)

(* add_verifier: idempotent                                                *)
AddVerifier(v) ==
  /\ ~paused
  /\ v \in verifiers \/ Cardinality(verifiers) < MaxVerifiers
  /\ verifiers' = verifiers \cup {v}
  /\ UNCHANGED <<now, paused, attestable, threshold, validity, attestations>>

(* remove_verifier: the attestations stay                                  *)
RemoveVerifier(v) ==
  /\ ~paused
  /\ verifiers' = verifiers \ {v}
  /\ UNCHANGED <<now, paused, attestable, threshold, validity, attestations>>

(* set_verifier_threshold: not limited by the number of verifiers          *)
SetVerifierThreshold(m) ==
  /\ ~paused
  /\ m \in 1 .. MaxVerifiers
  /\ threshold' = m
  /\ UNCHANGED <<now, paused, attestable, verifiers, validity, attestations>>

SetAttestationValidity(secs) ==
  /\ ~paused
  /\ secs \in MinValidity .. MaxValidity
  /\ validity' = secs
  /\ UNCHANGED <<now, paused, attestable, verifiers, threshold, attestations>>

-----------------------------------------------------------------------------
(* Attestations *)

(* The positions evict_one_slot may free: records of verifiers no longer   *)
(* trusted, and only without one of those a lapsed record.                 *)
Evictable(list) ==
  LET departed == {k \in DOMAIN list : list[k].verifier \notin verifiers}
      lapsed   == {k \in DOMAIN list : EffectiveStatus(list[k]) = "Expired"}
  IN IF departed # {} THEN departed ELSE lapsed

(* Mutant: simply the oldest record.                                       *)
EvictOneSlotOldest(list) == RemoveAt(list, 1)

(* evict_one_slot                                                          *)
EvictOneSlot(list) == RemoveAt(list, Min(Evictable(list)))

(* The list without what the verifier said before about the same fact.     *)
OthersThan(v, t) ==
  LET updated[k \in 0 .. Len(attestations)] ==
        IF k = 0 THEN << >>
        ELSE IF attestations[k].verifier = v /\ attestations[k].v_type = t
             THEN updated[k - 1]
             ELSE Append(updated[k - 1], attestations[k])
  IN updated[Len(attestations)]

NewAttestation(v, t, approved) ==
  [verifier |-> v, v_type |-> t, valid_until |-> now + validity,
   status |-> IF approved THEN "Verified" ELSE "Rejected"]

(* Mutant: a verifier's earlier statement is kept.                         *)
AttestStacking(v, t, approved) ==
  LET others == attestations
  IN /\ ~paused
     /\ v \in verifiers
     /\ attestable
     /\ Len(others) >= MaxAttestations => Evictable(others) # {}
     /\ attestations' =
          Append(IF Len(others) >= MaxAttestations THEN EvictOneSlot(others) ELSE others,
                 NewAttestation(v, t, approved))
     /\ UNCHANGED <<now, paused, attestable, configVars>>

Attest(v, t, approved) ==
  LET others == OthersThan(v, t)
  IN /\ ~paused
     /\ v \in verifiers
     /\ attestable
     /\ Len(others) >= MaxAttestations => Evictable(others) # {}
     /\ attestations' =
          Append(IF Len(others) >= MaxAttestations THEN EvictOneSlot(others) ELSE others,
                 NewAttestation(v, t, approved))
     /\ UNCHANGED <<now, paused, attestable, configVars>>

(* Mutant: a record is written off in its last second.                     *)
ExpireVerificationsEarly ==
  /\ ~paused
  /\ attestations # << >>
  /\ attestations' = [k \in DOMAIN attestations |->
       [attestations[k] EXCEPT !.status =
          IF now >= attestations[k].valid_until THEN "Expired" ELSE @]]
  /\ UNCHANGED <<now, paused, attestable, configVars>>

(* expire_verifications: anyone may call it                                *)
ExpireVerifications ==
  /\ ~paused
  /\ attestations # << >>
  /\ attestations' = [k \in DOMAIN attestations |->
       [attestations[k] EXCEPT !.status = EffectiveStatus(attestations[k])]]
  /\ UNCHANGED <<now, paused, attestable, configVars>>

(* The life cycle of the invoice, in module Registry.                      *)
InvoiceMoves ==
  /\ attestable' = ~attestable
  /\ UNCHANGED <<now, paused, configVars, attestations>>

SetPaused(flag) ==
  /\ paused' = flag
  /\ UNCHANGED <<now, attestable, configVars, attestations>>

Tick ==
  /\ now < MaxTime
  /\ now' = now + 1
  /\ UNCHANGED <<paused, attestable, configVars, attestations>>

VerNext ==
  \/ Tick \/ InvoiceMoves \/ ExpireVerifications
  \/ \E flag \in BOOLEAN : SetPaused(flag)
  \/ \E v \in Verifiers :
       \/ AddVerifier(v)
       \/ RemoveVerifier(v)
       \/ \E t \in Types, approved \in BOOLEAN : Attest(v, t, approved)
  \/ \E m \in Thresholds : SetVerifierThreshold(m)
  \/ \E secs \in Validities : SetAttestationValidity(secs)

VerSpec == VerInit /\ [][VerNext]_verVars

-----------------------------------------------------------------------------
(* Properties *)

VerTypeOK ==
  /\ now \in 0 .. MaxTime
  /\ paused \in BOOLEAN
  /\ attestable \in BOOLEAN
  /\ verifiers \subseteq Verifiers
  /\ IsFiniteSet(verifiers)
  /\ Cardinality(verifiers) <= MaxVerifiers
  /\ threshold \in Nat \ {0}
  /\ validity \in Nat
  /\ attestations \in Seq(Attestation)

(* The facts somebody has spoken to; attest replaces, so each is here once.*)
OneStatementEach ==
  \A j, k \in DOMAIN attestations :
    attestations[j].verifier = attestations[k].verifier
      /\ attestations[j].v_type = attestations[k].v_type => j = k

(***************************************************************************)
(* A verdict rests on distinct trusted verifiers: a fact is Verified       *)
(* exactly when nobody trusted now holds a live rejection and at least the *)
(* threshold of verifiers trusted now hold a live approval, whatever was   *)
(* replaced, lapsed, evicted or revoked before, and the invoice exactly    *)
(* when all its facts are.  type_status counts records, not verifiers.     *)
(***************************************************************************)
VerdictNeedsQuorum ==
  LET live(v, t, s) == \E k \in DOMAIN attestations :
        /\ attestations[k].verifier = v
        /\ attestations[k].v_type = t
        /\ attestations[k].status = s
        /\ now <= attestations[k].valid_until
      verified(t) == /\ \A v \in verifiers : ~live(v, t, "Rejected")
                     /\ Cardinality({v \in verifiers : live(v, t, "Verified")}) >= threshold
  IN /\ Len(attestations) <= MaxAttestations
     /\ \A t \in Types : (TypeStatus(t) = "Verified") <=> verified(t)
     /\ (InvoiceVerificationStatus = "Verified") <=> \A t \in Types : verified(t)

(***************************************************************************)
(* An attestation moves the status of its own fact, as if the list had no  *)
(* limit, and of no other: a full list costs nobody's vote (registry       *)
(* 417-436, "fully status-preserving").                                    *)
(***************************************************************************)
EvictionIsSilent ==
  [][\A v \in Verifiers, t \in Types, approved \in BOOLEAN :
       Attest(v, t, approved) =>
         LET unbounded == Append(OthersThan(v, t), NewAttestation(v, t, approved))
         IN \A u \in Types : TypeStatus(u)' = TypeStatusOf(unbounded, u)]_verVars

(***************************************************************************)
(* A trusted verifier is never locked out of an invoice that takes         *)
(* attestations: the list it writes to has a place, or an attestation of   *)
(* somebody no longer trusted to give way (evict_one_slot).                *)
(***************************************************************************)
AlwaysRoom ==
  \A v \in verifiers, t \in Types :
    Len(OthersThan(v, t)) >= MaxAttestations =>
      \E k \in DOMAIN OthersThan(v, t) : OthersThan(v, t)[k].verifier \notin verifiers

(***************************************************************************)
(* The keeper's poke is a notification only: no status, of a fact or of    *)
(* the invoice, depends on whether or when it came (expire_verifications). *)
(***************************************************************************)
PokeIsUnobservable ==
  [][ExpireVerifications =>
       /\ \A t \in Types : TypeStatus(t)' = TypeStatus(t)
       /\ InvoiceVerificationStatus' = InvoiceVerificationStatus]_verVars
=============================================================================
