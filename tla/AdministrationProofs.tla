------------------------ MODULE AdministrationProofs ------------------------
(***************************************************************************)
(* Proofs about the administration of a contract, in the reputation        *)
(* contract, and about the weights of that contract, for any accounts,     *)
(* executables, numbers of signers and outcomes, versions and half-lives.  *)
(***************************************************************************)
EXTENDS Reputation, FiniteSums, SequenceTheorems

-----------------------------------------------------------------------------
(* Counting signers *)

(* A list without repetitions has as many members as entries.              *)
LEMMA InjectiveCount ==
  ASSUME NEW S, NEW s \in Seq(S), IsInjective(s)
  PROVE  /\ IsFiniteSet(ToSet(s))
         /\ Cardinality(ToSet(s)) = Len(s)
<1>1. DOMAIN s = 1 .. Len(s) /\ Len(s) \in Nat
  OBVIOUS
<1>2. s \in [1 .. Len(s) -> ToSet(s)]
  BY <1>1 DEF ToSet
<1>3. s \in Injection(1 .. Len(s), ToSet(s))
  BY <1>2 DEF Injection
<1>4. s \in Surjection(1 .. Len(s), ToSet(s))
  BY <1>1, <1>2 DEF Surjection, ToSet
<1>5. ExistsBijection(1 .. Len(s), ToSet(s))
  BY <1>3, <1>4 DEF Bijection, ExistsBijection
<1> QED
  BY <1>1, <1>5, FS_CountingElements, FS_NatBijection

LEMMA ListsAreSequences ==
  ASSUME NEW list \in Lists
  PROVE  list \in Seq(Accounts) /\ ToSet(list) \subseteq Accounts
  BY AdministrationAssumption DEF Lists, SeqOf, ToSet

(* A call that assert_threshold lets through is signed by a quorum.        *)
LEMMA QuorumSigned ==
  ASSUME NEW provided \in Lists, AssertThreshold(provided)
  PROVE  /\ signed' \subseteq Accounts
         /\ Cardinality(signed' \cap ToSet(signers)) >= threshold
<1>1. /\ provided \in Seq(Accounts)
      /\ ToSet(provided) \subseteq Accounts
      /\ signed' = ToSet(provided)
      /\ signed' \cap ToSet(signers) = ToSet(provided)
      /\ Len(provided) >= threshold
      /\ IsInjective(provided)
  BY ListsAreSequences DEF AssertThreshold
<1>2. Cardinality(ToSet(provided)) = Len(provided)
  BY <1>1, InjectiveCount
<1> QED
  BY <1>1, <1>2

-----------------------------------------------------------------------------
(* The configuration *)

(* What validate_signers establishes, and transfer_admin too.              *)
ConfigInv ==
  /\ signers \in Seq(Accounts)
  /\ IsInjective(signers)
  /\ threshold \in 1 .. Len(signers)

LEMMA ConfigInit ==
  ASSUME AdminInit
  PROVE  ConfigInv
  BY AdministrationAssumption DEF AdminInit, ConfigInv, IsInjective

(* An action of the administration.                                        *)
LEMMA AdminNextSigned ==
  ASSUME AdminNext
  PROVE  /\ signed' \subseteq Accounts
         /\ Cardinality(signed' \cap ToSet(signers)) >= threshold
<1>1. PICK provided \in Lists : AssertThreshold(provided)
  BY DEF AdminNext, SetSigners, TransferAdmin, SetPaused, Upgrade, PostUpgrade, Rollback
<1> QED
  BY <1>1, QuorumSigned

LEMMA AdminNextConfig ==
  ASSUME ConfigInv, AdminNext
  PROVE  ConfigInv'
<1>1. CASE UNCHANGED configVars
  BY <1>1 DEF ConfigInv, configVars
<1>2. ASSUME NEW provided \in Lists, NEW list \in Lists, NEW n \in 0 .. MaxProvided + 1,
             SetSigners(provided, list, n)
      PROVE  ConfigInv'
  BY <1>2, ListsAreSequences DEF SetSigners, ValidSigners, ConfigInv
<1>3. ASSUME NEW provided \in Lists, NEW admin \in Accounts, TransferAdmin(provided, admin)
      PROVE  ConfigInv'
  BY <1>3 DEF TransferAdmin, ConfigInv, IsInjective
<1> QED
  BY <1>1, <1>2, <1>3 DEF AdminNext, SetPaused, Upgrade, PostUpgrade, Rollback

(* Every other step leaves the administration alone.                       *)
LEMMA StepIsAdministration ==
  ASSUME [Next]_vars
  PROVE  AdminNext \/ UNCHANGED adminVars
  BY DEF Next, vars, RecordOutcome, ResolveDispute, SetRecorder, Tick

LEMMA StepConfig ==
  ASSUME ConfigInv, [Next]_vars
  PROVE  ConfigInv'
<1>1. CASE UNCHANGED adminVars
  BY <1>1 DEF adminVars, configVars, ConfigInv
<1> QED
  BY <1>1, StepIsAdministration, AdminNextConfig

(***************************************************************************)
(* No key counts twice and no configuration locks the admins out, for any  *)
(* numbers of accounts and signers (AdminByQuorum; common 834-877).        *)
(***************************************************************************)
THEOREM AdministrationByQuorum == Spec => AdminByQuorum
<1>1. Init => ConfigInv
  BY ConfigInit DEF Init
<1>2. ConfigInv /\ [Next]_vars => ConfigInv'
  BY StepConfig
<1>3. ASSUME ConfigInv, [Next]_vars, adminVars' # adminVars
      PROVE  /\ Cardinality(signed' \cap ToSet(signers)) >= threshold
             /\ threshold' \in 1 .. Cardinality(ToSet(signers'))
  <2>1. AdminNext
    BY <1>3, StepIsAdministration
  <2>2. ConfigInv'
    BY <1>3, StepConfig
  <2>3. Cardinality(ToSet(signers)) = Len(signers)
    BY <1>3, InjectiveCount DEF ConfigInv
  <2>4. Cardinality(ToSet(signers'))  = Len(signers')
    BY <2>2, InjectiveCount DEF ConfigInv
  <2> QED
    BY <2>1, <2>2, <2>4, AdminNextSigned DEF ConfigInv
<1>4. ConfigInv /\ [Next]_vars =>
        [/\ adminVars' # adminVars =>
             /\ Cardinality(signed' \cap ToSet(signers)) >= threshold
             /\ threshold' \in 1 .. Cardinality(ToSet(signers'))]_<<adminVars, signed>>
  BY <1>3
<1> QED
  BY <1>1, <1>2, <1>4, PTL DEF Spec, AdminByQuorum

-----------------------------------------------------------------------------
(* The executable and its metadata *)

UpgradeTypes ==
  /\ version \in 1 .. MaxVersion
  /\ pending \in Releases \cup {NoUpgrade}
  /\ previous \in Releases \cup {NoUpgrade}
  /\ code \in Executables
  /\ lineage \in Seq(Releases)
  /\ Len(lineage) > 0

UpgradeInv == UpgradeTypes /\ MetadataFollowsCode

(* NoUpgrade is not a release, and a release is what its fields say.       *)
LEMMA ReleaseFacts ==
  /\ NoUpgrade \notin Releases
  /\ \A wasm \in Executables, v \in 1 .. MaxVersion :
       /\ Release(wasm, v) \in Releases
       /\ Release(wasm, v).wasm = wasm
       /\ Release(wasm, v).version = v
  /\ \A r \in Releases : /\ r = Release(r.wasm, r.version)
                         /\ r.wasm \in Executables
                         /\ r.version \in 1 .. MaxVersion
<1>1. Releases \subseteq [wasm : Executables, version : Nat]
  BY AdministrationAssumption DEF Releases
<1>2. NoUpgrade \notin Releases
  BY <1>1, AdministrationAssumption
<1> QED
  BY <1>2 DEF Releases, Release

LEMMA UpgradeInit ==
  ASSUME AdminInit
  PROVE  UpgradeInv
<1>1. Release(FirstExecutable, 1) \in Releases
  BY ReleaseFacts, AdministrationAssumption
<1>2. lineage = <<Release(FirstExecutable, 1)>> /\ lineage \in Seq(Releases) /\ Len(lineage) = 1
  BY <1>1 DEF AdminInit
<1>3. UpgradeTypes
  BY <1>2, AdministrationAssumption DEF AdminInit, UpgradeTypes
<1>4. MetadataFollowsCode
  BY <1>1, <1>2, ReleaseFacts, AdministrationAssumption DEF AdminInit, MetadataFollowsCode
<1> QED
  BY <1>3, <1>4 DEF UpgradeInv

(* begin_upgrade retains what runs, under the name the signers gave it.    *)
LEMMA UpgradeKeeps ==
  ASSUME UpgradeInv, NEW provided, NEW current \in Executables, NEW wasm \in Executables,
         NEW v \in 1 .. MaxVersion, Upgrade(provided, current, wasm, v)
  PROVE  UpgradeInv'
<1> USE DEF UpgradeInv, UpgradeTypes
<1> DEFINE last == Len(lineage)
           new == Release(wasm, v)
           old == Release(current, version)
<1>1. /\ new \in Releases /\ new # NoUpgrade /\ new.wasm = wasm /\ new.version = v
      /\ old \in Releases /\ old # NoUpgrade /\ old.version = version
  BY ReleaseFacts
<1>2. /\ pending = NoUpgrade /\ pending' = new /\ previous' = old /\ code' = wasm
      /\ version' = version /\ v > version /\ misnamed' = (current # code)
      /\ lineage' = Append(lineage, new)
  BY DEF Upgrade
<1>3. /\ lineage' \in Seq(Releases) /\ Len(lineage') = last + 1
      /\ lineage'[last + 1] = new /\ lineage'[last] = lineage[last] /\ last \in Nat
  BY <1>1, <1>2
<1>4. lineage[last] = Release(code, version) /\ lineage[last].version = version
  BY <1>2, ReleaseFacts DEF MetadataFollowsCode
<1>5. misnamed' \/ old = lineage[last]
  BY <1>2, <1>4
<1>6. MetadataFollowsCode'
  <2> HIDE DEF last, new, old
  <2>1. Len(lineage') - 1 = last /\ last > 0
    BY <1>3 DEF last
  <2> QED
    BY <1>1, <1>2, <1>3, <1>4, <1>5, <2>1 DEF MetadataFollowsCode
<1> QED
  BY <1>1, <1>2, <1>3, <1>6

(* complete_upgrade gives the running executable its version.              *)
LEMMA PostUpgradeKeeps ==
  ASSUME UpgradeInv, NEW provided, PostUpgrade(provided)
  PROVE  UpgradeInv'
<1> USE DEF UpgradeInv, UpgradeTypes
<1>1. /\ pending \in Releases /\ pending # NoUpgrade /\ pending' = NoUpgrade
      /\ version' = pending.version
      /\ UNCHANGED <<previous, code, lineage, misnamed>>
  BY DEF PostUpgrade, upgradeVars
<1>2. code = pending.wasm /\ pending = lineage[Len(lineage)]
  BY <1>1 DEF MetadataFollowsCode
<1>3. Release(code', version') = pending /\ version' \in 1 .. MaxVersion
  BY <1>1, <1>2, ReleaseFacts
<1>4. MetadataFollowsCode'
  BY <1>1, <1>2, <1>3 DEF MetadataFollowsCode
<1> QED
  BY <1>1, <1>3, <1>4

LEMMA PrefixIsSequence ==
  ASSUME NEW S, NEW s \in Seq(S), NEW n \in Nat, n <= Len(s)
  PROVE  SubSeq(s, 1, n) \in Seq(S) /\ Len(SubSeq(s, 1, n)) = n
<1>1. \A i \in 1 .. n : s[i] \in S
  OBVIOUS
<1>2. SubSeq(s, 1, n) \in Seq(S)
  BY <1>1, SubSeqProperties
<1>3. Len(SubSeq(s, 1, n)) = IF 1 <= n THEN n - 1 + 1 ELSE 0
  BY <1>1, SubSeqProperties
<1> QED
  BY <1>2, <1>3

(* commit_rollback returns to the release before the one that runs.        *)
LEMMA RollbackKeeps ==
  ASSUME UpgradeInv, NEW provided, Rollback(provided)
  PROVE  UpgradeInv'
<1> USE DEF UpgradeInv, UpgradeTypes
<1> DEFINE last == Len(lineage)
<1>1. /\ pending = NoUpgrade /\ pending' = NoUpgrade
      /\ previous \in Releases /\ previous' = NoUpgrade
      /\ version' = previous.version /\ code' = previous.wasm
      /\ lineage' = Append(SubSeq(lineage, 1, last - 2), previous)
  BY DEF Rollback
<1>2. last > 1 /\ last \in Nat
  BY <1>1, ReleaseFacts DEF MetadataFollowsCode
<1>3. SubSeq(lineage, 1, last - 2) \in Seq(Releases) /\ Len(SubSeq(lineage, 1, last - 2)) = last - 2
  <2>1. last - 2 \in Nat /\ last - 2 <= Len(lineage) /\ lineage \in Seq(Releases)
    BY <1>2
  <2> HIDE DEF last
  <2> QED
    BY <2>1, PrefixIsSequence
<1>4. /\ lineage' \in Seq(Releases) /\ Len(lineage') = last - 1
      /\ lineage'[last - 1] = previous
  BY <1>1, <1>2, <1>3
<1>5. /\ previous = Release(code', version') /\ version' \in 1 .. MaxVersion
      /\ code' \in Executables
  BY <1>1, ReleaseFacts
<1>6. MetadataFollowsCode'
  BY <1>1, <1>4, <1>5 DEF MetadataFollowsCode
<1> QED
  BY <1>1, <1>2, <1>4, <1>5, <1>6

(***************************************************************************)
(* For any executables, versions and sequence of upgrades, completions and *)
(* rollbacks the metadata follows the executable, and what is retained is  *)
(* the release directly before it (MetadataFollowsCode; common 243-330).   *)
(***************************************************************************)
THEOREM MetadataFollowsExecutable == Spec => []MetadataFollowsCode
<1>1. Init => UpgradeInv
  BY UpgradeInit DEF Init
<1>2. ASSUME UpgradeInv, [Next]_vars
      PROVE  UpgradeInv'
  <2>1. CASE UNCHANGED upgradeVars
    BY <1>2, <2>1 DEF upgradeVars, UpgradeInv, UpgradeTypes, MetadataFollowsCode
  <2>2. ASSUME AdminNext
        PROVE  UNCHANGED upgradeVars \/ UpgradeInv'
    BY <1>2, <2>2, UpgradeKeeps, PostUpgradeKeeps, RollbackKeeps
       DEF AdminNext, SetSigners, TransferAdmin, SetPaused
  <2> QED
    BY <1>2, <2>1, <2>2, StepIsAdministration DEF adminVars
<1>3. UpgradeInv => MetadataFollowsCode
  BY DEF UpgradeInv
<1> QED
  BY <1>1, <1>2, <1>3, PTL DEF Spec

-----------------------------------------------------------------------------
(* The decay of a weight *)

Halves(h, n, w) == h = [k \in 0 .. n |-> IF k = 0 THEN w ELSE h[k - 1] \div 2]

LEMMA HalvesExists ==
  ASSUME NEW w, NEW n \in Nat
  PROVE  \E h : Halves(h, n, w)
<1> DEFINE S == {m \in Nat : ~ \E h : Halves(h, m, w)}
<1>1. SUFFICES ASSUME S # {} PROVE FALSE
  <2>1. n \notin S => \E h : Halves(h, n, w)
    OBVIOUS
  <2> QED BY <2>1
<1>2. PICK m \in S : \A l \in S : m <= l
  <2>1. S \in SUBSET Nat
    OBVIOUS
  <2> HIDE DEF S
  <2> QED BY <1>1, <2>1, LeastNatural
<1>3. m \in Nat /\ ~ \E h : Halves(h, m, w)
  OBVIOUS
<1>4. m # 0
  <2>1. Halves([k \in 0 .. 0 |-> w], 0, w)
    BY DEF Halves
  <2> QED BY <1>3, <2>1
<1>5. m - 1 \in Nat /\ m - 1 \notin S
  BY <1>2, <1>3, <1>4
<1>6. PICK h : Halves(h, m - 1, w)
  BY <1>5
<1> DEFINE g == [k \in 0 .. m |-> IF k = m THEN h[m - 1] \div 2 ELSE h[k]]
<1>7. ASSUME NEW k \in 0 .. m
      PROVE  g[k] = IF k = 0 THEN w ELSE g[k - 1] \div 2
  <2>1. CASE k = m
    BY <1>3, <1>4, <2>1
  <2>2. CASE k # m
    <3>1. k \in 0 .. (m - 1)
      BY <1>3, <2>2
    <3>2. h[k] = IF k = 0 THEN w ELSE h[k - 1] \div 2
      BY <1>6, <3>1 DEF Halves
    <3>3. g[k] = h[k] /\ (k # 0 => g[k - 1] = h[k - 1])
      BY <1>3, <2>2, <3>1
    <3> QED BY <3>2, <3>3
  <2> QED BY <2>1, <2>2
<1>8. g = [k \in 0 .. m |-> g[k]]
  OBVIOUS
<1> HIDE DEF g
<1>9. Halves(g, m, w)
  BY <1>7, <1>8 DEF Halves
<1> QED BY <1>3, <1>9

(* Halving a weight never raises it, and not halving it leaves it alone.   *)
LEMMA HalvedFalls ==
  ASSUME NEW w \in Nat, NEW n \in Nat
  PROVE  /\ Halved(w, n) \in Nat
         /\ Halved(w, n) <= w
         /\ n = 0 => Halved(w, n) = w
<1> DEFINE h == CHOOSE g : Halves(g, n, w)
           within(k) == h[k] \in Nat /\ h[k] <= w
           S == {k \in 0 .. n : ~ within(k)}
<1>1. Halves(h, n, w)
  BY HalvesExists
<1>2. Halved(w, n) = h[n]
  BY DEF Halved, Halves
<1> HIDE DEF h
<1>3. \A k \in 0 .. n : h[k] = IF k = 0 THEN w ELSE h[k - 1] \div 2
  BY <1>1 DEF Halves
<1>4. S = {}
  <2> SUFFICES ASSUME S # {} PROVE FALSE
    OBVIOUS
  <2>1. PICK m \in S : \A l \in S : m <= l
    <3>1. S \in SUBSET Nat
      OBVIOUS
    <3> HIDE DEF S
    <3> QED BY <3>1, LeastNatural
  <2>2. m \in 0 .. n /\ ~ within(m) /\ h[0] = w
    BY <1>3
  <2>3. m # 0
    BY <2>2
  <2>4. m - 1 \in 0 .. n /\ within(m - 1)
    BY <2>1, <2>2, <2>3
  <2>5. h[m] = h[m - 1] \div 2
    BY <1>3, <2>2, <2>3
  <2> QED BY <2>2, <2>4, <2>5
<1>5. within(n)
  BY <1>4
<1> QED BY <1>2, <1>3, <1>5

-----------------------------------------------------------------------------
(* The weights of one account *)

RecordType == [repayments : Nat, defaults : Nat, weighted_repayments : Nat,
               weighted_defaults : Nat, last_recompute : Nat]

OutcomeType == {Repaid, Defaulted} \X Nat

(* The outcomes of a kind in the list s, and those among them that a       *)
(* record last written at `since` holds in full.                           *)
OfKind(s, kind) == {n \in DOMAIN s : s[n][1] = kind}

FreshIn(s, kind, since) ==
  {n \in DOMAIN s : s[n][1] = kind /\ since < s[n][2] + HalfLife}

(* The record r of an account with the outcomes s weighs what it should at *)
(* the time t.  No outcome is younger than the last write: when a half-life*)
(* has passed since then, nothing is fresh and the weight may be halved.   *)
Weighs(r, s, t) ==
  /\ r \in RecordType
  /\ s \in Seq(OutcomeType)
  /\ r.last_recompute <= t
  /\ \A n \in DOMAIN s : s[n][2] <= r.last_recompute
  /\ s # << >> => r.last_recompute > 0
  /\ Cardinality(FreshIn(s, Repaid, r.last_recompute)) <= r.weighted_repayments
  /\ r.weighted_repayments <= r.repayments
  /\ r.defaults <= Cardinality(OfKind(s, Defaulted))
  /\ 2 * (Cardinality(FreshIn(s, Defaulted, r.last_recompute))
            - (Cardinality(OfKind(s, Defaulted)) - r.defaults)) <= r.weighted_defaults
  /\ r.weighted_defaults <= 2 * r.defaults

LEMMA OutcomeSets ==
  ASSUME NEW s \in Seq(OutcomeType), NEW kind, NEW since \in Nat
  PROVE  /\ OfKind(s, kind) \in SUBSET (1 .. Len(s))
         /\ FreshIn(s, kind, since) \in SUBSET (1 .. Len(s))
         /\ IsFiniteSet(OfKind(s, kind)) /\ IsFiniteSet(FreshIn(s, kind, since))
         /\ Cardinality(OfKind(s, kind)) \in Nat
         /\ Cardinality(FreshIn(s, kind, since)) \in Nat
<1>1. Len(s) \in Nat /\ DOMAIN s = 1 .. Len(s)
  OBVIOUS
<1>2. IsFiniteSet(1 .. Len(s))
  BY <1>1, FS_Interval
<1>3. /\ OfKind(s, kind) \in SUBSET (1 .. Len(s))
      /\ FreshIn(s, kind, since) \in SUBSET (1 .. Len(s))
  BY <1>1 DEF OfKind, FreshIn
<1> QED BY <1>2, <1>3, FS_Subset, FS_CardinalityType

LEMMA DecayFacts ==
  ASSUME now \in Nat, NEW r \in RecordType, r.last_recompute <= now
  PROVE  /\ Decayed(r) \in RecordType
         /\ Decayed(r).last_recompute = now
         /\ Decayed(r).repayments = r.repayments
         /\ Decayed(r).defaults = r.defaults
         /\ Decayed(r).weighted_repayments <= r.weighted_repayments
         /\ Decayed(r).weighted_defaults <= r.weighted_defaults
         /\ now < r.last_recompute + HalfLife =>
              /\ Decayed(r).weighted_repayments = r.weighted_repayments
              /\ Decayed(r).weighted_defaults = r.weighted_defaults
<1> DEFINE e == now - r.last_recompute
           n == e \div HalfLife
           a == IF r.last_recompute > 0 THEN Halved(r.weighted_repayments, n)
                ELSE r.weighted_repayments
           b == IF r.last_recompute > 0 THEN Halved(r.weighted_defaults, n)
                ELSE r.weighted_defaults
<1>1. /\ r.weighted_repayments \in Nat /\ r.weighted_defaults \in Nat
      /\ r.last_recompute \in Nat
  BY DEF RecordType
<1>2. e \in Nat /\ (now < r.last_recompute + HalfLife => e < HalfLife) /\ HalfLife \in Nat \ {0}
  BY <1>1, ReputationAssumption
<1> HIDE DEF e
<1>3. n \in Nat /\ (e < HalfLife => n = 0)
  BY <1>2
<1> HIDE DEF n
<1>4. /\ a \in Nat /\ a <= r.weighted_repayments /\ (n = 0 => a = r.weighted_repayments)
      /\ b \in Nat /\ b <= r.weighted_defaults /\ (n = 0 => b = r.weighted_defaults)
  BY <1>1, <1>3, HalvedFalls
<1>5. Decayed(r) = [r EXCEPT !.weighted_repayments = a, !.weighted_defaults = b,
                             !.last_recompute = now]
  BY DEF Decayed, RecordType, e, n
<1> HIDE DEF a, b
<1> QED BY <1>2, <1>3, <1>4, <1>5 DEF RecordType

(* The decay before every write.                                           *)
LEMMA WeighsDecayed ==
  ASSUME now \in Nat, NEW r, NEW s, Weighs(r, s, now)
  PROVE  Weighs(Decayed(r), s, now)
<1> DEFINE last == r.last_recompute
           fresh(k, t) == Cardinality(FreshIn(s, k, t))
           all == Cardinality(OfKind(s, Defaulted))
<1>1. /\ r \in RecordType /\ s \in Seq(OutcomeType) /\ last \in Nat /\ last <= now
      /\ \A n \in DOMAIN s : s[n] \in OutcomeType
      /\ HalfLife \in Nat
  BY ReputationAssumption DEF Weighs, RecordType
<1>2. \A n \in DOMAIN s : s[n][2] \in Nat /\ s[n][2] <= last
  BY <1>1 DEF Weighs, OutcomeType
<1>3. ASSUME NEW k
      PROVE  /\ fresh(k, now) <= fresh(k, last)
             /\ ~(now < last + HalfLife) => fresh(k, now) = 0
             /\ fresh(k, now) \in Nat /\ fresh(k, last) \in Nat
  <2>1. FreshIn(s, k, now) \subseteq FreshIn(s, k, last)
    BY <1>1, <1>2 DEF FreshIn
  <2>2. ~(now < last + HalfLife) => FreshIn(s, k, now) = {}
    BY <1>1, <1>2 DEF FreshIn
  <2>3. /\ IsFiniteSet(FreshIn(s, k, last))
        /\ fresh(k, now) \in Nat /\ fresh(k, last) \in Nat
    BY <1>1, OutcomeSets
  <2> QED BY <2>1, <2>2, <2>3, FS_Subset, FS_EmptySet
<1>4. all \in Nat
  BY <1>1, OutcomeSets
<1> DEFINE d == Decayed(r)
<1>5. /\ d \in RecordType /\ d.last_recompute = now
      /\ d.repayments = r.repayments /\ d.defaults = r.defaults
      /\ d.weighted_repayments <= r.weighted_repayments
      /\ d.weighted_defaults <= r.weighted_defaults
      /\ now < last + HalfLife =>
           /\ d.weighted_repayments = r.weighted_repayments
           /\ d.weighted_defaults = r.weighted_defaults
  BY <1>1, DecayFacts
<1>6. /\ d.weighted_repayments \in Nat /\ d.weighted_defaults \in Nat
      /\ r.weighted_repayments \in Nat /\ r.weighted_defaults \in Nat
      /\ r.repayments \in Nat /\ r.defaults \in Nat
  BY <1>1, <1>5 DEF RecordType
<1>7. /\ fresh(Repaid, last) <= r.weighted_repayments
      /\ r.weighted_repayments <= r.repayments
      /\ r.defaults <= all
      /\ 2 * (fresh(Defaulted, last) - (all - r.defaults)) <= r.weighted_defaults
      /\ r.weighted_defaults <= 2 * r.defaults
      /\ s # << >> => last > 0
  BY DEF Weighs
<1> HIDE DEF d, fresh, all
<1>8. /\ fresh(Repaid, now) <= d.weighted_repayments
      /\ d.weighted_repayments <= d.repayments
      /\ d.defaults <= all
      /\ 2 * (fresh(Defaulted, now) - (all - d.defaults)) <= d.weighted_defaults
      /\ d.weighted_defaults <= 2 * d.defaults
  <2> DEFINE fr == fresh(Repaid, last)
             fd == fresh(Defaulted, last)
             gr == fresh(Repaid, now)
             gd == fresh(Defaulted, now)
  <2>1. /\ gr <= fr /\ gr \in Nat /\ fr \in Nat
        /\ gd <= fd /\ gd \in Nat /\ fd \in Nat
        /\ ~(now < last + HalfLife) => gr = 0 /\ gd = 0
    BY <1>3
  <2>2. /\ fr <= r.weighted_repayments
        /\ 2 * (fd - (all - r.defaults)) <= r.weighted_defaults
    BY <1>7
  <2> HIDE DEF fr, fd, gr, gd
  <2>3. ASSUME now < last + HalfLife
        PROVE  /\ gr <= d.weighted_repayments
               /\ 2 * (gd - (all - d.defaults)) <= d.weighted_defaults
    BY SMTT(20), <1>4, <1>5, <1>6, <1>7, <2>1, <2>2, <2>3
  <2>4. ASSUME ~(now < last + HalfLife)
        PROVE  /\ gr <= d.weighted_repayments
               /\ 2 * (gd - (all - d.defaults)) <= d.weighted_defaults
    BY <1>4, <1>5, <1>6, <1>7, <2>1, <2>4
  <2>5. /\ gr <= d.weighted_repayments
        /\ 2 * (gd - (all - d.defaults)) <= d.weighted_defaults
    BY <2>3, <2>4
  <2>6. /\ d.weighted_repayments <= d.repayments
        /\ d.defaults <= all
        /\ d.weighted_defaults <= 2 * d.defaults
    <3>1. d.weighted_repayments <= d.repayments
      BY <1>5, <1>6, <1>7
    <3>2. d.defaults <= all
      BY <1>5, <1>7
    <3>3. d.weighted_defaults <= 2 * r.defaults
      <4>1. 2 * r.defaults \in Nat
        BY <1>6
      <4> QED BY <1>5, <1>6, <1>7, <4>1
    <3> QED BY <1>5, <3>1, <3>2, <3>3
  <2> QED BY <2>5, <2>6 DEF gr, gd
<1>9. \A n \in DOMAIN s : s[n][2] <= now
  BY <1>1, <1>2
<1>10. (s # << >> => d.last_recompute > 0) /\ d.last_recompute <= now
  BY <1>1, <1>5, <1>7
<1> QED BY <1>1, <1>5, <1>8, <1>9, <1>10 DEF Weighs, d, fresh, all

(* A default taken back.                                                   *)
LEMMA WeighsTakenBack ==
  ASSUME now \in Nat, NEW r, NEW s, Weighs(r, s, now), r.defaults > 0
  PROVE  Weighs([r EXCEPT !.defaults = @ - 1, !.weighted_defaults = Max({@ - 2, 0})], s, now)
<1> DEFINE w == Max({r.weighted_defaults - 2, 0})
           q == [r EXCEPT !.defaults = @ - 1, !.weighted_defaults = w]
<1>1. /\ r \in RecordType /\ r.weighted_defaults \in Nat /\ r.defaults \in Nat
      /\ r.last_recompute \in Nat /\ s \in Seq(OutcomeType)
  BY DEF Weighs, RecordType
<1>2. w \in Nat /\ w >= r.weighted_defaults - 2 /\ w <= r.weighted_defaults
        /\ (w = r.weighted_defaults - 2 \/ w = 0)
  <2> DEFINE x == r.weighted_defaults - 2
  <2>1. x \in Int
    BY <1>1
  <2> HIDE DEF x
  <2>2. \E y \in {x, 0} : \A z \in {x, 0} : y >= z
    BY <2>1
  <2>3. Max({x, 0}) \in {x, 0} /\ \A z \in {x, 0} : Max({x, 0}) >= z
    BY <2>2, Zenon DEF Max
  <2>4. w = Max({x, 0})
    BY DEF x
  <2> HIDE DEF w
  <2> QED BY <1>1, <2>1, <2>3, <2>4 DEF x
<1> HIDE DEF w
<1>3. /\ q \in RecordType /\ q.defaults = r.defaults - 1 /\ q.weighted_defaults = w
      /\ q.repayments = r.repayments /\ q.weighted_repayments = r.weighted_repayments
      /\ q.last_recompute = r.last_recompute
  <2>1. r.defaults - 1 \in Nat
    BY <1>1
  <2> QED BY <1>1, <1>2, <2>1 DEF RecordType
<1> HIDE DEF q
<1>4. /\ Cardinality(OfKind(s, Defaulted)) \in Nat
      /\ Cardinality(FreshIn(s, Defaulted, r.last_recompute)) \in Nat
  BY <1>1, OutcomeSets
<1> DEFINE all == Cardinality(OfKind(s, Defaulted))
           fd == Cardinality(FreshIn(s, Defaulted, r.last_recompute))
<1>5. /\ r.defaults <= all
      /\ 2 * (fd - (all - r.defaults)) <= r.weighted_defaults
      /\ r.weighted_defaults <= 2 * r.defaults
      /\ all \in Nat /\ fd \in Nat
  BY <1>4 DEF Weighs
<1>6. /\ r.defaults - 1 <= all
      /\ 2 * (fd - (all - (r.defaults - 1))) <= w
      /\ w <= 2 * (r.defaults - 1)
  <2> HIDE DEF all, fd
  <2>1. 2 * (fd - (all - (r.defaults - 1))) <= r.weighted_defaults - 2
    BY <1>1, <1>5
  <2>2. r.defaults >= 1
    BY <1>1
  <2>3. r.weighted_defaults - 2 <= 2 * (r.defaults - 1) /\ 0 <= 2 * (r.defaults - 1)
    BY <1>1, <1>5, <2>2
  <2>4. 2 * (fd - (all - (r.defaults - 1))) \in Int
    BY <1>1, <1>5
  <2>5. 2 * (fd - (all - (r.defaults - 1))) <= w
    <3>1. r.weighted_defaults - 2 \in Int /\ r.weighted_defaults - 2 <= w
      BY <1>1, <1>2
    <3> QED BY <1>2, <2>1, <2>4, <3>1
  <2>6. w <= 2 * (r.defaults - 1)
    BY <1>1, <1>2, <2>3
  <2>7. r.defaults - 1 <= all
    BY <1>1, <1>5
  <2> QED BY <2>5, <2>6, <2>7
<1>7. Weighs(q, s, now)
  BY <1>3, <1>6 DEF Weighs
<1> QED BY <1>7 DEF q, w

(* One more outcome raises the count of its own kind by one at most.       *)
LEMMA OutcomeCounts ==
  ASSUME NEW s \in Seq(OutcomeType), NEW e \in OutcomeType, NEW kind, NEW since \in Nat
  PROVE  /\ Cardinality(OfKind(Append(s, e), kind))
              = Cardinality(OfKind(s, kind)) + (IF e[1] = kind THEN 1 ELSE 0)
         /\ Cardinality(FreshIn(Append(s, e), kind, since))
              <= Cardinality(FreshIn(s, kind, since)) + (IF e[1] = kind THEN 1 ELSE 0)
<1> DEFINE n == Len(s)
           q == Append(s, e)
<1>1. /\ n \in Nat /\ DOMAIN s = 1 .. n /\ DOMAIN q = 1 .. (n + 1)
      /\ \A k \in 1 .. n : q[k] = s[k]
      /\ q[n + 1] = e
  <2>1. n \in Nat /\ DOMAIN s = 1 .. n
    OBVIOUS
  <2>2. q \in Seq(OutcomeType) /\ Len(q) = n + 1
    BY AppendProperties
  <2>3. (\A k \in 1 .. n : q[k] = s[k]) /\ q[n + 1] = e
    BY AppendProperties
  <2> QED BY <2>1, <2>2, <2>3
<1> HIDE DEF n, q
<1>2. OfKind(q, kind) = IF e[1] = kind THEN OfKind(s, kind) \cup {n + 1} ELSE OfKind(s, kind)
  BY <1>1 DEF OfKind
<1>3. FreshIn(q, kind, since) =
        IF e[1] = kind /\ since < e[2] + HalfLife THEN FreshIn(s, kind, since) \cup {n + 1}
        ELSE FreshIn(s, kind, since)
  BY <1>1 DEF FreshIn
<1>4. ASSUME NEW S, S \in SUBSET (1 .. n), IsFiniteSet(S)
      PROVE  Cardinality(S \cup {n + 1}) = Cardinality(S) + 1
  <2>1. n + 1 \notin S
    BY <1>1, <1>4
  <2> QED BY <1>4, <2>1, FS_AddElement
<1>5. /\ OfKind(s, kind) \in SUBSET (1 .. n) /\ IsFiniteSet(OfKind(s, kind))
      /\ FreshIn(s, kind, since) \in SUBSET (1 .. n) /\ IsFiniteSet(FreshIn(s, kind, since))
      /\ Cardinality(OfKind(s, kind)) \in Nat
      /\ Cardinality(FreshIn(s, kind, since)) \in Nat
  BY OutcomeSets DEF n
<1>6. /\ Cardinality(OfKind(s, kind) \cup {n + 1}) = Cardinality(OfKind(s, kind)) + 1
      /\ Cardinality(FreshIn(s, kind, since) \cup {n + 1})
           = Cardinality(FreshIn(s, kind, since)) + 1
  BY <1>4, <1>5
<1>7. Cardinality(OfKind(q, kind))
        = Cardinality(OfKind(s, kind)) + (IF e[1] = kind THEN 1 ELSE 0)
  BY <1>2, <1>5, <1>6
<1>8. Cardinality(FreshIn(q, kind, since))
        <= Cardinality(FreshIn(s, kind, since)) + (IF e[1] = kind THEN 1 ELSE 0)
  BY <1>3, <1>5, <1>6
<1> QED BY <1>7, <1>8 DEF q

(* What record_outcome adds to a record whose decay has been applied.      *)
Counted(r, kind) ==
  IF kind = Repaid
  THEN [r EXCEPT !.repayments = @ + 1, !.weighted_repayments = @ + 1]
  ELSE [r EXCEPT !.defaults = @ + 1, !.weighted_defaults = @ + 2]

LEMMA CountedFacts ==
  ASSUME NEW r \in RecordType, NEW kind \in {Repaid, Defaulted}
  PROVE  LET c == Counted(r, kind)
         IN /\ c \in RecordType /\ c.last_recompute = r.last_recompute
            /\ c.repayments = r.repayments + (IF kind = Repaid THEN 1 ELSE 0)
            /\ c.weighted_repayments
                 = r.weighted_repayments + (IF kind = Repaid THEN 1 ELSE 0)
            /\ c.defaults = r.defaults + (IF kind = Defaulted THEN 1 ELSE 0)
            /\ c.weighted_defaults
                 = r.weighted_defaults + (IF kind = Defaulted THEN 2 ELSE 0)
<1> DEFINE c == Counted(r, kind)
           x == IF kind = Repaid THEN r.repayments + 1 ELSE r.defaults + 1
           y == IF kind = Repaid THEN r.weighted_repayments + 1 ELSE r.weighted_defaults + 2
<1>1. /\ r.repayments \in Nat /\ r.defaults \in Nat
      /\ r.weighted_repayments \in Nat /\ r.weighted_defaults \in Nat
  BY DEF RecordType
<1>2. x \in Nat /\ y \in Nat /\ Repaid # Defaulted
  BY <1>1 DEF Repaid, Defaulted
<1>3. c = IF kind = Repaid
          THEN [r EXCEPT !.repayments = x, !.weighted_repayments = y]
          ELSE [r EXCEPT !.defaults = x, !.weighted_defaults = y]
  BY DEF Counted
<1>4. kind = Repaid => x = r.repayments + 1 /\ y = r.weighted_repayments + 1
  OBVIOUS
<1>5. kind # Repaid => x = r.defaults + 1 /\ y = r.weighted_defaults + 2
  OBVIOUS
<1> HIDE DEF c, x, y
<1>6. CASE kind = Repaid
  <2>1. /\ c \in RecordType /\ c.last_recompute = r.last_recompute
        /\ c.repayments = x /\ c.weighted_repayments = y
        /\ c.defaults = r.defaults /\ c.weighted_defaults = r.weighted_defaults
    <3>1. c = [r EXCEPT !.repayments = x, !.weighted_repayments = y]
      BY <1>3, <1>6
    <3> QED BY <1>2, <3>1 DEF RecordType
  <2> QED BY <1>1, <1>2, <1>4, <1>6, <2>1 DEF c
<1>7. CASE kind = Defaulted
  <2>1. /\ c \in RecordType /\ c.last_recompute = r.last_recompute
        /\ c.repayments = r.repayments
        /\ c.weighted_repayments = r.weighted_repayments
        /\ c.defaults = x /\ c.weighted_defaults = y
    <3>1. c = [r EXCEPT !.defaults = x, !.weighted_defaults = y]
      BY <1>2, <1>3, <1>7
    <3> QED BY <1>2, <3>1 DEF RecordType
  <2> QED BY <1>1, <1>2, <1>5, <1>7, <2>1 DEF c
<1> QED BY <1>6, <1>7

LEMMA WeighsCounted ==
  ASSUME now \in Nat, now > 0, NEW r, NEW s, Weighs(r, s, now), r.last_recompute = now,
         NEW kind \in {Repaid, Defaulted}
  PROVE  Weighs(Counted(r, kind), Append(s, <<kind, now>>), now)
<1> DEFINE e == <<kind, now>>
           q == Append(s, e)
           c == Counted(r, kind)
           fr(l) == Cardinality(FreshIn(l, Repaid, now))
           fd(l) == Cardinality(FreshIn(l, Defaulted, now))
           all(l) == Cardinality(OfKind(l, Defaulted))
<1>1. /\ r \in RecordType /\ s \in Seq(OutcomeType) /\ e \in OutcomeType
      /\ e[1] = kind /\ e[2] = now
  BY DEF Weighs, OutcomeType
<1>2. Repaid # Defaulted
  BY DEF Repaid, Defaulted
<1>3. /\ r.repayments \in Nat /\ r.defaults \in Nat
      /\ r.weighted_repayments \in Nat /\ r.weighted_defaults \in Nat
  BY <1>1 DEF RecordType
<1>4. /\ c \in RecordType /\ c.last_recompute = now
      /\ c.repayments = r.repayments + (IF kind = Repaid THEN 1 ELSE 0)
      /\ c.weighted_repayments = r.weighted_repayments + (IF kind = Repaid THEN 1 ELSE 0)
      /\ c.defaults = r.defaults + (IF kind = Defaulted THEN 1 ELSE 0)
      /\ c.weighted_defaults = r.weighted_defaults + (IF kind = Defaulted THEN 2 ELSE 0)
  BY <1>1, CountedFacts
<1> HIDE DEF c, e
<1>5. /\ fr(q) <= fr(s) + (IF kind = Repaid THEN 1 ELSE 0)
      /\ fd(q) <= fd(s) + (IF kind = Defaulted THEN 1 ELSE 0)
      /\ all(q) = all(s) + (IF kind = Defaulted THEN 1 ELSE 0)
  BY <1>1, OutcomeCounts
<1>6. q \in Seq(OutcomeType) /\ \A n \in DOMAIN q : q[n][2] <= now
  <2>1. /\ q \in Seq(OutcomeType) /\ Len(q) = Len(s) + 1
        /\ (\A n \in 1 .. Len(s) : q[n] = s[n]) /\ q[Len(s) + 1] = e
    BY <1>1, AppendProperties
  <2>2. \A n \in 1 .. Len(s) : s[n][2] <= now
    BY <1>1 DEF Weighs
  <2>3. Len(s) \in Nat /\ DOMAIN q = 1 .. (Len(s) + 1)
    BY <1>1, <2>1
  <2> QED BY <1>1, <2>1, <2>2, <2>3
<1>7. /\ fr(q) \in Nat /\ fd(q) \in Nat /\ all(q) \in Nat
      /\ fr(s) \in Nat /\ fd(s) \in Nat /\ all(s) \in Nat
  BY <1>1, <1>6, OutcomeSets
<1>8. /\ fr(s) <= r.weighted_repayments
      /\ r.weighted_repayments <= r.repayments
      /\ r.defaults <= all(s)
      /\ 2 * (fd(s) - (all(s) - r.defaults)) <= r.weighted_defaults
      /\ r.weighted_defaults <= 2 * r.defaults
  BY DEF Weighs
<1> HIDE DEF fr, fd, all, q
<1>9. fr(q) <= c.weighted_repayments /\ c.weighted_repayments <= c.repayments
  BY <1>3, <1>4, <1>5, <1>7, <1>8
<1>10. c.defaults <= all(q)
  BY <1>3, <1>4, <1>5, <1>7, <1>8
<1>11. c.weighted_defaults <= 2 * c.defaults
  BY <1>2, <1>3, <1>4, <1>8
<1>12. 2 * (fd(q) - (all(q) - c.defaults)) <= c.weighted_defaults
  <2> DEFINE x == fd(s) - (all(s) - r.defaults)
             y == fd(q) - (all(q) - c.defaults)
             i == IF kind = Defaulted THEN 1 ELSE 0
  <2>1. x \in Int /\ y \in Int /\ i \in {0, 1}
    BY <1>3, <1>4, <1>7
  <2>2. y <= x + i
    BY <1>3, <1>4, <1>5, <1>7
  <2>3. c.weighted_defaults = r.weighted_defaults + 2 * i /\ 2 * x <= r.weighted_defaults
    BY <1>2, <1>3, <1>4, <1>8
  <2> HIDE DEF x, y, i
  <2>4. 2 * y <= c.weighted_defaults
    BY <1>3, <2>1, <2>2, <2>3
  <2> QED BY <2>4 DEF y
<1>13. Weighs(c, q, now)
  BY <1>4, <1>6, <1>9, <1>10, <1>11, <1>12 DEF Weighs, fr, fd, all
<1> QED BY <1>13 DEF c, q, e

-----------------------------------------------------------------------------
(* The weights of all accounts *)

WeightInv ==
  /\ now \in Nat /\ now > 0
  /\ records \in [Originators -> RecordType]
  /\ outcomes \in [Originators -> Seq(OutcomeType)]
  /\ \A o \in Originators : Weighs(records[o], outcomes[o], now)

LEMMA WeightInit == Init => WeightInv
<1> SUFFICES ASSUME Init PROVE WeightInv
  OBVIOUS
<1>1. NoRecord \in RecordType /\ << >> \in Seq(OutcomeType)
  BY DEF NoRecord, RecordType
<1>2. \A k, since : OfKind(<< >>, k) = {} /\ FreshIn(<< >>, k, since) = {}
  BY DEF OfKind, FreshIn
<1>3. Weighs(NoRecord, << >>, 1)
  <2>1. \A k, since : /\ Cardinality(OfKind(<< >>, k)) = 0
                       /\ Cardinality(FreshIn(<< >>, k, since)) = 0
    BY <1>2, FS_EmptySet
  <2>2. /\ NoRecord.repayments = 0 /\ NoRecord.defaults = 0
        /\ NoRecord.weighted_repayments = 0 /\ NoRecord.weighted_defaults = 0
        /\ NoRecord.last_recompute = 0
    BY DEF NoRecord
  <2> QED BY <1>1, <2>1, <2>2 DEF Weighs
<1> QED BY <1>1, <1>3 DEF Init, WeightInv

LEMMA WeightStep == WeightInv /\ [Next]_vars => WeightInv'
<1> SUFFICES ASSUME WeightInv, [Next]_vars PROVE WeightInv'
  OBVIOUS
<1>1. /\ now \in Nat /\ now > 0
      /\ records \in [Originators -> RecordType]
      /\ outcomes \in [Originators -> Seq(OutcomeType)]
      /\ \A o \in Originators : Weighs(records[o], outcomes[o], now)
  BY DEF WeightInv
<1>2. CASE UNCHANGED <<now, records, outcomes>>
  BY <1>1, <1>2 DEF WeightInv
<1>3. CASE Tick
  <2>1. now' = now + 1 /\ records' = records /\ outcomes' = outcomes
    BY <1>3 DEF Tick
  <2>2. \A o \in Originators : Weighs(records[o], outcomes[o], now + 1)
    BY <1>1 DEF Weighs, RecordType
  <2> QED BY <1>1, <2>1, <2>2 DEF WeightInv
<1>4. ASSUME NEW o \in Originators, now' = now,
             NEW r \in RecordType, NEW s \in Seq(OutcomeType), Weighs(r, s, now),
             records' = [records EXCEPT ![o] = r],
             outcomes' = [outcomes EXCEPT ![o] = s]
      PROVE  WeightInv'
  <2>1. /\ records' \in [Originators -> RecordType]
        /\ outcomes' \in [Originators -> Seq(OutcomeType)]
    BY <1>1, <1>4
  <2>2. \A q \in Originators : Weighs(records'[q], outcomes'[q], now)
    BY <1>1, <1>4
  <2> QED BY <1>1, <1>4, <2>1, <2>2 DEF WeightInv
<1>5. ASSUME NEW o \in Originators, NEW kind \in {Repaid, Defaulted}, RecordOutcome(o, kind)
      PROVE  WeightInv'
  <2> DEFINE d == Decayed(records[o])
             r == Counted(d, kind)
             s == Append(outcomes[o], <<kind, now>>)
  <2>1. d \in RecordType /\ d.last_recompute = now /\ Weighs(d, outcomes[o], now)
    <3>1. Weighs(records[o], outcomes[o], now) /\ records[o] \in RecordType
      BY <1>1
    <3>2. records[o].last_recompute <= now
      BY <3>1 DEF Weighs
    <3> QED BY <1>1, <3>1, <3>2, WeighsDecayed, DecayFacts
  <2>2. records' = [records EXCEPT ![o] = r] /\ outcomes' = [outcomes EXCEPT ![o] = s]
          /\ now' = now
    BY <1>1, <1>5 DEF RecordOutcome, Counted
  <2> HIDE DEF d
  <2>3. Weighs(r, s, now)
    BY <1>1, <2>1, WeighsCounted
  <2>4. r \in RecordType /\ s \in Seq(OutcomeType)
    BY <2>3 DEF Weighs
  <2> HIDE DEF r, s
  <2> QED BY <1>4, <2>2, <2>3, <2>4
<1>6. ASSUME NEW provided \in Lists, NEW o \in Originators, NEW favourable \in BOOLEAN,
             ResolveDispute(provided, o, favourable)
      PROVE  WeightInv'
  <2> DEFINE d == Decayed(records[o])
             t == [d EXCEPT !.defaults = @ - 1, !.weighted_defaults = Max({@ - 2, 0})]
             r == IF favourable /\ d.defaults > 0 THEN t ELSE d
  <2>1. Weighs(d, outcomes[o], now)
    <3>1. Weighs(records[o], outcomes[o], now) /\ records[o] \in RecordType
      BY <1>1
    <3>2. records[o].last_recompute <= now
      BY <3>1 DEF Weighs
    <3> QED BY <1>1, <3>1, <3>2, WeighsDecayed
  <2>2. records' = [records EXCEPT ![o] = r] /\ outcomes' = outcomes /\ now' = now
    BY <1>1, <1>6 DEF ResolveDispute
  <2>3. outcomes' = [outcomes EXCEPT ![o] = outcomes[o]] /\ outcomes[o] \in Seq(OutcomeType)
    BY <1>1, <2>2
  <2> HIDE DEF d
  <2>4. d.defaults > 0 => Weighs(t, outcomes[o], now)
    BY <1>1, <2>1, WeighsTakenBack
  <2> HIDE DEF t
  <2>5. Weighs(r, outcomes[o], now)
    BY <2>1, <2>4
  <2> HIDE DEF r
  <2>6. r \in RecordType
    BY <2>5 DEF Weighs
  <2> QED BY <1>4, <2>2, <2>3, <2>5, <2>6
<1> QED BY <1>2, <1>3, <1>5, <1>6
        DEF Next, vars, reputationVars, SetRecorder

(***************************************************************************)
(* Whatever writes, disputes and the clock do, and for any half-life, an   *)
(* outcome younger than a half-life weighs in full, apart from the         *)
(* defaults taken back, and none weighs more than it did when recorded     *)
(* (FreshCountInFull; apply_pending_decay).                                *)
(***************************************************************************)
THEOREM ReputationCountsFresh == Spec => []FreshCountInFull
<1>1. ASSUME WeightInv PROVE FreshCountInFull
  <2> SUFFICES ASSUME NEW o \in Originators
               PROVE  /\ Fresh(o, Repaid) <= records[o].weighted_repayments
                      /\ records[o].weighted_repayments <= records[o].repayments
                      /\ 2 * (Fresh(o, Defaulted) - TakenBack(o))
                           <= records[o].weighted_defaults
                      /\ records[o].weighted_defaults <= 2 * records[o].defaults
    BY DEF FreshCountInFull
  <2>1. /\ \A k : Fresh(o, k)
                    = Cardinality(FreshIn(outcomes[o], k, records[o].last_recompute))
        /\ TakenBack(o) = Cardinality(OfKind(outcomes[o], Defaulted)) - records[o].defaults
    BY DEF Fresh, TakenBack, FreshIn, OfKind
  <2> QED BY <1>1, <2>1 DEF WeightInv, Weighs
<1> QED BY <1>1, WeightInit, WeightStep, PTL DEF Spec
=============================================================================
