---------------------------- MODULE Administration ----------------------------
(***************************************************************************)
(* The administration every contract of the protocol carries: signers and  *)
(* a threshold, the pause switch, and the replacement of the executable.   *)
(* The ledger runs the new executable from the call after upgrade on; an   *)
(* executable is one of this repository, except that the post_upgrade hook *)
(* of some may fail.                                                       *)
(***************************************************************************)
EXTENDS Integers, Sequences, SequencesExt, FiniteSetsExt, Functions

CONSTANTS
  Accounts,        \* accounts that may sign
  Deployer,        \* the admin the constructor is given
  MaxAdminSigners, \* MAX_ADMIN_SIGNERS
  Executables,     \* hashes of the executables
  FirstExecutable, \* the one deployed
  Broken,          \* executables whose post_upgrade hook fails
  MaxVersion,      \* bound: semantic versions, in their order
  MaxProvided,     \* bound: length of a list of accounts submitted
  NoUpgrade        \* no pending upgrade, no retained executable

ASSUME AdministrationAssumption ==
  /\ Deployer \in Accounts
  /\ FirstExecutable \in Executables
  /\ MaxAdminSigners \in Nat \ {0}
  /\ MaxVersion \in Nat \ {0}
  /\ MaxProvided \in Nat
  /\ NoUpgrade \notin [wasm : Executables, version : Nat]

VARIABLES
  signers,     \* AdminConfig.signers
  threshold,   \* AdminConfig.threshold
  paused,      \* the "paused" flag
  version,     \* "__version"
  pending,     \* "__upgrade": executable and version, or NoUpgrade
  previous,    \* "__prevwsm" and "__prevver", or NoUpgrade
  code,        \* the executable the ledger runs
  signed,      \* history: the accounts that authorized the last call
  lineage,     \* history: the releases in use, each on top of the one before
  misnamed     \* history: the last upgrade was given a wrong current hash

configVars  == <<signers, threshold>>
upgradeVars == <<version, pending, previous, code, lineage, misnamed>>
adminVars   == <<configVars, paused, upgradeVars>>

Release(wasm, v) == [wasm |-> wasm, version |-> v]
Releases == [wasm : Executables, version : 1 .. MaxVersion]

AdminTypeOK ==
  /\ signers \in Seq(Accounts)
  /\ threshold \in Nat
  /\ paused \in BOOLEAN
  /\ version \in 1 .. MaxVersion
  /\ pending \in Releases \cup {NoUpgrade}
  /\ previous \in Releases \cup {NoUpgrade}
  /\ code \in Executables
  /\ signed \subseteq Accounts
  /\ lineage \in Seq(Releases)
  /\ misnamed \in BOOLEAN

(* init_admin_config and initialize_contract_version.                      *)
AdminInit ==
  /\ signers = <<Deployer>>
  /\ threshold = 1
  /\ paused = FALSE
  /\ version = 1
  /\ pending = NoUpgrade
  /\ previous = NoUpgrade
  /\ code = FirstExecutable
  /\ signed = {Deployer}
  /\ lineage = <<Release(FirstExecutable, 1)>>
  /\ misnamed = FALSE

-----------------------------------------------------------------------------
(* The quorum *)

(* Lists of accounts a transaction may carry, with repetitions.            *)
Lists == SeqOf(Accounts, MaxProvided)

(* Mutant: an account that is listed twice counts twice.                   *)
AssertThresholdCountingTwice(provided) ==
  /\ ToSet(provided) \subseteq ToSet(signers)
  /\ Len(provided) >= threshold
  /\ signed' = ToSet(provided)

(* assert_threshold: every account provided is a signer, none is listed    *)
(* twice, each authorizes the call.                                        *)
AssertThreshold(provided) ==
  /\ ToSet(provided) \subseteq ToSet(signers)
  /\ IsInjective(provided)
  /\ Len(provided) >= threshold
  /\ signed' = ToSet(provided)

(* validate_signers                                                        *)
ValidSigners(list, n) ==
  /\ list # << >>
  /\ Len(list) <= MaxAdminSigners
  /\ n \in 1 .. Len(list)
  /\ IsInjective(list)

SetSigners(provided, list, n) ==
  /\ ~paused
  /\ AssertThreshold(provided)
  /\ ValidSigners(list, n)
  /\ signers' = list
  /\ threshold' = n
  /\ UNCHANGED <<paused, upgradeVars>>

(* transfer_admin: one new signer, who need not authorize the call.        *)
TransferAdmin(provided, admin) ==
  /\ ~paused
  /\ AssertThreshold(provided)
  /\ signers' = <<admin>>
  /\ threshold' = 1
  /\ UNCHANGED <<paused, upgradeVars>>

(* pause and unpause: of the calls of the admins only these and the three  *)
(* below are open while paused.                                            *)
SetPaused(provided, flag) ==
  /\ AssertThreshold(provided)
  /\ paused' = flag
  /\ UNCHANGED <<configVars, upgradeVars>>

-----------------------------------------------------------------------------
(* The executable *)

(* upgrade, with begin_upgrade: the hash of the running executable is what *)
(* the signers say it is.                                                  *)
Upgrade(provided, current, wasm, v) ==
  /\ AssertThreshold(provided)
  /\ pending = NoUpgrade
  /\ v > version
  /\ previous' = Release(current, version)
  /\ pending' = Release(wasm, v)
  /\ code' = wasm
  /\ lineage' = Append(lineage, Release(wasm, v))
  /\ misnamed' = (current # code)
  /\ UNCHANGED <<configVars, paused, version>>

(* post_upgrade, with complete_upgrade: the hook is that of the new        *)
(* executable.                                                             *)
PostUpgrade(provided) ==
  /\ AssertThreshold(provided)
  /\ pending # NoUpgrade
  /\ code \notin Broken
  /\ version' = pending.version
  /\ pending' = NoUpgrade
  /\ UNCHANGED <<configVars, paused, previous, code, lineage, misnamed>>

(* Mutant: a pending upgrade can be rolled back, and is completed later.   *)
RollbackPending(provided) ==
  /\ AssertThreshold(provided)
  /\ previous # NoUpgrade
  /\ version' = previous.version
  /\ code' = previous.wasm
  /\ previous' = NoUpgrade
  /\ lineage' = Append(SubSeq(lineage, 1, Len(lineage) - 2), previous)
  /\ UNCHANGED <<configVars, paused, pending, misnamed>>

(* rollback, with rollback_target and commit_rollback: refused as long as  *)
(* an upgrade is pending, and possible once per upgrade.                   *)
Rollback(provided) ==
  /\ AssertThreshold(provided)
  /\ pending = NoUpgrade
  /\ previous # NoUpgrade
  /\ version' = previous.version
  /\ code' = previous.wasm
  /\ previous' = NoUpgrade
  /\ lineage' = Append(SubSeq(lineage, 1, Len(lineage) - 2), previous)
  /\ UNCHANGED <<configVars, paused, pending, misnamed>>

AdminNext ==
  \E provided \in Lists :
    \/ \E list \in Lists, n \in 0 .. MaxProvided + 1 : SetSigners(provided, list, n)
    \/ \E admin \in Accounts : TransferAdmin(provided, admin)
    \/ \E flag \in BOOLEAN : SetPaused(provided, flag)
    \/ \E current, wasm \in Executables, v \in 1 .. MaxVersion :
         Upgrade(provided, current, wasm, v)
    \/ PostUpgrade(provided)
    \/ Rollback(provided)

-----------------------------------------------------------------------------
(* Properties *)

(***************************************************************************)
(* Nothing of the administration changes unless as many different signers  *)
(* as the threshold then in force authorized that very call, and after it  *)
(* there are enough different signers to reach the threshold again: no key *)
(* counts twice and no configuration locks the admins out (ADR-0010).      *)
(***************************************************************************)
AdminByQuorum ==
  [][adminVars' # adminVars =>
       /\ Cardinality(signed' \cap ToSet(signers)) >= threshold
       /\ threshold' \in 1 .. Cardinality(ToSet(signers'))]_<<adminVars, signed>>

(***************************************************************************)
(* The metadata follows the executable through any mixture of upgrades,    *)
(* completions and rollbacks: the version and the pending one belong to    *)
(* the executable that runs, and what is retained is the release directly  *)
(* before it, an older version with the executable that really ran then,   *)
(* if the signers named it rightly.  So a rollback undoes one upgrade, the *)
(* last, and only once.                                                    *)
(***************************************************************************)
MetadataFollowsCode ==
  LET last == Len(lineage)
      running == IF pending = NoUpgrade THEN Release(code, version) ELSE pending
  IN /\ running = lineage[last] /\ code = running.wasm
     /\ pending # NoUpgrade => previous # NoUpgrade /\ previous.version = version
     /\ previous # NoUpgrade =>
          /\ previous.version < running.version
          /\ last > 1
          /\ previous.version = lineage[last - 1].version
          /\ misnamed \/ previous = lineage[last - 1]
=============================================================================
