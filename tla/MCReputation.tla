---------------------------- MODULE MCReputation -----------------------------
(* Instances of Reputation for TLC.                                        *)
EXTENDS Reputation, TLC

CONSTANTS alice, bob, carol

(* Constraint: outcomes read nothing of the administration but the quorum, *)
(* so either is followed while the other stays as deployed.                *)
AdminOrOutcomes ==
  \/ /\ configVars = <<<<Deployer>>, 1>>
     /\ lineage = <<Release(FirstExecutable, 1)>>
     /\ ~paused
  \/ recorder = NoRecorder /\ now = 1 /\ \A o \in Originators : records[o] = NoRecord
=============================================================================
