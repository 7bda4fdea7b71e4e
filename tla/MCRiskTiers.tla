----------------------------- MODULE MCRiskTiers -----------------------------
(* Instances of RiskTiers for TLC.                                         *)
EXTENDS RiskTiers, TLC

CONSTANTS off1, off2

(* A tier that covers a third of a claim and one that covers all of it.    *)
Yields == [t \in {"Conservative", "Aggressive"} |-> IF t = "Conservative" THEN 1 ELSE 2]
Caps   == [t \in {"Conservative", "Aggressive"} |-> IF t = "Conservative" THEN 1 ELSE 3]

FlatPoolUnused ==
  /\ stakeVars = [n \in 1 .. 3 |-> [k \in Stakers |-> 0]]
  /\ pool_total = 0
  /\ yield_rate = 0
  /\ \A f \in OfferIds : reserved[f] = 0

TiersUnused ==
  /\ tierStakeVars = [n \in 1 .. 3 |-> PerTier(Stakers, 0)]
  /\ treserved = PerTier(OfferIds, 0)

(* Constraint: the flat pool and the tiers read nothing of each other but  *)
(* the tokens, so one of them is followed at a time.  Of the flat pool two *)
(* reservations are followed before yield accrues, and one while it does.  *)
(* The tiers are followed while they are not paused (nothing in them       *)
(* moves), have three stakes and two reservations between them, and either *)
(* yield or reservations: neither has a part in the other.                 *)
FlatOrTiers ==
  \/ /\ TiersUnused
     /\ Cardinality({f \in OfferIds : reserved[f] # 0}) <= (IF now = 0 THEN 2 ELSE 1)
  \/ /\ FlatPoolUnused
     /\ ~paused
     /\ Cardinality({key \in Tiers \X Stakers : tstakes[key[1]][key[2]] # 0}) <= 3
     /\ Cardinality({k \in Stakers : tstakes["Aggressive"][k] # 0}) <= 1
     /\ Cardinality({key \in Tiers \X OfferIds : treserved[key[1]][key[2]] # 0})
          <= (IF now = 0 THEN 2 ELSE 0)

OfferSymmetry == Permutations(OfferIds)
=============================================================================
