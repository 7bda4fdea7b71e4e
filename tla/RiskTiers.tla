------------------------------ MODULE RiskTiers ------------------------------
(***************************************************************************)
(* The risk tiers of the insurance contract, next to the flat pool: a pool *)
(* of its own per tier, with a fixed yield rate and a cap on the part of a *)
(* claim it covers, in storage of its own.  The tiers share the pause      *)
(* switch, the clock, the invoices and the tokens of the contract with the *)
(* flat pool, but not its way out: unstake_tier is refused while paused.   *)
(***************************************************************************)
EXTENDS InsurancePool

CONSTANTS
  Tiers,         \* InsuranceTier
  Apy,           \* tier_parameters: yearly yield of a tier
  PayoutCap,     \* tier_parameters: part of a claim the tier covers
  CapUnit        \* BPS_DENOMINATOR, the unit of PayoutCap

ASSUME TierAssumption ==
  /\ Apy \in [Tiers -> Nat]
  /\ CapUnit \in Nat \ {0}
  /\ PayoutCap \in [Tiers -> 0 .. CapUnit]

VARIABLES
  tstakes,        \* balance of a staker in a tier
  tstake_ts,      \* time its yield is banked up to
  tyield_acc,     \* its banked yield
  tbalance,       \* PoolRecord.balance
  toutstanding,   \* PoolRecord.reserved
  treserved,      \* ever reserved for an offer in a tier
  tpaid,          \* ever paid to an offer out of its reservation
  asked           \* history: the largest claim ever reserved for

tierStakeVars   == <<tstakes, tstake_ts, tyield_acc>>
tierReserveVars == <<toutstanding, treserved, tpaid, asked>>
tierVars        == <<tierStakeVars, tbalance, tierReserveVars>>

(* All of the contract but its tokens and the tiers.                       *)
flatVars == <<envVars, stakeVars, yield_rate, pool_total, reserveVars>>

PerTier(S, x) == [t \in Tiers |-> [k \in S |-> x]]

TierInit ==
  /\ PoolInit
  /\ tstakes = PerTier(Stakers, 0)
  /\ tstake_ts = PerTier(Stakers, 0)
  /\ tyield_acc = PerTier(Stakers, 0)
  /\ tbalance = [t \in Tiers |-> 0]
  /\ toutstanding = [t \in Tiers |-> 0]
  /\ treserved = PerTier(OfferIds, 0)
  /\ tpaid = PerTier(OfferIds, 0)
  /\ asked = PerTier(OfferIds, 0)

-----------------------------------------------------------------------------
(* Stakers *)

(* tier_yield since the last checkpoint, on top of what is banked: only a  *)
(* gain counts (bank_tier_yield).                                          *)
TierYield(t, k) ==
  LET earned == Quot(tstakes[t][k] * Apy[t] * (now - tstake_ts[t][k]), YieldUnit)
  IN tyield_acc[t][k] + (IF earned > 0 THEN earned ELSE 0)

(* stake_tier: a positive balance is banked first, any other starts its    *)
(* clock and keeps what was banked before.                                 *)
StakeTier(t, k, amount) ==
  LET existing == tstakes[t][k]
  IN /\ ~paused
     /\ amount > 0
     /\ existing + amount >= MinStakeAmount
     /\ existing + amount <= MaxStake
     /\ tyield_acc' = IF existing > 0 THEN [tyield_acc EXCEPT ![t][k] = TierYield(t, k)]
                      ELSE tyield_acc
     /\ tstake_ts' = [tstake_ts EXCEPT ![t][k] = now]
     /\ tstakes' = [tstakes EXCEPT ![t][k] = existing + amount]
     /\ tbalance' = [tbalance EXCEPT ![t] = @ + amount]
     /\ tokens' = tokens + amount
     /\ UNCHANGED <<flatVars, tierReserveVars>>

(* unstake_tier: not while paused, but whatever is reserved.               *)
UnstakeTier(t, k, amount) ==
  /\ ~paused
  /\ amount > 0
  /\ tstakes[t][k] >= amount
  /\ tokens >= amount + TierYield(t, k)
  /\ tstakes' = [tstakes EXCEPT ![t][k] = @ - amount]
  /\ tstake_ts' = [tstake_ts EXCEPT ![t][k] = IF tstakes[t][k] = amount THEN 0 ELSE now]
  /\ tyield_acc' = [tyield_acc EXCEPT ![t][k] = 0]
  /\ tbalance' = [tbalance EXCEPT ![t] = @ - amount]
  /\ tokens' = tokens - amount - TierYield(t, k)
  /\ UNCHANGED <<flatVars, tierReserveVars>>

-----------------------------------------------------------------------------
(* Payouts *)

(* The part of a claim a tier covers.                                      *)
Covered(t, amount) == (amount * PayoutCap[t]) \div CapUnit

(* Mutant: the keys of the stakes are not filtered by the tier.            *)
ReduceTierStakesUnfiltered(t, payout) ==
  [u \in Tiers |-> ProRata(tstakes[u], tbalance[t], payout)]

ReduceTierStakes(t, payout) ==
  [tstakes EXCEPT ![t] = ProRata(tstakes[t], tbalance[t], payout)]

(* The common end of the two payouts; without a key of the tier the        *)
(* reductions do not add up to the payout and the call is refused.         *)
PayFromTier(t, amount) ==
  /\ amount > 0
  /\ \E k \in Stakers : tstakes[t][k] # 0
  /\ tokens >= amount
  /\ tstakes' = ReduceTierStakes(t, amount)
  /\ tbalance' = [tbalance EXCEPT ![t] = @ - amount]
  /\ tokens' = tokens - amount
  /\ UNCHANGED <<flatVars, tstake_ts, tyield_acc>>

(* pay_out_tier: the reservations of the tier are not looked at.           *)
PayOutTier(t, i, amount) ==
  /\ ~paused
  /\ amount > 0
  /\ i \in defaulted
  /\ PayFromTier(t, AtMost(Covered(t, amount), tbalance[t]))
  /\ UNCHANGED tierReserveVars

(* Mutant: the cap is applied to each request, not to their sum.           *)
ReservePayoutTierAgain(t, f, amount) ==
  LET granted == AtMost(Covered(t, amount), tbalance[t] - toutstanding[t])
  IN /\ ~paused
     /\ amount > 0
     /\ granted > 0
     /\ treserved[t][f] + granted <= MaxReserved
     /\ treserved' = [treserved EXCEPT ![t][f] = @ + granted]
     /\ toutstanding' = [toutstanding EXCEPT ![t] = @ + granted]
     /\ asked' = [asked EXCEPT ![t][f] = Max({@, amount})]
     /\ UNCHANGED <<flatVars, tokens, tierStakeVars, tbalance, tpaid>>

(* reserve_payout_tier: what the cap leaves of the request beyond all that *)
(* was ever reserved for the offer, and what the tier has free.            *)
ReservePayoutTier(t, f, amount) ==
  LET granted == AtMost(Covered(t, amount) - treserved[t][f],
                        tbalance[t] - toutstanding[t])
  IN /\ ~paused
     /\ amount > 0
     /\ granted > 0
     /\ treserved[t][f] + granted <= MaxReserved
     /\ treserved' = [treserved EXCEPT ![t][f] = @ + granted]
     /\ toutstanding' = [toutstanding EXCEPT ![t] = @ + granted]
     /\ asked' = [asked EXCEPT ![t][f] = Max({@, amount})]
     /\ UNCHANGED <<flatVars, tokens, tierStakeVars, tbalance, tpaid>>

(* claim_payout_tier: bounded by the reservation of f and by the balance;  *)
(* unlike claim_payout it does not keep back what others have reserved.    *)
ClaimPayoutTier(t, f, amount) ==
  LET paying == AtMost(AtMost(amount, treserved[t][f] - tpaid[t][f]), tbalance[t])
  IN /\ ~paused
     /\ amount > 0
     /\ treserved[t][f] > tpaid[t][f]
     /\ PayFromTier(t, paying)
     /\ tpaid' = [tpaid EXCEPT ![t][f] = @ + paying]
     /\ toutstanding' = [toutstanding EXCEPT ![t] = @ - paying]
     /\ UNCHANGED <<treserved, asked>>

-----------------------------------------------------------------------------
TierNext ==
  \/ \E t \in Tiers, k \in Stakers, amount \in Deposits : StakeTier(t, k, amount)
  \/ \E t \in Tiers, k \in Stakers, amount \in Withdrawals : UnstakeTier(t, k, amount)
  \/ \E t \in Tiers, i \in InvoiceIds, amount \in Claims : PayOutTier(t, i, amount)
  \/ \E t \in Tiers, f \in OfferIds, amount \in Claims : ReservePayoutTier(t, f, amount)
  \/ \E t \in Tiers, f \in OfferIds, amount \in Claims : ClaimPayoutTier(t, f, amount)
  \/ PoolNext /\ UNCHANGED tierVars

TierSpec == TierInit /\ [][TierNext]_<<poolVars, tierVars>>

-----------------------------------------------------------------------------
(* Properties *)

(***************************************************************************)
(* The books of every tier agree after any mixture of deposits, payouts,   *)
(* reservations and claims: its balance is the sum of its stakes ("a tier  *)
(* pool can only hold funds represented by tier stakes"), what is          *)
(* outstanding is what was reserved and not paid, and all that was paid to *)
(* an offer stays within the part of the largest claim that the tier       *)
(* covers ("several partial claims cannot cumulatively exceed" it).        *)
(***************************************************************************)
TierBooksAgree ==
  \A t \in Tiers :
    /\ tbalance[t] = SumOver(tstakes[t], Stakers)
    /\ toutstanding[t] =
         SumOver([f \in OfferIds |-> treserved[t][f] - tpaid[t][f]], OfferIds)
    /\ \A f \in OfferIds :
         tpaid[t][f] <= treserved[t][f] /\ treserved[t][f] <= Covered(t, asked[t][f])

(***************************************************************************)
(* The tokens a payout sends away are taken from the stakes of one tier,   *)
(* from each in proportion to within one unit per staker (unless one was   *)
(* negative): no other tier and no flat stake funds or absorbs the loss.   *)
(***************************************************************************)
TierLossIsItsOwn ==
  [][\A t \in Tiers :
       tbalance'[t] < tbalance[t]
         /\ (\E amount \in Claims : \/ \E i \in InvoiceIds : PayOutTier(t, i, amount)
                                   \/ \E f \in OfferIds : ClaimPayoutTier(t, f, amount)) =>
       LET payout == tokens - tokens'
       IN /\ UNCHANGED <<stakes, pool_total>>
          /\ \A u \in Tiers \ {t} : tstakes'[u] = tstakes[u]
          /\ (\A k \in Stakers : tstakes[t][k] >= 0) =>
             \A k \in Stakers :
               LET off == (tstakes[t][k] - tstakes'[t][k]) * tbalance[t]
                            - tstakes[t][k] * payout
               IN -NStakers * tbalance[t] < off /\ off < NStakers * tbalance[t]
     ]_<<poolVars, tierVars>>
=============================================================================
