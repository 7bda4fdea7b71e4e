---------------------------- MODULE InsurancePool ----------------------------
(***************************************************************************)
(* The flat insurance pool: stakes with simple yield, payouts on default   *)
(* that cut every stake pro rata, and payouts reserved for an offer and    *)
(* claimed in parts.  The registry and the payout caller are configured;   *)
(* the status of an invoice is read from the registry, so here it only     *)
(* becomes Defaulted.  The risk tiers of the same contract are in RiskTiers.*)
(*                                                                         *)
(* Stakers are numbers in the order in which the host sorts the keys of    *)
(* the stakes map; an account without a key has the balance 0, which no    *)
(* key ever has.  A call that returns without a write is a stuttering step.*)
(***************************************************************************)
EXTENDS Sums, Sequences

CONSTANTS
  NStakers,        \* number of accounts that may stake
  OfferIds,        \* offers a payout may be reserved for
  InvoiceIds,      \* invoices that may default
  MinStakeAmount,  \* MIN_STAKE_AMOUNT
  YieldUnit,       \* SECONDS_PER_YEAR * 10_000
  Deposits,        \* bound: amounts a staker may submit
  Withdrawals,     \* bound: amounts a staker may withdraw
  Claims,          \* bound: amounts the payout caller may ask for
  YieldRates,      \* bound: rates the admins may submit
  MaxStake,        \* bound: a stake is not raised beyond
  MaxReserved,     \* bound: ever reserved for one offer
  MaxFunds,        \* bound: tokens the contract is funded with
  MaxTime          \* bound: last ledger time

ASSUME PoolAssumption ==
  /\ NStakers \in Nat \ {0}
  /\ IsFiniteSet(OfferIds)
  /\ MinStakeAmount \in Nat \ {0}
  /\ YieldUnit \in Nat \ {0}
  /\ Deposits \cup Withdrawals \cup Claims \subseteq Int
  /\ YieldRates \subseteq Nat
  /\ MaxStake \in Nat /\ MaxReserved \in Nat /\ MaxFunds \in Nat /\ MaxTime \in Nat

Stakers == 1 .. NStakers

VARIABLES
  now,          \* env.ledger().timestamp()
  paused,       \* the "paused" flag
  defaulted,    \* invoices whose status in the registry is Defaulted
  stakes,       \* balance of a staker
  stake_ts,     \* time the yield of a staker is banked up to
  yield_acc,    \* banked yield
  yield_rate,   \* annual rate
  pool_total,   \* accounting total of the stakes
  outstanding,  \* reserved and not yet paid, over all offers
  reserved,     \* ever reserved for an offer
  paid,         \* ever paid to an offer out of its reservation
  tokens        \* what the token contract holds for the pool

stakeVars   == <<stakes, stake_ts, yield_acc>>
reserveVars == <<outstanding, reserved, paid>>
envVars     == <<now, paused, defaulted>>
poolVars    == <<now, paused, defaulted, stakes, stake_ts, yield_acc, yield_rate,
                 pool_total, outstanding, reserved, paid, tokens>>

PoolTypeOK ==
  /\ now \in 0 .. MaxTime
  /\ paused \in BOOLEAN
  /\ defaulted \subseteq InvoiceIds
  /\ stakes \in [Stakers -> Int]
  /\ stake_ts \in [Stakers -> 0 .. now]
  /\ yield_acc \in [Stakers -> Nat]
  /\ yield_rate \in YieldRates \cup {0}
  /\ pool_total \in Int
  /\ outstanding \in Nat
  /\ reserved \in [OfferIds -> Nat]
  /\ paid \in [OfferIds -> Nat]
  /\ tokens \in Nat

PoolInit ==
  /\ now = 0
  /\ paused = FALSE
  /\ defaulted = {}
  /\ stakes = [k \in Stakers |-> 0]
  /\ stake_ts = [k \in Stakers |-> 0]
  /\ yield_acc = [k \in Stakers |-> 0]
  /\ yield_rate = 0
  /\ pool_total = 0
  /\ outstanding = 0
  /\ reserved = [f \in OfferIds |-> 0]
  /\ paid = [f \in OfferIds |-> 0]
  /\ tokens = 0

-----------------------------------------------------------------------------
(* Yield *)

AtMost(a, b) == IF a <= b THEN a ELSE b

(* Division of i128: towards zero.                                         *)
Quot(a, b) == IF a >= 0 THEN a \div b ELSE -((-a) \div b)

(* compute_yield over the time since the staker's last checkpoint          *)
ComputeYield(k) == Quot(stakes[k] * (now - stake_ts[k]) * yield_rate, YieldUnit)

(* accrued_yield                                                           *)
AccruedYield(k) == yield_acc[k] + ComputeYield(k)

(* bank_accrued_yield for the stakers in S: only a gain is banked, the     *)
(* clock restarts, and an account without a stake keeps both entries.      *)
BankAccruedYield(S) ==
  /\ yield_acc' = [k \in Stakers |->
       IF k \in S /\ ComputeYield(k) > 0 THEN AccruedYield(k) ELSE yield_acc[k]]
  /\ stake_ts' = [k \in Stakers |-> IF k \in S /\ stakes[k] # 0 THEN now ELSE stake_ts[k]]

(* Mutant: the rate is stored first, so the past is banked at the new one. *)
SetYieldRateRetroactive(rate) ==
  /\ ~paused
  /\ yield_rate' = rate
  /\ UNCHANGED <<envVars, stakeVars, pool_total, reserveVars, tokens>>

SetYieldRate(rate) ==
  /\ ~paused
  /\ BankAccruedYield(Stakers)
  /\ yield_rate' = rate
  /\ UNCHANGED <<envVars, stakes, pool_total, reserveVars, tokens>>

-----------------------------------------------------------------------------
(* Stakers *)

(* stake: a positive balance is banked first, any other starts its clock.  *)
Stake(k, amount) ==
  /\ ~paused
  /\ amount > 0
  /\ stakes[k] + amount >= MinStakeAmount
  /\ stakes[k] + amount <= MaxStake
  /\ IF stakes[k] > 0
     THEN BankAccruedYield({k})
     ELSE stake_ts' = [stake_ts EXCEPT ![k] = now] /\ UNCHANGED yield_acc
  /\ stakes' = [stakes EXCEPT ![k] = @ + amount]
  /\ pool_total' = pool_total + amount
  /\ tokens' = tokens + amount
  /\ UNCHANGED <<envVars, yield_rate, reserveVars>>

(* unstake: also while paused, whatever is reserved.  All the yield goes   *)
(* with the first withdrawal; the entries go with the last.                *)
Unstake(k, amount) ==
  /\ amount > 0
  /\ stakes[k] >= amount
  /\ tokens >= amount + AccruedYield(k)
  /\ stakes' = [stakes EXCEPT ![k] = @ - amount]
  /\ stake_ts' = [stake_ts EXCEPT ![k] = IF stakes[k] = amount THEN 0 ELSE now]
  /\ yield_acc' = [yield_acc EXCEPT ![k] = 0]
  /\ pool_total' = pool_total - amount
  /\ tokens' = tokens - amount - AccruedYield(k)
  /\ UNCHANGED <<envVars, yield_rate, reserveVars>>

-----------------------------------------------------------------------------
(* Payouts *)

(* Mutant: every staker but the last is spared.                            *)
ReduceStakesOfLast(payout) ==
  LET held == {k \in Stakers : stakes[k] # 0}
  IN IF held = {} THEN stakes ELSE [stakes EXCEPT ![Max(held)] = @ - payout]

(* Mutant: nobody absorbs the remainder of the divisions.                  *)
ReduceStakesTruncated(payout) ==
  [k \in Stakers |-> stakes[k] - Quot(stakes[k] * payout, pool_total)]

(* The loop of every payout over the keys in their order: a proportional   *)
(* share each, the last key takes whatever is then missing.                *)
ProRata(balances, total, payout) ==
  LET held == {k \in Stakers : balances[k] # 0}
      taken[k \in 0 .. NStakers] ==
        IF k = 0 THEN 0
        ELSE taken[k - 1] +
               (IF k = Max(held) THEN payout - taken[k - 1]
                ELSE AtMost(Quot(balances[k] * payout, total), payout - taken[k - 1]))
  IN IF held = {} THEN balances
     ELSE [k \in Stakers |-> balances[k] - (taken[k] - taken[k - 1])]

ReduceStakes(payout) == ProRata(stakes, pool_total, payout)

PayFromPool(amount) ==
  /\ amount > 0
  /\ tokens >= amount
  /\ stakes' = ReduceStakes(amount)
  /\ pool_total' = pool_total - amount
  /\ tokens' = tokens - amount
  /\ UNCHANGED <<envVars, stake_ts, yield_acc, yield_rate>>

(* pay_out for the invoice i: only the pool total bounds it.               *)
PayOut(i, amount) ==
  /\ ~paused
  /\ amount > 0
  /\ i \in defaulted
  /\ PayFromPool(AtMost(amount, pool_total))
  /\ UNCHANGED reserveVars

(* Mutant: what other offers have reserved is offered again.               *)
ReservePayoutTwice(f, amount) ==
  LET granted == AtMost(amount, pool_total)
  IN /\ ~paused
     /\ granted > 0
     /\ reserved[f] + granted <= MaxReserved
     /\ reserved' = [reserved EXCEPT ![f] = @ + granted]
     /\ outstanding' = outstanding + granted
     /\ UNCHANGED <<envVars, stakeVars, yield_rate, pool_total, paid, tokens>>

ReservePayout(f, amount) ==
  LET granted == AtMost(amount, pool_total - outstanding)
  IN /\ ~paused
     /\ amount > 0
     /\ granted > 0
     /\ reserved[f] + granted <= MaxReserved
     /\ reserved' = [reserved EXCEPT ![f] = @ + granted]
     /\ outstanding' = outstanding + granted
     /\ UNCHANGED <<envVars, stakeVars, yield_rate, pool_total, paid, tokens>>

(* Mutant: the claim is taken off the books, not what was paid.            *)
ClaimPayoutInFull(f, amount) ==
  LET remaining == reserved[f] - paid[f]
      claim == AtMost(amount, remaining)
      payable == AtMost(claim, pool_total - (outstanding - remaining))
  IN /\ ~paused
     /\ amount > 0
     /\ remaining > 0
     /\ PayFromPool(payable)
     /\ paid' = [paid EXCEPT ![f] = @ + payable]
     /\ outstanding' = outstanding - claim
     /\ UNCHANGED reserved

(* claim_payout: at most what is left of the reservation of f, and at most *)
(* what the pool has beyond the reservations of the others.                *)
ClaimPayout(f, amount) ==
  LET remaining == reserved[f] - paid[f]
      payable == AtMost(AtMost(amount, remaining),
                        pool_total - (outstanding - remaining))
  IN /\ ~paused
     /\ amount > 0
     /\ remaining > 0
     /\ PayFromPool(payable)
     /\ paid' = [paid EXCEPT ![f] = @ + payable]
     /\ outstanding' = outstanding - payable
     /\ UNCHANGED reserved

-----------------------------------------------------------------------------
(* pause and unpause                                                       *)
SetPaused(flag) ==
  /\ paused' = flag
  /\ UNCHANGED <<now, defaulted, stakeVars, yield_rate, pool_total, reserveVars, tokens>>

(* The registry marks an invoice Defaulted.                                *)
InvoiceDefaults(i) ==
  /\ defaulted' = defaulted \cup {i}
  /\ UNCHANGED <<now, paused, stakeVars, yield_rate, pool_total, reserveVars, tokens>>

(* The protocol sends tokens to the contract to cover yield.               *)
Fund ==
  /\ tokens - pool_total < MaxFunds
  /\ tokens' = tokens + 1
  /\ UNCHANGED <<envVars, stakeVars, yield_rate, pool_total, reserveVars>>

Tick ==
  /\ now < MaxTime
  /\ now' = now + 1
  /\ UNCHANGED <<paused, defaulted, stakeVars, yield_rate, pool_total, reserveVars, tokens>>

PoolNext ==
  \/ \E k \in Stakers, amount \in Deposits : Stake(k, amount)
  \/ \E k \in Stakers, amount \in Withdrawals : Unstake(k, amount)
  \/ \E i \in InvoiceIds, amount \in Claims : PayOut(i, amount)
  \/ \E f \in OfferIds, amount \in Claims : ReservePayout(f, amount)
  \/ \E f \in OfferIds, amount \in Claims : ClaimPayout(f, amount)
  \/ \E rate \in YieldRates : SetYieldRate(rate)
  \/ \E flag \in BOOLEAN : SetPaused(flag)
  \/ \E i \in InvoiceIds : InvoiceDefaults(i)
  \/ Fund
  \/ Tick

PoolSpec == PoolInit /\ [][PoolNext]_poolVars

-----------------------------------------------------------------------------
(* Properties *)

(***************************************************************************)
(* The sum of the stakes is the pool total after any mixture of deposits,  *)
(* withdrawals and payouts: the divisions of the pro-rata loop lose        *)
(* nothing (pay_out: "get_stake sums always equal get_pool_total").        *)
(***************************************************************************)
TotalIsSumOfStakes == pool_total = SumOver(stakes, Stakers)

(***************************************************************************)
(* A payout takes from each staker its share of the loss, to within one    *)
(* unit per staker, also from the one that absorbs the remainder of the    *)
(* rounded shares, unless an earlier payout left a balance below zero.     *)
(***************************************************************************)
LossIsProRata ==
  [][pool_total' < pool_total
       /\ (\E amount \in Claims : \/ \E i \in InvoiceIds : PayOut(i, amount)
                                 \/ \E f \in OfferIds : ClaimPayout(f, amount))
       /\ (\A k \in Stakers : stakes[k] >= 0) =>
     LET payout == pool_total - pool_total'
     IN \A k \in Stakers :
          LET off == (stakes[k] - stakes'[k]) * pool_total - stakes[k] * payout
          IN -NStakers * pool_total < off /\ off < NStakers * pool_total]_poolVars

(***************************************************************************)
(* The reservations add up: what is outstanding is what was reserved and   *)
(* not paid, offer by offer, and no offer is paid beyond its reservation,  *)
(* also when the pool can pay a claim in part only.                        *)
(***************************************************************************)
ReservationsAddUp ==
  /\ outstanding = SumOver([f \in OfferIds |-> reserved[f] - paid[f]], OfferIds)
  /\ \A f \in OfferIds : paid[f] <= reserved[f]

(***************************************************************************)
(* Reserving and claiming keep the reservations covered by the pool: as    *)
(* long as they were, no offer reserves or claims what another one has.    *)
(***************************************************************************)
ReservationsStayCovered ==
  [][outstanding <= pool_total /\ <<reserved, paid>>' # <<reserved, paid>> =>
       outstanding' <= pool_total']_poolVars

(***************************************************************************)
(* A new rate and a top-up work for the future only: neither changes the   *)
(* yield a staker has accrued so far (set_yield_rate "Prospective-only",   *)
(* stake "top-ups do not retroactively inflate historical yield").         *)
(***************************************************************************)
YieldIsProspective ==
  [][yield_rate' # yield_rate
       \/ (\E k \in Stakers, amount \in Deposits : Stake(k, amount)) =>
       \A k \in Stakers : stakes[k] >= 0 => AccruedYield(k)' = AccruedYield(k)]_poolVars
=============================================================================
