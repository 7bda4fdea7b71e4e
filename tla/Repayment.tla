----------------------------- MODULE Repayment ------------------------------
(***************************************************************************)
(* The repayment contract on top of registry and financing: installments   *)
(* with pro-rata interest, the overdue penalty, the overdue flag and the   *)
(* reclaim of a defaulted offer, with what reclaim and full repayment ask  *)
(* of the insurance pool and of the reputation contract.  A call that      *)
(* reaches a paused contract reverts as a whole, so the pause guards of    *)
(* the callees are guards of the call.                                     *)
(*                                                                         *)
(* pay_out appears by its result, at most what the pool holds and at most  *)
(* what is asked; module InsurancePool has its inside.  record_outcome     *)
(* appears by its two counters.                                            *)
(***************************************************************************)
EXTENDS Financing

CONSTANTS
  Wired,              \* set_insurance, set_reputation: "insurance", "reputation"
  Payments,           \* bound: amounts a repayer may submit
  PenaltyConfigs,     \* bound: <<penalty_bps, cap_bps>> the admins may submit
  PoolBalances,       \* bound: what the pool holds when a claim reaches it
  Day,                \* SECS_PER_DAY
  GracePeriod,        \* GRACE_PERIOD_SECS
  BpsUnit,            \* 10_000
  YearBps,            \* 3_650_000
  MinPaymentBps,      \* MIN_PARTIAL_PAYMENT_BPS
  MaxPenaltyBps,      \* MAX_PENALTY_BPS
  MaxPayments,        \* MAX_PAYMENTS_PER_INVOICE
  MaxRecorded         \* bound: payments on one invoice

ASSUME RepaymentAssumption ==
  /\ Wired \subseteq {"insurance", "reputation"}
  /\ Payments \subseteq Int
  /\ PenaltyConfigs \subseteq Nat \X Nat
  /\ PoolBalances \subseteq Nat
  /\ Day \in Nat \ {0}
  /\ GracePeriod \in Nat
  /\ BpsUnit \in Nat \ {0}
  /\ YearBps \in Nat \ {0}
  /\ MinPaymentBps \in Nat
  /\ MaxPenaltyBps \in Nat
  /\ MaxPayments \in Nat
  /\ MaxRecorded \in Nat

VARIABLES
  pays,      \* "pays" of an invoice: how many records, and the principal
             \* portions of the first MAX_PAYMENTS_PER_INVOICE of them
  penalty,   \* "penbps", "pencap"
  rep,       \* outcomes recorded for an account
  payouts    \* what the pool paid on an offer: <<asked, paid>>, oldest first

repVars == <<pays, penalty, rep, payouts>>

-----------------------------------------------------------------------------
(* Types *)

RepTypeOK ==
  /\ pays \in [InvoiceIds -> [count : Nat, principal : Int]]
  /\ penalty \in (0 .. MaxPenaltyBps) \X (0 .. BpsUnit)
  /\ rep \in [Address -> [repayments : Nat, defaults : Nat]]
  /\ payouts \in [OfferIds -> Seq(Int \X Int)]

RepInit ==
  /\ pays = [i \in InvoiceIds |-> [count |-> 0, principal |-> 0]]
  /\ penalty = <<0, 0>>
  /\ rep = [a \in Address |-> [repayments |-> 0, defaults |-> 0]]
  /\ payouts = [f \in OfferIds |-> << >>]

-----------------------------------------------------------------------------
(* What is owed *)

(* principal and flat yield: the frozen base of the penalty, and what the  *)
(* pool insures                                                            *)
FlatDue(o) == o.amount + Bps(o.amount, o.interest_rate, BpsUnit)

RemainingPrincipal(o) == AtLeast(o.amount - pays[o.invoice_id].principal, 0)

(* pro_rata_interest, over the whole days since the funding                *)
AccruedInterest(o) ==
  (RemainingPrincipal(o) * o.interest_rate * ((now - o.funded_at) \div Day)) \div YearBps

(* accrued_penalty                                                         *)
Penalty(base, due_date) ==
  IF now <= due_date \/ base <= 0 THEN 0
  ELSE AtMost((base * penalty[1] * ((now - due_date) \div Day)) \div BpsUnit,
              Bps(base, penalty[2], BpsUnit))

(* calculate_total_due of an offer that is neither Repaid nor Defaulted    *)
TotalOwed(o) ==
  RemainingPrincipal(o) + AccruedInterest(o)
    + Penalty(FlatDue(o), invoices[o.invoice_id].due_date)

-----------------------------------------------------------------------------
(* Calls to the insurance pool and to the reputation contract *)

RecordOutcome(a, field) ==
  IF "reputation" \in Wired
  THEN /\ NotPaused("reputation")
       /\ rep' = [rep EXCEPT ![a][field] = @ + 1]
  ELSE UNCHANGED rep

(* Mutant: an empty pool refuses the claim instead of paying nothing.      *)
PayOutOfFunds(f, asked, pool) ==
  IF "insurance" \in Wired
  THEN /\ NotPaused("insurance")
       /\ asked > 0
       /\ pool > 0
       /\ payouts' = [payouts EXCEPT ![f] = Append(@, <<asked, AtMost(asked, pool)>>)]
  ELSE UNCHANGED payouts

(* pay_out: refuses a claim of nothing, pays what the pool has             *)
PayOut(f, asked, pool) ==
  IF "insurance" \in Wired
  THEN /\ NotPaused("insurance")
       /\ asked > 0
       /\ payouts' = [payouts EXCEPT ![f] = Append(@, <<asked, AtMost(asked, pool)>>)]
  ELSE UNCHANGED payouts

-----------------------------------------------------------------------------
(* Entry points *)

SetPenalty(bps, cap) ==
  /\ NotPaused("repayment")
  /\ bps <= MaxPenaltyBps
  /\ cap <= BpsUnit
  /\ penalty' = <<bps, cap>>
  /\ UNCHANGED <<regVars, finVars, pays, rep, payouts>>

(* A payment covers the accrued interest first; the rest counts as         *)
(* principal, what is paid of the penalty included.                        *)
PrincipalPortion(o, amount) == amount - AtMost(amount, AccruedInterest(o))

(* Mutant: the whole payment is held against the remaining principal.      *)
FullyRepaidByAmount(o, amount) == RemainingPrincipal(o) - amount <= 0

FullyRepaid(o, amount) == RemainingPrincipal(o) - PrincipalPortion(o, amount) <= 0

(* Mutant: every installment counts as a good outcome.                     *)
RecordEveryPayment(fully_repaid, a) == RecordOutcome(a, "repayments")

RecordSuccess(fully_repaid, a) ==
  IF fully_repaid THEN RecordOutcome(a, "repayments") ELSE UNCHANGED rep

(* repay_invoice: payment and fee go from the repayer to the lender and to *)
(* the fee recipient.                                                      *)
RepayInvoice(repayer, i, f, amount) ==
  LET o == offers[f]
      owed == TotalOwed(o)
      portion == PrincipalPortion(o, amount)
      fully_repaid == FullyRepaid(o, amount)
  IN /\ NotPaused("repayment")
     /\ invoices[i].originator = repayer
     /\ invoices[i].status = "Financed"
     /\ o.invoice_id = i
     /\ o.status \in ActiveStatuses
     /\ amount > 0
     /\ RemainingPrincipal(o) > 0
     /\ amount >= Bps(o.amount, MinPaymentBps, BpsUnit) \/ amount >= owed
     /\ amount <= owed
     /\ pays[i].count < MaxRecorded
     /\ pays' = [pays EXCEPT ![i] =
          [count |-> @.count + 1,
           principal |-> IF @.count < MaxPayments
                         THEN @.principal + portion ELSE @.principal]]
     /\ RecordRepayment(f, IF fully_repaid THEN "Repaid" ELSE "Financed",
                        o.amount_repaid + portion, amount,
                        Bps(amount, GetFeeBps, BpsUnit))
     /\ RepaymentMarksInvoiceRepaid(i, fully_repaid)
     /\ RecordSuccess(fully_repaid, repayer)
     /\ UNCHANGED <<penalty, payouts>>

(* mark_overdue                                                            *)
MarkOverdue(i) ==
  /\ NotPaused("repayment")
  /\ MarkInvoiceOverdue(i)
  /\ UNCHANGED <<finVars, repVars>>

(* reclaim_invoice, with `pool` in the insurance contract                  *)
ReclaimInvoice(l, i, f, pool) ==
  LET o == offers[f]
  IN /\ NotPaused("repayment")
     /\ invoices[i].status = "Overdue"
     /\ now >= invoices[i].due_date + GracePeriod
     /\ o.invoice_id = i
     /\ o.lender = l
     /\ o.status \in ActiveStatuses
     /\ RecordDefault(f)
     /\ RepaymentMarksDefaulted(i)
     /\ PayOut(f, AtLeast(FlatDue(o) - o.amount_repaid, 0), pool)
     /\ RecordOutcome(invoices[i].originator, "defaults")
     /\ UNCHANGED <<pays, penalty>>

-----------------------------------------------------------------------------
RepayNext ==
  \E i \in InvoiceIds, f \in OfferIds, a \in Address :
    \/ \E amount \in Payments : RepayInvoice(a, i, f, amount)
    \/ \E pool \in PoolBalances : ReclaimInvoice(a, i, f, pool)

PenaltyNext == \E c \in PenaltyConfigs : SetPenalty(c[1], c[2])
=============================================================================
