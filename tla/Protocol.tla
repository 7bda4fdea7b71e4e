------------------------------ MODULE Protocol ------------------------------
(***************************************************************************)
(* Registry, financing and repayment deployed together: users call any of  *)
(* the three in any order, and the system transitions of the registry and  *)
(* the callbacks of the financing contract happen only inside the calls    *)
(* that make them.                                                         *)
(***************************************************************************)
EXTENDS Repayment, Sums

vars == <<regVars, finVars, repVars>>

Init == RegInit /\ FinInit /\ RepInit

RegistryStep   == RegUserNext /\ UNCHANGED <<finVars, repVars>>
FinancingStep  == FinNext /\ UNCHANGED repVars
OverdueStep    == \E i \in InvoiceIds : MarkOverdue(i)

Next == RegistryStep \/ FinancingStep \/ OverdueStep \/ RepayNext \/ PenaltyNext

Spec == Init /\ [][Next]_vars

TypeOK == RegTypeOK /\ FinTypeOK /\ RepTypeOK

(* Time passes, somebody pokes an overdue invoice, and a lender that may   *)
(* reclaim an offer does: the poke is permissionless and the lender has    *)
(* nothing else to wait for.  Borrowers and admins owe nothing.            *)
Fairness ==
  /\ WF_vars(Tick /\ UNCHANGED <<finVars, repVars>>)
  /\ \A i \in InvoiceIds : WF_vars(MarkOverdue(i))
  /\ \A i \in InvoiceIds, f \in OfferIds, l \in Address :
       WF_vars(\E pool \in PoolBalances : ReclaimInvoice(l, i, f, pool))

FairSpec == Spec /\ Fairness

-----------------------------------------------------------------------------
(* Views *)

OffersOn(i) == {f \in OfferIds : offers[f].invoice_id = i}

Active(f) == offers[f].status \in ActiveStatuses

Funded(f) == offers[f].status \in FundedStatuses

Counts(S) == [s \in OfferStatuses |-> Cardinality({f \in S : offers[f].status = s})]

AmountOver(S) == SumOver([f \in OfferIds |-> offers[f].amount], S)

RepaidOver(S) == SumOver([f \in OfferIds |-> offers[f].amount_repaid], S)

LastActor(i) == trn_log[i][Len(trn_log[i])].actor

(* Every status change of the invoice so far was made by the protocol      *)
(* itself, and none has been evicted from the history.                     *)
SystemOnly(i) ==
  /\ Len(trn_log[i]) < MaxHistory
  /\ \A k \in 1 .. Len(trn_log[i]) :
       trn_log[i][k].actor \in {"registry", "financing", "repayment"}

-----------------------------------------------------------------------------
(* Properties *)

(***************************************************************************)
(* The invoice and the offers on it, kept by two contracts, tell the same  *)
(* story as long as nobody moves the status by hand: one offer is active   *)
(* while the invoice is Financed or Overdue, none before, and it ends the  *)
(* way the invoice ends.                                                   *)
(***************************************************************************)
StatusAgreement ==
  \A i \in InvoiceIds : SystemOnly(i) =>
    LET active   == {f \in OffersOn(i) : Active(f)}
        repaid   == {f \in OffersOn(i) : offers[f].status = "Repaid"}
        defaults == {f \in OffersOn(i) : offers[f].status = "Defaulted"}
        sizes    == <<Cardinality(active), Cardinality(repaid), Cardinality(defaults)>>
    IN CASE invoices[i].status \in {"Absent", "Pending"}    -> sizes = <<0, 0, 0>>
         [] invoices[i].status \in {"Financed", "Overdue"}  -> sizes = <<1, 0, 0>>
         [] invoices[i].status = "Repaid"                   -> sizes = <<0, 1, 0>>
         [] invoices[i].status = "Defaulted"                -> sizes = <<0, 0, 1>>
         [] OTHER                                           -> FALSE

(***************************************************************************)
(* The counters of the financing contract and the position tokens are      *)
(* running totals over the offers: none is lost or counted twice, whatever *)
(* becomes of an offer (create_offer, settle_acceptance, the callbacks).   *)
(***************************************************************************)
BooksMatchOffers ==
  LET made   == {f \in OfferIds : offers[f].status # "Absent"}
      funded == {f \in OfferIds : Funded(f)}
      of(a, S) == {f \in S : offers[f].lender = a}
  IN /\ stats.total_offers = Cardinality(made)
     /\ stats.total_financed = AmountOver(funded)
     /\ \A a \in Address :
          /\ lstats[a].total_offered = AmountOver(of(a, made))
          /\ lstats[a].total_accepted = AmountOver(of(a, funded))
          /\ pos[a] = AmountOver(of(a, funded))
          /\ lstats[a].offers_repaid = Counts(of(a, made))["Repaid"]

(***************************************************************************)
(* The payment history of an invoice, kept by repayment, and amount_repaid *)
(* of its offers, kept by financing, account for the same principal while  *)
(* the history is short enough to be summed whole.                         *)
(***************************************************************************)
HistoryMatchesOffers ==
  \A i \in InvoiceIds : pays[i].count <= MaxPayments =>
    pays[i].principal = RepaidOver(OffersOn(i))

(***************************************************************************)
(* An active offer has principal left to repay, so the claim reclaim makes *)
(* on the pool is never the empty one pay_out refuses: a lender cannot be  *)
(* locked out of a default by what was repaid.                             *)
(***************************************************************************)
ActiveOfferStillOwes ==
  \A f \in OfferIds : Active(f) /\ pays[offers[f].invoice_id].count <= MaxPayments =>
    /\ 0 <= offers[f].amount_repaid
    /\ offers[f].amount_repaid < offers[f].amount
    /\ offers[f].amount_repaid <= pays[offers[f].invoice_id].principal

(***************************************************************************)
(* The pool pays on an offer at most once, only when the offer defaults,   *)
(* and principal repaid plus payout never exceed principal plus flat yield *)
(* (reclaim_invoice, T-L4 of the threat model).                            *)
(***************************************************************************)
OnePayoutPerDefault ==
  \A f \in OfferIds :
    /\ Len(payouts[f]) = (IF offers[f].status = "Defaulted" /\ "insurance" \in Wired
                          THEN 1 ELSE 0)
    /\ \A k \in 1 .. Len(payouts[f]) :
         offers[f].amount_repaid + payouts[f][k][2] <= FlatDue(offers[f])

(***************************************************************************)
(* record_outcome counts without looking at the invoice; the counters are  *)
(* right because each settlement by repayment reaches it exactly once: an  *)
(* account's outcomes are the invoices it held when repayment settled them.*)
(***************************************************************************)
ReputationMatchesOutcomes ==
  \A a \in Address :
    LET settled(s) == {i \in InvoiceIds : /\ invoices[i].status = s
                                          /\ LastActor(i) = "repayment"
                                          /\ invoices[i].originator = a}
        wired == "reputation" \in Wired
    IN /\ rep[a].repayments = (IF wired THEN Cardinality(settled("Repaid")) ELSE 0)
       /\ rep[a].defaults = (IF wired THEN Cardinality(settled("Defaulted")) ELSE 0)

(***************************************************************************)
(* An offer is marked Repaid only when its whole principal came back, if   *)
(* nobody moved the invoice by hand: interest and penalty in the payments  *)
(* do not stand in for principal that is still out.                        *)
(***************************************************************************)
RepaidIsWhole ==
  \A f \in OfferIds :
    offers[f].status = "Repaid" /\ SystemOnly(offers[f].invoice_id)
        /\ pays[offers[f].invoice_id].count <= MaxPayments =>
      offers[f].amount_repaid >= offers[f].amount

(***************************************************************************)
(* A paused contract keeps its state, also against calls that reach it     *)
(* through another contract: the outer call reverts as a whole.            *)
(***************************************************************************)
PauseFreezesProtocol ==
  [][/\ NotPaused("financing") \/ UNCHANGED finVars
     /\ NotPaused("repayment") \/ UNCHANGED <<pays, penalty>>
     /\ NotPaused("insurance") \/ UNCHANGED payouts
     /\ NotPaused("reputation") \/ UNCHANGED rep
     /\ NotPaused("registry") \/ UNCHANGED <<invoices, pays, rep, payouts, pos>>]_vars

(***************************************************************************)
(* The registry inside the protocol behaves as the registry alone: the     *)
(* other contracts touch it by its system transitions only.                *)
(***************************************************************************)
ImplementsRegistry == RegSpec

(* The promise made to lenders: module Loan, with a loan read off an offer *)
(* and the payouts on it.  A claim is astray once its invoice was moved by *)
(* hand or one of its histories is full.                                   *)
LoanStage ==
  [s \in OfferStatuses |->
     CASE s = "Absent"           -> "none"
       [] s = "Pending"          -> "offered"
       [] s = "Rejected"         -> "refused"
       [] s \in ActiveStatuses   -> "running"
       [] s = "Repaid"           -> "repaid"
       [] s = "Defaulted"        -> "defaulted"]

TermsOf(o) ==
  [claim |-> o.invoice_id, lender |-> o.lender, lent |-> o.amount,
   rate |-> o.interest_rate, expires |-> o.expires_at, insured |-> FlatDue(o)]

LoanOf(f) ==
  [stage    |-> LoanStage[offers[f].status],
   terms    |-> TermsOf(offers[f]),
   since    |-> offers[f].funded_at,
   returned |-> offers[f].amount_repaid,
   covered  |-> [k \in 1 .. Len(payouts[f]) |-> payouts[f][k][2]]]

Loans == [f \in OfferIds |-> LoanOf(f)]

Astray == {i \in InvoiceIds : ~SystemOnly(i) \/ pays[i].count > MaxPayments}

L == INSTANCE Loan
       WITH Loans <- OfferIds, Claims <- InvoiceIds, NoTerms <- TermsOf(AbsentOffer),
            loan <- Loans, astray <- Astray

(***************************************************************************)
(* The three contracts implement Loan.  update_offer_status writes what    *)
(* repayment passes, and amount_repaid, the payment history, the invoice   *)
(* and the payout are four writes in four contracts; still a loan runs     *)
(* through its stages once, alone on its claim, on fixed terms, and ends   *)
(* when its principal is back.                                             *)
(***************************************************************************)
ImplementsLoan == L!Spec

(***************************************************************************)
(* No funded invoice is forgotten: once financed by an offer, and as long  *)
(* as nobody intervenes by hand or pauses a contract, it ends repaid or    *)
(* defaulted.                                                              *)
(***************************************************************************)
FundedInvoiceSettles ==
  \A i \in InvoiceIds :
    (SystemOnly(i) /\ invoices[i].status = "Financed")
      ~> \/ invoices[i].status \in {"Repaid", "Defaulted"}
         \/ ~SystemOnly(i)
         \/ paused # {}
=============================================================================
