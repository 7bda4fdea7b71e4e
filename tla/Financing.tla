----------------------------- MODULE Financing ------------------------------
(***************************************************************************)
(* The financing contract on top of the registry: offers, their acceptance *)
(* (principal, position token, invoice status), the lender and protocol    *)
(* counters, and the callbacks the repayment contract writes offers by.    *)
(*                                                                         *)
(* The offer currency and its token are not distinguished; an allowance or *)
(* balance that is too small reverts the call, so it never is here.        *)
(* Negotiation adds the rounds on top of a pending offer; the advisory     *)
(* schedules are not modelled.                                             *)
(***************************************************************************)
EXTENDS Registry

CONSTANTS
  OfferIds,        \* identifiers a lender may use
  Principals,      \* bound: offer amounts a lender may submit
  Rates,           \* bound: interest rates a lender may submit
  Expiries,        \* bound: expires_at values a lender may submit (0: never)
  MaxInterestBps   \* MAX_INTEREST_BPS

ASSUME FinancingAssumption ==
  /\ Nobody \notin InvoiceIds
  /\ Principals \subseteq Int
  /\ Rates \subseteq Nat
  /\ Expiries \subseteq Nat
  /\ MaxInterestBps \in Nat

VARIABLES
  offers,   \* "offers"
  lstats,   \* LenderStats of an account
  stats,    \* ProtocolStats
  pos       \* position tokens minted to an account

finVars == <<offers, lstats, stats, pos>>

-----------------------------------------------------------------------------
(* Types *)

(* OfferStatus, and Absent for an identifier that is not a key of the map. *)
OfferStatuses ==
  {"Absent", "Pending", "Accepted", "Rejected", "Financed", "Repaid", "Defaulted"}

(* The offers whose principal is out: repay_invoice and reclaim_invoice    *)
(* take these and no other.                                                *)
ActiveStatuses == {"Accepted", "Financed"}

FundedStatuses == {"Accepted", "Financed", "Repaid", "Defaulted"}

Offer == [invoice_id    : InvoiceIds \cup {Nobody},
          lender        : Address \cup {Nobody},
          amount        : Int,
          interest_rate : Nat,
          expires_at    : Nat,
          status        : OfferStatuses,
          funded_at     : Nat,
          amount_repaid : Int]

AbsentOffer ==
  [invoice_id |-> Nobody, lender |-> Nobody, amount |-> 0, interest_rate |-> 0,
   expires_at |-> 0, status |-> "Absent", funded_at |-> 0, amount_repaid |-> 0]

LenderStats ==
  [total_offered : Int, total_accepted : Int, offers_pending : Nat, offers_repaid : Nat]

ProtocolStats == [total_offers : Nat, total_financed : Int, total_repaid : Int,
                  total_fee_revenue : Int]

FinTypeOK ==
  /\ offers \in [OfferIds -> Offer]
  /\ lstats \in [Address -> LenderStats]
  /\ stats \in ProtocolStats
  /\ pos \in [Address -> Int]

FinInit ==
  /\ offers = [f \in OfferIds |-> AbsentOffer]
  /\ lstats = [a \in Address |-> [total_offered |-> 0, total_accepted |-> 0,
                                  offers_pending |-> 0, offers_repaid |-> 0]]
  /\ stats = [total_offers |-> 0, total_financed |-> 0, total_repaid |-> 0,
              total_fee_revenue |-> 0]
  /\ pos = [a \in Address |-> 0]

-----------------------------------------------------------------------------
(* Entry points of the lender and of the originator *)

CreateOffer(f, i, l, amount, rate, expires_at) ==
  /\ NotPaused("financing")
  /\ l \notin blacklist
  /\ amount > 0
  /\ rate \in 1 .. MaxInterestBps
  /\ invoices[i].status = "Pending"
  /\ l # invoices[i].originator
  /\ amount <= invoices[i].amount
  /\ offers[f].status = "Absent"
  /\ offers' = [offers EXCEPT ![f] =
       [invoice_id |-> i, lender |-> l, amount |-> amount, interest_rate |-> rate,
        expires_at |-> expires_at, status |-> "Pending", funded_at |-> 0,
        amount_repaid |-> 0]]
  /\ stats' = [stats EXCEPT !.total_offers = @ + 1]
  /\ lstats' = [lstats EXCEPT ![l].total_offered = @ + amount,
                              ![l].offers_pending = @ + 1]
  /\ UNCHANGED <<regVars, pos>>

(* Mutant: the status of the offer is not looked at.                       *)
WithdrawOfferAnytime(f, l) ==
  /\ NotPaused("financing")
  /\ offers[f].lender = l
  /\ offers' = [offers EXCEPT ![f].status = "Rejected"]
  /\ UNCHANGED <<regVars, lstats, stats, pos>>

(* Mutant: a withdrawn offer is taken out of the lender's total.           *)
WithdrawOfferRefunding(f, l) ==
  /\ NotPaused("financing")
  /\ offers[f].status = "Pending"
  /\ offers[f].lender = l
  /\ offers' = [offers EXCEPT ![f].status = "Rejected"]
  /\ lstats' = [lstats EXCEPT ![l].total_offered = @ - offers[f].amount]
  /\ UNCHANGED <<regVars, stats, pos>>

(* withdraw_offer: the negotiation it ends is derived from the status.     *)
WithdrawOffer(f, l) ==
  /\ NotPaused("financing")
  /\ offers[f].status = "Pending"
  /\ offers[f].lender = l
  /\ offers' = [offers EXCEPT ![f].status = "Rejected"]
  /\ UNCHANGED <<regVars, lstats, stats, pos>>

(* Mutant: the invoice is marked without assert_transition, so the change  *)
(* leaves no trace in its history.                                         *)
SettleAcceptanceSilently(f, o, lenders) ==
  /\ offers' = [offers EXCEPT ![f] = [o EXCEPT !.status = "Accepted", !.funded_at = now]]
  /\ NotPaused("registry")
  /\ invoices' = [invoices EXCEPT ![o.invoice_id].status = "Financed"]
  /\ UNCHANGED <<now, adminVars, by_origin, tokVars, trn_log>>
  /\ pos' = [pos EXCEPT ![o.lender] = @ + o.amount]
  /\ stats' = [stats EXCEPT !.total_financed = @ + o.amount]
  /\ lstats' = [lenders EXCEPT ![o.lender].total_accepted = @ + o.amount]

(* settle_acceptance of the offer o stored under f, with the lender        *)
(* statistics as the call has left them so far.  The guard of the          *)
(* registry's system transition is a guard of the whole call.              *)
SettleAcceptance(f, o, lenders) ==
  /\ offers' = [offers EXCEPT ![f] = [o EXCEPT !.status = "Accepted", !.funded_at = now]]
  /\ FinancingMarksInvoiceFinanced(o.invoice_id)
  /\ pos' = [pos EXCEPT ![o.lender] = @ + o.amount]
  /\ stats' = [stats EXCEPT !.total_financed = @ + o.amount]
  /\ lstats' = [lenders EXCEPT ![o.lender].total_accepted = @ + o.amount]

(* Mutant: the status of the invoice is left to the transition table,      *)
(* which also leads from Financed to Financed.                             *)
AcceptOfferOnTable(f, o) ==
  /\ NotPaused("financing")
  /\ offers[f].status = "Pending"
  /\ offers[f].expires_at = 0 \/ now < offers[f].expires_at
  /\ invoices[offers[f].invoice_id].originator = o
  /\ SettleAcceptance(f, offers[f], lstats)

(* accept_offer: compares neither the lender with the originator nor the   *)
(* principal with the amount of the invoice, create_offer did.             *)
AcceptOffer(f, o) ==
  /\ NotPaused("financing")
  /\ offers[f].status = "Pending"
  /\ offers[f].expires_at = 0 \/ now < offers[f].expires_at
  /\ invoices[offers[f].invoice_id].originator = o
  /\ invoices[offers[f].invoice_id].status = "Pending"
  /\ SettleAcceptance(f, offers[f], lstats)

(* reject_offer: whatever the status of the invoice has become             *)
RejectOffer(f, o) ==
  /\ NotPaused("financing")
  /\ offers[f].status = "Pending"
  /\ invoices[offers[f].invoice_id].originator = o
  /\ offers' = [offers EXCEPT ![f].status = "Rejected"]
  /\ UNCHANGED <<regVars, lstats, stats, pos>>

-----------------------------------------------------------------------------
(* Callbacks of the repayment contract.  assert_only_repayment lets no     *)
(* other caller in, so they occur as parts of repayment's actions only.    *)

(* Mutant: interest and penalty count as repaid principal.                 *)
RecordRepaymentGross(f, new_status, amount_repaid, paid, fee) ==
  /\ NotPaused("financing")
  /\ offers' = [offers EXCEPT ![f].status = new_status, ![f].amount_repaid = @ + paid]
  /\ lstats' = IF new_status = "Repaid"
               THEN [lstats EXCEPT ![offers[f].lender].offers_repaid = @ + 1]
               ELSE lstats
  /\ stats' = [stats EXCEPT !.total_repaid = @ + paid, !.total_fee_revenue = @ + fee]
  /\ UNCHANGED pos

(* update_offer_status, update_offer_amount_repaid,                        *)
(* update_lender_stats_repaid and update_stats_repaid, as repay_invoice    *)
(* calls them one after the other.                                         *)
RecordRepayment(f, new_status, amount_repaid, paid, fee) ==
  /\ NotPaused("financing")
  /\ offers' = [offers EXCEPT ![f].status = new_status,
                              ![f].amount_repaid = amount_repaid]
  /\ lstats' = IF new_status = "Repaid"
               THEN [lstats EXCEPT ![offers[f].lender].offers_repaid = @ + 1]
               ELSE lstats
  /\ stats' = [stats EXCEPT !.total_repaid = @ + paid, !.total_fee_revenue = @ + fee]
  /\ UNCHANGED pos

(* get_fee_bps: "feebps" in the storage of the financing contract, which   *)
(* no function writes; set_fee writes the storage of the registry.         *)
GetFeeBps == 0

(* Mutant: reclaim leaves the offer as it is.                              *)
RecordNoDefault(f) ==
  /\ NotPaused("financing")
  /\ UNCHANGED finVars

(* update_offer_status, as reclaim_invoice calls it                        *)
RecordDefault(f) ==
  /\ NotPaused("financing")
  /\ offers' = [offers EXCEPT ![f].status = "Defaulted"]
  /\ UNCHANGED <<lstats, stats, pos>>

-----------------------------------------------------------------------------
FinNext ==
  \E f \in OfferIds, a \in Address :
    \/ \E i \in InvoiceIds, amount \in Principals, rate \in Rates, e \in Expiries :
         CreateOffer(f, i, a, amount, rate, e)
    \/ WithdrawOffer(f, a)
    \/ AcceptOffer(f, a)
    \/ RejectOffer(f, a)
=============================================================================
