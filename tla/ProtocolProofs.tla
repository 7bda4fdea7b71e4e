--------------------------- MODULE ProtocolProofs ---------------------------
(***************************************************************************)
(* Proofs about Protocol for all values of its constants: its types, that  *)
(* the other contracts touch the registry by its system transitions only   *)
(* (so all that is proved of the registry alone holds of it inside the     *)
(* protocol), what an offer goes through, and the books about it; and,     *)
(* at the end, about Servicing, where the loan is amended and scheduled:   *)
(* what an amendment may touch, who consents to it, and which installment  *)
(* a keeper is told to ask for.                                            *)
(***************************************************************************)
EXTENDS Servicing, RegistryProofs, FiniteSums

-----------------------------------------------------------------------------
(* The kinds of step *)

(* withdraw_offer and reject_offer write the same                          *)
RefuseStep(f) ==
  /\ NotPaused("financing")
  /\ offers[f].status = "Pending"
  /\ offers' = [offers EXCEPT ![f].status = "Rejected"]
  /\ UNCHANGED <<regVars, lstats, stats, pos, repVars>>

OfferStep(f, a) ==
  \/ \E i \in InvoiceIds, amount \in Principals, rate \in Rates, e \in Expiries :
       CreateOffer(f, i, a, amount, rate, e) /\ UNCHANGED repVars
  \/ RefuseStep(f)
  \/ AcceptOffer(f, a) /\ UNCHANGED repVars
  \/ \E i \in InvoiceIds, amount \in Payments : RepayInvoice(a, i, f, amount)
  \/ \E i \in InvoiceIds, pool \in PoolBalances : ReclaimInvoice(a, i, f, pool)

(* Every step is one of the registry alone, a new penalty, or about one    *)
(* offer.                                                                  *)
LEMMA ProtocolStepKinds ==
  ASSUME Next
  PROVE  \/ RegUserNext /\ UNCHANGED <<finVars, repVars>>
         \/ PenaltyNext
         \/ \E f \in OfferIds, a \in Address : OfferStep(f, a)
<1>1. CASE RegistryStep
  BY <1>1 DEF RegistryStep
<1>2. CASE FinancingStep
  BY <1>2 DEF FinancingStep, FinNext, OfferStep, RefuseStep, WithdrawOffer, RejectOffer
<1>3. CASE OverdueStep
  BY <1>3 DEF OverdueStep, MarkOverdue, RegUserNext, KeeperNext
<1>4. CASE RepayNext
  BY <1>4 DEF RepayNext, OfferStep
<1> QED BY <1>1, <1>2, <1>3, <1>4 DEF Next

-----------------------------------------------------------------------------
(* Type correctness *)

(* An offer in the map names a registered identifier and an account.       *)
OffersNameTheirParties ==
  \A f \in OfferIds : offers[f].status # "Absent" =>
    /\ offers[f].invoice_id \in InvoiceIds
    /\ offers[f].lender \in Address

TypeInv == TypeOK /\ OffersNameTheirParties

(* A call on financing or repayment leaves the registry alone or makes one *)
(* of its system transitions.                                              *)
LEMMA RegistryInsideStep ==
  ASSUME OffersNameTheirParties, Next
  PROVE  RegNext \/ UNCHANGED regVars
<1>1. CASE RegUserNext
  BY <1>1 DEF RegNext
<1>2. CASE PenaltyNext
  BY <1>2 DEF PenaltyNext, SetPenalty
<1>3. ASSUME NEW f \in OfferIds, NEW a \in Address, OfferStep(f, a)
      PROVE  RegNext \/ UNCHANGED regVars
  <2>1. ASSUME NEW i \in InvoiceIds, NEW amount \in Principals, NEW rate \in Rates,
               NEW e \in Expiries, CreateOffer(f, i, a, amount, rate, e)
        PROVE  UNCHANGED regVars
    BY <2>1 DEF CreateOffer
  <2>2. CASE RefuseStep(f)
    BY <2>2 DEF RefuseStep
  <2>3. ASSUME AcceptOffer(f, a) PROVE RegNext
    <3>1. offers[f].status = "Pending" /\ FinancingMarksInvoiceFinanced(offers[f].invoice_id)
      BY <2>3 DEF AcceptOffer, SettleAcceptance
    <3>2. offers[f].invoice_id \in InvoiceIds
      BY <3>1 DEF OffersNameTheirParties
    <3> QED BY <3>1, <3>2 DEF RegNext, SystemNext
  <2>4. ASSUME NEW i \in InvoiceIds, NEW amount \in Payments, RepayInvoice(a, i, f, amount)
        PROVE  RegNext
    <3>1. RepaymentMarksInvoiceRepaid(i, FullyRepaid(offers[f], amount))
      BY <2>4 DEF RepayInvoice
    <3>2. FullyRepaid(offers[f], amount) \in BOOLEAN
      BY DEF FullyRepaid
    <3> HIDE DEF FullyRepaid
    <3> QED BY <3>1, <3>2 DEF RegNext, SystemNext
  <2>5. ASSUME NEW i \in InvoiceIds, NEW pool \in PoolBalances, ReclaimInvoice(a, i, f, pool)
        PROVE  RegNext
    BY <2>5 DEF ReclaimInvoice, RegNext, SystemNext
  <2> QED BY <1>3, <2>1, <2>2, <2>3, <2>4, <2>5 DEF OfferStep
<1> QED BY <1>1, <1>2, <1>3, ProtocolStepKinds

(* What is left of the principal and the interest on it are never negative.*)
LEMMA AmountFacts ==
  ASSUME TypeOK, NEW f \in OfferIds, offers[f].invoice_id \in InvoiceIds
  PROVE  /\ RemainingPrincipal(offers[f]) \in Nat
         /\ AccruedInterest(offers[f]) \in Int
<1>1. RemainingPrincipal(offers[f]) \in Nat
  BY DEF RemainingPrincipal, AtLeast, TypeOK, FinTypeOK, RepTypeOK, Offer
<1>2. now - offers[f].funded_at \in Int
  BY RegistryAssumption DEF TypeOK, RegTypeOK, FinTypeOK, Offer
<1>3. (now - offers[f].funded_at) \div Day \in Int
  BY <1>2, RepaymentAssumption
<1>4. offers[f].interest_rate \in Int
  BY DEF TypeOK, FinTypeOK, Offer
<1> DEFINE due == RemainingPrincipal(offers[f]) * offers[f].interest_rate
                    * ((now - offers[f].funded_at) \div Day)
<1>5. due \in Int
  BY <1>1, <1>3, <1>4
<1> HIDE DEF due
<1>6. due \div YearBps \in Int
  BY <1>5, RepaymentAssumption
<1> QED BY <1>1, <1>6 DEF AccruedInterest, due

LEMMA BpsType ==
  ASSUME NEW x \in Int, NEW y \in Int
  PROVE  Bps(x, y, BpsUnit) \in Int
<1>1. x * y \in Int
  OBVIOUS
<1> QED BY <1>1, RepaymentAssumption DEF Bps

(* A payment has a principal portion that is not negative.                 *)
LEMMA PortionType ==
  ASSUME TypeOK, NEW f \in OfferIds, offers[f].invoice_id \in InvoiceIds,
         NEW amount \in Int
  PROVE  PrincipalPortion(offers[f], amount) \in Nat
<1>1. AccruedInterest(offers[f]) \in Int
  BY AmountFacts
<1> HIDE DEF AccruedInterest
<1> QED BY <1>1 DEF PrincipalPortion, AtMost

(* The writes of one call on the financing state, repayment included.      *)
LEMMA OfferStepFinType ==
  ASSUME TypeInv, NEW f \in OfferIds, NEW a \in Address, OfferStep(f, a)
  PROVE  FinTypeOK' /\ OffersNameTheirParties'
<1> USE DEF TypeInv, TypeOK, FinTypeOK, ProtocolStats
<1>1. ASSUME NEW o \in Offer, offers' = [offers EXCEPT ![f] = o],
             o.status # "Absent" => o.invoice_id \in InvoiceIds /\ o.lender \in Address
      PROVE  offers' \in [OfferIds -> Offer] /\ OffersNameTheirParties'
  BY <1>1 DEF OffersNameTheirParties
<1>2. ASSUME NEW i \in InvoiceIds, NEW amount \in Principals, NEW rate \in Rates,
             NEW e \in Expiries, CreateOffer(f, i, a, amount, rate, e)
      PROVE  FinTypeOK' /\ OffersNameTheirParties'
  <2> DEFINE o == [invoice_id |-> i, lender |-> a, amount |-> amount,
                   interest_rate |-> rate, expires_at |-> e, status |-> "Pending",
                   funded_at |-> 0, amount_repaid |-> 0]
  <2>1. o \in Offer
    BY FinancingAssumption DEF Offer, OfferStatuses
  <2>2. offers' = [offers EXCEPT ![f] = o]
    BY <1>2 DEF CreateOffer
  <2>3. offers' \in [OfferIds -> Offer] /\ OffersNameTheirParties'
    BY <1>1, <2>1, <2>2
  <2>4. stats' \in ProtocolStats
    BY <1>2 DEF CreateOffer
  <2>5. lstats' \in [Address -> LenderStats]
    <3>1. [lstats[a] EXCEPT !.total_offered = @ + amount, !.offers_pending = @ + 1]
            \in LenderStats
      <4>1. amount \in Int
        BY FinancingAssumption
      <4>2. lstats[a] \in LenderStats
        OBVIOUS
      <4>3. /\ lstats[a].total_offered + amount \in Int
            /\ lstats[a].offers_pending + 1 \in Nat
        BY <4>1, <4>2 DEF LenderStats
      <4> QED BY <4>2, <4>3 DEF LenderStats
    <3>2. lstats' = [lstats EXCEPT ![a] =
            [lstats[a] EXCEPT !.total_offered = @ + amount, !.offers_pending = @ + 1]]
      BY <1>2 DEF CreateOffer, LenderStats
    <3> QED BY <3>1, <3>2
  <2> QED BY <1>2, <2>3, <2>4, <2>5 DEF CreateOffer
<1>3. CASE RefuseStep(f)
  <2> DEFINE o == [offers[f] EXCEPT !.status = "Rejected"]
  <2>1. o \in Offer /\ o.invoice_id \in InvoiceIds /\ o.lender \in Address
    BY <1>3 DEF RefuseStep, Offer, OfferStatuses, OffersNameTheirParties
  <2>2. offers' = [offers EXCEPT ![f] = o]
    BY <1>3 DEF RefuseStep
  <2> HIDE DEF o
  <2> QED BY <1>1, <1>3, <2>1, <2>2 DEF RefuseStep
<1>4. ASSUME AcceptOffer(f, a)
      PROVE  FinTypeOK' /\ OffersNameTheirParties'
  <2> DEFINE o == [offers[f] EXCEPT !.status = "Accepted", !.funded_at = now]
             l == offers[f].lender
  <2>1. l \in Address /\ offers[f].invoice_id \in InvoiceIds /\ offers[f].amount \in Int
    BY <1>4 DEF AcceptOffer, OffersNameTheirParties, Offer
  <2>2. now \in Nat
    BY RegistryAssumption DEF RegTypeOK
  <2>3. o \in Offer /\ o.invoice_id \in InvoiceIds /\ o.lender \in Address
    BY <2>1, <2>2 DEF Offer, OfferStatuses
  <2>4. offers' = [offers EXCEPT ![f] = o]
    BY <1>4 DEF AcceptOffer, SettleAcceptance
  <2> HIDE DEF o
  <2>5. offers' \in [OfferIds -> Offer] /\ OffersNameTheirParties'
    BY <1>1, <2>3, <2>4
  <2>6. lstats' \in [Address -> LenderStats]
    <3>1. [lstats[l] EXCEPT !.total_accepted = @ + offers[f].amount] \in LenderStats
      BY <2>1 DEF LenderStats
    <3>2. lstats' = [lstats EXCEPT ![l] =
                       [lstats[l] EXCEPT !.total_accepted = @ + offers[f].amount]]
      BY <1>4 DEF AcceptOffer, SettleAcceptance
    <3> QED BY <2>1, <3>1, <3>2
  <2>7. stats' \in ProtocolStats /\ pos' \in [Address -> Int]
    BY <1>4, <2>1 DEF AcceptOffer, SettleAcceptance
  <2> QED BY <2>5, <2>6, <2>7
<1>5. ASSUME NEW i \in InvoiceIds, NEW amount \in Payments, RepayInvoice(a, i, f, amount)
      PROVE  FinTypeOK' /\ OffersNameTheirParties'
  <2> DEFINE full == FullyRepaid(offers[f], amount)
             portion == PrincipalPortion(offers[f], amount)
             status == IF full THEN "Repaid" ELSE "Financed"
             repaid == offers[f].amount_repaid + portion
             o == [offers[f] EXCEPT !.status = status, !.amount_repaid = repaid]
             l == offers[f].lender
             fee == Bps(amount, GetFeeBps, BpsUnit)
  <2>1. l \in Address /\ offers[f].invoice_id = i
    BY <1>5 DEF RepayInvoice, ActiveStatuses, OffersNameTheirParties
  <2>2. amount \in Int /\ portion \in Nat
    BY <2>1, RepaymentAssumption, PortionType
  <2>3. fee \in Int
    BY <2>2, BpsType DEF GetFeeBps
  <2>4. RecordRepayment(f, status, repaid, amount, fee)
    BY <1>5 DEF RepayInvoice
  <2> HIDE DEF full, portion, fee
  <2>5. o \in Offer /\ o.invoice_id \in InvoiceIds /\ o.lender \in Address
    <3>1. repaid \in Int /\ status \in OfferStatuses
      BY <2>2 DEF Offer, OfferStatuses
    <3> HIDE DEF repaid, status
    <3> QED BY <2>1, <3>1 DEF Offer
  <2>6. offers' = [offers EXCEPT ![f] = o]
    BY <2>4 DEF RecordRepayment, Offer
  <2> HIDE DEF o
  <2>7. offers' \in [OfferIds -> Offer] /\ OffersNameTheirParties'
    BY <1>1, <2>5, <2>6
  <2>8. lstats' \in [Address -> LenderStats]
    <3>1. [lstats[l] EXCEPT !.offers_repaid = @ + 1] \in LenderStats
      BY <2>1 DEF LenderStats
    <3>2. lstats' \in {lstats, [lstats EXCEPT ![l] =
                                  [lstats[l] EXCEPT !.offers_repaid = @ + 1]]}
      BY <2>4 DEF RecordRepayment
    <3> QED BY <2>1, <3>1, <3>2
  <2>9. stats' \in ProtocolStats /\ UNCHANGED pos
    <3>1. stats.total_repaid + amount \in Int /\ stats.total_fee_revenue + fee \in Int
      BY <2>2, <2>3
    <3>2. stats' = [stats EXCEPT !.total_repaid = @ + amount, !.total_fee_revenue = @ + fee]
      BY <2>4 DEF RecordRepayment
    <3> QED BY <2>4, <3>1, <3>2 DEF RecordRepayment
  <2> QED BY <2>7, <2>8, <2>9
<1>6. ASSUME NEW i \in InvoiceIds, NEW pool \in PoolBalances, ReclaimInvoice(a, i, f, pool)
      PROVE  FinTypeOK' /\ OffersNameTheirParties'
  <2> DEFINE o == [offers[f] EXCEPT !.status = "Defaulted"]
  <2>1. o \in Offer /\ o.invoice_id \in InvoiceIds /\ o.lender \in Address
    BY <1>6 DEF ReclaimInvoice, ActiveStatuses, Offer, OfferStatuses, OffersNameTheirParties
  <2>2. offers' = [offers EXCEPT ![f] = o] /\ UNCHANGED <<lstats, stats, pos>>
    BY <1>6 DEF ReclaimInvoice, RecordDefault
  <2> HIDE DEF o
  <2> QED BY <1>1, <2>1, <2>2
<1> QED BY <1>2, <1>3, <1>4, <1>5, <1>6 DEF OfferStep

LEMMA OutcomeType ==
  ASSUME NEW r \in [repayments : Nat, defaults : Nat]
  PROVE  /\ [r EXCEPT !.repayments = @ + 1] \in [repayments : Nat, defaults : Nat]
         /\ [r EXCEPT !.defaults = @ + 1] \in [repayments : Nat, defaults : Nat]
<1>1. r.repayments + 1 \in Nat /\ r.defaults + 1 \in Nat
  OBVIOUS
<1> QED BY <1>1

(* The writes of one call on the state of repayment, of the pool and of    *)
(* reputation.                                                             *)
LEMMA OfferStepRepType ==
  ASSUME TypeInv, NEW f \in OfferIds, NEW a \in Address, OfferStep(f, a)
  PROVE  RepTypeOK'
<1> USE DEF TypeInv, TypeOK, RepTypeOK
<1>1. CASE UNCHANGED repVars
  BY <1>1 DEF repVars
<1>2. ASSUME NEW i \in InvoiceIds, NEW amount \in Payments, RepayInvoice(a, i, f, amount)
      PROVE  RepTypeOK'
  <2> DEFINE portion == PrincipalPortion(offers[f], amount)
             record == [count |-> pays[i].count + 1,
                        principal |-> IF pays[i].count < MaxPayments
                                      THEN pays[i].principal + portion
                                      ELSE pays[i].principal]
  <2>1. amount \in Int /\ portion \in Nat
    BY <1>2, RepaymentAssumption, PortionType DEF RepayInvoice
  <2>2. pays' = [pays EXCEPT ![i] = record]
    BY <1>2 DEF RepayInvoice
  <2> HIDE DEF portion
  <2>3. record \in [count : Nat, principal : Int]
    BY <2>1
  <2> HIDE DEF record
  <2>4. pays' \in [InvoiceIds -> [count : Nat, principal : Int]]
    BY <2>2, <2>3
  <2>5. rep' \in [Address -> [repayments : Nat, defaults : Nat]]
    <3>1. rep' \in {rep, [rep EXCEPT ![a] = [rep[a] EXCEPT !.repayments = @ + 1]]}
      BY <1>2 DEF RepayInvoice, RecordSuccess, RecordOutcome
    <3>2. [rep[a] EXCEPT !.repayments = @ + 1] \in [repayments : Nat, defaults : Nat]
      BY OutcomeType
    <3> QED BY <3>1, <3>2
  <2> QED BY <1>2, <2>4, <2>5 DEF RepayInvoice
<1>3. ASSUME NEW i \in InvoiceIds, NEW pool \in PoolBalances, ReclaimInvoice(a, i, f, pool)
      PROVE  RepTypeOK'
  <2> DEFINE asked == AtLeast(FlatDue(offers[f]) - offers[f].amount_repaid, 0)
             holder == invoices[i].originator
  <2>1. asked \in Int
    <3>1. /\ offers[f].amount \in Int
          /\ offers[f].interest_rate \in Int
          /\ offers[f].amount_repaid \in Int
      BY DEF FinTypeOK, Offer
    <3>2. FlatDue(offers[f]) \in Int
      BY <3>1, BpsType DEF FlatDue
    <3> HIDE DEF FlatDue
    <3> QED BY <3>1, <3>2 DEF AtLeast
  <2>2. PayOut(f, asked, pool) /\ RecordOutcome(holder, "defaults")
    BY <1>3 DEF ReclaimInvoice
  <2>3. pool \in Int
    BY RepaymentAssumption
  <2> HIDE DEF asked, holder
  <2>4. <<asked, AtMost(asked, pool)>> \in Int \X Int
    BY <2>1, <2>3 DEF AtMost
  <2>5. payouts' \in {payouts, [payouts EXCEPT ![f] =
                                  Append(payouts[f], <<asked, AtMost(asked, pool)>>)]}
    BY <2>2 DEF PayOut
  <2>6. Append(payouts[f], <<asked, AtMost(asked, pool)>>) \in Seq(Int \X Int)
    BY <2>4
  <2>7. payouts' \in [OfferIds -> Seq(Int \X Int)]
    BY <2>5, <2>6
  <2>8. rep' \in [Address -> [repayments : Nat, defaults : Nat]]
    <3>1. rep' \in {rep, [rep EXCEPT ![holder] = [rep[holder] EXCEPT !.defaults = @ + 1]]}
      BY <2>2 DEF RecordOutcome
    <3>2. ASSUME holder \in Address
          PROVE  [rep[holder] EXCEPT !.defaults = @ + 1] \in [repayments : Nat, defaults : Nat]
      BY <3>2, OutcomeType
    <3> QED BY <3>1, <3>2
  <2> QED BY <1>3, <2>7, <2>8 DEF ReclaimInvoice
<1> QED BY <1>1, <1>2, <1>3 DEF OfferStep, RefuseStep, repVars

LEMMA TypeInvStep ==
  ASSUME TypeInv, [Next]_vars
  PROVE  TypeInv'
<1>1. CASE UNCHANGED vars
  BY <1>1 DEF vars, regVars, finVars, repVars, TypeInv, TypeOK, RegTypeOK, FinTypeOK,
              RepTypeOK, OffersNameTheirParties
<1>2. CASE Next
  <2>1. RegTypeOK'
    BY <1>2, TypeStep, RegistryInsideStep DEF TypeInv, TypeOK
  <2>2. CASE RegUserNext /\ UNCHANGED <<finVars, repVars>>
    BY <2>1, <2>2 DEF finVars, repVars, TypeInv, TypeOK, FinTypeOK, RepTypeOK,
                      OffersNameTheirParties
  <2>3. CASE PenaltyNext
    <3>1. PICK c \in PenaltyConfigs : SetPenalty(c[1], c[2])
      BY <2>3 DEF PenaltyNext
    <3>2. c[1] \in Nat /\ c[2] \in Nat
      BY RepaymentAssumption
    <3>3. penalty' \in (0 .. MaxPenaltyBps) \X (0 .. BpsUnit)
      BY <3>1, <3>2, RepaymentAssumption DEF SetPenalty
    <3> QED BY <2>1, <3>1, <3>3 DEF SetPenalty, finVars, TypeInv, TypeOK, FinTypeOK,
                                    RepTypeOK, OffersNameTheirParties
  <2>4. CASE \E f \in OfferIds, a \in Address : OfferStep(f, a)
    BY <2>1, <2>4, OfferStepFinType, OfferStepRepType DEF TypeInv, TypeOK
  <2> QED BY <1>2, <2>2, <2>3, <2>4, ProtocolStepKinds
<1> QED BY <1>1, <1>2

LEMMA ProtocolTypeInv == Spec => []TypeInv
<1>1. Init => TypeInv
  <2>1. RegInit => RegTypeOK
    BY RegistryAssumption DEF RegInit, RegTypeOK, AbsentInvoice, Invoice
  <2>2. FinInit => FinTypeOK /\ OffersNameTheirParties
    BY DEF FinInit, FinTypeOK, AbsentOffer, Offer, OfferStatuses, LenderStats,
           ProtocolStats, OffersNameTheirParties
  <2>3. RepInit => RepTypeOK
    BY RepaymentAssumption DEF RepInit, RepTypeOK
  <2> QED BY <2>1, <2>2, <2>3 DEF Init, TypeInv, TypeOK
<1>2. TypeInv /\ [Next]_vars => TypeInv'
  BY TypeInvStep
<1> QED BY <1>1, <1>2, PTL DEF Spec

(***************************************************************************)
(* Registry, financing and repayment together keep their types: every      *)
(* counter that the code counts up stays a natural number.                 *)
(***************************************************************************)
THEOREM ProtocolTypes == Spec => []TypeOK
<1>1. TypeInv => TypeOK
  BY DEF TypeInv
<1> QED BY <1>1, ProtocolTypeInv, PTL

(***************************************************************************)
(* The registry inside the protocol is the registry alone: no call on      *)
(* another contract writes an invoice, a token or a history except by a    *)
(* system transition.                                                      *)
(***************************************************************************)
THEOREM ProtocolImplementsRegistry == Spec => ImplementsRegistry
<1>1. Init => RegInit
  BY DEF Init
<1>2. TypeInv /\ [Next]_vars => [RegNext]_regVars
  BY RegistryInsideStep DEF TypeInv, vars, regVars
<1> QED BY <1>1, <1>2, ProtocolTypeInv, PTL DEF Spec, ImplementsRegistry, RegSpec

(***************************************************************************)
(* So whoever holds an invoice token in the running protocol holds a claim *)
(* in the sense of InvoiceClaim: financing, repayment and reclaim revive,  *)
(* duplicate or orphan none.                                               *)
(***************************************************************************)
COROLLARY ProtocolKeepsClaims == Spec => ImplementsClaim /\ []ClaimIntegrity
BY ProtocolImplementsRegistry, RegistryImplementsClaim, RegistryClaimIntegrity, PTL
   DEF ImplementsRegistry

-----------------------------------------------------------------------------
(* The pause switches *)

(***************************************************************************)
(* A paused contract keeps its state in every step, whichever contract the *)
(* call came in by.                                                        *)
(***************************************************************************)
THEOREM ProtocolPauseFreezes == Spec => PauseFreezesProtocol
<1> DEFINE Frozen ==
      /\ NotPaused("financing") \/ UNCHANGED finVars
      /\ NotPaused("repayment") \/ UNCHANGED <<pays, penalty>>
      /\ NotPaused("insurance") \/ UNCHANGED payouts
      /\ NotPaused("reputation") \/ UNCHANGED rep
      /\ NotPaused("registry") \/ UNCHANGED <<invoices, pays, rep, payouts, pos>>
<1>1. ASSUME TypeInv, Next PROVE Frozen
  <2>1. RegNext \/ UNCHANGED regVars
    BY <1>1, RegistryInsideStep DEF TypeInv
  <2>2. NotPaused("registry") \/ UNCHANGED invoices
    <3>1. CASE UNCHANGED regVars
      BY <3>1 DEF regVars
    <3>2. CASE RegNext
      BY <1>1, <3>2, StepKinds
         DEF TypeInv, TypeOK, QuietStep, RegisterStep, BatchRegisterInvoices, InvoiceStep,
             StatusStep, AmountStep, TradeStep, ExecuteTokenTransfer, ApproveStep
    <3> QED BY <2>1, <3>1, <3>2
  <2>3. CASE RegUserNext /\ UNCHANGED <<finVars, repVars>>
    BY <2>2, <2>3 DEF finVars, repVars
  <2>4. CASE PenaltyNext
    BY <2>2, <2>4 DEF PenaltyNext, SetPenalty, finVars, NotPaused
  <2>5. ASSUME NEW f \in OfferIds, NEW a \in Address, OfferStep(f, a)
        PROVE  Frozen
    <3>1. ASSUME NEW i \in InvoiceIds, NEW amount \in Principals, NEW rate \in Rates,
                 NEW e \in Expiries, CreateOffer(f, i, a, amount, rate, e), UNCHANGED repVars
          PROVE  Frozen
      BY <3>1, <2>2 DEF CreateOffer, repVars
    <3>2. CASE RefuseStep(f)
      BY <3>2, <2>2 DEF RefuseStep, repVars
    <3>3. CASE AcceptOffer(f, a) /\ UNCHANGED repVars
      BY <3>3 DEF AcceptOffer, SettleAcceptance, FinancingMarksInvoiceFinanced, repVars
    <3>4. ASSUME NEW i \in InvoiceIds, NEW amount \in Payments, RepayInvoice(a, i, f, amount)
          PROVE  Frozen
      BY <3>4 DEF RepayInvoice, RecordRepayment, RepaymentMarksInvoiceRepaid,
                  RecordSuccess, RecordOutcome
    <3>5. ASSUME NEW i \in InvoiceIds, NEW pool \in PoolBalances,
                 ReclaimInvoice(a, i, f, pool)
          PROVE  Frozen
      BY <3>5 DEF ReclaimInvoice, RecordDefault, RepaymentMarksDefaulted, PayOut,
                  RecordOutcome
    <3> QED BY <2>5, <3>1, <3>2, <3>3, <3>4, <3>5 DEF OfferStep
  <2> QED BY <1>1, <2>3, <2>4, <2>5, ProtocolStepKinds
<1>2. TypeInv /\ [Next]_vars => [Frozen]_vars
  BY <1>1
<1> QED BY <1>2, ProtocolTypeInv, PTL DEF Spec, PauseFreezesProtocol

-----------------------------------------------------------------------------
(* What an offer goes through *)

(* What a call about an offer f writes: the offer itself, the payments on  *)
(* its invoice and what the pool pays on it.                               *)
Created(f) ==
  /\ offers[f].status = "Absent"
  /\ \E i \in InvoiceIds, l \in Address, amount \in Int, rate \in Nat, e \in Nat :
       /\ amount > 0
       /\ offers' = [offers EXCEPT ![f] =
            [invoice_id |-> i, lender |-> l, amount |-> amount, interest_rate |-> rate,
             expires_at |-> e, status |-> "Pending", funded_at |-> 0, amount_repaid |-> 0]]
  /\ UNCHANGED <<pays, payouts>>

Answered(f) ==
  /\ offers[f].status = "Pending"
  /\ \/ offers' = [offers EXCEPT ![f] = [offers[f] EXCEPT !.status = "Rejected"]]
     \/ offers' = [offers EXCEPT ![f] =
                     [offers[f] EXCEPT !.status = "Accepted", !.funded_at = now]]
  /\ UNCHANGED <<pays, payouts>>

Paid(f) ==
  LET i == offers[f].invoice_id
  IN /\ offers[f].status \in ActiveStatuses
     /\ \E portion \in Nat, status \in {"Repaid", "Financed"} :
          /\ offers' = [offers EXCEPT ![f] =
               [offers[f] EXCEPT !.status = status, !.amount_repaid = @ + portion]]
          /\ pays' = [pays EXCEPT ![i] =
               [count |-> @.count + 1,
                principal |-> IF @.count < MaxPayments
                              THEN @.principal + portion ELSE @.principal]]
          /\ status = "Financed" => pays[i].principal + portion < offers[f].amount
     /\ UNCHANGED payouts

Reclaimed(f) ==
  /\ offers[f].status \in ActiveStatuses
  /\ offers' = [offers EXCEPT ![f] = [offers[f] EXCEPT !.status = "Defaulted"]]
  /\ \E pool \in Nat : PayOut(f, AtLeast(FlatDue(offers[f]) - offers[f].amount_repaid, 0), pool)
  /\ UNCHANGED pays

LEMMA OfferWrites ==
  ASSUME TypeInv, NEW f \in OfferIds, NEW a \in Address, OfferStep(f, a)
  PROVE  Created(f) \/ Answered(f) \/ Paid(f) \/ Reclaimed(f)
<1> USE DEF TypeInv, TypeOK, FinTypeOK
<1>1. ASSUME NEW i \in InvoiceIds, NEW amount \in Principals, NEW rate \in Rates,
             NEW e \in Expiries, CreateOffer(f, i, a, amount, rate, e), UNCHANGED repVars
      PROVE  Created(f)
  <2>1. amount \in Int /\ rate \in Nat /\ e \in Nat
    BY FinancingAssumption
  <2> QED BY <1>1, <2>1 DEF CreateOffer, Created, repVars
<1>2. CASE RefuseStep(f)
  BY <1>2 DEF RefuseStep, Answered, repVars
<1>3. CASE AcceptOffer(f, a) /\ UNCHANGED repVars
  <2>1. offers' = [offers EXCEPT ![f] =
                     [offers[f] EXCEPT !.status = "Accepted", !.funded_at = now]]
    BY <1>3 DEF AcceptOffer, SettleAcceptance, Offer
  <2> QED BY <1>3, <2>1 DEF AcceptOffer, Answered, repVars
<1>4. ASSUME NEW i \in InvoiceIds, NEW amount \in Payments, RepayInvoice(a, i, f, amount)
      PROVE  Paid(f)
  <2> DEFINE portion == PrincipalPortion(offers[f], amount)
             full == FullyRepaid(offers[f], amount)
             status == IF full THEN "Repaid" ELSE "Financed"
  <2>1. /\ offers[f].invoice_id = i
        /\ offers[f].status \in ActiveStatuses
        /\ RemainingPrincipal(offers[f]) > 0
        /\ UNCHANGED payouts
    BY <1>4 DEF RepayInvoice
  <2>2. portion \in Nat
    BY <2>1, RepaymentAssumption, PortionType
  <2>3. ~full => pays[i].principal + portion < offers[f].amount
    <3>1. ~full => RemainingPrincipal(offers[f]) - portion > 0
      BY <2>2, <2>1, AmountFacts DEF FullyRepaid
    <3>2. RemainingPrincipal(offers[f]) = offers[f].amount - pays[i].principal
      BY <2>1 DEF RemainingPrincipal, AtLeast, Offer, RepTypeOK
    <3>3. offers[f].amount \in Int /\ pays[i].principal \in Int
      BY DEF Offer, RepTypeOK
    <3> HIDE DEF portion, full
    <3> QED BY <2>2, <3>1, <3>2, <3>3
  <2>4. offers' = [offers EXCEPT ![f] =
          [offers[f] EXCEPT !.status = status, !.amount_repaid = @ + portion]]
    BY <1>4 DEF RepayInvoice, RecordRepayment, Offer
  <2>5. pays' = [pays EXCEPT ![i] =
          [count |-> @.count + 1,
           principal |-> IF @.count < MaxPayments
                         THEN @.principal + portion ELSE @.principal]]
    BY <1>4 DEF RepayInvoice
  <2>6. status \in {"Repaid", "Financed"} /\ (status = "Financed" => ~full)
    OBVIOUS
  <2> HIDE DEF portion, full, status
  <2> QED BY <2>1, <2>2, <2>3, <2>4, <2>5, <2>6 DEF Paid
<1>5. ASSUME NEW i \in InvoiceIds, NEW pool \in PoolBalances, ReclaimInvoice(a, i, f, pool)
      PROVE  Reclaimed(f)
  <2>1. pool \in Nat
    BY RepaymentAssumption
  <2> QED BY <1>5, <2>1 DEF ReclaimInvoice, RecordDefault, Reclaimed
<1> QED BY <1>1, <1>2, <1>3, <1>4, <1>5 DEF OfferStep

(* A step that is not about an offer leaves offers, payments and payouts   *)
(* as they are.                                                            *)
LEMMA OfferStepOrNone ==
  ASSUME TypeInv, [Next]_vars
  PROVE  \/ UNCHANGED <<offers, pays, payouts>>
         \/ \E f \in OfferIds : Created(f) \/ Answered(f) \/ Paid(f) \/ Reclaimed(f)
<1>1. CASE UNCHANGED vars
  BY <1>1 DEF vars, finVars, repVars
<1>2. CASE RegUserNext /\ UNCHANGED <<finVars, repVars>>
  BY <1>2 DEF finVars, repVars
<1>3. CASE PenaltyNext
  BY <1>3 DEF PenaltyNext, SetPenalty, finVars
<1>4. CASE \E f \in OfferIds, a \in Address : OfferStep(f, a)
  BY <1>4, OfferWrites
<1> QED BY <1>1, <1>2, <1>3, <1>4, ProtocolStepKinds

(***************************************************************************)
(* The inductive strengthening of ActiveOfferStillOwes.  It ranges over    *)
(* every offer, not the active ones alone, because the payments of an      *)
(* invoice are stored by invoice and a pending offer inherits them when it *)
(* is accepted.                                                            *)
(***************************************************************************)
OfferAccount(f) ==
  LET o == offers[f]
      i == offers[f].invoice_id
  IN /\ o.status = "Absent" => o = AbsentOffer
     /\ o.status # "Absent" => o.amount > 0
     /\ o.status \in {"Pending", "Rejected"} => o.amount_repaid = 0
     /\ o.amount_repaid >= 0
     /\ o.status # "Absent" /\ pays[i].count <= MaxPayments =>
          /\ o.amount_repaid <= pays[i].principal
          /\ o.status \in ActiveStatuses => o.amount_repaid < o.amount

LoanInv ==
  /\ \A i \in InvoiceIds : pays[i].principal >= 0
  /\ \A f \in OfferIds : OfferAccount(f)

LEMMA LoanInvStep ==
  ASSUME TypeInv, LoanInv, [Next]_vars
  PROVE  LoanInv'
<1> USE DEF TypeInv, TypeOK, FinTypeOK
<1>0. /\ \A g \in OfferIds : offers[g] \in Offer
      /\ \A i \in InvoiceIds : pays[i].count \in Nat /\ pays[i].principal \in Int
      /\ MaxPayments \in Nat
  BY RepaymentAssumption DEF RepTypeOK
<1>1. CASE UNCHANGED <<offers, pays, payouts>>
  BY <1>1 DEF LoanInv, OfferAccount
<1>2. ASSUME NEW f \in OfferIds, Created(f) PROVE LoanInv'
  <2>1. PICK i \in InvoiceIds, l \in Address, amount \in Int, rate \in Nat, e \in Nat :
          /\ amount > 0
          /\ offers' = [offers EXCEPT ![f] =
               [invoice_id |-> i, lender |-> l, amount |-> amount, interest_rate |-> rate,
                expires_at |-> e, status |-> "Pending", funded_at |-> 0,
                amount_repaid |-> 0]]
    BY <1>2 DEF Created
  <2>2. OfferAccount(f)'
    BY <1>2, <2>1 DEF Created, OfferAccount, LoanInv, ActiveStatuses
  <2>3. ASSUME NEW g \in OfferIds, g # f PROVE OfferAccount(g)'
    BY <1>2, <2>1, <2>3 DEF Created, OfferAccount, LoanInv
  <2> QED BY <1>2, <2>2, <2>3 DEF Created, LoanInv
<1>3. ASSUME NEW f \in OfferIds, Answered(f) PROVE LoanInv'
  <2>1. \A g \in OfferIds : g # f => offers'[g] = offers[g]
    BY <1>3 DEF Answered
  <2>2. /\ offers'[f].status \in {"Accepted", "Rejected"}
        /\ offers'[f].invoice_id = offers[f].invoice_id
        /\ offers'[f].amount = offers[f].amount
        /\ offers'[f].amount_repaid = offers[f].amount_repaid
    <3>1. offers[f] \in Offer /\ offers \in [OfferIds -> Offer]
      OBVIOUS
    <3>2. \/ offers'[f] = [offers[f] EXCEPT !.status = "Rejected"]
          \/ offers'[f] = [offers[f] EXCEPT !.status = "Accepted", !.funded_at = now]
      BY <1>3, <3>1 DEF Answered
    <3> QED BY <3>1, <3>2 DEF Offer
  <2>3. OfferAccount(f)'
    BY <1>0, <1>3, <2>2 DEF Answered, OfferAccount, LoanInv
  <2>4. ASSUME NEW g \in OfferIds, g # f PROVE OfferAccount(g)'
    BY <1>3, <2>1, <2>4 DEF Answered, OfferAccount, LoanInv
  <2> QED BY <1>3, <2>3, <2>4 DEF Answered, LoanInv
<1>4. ASSUME NEW f \in OfferIds, Paid(f) PROVE LoanInv'
  <2> DEFINE i == offers[f].invoice_id
  <2>1. i \in InvoiceIds /\ offers[f].status # "Absent"
    BY <1>4 DEF Paid, ActiveStatuses, OffersNameTheirParties
  <2>2. PICK portion \in Nat, status \in {"Repaid", "Financed"} :
          /\ offers' = [offers EXCEPT ![f] =
               [offers[f] EXCEPT !.status = status, !.amount_repaid = @ + portion]]
          /\ pays' = [pays EXCEPT ![i] =
               [count |-> @.count + 1,
                principal |-> IF @.count < MaxPayments
                              THEN @.principal + portion ELSE @.principal]]
          /\ status = "Financed" => pays[i].principal + portion < offers[f].amount
    BY <1>4 DEF Paid
  <2>3. /\ pays'[i].count = pays[i].count + 1
        /\ pays'[i].principal = IF pays[i].count < MaxPayments
                                THEN pays[i].principal + portion ELSE pays[i].principal
    BY <2>1, <2>2 DEF RepTypeOK
  <2>4. \A j \in InvoiceIds : j # i => pays'[j] = pays[j]
    BY <2>2 DEF RepTypeOK
  <2>5. /\ offers'[f].status = status
        /\ offers'[f].invoice_id = i
        /\ offers'[f].amount = offers[f].amount
        /\ offers'[f].amount_repaid = offers[f].amount_repaid + portion
    BY <1>0, <2>2 DEF Offer
  <2>6. \A g \in OfferIds : g # f => offers'[g] = offers[g]
    BY <2>2
  <2> HIDE DEF i
  <2>7. \A j \in InvoiceIds : pays'[j].principal >= 0
    BY <1>0, <2>1, <2>3, <2>4 DEF LoanInv
  <2>8. OfferAccount(f)'
    <3>1. /\ offers[f].amount \in Int /\ offers[f].amount_repaid \in Int
          /\ pays[i].count \in Nat /\ pays[i].principal \in Int
      BY <1>0, <2>1 DEF Offer
    <3>2. /\ offers[f].amount > 0
          /\ offers[f].amount_repaid >= 0
          /\ pays[i].count <= MaxPayments => offers[f].amount_repaid <= pays[i].principal
      BY <2>1 DEF LoanInv, OfferAccount, i
    <3>3. status = "Financed" => pays[i].principal + portion < offers[f].amount
      BY <2>2
    <3>4. offers'[f].amount_repaid >= 0
      BY <2>5, <3>1, <3>2
    <3>5. ASSUME pays'[i].count <= MaxPayments
          PROVE  /\ offers'[f].amount_repaid <= pays'[i].principal
                 /\ status = "Financed" => offers'[f].amount_repaid < offers'[f].amount
      BY <1>0, <2>3, <2>5, <3>1, <3>2, <3>3, <3>5
    <3>6. status \notin {"Absent", "Pending", "Rejected", "Accepted"}
      OBVIOUS
    <3> QED
      BY <2>5, <3>2, <3>4, <3>5, <3>6 DEF OfferAccount, ActiveStatuses
  <2>9. ASSUME NEW g \in OfferIds, g # f PROVE OfferAccount(g)'
    <3>1. CASE offers[g].status = "Absent"
      BY <2>6, <2>9, <3>1 DEF OfferAccount, LoanInv, ActiveStatuses
    <3>2. CASE offers[g].status # "Absent"
      <4> DEFINE j == offers[g].invoice_id
      <4>1. j \in InvoiceIds
        BY <3>2 DEF OffersNameTheirParties
      <4>2. /\ offers[g].amount \in Int /\ offers[g].amount_repaid \in Int
            /\ pays[j].count \in Nat /\ pays[j].principal \in Int
        BY <1>0, <4>1 DEF Offer
      <4>3. pays'[j].count <= MaxPayments =>
              pays[j].count <= MaxPayments /\ pays[j].principal <= pays'[j].principal
        BY <1>0, <2>1, <2>3, <2>4, <4>1, <4>2
      <4>4. offers'[g] = offers[g] /\ pays'[j].principal \in Int
        BY <1>0, <2>1, <2>3, <2>4, <2>6, <2>9, <4>1, <4>2
      <4> QED BY <3>2, <4>2, <4>3, <4>4 DEF OfferAccount, LoanInv
    <3> QED BY <3>1, <3>2
  <2> QED BY <2>7, <2>8, <2>9 DEF LoanInv
<1>5. ASSUME NEW f \in OfferIds, Reclaimed(f) PROVE LoanInv'
  <2>1. \A g \in OfferIds : g # f => offers'[g] = offers[g]
    BY <1>5 DEF Reclaimed
  <2>2. /\ offers'[f].status = "Defaulted"
        /\ offers'[f].invoice_id = offers[f].invoice_id
        /\ offers'[f].amount = offers[f].amount
        /\ offers'[f].amount_repaid = offers[f].amount_repaid
    BY <1>0, <1>5 DEF Reclaimed, Offer
  <2>3. OfferAccount(f)'
    BY <1>5, <2>2 DEF Reclaimed, OfferAccount, LoanInv, ActiveStatuses
  <2>4. ASSUME NEW g \in OfferIds, g # f PROVE OfferAccount(g)'
    BY <1>5, <2>1, <2>4 DEF Reclaimed, OfferAccount, LoanInv
  <2> QED BY <1>5, <2>3, <2>4 DEF Reclaimed, LoanInv
<1> QED BY <1>1, <1>2, <1>3, <1>4, <1>5, OfferStepOrNone

LEMMA ProtocolLoanInv == Spec => []LoanInv
<1>1. Init => LoanInv
  BY DEF Init, FinInit, RepInit, LoanInv, OfferAccount, AbsentOffer, ActiveStatuses
<1>2. TypeInv /\ LoanInv /\ [Next]_vars => LoanInv'
  BY LoanInvStep
<1> QED BY <1>1, <1>2, ProtocolTypeInv, PTL DEF Spec

(***************************************************************************)
(* An active offer has principal left to repay, whatever payments went to  *)
(* its invoice and however it came by them, so a reclaim of it asks the    *)
(* pool for more than nothing.                                             *)
(***************************************************************************)
THEOREM ProtocolActiveOfferStillOwes == Spec => []ActiveOfferStillOwes
<1>1. LoanInv => ActiveOfferStillOwes
  BY DEF LoanInv, OfferAccount, ActiveOfferStillOwes, Active, ActiveStatuses
<1> QED BY <1>1, ProtocolLoanInv, PTL

-----------------------------------------------------------------------------
(* The pool pays once *)

(* The inductive form of OnePayoutPerDefault: nothing is paid before the   *)
(* default, and nothing touches the offer after it.                        *)
PayoutAccount(f) ==
  /\ payouts[f] # << >> => offers[f].status = "Defaulted" /\ "insurance" \in Wired
  /\ offers[f].status = "Defaulted" /\ "insurance" \in Wired =>
       /\ Len(payouts[f]) = 1
       /\ offers[f].amount_repaid + payouts[f][1][2] <= FlatDue(offers[f])

PayoutInv == \A f \in OfferIds : PayoutAccount(f)

LEMMA PayoutInvStep ==
  ASSUME TypeInv, LoanInv, PayoutInv, [Next]_vars
  PROVE  PayoutInv'
<1> USE DEF TypeInv, TypeOK, FinTypeOK, RepTypeOK
<1>1. SUFFICES ASSUME NEW g \in OfferIds PROVE PayoutAccount(g)'
  BY DEF PayoutInv
<1>2. PayoutAccount(g)
  BY DEF PayoutInv
<1>3. CASE offers'[g] = offers[g] /\ payouts'[g] = payouts[g]
  BY <1>2, <1>3 DEF PayoutAccount, FlatDue
<1>4. CASE UNCHANGED <<offers, pays, payouts>>
  BY <1>3, <1>4
<1>5. ASSUME NEW f \in OfferIds, Created(f) \/ Answered(f) \/ Paid(f)
      PROVE  PayoutAccount(g)'
  <2>1. UNCHANGED payouts
    BY <1>5 DEF Created, Answered, Paid
  <2>2. CASE g # f
    <3>1. offers'[g] = offers[g]
      BY <1>5, <2>2 DEF Created, Answered, Paid
    <3> QED BY <1>3, <2>1, <3>1
  <2>3. CASE g = f
    <3>1. offers[f].status # "Defaulted"
      BY <1>5 DEF Created, Answered, Paid, ActiveStatuses
    <3>2. offers'[f].status # "Defaulted"
      <4>1. CASE Created(f)
        BY <4>1 DEF Created
      <4>2. CASE Answered(f)
        BY <4>2 DEF Answered, Offer
      <4>3. CASE Paid(f)
        BY <4>3 DEF Paid, Offer
      <4> QED BY <1>5, <4>1, <4>2, <4>3
    <3> QED BY <1>2, <2>1, <2>3, <3>1, <3>2 DEF PayoutAccount
  <2> QED BY <2>2, <2>3
<1>6. ASSUME NEW f \in OfferIds, Reclaimed(f)
      PROVE  PayoutAccount(g)'
  <2> DEFINE asked == AtLeast(FlatDue(offers[f]) - offers[f].amount_repaid, 0)
  <2>1. PICK pool \in Nat : PayOut(f, asked, pool)
    BY <1>6 DEF Reclaimed
  <2>2. CASE g # f
    <3>1. offers'[g] = offers[g]
      BY <1>6, <2>2 DEF Reclaimed
    <3>2. payouts'[g] = payouts[g]
      BY <2>1, <2>2 DEF PayOut
    <3> QED BY <1>3, <3>1, <3>2
  <2>3. CASE g = f
    <3>1. offers[f].status # "Defaulted" /\ payouts[f] = << >>
      BY <1>2, <1>6, <2>3 DEF Reclaimed, ActiveStatuses, PayoutAccount
    <3>2. /\ offers'[f].status = "Defaulted"
          /\ offers'[f].amount_repaid = offers[f].amount_repaid
          /\ FlatDue(offers'[f]) = FlatDue(offers[f])
      BY <1>6 DEF Reclaimed, Offer, FlatDue
    <3>3. CASE "insurance" \notin Wired
      BY <2>1, <2>3, <3>1, <3>3 DEF PayOut, PayoutAccount
    <3>4. CASE "insurance" \in Wired
      <4>1. /\ asked > 0
            /\ payouts' = [payouts EXCEPT ![f] =
                             Append(payouts[f], <<asked, AtMost(asked, pool)>>)]
        BY <2>1, <3>4 DEF PayOut
      <4>2. FlatDue(offers[f]) \in Int /\ offers[f].amount_repaid \in Int
        <5>1. /\ offers[f].amount \in Int
              /\ offers[f].interest_rate \in Int
              /\ offers[f].amount_repaid \in Int
          BY DEF Offer
        <5>2. Bps(offers[f].amount, offers[f].interest_rate, BpsUnit) \in Int
          BY <5>1, BpsType
        <5> QED BY <5>1, <5>2 DEF FlatDue
      <4> HIDE DEF FlatDue
      <4>3. /\ asked \in Int
            /\ asked = FlatDue(offers[f]) - offers[f].amount_repaid
        BY <4>1, <4>2 DEF AtLeast
      <4> HIDE DEF asked
      <4>4. AtMost(asked, pool) \in Int /\ AtMost(asked, pool) <= asked
        BY <4>3 DEF AtMost
      <4>5. Len(payouts'[f]) = 1 /\ payouts'[f][1] = <<asked, AtMost(asked, pool)>>
        BY <3>1, <4>1
      <4>6. offers[f].amount_repaid + payouts'[f][1][2] <= FlatDue(offers[f])
        BY <4>2, <4>3, <4>4, <4>5
      <4> QED BY <2>3, <3>2, <3>4, <4>5, <4>6 DEF PayoutAccount
    <3> QED BY <3>3, <3>4
  <2> QED BY <2>2, <2>3
<1> QED BY <1>4, <1>5, <1>6, OfferStepOrNone

LEMMA ProtocolPayoutInv == Spec => []PayoutInv
<1>1. Init => PayoutInv
  BY DEF Init, FinInit, RepInit, PayoutInv, PayoutAccount, AbsentOffer
<1>2. TypeInv /\ LoanInv /\ PayoutInv /\ [Next]_vars => PayoutInv'
  BY PayoutInvStep
<1> QED
  BY <1>1, <1>2, ProtocolTypeInv, ProtocolLoanInv, PTL DEF Spec

(***************************************************************************)
(* The pool pays on an offer exactly once, when it defaults, and never so  *)
(* much that the lender ends up with more than principal and flat yield.   *)
(***************************************************************************)
THEOREM ProtocolOnePayoutPerDefault == Spec => []OnePayoutPerDefault
<1>1. TypeInv /\ PayoutInv => OnePayoutPerDefault
  <2> SUFFICES ASSUME TypeInv, NEW f \in OfferIds, PayoutAccount(f)
               PROVE  /\ Len(payouts[f]) = (IF /\ offers[f].status = "Defaulted"
                                                /\ "insurance" \in Wired
                                             THEN 1 ELSE 0)
                      /\ \A k \in 1 .. Len(payouts[f]) :
                           offers[f].amount_repaid + payouts[f][k][2] <= FlatDue(offers[f])
    BY DEF PayoutInv, OnePayoutPerDefault
  <2>1. payouts[f] \in Seq(Int \X Int)
    BY DEF TypeInv, TypeOK, RepTypeOK
  <2>2. CASE offers[f].status = "Defaulted" /\ "insurance" \in Wired
    <3>1. /\ Len(payouts[f]) = 1
          /\ offers[f].amount_repaid + payouts[f][1][2] <= FlatDue(offers[f])
      BY <2>2 DEF PayoutAccount
    <3> QED BY <2>2, <3>1
  <2>3. CASE ~(offers[f].status = "Defaulted" /\ "insurance" \in Wired)
    <3>1. payouts[f] = << >>
      BY <2>3 DEF PayoutAccount
    <3> QED BY <2>3, <3>1
  <2> QED BY <2>2, <2>3
<1> QED
  BY <1>1, ProtocolTypeInv, ProtocolPayoutInv, PTL

-----------------------------------------------------------------------------
(***************************************************************************)
(* The books: the counters of financing and the payment history of         *)
(* repayment are running totals over the offers, the counters of the       *)
(* reputation contract are running totals over the invoices, and invoice   *)
(* and offers tell the same story while nobody moves the invoice by hand.  *)
(*                                                                         *)
(* A call changes one offer and one invoice.  A sum or a count over all of *)
(* them then changes by what that one contributes after the call less what *)
(* it contributed before (SumStep, CardinalityStep of FiniteSums), and the *)
(* proofs compare this difference with what the call writes to the books.  *)
(* Only finitely many offers are ever made, however many identifiers there *)
(* are, so the sums exist without an assumption on the constants.          *)
(***************************************************************************)

(* The sets the books sum over *)

Made == {f \in OfferIds : offers[f].status # "Absent"}

FundedOffers == {f \in OfferIds : Funded(f)}

MadeBy(a) == {f \in Made : offers[f].lender = a}

FundedBy(a) == {f \in FundedOffers : offers[f].lender = a}

RepaidBy(a) == {f \in MadeBy(a) : offers[f].status = "Repaid"}

LenderBooks(a) ==
  /\ lstats[a].total_offered = AmountOver(MadeBy(a))
  /\ lstats[a].total_accepted = AmountOver(FundedBy(a))
  /\ pos[a] = AmountOver(FundedBy(a))
  /\ lstats[a].offers_repaid = Cardinality(RepaidBy(a))

Books ==
  /\ stats.total_offers = Cardinality(Made)
  /\ stats.total_financed = AmountOver(FundedOffers)
  /\ \A a \in Address : LenderBooks(a)

LEMMA BooksAreBooks == BooksMatchOffers <=> Books
<1>1. \A a : Counts(MadeBy(a))["Repaid"] = Cardinality(RepaidBy(a))
  BY DEF Counts, RepaidBy, OfferStatuses
<1>2. BooksMatchOffers <=>
        /\ stats.total_offers = Cardinality(Made)
        /\ stats.total_financed = AmountOver(FundedOffers)
        /\ \A a \in Address :
             /\ lstats[a].total_offered = AmountOver(MadeBy(a))
             /\ lstats[a].total_accepted = AmountOver(FundedBy(a))
             /\ pos[a] = AmountOver(FundedBy(a))
             /\ lstats[a].offers_repaid = Counts(MadeBy(a))["Repaid"]
  BY DEF BooksMatchOffers, Made, FundedOffers, MadeBy, FundedBy
<1> QED BY <1>1, <1>2 DEF Books, LenderBooks

-----------------------------------------------------------------------------
(* One offer changes *)

AmountsIn(p) == [g \in OfferIds |-> p[g].amount]

RepaidIn(p) == [g \in OfferIds |-> p[g].amount_repaid]

LEMMA OverOffers ==
  ASSUME NEW S
  PROVE  /\ AmountOver(S) = SumOver(AmountsIn(offers), S)
         /\ RepaidOver(S) = SumOver(RepaidIn(offers), S)
         /\ AmountOver(S)' = SumOver(AmountsIn(offers'), S')
         /\ RepaidOver(S)' = SumOver(RepaidIn(offers'), S')
  BY DEF AmountOver, RepaidOver, AmountsIn, RepaidIn

(* The totals over a set of offers when the offer f changes.               *)
LEMMA OfferSums ==
  ASSUME NEW p \in [OfferIds -> Offer], NEW q \in [OfferIds -> Offer],
         NEW f \in OfferIds, \A g \in OfferIds \ {f} : q[g] = p[g],
         NEW S \in SUBSET OfferIds, IsFiniteSet(S),
         NEW T \in SUBSET OfferIds, T \ {f} = S \ {f}
  PROVE  /\ SumOver(AmountsIn(q), T) = SumOver(AmountsIn(p), S)
                                         + (IF f \in T THEN q[f].amount ELSE 0)
                                         - (IF f \in S THEN p[f].amount ELSE 0)
         /\ SumOver(RepaidIn(q), T) = SumOver(RepaidIn(p), S)
                                        + (IF f \in T THEN q[f].amount_repaid ELSE 0)
                                        - (IF f \in S THEN p[f].amount_repaid ELSE 0)
         /\ SumOver(AmountsIn(p), S) \in Int
         /\ SumOver(RepaidIn(p), S) \in Int
<1>1. /\ \A g \in S : AmountsIn(p)[g] \in Int /\ RepaidIn(p)[g] \in Int
      /\ \A g \in T : AmountsIn(q)[g] \in Int /\ RepaidIn(q)[g] \in Int
      /\ \A g \in S \ {f} : /\ AmountsIn(q)[g] = AmountsIn(p)[g]
                            /\ RepaidIn(q)[g] = RepaidIn(p)[g]
  BY DEF Offer, AmountsIn, RepaidIn
<1>2. /\ AmountsIn(p)[f] = p[f].amount /\ RepaidIn(p)[f] = p[f].amount_repaid
      /\ AmountsIn(q)[f] = q[f].amount /\ RepaidIn(q)[f] = q[f].amount_repaid
  BY DEF AmountsIn, RepaidIn
<1>3. /\ SumOver(AmountsIn(q), T) = SumOver(AmountsIn(p), S)
                                      + (IF f \in T THEN AmountsIn(q)[f] ELSE 0)
                                      - (IF f \in S THEN AmountsIn(p)[f] ELSE 0)
      /\ SumOver(RepaidIn(q), T) = SumOver(RepaidIn(p), S)
                                     + (IF f \in T THEN RepaidIn(q)[f] ELSE 0)
                                     - (IF f \in S THEN RepaidIn(p)[f] ELSE 0)
  BY <1>1, SumStep
<1>4. SumOver(AmountsIn(p), S) \in Int /\ SumOver(RepaidIn(p), S) \in Int
  BY <1>1, SumType
<1> QED BY <1>2, <1>3, <1>4

(* What one offer contributes to the totals                                *)
Offered(o, a) == IF o.status # "Absent" /\ o.lender = a THEN o.amount ELSE 0

Lent(o) == IF o.status \in FundedStatuses THEN o.amount ELSE 0

LentBy(o, a) == IF o.status \in FundedStatuses /\ o.lender = a THEN o.amount ELSE 0

Counted(o) == IF o.status # "Absent" THEN 1 ELSE 0

Returned(o, a) == IF o.status = "Repaid" /\ o.lender = a THEN 1 ELSE 0

(* The books are written so that each total moves by what the offer        *)
(* contributes now less what it contributed before.                        *)
EntriesOf(p, q) ==
  /\ stats'.total_offers = stats.total_offers + Counted(q) - Counted(p)
  /\ stats'.total_financed = stats.total_financed + Lent(q) - Lent(p)
  /\ \A a \in Address :
       /\ lstats'[a].total_offered = lstats[a].total_offered + Offered(q, a) - Offered(p, a)
       /\ lstats'[a].total_accepted = lstats[a].total_accepted + LentBy(q, a) - LentBy(p, a)
       /\ pos'[a] = pos[a] + LentBy(q, a) - LentBy(p, a)
       /\ lstats'[a].offers_repaid = lstats[a].offers_repaid + Returned(q, a) - Returned(p, a)

LEMMA BooksFollowEntries ==
  ASSUME TypeOK, TypeOK', IsFiniteSet(Made), NEW f \in OfferIds,
         \A g \in OfferIds \ {f} : offers'[g] = offers[g],
         Books, EntriesOf(offers[f], offers'[f])
  PROVE  Books' /\ IsFiniteSet(Made')
<1>1. offers \in [OfferIds -> Offer] /\ offers' \in [OfferIds -> Offer]
  BY DEF TypeOK, FinTypeOK
<1>2. /\ IsFiniteSet(Made')
      /\ Cardinality(Made') = Cardinality(Made) + Counted(offers'[f]) - Counted(offers[f])
  <2>1. Made' \ {f} = Made \ {f}
    BY DEF Made
  <2>2. (f \in Made <=> offers[f].status # "Absent")
          /\ (f \in Made' <=> offers'[f].status # "Absent")
    BY DEF Made
  <2> QED BY <2>1, <2>2, CardinalityStep DEF Counted
<1>3. AmountOver(FundedOffers)'
        = AmountOver(FundedOffers) + Lent(offers'[f]) - Lent(offers[f])
  <2>1. /\ FundedOffers \in SUBSET OfferIds
        /\ FundedOffers \in SUBSET Made
        /\ FundedOffers' \in SUBSET OfferIds
        /\ FundedOffers' \ {f} = FundedOffers \ {f}
    BY DEF FundedOffers, Funded, FundedStatuses, Made
  <2>2. IsFiniteSet(FundedOffers)
    BY <2>1, FS_Subset
  <2>3. /\ f \in FundedOffers <=> offers[f].status \in FundedStatuses
        /\ f \in FundedOffers' <=> offers'[f].status \in FundedStatuses
    BY DEF FundedOffers, Funded
  <2>4. AmountOver(FundedOffers)'
          = AmountOver(FundedOffers) + (IF f \in FundedOffers' THEN offers'[f].amount ELSE 0)
                                     - (IF f \in FundedOffers THEN offers[f].amount ELSE 0)
    BY <1>1, <2>1, <2>2, OfferSums, OverOffers
  <2> QED BY <2>3, <2>4 DEF Lent
<1>4. ASSUME NEW a \in Address
      PROVE  AmountOver(MadeBy(a))'
               = AmountOver(MadeBy(a)) + Offered(offers'[f], a) - Offered(offers[f], a)
  <2>1. /\ MadeBy(a) \in SUBSET OfferIds
        /\ MadeBy(a) \in SUBSET Made
        /\ MadeBy(a)' \in SUBSET OfferIds
        /\ MadeBy(a)' \ {f} = MadeBy(a) \ {f}
    BY DEF MadeBy, Made
  <2>2. IsFiniteSet(MadeBy(a))
    BY <2>1, FS_Subset
  <2>3. /\ f \in MadeBy(a) <=> offers[f].status # "Absent" /\ offers[f].lender = a
        /\ f \in MadeBy(a)' <=> offers'[f].status # "Absent" /\ offers'[f].lender = a
    BY DEF MadeBy, Made
  <2>4. AmountOver(MadeBy(a))'
          = AmountOver(MadeBy(a)) + (IF f \in MadeBy(a)' THEN offers'[f].amount ELSE 0)
                                  - (IF f \in MadeBy(a) THEN offers[f].amount ELSE 0)
    BY <1>1, <2>1, <2>2, OfferSums, OverOffers
  <2> QED BY <2>3, <2>4 DEF Offered
<1>5. ASSUME NEW a \in Address
      PROVE  AmountOver(FundedBy(a))'
               = AmountOver(FundedBy(a)) + LentBy(offers'[f], a) - LentBy(offers[f], a)
  <2>1. /\ FundedBy(a) \in SUBSET OfferIds
        /\ FundedBy(a) \in SUBSET Made
        /\ FundedBy(a)' \in SUBSET OfferIds
        /\ FundedBy(a)' \ {f} = FundedBy(a) \ {f}
    BY DEF FundedBy, FundedOffers, Funded, FundedStatuses, Made
  <2>2. IsFiniteSet(FundedBy(a))
    BY <2>1, FS_Subset
  <2>3. /\ f \in FundedBy(a)
              <=> offers[f].status \in FundedStatuses /\ offers[f].lender = a
        /\ f \in FundedBy(a)'
              <=> offers'[f].status \in FundedStatuses /\ offers'[f].lender = a
    BY DEF FundedBy, FundedOffers, Funded
  <2>4. AmountOver(FundedBy(a))'
          = AmountOver(FundedBy(a)) + (IF f \in FundedBy(a)' THEN offers'[f].amount ELSE 0)
                                    - (IF f \in FundedBy(a) THEN offers[f].amount ELSE 0)
    BY <1>1, <2>1, <2>2, OfferSums, OverOffers
  <2> QED BY <2>3, <2>4 DEF LentBy
<1>6. ASSUME NEW a \in Address
      PROVE  Cardinality(RepaidBy(a)')
               = Cardinality(RepaidBy(a)) + Returned(offers'[f], a) - Returned(offers[f], a)
  <2>1. /\ RepaidBy(a) \in SUBSET Made
        /\ RepaidBy(a)' \ {f} = RepaidBy(a) \ {f}
    BY DEF RepaidBy, MadeBy, Made
  <2>2. IsFiniteSet(RepaidBy(a))
    BY <2>1, FS_Subset
  <2>3. /\ f \in RepaidBy(a) <=> offers[f].status = "Repaid" /\ offers[f].lender = a
        /\ f \in RepaidBy(a)' <=> offers'[f].status = "Repaid" /\ offers'[f].lender = a
    BY DEF RepaidBy, MadeBy, Made
  <2> QED BY <2>1, <2>2, <2>3, CardinalityStep DEF Returned
<1>7. ASSUME NEW a \in Address PROVE LenderBooks(a)'
  <2>1. LenderBooks(a)
    BY DEF Books
  <2> QED BY <1>4, <1>5, <1>6, <2>1 DEF LenderBooks, EntriesOf
<1>8. stats'.total_offers = Cardinality(Made)'
  BY <1>2 DEF Books, EntriesOf
<1>9. stats'.total_financed = AmountOver(FundedOffers)'
  BY <1>3 DEF Books, EntriesOf
<1> QED BY <1>2, <1>7, <1>8, <1>9 DEF Books
-----------------------------------------------------------------------------
(* The counters of financing *)

(* What each call about an offer writes to the books is what the offer's   *)
(* contribution to them changes by.                                        *)
LEMMA EntriesOfOfferStep ==
  ASSUME TypeInv, NEW f \in OfferIds, NEW a \in Address, OfferStep(f, a)
  PROVE  /\ EntriesOf(offers[f], offers'[f])
         /\ \A g \in OfferIds \ {f} : offers'[g] = offers[g]
<1> USE DEF TypeInv, TypeOK, FinTypeOK
<1>0. /\ offers[f] \in Offer
      /\ stats.total_offers \in Nat /\ stats.total_financed \in Int
      /\ \A l \in Address : /\ lstats[l].total_offered \in Int
                            /\ lstats[l].total_accepted \in Int
                            /\ lstats[l].offers_repaid \in Nat
                            /\ pos[l] \in Int
  BY DEF ProtocolStats, LenderStats
<1>1. ASSUME NEW i \in InvoiceIds, NEW amount \in Principals, NEW rate \in Rates,
             NEW e \in Expiries, CreateOffer(f, i, a, amount, rate, e)
      PROVE  EntriesOf(offers[f], offers'[f])
  <2>1. /\ offers[f].status = "Absent"
        /\ offers'[f].status = "Pending"
        /\ offers'[f].lender = a
        /\ offers'[f].amount = amount
        /\ amount \in Int
    BY <1>1, FinancingAssumption DEF CreateOffer
  <2>2. \A l \in Address :
          /\ Offered(offers[f], l) = 0
          /\ Offered(offers'[f], l) = IF l = a THEN amount ELSE 0
          /\ LentBy(offers[f], l) = 0 /\ LentBy(offers'[f], l) = 0
          /\ Returned(offers[f], l) = 0 /\ Returned(offers'[f], l) = 0
    BY <2>1 DEF Offered, LentBy, Returned, FundedStatuses
  <2>3. /\ Counted(offers[f]) = 0 /\ Counted(offers'[f]) = 1
        /\ Lent(offers[f]) = 0 /\ Lent(offers'[f]) = 0
    BY <2>1 DEF Counted, Lent, FundedStatuses
  <2>4. /\ stats'.total_offers = stats.total_offers + 1
        /\ stats'.total_financed = stats.total_financed
        /\ pos' = pos
    BY <1>1 DEF CreateOffer, ProtocolStats
  <2>5. ASSUME NEW l \in Address
        PROVE  /\ lstats'[l].total_offered
                    = lstats[l].total_offered + (IF l = a THEN amount ELSE 0)
               /\ lstats'[l].total_accepted = lstats[l].total_accepted
               /\ lstats'[l].offers_repaid = lstats[l].offers_repaid
    <3>1. lstats' = [lstats EXCEPT ![a] = [lstats[a] EXCEPT !.total_offered = @ + amount,
                                                            !.offers_pending = @ + 1]]
      BY <1>1 DEF CreateOffer, LenderStats
    <3> QED BY <1>0, <3>1 DEF LenderStats
  <2> QED BY <1>0, <2>1, <2>2, <2>3, <2>4, <2>5 DEF EntriesOf
<1>2. CASE RefuseStep(f)
  <2>1. /\ offers[f].status = "Pending"
        /\ offers'[f].status = "Rejected"
        /\ offers'[f].lender = offers[f].lender
        /\ offers'[f].amount = offers[f].amount
        /\ offers[f].amount \in Int
    BY <1>0, <1>2 DEF RefuseStep, Offer
  <2>2. /\ Counted(offers[f]) = 1 /\ Counted(offers'[f]) = 1
        /\ Lent(offers[f]) = 0 /\ Lent(offers'[f]) = 0
        /\ \A l \in Address :
             /\ Offered(offers'[f], l) = Offered(offers[f], l)
             /\ Offered(offers[f], l) \in Int
             /\ LentBy(offers[f], l) = 0 /\ LentBy(offers'[f], l) = 0
             /\ Returned(offers[f], l) = 0 /\ Returned(offers'[f], l) = 0
    BY <2>1 DEF Counted, Lent, Offered, LentBy, Returned, FundedStatuses
  <2> QED BY <1>0, <1>2, <2>2 DEF RefuseStep, EntriesOf
<1>3. ASSUME AcceptOffer(f, a)
      PROVE  EntriesOf(offers[f], offers'[f])
  <2> DEFINE b == offers[f].lender
             amount == offers[f].amount
  <2>1. /\ offers[f].status = "Pending"
        /\ offers'[f].status = "Accepted"
        /\ offers'[f].lender = b
        /\ offers'[f].amount = amount
        /\ amount \in Int
        /\ b \in Address
    BY <1>0, <1>3 DEF AcceptOffer, SettleAcceptance, Offer, OffersNameTheirParties
  <2>2. /\ Counted(offers[f]) = 1 /\ Counted(offers'[f]) = 1
        /\ Lent(offers[f]) = 0 /\ Lent(offers'[f]) = amount
        /\ \A l \in Address :
             /\ Offered(offers'[f], l) = Offered(offers[f], l)
             /\ Offered(offers[f], l) \in Int
             /\ LentBy(offers[f], l) = 0
             /\ LentBy(offers'[f], l) = IF l = b THEN amount ELSE 0
             /\ Returned(offers[f], l) = 0 /\ Returned(offers'[f], l) = 0
    BY <2>1 DEF Counted, Lent, Offered, LentBy, Returned, FundedStatuses
  <2>3. /\ stats' = [stats EXCEPT !.total_financed = @ + amount]
        /\ pos' = [pos EXCEPT ![b] = @ + amount]
        /\ lstats' = [lstats EXCEPT ![b] = [lstats[b] EXCEPT !.total_accepted = @ + amount]]
    BY <1>3, <2>1 DEF AcceptOffer, SettleAcceptance, LenderStats
  <2> HIDE DEF b, amount
  <2>4. /\ stats'.total_offers = stats.total_offers
        /\ stats'.total_financed = stats.total_financed + amount
    BY <2>3 DEF ProtocolStats
  <2>5. ASSUME NEW l \in Address
        PROVE  /\ pos'[l] = pos[l] + (IF l = b THEN amount ELSE 0)
               /\ lstats'[l].total_offered = lstats[l].total_offered
               /\ lstats'[l].total_accepted
                    = lstats[l].total_accepted + (IF l = b THEN amount ELSE 0)
               /\ lstats'[l].offers_repaid = lstats[l].offers_repaid
    BY <1>0, <2>1, <2>3 DEF LenderStats
  <2> QED BY <1>0, <2>1, <2>2, <2>4, <2>5 DEF EntriesOf
<1>4. ASSUME NEW i \in InvoiceIds, NEW amount \in Payments, RepayInvoice(a, i, f, amount)
      PROVE  EntriesOf(offers[f], offers'[f])
  <2> DEFINE status == IF FullyRepaid(offers[f], amount) THEN "Repaid" ELSE "Financed"
             fee == Bps(amount, GetFeeBps, BpsUnit)
             repaid == offers[f].amount_repaid + PrincipalPortion(offers[f], amount)
             b == offers[f].lender
  <2>1. /\ RecordRepayment(f, status, repaid, amount, fee)
        /\ offers[f].status \in ActiveStatuses
    BY <1>4 DEF RepayInvoice
  <2>2. status \in {"Repaid", "Financed"}
    OBVIOUS
  <2> HIDE DEF status, fee, repaid
  <2>3. /\ offers'[f].status = status
        /\ offers'[f].lender = b
        /\ offers'[f].amount = offers[f].amount
        /\ offers[f].amount \in Int
        /\ b \in Address
    BY <1>0, <2>1 DEF RecordRepayment, Offer, OffersNameTheirParties, ActiveStatuses
  <2>4. /\ Counted(offers[f]) = 1 /\ Counted(offers'[f]) = 1
        /\ Lent(offers'[f]) = Lent(offers[f]) /\ Lent(offers[f]) \in Int
        /\ \A l \in Address :
             /\ Offered(offers'[f], l) = Offered(offers[f], l)
             /\ Offered(offers[f], l) \in Int
             /\ LentBy(offers'[f], l) = LentBy(offers[f], l)
             /\ LentBy(offers[f], l) \in Int
             /\ Returned(offers[f], l) = 0
             /\ Returned(offers'[f], l) = IF status = "Repaid" /\ l = b THEN 1 ELSE 0
    BY <2>1, <2>2, <2>3
       DEF Counted, Lent, Offered, LentBy, Returned, FundedStatuses, ActiveStatuses
  <2>5. /\ stats'.total_offers = stats.total_offers
        /\ stats'.total_financed = stats.total_financed
        /\ pos' = pos
    BY <2>1 DEF RecordRepayment, ProtocolStats
  <2>6. lstats' = IF status = "Repaid"
                  THEN [lstats EXCEPT ![b] = [lstats[b] EXCEPT !.offers_repaid = @ + 1]]
                  ELSE lstats
    BY <2>1 DEF RecordRepayment, LenderStats
  <2> HIDE DEF b
  <2>7. ASSUME NEW l \in Address
        PROVE  /\ lstats'[l].total_offered = lstats[l].total_offered
               /\ lstats'[l].total_accepted = lstats[l].total_accepted
               /\ lstats'[l].offers_repaid
                    = lstats[l].offers_repaid + (IF status = "Repaid" /\ l = b THEN 1 ELSE 0)
    BY <1>0, <2>3, <2>6 DEF LenderStats
  <2> QED BY <1>0, <2>4, <2>5, <2>7 DEF EntriesOf
<1>5. ASSUME NEW i \in InvoiceIds, NEW pool \in PoolBalances, ReclaimInvoice(a, i, f, pool)
      PROVE  EntriesOf(offers[f], offers'[f])
  <2>1. /\ offers[f].status \in ActiveStatuses
        /\ offers'[f].status = "Defaulted"
        /\ offers'[f].lender = offers[f].lender
        /\ offers'[f].amount = offers[f].amount
        /\ offers[f].amount \in Int
        /\ UNCHANGED <<lstats, stats, pos>>
    BY <1>0, <1>5 DEF ReclaimInvoice, RecordDefault, Offer
  <2>2. /\ Counted(offers[f]) = 1 /\ Counted(offers'[f]) = 1
        /\ Lent(offers'[f]) = Lent(offers[f]) /\ Lent(offers[f]) \in Int
        /\ \A l \in Address :
             /\ Offered(offers'[f], l) = Offered(offers[f], l)
             /\ Offered(offers[f], l) \in Int
             /\ LentBy(offers'[f], l) = LentBy(offers[f], l)
             /\ LentBy(offers[f], l) \in Int
             /\ Returned(offers[f], l) = 0 /\ Returned(offers'[f], l) = 0
    BY <2>1 DEF Counted, Lent, Offered, LentBy, Returned, FundedStatuses, ActiveStatuses
  <2> QED BY <1>0, <2>1, <2>2 DEF EntriesOf
<1>6. \A g \in OfferIds \ {f} : offers'[g] = offers[g]
  <2>1. Created(f) \/ Answered(f) \/ Paid(f) \/ Reclaimed(f)
    BY OfferWrites
  <2> QED BY <2>1 DEF Created, Answered, Paid, Reclaimed
<1> QED BY <1>1, <1>2, <1>3, <1>4, <1>5, <1>6 DEF OfferStep

LEMMA BooksStep ==
  ASSUME TypeInv, IsFiniteSet(Made), Books, [Next]_vars
  PROVE  IsFiniteSet(Made)' /\ Books'
<1>1. CASE UNCHANGED finVars
  <2>1. Made' = Made /\ Books' = Books
    BY <1>1 DEF finVars, Made, Books, LenderBooks, AmountOver, FundedOffers, Funded,
                MadeBy, FundedBy, RepaidBy
  <2> QED BY <2>1
<1>2. ASSUME NEW f \in OfferIds, NEW a \in Address, OfferStep(f, a), Next
      PROVE  IsFiniteSet(Made)' /\ Books'
  <2>1. TypeOK /\ TypeOK'
    BY <1>2, TypeInvStep DEF TypeInv
  <2>2. /\ EntriesOf(offers[f], offers'[f])
        /\ \A g \in OfferIds \ {f} : offers'[g] = offers[g]
    BY <1>2, EntriesOfOfferStep
  <2> QED BY <2>1, <2>2, BooksFollowEntries
<1>3. CASE UNCHANGED vars
  BY <1>1, <1>3 DEF vars
<1>4. CASE PenaltyNext
  BY <1>1, <1>4 DEF PenaltyNext, SetPenalty
<1> QED BY <1>1, <1>2, <1>3, <1>4, ProtocolStepKinds

LEMMA ProtocolBooks == Spec => [](IsFiniteSet(Made) /\ Books)
<1>1. Init => IsFiniteSet(Made) /\ Books
  <2> SUFFICES ASSUME Init PROVE IsFiniteSet(Made) /\ Books
    OBVIOUS
  <2>1. /\ Made = {} /\ FundedOffers = {}
        /\ \A a \in Address : MadeBy(a) = {} /\ FundedBy(a) = {} /\ RepaidBy(a) = {}
    BY DEF Init, FinInit, AbsentOffer, Made, FundedOffers, Funded, FundedStatuses,
           MadeBy, FundedBy, RepaidBy
  <2>2. AmountOver({}) = 0
    BY SumEmpty DEF AmountOver
  <2>3. /\ stats.total_offers = 0 /\ stats.total_financed = 0
        /\ \A a \in Address : /\ lstats[a].total_offered = 0
                              /\ lstats[a].total_accepted = 0
                              /\ lstats[a].offers_repaid = 0
                              /\ pos[a] = 0
    BY DEF Init, FinInit
  <2> QED BY <2>1, <2>2, <2>3, FS_EmptySet DEF Books, LenderBooks
<1>2. TypeInv /\ IsFiniteSet(Made) /\ Books /\ [Next]_vars => IsFiniteSet(Made)' /\ Books'
  BY BooksStep
<1> QED BY <1>1, <1>2, ProtocolTypeInv, PTL DEF Spec

(***************************************************************************)
(* The counters of the financing contract and the position tokens are the  *)
(* totals over its offers in every state: each call that moves an offer    *)
(* writes exactly the difference it makes, to the totals of the lender and *)
(* of the contract alike.                                                  *)
(***************************************************************************)
THEOREM ProtocolBooksMatchOffers == Spec => []BooksMatchOffers
<1>1. Books => BooksMatchOffers
  BY BooksAreBooks
<1> QED BY <1>1, ProtocolBooks, PTL

-----------------------------------------------------------------------------
(* The payment history *)

(* An offer that was not made is on no invoice.                            *)
LEMMA OffersOnMade ==
  ASSUME LoanInv, NEW i \in InvoiceIds
  PROVE  OffersOn(i) \in SUBSET Made
  BY FinancingAssumption DEF LoanInv, OfferAccount, OffersOn, Made, AbsentOffer

(* What the offers of an invoice repaid when the offer f changes.          *)
LEMMA RepaidOnInvoice ==
  ASSUME TypeOK, TypeOK', LoanInv, IsFiniteSet(Made), NEW f \in OfferIds,
         \A g \in OfferIds \ {f} : offers'[g] = offers[g],
         NEW i \in InvoiceIds
  PROVE  /\ RepaidOver(OffersOn(i))'
              = RepaidOver(OffersOn(i))
                  + (IF offers'[f].invoice_id = i THEN offers'[f].amount_repaid ELSE 0)
                  - (IF offers[f].invoice_id = i THEN offers[f].amount_repaid ELSE 0)
         /\ RepaidOver(OffersOn(i)) \in Int
<1>1. offers \in [OfferIds -> Offer] /\ offers' \in [OfferIds -> Offer]
  BY DEF TypeOK, FinTypeOK
<1>2. /\ OffersOn(i) \in SUBSET OfferIds
      /\ OffersOn(i)' \in SUBSET OfferIds
      /\ OffersOn(i)' \ {f} = OffersOn(i) \ {f}
      /\ f \in OffersOn(i) <=> offers[f].invoice_id = i
      /\ f \in OffersOn(i)' <=> offers'[f].invoice_id = i
  BY DEF OffersOn
<1>3. IsFiniteSet(OffersOn(i))
  BY OffersOnMade, FS_Subset
<1>4. /\ RepaidOver(OffersOn(i))'
           = RepaidOver(OffersOn(i)) + (IF f \in OffersOn(i)' THEN offers'[f].amount_repaid ELSE 0)
                                     - (IF f \in OffersOn(i) THEN offers[f].amount_repaid ELSE 0)
      /\ RepaidOver(OffersOn(i)) \in Int
  BY <1>1, <1>2, <1>3, OfferSums, OverOffers
<1> QED BY <1>2, <1>4

LEMMA HistoryStep ==
  ASSUME TypeInv, LoanInv, IsFiniteSet(Made), HistoryMatchesOffers, [Next]_vars
  PROVE  HistoryMatchesOffers'
<1>0. TypeOK /\ TypeOK' /\ OffersNameTheirParties
  BY TypeInvStep DEF TypeInv
<1>1. CASE UNCHANGED <<offers, pays, payouts>>
  BY <1>1 DEF HistoryMatchesOffers, RepaidOver, OffersOn
<1>2. ASSUME NEW f \in OfferIds, Created(f) \/ Answered(f) \/ Paid(f) \/ Reclaimed(f),
             NEW i \in InvoiceIds, pays'[i].count <= MaxPayments
      PROVE  pays'[i].principal = RepaidOver(OffersOn(i))'
  <2> DEFINE held == RepaidOver(OffersOn(i))
             was == IF offers[f].invoice_id = i THEN offers[f].amount_repaid ELSE 0
             is  == IF offers'[f].invoice_id = i THEN offers'[f].amount_repaid ELSE 0
  <2>1. \A g \in OfferIds \ {f} : offers'[g] = offers[g]
    BY <1>0, <1>2 DEF Created, Answered, Paid, Reclaimed, TypeOK, FinTypeOK
  <2>2. held' = held + is - was /\ held \in Int
    BY <1>0, <2>1, RepaidOnInvoice
  <2>3. pays[i].count <= MaxPayments => pays[i].principal = held
    BY DEF HistoryMatchesOffers
  <2> SUFFICES pays'[i].principal = held'
    OBVIOUS
  <2>4. offers[f] \in Offer /\ pays[i].count \in Nat /\ pays[i].principal \in Int
    BY <1>0 DEF TypeOK, FinTypeOK, RepTypeOK
  <2> HIDE DEF held
  <2>5. CASE Created(f)
    <3>1. was = 0
      BY <2>5, FinancingAssumption DEF Created, LoanInv, OfferAccount, AbsentOffer
    <3>2. is = 0
      <4>1. offers'[f].amount_repaid = 0
        BY <1>0, <2>5 DEF Created, TypeOK, FinTypeOK
      <4> QED BY <4>1
    <3> HIDE DEF is, was
    <3>3. pays' = pays
      BY <2>5 DEF Created
    <3> QED BY <1>2, <2>2, <2>3, <3>1, <3>2, <3>3
  <2>6. CASE Answered(f) \/ Reclaimed(f)
    <3>1. /\ offers'[f].invoice_id = offers[f].invoice_id
          /\ offers'[f].amount_repaid = offers[f].amount_repaid
          /\ offers[f].amount_repaid \in Int
          /\ pays' = pays
      <4>1. \E s : \/ offers'[f] = [offers[f] EXCEPT !.status = s]
                   \/ offers'[f] = [offers[f] EXCEPT !.status = s, !.funded_at = now]
        BY <1>0, <2>6 DEF Answered, Reclaimed, TypeOK, FinTypeOK
      <4>2. pays' = pays
        BY <2>6 DEF Answered, Reclaimed
      <4> QED BY <2>4, <4>1, <4>2 DEF Offer
    <3>2. is = was /\ was \in Int
      BY <3>1
    <3> HIDE DEF is, was
    <3> QED BY <1>2, <2>2, <2>3, <3>1, <3>2
  <2>7. CASE Paid(f)
    <3>1. PICK portion \in Nat, status \in {"Repaid", "Financed"} :
            /\ offers' = [offers EXCEPT ![f] =
                 [offers[f] EXCEPT !.status = status, !.amount_repaid = @ + portion]]
            /\ pays' = [pays EXCEPT ![offers[f].invoice_id] =
                 [count |-> @.count + 1,
                  principal |-> IF @.count < MaxPayments
                                THEN @.principal + portion ELSE @.principal]]
      BY <2>7 DEF Paid
    <3>2. /\ offers'[f].invoice_id = offers[f].invoice_id
          /\ offers'[f].amount_repaid = offers[f].amount_repaid + portion
          /\ offers[f].amount_repaid \in Int
      BY <1>0, <2>4, <3>1 DEF TypeOK, FinTypeOK, Offer
    <3>3. CASE offers[f].invoice_id = i
      <4>1. /\ pays'[i].count = pays[i].count + 1
            /\ pays'[i].principal = IF pays[i].count < MaxPayments
                                    THEN pays[i].principal + portion ELSE pays[i].principal
        BY <1>0, <3>1, <3>3 DEF TypeOK, RepTypeOK
      <4>2. pays[i].count < MaxPayments
        BY <1>2, <2>4, <4>1, RepaymentAssumption
      <4>3. is = was + portion /\ was \in Int
        BY <3>2, <3>3
      <4> HIDE DEF is, was
      <4> QED BY <2>2, <2>3, <2>4, <4>1, <4>2, <4>3, RepaymentAssumption
    <3>4. CASE offers[f].invoice_id # i
      <4>1. pays'[i] = pays[i]
        BY <1>0, <3>1, <3>4 DEF TypeOK, RepTypeOK
      <4>2. is = 0 /\ was = 0
        BY <3>2, <3>4
      <4> HIDE DEF is, was
      <4> QED BY <1>2, <2>2, <2>3, <4>1, <4>2
    <3> QED BY <3>3, <3>4
  <2> QED BY <1>2, <2>5, <2>6, <2>7
<1> QED BY <1>1, <1>2, OfferStepOrNone DEF HistoryMatchesOffers

(***************************************************************************)
(* The payment history of an invoice and the amounts its offers carry      *)
(* account for the same principal, as long as the history is summed whole: *)
(* repayment adds one portion to both, and nothing else writes either.     *)
(***************************************************************************)
THEOREM ProtocolHistoryMatchesOffers == Spec => []HistoryMatchesOffers
<1>1. Init => HistoryMatchesOffers
  <2> SUFFICES ASSUME Init, NEW i \in InvoiceIds
               PROVE  pays[i].principal = RepaidOver(OffersOn(i))
    BY DEF HistoryMatchesOffers
  <2>1. OffersOn(i) = {}
    BY FinancingAssumption DEF Init, FinInit, OffersOn, AbsentOffer
  <2>2. RepaidOver({}) = 0
    BY SumEmpty DEF RepaidOver
  <2> QED BY <2>1, <2>2 DEF Init, RepInit
<1>2. TypeInv /\ LoanInv /\ IsFiniteSet(Made) /\ HistoryMatchesOffers /\ [Next]_vars
        => HistoryMatchesOffers'
  BY HistoryStep
<1> QED BY <1>1, <1>2, ProtocolTypeInv, ProtocolLoanInv, ProtocolBooks, PTL DEF Spec

-----------------------------------------------------------------------------
(* Who moves an invoice *)

(* The move of the invoice i to a status, as its history records it.       *)
Moved(i, to, actor) ==
  /\ <<invoices[i].status, to>> \in ValidTransitions
  /\ invoices'[i].status = to
  /\ trn_log'[i] = RecordTransition(trn_log[i],
       [from |-> invoices[i].status, to |-> to, actor |-> actor], MaxHistory)

Unmoved(i) == invoices'[i].status = invoices[i].status /\ trn_log'[i] = trn_log[i]

LEMMA MoveOfOne ==
  ASSUME RegTypeOK, NEW i \in InvoiceIds, NEW to, NEW actor, MoveStatus(i, to, actor)
  PROVE  Moved(i, to, actor) /\ \A j \in InvoiceIds \ {i} : invoices'[j] = invoices[j] /\ Unmoved(j)
  BY DEF RegTypeOK, MoveStatus, Moved, Unmoved, Invoice

Registers(i) ==
  /\ invoices[i].status = "Absent"
  /\ invoices'[i].status = "Pending"
  /\ trn_log'[i] = trn_log[i]

(* Outside the calls of the other contracts an invoice is registered, moved*)
(* by an account or flagged overdue.                                       *)
LEMMA UserMoves ==
  ASSUME RegTypeOK, RegUserNext, NEW i \in InvoiceIds
  PROVE  \/ Unmoved(i)
         \/ Registers(i)
         \/ \E to \in Statuses, actor \in Address : Moved(i, to, actor)
         \/ Moved(i, "Overdue", "registry")
<1> DEFINE Goal == \/ Unmoved(i)
                   \/ Registers(i)
                   \/ \E to \in Statuses, actor \in Address : Moved(i, to, actor)
                   \/ Moved(i, "Overdue", "registry")
<1>1. ASSUME NEW j \in InvoiceIds, NEW to \in Statuses, NEW actor \in Address,
             MoveStatus(j, to, actor)
      PROVE  Goal
  BY <1>1, MoveOfOne
<1>2. ASSUME NEW o \in Address, NEW ids \in SUBSET InvoiceIds,
             NEW args \in [ids -> RegistrationArgs], BatchRegisterInvoices(o, args)
      PROVE  Goal
  <2>1. DOMAIN args = ids
    BY <1>2
  <2> QED BY <1>2, <2>1 DEF BatchRegisterInvoices, Registered, Registers, Unmoved
<1>3. CASE Tick
  BY <1>3 DEF Tick, Unmoved
<1>4. CASE OriginatorNext
  <2> SUFFICES ASSUME NEW o \in Address, NEW j \in InvoiceIds,
                      \/ \E amount \in FaceAmounts, due_date \in DueDates :
                           RegisterInvoice(o, j, amount, due_date)
                      \/ \E to \in Statuses : UpdateInvoiceStatus(o, j, to)
                      \/ \E amount \in FaceAmounts : UpdateInvoiceAmount(o, j, amount)
                      \/ CancelInvoice(o, j)
                      \/ RaiseDispute(o, j)
                      \/ \E full \in BOOLEAN : SetInvoiceRepaidStatus(o, j, full)
               PROVE  Goal
    BY <1>4 DEF OriginatorNext
  <2>1. ASSUME NEW amount \in FaceAmounts, NEW due_date \in DueDates,
               RegisterInvoice(o, j, amount, due_date)
        PROVE  Goal
    <3> DEFINE args == [k \in {j} |-> [amount |-> amount, due_date |-> due_date]]
    <3>1. args \in [{j} -> RegistrationArgs]
      BY DEF RegistrationArgs
    <3>2. BatchRegisterInvoices(o, args)
      BY <2>1 DEF RegisterInvoice
    <3> HIDE DEF args
    <3> QED BY <1>2, <3>1, <3>2
  <2>2. ASSUME NEW amount \in FaceAmounts, UpdateInvoiceAmount(o, j, amount)
        PROVE  Goal
    BY <2>2 DEF UpdateInvoiceAmount, Unmoved, RegTypeOK, Invoice
  <2>3. ASSUME NEW to \in Statuses, UpdateInvoiceStatus(o, j, to) PROVE Goal
    BY <1>1, <2>3 DEF UpdateInvoiceStatus
  <2>4. CASE CancelInvoice(o, j)
    BY <1>1, <2>4 DEF CancelInvoice, Statuses
  <2>5. CASE RaiseDispute(o, j)
    BY <1>1, <2>5 DEF RaiseDispute, Statuses
  <2>6. ASSUME NEW full \in BOOLEAN, SetInvoiceRepaidStatus(o, j, full) PROVE Goal
    BY <1>1, <2>6 DEF SetInvoiceRepaidStatus, Statuses
  <2> QED BY <2>1, <2>2, <2>3, <2>4, <2>5, <2>6
<1>5. CASE BatchNext
  BY <1>2, <1>5 DEF BatchNext
<1>6. CASE TokenNext
  <2>1. ASSUME NEW from, NEW to \in Address, NEW j \in InvoiceIds,
               ExecuteTokenTransfer(from, to, j)
        PROVE  Unmoved(i)
    BY <2>1 DEF ExecuteTokenTransfer, Unmoved, RegTypeOK, Invoice
  <2>2. ASSUME NEW a \in Address, NEW b \in Address, NEW j \in InvoiceIds,
               Transfer(a, b, j)
        PROVE  Unmoved(i)
    BY <2>1, <2>2 DEF Transfer
  <2>3. ASSUME NEW a \in Address, NEW b \in Address, NEW j \in InvoiceIds,
               NEW spender \in Address, TransferFrom(spender, a, b, j)
        PROVE  Unmoved(i)
    BY <2>1, <2>3 DEF TransferFrom
  <2>4. ASSUME NEW approver, NEW approved, NEW j \in InvoiceIds,
               Approve(approver, j) \/ SetTokenApproval(approver, approved, j)
        PROVE  Unmoved(i)
    BY <2>4 DEF Approve, SetTokenApproval, Unmoved
  <2> QED BY <1>6, <2>2, <2>3, <2>4 DEF TokenNext
<1>7. CASE AdminNext
  <2>1. ASSUME NEW s \in Admins, NEW j \in InvoiceIds, NEW to \in Statuses,
               ResolveDispute(s, j, to)
        PROVE  Goal
    BY <1>1, <2>1, RegistryAssumption DEF ResolveDispute
  <2> QED BY <1>7, <2>1 DEF AdminNext, BlacklistAddress, UnblacklistAddress, SetFee, Pause,
                            Unpause, Unmoved
<1>8. CASE KeeperNext
  BY <1>8, MoveOfOne DEF KeeperNext, MarkInvoiceOverdue
<1> QED BY <1>3, <1>4, <1>5, <1>6, <1>7, <1>8 DEF RegUserNext

(* What a move adds to a history that may still be the protocol's alone.   *)
LEMMA SystemMove ==
  ASSUME RegTypeOK, AuditTrail, NEW i \in InvoiceIds, NEW to, NEW actor,
         Moved(i, to, actor), SystemOnly(i)'
  PROVE  SystemOnly(i) /\ actor \in {"registry", "financing", "repayment"}
<1> DEFINE log == trn_log[i]
           entry == [from |-> invoices[i].status, to |-> to, actor |-> actor]
<1>1. /\ trn_log'[i] = RecordTransition(log, entry, MaxHistory)
      /\ Len(log) \in Nat /\ Len(log) <= MaxHistory
      /\ log \in Seq(TransitionRecord)
      /\ MaxHistory \in Nat \ {0}
  BY RegistryAssumption DEF Moved, AuditTrail, RegTypeOK
<1>2. Len(trn_log'[i]) < MaxHistory
  BY DEF SystemOnly
<1>3. entry.actor = actor
  OBVIOUS
<1> HIDE DEF log, entry
<1>4. Len(log) < MaxHistory
  <2> SUFFICES ASSUME Len(log) = MaxHistory PROVE FALSE
    BY <1>1
  <2>1. trn_log'[i] = Append(Tail(log), entry)
    BY <1>1 DEF RecordTransition
  <2>2. log # << >>
    BY <1>1
  <2>3. Tail(log) \in Seq(TransitionRecord) /\ Len(Tail(log)) = Len(log) - 1
    BY <1>1, <2>2
  <2>4. Len(Append(Tail(log), entry)) = Len(log)
    BY <1>1, <2>3
  <2> QED BY <1>2, <2>1, <2>4
<1>5. trn_log'[i] = Append(log, entry)
  BY <1>1, <1>4 DEF RecordTransition
<1>6. /\ Len(trn_log'[i]) = Len(log) + 1
      /\ trn_log'[i][Len(log) + 1] = entry
      /\ \A k \in 1 .. Len(log) : trn_log'[i][k] = log[k]
  BY <1>1, <1>5
<1>7. \A k \in 1 .. Len(log) + 1 :
        trn_log'[i][k].actor \in {"registry", "financing", "repayment"}
  BY <1>6 DEF SystemOnly
<1>8. entry.actor \in {"registry", "financing", "repayment"}
  BY <1>1, <1>6, <1>7
<1>9. \A k \in 1 .. Len(log) : log[k].actor \in {"registry", "financing", "repayment"}
  BY <1>1, <1>6, <1>7
<1> QED BY <1>3, <1>4, <1>8, <1>9 DEF SystemOnly, log

-----------------------------------------------------------------------------
(* Invoice and offers *)

FundedOn(i) == {f \in OffersOn(i) : Funded(f)}

TheOfferIs(i, S) == \E f \in OfferIds : FundedOn(i) = {f} /\ offers[f].status \in S

(* StatusAgreement without the counting                                    *)
Story(i) ==
  /\ invoices[i].status \in {"Absent", "Pending"} => FundedOn(i) = {}
  /\ invoices[i].status \in {"Financed", "Overdue"} => TheOfferIs(i, ActiveStatuses)
  /\ invoices[i].status = "Repaid" => TheOfferIs(i, {"Repaid"})
  /\ invoices[i].status = "Defaulted" => TheOfferIs(i, {"Defaulted"})
  /\ invoices[i].status \notin {"Cancelled", "Disputed"}

StoryInv == \A i \in InvoiceIds : SystemOnly(i) => Story(i)

LEMMA StorySame ==
  ASSUME NEW i \in InvoiceIds, StoryInv, SystemOnly(i)', Unmoved(i),
         FundedOn(i)' = FundedOn(i),
         \A f \in FundedOn(i) : offers'[f].status = offers[f].status
  PROVE  Story(i)'
<1>1. SystemOnly(i)
  BY DEF SystemOnly, Unmoved
<1>2. Story(i)
  BY <1>1 DEF StoryInv
<1>3. ASSUME NEW S, TheOfferIs(i, S) PROVE TheOfferIs(i, S)'
  BY <1>3 DEF TheOfferIs
<1> QED BY <1>2, <1>3 DEF Story, Unmoved

(* A call that does not touch the offers: registration, a move by hand,    *)
(* the overdue flag.                                                       *)
LEMMA StoryOfUserStep ==
  ASSUME TypeInv, AuditTrail, StoryInv, RegUserNext, UNCHANGED offers,
         NEW i \in InvoiceIds, SystemOnly(i)'
  PROVE  Story(i)'
<1> USE DEF TypeInv, TypeOK
<1>1. FundedOn(i)' = FundedOn(i) /\ \A S : TheOfferIs(i, S)' <=> TheOfferIs(i, S)
  BY DEF FundedOn, OffersOn, Funded, TheOfferIs
<1>2. CASE Unmoved(i)
  BY <1>1, <1>2, StorySame
<1>3. CASE Registers(i)
  <2>1. SystemOnly(i) /\ Story(i)
    BY <1>3 DEF SystemOnly, StoryInv, Registers
  <2> QED BY <1>1, <1>3, <2>1 DEF Registers, Story
<1>4. ASSUME NEW to \in Statuses, NEW actor \in Address, Moved(i, to, actor)
      PROVE  FALSE
  BY <1>4, SystemMove, RegistryAssumption
<1>5. CASE Moved(i, "Overdue", "registry")
  <2>1. SystemOnly(i) /\ Story(i)
    BY <1>5, SystemMove DEF StoryInv
  <2>2. invoices[i].status = "Financed" /\ invoices'[i].status = "Overdue"
    BY <1>5 DEF Moved, ValidTransitions
  <2> QED BY <1>1, <2>1, <2>2 DEF Story
<1> QED BY <1>2, <1>3, <1>4, <1>5, UserMoves

(* The invoice of an offer moves with it, and the history stays the        *)
(* protocol's alone.                                                       *)
LEMMA StoryOfMove ==
  ASSUME TypeInv, AuditTrail, StoryInv,
         NEW f \in OfferIds, NEW h \in InvoiceIds,
         offers[f].invoice_id = h, offers'[f].invoice_id = h,
         \A g \in OfferIds \ {f} : offers'[g] = offers[g],
         NEW to, NEW actor, MoveStatus(h, to, actor), Story(h) => Story(h)',
         NEW i \in InvoiceIds, SystemOnly(i)'
  PROVE  Story(i)'
<1> USE DEF TypeInv, TypeOK
<1>1. CASE i = h
  <2>1. Moved(i, to, actor)
    BY <1>1, MoveOfOne
  <2>2. SystemOnly(i) /\ Story(i)
    BY <2>1, SystemMove DEF StoryInv
  <2> QED BY <1>1, <2>2
<1>2. CASE i # h
  <2>1. Unmoved(i)
    BY <1>2, MoveOfOne
  <2>2. FundedOn(i)' = FundedOn(i) /\ f \notin FundedOn(i)
    BY <1>2 DEF FundedOn, OffersOn, Funded
  <2>3. \A g \in FundedOn(i) : offers'[g] = offers[g]
    BY <2>2 DEF FundedOn, OffersOn
  <2> QED BY <2>1, <2>2, <2>3, StorySame
<1> QED BY <1>1, <1>2

LEMMA StoryOfOfferStep ==
  ASSUME TypeInv, AuditTrail, StoryInv, LoanInv,
         NEW f \in OfferIds, NEW a \in Address, OfferStep(f, a),
         NEW i \in InvoiceIds, SystemOnly(i)'
  PROVE  Story(i)'
<1> USE DEF TypeInv, TypeOK, FinTypeOK
<1>0. offers[f] \in Offer /\ \A g \in OfferIds \ {f} : offers'[g] = offers[g]
  BY EntriesOfOfferStep
<1>1. ASSUME UNCHANGED regVars, ~Funded(f), ~Funded(f)'
      PROVE  Story(i)'
  <2>1. Unmoved(i)
    BY <1>1 DEF regVars, Unmoved
  <2>2. FundedOn(i)' = FundedOn(i) /\ f \notin FundedOn(i)
    BY <1>0, <1>1 DEF FundedOn, OffersOn, Funded
  <2>3. \A g \in FundedOn(i) : offers'[g] = offers[g]
    BY <1>0, <2>2 DEF FundedOn, OffersOn
  <2> QED BY <2>1, <2>2, <2>3, StorySame
<1>2. ASSUME NEW j \in InvoiceIds, NEW amount \in Principals, NEW rate \in Rates,
             NEW e \in Expiries, CreateOffer(f, j, a, amount, rate, e)
      PROVE  Story(i)'
  <2>1. UNCHANGED regVars /\ offers[f].status = "Absent" /\ offers'[f].status = "Pending"
    BY <1>2 DEF CreateOffer
  <2> QED BY <1>1, <2>1 DEF Funded, FundedStatuses
<1>3. CASE RefuseStep(f)
  <2>1. UNCHANGED regVars /\ offers[f].status = "Pending" /\ offers'[f].status = "Rejected"
    BY <1>0, <1>3 DEF RefuseStep, Offer
  <2> QED BY <1>1, <2>1 DEF Funded, FundedStatuses
<1>4. CASE AcceptOffer(f, a)
  <2>0. offers[f].status = "Pending"
    BY <1>4 DEF AcceptOffer
  <2>2. PICK h \in InvoiceIds : offers[f].invoice_id = h
    BY <2>0 DEF OffersNameTheirParties
  <2>1. /\ offers[f].status = "Pending"
        /\ offers'[f].status = "Accepted"
        /\ offers'[f].invoice_id = h
        /\ invoices[h].status = "Pending"
        /\ MoveStatus(h, "Financed", "financing")
    BY <1>0, <1>4, <2>2
       DEF AcceptOffer, SettleAcceptance, FinancingMarksInvoiceFinanced, Offer
  <2>3. invoices'[h].status = "Financed"
    BY <2>1, MoveOfOne DEF Moved
  <2>4. ASSUME Story(h) PROVE Story(h)'
    <3>1. FundedOn(h) = {}
      BY <2>1, <2>4 DEF Story
    <3>2. FundedOn(h)' = {f}
      BY <1>0, <2>1, <2>2, <3>1 DEF FundedOn, OffersOn, Funded, FundedStatuses
    <3>3. TheOfferIs(h, ActiveStatuses)'
      BY <2>1, <3>2 DEF TheOfferIs, ActiveStatuses
    <3> QED BY <2>3, <3>3 DEF Story
  <2> QED BY <1>0, <2>1, <2>2, <2>4, StoryOfMove
<1>5. ASSUME NEW h \in InvoiceIds, NEW amount \in Payments, RepayInvoice(a, h, f, amount)
      PROVE  Story(i)'
  <2>2. PICK to \in {"Repaid", "Financed"} :
          to = IF FullyRepaid(offers[f], amount) THEN "Repaid" ELSE "Financed"
    OBVIOUS
  <2>1. /\ offers[f].status \in ActiveStatuses
        /\ offers[f].invoice_id = h
        /\ offers'[f].status = to
        /\ offers'[f].invoice_id = h
        /\ invoices[h].status = "Financed"
        /\ MoveStatus(h, to, "repayment")
    BY <1>0, <1>5, <2>2 DEF RepayInvoice, RecordRepayment, RepaymentMarksInvoiceRepaid, Offer
  <2>3. invoices'[h].status = to
    BY <2>1, MoveOfOne DEF Moved
  <2>4. ASSUME Story(h) PROVE Story(h)'
    <3>1. PICK g \in OfferIds : FundedOn(h) = {g}
      BY <2>1, <2>4 DEF Story, TheOfferIs
    <3>2. f \in FundedOn(h)
      BY <2>1 DEF FundedOn, OffersOn, Funded, ActiveStatuses, FundedStatuses
    <3>3. FundedOn(h)' = FundedOn(h)
      BY <1>0, <2>1, <2>2 DEF FundedOn, OffersOn, Funded, ActiveStatuses, FundedStatuses
    <3>4. FundedOn(h)' = {f}
      BY <3>1, <3>2, <3>3
    <3>5. TheOfferIs(h, {to})'
      BY <2>1, <3>4 DEF TheOfferIs
    <3>6. to = "Financed" => TheOfferIs(h, ActiveStatuses)'
      BY <2>1, <3>4 DEF TheOfferIs, ActiveStatuses
    <3> QED BY <2>2, <2>3, <3>5, <3>6 DEF Story
  <2> QED BY <1>0, <2>1, <2>4, StoryOfMove
<1>6. ASSUME NEW h \in InvoiceIds, NEW pool \in PoolBalances, ReclaimInvoice(a, h, f, pool)
      PROVE  Story(i)'
  <2>1. /\ offers[f].status \in ActiveStatuses
        /\ offers[f].invoice_id = h
        /\ offers'[f].status = "Defaulted"
        /\ offers'[f].invoice_id = h
        /\ invoices[h].status = "Overdue"
        /\ MoveStatus(h, "Defaulted", "repayment")
    BY <1>0, <1>6 DEF ReclaimInvoice, RecordDefault, RepaymentMarksDefaulted, Offer
  <2>3. invoices'[h].status = "Defaulted"
    BY <2>1, MoveOfOne DEF Moved
  <2>4. ASSUME Story(h) PROVE Story(h)'
    <3>1. PICK g \in OfferIds : FundedOn(h) = {g}
      BY <2>1, <2>4 DEF Story, TheOfferIs
    <3>2. f \in FundedOn(h)
      BY <2>1 DEF FundedOn, OffersOn, Funded, ActiveStatuses, FundedStatuses
    <3>3. FundedOn(h)' = FundedOn(h)
      BY <1>0, <2>1 DEF FundedOn, OffersOn, Funded, ActiveStatuses, FundedStatuses
    <3>4. FundedOn(h)' = {f}
      BY <3>1, <3>2, <3>3
    <3>5. TheOfferIs(h, {"Defaulted"})'
      BY <2>1, <3>4 DEF TheOfferIs
    <3> QED BY <2>3, <3>5 DEF Story
  <2> QED BY <1>0, <2>1, <2>4, StoryOfMove
<1> QED BY <1>2, <1>3, <1>4, <1>5, <1>6 DEF OfferStep

LEMMA StoryStep ==
  ASSUME TypeInv, AuditTrail, LoanInv, StoryInv, [Next]_vars
  PROVE  StoryInv'
<1> SUFFICES ASSUME NEW i \in InvoiceIds, SystemOnly(i)' PROVE Story(i)'
  BY DEF StoryInv
<1>1. ASSUME Unmoved(i), UNCHANGED offers PROVE Story(i)'
  <2>1. FundedOn(i)' = FundedOn(i)
    BY <1>1 DEF FundedOn, OffersOn, Funded
  <2> QED BY <1>1, <2>1, StorySame
<1>2. CASE UNCHANGED vars
  BY <1>1, <1>2 DEF vars, regVars, finVars, Unmoved
<1>3. CASE PenaltyNext
  BY <1>1, <1>3 DEF PenaltyNext, SetPenalty, regVars, finVars, Unmoved
<1>4. CASE RegUserNext /\ UNCHANGED <<finVars, repVars>>
  BY <1>4, StoryOfUserStep DEF finVars
<1>5. CASE \E f \in OfferIds, a \in Address : OfferStep(f, a)
  BY <1>5, StoryOfOfferStep
<1> QED BY <1>2, <1>3, <1>4, <1>5, ProtocolStepKinds

LEMMA ProtocolAuditTrail == Spec => []AuditTrail
BY ProtocolImplementsRegistry, RegistryAuditTrail, PTL DEF ImplementsRegistry

LEMMA ProtocolStory == Spec => []StoryInv
<1>1. Init => StoryInv
  <2> SUFFICES ASSUME Init, NEW i \in InvoiceIds PROVE Story(i)
    BY DEF StoryInv
  <2>1. FundedOn(i) = {} /\ invoices[i].status = "Absent"
    BY DEF Init, RegInit, FinInit, FundedOn, OffersOn, Funded, FundedStatuses, AbsentOffer,
           AbsentInvoice
  <2> QED BY <2>1 DEF Story
<1>2. TypeInv /\ AuditTrail /\ LoanInv /\ StoryInv /\ [Next]_vars => StoryInv'
  BY StoryStep
<1> QED BY <1>1, <1>2, ProtocolTypeInv, ProtocolAuditTrail, ProtocolLoanInv, PTL DEF Spec

(***************************************************************************)
(* As long as nobody moved an invoice by hand, it and its offers tell the  *)
(* same story, in every state of every instance: exactly one offer is      *)
(* active while it is Financed or Overdue, none before, and the one ends   *)
(* the way the invoice ends.                                               *)
(***************************************************************************)
THEOREM ProtocolStatusAgreement == Spec => []StatusAgreement
<1>1. ASSUME TypeInv, StoryInv PROVE StatusAgreement
  <2> SUFFICES ASSUME NEW i \in InvoiceIds, Story(i)
               PROVE  LET active   == {f \in OffersOn(i) : Active(f)}
                          repaid   == {f \in OffersOn(i) : offers[f].status = "Repaid"}
                          defaults == {f \in OffersOn(i) : offers[f].status = "Defaulted"}
                          sizes    == <<Cardinality(active), Cardinality(repaid),
                                        Cardinality(defaults)>>
                      IN CASE invoices[i].status \in {"Absent", "Pending"} -> sizes = <<0, 0, 0>>
                           [] invoices[i].status \in {"Financed", "Overdue"}
                                -> sizes = <<1, 0, 0>>
                           [] invoices[i].status = "Repaid"    -> sizes = <<0, 1, 0>>
                           [] invoices[i].status = "Defaulted" -> sizes = <<0, 0, 1>>
                           [] OTHER -> FALSE
    BY <1>1 DEF StoryInv, StatusAgreement
  <2> DEFINE active   == {f \in OffersOn(i) : Active(f)}
             repaid   == {f \in OffersOn(i) : offers[f].status = "Repaid"}
             defaults == {f \in OffersOn(i) : offers[f].status = "Defaulted"}
  <2>1. /\ active = {f \in FundedOn(i) : offers[f].status \in ActiveStatuses}
        /\ repaid = {f \in FundedOn(i) : offers[f].status = "Repaid"}
        /\ defaults = {f \in FundedOn(i) : offers[f].status = "Defaulted"}
    BY DEF FundedOn, Funded, Active, FundedStatuses, ActiveStatuses
  <2>2. FundedOn(i) = {} => active = {} /\ repaid = {} /\ defaults = {}
    BY <2>1
  <2>3. TheOfferIs(i, ActiveStatuses) =>
          (\E f : active = {f}) /\ repaid = {} /\ defaults = {}
    BY <2>1 DEF TheOfferIs, ActiveStatuses
  <2>4. TheOfferIs(i, {"Repaid"}) =>
          active = {} /\ (\E f : repaid = {f}) /\ defaults = {}
    BY <2>1 DEF TheOfferIs, ActiveStatuses
  <2>5. TheOfferIs(i, {"Defaulted"}) =>
          active = {} /\ repaid = {} /\ (\E f : defaults = {f})
    BY <2>1 DEF TheOfferIs, ActiveStatuses
  <2> HIDE DEF active, repaid, defaults
  <2>6. Cardinality({}) = 0 /\ \A f : Cardinality({f}) = 1
    BY FS_EmptySet, FS_Singleton
  <2> DEFINE sizes == <<Cardinality(active), Cardinality(repaid), Cardinality(defaults)>>
  <2>7. /\ FundedOn(i) = {} => sizes = <<0, 0, 0>>
        /\ TheOfferIs(i, ActiveStatuses) => sizes = <<1, 0, 0>>
        /\ TheOfferIs(i, {"Repaid"}) => sizes = <<0, 1, 0>>
        /\ TheOfferIs(i, {"Defaulted"}) => sizes = <<0, 0, 1>>
    BY <2>2, <2>3, <2>4, <2>5, <2>6
  <2>8. invoices[i].status \in
          {"Absent", "Pending", "Financed", "Overdue", "Repaid", "Defaulted"}
          => CASE invoices[i].status \in {"Absent", "Pending"} -> sizes = <<0, 0, 0>>
               [] invoices[i].status \in {"Financed", "Overdue"} -> sizes = <<1, 0, 0>>
               [] invoices[i].status = "Repaid"    -> sizes = <<0, 1, 0>>
               [] invoices[i].status = "Defaulted" -> sizes = <<0, 0, 1>>
               [] OTHER -> FALSE
    BY <2>7 DEF Story
  <2>9. invoices[i].status \in
          {"Absent", "Pending", "Financed", "Overdue", "Repaid", "Defaulted"}
    BY <1>1 DEF Story, TypeInv, TypeOK, RegTypeOK, Invoice, Statuses
  <2> QED BY <2>8, <2>9 DEF active, repaid, defaults
<1> QED BY <1>1, ProtocolTypeInv, ProtocolStory, PTL

(* Nothing returns a history to the protocol once somebody else wrote it.  *)
LEMMA SystemOnlyBefore ==
  ASSUME TypeInv, AuditTrail, [Next]_vars, NEW i \in InvoiceIds, SystemOnly(i)'
  PROVE  SystemOnly(i)
<1> USE DEF TypeInv, TypeOK
<1>1. CASE trn_log'[i] = trn_log[i]
  BY <1>1 DEF SystemOnly
<1>2. CASE UNCHANGED regVars \/ QuietStep
  BY <1>1, <1>2 DEF regVars, QuietStep
<1>3. CASE RegisterStep
  BY <1>1, <1>3 DEF RegisterStep, BatchRegisterInvoices
<1>4. ASSUME NEW j \in InvoiceIds, InvoiceStep(j) PROVE SystemOnly(i)
  <2>1. ASSUME NEW to \in Statuses, NEW actor \in Actors, StatusStep(j, to, actor)
        PROVE  SystemOnly(i)
    <3>1. Moved(i, to, actor) \/ Unmoved(i)
      BY <2>1, MoveOfOne DEF StatusStep
    <3> QED BY <1>1, <3>1, SystemMove DEF Unmoved
  <2> QED BY <1>1, <1>4, <2>1 DEF InvoiceStep, AmountStep, TradeStep, ExecuteTokenTransfer,
                                  ApproveStep
<1>5. RegNext \/ UNCHANGED regVars
  BY RegistryInsideStep DEF vars, regVars
<1> QED BY <1>2, <1>3, <1>4, <1>5, StepKinds

(* The principal an invoice's payments add up to is what its one funded    *)
(* offer carries: an offer without funding carries nothing.                *)
LEMMA HistoryIsOfTheOffer ==
  ASSUME TypeInv, LoanInv, IsFiniteSet(Made), NEW i \in InvoiceIds,
         NEW f \in OfferIds, FundedOn(i) = {f}
  PROVE  RepaidOver(OffersOn(i)) = offers[f].amount_repaid
<1> USE DEF TypeInv, TypeOK, FinTypeOK
<1> DEFINE on == OffersOn(i)
           rest == OffersOn(i) \ {f}
           w == RepaidIn(offers)
<1>1. f \in on /\ IsFiniteSet(on)
  BY OffersOnMade, FS_Subset DEF FundedOn
<1>2. IsFiniteSet(rest)
  BY <1>1, FS_RemoveElement
<1>3. \A g \in on : w[g] = offers[g].amount_repaid /\ w[g] \in Int
  BY DEF RepaidIn, OffersOn, Offer
<1>4. \A g \in rest : w[g] = 0
  <2> SUFFICES ASSUME NEW g \in rest PROVE offers[g].amount_repaid = 0
    BY <1>3
  <2>1. g \in OfferIds /\ offers[g].status \notin FundedStatuses
    BY DEF FundedOn, Funded, OffersOn
  <2>2. offers[g].status \in {"Absent", "Pending", "Rejected"}
    BY <2>1 DEF Offer, OfferStatuses, FundedStatuses
  <2> QED BY <2>1, <2>2 DEF LoanInv, OfferAccount, AbsentOffer
<1>5. RepaidOver(on) = SumOver(w, on)
  BY OverOffers
<1> HIDE DEF w
<1>6. SumOver(w, on) = w[f] + SumOver(w, rest)
  <2>1. rest = on \ {f}
    OBVIOUS
  <2> HIDE DEF on, rest
  <2> QED BY <1>1, <1>3, <2>1, SumTakeOff
<1>7. SumOver(w, rest) = 0
  <2> HIDE DEF rest
  <2> QED BY <1>2, <1>4, SumZeros
<1> HIDE DEF on, rest
<1> QED BY <1>1, <1>3, <1>5, <1>6, <1>7 DEF on

(* What the registry and repayment say of an invoice being paid back, put  *)
(* together: its history is the account of the offer being repaid.         *)
LEMMA HistoryOfActive ==
  ASSUME TypeInv, LoanInv, IsFiniteSet(Made), HistoryMatchesOffers, StoryInv,
         NEW f \in OfferIds, NEW i \in InvoiceIds, offers[f].invoice_id = i,
         offers[f].status \in ActiveStatuses, invoices[i].status = "Financed",
         SystemOnly(i), pays[i].count <= MaxPayments
  PROVE  pays[i].principal = offers[f].amount_repaid
<1>1. pays[i].principal = RepaidOver(OffersOn(i))
  BY DEF HistoryMatchesOffers
<1>2. FundedOn(i) = {f}
  <2>1. TheOfferIs(i, ActiveStatuses)
    BY DEF StoryInv, Story
  <2>2. f \in FundedOn(i)
    BY DEF FundedOn, OffersOn, Funded, ActiveStatuses, FundedStatuses
  <2> QED BY <2>1, <2>2 DEF TheOfferIs
<1> QED BY <1>1, <1>2, HistoryIsOfTheOffer

(* A payment is never taken out of a history.                              *)
LEMMA HistoryGrows ==
  ASSUME TypeInv, TypeInv', [Next]_vars, NEW i \in InvoiceIds
  PROVE  pays'[i].count >= pays[i].count
<1>1. pays \in [InvoiceIds -> [count : Nat, principal : Int]]
  BY DEF TypeInv, TypeOK, RepTypeOK
<1>2. CASE UNCHANGED pays
  BY <1>1, <1>2
<1>3. ASSUME NEW g \in OfferIds, Paid(g) PROVE pays'[i].count >= pays[i].count
  BY <1>1, <1>3 DEF Paid
<1> QED BY <1>2, <1>3, OfferStepOrNone DEF Created, Answered, Reclaimed

LEMMA RepaidIsWholeStep ==
  ASSUME TypeInv, AuditTrail, LoanInv, IsFiniteSet(Made), HistoryMatchesOffers, StoryInv,
         RepaidIsWhole, [Next]_vars
  PROVE  RepaidIsWhole'
<1> USE DEF TypeInv, TypeOK, FinTypeOK, RepTypeOK
<1> SUFFICES ASSUME NEW f \in OfferIds, NEW i,
                    i = offers'[f].invoice_id,
                    offers'[f].status = "Repaid", SystemOnly(i)',
                    pays'[i].count <= MaxPayments
             PROVE  offers'[f].amount_repaid >= offers'[f].amount
  BY DEF RepaidIsWhole
<1>0. TypeOK' /\ offers[f] \in Offer /\ offers'[f] \in Offer
  BY TypeInvStep
<1>1. i \in InvoiceIds
  BY TypeInvStep DEF OffersNameTheirParties
<1>2. SystemOnly(i)
  BY <1>1, SystemOnlyBefore
<1>3. CASE offers'[f] = offers[f]
  <2>1. pays[i].count <= MaxPayments
    <3>1. pays[i].count \in Nat /\ pays'[i].count \in Nat
      BY <1>0, <1>1
    <3>2. pays'[i].count >= pays[i].count
      BY <1>1, HistoryGrows, TypeInvStep
    <3>3. \A c, d, m \in Int : d >= c /\ d <= m => c <= m
      OBVIOUS
    <3>4. pays'[i].count <= MaxPayments /\ MaxPayments \in Int
      BY RepaymentAssumption
    <3> QED BY <3>1, <3>2, <3>3, <3>4
  <2> QED BY <1>2, <1>3, <2>1 DEF RepaidIsWhole
<1>4. CASE offers'[f] # offers[f]
  <2>1. PICK g \in OfferIds, a \in Address : OfferStep(g, a)
    BY <1>4, ProtocolStepKinds DEF vars, finVars, PenaltyNext, SetPenalty
  <2>2. g = f
    BY <1>4, <2>1, EntriesOfOfferStep
  <2>3. PICK h \in InvoiceIds, amount \in Payments :
          RepayInvoice(a, h, f, amount) /\ FullyRepaid(offers[f], amount)
    <3>1. CASE \E j \in InvoiceIds, amount \in Principals, rate \in Rates, e \in Expiries :
                 CreateOffer(f, j, a, amount, rate, e)
      BY <3>1 DEF CreateOffer
    <3>2. CASE RefuseStep(f)
      BY <1>0, <3>2 DEF RefuseStep, Offer
    <3>3. CASE AcceptOffer(f, a)
      BY <1>0, <3>3 DEF AcceptOffer, SettleAcceptance, Offer
    <3>4. ASSUME NEW h \in InvoiceIds, NEW amount \in Payments,
                 RepayInvoice(a, h, f, amount)
          PROVE  FullyRepaid(offers[f], amount)
      BY <1>0, <3>4 DEF RepayInvoice, RecordRepayment, Offer
    <3>5. CASE \E j \in InvoiceIds, pool \in PoolBalances : ReclaimInvoice(a, j, f, pool)
      BY <1>0, <3>5 DEF ReclaimInvoice, RecordDefault, Offer
    <3> QED BY <2>1, <2>2, <3>1, <3>2, <3>3, <3>4, <3>5 DEF OfferStep
  <2> DEFINE portion == PrincipalPortion(offers[f], amount)
  <2>4. /\ offers[f].invoice_id = h
        /\ invoices[h].status = "Financed"
        /\ offers[f].status \in ActiveStatuses
        /\ offers'[f].invoice_id = h
        /\ offers'[f].amount = offers[f].amount
        /\ offers'[f].amount_repaid = offers[f].amount_repaid + portion
        /\ pays'[h].count = pays[h].count + 1
    BY <1>0, <2>3 DEF RepayInvoice, RecordRepayment, Offer
  <2>5. h = i
    BY <2>4
  <2>6. portion \in Nat
    BY <2>3, <2>4, PortionType, RepaymentAssumption
  <2>7. RemainingPrincipal(offers[f]) - portion <= 0
    BY <2>3 DEF FullyRepaid
  <2> HIDE DEF portion
  <2>8. offers[f].amount \in Int /\ offers[f].amount_repaid \in Int
        /\ pays[i].principal \in Int /\ pays[i].count \in Nat
    BY <1>0, <1>1 DEF Offer
  <2>9. offers[f].amount - pays[i].principal <= portion
    <3>1. RemainingPrincipal(offers[f]) >= offers[f].amount - pays[i].principal
      BY SMTT(20), <2>4, <2>5, <2>8 DEF RemainingPrincipal, AtLeast
    <3>2. RemainingPrincipal(offers[f]) \in Int
      BY <2>4, AmountFacts
    <3>3. \A r, d, p \in Int : r - p <= 0 /\ r >= d => d <= p
      OBVIOUS
    <3>4. offers[f].amount - pays[i].principal \in Int
      BY SMTT(20), <2>8
    <3> QED BY <2>6, <2>7, <3>1, <3>2, <3>3, <3>4
  <2>10. pays[i].count <= MaxPayments
    BY <2>4, <2>5, <2>8, RepaymentAssumption
  <2>11. pays[i].principal = offers[f].amount_repaid
    BY <1>1, <1>2, <2>4, <2>5, <2>10, HistoryOfActive
  <2> QED BY <2>4, <2>6, <2>8, <2>9, <2>11
<1> QED BY <1>3, <1>4

(***************************************************************************)
(* A repaid offer got its whole principal back, whatever the order of      *)
(* payments, penalties and interest, while nobody moved its invoice by     *)
(* hand and the history is summed whole.  What full repayment is decided   *)
(* by is the history of the invoice; that it is the history of this offer  *)
(* takes StatusAgreement and HistoryMatchesOffers.                         *)
(***************************************************************************)
THEOREM ProtocolRepaidIsWhole == Spec => []RepaidIsWhole
<1>1. Init => RepaidIsWhole
  BY DEF Init, FinInit, AbsentOffer, RepaidIsWhole
<1>2. TypeInv /\ AuditTrail /\ LoanInv /\ IsFiniteSet(Made) /\ HistoryMatchesOffers
        /\ StoryInv /\ RepaidIsWhole /\ [Next]_vars => RepaidIsWhole'
  BY RepaidIsWholeStep
<1> QED
  BY <1>1, <1>2, ProtocolTypeInv, ProtocolAuditTrail, ProtocolLoanInv, ProtocolBooks,
     ProtocolHistoryMatchesOffers, ProtocolStory, PTL DEF Spec

-----------------------------------------------------------------------------
(* The promise made to lenders *)

(* The stage of a loan, status by status.                                  *)
LEMMA LoanStages ==
  /\ LoanStage["Absent"] = "none"
  /\ LoanStage["Pending"] = "offered"
  /\ LoanStage["Rejected"] = "refused"
  /\ \A s \in ActiveStatuses : LoanStage[s] = "running"
  /\ LoanStage["Financed"] = "running"
  /\ LoanStage["Accepted"] = "running"
  /\ LoanStage["Repaid"] = "repaid"
  /\ LoanStage["Defaulted"] = "defaulted"
  /\ \A s \in OfferStatuses : LoanStage[s] \in L!Started => s \in FundedStatuses
BY DEF LoanStage, OfferStatuses, ActiveStatuses, FundedStatuses, L!Started

(* What the loan of an offer is, before and after a step, field by field.  *)
Fields(r) == [stage |-> r.stage, terms |-> r.terms, since |-> r.since,
              returned |-> r.returned, covered |-> r.covered]

LEMMA LoanFields ==
  ASSUME NEW f
  PROVE  /\ LoanOf(f) = Fields(LoanOf(f))
         /\ LoanOf(f).stage = LoanStage[offers[f].status]
         /\ LoanOf(f).terms = TermsOf(offers[f])
         /\ LoanOf(f).since = offers[f].funded_at
         /\ LoanOf(f).returned = offers[f].amount_repaid
         /\ LoanOf(f).covered = [k \in 1 .. Len(payouts[f]) |-> payouts[f][k][2]]
BY DEF LoanOf, Fields

LEMMA LoanFieldsAfter ==
  ASSUME NEW f
  PROVE  /\ LoanOf(f)' = Fields(LoanOf(f)')
         /\ LoanOf(f)'.stage = LoanStage[offers'[f].status]
         /\ LoanOf(f)'.terms = TermsOf(offers'[f])
         /\ LoanOf(f)'.since = offers'[f].funded_at
         /\ LoanOf(f)'.returned = offers'[f].amount_repaid
         /\ LoanOf(f)'.covered = [k \in 1 .. Len(payouts'[f]) |-> payouts'[f][k][2]]
BY DEF LoanOf, Fields

(* A call about one offer changes one loan.                                *)
LEMMA OtherLoansStay ==
  ASSUME NEW f \in OfferIds,
         \A g \in OfferIds \ {f} : offers'[g] = offers[g] /\ payouts'[g] = payouts[g]
  PROVE  Loans' = [Loans EXCEPT ![f] = Loans'[f]]
<1>1. \A g \in OfferIds \ {f} : LoanOf(g)' = LoanOf(g)
  BY DEF LoanOf
<1>2. Loans' = [g \in OfferIds |-> LoanOf(g)'] /\ Loans = [g \in OfferIds |-> LoanOf(g)]
  BY DEF Loans
<1> QED BY <1>1, <1>2

(* An invoice left to the protocol was left to it before: claims only ever *)
(* go astray.                                                              *)
LEMMA AstrayGrows ==
  ASSUME TypeInv, AuditTrail, [Next]_vars
  PROVE  Astray \subseteq Astray' /\ Astray' \subseteq InvoiceIds
<1> SUFFICES ASSUME NEW i \in InvoiceIds, i \notin Astray' PROVE i \notin Astray
  BY DEF Astray
<1>1. TypeInv'
  BY TypeInvStep
<1>2. SystemOnly(i)
  BY SystemOnlyBefore DEF Astray
<1>3. pays[i].count \in Nat /\ pays'[i].count \in Nat
  BY <1>1 DEF TypeInv, TypeOK, RepTypeOK
<1>4. pays'[i].count >= pays[i].count /\ ~(pays'[i].count > MaxPayments)
  BY <1>1, HistoryGrows DEF Astray
<1> QED BY <1>2, <1>3, <1>4, RepaymentAssumption DEF Astray

(* accept_offer starts the only loan of its claim: it asks that the        *)
(* invoice be Pending, and looks at no other offer.                        *)
LEMMA AcceptedAlone ==
  ASSUME TypeInv, StoryInv, NEW f \in OfferIds, NEW i \in InvoiceIds,
         invoices[i].status = "Pending", i \notin Astray,
         NEW k \in OfferIds, LoanOf(k).stage \in L!Started
  PROVE  offers[k].invoice_id # i
<1>1. SystemOnly(i)
  BY DEF Astray
<1>2. FundedOn(i) = {}
  BY <1>1 DEF StoryInv, Story
<1>3. offers[k].status \in FundedStatuses
  BY LoanStages DEF LoanOf, TypeInv, TypeOK, FinTypeOK, Offer
<1> QED BY <1>2, <1>3 DEF FundedOn, OffersOn, Funded

(* What a default leaves of the payouts: none, or one within the insured.  *)
LEMMA CoveredOnce ==
  ASSUME TypeInv, PayoutInv, PayoutInv', NEW f \in OfferIds, Reclaimed(f)
  PROVE  LET covered == LoanOf(f)'.covered
         IN /\ Len(covered) <= 1
            /\ \A k \in 1 .. Len(covered) :
                 /\ covered[k] >= 0
                 /\ offers[f].amount_repaid + covered[k] <= FlatDue(offers[f])
<1> USE DEF TypeInv, TypeOK, FinTypeOK, RepTypeOK
<1> DEFINE asked == AtLeast(FlatDue(offers[f]) - offers[f].amount_repaid, 0)
           covered == [k \in 1 .. Len(payouts'[f]) |-> payouts'[f][k][2]]
<1>1. PICK pool \in Nat : PayOut(f, asked, pool)
  BY DEF Reclaimed
<1>2. /\ offers'[f].status = "Defaulted"
      /\ offers'[f].amount_repaid = offers[f].amount_repaid
      /\ FlatDue(offers'[f]) = FlatDue(offers[f])
  BY DEF Reclaimed, Offer, FlatDue
<1>3. payouts[f] = << >>
  BY DEF PayoutInv, PayoutAccount, Reclaimed, ActiveStatuses
<1>6. LoanOf(f)'.covered = covered
  BY LoanFieldsAfter
<1>4. CASE "insurance" \notin Wired
  <2>1. payouts'[f] = << >>
    BY <1>1, <1>3, <1>4 DEF PayOut
  <2>2. covered = << >>
    BY <2>1
  <2> HIDE DEF covered
  <2> QED BY <1>6, <2>2
<1>5. CASE "insurance" \in Wired
  <2> DEFINE paid == AtMost(asked, pool)
  <2>1. asked > 0 /\ payouts'[f] = <<<<asked, paid>>>>
    BY <1>1, <1>3, <1>5 DEF PayOut
  <2>2. FlatDue(offers[f]) \in Int /\ offers[f].amount_repaid \in Int
    <3>1. /\ offers[f].amount \in Int
          /\ offers[f].interest_rate \in Int
          /\ offers[f].amount_repaid \in Int
      BY DEF Offer
    <3>2. Bps(offers[f].amount, offers[f].interest_rate, BpsUnit) \in Int
      BY <3>1, BpsType
    <3> QED BY <3>1, <3>2 DEF FlatDue
  <2> HIDE DEF FlatDue
  <2>3. asked \in Int
    BY <2>2 DEF AtLeast
  <2> HIDE DEF asked
  <2>4. paid \in Int /\ paid >= 0
    BY <2>1, <2>3 DEF AtMost
  <2> HIDE DEF paid
  <2>5. Len(payouts'[f]) = 1 /\ payouts'[f][1][2] = paid
    BY <2>1
  <2>6. covered = <<paid>>
    BY <2>5
  <2>7. offers[f].amount_repaid + paid <= FlatDue(offers[f])
    BY <1>2, <1>5, <2>5 DEF PayoutInv, PayoutAccount
  <2> HIDE DEF covered
  <2> QED BY <1>6, <2>4, <2>6, <2>7
<1> QED BY <1>4, <1>5

(* A call about an offer is a step of its loan.                            *)
LEMMA LoanOfOfferStep ==
  ASSUME TypeInv, LoanInv, PayoutInv, PayoutInv', StoryInv,
         IsFiniteSet(Made), HistoryMatchesOffers,
         NEW f \in OfferIds, NEW a \in Address, OfferStep(f, a)
  PROVE  L!LoanStep(f)
<1> USE DEF TypeInv, TypeOK, FinTypeOK, RepTypeOK
<1> DEFINE o == LoanOf(f)
           p == LoanOf(f)'
<1>0. offers[f] \in Offer
  OBVIOUS
<1>1. Loans[f] = o /\ Loans'[f] = p
  BY DEF Loans
<1>2. Loans' = [Loans EXCEPT ![f] = p]
  <2>1. \A g \in OfferIds \ {f} : offers'[g] = offers[g] /\ payouts'[g] = payouts[g]
    <3>1. Created(f) \/ Answered(f) \/ Paid(f) \/ Reclaimed(f)
      BY OfferWrites
    <3>2. CASE Created(f) \/ Answered(f) \/ Paid(f)
      BY <3>2 DEF Created, Answered, Paid
    <3>3. CASE Reclaimed(f)
      <4>1. \A g \in OfferIds \ {f} : offers'[g] = offers[g]
        BY <3>3 DEF Reclaimed
      <4>2. \A g \in OfferIds \ {f} : payouts'[g] = payouts[g]
        BY <3>3 DEF Reclaimed, PayOut
      <4> QED BY <4>1, <4>2
    <3> QED BY <3>1, <3>2, <3>3
  <2> QED BY <1>1, <2>1, OtherLoansStay
<1>3. DOMAIN Loans = OfferIds
  BY DEF Loans
<1>4. /\ o = Fields(o)
      /\ o.stage = LoanStage[offers[f].status]
      /\ o.terms = TermsOf(offers[f])
      /\ o.since = offers[f].funded_at
      /\ o.returned = offers[f].amount_repaid
      /\ o.covered = [k \in 1 .. Len(payouts[f]) |-> payouts[f][k][2]]
  BY LoanFields
<1>5. /\ p = Fields(p)
      /\ p.stage = LoanStage[offers'[f].status]
      /\ p.terms = TermsOf(offers'[f])
      /\ p.since = offers'[f].funded_at
      /\ p.returned = offers'[f].amount_repaid
      /\ p.covered = [k \in 1 .. Len(payouts'[f]) |-> payouts'[f][k][2]]
  BY LoanFieldsAfter
<1>6. payouts' = payouts => p.covered = o.covered
  <2> SUFFICES ASSUME payouts' = payouts PROVE p.covered = o.covered
    OBVIOUS
  <2>1. p.covered = [k \in 1 .. Len(payouts[f]) |-> payouts[f][k][2]]
    BY <1>5
  <2> HIDE DEF o, p
  <2> QED BY <1>4, <2>1
<1> HIDE DEF o, p
<1>7. ASSUME NEW i \in InvoiceIds, NEW amount \in Principals, NEW rate \in Rates,
             NEW e \in Expiries, CreateOffer(f, i, a, amount, rate, e), UNCHANGED repVars
      PROVE  L!Offer(f, p.terms)
  <2>1. offers[f] = AbsentOffer
    BY <1>7 DEF CreateOffer, LoanInv, OfferAccount
  <2>2. offers'[f] = [invoice_id |-> i, lender |-> a, amount |-> amount,
                      interest_rate |-> rate, expires_at |-> e, status |-> "Pending",
                      funded_at |-> 0, amount_repaid |-> 0]
    BY <1>7 DEF CreateOffer
  <2>3. payouts' = payouts /\ amount > 0
    BY <1>7 DEF CreateOffer, repVars
  <2>4. o.stage = "none" /\ p.stage = "offered" /\ p.since = o.since
          /\ p.returned = o.returned /\ p.covered = o.covered
    BY <1>4, <1>5, <1>6, <2>1, <2>2, <2>3, LoanStages DEF AbsentOffer
  <2>5. p.terms.claim = i /\ p.terms.lent = amount
    BY <1>5, <2>2 DEF TermsOf
  <2>6. p = [o EXCEPT !.stage = "offered", !.terms = p.terms]
    BY <1>4, <1>5, <2>4 DEF Fields
  <2> QED BY <1>1, <1>2, <1>3, <2>3, <2>4, <2>5, <2>6 DEF L!Offer
<1>8. ASSUME RefuseStep(f) PROVE L!Refuse(f)
  <2>1. offers[f].status = "Pending" /\ payouts' = payouts
    BY <1>8 DEF RefuseStep, repVars
  <2>2. offers'[f] = [offers[f] EXCEPT !.status = "Rejected"]
    BY <1>8 DEF RefuseStep
  <2>3. TermsOf(offers'[f]) = TermsOf(offers[f])
    BY <1>0, <2>2 DEF TermsOf, FlatDue, Offer
  <2>4. /\ offers'[f].status = "Rejected"
        /\ offers'[f].funded_at = offers[f].funded_at
        /\ offers'[f].amount_repaid = offers[f].amount_repaid
    BY <1>0, <2>2 DEF Offer
  <2>5. o.stage = "offered" /\ p.stage = "refused" /\ p.terms = o.terms
          /\ p.since = o.since /\ p.returned = o.returned /\ p.covered = o.covered
    BY <1>4, <1>5, <1>6, <2>1, <2>3, <2>4, LoanStages
  <2>6. p = [o EXCEPT !.stage = "refused"]
    BY <1>4, <1>5, <2>5 DEF Fields
  <2> QED BY <1>1, <1>2, <1>3, <2>5, <2>6 DEF L!Refuse
<1>9. ASSUME AcceptOffer(f, a), UNCHANGED repVars PROVE L!Start(f, p.since)
  <2> DEFINE i == offers[f].invoice_id
  <2>1. /\ offers[f].status = "Pending"
        /\ invoices[i].status = "Pending"
        /\ payouts' = payouts
        /\ offers'[f] = [offers[f] EXCEPT !.status = "Accepted", !.funded_at = now]
    BY <1>9 DEF AcceptOffer, SettleAcceptance, repVars
  <2>2. i \in InvoiceIds
    BY <2>1 DEF OffersNameTheirParties
  <2>3. TermsOf(offers'[f]) = TermsOf(offers[f])
    BY <1>0, <2>1 DEF TermsOf, FlatDue, Offer
  <2>5. /\ offers'[f].status = "Accepted"
        /\ offers'[f].amount_repaid = offers[f].amount_repaid
    BY <1>0, <2>1 DEF Offer
  <2>6. o.stage = "offered" /\ p.stage = "running" /\ p.terms = o.terms
          /\ p.returned = o.returned /\ p.covered = o.covered
    BY <1>4, <1>5, <1>6, <2>1, <2>3, <2>5, LoanStages
  <2>7. p = [o EXCEPT !.stage = "running", !.since = p.since]
    BY <1>4, <1>5, <2>6 DEF Fields
  <2>4. ASSUME NEW k \in OfferIds, Loans[k].stage \in L!Started,
               Loans[k].terms.claim = Loans[f].terms.claim
        PROVE  Loans[f].terms.claim \in Astray
    <3>1. LoanOf(k).stage \in L!Started
      BY <2>4 DEF Loans
    <3>2. Loans[k].terms.claim = offers[k].invoice_id /\ Loans[f].terms.claim = i
      <4>1. \A g \in OfferIds : LoanOf(g).terms = TermsOf(offers[g])
        BY LoanFields
      <4>2. \A g \in OfferIds : Loans[g] = LoanOf(g)
        BY DEF Loans
      <4>3. \A g \in OfferIds : TermsOf(offers[g]).claim = offers[g].invoice_id
        BY DEF TermsOf
      <4> QED BY <4>1, <4>2, <4>3
    <3> QED BY <2>1, <2>2, <2>4, <3>1, <3>2, AcceptedAlone
  <2> QED BY <1>1, <1>2, <1>3, <2>4, <2>6, <2>7 DEF L!Start
<1>10. ASSUME NEW h \in InvoiceIds, NEW amount \in Payments, RepayInvoice(a, h, f, amount)
      PROVE  \E last \in BOOLEAN : L!Return(f, p.returned - o.returned, last)
  <2> DEFINE portion == PrincipalPortion(offers[f], amount)
             last == FullyRepaid(offers[f], amount)
  <2>1. /\ offers[f].invoice_id = h
        /\ invoices[h].status = "Financed"
        /\ offers[f].status \in ActiveStatuses
        /\ RemainingPrincipal(offers[f]) > 0
        /\ payouts' = payouts
        /\ offers'[f] = [offers[f] EXCEPT !.status = IF last THEN "Repaid" ELSE "Financed",
                                         !.amount_repaid = offers[f].amount_repaid + portion]
    BY <1>10 DEF RepayInvoice, RecordRepayment
  <2>2. last \in BOOLEAN
    BY DEF FullyRepaid
  <2>3. portion \in Nat
    BY <2>1, PortionType, RepaymentAssumption
  <2>4. last <=> RemainingPrincipal(offers[f]) - portion <= 0
    BY DEF FullyRepaid
  <2> HIDE DEF portion, last
  <2>5. /\ o.stage = "running"
        /\ o.terms.claim = h
        /\ o.terms.lent = offers[f].amount
    BY <1>4, <2>1, LoanStages DEF TermsOf
  <2>6. TermsOf(offers'[f]) = TermsOf(offers[f])
    BY <1>0, <2>1 DEF TermsOf, FlatDue, Offer
  <2>7. /\ offers'[f].status = IF last THEN "Repaid" ELSE "Financed"
        /\ offers'[f].funded_at = offers[f].funded_at
        /\ offers'[f].amount_repaid = offers[f].amount_repaid + portion
    BY <1>0, <2>1 DEF Offer
  <2>8. /\ offers[f].amount \in Int /\ offers[f].amount_repaid \in Int
        /\ pays[h].principal \in Int /\ pays[h].count \in Nat
    BY <1>0 DEF Offer
  <2>9. p.stage = (IF last THEN "repaid" ELSE "running") /\ p.terms = o.terms
          /\ p.since = o.since /\ p.covered = o.covered
    BY <1>4, <1>5, <1>6, <2>1, <2>2, <2>6, <2>7, LoanStages
  <2>10. ASSUME h \notin Astray
         PROVE  last <=> p.returned >= offers[f].amount
    <3>1. SystemOnly(h) /\ pays[h].count <= MaxPayments
      BY <2>8, <2>10, RepaymentAssumption DEF Astray
    <3>2. pays[h].principal = offers[f].amount_repaid
      BY <2>1, <3>1, HistoryOfActive
    <3>3. RemainingPrincipal(offers[f]) = offers[f].amount - pays[h].principal
      BY <2>1, <2>8 DEF RemainingPrincipal, AtLeast
    <3>4. last <=> (offers[f].amount - offers[f].amount_repaid) - portion <= 0
      BY <2>4, <3>2, <3>3
    <3>5. p.returned = offers[f].amount_repaid + portion
      BY <1>5, <2>7
    <3>6. \A lent, returned, x \in Int :
            (lent - returned) - x <= 0 <=> returned + x >= lent
      OBVIOUS
    <3> QED BY <2>3, <2>8, <3>4, <3>5, <3>6
  <2> DEFINE x == p.returned - o.returned
  <2>11. x = portion /\ o.returned + x = p.returned
    BY <1>4, <1>5, <2>3, <2>7, <2>8
  <2> HIDE DEF x
  <2>12. p = [o EXCEPT !.returned = o.returned + x,
                       !.stage = IF last THEN "repaid" ELSE "running"]
    BY <1>4, <1>5, <2>9, <2>11 DEF Fields
  <2>13. Loans' = [Loans EXCEPT ![f].returned = Loans[f].returned + x,
                                ![f].stage = IF last THEN "repaid" ELSE "running"]
    BY <1>1, <1>2, <1>3, <2>12
  <2>14. \/ last <=> Loans[f].returned + x >= Loans[f].terms.lent
         \/ Loans[f].terms.claim \in Astray
    BY <1>1, <2>5, <2>10, <2>11
  <2>15. L!Return(f, x, last)
    BY <1>1, <2>3, <2>5, <2>11, <2>13, <2>14 DEF L!Return
  <2> QED BY <2>2, <2>15 DEF x
<1>11. ASSUME NEW i \in InvoiceIds, NEW pool \in PoolBalances, ReclaimInvoice(a, i, f, pool)
      PROVE  L!Default(f, p.covered)
  <2>1. Reclaimed(f)
    BY <1>11, RepaymentAssumption DEF ReclaimInvoice, RecordDefault, Reclaimed
  <2>2. offers'[f] = [offers[f] EXCEPT !.status = "Defaulted"]
    BY <2>1 DEF Reclaimed
  <2>3. /\ o.stage = "running"
        /\ o.returned = offers[f].amount_repaid
        /\ o.terms.insured = FlatDue(offers[f])
    BY <1>4, <2>1, LoanStages DEF Reclaimed, TermsOf
  <2>4. TermsOf(offers'[f]) = TermsOf(offers[f])
    BY <1>0, <2>2 DEF TermsOf, FlatDue, Offer
  <2>6. /\ offers'[f].status = "Defaulted"
        /\ offers'[f].funded_at = offers[f].funded_at
        /\ offers'[f].amount_repaid = offers[f].amount_repaid
    BY <1>0, <2>2 DEF Offer
  <2>7. p.stage = "defaulted" /\ p.terms = o.terms
          /\ p.since = o.since /\ p.returned = o.returned
    BY <1>4, <1>5, <2>4, <2>6, LoanStages
  <2>8. p = [o EXCEPT !.stage = "defaulted", !.covered = p.covered]
    BY <1>4, <1>5, <2>7 DEF Fields
  <2>5. /\ Len(p.covered) <= 1
        /\ \A k \in 1 .. Len(p.covered) :
             /\ p.covered[k] >= 0
             /\ offers[f].amount_repaid + p.covered[k] <= FlatDue(offers[f])
    BY <2>1, CoveredOnce DEF p
  <2>9. /\ Loans[f].stage = "running"
        /\ \A k \in 1 .. Len(p.covered) :
             p.covered[k] >= 0 /\ Loans[f].returned + p.covered[k] <= Loans[f].terms.insured
    BY <1>1, <2>3, <2>5
  <2>10. Loans' = [Loans EXCEPT ![f].stage = "defaulted", ![f].covered = p.covered]
    BY <1>1, <1>2, <1>3, <2>8
  <2> QED BY <2>5, <2>9, <2>10 DEF L!Default
<1>12. \/ L!Offer(f, p.terms) \/ L!Refuse(f) \/ L!Start(f, p.since)
      \/ \E last \in BOOLEAN : L!Return(f, p.returned - o.returned, last)
      \/ L!Default(f, p.covered)
  BY <1>7, <1>8, <1>9, <1>10, <1>11 DEF OfferStep
<1> QED BY <1>1, <1>12 DEF L!LoanStep

(***************************************************************************)
(* The three contracts implement Loan: from the side of a lender, whatever *)
(* order calls, pauses, trades of the claim and moves by hand come in, an  *)
(* offer is one loan on fixed terms, the only one started on a claim that  *)
(* is left to the protocol, over exactly when the principal is back, and   *)
(* covered once at most, for a default, within what was insured.           *)
(***************************************************************************)
THEOREM ProtocolImplementsLoan == Spec => ImplementsLoan
<1>1. Init => L!Init
  <2> SUFFICES ASSUME Init, NEW f \in OfferIds
               PROVE  LoanOf(f) = [stage |-> "none", terms |-> TermsOf(AbsentOffer),
                                   since |-> 0, returned |-> 0, covered |-> << >>]
    BY DEF L!Init, Loans, Astray
  <2>1. offers[f] = AbsentOffer /\ payouts[f] = << >>
    BY DEF Init, FinInit, RepInit
  <2>2. [k \in 1 .. Len(payouts[f]) |-> payouts[f][k][2]] = << >>
    BY <2>1
  <2> QED BY <2>1, <2>2, LoanStages DEF LoanOf, AbsentOffer
<1>2. ASSUME TypeInv, AuditTrail, LoanInv, PayoutInv, StoryInv, IsFiniteSet(Made),
             HistoryMatchesOffers, PayoutInv', [Next]_vars
      PROVE  [L!Next]_(L!vars)
  <2>1. Astray \subseteq Astray' /\ Astray' \subseteq InvoiceIds
    BY <1>2, AstrayGrows
  <2>2. CASE UNCHANGED <<offers, payouts>>
    <3>1. UNCHANGED Loans
      BY <2>2 DEF Loans, LoanOf
    <3> QED BY <2>1, <3>1 DEF L!Next
  <2>3. ASSUME NEW f \in OfferIds, NEW a \in Address, OfferStep(f, a)
        PROVE  L!Next
    BY <1>2, <2>1, <2>3, LoanOfOfferStep DEF L!Next
  <2>4. CASE UNCHANGED vars \/ PenaltyNext \/ (RegUserNext /\ UNCHANGED <<finVars, repVars>>)
    BY <2>2, <2>4 DEF vars, finVars, repVars, PenaltyNext, SetPenalty
  <2> QED BY <1>2, <2>3, <2>4, ProtocolStepKinds
<1> QED
  BY <1>1, <1>2, ProtocolTypeInv, ProtocolAuditTrail, ProtocolLoanInv, ProtocolPayoutInv,
     ProtocolStory, ProtocolBooks, ProtocolHistoryMatchesOffers, PTL
  DEF Spec, ImplementsLoan, L!Spec

-----------------------------------------------------------------------------
(* The outcomes of an account *)

(* The invoices the account held when repayment settled them with status s *)
SettledBy(a, s) ==
  {i \in InvoiceIds : /\ invoices[i].status = s
                      /\ LastActor(i) = "repayment"
                      /\ invoices[i].originator = a}

OutcomesOf(a) ==
  LET wired == "reputation" \in Wired
  IN /\ IsFiniteSet(SettledBy(a, "Repaid"))
     /\ IsFiniteSet(SettledBy(a, "Defaulted"))
     /\ rep[a].repayments = (IF wired THEN Cardinality(SettledBy(a, "Repaid")) ELSE 0)
     /\ rep[a].defaults = (IF wired THEN Cardinality(SettledBy(a, "Defaulted")) ELSE 0)

OutcomesInv == \A a \in Address : OutcomesOf(a)

(* The last entry of a history is the last move.                           *)
LEMMA LastMove ==
  ASSUME RegTypeOK, AuditTrail, NEW i \in InvoiceIds, NEW to \in Statuses,
         NEW actor \in Actors, Moved(i, to, actor)
  PROVE  LastActor(i)' = actor
<1> DEFINE entry == [from |-> invoices[i].status, to |-> to, actor |-> actor]
           log == trn_log[i]
<1>1. /\ entry \in TransitionRecord
      /\ <<entry.from, entry.to>> \in ValidTransitions
      /\ entry.actor = actor
  BY TransitionFacts, LiveFacts DEF Moved, TransitionRecord
<1>2. /\ log \in Seq(TransitionRecord)
      /\ Len(log) <= MaxHistory
      /\ Chained(log)
      /\ log # << >> => log[Len(log)].to = entry.from
      /\ MaxHistory \in Nat \ {0}
  BY RegistryAssumption DEF AuditTrail, RegTypeOK, Chained
<1>3. trn_log'[i] = RecordTransition(log, entry, MaxHistory)
  BY DEF Moved
<1> HIDE DEF entry, log
<1>4. trn_log'[i][Len(trn_log'[i])] = entry
  BY <1>1, <1>2, <1>3, RecordTransitionChained
<1> QED BY <1>1, <1>4 DEF LastActor

(* Whether an invoice counts as settled for an account, before and after.  *)
LEMMA SettledFacts ==
  ASSUME RegTypeOK, AuditTrail, ClaimIntegrity, [RegNext]_regVars,
         NEW i \in InvoiceIds, NEW a \in Address, NEW s \in {"Repaid", "Defaulted"}
  PROVE  /\ Unmoved(i) \/ Registers(i) =>
              (i \in SettledBy(a, s)' <=> i \in SettledBy(a, s))
         /\ \A to \in Statuses, actor \in Actors : Moved(i, to, actor) =>
              /\ i \notin SettledBy(a, s)
              /\ i \in SettledBy(a, s)' <=>
                   to = s /\ actor = "repayment" /\ invoices'[i].originator = a
<1>1. s \in Terminal
  BY DEF Terminal
<1>2. ASSUME Unmoved(i)
      PROVE  i \in SettledBy(a, s)' <=> i \in SettledBy(a, s)
  <2>1. CASE invoices[i].status = s
    <3>1. invoices'[i] = invoices[i] /\ trn_log'[i] = trn_log[i]
      BY <1>1, <2>1, SettledStep
    <3> QED BY <3>1 DEF SettledBy, LastActor
  <2>2. CASE invoices[i].status # s
    BY <1>2, <2>2 DEF SettledBy, Unmoved
  <2> QED BY <2>1, <2>2
<1>3. ASSUME Registers(i)
      PROVE  i \in SettledBy(a, s)' <=> i \in SettledBy(a, s)
  BY <1>3 DEF SettledBy, Registers
<1>4. ASSUME NEW to \in Statuses, NEW actor \in Actors, Moved(i, to, actor)
      PROVE  /\ i \notin SettledBy(a, s)
             /\ i \in SettledBy(a, s)' <=>
                  to = s /\ actor = "repayment" /\ invoices'[i].originator = a
  <2>1. invoices[i].status # s
    BY <1>1, <1>4, TransitionFacts, LiveFacts DEF Moved
  <2>2. LastActor(i)' = actor /\ invoices'[i].status = to
    BY <1>4, LastMove DEF Moved
  <2> QED BY <2>1, <2>2 DEF SettledBy
<1> QED BY <1>2, <1>3, <1>4

(* A step in which no invoice is settled by repayment and none counted.    *)
LEMMA OutcomesSame ==
  ASSUME NEW a \in Address, OutcomesOf(a), rep' = rep,
         SettledBy(a, "Repaid")' = SettledBy(a, "Repaid"),
         SettledBy(a, "Defaulted")' = SettledBy(a, "Defaulted")
  PROVE  OutcomesOf(a)'
  BY DEF OutcomesOf

(* Repayment settles the invoice h for its originator b.                   *)
LEMMA OutcomesOfSettlement ==
  ASSUME TypeInv, AuditTrail, ClaimIntegrity, [RegNext]_regVars, OutcomesInv,
         NEW h \in InvoiceIds, NEW b \in Address, invoices[h].originator = b,
         NEW to \in {"Repaid", "Defaulted"}, MoveStatus(h, to, "repayment"),
         NEW field \in {"repayments", "defaults"},
         field = (IF to = "Repaid" THEN "repayments" ELSE "defaults"),
         rep' = (IF "reputation" \in Wired THEN [rep EXCEPT ![b][field] = @ + 1] ELSE rep),
         NEW a \in Address
  PROVE  OutcomesOf(a)'
<1> USE DEF TypeInv, TypeOK
<1>1. /\ Moved(h, to, "repayment")
      /\ \A i \in InvoiceIds \ {h} : Unmoved(i)
      /\ invoices'[h].originator = b
      /\ to \in Statuses /\ "repayment" \in Actors
  <2>1. invoices' = [invoices EXCEPT ![h] = [invoices[h] EXCEPT !.status = to]]
    BY DEF MoveStatus
  <2>2. invoices'[h].originator = invoices[h].originator
    BY <2>1 DEF RegTypeOK, Invoice
  <2>3. Moved(h, to, "repayment") /\ \A i \in InvoiceIds \ {h} : Unmoved(i)
    BY MoveOfOne
  <2> QED BY <2>2, <2>3 DEF Statuses, Actors
<1>2. ASSUME NEW s \in {"Repaid", "Defaulted"}
      PROVE  /\ h \notin SettledBy(a, s)
             /\ h \in SettledBy(a, s)' <=> to = s /\ b = a
             /\ SettledBy(a, s)' \ {h} = SettledBy(a, s) \ {h}
  <2>1. /\ h \notin SettledBy(a, s)
        /\ h \in SettledBy(a, s)' <=> to = s /\ b = a
    BY <1>1, SettledFacts
  <2>2. \A i \in InvoiceIds \ {h} : i \in SettledBy(a, s)' <=> i \in SettledBy(a, s)
    BY <1>1, SettledFacts
  <2> QED BY <2>1, <2>2 DEF SettledBy
<1>3. ASSUME NEW s \in {"Repaid", "Defaulted"}, IsFiniteSet(SettledBy(a, s))
      PROVE  /\ IsFiniteSet(SettledBy(a, s)')
             /\ Cardinality(SettledBy(a, s)')
                  = Cardinality(SettledBy(a, s)) + (IF to = s /\ b = a THEN 1 ELSE 0)
             /\ Cardinality(SettledBy(a, s)) \in Nat
  <2> DEFINE S == SettledBy(a, s)
  <2>1. /\ h \notin S
        /\ h \in S' <=> to = s /\ b = a
        /\ S' \ {h} = S \ {h}
        /\ IsFiniteSet(S)
    BY <1>2, <1>3
  <2> HIDE DEF S
  <2>2. /\ IsFiniteSet(S')
        /\ Cardinality(S) \in Nat
        /\ Cardinality(S') = Cardinality(S) + (IF h \in S' THEN 1 ELSE 0)
                                            - (IF h \in S THEN 1 ELSE 0)
    BY <2>1, CardinalityStep
  <2>3. Cardinality(S') = Cardinality(S) + (IF to = s /\ b = a THEN 1 ELSE 0)
    BY <2>1, <2>2
  <2> QED BY <2>2, <2>3 DEF S
<1>4. OutcomesOf(a)
  BY DEF OutcomesInv
<1>5. rep[a] \in [repayments : Nat, defaults : Nat]
  BY DEF RepTypeOK
<1>6. CASE "reputation" \notin Wired
  <2>1. rep' = rep
    BY <1>6
  <2> QED BY <1>3, <1>4, <1>6, <2>1 DEF OutcomesOf
<1>7. CASE "reputation" \in Wired
  <2>1. rep' = [rep EXCEPT ![b] = [rep[b] EXCEPT ![field] = @ + 1]]
    BY <1>7
  <2>2. /\ rep'[a].repayments = rep[a].repayments + (IF to = "Repaid" /\ b = a THEN 1 ELSE 0)
        /\ rep'[a].defaults = rep[a].defaults + (IF to = "Defaulted" /\ b = a THEN 1 ELSE 0)
    <3>1. CASE b # a
      <4>1. rep'[a] = rep[a]
        BY <2>1, <3>1 DEF RepTypeOK
      <4> QED BY <1>5, <3>1, <4>1
    <3>2. CASE b = a
      <4>1. rep'[a] = [rep[a] EXCEPT ![field] = @ + 1]
        BY <2>1, <3>2 DEF RepTypeOK
      <4> QED BY <1>5, <3>2, <4>1
    <3> QED BY <3>1, <3>2
  <2> QED BY <1>3, <1>4, <1>7, <2>2 DEF OutcomesOf
<1> QED BY <1>6, <1>7

LEMMA OutcomesStep ==
  ASSUME TypeInv, AuditTrail, ClaimIntegrity, OutcomesInv, [Next]_vars
  PROVE  OutcomesInv'
<1> USE DEF TypeInv, TypeOK
<1> SUFFICES ASSUME NEW a \in Address PROVE OutcomesOf(a)'
  BY DEF OutcomesInv
<1>1. OutcomesOf(a)
  BY DEF OutcomesInv
<1>2. [RegNext]_regVars
  BY RegistryInsideStep DEF vars, regVars
<1>3. ASSUME rep' = rep,
             \A i \in InvoiceIds :
               \/ Unmoved(i)
               \/ Registers(i)
               \/ \E to \in Statuses, actor \in Actors :
                    /\ Moved(i, to, actor)
                    /\ actor # "repayment" \/ to \notin {"Repaid", "Defaulted"}
      PROVE  OutcomesOf(a)'
  <2>1. ASSUME NEW s \in {"Repaid", "Defaulted"}, NEW i \in InvoiceIds
        PROVE  i \in SettledBy(a, s)' <=> i \in SettledBy(a, s)
    BY <1>2, <1>3, SettledFacts
  <2>2. ASSUME NEW s \in {"Repaid", "Defaulted"}
        PROVE  SettledBy(a, s)' = SettledBy(a, s)
    BY <2>1 DEF SettledBy
  <2> QED BY <1>1, <1>3, <2>2, OutcomesSame
<1>4. CASE UNCHANGED <<regVars, rep>>
  BY <1>3, <1>4 DEF regVars, Unmoved
<1>5. CASE UNCHANGED vars
  BY <1>4, <1>5 DEF vars, repVars
<1>6. CASE PenaltyNext
  BY <1>4, <1>6 DEF PenaltyNext, SetPenalty
<1>7. CASE RegUserNext /\ UNCHANGED <<finVars, repVars>>
  <2>1. rep' = rep
    BY <1>7 DEF repVars
  <2>2. "registry" \in Actors /\ "Overdue" \in Statuses /\ Address \subseteq Actors
          /\ "repayment" \notin Address
    BY RegistryAssumption DEF Actors, Statuses
  <2>3. ASSUME NEW i \in InvoiceIds
        PROVE  \/ Unmoved(i)
               \/ Registers(i)
               \/ \E to \in Statuses, actor \in Actors :
                    /\ Moved(i, to, actor)
                    /\ actor # "repayment" \/ to \notin {"Repaid", "Defaulted"}
    BY <1>7, <2>2, UserMoves
  <2> QED BY <1>3, <2>1, <2>3
<1>8. ASSUME NEW f \in OfferIds, NEW b \in Address, OfferStep(f, b)
      PROVE  OutcomesOf(a)'
  <2>1. CASE \E i \in InvoiceIds, amount \in Principals, rate \in Rates, e \in Expiries :
               CreateOffer(f, i, b, amount, rate, e) /\ UNCHANGED repVars
    BY <1>4, <2>1 DEF CreateOffer, repVars
  <2>2. CASE RefuseStep(f)
    BY <1>4, <2>2 DEF RefuseStep, repVars
  <2>3. ASSUME NEW h \in InvoiceIds, NEW actor \in Actors, MoveStatus(h, "Financed", actor),
               rep' = rep
        PROVE  OutcomesOf(a)'
    BY <1>3, <2>3, MoveOfOne DEF Statuses
  <2>4. CASE AcceptOffer(f, b) /\ UNCHANGED repVars
    <3>1. PICK h \in InvoiceIds : offers[f].invoice_id = h
      BY <2>4 DEF AcceptOffer, OffersNameTheirParties
    <3> QED BY <2>3, <2>4, <3>1
            DEF AcceptOffer, SettleAcceptance, FinancingMarksInvoiceFinanced, repVars, Actors
  <2>5. ASSUME NEW h \in InvoiceIds, NEW amount \in Payments, RepayInvoice(b, h, f, amount)
        PROVE  OutcomesOf(a)'
    <3> DEFINE full == FullyRepaid(offers[f], amount)
    <3>1. /\ invoices[h].originator = b
          /\ RepaymentMarksInvoiceRepaid(h, full)
          /\ RecordSuccess(full, b)
      BY <2>5 DEF RepayInvoice
    <3> HIDE DEF full
    <3>2. CASE full
      <4>1. MoveStatus(h, "Repaid", "repayment")
        BY <3>1, <3>2 DEF RepaymentMarksInvoiceRepaid
      <4>2. rep' = IF "reputation" \in Wired
                   THEN [rep EXCEPT ![b]["repayments"] = @ + 1] ELSE rep
        BY <3>1, <3>2 DEF RecordSuccess, RecordOutcome
      <4> QED BY <1>2, <3>1, <4>1, <4>2, OutcomesOfSettlement
    <3>3. CASE ~full
      <4>1. MoveStatus(h, "Financed", "repayment") /\ rep' = rep /\ "repayment" \in Actors
        BY <3>1, <3>3 DEF RepaymentMarksInvoiceRepaid, RecordSuccess, Actors
      <4> QED BY <2>3, <4>1
    <3> QED BY <3>2, <3>3
  <2>6. ASSUME NEW h \in InvoiceIds, NEW pool \in PoolBalances, ReclaimInvoice(b, h, f, pool)
        PROVE  OutcomesOf(a)'
    <3> DEFINE o == invoices[h].originator
    <3>1. /\ invoices[h].status = "Overdue"
          /\ MoveStatus(h, "Defaulted", "repayment")
          /\ rep' = IF "reputation" \in Wired
                    THEN [rep EXCEPT ![o]["defaults"] = @ + 1] ELSE rep
      BY <2>6 DEF ReclaimInvoice, RepaymentMarksDefaulted, RecordOutcome
    <3>2. o \in Address
      BY <3>1 DEF ClaimIntegrity, Live, Terminal, Statuses
    <3>3. PICK c \in Address : c = o
      BY <3>2
    <3> QED BY <1>2, <3>1, <3>3, OutcomesOfSettlement
  <2> QED BY <1>8, <2>1, <2>2, <2>4, <2>5, <2>6 DEF OfferStep
<1> QED BY <1>5, <1>6, <1>7, <1>8, ProtocolStepKinds

(***************************************************************************)
(* The two counters of the reputation contract are exact, for any number   *)
(* of accounts and invoices: each settlement that repayment makes reaches  *)
(* record_outcome once, for the account that held the invoice, and no      *)
(* other call moves an invoice in or out of what is counted.               *)
(***************************************************************************)
THEOREM ProtocolReputationMatchesOutcomes == Spec => []ReputationMatchesOutcomes
<1>1. Init => OutcomesInv
  <2> SUFFICES ASSUME Init, NEW a \in Address PROVE OutcomesOf(a)
    BY DEF OutcomesInv
  <2>1. SettledBy(a, "Repaid") = {} /\ SettledBy(a, "Defaulted") = {}
    BY DEF Init, RegInit, SettledBy, AbsentInvoice
  <2>2. rep[a].repayments = 0 /\ rep[a].defaults = 0
    BY DEF Init, RepInit
  <2> QED BY <2>1, <2>2, FS_EmptySet DEF OutcomesOf
<1>2. TypeInv /\ AuditTrail /\ ClaimIntegrity /\ OutcomesInv /\ [Next]_vars => OutcomesInv'
  BY OutcomesStep
<1>3. OutcomesInv => ReputationMatchesOutcomes
  BY DEF OutcomesInv, OutcomesOf, SettledBy, ReputationMatchesOutcomes
<1> QED
  BY <1>1, <1>2, <1>3, ProtocolTypeInv, ProtocolAuditTrail, ProtocolKeepsClaims, PTL DEF Spec

-----------------------------------------------------------------------------
(* What an amendment writes *)

(* The value takes the place of one of two terms; status and holder of the *)
(* invoice stay, and so do all other invoices.                             *)
LEMMA ApplyFacts ==
  ASSUME RegTypeOK, NEW i \in InvoiceIds, NEW field \in AmendmentFields, NEW value \in Int,
         ValidValue(field, value), ApplyAmendment(i, field, value)
  PROVE  /\ invoices' \in [InvoiceIds -> Invoice]
         /\ invoices'[i] = [invoices[i] EXCEPT ![field] = value]
         /\ invoices'[i].status = invoices[i].status
         /\ invoices'[i].originator = invoices[i].originator
         /\ \A j \in InvoiceIds \ {i} : invoices'[j] = invoices[j]
<1>1. invoices \in [InvoiceIds -> Invoice] /\ now \in Nat
  BY RegistryAssumption DEF RegTypeOK
<1>2. invoices' = [invoices EXCEPT ![i] = [invoices[i] EXCEPT ![field] = value]]
  BY DEF ApplyAmendment
<1>3. field = "due_date" => value \in Nat
  BY <1>1 DEF ValidValue
<1> DEFINE r == [invoices[i] EXCEPT ![field] = value]
<1>4. r \in Invoice /\ r.status = invoices[i].status /\ r.originator = invoices[i].originator
  <2>1. CASE field = "amount"
    BY <1>1, <2>1 DEF Invoice
  <2>2. CASE field = "due_date"
    BY <1>1, <1>3, <2>2 DEF Invoice
  <2> QED BY <2>1, <2>2 DEF AmendmentFields
<1> HIDE DEF r
<1>5. invoices' = [invoices EXCEPT ![i] = r]
  BY <1>2 DEF r
<1> QED BY <1>1, <1>4, <1>5 DEF r

(* The kinds of call: a request, a decision of the entry k, or the lookup  *)
(* of the lender.                                                          *)
Requested(i, field, value) ==
  /\ \/ /\ invoices[i].status = "Pending"
        /\ ApplyAmendment(i, field, value)
     \/ /\ invoices[i].status = "Financed"
        /\ UNCHANGED invoices
  /\ \E status \in {"Pending", "Approved"} :
       /\ status = "Pending" => UNCHANGED invoices
       /\ amendments' = [amendments EXCEPT ![i] =
            Append(amendments[i], [field |-> field, value |-> value, status |-> status])]
  /\ UNCHANGED invlend

Decided(i, k, verdict) ==
  /\ amendments[i][k].status = "Pending"
  /\ amendments' = [amendments EXCEPT ![i] =
       [amendments[i] EXCEPT ![k] = [amendments[i][k] EXCEPT !.status = verdict]]]

Names(i, l) ==
  \/ invlend[i] = l /\ UNCHANGED invlend
  \/ l \in ActiveLenders(i) /\ invlend' = [invlend EXCEPT ![i] = l]

AmendKind(i) ==
  \/ /\ \E l \in Address : Names(i, l)
     /\ UNCHANGED <<invoices, amendments>>
  \/ \E field \in AmendmentFields, value \in Int :
       ValidValue(field, value) /\ Requested(i, field, value)
  \/ \E k \in DOMAIN amendments[i], a \in Address :
       /\ \/ invoices[i].status = "Financed" /\ Names(i, a)
          \/ invoices[i].status = "Pending" /\ UNCHANGED invlend
       /\ \/ /\ ValidValue(amendments[i][k].field, amendments[i][k].value)
             /\ ApplyAmendment(i, amendments[i][k].field, amendments[i][k].value)
             /\ Decided(i, k, "Approved")
          \/ UNCHANGED invoices /\ Decided(i, k, "Rejected")

(* Nothing but the invoice, the amendments and the remembered lender is    *)
(* written.                                                                *)
LEMMA AmendmentKinds ==
  ASSUME AmdTypeOK, AmendmentStep
  PROVE  /\ UNCHANGED <<now, adminVars, by_origin, tokVars, trn_log, finVars, repVars, schedules>>
         /\ \E i \in InvoiceIds : AmendKind(i)
<1>1. UNCHANGED <<repVars, schedules>>
  BY DEF AmendmentStep
<1>2. PICK i \in InvoiceIds :
        \/ GetInvoiceLender(i)
        \/ \E a \in Address :
             \/ \E value \in AmendAmounts : RequestAmendment(a, i, "amount", value)
             \/ \E value \in AmendDates : RequestAmendment(a, i, "due_date", value)
             \/ \E k \in DOMAIN amendments[i] :
                  ApproveAmendment(a, i, k) \/ RejectAmendment(a, i, k)
  BY DEF AmendmentStep, AmdNext
<1> DEFINE Rest == UNCHANGED <<now, adminVars, by_origin, tokVars, trn_log, finVars>>
<1>3. ASSUME NEW l, ResolveLender(i, l) PROVE Names(i, l)
  BY <1>3 DEF ResolveLender, Names
<1>4. CASE GetInvoiceLender(i)
  <2>1. Rest /\ UNCHANGED <<invoices, amendments>>
    BY <1>4 DEF GetInvoiceLender, regVars, adminVars, tokVars
  <2>2. PICK l \in Address : ResolveLender(i, l)
    BY <1>4 DEF GetInvoiceLender
  <2> QED BY <1>1, <1>3, <2>1, <2>2 DEF AmendKind
<1>5. ASSUME NEW a \in Address, NEW field \in AmendmentFields, NEW value \in Int,
             RequestAmendment(a, i, field, value)
      PROVE  Rest /\ AmendKind(i)
  <2>1. Rest /\ ValidValue(field, value) /\ UNCHANGED invlend
    BY <1>5 DEF RequestAmendment
  <2>2. CASE invoices[i].status = "Pending"
    <3>1. /\ ApplyAmendment(i, field, value)
          /\ amendments' = [amendments EXCEPT ![i] =
               Append(amendments[i], [field |-> field, value |-> value, status |-> "Approved"])]
      BY <1>5, <2>2 DEF RequestAmendment
    <3> QED BY <2>1, <2>2, <3>1 DEF AmendKind, Requested
  <2>3. CASE invoices[i].status = "Financed"
    <3>1. /\ UNCHANGED invoices
          /\ amendments' = [amendments EXCEPT ![i] =
               Append(amendments[i], [field |-> field, value |-> value, status |-> "Pending"])]
      BY <1>5, <2>3 DEF RequestAmendment
    <3> QED BY <2>1, <2>3, <3>1 DEF AmendKind, Requested
  <2> QED BY <1>5, <2>1, <2>2, <2>3 DEF RequestAmendment
<1>6. ASSUME NEW a \in Address, NEW k \in DOMAIN amendments[i],
             ApproveAmendment(a, i, k) \/ RejectAmendment(a, i, k)
      PROVE  Rest /\ AmendKind(i)
  <2>0. Rest
    BY <1>6 DEF ApproveAmendment, RejectAmendment, regVars, adminVars, tokVars
  <2>1. \/ invoices[i].status = "Financed" /\ Names(i, a)
        \/ invoices[i].status = "Pending" /\ UNCHANGED invlend
    BY <1>3, <1>6 DEF ApproveAmendment, RejectAmendment, Decides
  <2>2. CASE ApproveAmendment(a, i, k)
    <3>1. /\ ValidValue(amendments[i][k].field, amendments[i][k].value)
          /\ ApplyAmendment(i, amendments[i][k].field, amendments[i][k].value)
      BY <2>2 DEF ApproveAmendment
    <3>2. Decided(i, k, "Approved")
      BY <2>2 DEF ApproveAmendment, Decided
    <3> QED BY <2>0, <2>1, <3>1, <3>2 DEF AmendKind
  <2>3. CASE RejectAmendment(a, i, k)
    <3>1. UNCHANGED invoices
      BY <2>3 DEF RejectAmendment, regVars
    <3>2. Decided(i, k, "Rejected")
      BY <2>3 DEF RejectAmendment, Decided
    <3> QED BY <2>0, <2>1, <3>1, <3>2 DEF AmendKind
  <2> QED BY <1>6, <2>2, <2>3
<1>7. ASSUME NEW a \in Address, NEW value \in AmendAmounts, RequestAmendment(a, i, "amount", value)
      PROVE  Rest /\ AmendKind(i)
  <2>1. value \in Int /\ "amount" \in AmendmentFields
    BY AmendmentAssumption DEF AmendmentFields
  <2> QED BY <1>5, <1>7, <2>1
<1>8. ASSUME NEW a \in Address, NEW value \in AmendDates, RequestAmendment(a, i, "due_date", value)
      PROVE  Rest /\ AmendKind(i)
  <2>1. value \in Int /\ "due_date" \in AmendmentFields
    BY AmendmentAssumption DEF AmendmentFields
  <2> QED BY <1>5, <1>8, <2>1
<1> QED BY <1>1, <1>2, <1>4, <1>6, <1>7, <1>8

(* A decision changes one entry, and only its verdict.                     *)
LEMMA DecidedFacts ==
  ASSUME AmdTypeOK, NEW i \in InvoiceIds, NEW k \in DOMAIN amendments[i],
         NEW verdict \in {"Approved", "Rejected"}, Decided(i, k, verdict)
  PROVE  /\ amendments' \in [InvoiceIds -> Seq(AmendmentRecord)]
         /\ \A j \in InvoiceIds \ {i} : amendments'[j] = amendments[j]
         /\ Len(amendments'[i]) = Len(amendments[i])
         /\ DOMAIN amendments'[i] = DOMAIN amendments[i]
         /\ DecidedAs(amendments[i][k], amendments'[i][k], verdict)
         /\ \A n \in DOMAIN amendments[i] \ {k} : amendments'[i][n] = amendments[i][n]
<1> DEFINE r == [amendments[i][k] EXCEPT !.status = verdict]
           s == [amendments[i] EXCEPT ![k] = r]
<1>1. /\ amendments \in [InvoiceIds -> Seq(AmendmentRecord)]
      /\ amendments[i] \in Seq(AmendmentRecord)
      /\ amendments[i][k] \in AmendmentRecord
  BY DEF AmdTypeOK
<1>2. r \in AmendmentRecord
  BY <1>1 DEF AmendmentRecord
<1> HIDE DEF r
<1>3. s \in Seq(AmendmentRecord) /\ Len(s) = Len(amendments[i])
  BY <1>1, <1>2
<1>4. /\ s[k] = r
      /\ DOMAIN s = DOMAIN amendments[i]
      /\ \A n \in DOMAIN amendments[i] \ {k} : s[n] = amendments[i][n]
  BY <1>1, <1>2
<1>5. amendments' = [amendments EXCEPT ![i] = s] /\ amendments[i][k].status = "Pending"
  BY DEF Decided, r
<1> HIDE DEF s
<1>6. amendments'[i] = s
  BY <1>1, <1>5
<1>7. amendments' \in [InvoiceIds -> Seq(AmendmentRecord)]
  BY <1>1, <1>3, <1>5
<1> QED BY <1>1, <1>3, <1>4, <1>5, <1>6, <1>7 DEF DecidedAs, r

(* A request adds one entry at the end.                                    *)
LEMMA RequestedFacts ==
  ASSUME AmdTypeOK, NEW i \in InvoiceIds, NEW field \in AmendmentFields, NEW value \in Int,
         Requested(i, field, value)
  PROVE  /\ amendments' \in [InvoiceIds -> Seq(AmendmentRecord)]
         /\ \A j \in InvoiceIds \ {i} : amendments'[j] = amendments[j]
         /\ Len(amendments'[i]) = Len(amendments[i]) + 1
         /\ \A n \in DOMAIN amendments[i] : amendments'[i][n] = amendments[i][n]
         /\ \A n \in DOMAIN amendments'[i] \ DOMAIN amendments[i] :
              amendments'[i][n].status = "Pending" => UNCHANGED invoices
<1>1. PICK status \in {"Pending", "Approved"} :
        /\ status = "Pending" => UNCHANGED invoices
        /\ amendments' = [amendments EXCEPT ![i] =
             Append(amendments[i], [field |-> field, value |-> value, status |-> status])]
  BY DEF Requested
<1> DEFINE r == [field |-> field, value |-> value, status |-> status]
           s == Append(amendments[i], r)
<1>2. r \in AmendmentRecord /\ r.status = status
  BY DEF AmendmentRecord
<1>3. amendments \in [InvoiceIds -> Seq(AmendmentRecord)] /\ amendments[i] \in Seq(AmendmentRecord)
  BY DEF AmdTypeOK
<1>4. amendments' = [amendments EXCEPT ![i] = s]
  BY <1>1
<1> HIDE DEF r
<1>5. /\ s \in Seq(AmendmentRecord)
      /\ Len(s) = Len(amendments[i]) + 1
      /\ \A n \in 1 .. Len(amendments[i]) : s[n] = amendments[i][n]
      /\ s[Len(amendments[i]) + 1] = r
  BY <1>2, <1>3
<1> HIDE DEF s
<1>6. amendments'[i] = s
  BY <1>3, <1>4
<1>7. amendments' \in [InvoiceIds -> Seq(AmendmentRecord)]
  BY <1>3, <1>4, <1>5
<1>8. /\ DOMAIN amendments[i] = 1 .. Len(amendments[i])
      /\ DOMAIN s = 1 .. Len(s)
      /\ Len(amendments[i]) \in Nat
  BY <1>3, <1>5
<1>9. ASSUME NEW n \in DOMAIN s \ DOMAIN amendments[i], s[n].status = "Pending"
      PROVE  UNCHANGED invoices
  <2>1. n = Len(amendments[i]) + 1
    BY <1>5, <1>8
  <2> QED BY <1>1, <1>2, <1>5, <1>9, <2>1
<1> QED BY <1>3, <1>4, <1>5, <1>6, <1>7, <1>8, <1>9

(* An amendment leaves every status and every holder as they are.          *)
LEMMA AmendmentEffects ==
  ASSUME RegTypeOK, AmdTypeOK, NEW i \in InvoiceIds, AmendKind(i)
  PROVE  /\ invoices' \in [InvoiceIds -> Invoice]
         /\ \A j \in InvoiceIds : /\ invoices'[j].status = invoices[j].status
                                  /\ invoices'[j].originator = invoices[j].originator
         /\ amendments' \in [InvoiceIds -> Seq(AmendmentRecord)]
         /\ \A j \in InvoiceIds \ {i} :
              invoices'[j] = invoices[j] /\ amendments'[j] = amendments[j]
<1> DEFINE Same == /\ invoices' \in [InvoiceIds -> Invoice]
                   /\ \A j \in InvoiceIds : /\ invoices'[j].status = invoices[j].status
                                            /\ invoices'[j].originator = invoices[j].originator
                   /\ \A j \in InvoiceIds \ {i} : invoices'[j] = invoices[j]
<1>1. UNCHANGED invoices => Same
  BY DEF RegTypeOK
<1>2. ASSUME NEW field \in AmendmentFields, NEW value \in Int,
             ValidValue(field, value), ApplyAmendment(i, field, value)
      PROVE  Same
  BY <1>2, ApplyFacts
<1> HIDE DEF Same
<1>3. CASE UNCHANGED <<invoices, amendments>>
  BY <1>1, <1>3 DEF AmdTypeOK, Same
<1>4. ASSUME NEW field \in AmendmentFields, NEW value \in Int,
             ValidValue(field, value), Requested(i, field, value)
      PROVE  Same /\ amendments' \in [InvoiceIds -> Seq(AmendmentRecord)]
                  /\ \A j \in InvoiceIds \ {i} : amendments'[j] = amendments[j]
  <2>1. Same
    BY <1>1, <1>2, <1>4 DEF Requested
  <2> QED BY <1>4, <2>1, RequestedFacts
<1>5. ASSUME NEW k \in DOMAIN amendments[i],
             \/ /\ ValidValue(amendments[i][k].field, amendments[i][k].value)
                /\ ApplyAmendment(i, amendments[i][k].field, amendments[i][k].value)
                /\ Decided(i, k, "Approved")
             \/ UNCHANGED invoices /\ Decided(i, k, "Rejected")
      PROVE  Same /\ amendments' \in [InvoiceIds -> Seq(AmendmentRecord)]
                  /\ \A j \in InvoiceIds \ {i} : amendments'[j] = amendments[j]
  <2>0. amendments[i][k] \in AmendmentRecord
    <3>1. amendments[i] \in Seq(AmendmentRecord)
      BY DEF AmdTypeOK
    <3> QED BY <3>1
  <2>1. amendments[i][k].field \in AmendmentFields /\ amendments[i][k].value \in Int
    BY <2>0 DEF AmendmentRecord
  <2>2. Same
    BY <1>1, <1>2, <1>5, <2>1
  <2> QED BY <1>5, <2>2, DecidedFacts
<1> QED BY <1>3, <1>4, <1>5 DEF AmendKind, Same

-----------------------------------------------------------------------------
(* The remembered lender *)

(* Whom the registry remembers as lender has principal out on the invoice  *)
(* until it is settled: an offer stops being active only in a call that    *)
(* settles its invoice, and who is remembered had an active offer then.    *)
LenderHolds(i) ==
  invlend[i] # Nobody /\ invoices[i].status \notin Terminal =>
    \E f \in OffersOn(i) : Active(f) /\ offers[f].lender = invlend[i]

(* The installments of a schedule have an amount.                          *)
InstallmentsCount ==
  \A f \in OfferIds : schedules[f].count > 0 => schedules[f].installment_amount > 0

ServInv ==
  /\ TypeInv /\ ClaimIntegrity /\ LoanInv
  /\ AmdTypeOK
  /\ \A i \in InvoiceIds : LenderHolds(i)
  /\ SchedTypeOK
  /\ InstallmentsCount

LEMMA ServInit == ServiceInit => ServInv
<1> SUFFICES ASSUME ServiceInit PROVE ServInv
  OBVIOUS
<1> USE DEF ServiceInit
<1>1. TypeInv
  <2>1. RegTypeOK
    BY RegistryAssumption DEF Init, RegInit, RegTypeOK, AbsentInvoice, Invoice
  <2>2. FinTypeOK /\ OffersNameTheirParties
    BY DEF Init, FinInit, FinTypeOK, AbsentOffer, Offer, OfferStatuses, LenderStats,
           ProtocolStats, OffersNameTheirParties
  <2>3. RepTypeOK
    BY RepaymentAssumption DEF Init, RepInit, RepTypeOK
  <2> QED BY <2>1, <2>2, <2>3 DEF TypeInv, TypeOK
<1>2. ClaimIntegrity
  BY LiveFacts DEF Init, RegInit, ClaimIntegrity, AbsentInvoice, Terminal
<1>3. LoanInv
  BY DEF Init, FinInit, RepInit, LoanInv, OfferAccount, AbsentOffer, ActiveStatuses
<1>4. AmdTypeOK /\ \A i \in InvoiceIds : LenderHolds(i)
  BY DEF AmdInit, AmdTypeOK, LenderHolds
<1>5. SchedTypeOK /\ InstallmentsCount
  BY ScheduleAssumption DEF SchedInit, SchedTypeOK, NoSchedule, RepaymentSchedule,
                            InstallmentsCount
<1> QED BY <1>1, <1>2, <1>3, <1>4, <1>5 DEF ServInv

-----------------------------------------------------------------------------
(* The invariant under each kind of step *)

LEMMA LoanStepKeepsLenders ==
  ASSUME TypeInv, ClaimIntegrity, NEW f \in OfferIds, NEW a \in Address, OfferStep(f, a),
         UNCHANGED invlend,
         NEW i \in InvoiceIds, LenderHolds(i),
         invoices'[i].status \notin Terminal => invoices[i].status \notin Terminal
  PROVE  LenderHolds(i)'
<1> USE DEF TypeInv, TypeOK, FinTypeOK
<1>1. SUFFICES ASSUME invlend[i] # Nobody, invoices'[i].status \notin Terminal,
                      NEW g \in OfferIds, offers[g].invoice_id = i, Active(g),
                      offers[g].lender = invlend[i]
               PROVE  /\ offers'[g].invoice_id = i
                      /\ offers'[g].status \in ActiveStatuses
                      /\ offers'[g].lender = invlend[i]
  BY DEF LenderHolds, OffersOn, Active
<1>2. CASE g # f
  <2>1. offers'[g] = offers[g]
    BY <1>2, OfferWrites DEF Created, Answered, Paid, Reclaimed
  <2> QED BY <1>1, <2>1 DEF Active
<1>3. CASE g = f
  <2>1. offers[f].status \in ActiveStatuses
    BY <1>1, <1>3 DEF Active
  <2>2. ~ (\E h \in InvoiceIds, amount \in Principals, rate \in Rates, e \in Expiries :
             CreateOffer(f, h, a, amount, rate, e))
    BY <2>1 DEF CreateOffer, ActiveStatuses
  <2>3. ~ RefuseStep(f) /\ ~ AcceptOffer(f, a)
    BY <2>1 DEF RefuseStep, AcceptOffer, ActiveStatuses
  <2>4. ASSUME NEW h \in InvoiceIds, NEW amount \in Payments, RepayInvoice(a, h, f, amount)
        PROVE  /\ offers'[f].invoice_id = i
               /\ offers'[f].status \in ActiveStatuses
               /\ offers'[f].lender = offers[f].lender
    <3> DEFINE full == FullyRepaid(offers[f], amount)
               status == IF full THEN "Repaid" ELSE "Financed"
               repaid == offers[f].amount_repaid + PrincipalPortion(offers[f], amount)
               paid == Bps(amount, GetFeeBps, BpsUnit)
    <3>1. /\ h = i
          /\ RepaymentMarksInvoiceRepaid(i, full)
          /\ RecordRepayment(f, status, repaid, amount, paid)
      BY <1>1, <1>3, <2>4 DEF RepayInvoice
    <3> HIDE DEF full, repaid, paid
    <3>2. ~full
      BY <1>1, <3>1 DEF RepaymentMarksInvoiceRepaid, MoveStatus, RegTypeOK, Terminal
    <3>3. offers'[f] = [offers[f] EXCEPT !.status = "Financed", !.amount_repaid = repaid]
      BY <3>1, <3>2 DEF RecordRepayment, Offer
    <3> QED BY <1>1, <1>3, <3>3 DEF Offer, ActiveStatuses
  <2>5. ASSUME NEW h \in InvoiceIds, NEW pool \in PoolBalances, ReclaimInvoice(a, h, f, pool)
        PROVE  FALSE
    <3>1. h = i /\ RepaymentMarksDefaulted(i)
      BY <1>1, <1>3, <2>5 DEF ReclaimInvoice
    <3> QED BY <1>1, <3>1 DEF RepaymentMarksDefaulted, MoveStatus, RegTypeOK, Terminal
  <2> QED BY <1>1, <1>3, <2>2, <2>3, <2>4, <2>5 DEF OfferStep
<1> QED BY <1>2, <1>3

LEMMA ProtocolStepKeeps ==
  ASSUME ServInv, [Next]_vars, UNCHANGED <<amdVars, schedules>>
  PROVE  ServInv'
<1> USE DEF ServInv
<1>1. TypeInv' /\ LoanInv'
  BY TypeInvStep, LoanInvStep
<1>2. RegTypeOK /\ OffersNameTheirParties
  BY DEF TypeInv, TypeOK
<1>3. [RegNext]_regVars
  BY <1>2, RegistryInsideStep DEF vars, regVars
<1>4. ClaimIntegrity'
  BY <1>2, <1>3, ClaimStep
<1>5. AmdTypeOK' /\ SchedTypeOK' /\ InstallmentsCount'
  BY DEF amdVars, AmdTypeOK, SchedTypeOK, InstallmentsCount
<1>6. ASSUME NEW i \in InvoiceIds PROVE LenderHolds(i)'
  <2>1. invoices'[i].status \notin Terminal => invoices[i].status \notin Terminal
    BY <1>2, <1>3, SettledStep
  <2>2. UNCHANGED invlend /\ LenderHolds(i)
    BY DEF amdVars
  <2>3. CASE UNCHANGED offers
    BY <2>1, <2>2, <2>3 DEF LenderHolds, OffersOn, Active
  <2>4. ASSUME NEW f \in OfferIds, NEW a \in Address, OfferStep(f, a) PROVE LenderHolds(i)'
    BY <2>1, <2>2, <2>4, LoanStepKeepsLenders
  <2>5. UNCHANGED offers \/ \E f \in OfferIds, a \in Address : OfferStep(f, a)
    BY ProtocolStepKinds DEF vars, finVars, PenaltyNext, SetPenalty
  <2> QED BY <2>3, <2>4, <2>5
<1> QED BY <1>1, <1>4, <1>5, <1>6

LEMMA AmendmentStepKeeps ==
  ASSUME ServInv, AmendmentStep
  PROVE  ServInv'
<1> USE DEF ServInv
<1>1. PICK i \in InvoiceIds : AmendKind(i)
  BY AmendmentKinds
<1>2. UNCHANGED <<now, adminVars, by_origin, tokVars, trn_log, finVars, repVars, schedules>>
  BY AmendmentKinds
<1>3. RegTypeOK /\ FinTypeOK /\ RepTypeOK /\ OffersNameTheirParties
  BY DEF TypeInv, TypeOK
<1>4. /\ invoices' \in [InvoiceIds -> Invoice]
      /\ \A j \in InvoiceIds : /\ invoices'[j].status = invoices[j].status
                               /\ invoices'[j].originator = invoices[j].originator
      /\ amendments' \in [InvoiceIds -> Seq(AmendmentRecord)]
  BY <1>1, <1>3, AmendmentEffects
<1>5. RegTypeOK'
  BY <1>2, <1>3, <1>4 DEF RegTypeOK, adminVars, tokVars
<1>6. TypeInv'
  BY <1>2, <1>3, <1>5 DEF TypeInv, TypeOK, FinTypeOK, RepTypeOK, OffersNameTheirParties,
                          finVars, repVars
<1>7. ClaimIntegrity'
  BY <1>2, <1>4 DEF ClaimIntegrity, tokVars
<1>8. LoanInv'
  BY <1>2 DEF LoanInv, OfferAccount, finVars, repVars
<1>9. invlend' \in [InvoiceIds -> Address \cup {Nobody}] /\ \A j \in InvoiceIds : LenderHolds(j)'
  <2>1. CASE UNCHANGED invlend
    BY <1>2, <1>4, <2>1 DEF AmdTypeOK, LenderHolds, OffersOn, Active, finVars
  <2>2. ASSUME NEW l \in ActiveLenders(i), invlend' = [invlend EXCEPT ![i] = l]
        PROVE  invlend' \in [InvoiceIds -> Address \cup {Nobody}]
                 /\ \A j \in InvoiceIds : LenderHolds(j)'
    <3>1. PICK f \in OfferIds : /\ offers[f].invoice_id = i
                                /\ offers[f].status \in ActiveStatuses
                                /\ offers[f].lender = l
      BY DEF ActiveLenders
    <3>2. l \in Address
      BY <1>3, <3>1 DEF OffersNameTheirParties, ActiveStatuses
    <3>3. LenderHolds(i)'
      BY <1>2, <2>2, <3>1 DEF AmdTypeOK, LenderHolds, OffersOn, Active, finVars
    <3>4. ASSUME NEW j \in InvoiceIds, j # i PROVE LenderHolds(j)'
      BY <1>2, <1>4, <2>2, <3>4 DEF AmdTypeOK, LenderHolds, OffersOn, Active, finVars
    <3> QED BY <2>2, <3>2, <3>3, <3>4 DEF AmdTypeOK
  <2> QED BY <1>1, <2>1, <2>2 DEF AmendKind, Names, Requested
<1>10. AmdTypeOK' /\ SchedTypeOK' /\ InstallmentsCount'
  BY <1>2, <1>4, <1>9 DEF AmdTypeOK, SchedTypeOK, InstallmentsCount
<1> QED BY <1>6, <1>7, <1>8, <1>9, <1>10

LEMMA InstallmentType ==
  ASSUME NEW o \in Offer, NEW n \in Nat \ {0}
  PROVE  InstallmentAmount(o, n) \in Int
<1> DEFINE principal == o.amount \div n
<1>1. principal \in Int /\ o.interest_rate \in Int
  BY DEF Offer
<1> HIDE DEF principal
<1>2. principal * o.interest_rate \in Int
  BY <1>1
<1>3. Bps(principal, o.interest_rate, RateUnit) \in Int
  BY <1>2, ScheduleAssumption DEF Bps
<1> QED BY <1>1, <1>3 DEF InstallmentAmount, principal

LEMMA ScheduleStepKeeps ==
  ASSUME ServInv, ScheduleStep
  PROVE  ServInv'
<1> USE DEF ServInv
<1>1. PICK c \in Address, f \in Scheduled, q \in Frequencies, n \in InstallmentCounts,
           d \in FirstDues : ScheduleRepayment(c, f, q, n, d)
  BY DEF ScheduleStep, SchedNext
<1>2. UNCHANGED <<regVars, finVars, repVars, amdVars>>
  BY <1>1 DEF ScheduleStep, ScheduleRepayment
<1>3. TypeInv' /\ ClaimIntegrity' /\ LoanInv' /\ AmdTypeOK'
        /\ \A i \in InvoiceIds : LenderHolds(i)'
  BY <1>2 DEF regVars, finVars, repVars, amdVars, TypeInv, TypeOK, RegTypeOK, FinTypeOK,
              RepTypeOK, OffersNameTheirParties, ClaimIntegrity, LoanInv, OfferAccount,
              AmdTypeOK, LenderHolds, OffersOn, Active
<1> DEFINE amount == InstallmentAmount(offers[f], n)
           s == [count |-> n, period |-> PeriodSecs[q], installment_amount |-> amount,
                 first_due |-> d]
<1>4. f \in OfferIds /\ n \in 1 .. MaxCount /\ d \in Nat /\ PeriodSecs[q] \in Nat \ {0}
  BY <1>1, ScheduleAssumption DEF ScheduleRepayment
<1>5. amount > 0 /\ schedules' = [schedules EXCEPT ![f] = s]
  BY <1>1 DEF ScheduleRepayment
<1>6. amount \in Int
  BY <1>4, ScheduleAssumption, InstallmentType DEF TypeInv, TypeOK, FinTypeOK
<1> HIDE DEF amount
<1>7. s \in RepaymentSchedule /\ s.count > 0 /\ s.installment_amount > 0
  BY <1>4, <1>5, <1>6 DEF RepaymentSchedule
<1> HIDE DEF s
<1>8. SchedTypeOK' /\ InstallmentsCount'
  BY <1>4, <1>5, <1>7 DEF SchedTypeOK, InstallmentsCount
<1> QED BY <1>3, <1>8

LEMMA ServStep == ServInv /\ [ServiceNext]_serviceVars => ServInv'
<1> SUFFICES ASSUME ServInv, [ServiceNext]_serviceVars PROVE ServInv'
  OBVIOUS
<1>1. CASE UNCHANGED serviceVars
  BY <1>1, ProtocolStepKeeps DEF serviceVars
<1>2. CASE ProtocolStep
  BY <1>2, ProtocolStepKeeps DEF ProtocolStep
<1> QED BY <1>1, <1>2, AmendmentStepKeeps, ScheduleStepKeeps DEF ServiceNext

LEMMA ServSpecInv == ServiceSpec => []ServInv
BY ServInit, ServStep, PTL DEF ServiceSpec

(***************************************************************************)
(* Amendments and schedules do not disturb the loan they are about: what   *)
(* is proved of the protocol alone about types, claims and debts also      *)
(* holds while its invoice is amended and its offer scheduled.             *)
(***************************************************************************)
THEOREM ServicingKeepsLoans ==
  ServiceSpec => [](ServiceTypeOK /\ ClaimIntegrity /\ ActiveOfferStillOwes)
<1>1. ServInv => ServiceTypeOK /\ ClaimIntegrity
  BY DEF ServInv, TypeInv, ServiceTypeOK
<1>2. ServInv => ActiveOfferStillOwes
  BY DEF ServInv, LoanInv, OfferAccount, ActiveOfferStillOwes, Active, ActiveStatuses
<1> QED BY <1>1, <1>2, ServSpecInv, PTL

-----------------------------------------------------------------------------
(* The terms of a financed invoice *)

(* Only an amendment changes the terms of an invoice that is not Pending.  *)
LEMMA ProtocolKeepsTerms ==
  ASSUME RegTypeOK, [RegNext]_regVars, NEW i \in InvoiceIds,
         invoices[i].status \notin {"Absent", "Pending"}
  PROVE  InvoiceTerms(invoices'[i]) = InvoiceTerms(invoices[i])
<1> USE DEF RegTypeOK
<1>0. \A j \in InvoiceIds : invoices[j] \in Invoice
  OBVIOUS
<1>1. CASE UNCHANGED regVars \/ QuietStep
  BY <1>1 DEF regVars, QuietStep
<1>2. CASE RegisterStep
  BY <1>2 DEF RegisterStep, BatchRegisterInvoices, Registered
<1>3. ASSUME NEW j \in InvoiceIds, InvoiceStep(j)
      PROVE  InvoiceTerms(invoices'[i]) = InvoiceTerms(invoices[i])
  <2>1. ASSUME NEW to \in Statuses, NEW actor \in Actors, StatusStep(j, to, actor)
        PROVE  InvoiceTerms(invoices'[i]) = InvoiceTerms(invoices[i])
    BY <1>0, <2>1 DEF StatusStep, MoveStatus, InvoiceTerms, Invoice
  <2>2. ASSUME NEW amount \in Int, AmountStep(j, amount) PROVE i # j /\ invoices'[i] = invoices[i]
    BY <2>2 DEF AmountStep
  <2>3. ASSUME NEW to \in Address, TradeStep(j, to)
        PROVE  InvoiceTerms(invoices'[i]) = InvoiceTerms(invoices[i])
    BY <1>0, <2>3 DEF TradeStep, ExecuteTokenTransfer, InvoiceTerms, Invoice
  <2>4. ASSUME NEW approved \in Address \cup {Nobody}, ApproveStep(j, approved)
        PROVE  invoices'[i] = invoices[i]
    BY <2>4 DEF ApproveStep
  <2> QED BY <1>3, <2>1, <2>2, <2>3, <2>4 DEF InvoiceStep
<1> QED BY <1>1, <1>2, <1>3, StepKinds

(* An amendment that changes the terms of a financed invoice.              *)
LEMMA AmendmentByLender ==
  ASSUME ServInv, NEW j \in InvoiceIds, AmendKind(j), UNCHANGED finVars,
         NEW i \in InvoiceIds, invoices[i].status = "Financed",
         invoices'[i] # invoices[i]
  PROVE  \E k \in DOMAIN amendments[i] :
           LET r == amendments[i][k]
           IN /\ DecidedAs(r, amendments'[i][k], "Approved")
              /\ invoices'[i] = [invoices[i] EXCEPT ![r.field] = r.value]
              /\ \E f \in OffersOn(i) : Active(f) /\ offers[f].lender = invlend'[i]
<1> USE DEF ServInv
<1>0. RegTypeOK /\ amendments \in [InvoiceIds -> Seq(AmendmentRecord)]
  BY DEF TypeInv, TypeOK, AmdTypeOK
<1>1. i = j
  BY <1>0, AmendmentEffects
<1>2. PICK k \in DOMAIN amendments[i], a \in Address :
        /\ Names(i, a)
        /\ ValidValue(amendments[i][k].field, amendments[i][k].value)
        /\ ApplyAmendment(i, amendments[i][k].field, amendments[i][k].value)
        /\ Decided(i, k, "Approved")
  BY <1>1 DEF AmendKind, Requested
<1> DEFINE r == amendments[i][k]
<1>3. r.field \in AmendmentFields /\ r.value \in Int
  <2>1. amendments[i] \in Seq(AmendmentRecord)
    BY <1>0
  <2>2. r \in AmendmentRecord
    BY <2>1
  <2> QED BY <2>2 DEF AmendmentRecord
<1>4. invoices'[i] = [invoices[i] EXCEPT ![r.field] = r.value]
  BY <1>0, <1>2, <1>3, ApplyFacts
<1>5. DecidedAs(r, amendments'[i][k], "Approved")
  BY <1>2, DecidedFacts
<1>6. \E f \in OffersOn(i) : Active(f) /\ offers[f].lender = invlend'[i]
  <2>1. CASE invlend[i] = a /\ UNCHANGED invlend
    <3>1. invlend[i] # Nobody
      BY <2>1, RegistryAssumption
    <3> QED BY <2>1, <3>1 DEF LenderHolds, Terminal
  <2>2. CASE a \in ActiveLenders(i) /\ invlend' = [invlend EXCEPT ![i] = a]
    <3>1. invlend'[i] = a
      BY <2>2 DEF AmdTypeOK
    <3> QED BY <2>2, <3>1 DEF ActiveLenders, OffersOn, Active
  <2> QED BY <1>2, <2>1, <2>2 DEF Names
<1> HIDE DEF r
<1> QED BY <1>4, <1>5, <1>6 DEF r

(***************************************************************************)
(* The terms of a Financed invoice change by an approved amendment only,   *)
(* to what it asked for, and the lender the registry goes by has principal *)
(* out on the invoice then, although it was read from the financing        *)
(* contract once and never again: whoever stops having principal out does  *)
(* so in a call that settles the invoice for good.                         *)
(***************************************************************************)
THEOREM FinancedTermsChangeByLender == ServiceSpec => FinancedTermsByLender
<1> DEFINE A(i) ==
      /\ invoices[i].status = "Financed"
      /\ InvoiceTerms(invoices'[i]) # InvoiceTerms(invoices[i])
      => \E k \in DOMAIN amendments[i] :
           LET r == amendments[i][k]
           IN /\ DecidedAs(r, amendments'[i][k], "Approved")
              /\ invoices'[i] = [invoices[i] EXCEPT ![r.field] = r.value]
              /\ \E f \in OffersOn(i) : Active(f) /\ offers[f].lender = invlend'[i]
<1>1. ASSUME ServInv, [ServiceNext]_serviceVars, NEW i \in InvoiceIds PROVE A(i)
  <2> SUFFICES ASSUME invoices[i].status = "Financed",
                      InvoiceTerms(invoices'[i]) # InvoiceTerms(invoices[i])
               PROVE  \E k \in DOMAIN amendments[i] :
                        LET r == amendments[i][k]
                        IN /\ DecidedAs(r, amendments'[i][k], "Approved")
                           /\ invoices'[i] = [invoices[i] EXCEPT ![r.field] = r.value]
                           /\ \E f \in OffersOn(i) :
                                Active(f) /\ offers[f].lender = invlend'[i]
    OBVIOUS
  <2>0. invoices'[i] # invoices[i]
    OBVIOUS
  <2>1. RegTypeOK /\ OffersNameTheirParties /\ AmdTypeOK
    BY <1>1 DEF ServInv, TypeInv, TypeOK
  <2>2. ~ [RegNext]_regVars
    BY <2>1, ProtocolKeepsTerms
  <2>3. AmendmentStep
    BY <1>1, <2>1, <2>2, RegistryInsideStep
       DEF serviceVars, vars, ServiceNext, ProtocolStep, ScheduleStep, SchedNext,
           ScheduleRepayment
  <2>4. UNCHANGED finVars /\ \E j \in InvoiceIds : AmendKind(j)
    BY <2>1, <2>3, AmendmentKinds
  <2> QED BY <1>1, <2>0, <2>4, AmendmentByLender
<1>2. ServInv /\ [ServiceNext]_serviceVars => [\A i \in InvoiceIds : A(i)]_serviceVars
  BY <1>1
<1>3. ServiceSpec => [][ServiceNext]_serviceVars
  BY DEF ServiceSpec
<1> QED BY <1>2, <1>3, ServSpecInv, PTL DEF FinancedTermsByLender

(***************************************************************************)
(* Amendments are a trail: a call adds at most entries at the end, decides *)
(* an entry that waits and no other, and an entry that waits for the       *)
(* lender has changed nothing.                                             *)
(***************************************************************************)
THEOREM AmendmentsLeaveATrail == ServiceSpec => AmendmentsAreATrail
<1> DEFINE A(i) ==
      /\ Len(amendments'[i]) >= Len(amendments[i])
      /\ \A k \in DOMAIN amendments[i] :
           \/ amendments'[i][k] = amendments[i][k]
           \/ DecidedAs(amendments[i][k], amendments'[i][k], "Approved")
           \/ DecidedAs(amendments[i][k], amendments'[i][k], "Rejected")
      /\ \A k \in DOMAIN amendments'[i] \ DOMAIN amendments[i] :
           amendments'[i][k].status = "Pending" => invoices'[i] = invoices[i]
<1>1. ASSUME ServInv, [ServiceNext]_serviceVars, NEW i \in InvoiceIds PROVE A(i)
  <2>0. RegTypeOK /\ AmdTypeOK /\ amendments[i] \in Seq(AmendmentRecord)
    BY <1>1 DEF ServInv, TypeInv, TypeOK, AmdTypeOK
  <2>1. CASE amendments'[i] = amendments[i]
    BY <2>0, <2>1
  <2>2. UNCHANGED amendments \/ AmendmentStep
    BY <1>1 DEF serviceVars, amdVars, ServiceNext, ProtocolStep, ScheduleStep
  <2>3. ASSUME AmendmentStep PROVE A(i)
    <3>1. PICK j \in InvoiceIds : AmendKind(j)
      BY <2>0, <2>3, AmendmentKinds
    <3>2. CASE j # i
      <4>1. amendments'[i] = amendments[i]
        BY <2>0, <3>1, <3>2, AmendmentEffects
      <4> QED BY <2>1, <4>1
    <3>3. CASE j = i
      <4>1. ASSUME NEW k \in DOMAIN amendments[i], NEW verdict \in {"Approved", "Rejected"},
                   Decided(i, k, verdict)
            PROVE  A(i)
        <5>1. /\ Len(amendments'[i]) = Len(amendments[i])
              /\ DOMAIN amendments'[i] = DOMAIN amendments[i]
              /\ DecidedAs(amendments[i][k], amendments'[i][k], verdict)
              /\ \A n \in DOMAIN amendments[i] \ {k} : amendments'[i][n] = amendments[i][n]
          BY <2>0, <4>1, DecidedFacts
        <5> QED BY <2>0, <4>1, <5>1
      <4>2. ASSUME NEW field \in AmendmentFields, NEW value \in Int, Requested(i, field, value)
            PROVE  A(i)
        <5>1. /\ Len(amendments'[i]) = Len(amendments[i]) + 1
              /\ \A n \in DOMAIN amendments[i] : amendments'[i][n] = amendments[i][n]
              /\ \A n \in DOMAIN amendments'[i] \ DOMAIN amendments[i] :
                   amendments'[i][n].status = "Pending" => UNCHANGED invoices
          BY <2>0, <4>2, RequestedFacts
        <5> QED BY <2>0, <5>1
      <4>3. UNCHANGED amendments => A(i)
        BY <2>1
      <4> HIDE DEF A
      <4> QED BY <3>1, <3>3, <4>1, <4>2, <4>3 DEF AmendKind
    <3> QED BY <3>2, <3>3
  <2> QED BY <2>1, <2>2, <2>3
<1>2. ServInv /\ [ServiceNext]_serviceVars => [\A i \in InvoiceIds : A(i)]_serviceVars
  BY <1>1
<1>3. ServiceSpec => [][ServiceNext]_serviceVars
  BY DEF ServiceSpec
<1> QED BY <1>2, <1>3, ServSpecInv, PTL DEF AmendmentsAreATrail

-----------------------------------------------------------------------------
(* The installment that is due *)

(* A whole number of d's fits into a when it is at most the quotient.      *)
LEMMA QuotientCovers ==
  ASSUME NEW a \in Nat, NEW d \in Nat \ {0}, NEW m \in Int
  PROVE  /\ a \div d \in Nat
         /\ m * d <= a <=> m <= a \div d
<1> DEFINE c == a \div d
<1>1. c \in Nat /\ c * d <= a /\ a < c * d + d
  OBVIOUS
<1> HIDE DEF c
<1>2. CASE m <= c
  <2>1. PICK e \in Nat : c = m + e
    <3>1. c - m \in Nat /\ c = m + (c - m)
      BY <1>1, <1>2
    <3> QED BY <3>1
  <2>2. c * d = m * d + e * d
    BY <2>1
  <2>3. e * d \in Nat /\ m * d \in Int
    OBVIOUS
  <2>4. m * d <= a
    BY <1>1, <2>2, <2>3
  <2> QED BY <1>1, <1>2, <2>4 DEF c
<1>3. CASE ~ (m <= c)
  <2>1. PICK e \in Nat : m = c + 1 + e
    <3>1. m - c - 1 \in Nat /\ m = c + 1 + (m - c - 1)
      BY <1>1, <1>3
    <3> QED BY <3>1
  <2>2. m * d = c * d + d + e * d
    BY <1>1, <2>1
  <2>3. e * d \in Nat /\ c * d \in Nat
    BY <1>1
  <2>4. ~ (m * d <= a)
    BY <1>1, <2>2, <2>3
  <2> QED BY <1>1, <1>3, <2>4 DEF c
<1> QED BY <1>2, <1>3

LEMMA LeastOf ==
  ASSUME NEW S \in SUBSET Int, NEW m \in S, \A k \in S : m <= k
  PROVE  Min(S) = m
<1>1. m \in S /\ \A k \in S : m =< k
  OBVIOUS
<1>2. Min(S) \in S /\ \A k \in S : Min(S) =< k
  BY <1>1 DEF Min
<1>3. Min(S) <= m /\ m <= Min(S) /\ Min(S) \in Int /\ m \in Int
  BY <1>1, <1>2
<1> QED BY <1>3

FirstOf(S) == IF S = {} THEN 0 ELSE Min(S)

DueAndUncovered(n, p, d, first, t, a) ==
  {k \in 1 .. n : first + (k - 1) * p <= t /\ a < k * d}

FoundByDivision(n, p, d, first, t, a) ==
  IF n = 0 \/ t < first \/ a \div d >= AtMost((t - first) \div p + 1, n)
  THEN 0
  ELSE a \div d + 1

(* Counting elapsed periods and covered installments by two divisions      *)
(* finds the first of those that are due and uncovered one by one.         *)
LEMMA DueByDivision ==
  ASSUME NEW n \in Nat, NEW p \in Nat \ {0}, NEW d \in Nat, NEW first \in Nat,
         NEW t \in Nat, NEW a \in Nat, n > 0 => d > 0
  PROVE  FoundByDivision(n, p, d, first, t, a) = FirstOf(DueAndUncovered(n, p, d, first, t, a))
<1> DEFINE due   == DueAndUncovered(n, p, d, first, t, a)
           found == FoundByDivision(n, p, d, first, t, a)
<1> SUFFICES found = (IF due = {} THEN 0 ELSE Min(due))
  BY DEF FirstOf
<1>a. due = {k \in 1 .. n : first + (k - 1) * p <= t /\ a < k * d}
  BY DEF DueAndUncovered
<1>b. found = (IF n = 0 \/ t < first \/ a \div d >= AtMost((t - first) \div p + 1, n)
               THEN 0 ELSE a \div d + 1)
  BY DEF FoundByDivision
<1> HIDE DEF due, found
<1>1. CASE n = 0
  <2>1. due = {}
    BY <1>1, <1>a
  <2> QED BY <1>1, <1>b, <2>1
<1>2. CASE n > 0 /\ t < first
  <2>1. \A k \in 1 .. n : ~ (first + (k - 1) * p <= t)
    <3>1. \A k \in 1 .. n : k - 1 \in Nat /\ (k - 1) * p \in Nat
      OBVIOUS
    <3> QED BY <1>2, <3>1
  <2>2. due = {}
    BY <1>a, <2>1
  <2> QED BY <1>2, <1>b, <2>2
<1>3. CASE n > 0 /\ ~ (t < first)
  <2> DEFINE gone    == t - first
             periods == gone \div p
             covered == a \div d
  <2>1. gone \in Nat /\ d \in Nat \ {0}
    BY <1>3
  <2>2. periods \in Nat /\ covered \in Nat
    BY <2>1, QuotientCovers
  <2>3. ASSUME NEW k \in 1 .. n
        PROVE  k \in due <=> covered < k /\ k <= periods + 1
    <3>1. k \in Int /\ k - 1 \in Int /\ (k - 1) * p \in Int /\ k * d \in Int
      OBVIOUS
    <3>2. (k - 1) * p <= gone <=> k - 1 <= periods
      BY <2>1, <3>1, QuotientCovers
    <3>3. k * d <= a <=> k <= covered
      BY <2>1, <3>1, QuotientCovers
    <3>4. first + (k - 1) * p <= t <=> (k - 1) * p <= gone
      BY <3>1
    <3> HIDE DEF gone, periods, covered
    <3>5. first + (k - 1) * p <= t <=> k <= periods + 1
      BY <2>2, <3>1, <3>2, <3>4
    <3>6. a < k * d <=> covered < k
      BY <2>2, <3>1, <3>3
    <3> QED BY <1>a, <3>5, <3>6
  <2>4. due \subseteq 1 .. n
    BY <1>a
  <2> HIDE DEF periods, covered
  <2>5. CASE covered >= AtMost(periods + 1, n)
    <3>1. ASSUME NEW k \in due PROVE FALSE
      <4>1. k \in 1 .. n /\ covered < k /\ k <= periods + 1
        BY <2>3, <2>4, <3>1
      <4> QED BY <2>2, <2>5, <4>1 DEF AtMost
    <3>2. due = {}
      BY <3>1
    <3> QED BY <1>3, <1>b, <2>5, <3>2 DEF periods, covered, gone
  <2>6. CASE ~ (covered >= AtMost(periods + 1, n))
    <3>1. covered + 1 \in 1 .. n /\ covered + 1 <= periods + 1
      BY <2>2, <2>6 DEF AtMost
    <3>2. covered + 1 \in due
      BY <2>2, <2>3, <3>1
    <3>3. \A k \in due : covered + 1 <= k
      BY <2>2, <2>3, <2>4
    <3>4. due \in SUBSET Int
      BY <2>4
    <3>5. Min(due) = covered + 1
      BY <3>2, <3>3, <3>4, LeastOf
    <3>6. due # {}
      BY <3>2
    <3> QED BY <1>3, <1>b, <2>6, <3>5, <3>6 DEF periods, covered, gone
  <2> QED BY <2>5, <2>6
<1> QED BY <1>1, <1>2, <1>3

(***************************************************************************)
(* get_installment_due finds the first installment that is due and not     *)
(* covered, whatever was paid when, by its two divisions.  No division by  *)
(* zero is met: an installment that counts has an amount.                  *)
(***************************************************************************)
THEOREM DueIsFirstUncovered == ServiceSpec => []FirstUncoveredIsDue
<1>1. ServInv => FirstUncoveredIsDue
  <2> SUFFICES ASSUME ServInv, NEW f \in OfferIds,
                      offers[f].status \notin {"Repaid", "Defaulted"}
               PROVE  LET s == schedules[f]
                          due == {k \in 1 .. s.count :
                                    /\ s.first_due + (k - 1) * s.period <= now
                                    /\ offers[f].amount_repaid < k * s.installment_amount}
                      IN GetInstallmentDue(f) = (IF due = {} THEN 0 ELSE Min(due))
    BY DEF FirstUncoveredIsDue
  <2> DEFINE s     == schedules[f]
             n     == s.count
             p     == s.period
             d     == s.installment_amount
             first == s.first_due
             a     == offers[f].amount_repaid
             due   == DueAndUncovered(n, p, d, first, now, a)
  <2>1. s \in RepaymentSchedule /\ (n > 0 => d > 0)
    BY DEF ServInv, SchedTypeOK, InstallmentsCount
  <2>2. n \in Nat /\ p \in Nat \ {0} /\ d \in Nat /\ first \in Nat /\ (n > 0 => d > 0)
    BY <2>1, ScheduleAssumption DEF RepaymentSchedule
  <2>3. now \in Nat
    BY DEF ServInv, TypeInv, TypeOK, RegTypeOK
  <2>4. a \in Nat
    <3>1. offers[f] \in Offer /\ a >= 0
      BY DEF ServInv, TypeInv, TypeOK, FinTypeOK, LoanInv, OfferAccount
    <3> QED BY <3>1 DEF Offer
  <2>5. GetInstallmentDue(f) = FoundByDivision(n, p, d, first, now, a)
    BY DEF GetInstallmentDue, ElapsedInstallments, FoundByDivision
  <2>6. due = {k \in 1 .. s.count : s.first_due + (k - 1) * s.period <= now
                                   /\ offers[f].amount_repaid < k * s.installment_amount}
    BY DEF DueAndUncovered
  <2> HIDE DEF s, n, p, d, first, a
  <2>7. FoundByDivision(n, p, d, first, now, a) = FirstOf(due)
    BY <2>2, <2>3, <2>4, DueByDivision
  <2> HIDE DEF due
  <2>8. GetInstallmentDue(f) = (IF due = {} THEN 0 ELSE Min(due))
    BY <2>5, <2>7 DEF FirstOf
  <2> QED BY <2>6, <2>8 DEF s
<1> QED BY <1>1, ServSpecInv, PTL
=============================================================================
