------------------------- MODULE NegotiationProofs --------------------------
(***************************************************************************)
(* Proofs about Negotiation, for any accounts, offers, terms, windows and  *)
(* numbers of rounds.                                                      *)
(*                                                                         *)
(* A call changes the records of one offer f at most, in one of the ways   *)
(* collected under OfferMoves; every property is proved over these.  The   *)
(* books are running totals: a call moves each by what f contributes after *)
(* it less what f contributed before.                                      *)
(***************************************************************************)
EXTENDS Negotiation, RegistryProofs, FiniteSums, SequenceTheorems

-----------------------------------------------------------------------------
(* The ledger time and the registry under a call *)

LEMMA ClockForward ==
  ASSUME RegTypeOK, [RegNext]_regVars
  PROVE  now' \in Nat /\ now <= now'
<1>1. now \in Nat
  BY RegistryAssumption DEF RegTypeOK
<1>2. CASE UNCHANGED regVars
  BY <1>1, <1>2 DEF regVars
<1>3. CASE QuietStep
  BY <1>1, <1>3, RegistryAssumption DEF QuietStep
<1>4. CASE RegisterStep
  BY <1>1, <1>4 DEF RegisterStep, BatchRegisterInvoices
<1>5. ASSUME NEW i \in InvoiceIds, InvoiceStep(i) PROVE now' = now
  BY <1>5 DEF InvoiceStep, StatusStep, AmountStep, TradeStep, ApproveStep,
              ExecuteTokenTransfer
<1> QED BY <1>1, <1>2, <1>3, <1>4, <1>5, StepKinds

(* The registry's part of a settlement.                                    *)
LEMMA MarkFinancedType ==
  ASSUME RegTypeOK, NEW i \in InvoiceIds, FinancingMarksInvoiceFinanced(i)
  PROVE  RegTypeOK' /\ now' = now
<1>1. RegNext
  BY DEF RegNext, SystemNext
<1> QED BY <1>1, TypeStep DEF FinancingMarksInvoiceFinanced

-----------------------------------------------------------------------------
(* The invariant *)

(* Every offer that was made names its parties; one that was not has no    *)
(* negotiation.                                                            *)
OffersAreTold ==
  \A f \in OfferIds :
    /\ offers[f].status \in {"Absent", "Pending", "Accepted", "Rejected"}
    /\ IF offers[f].status = "Absent"
       THEN offers[f].lender = Nobody /\ rounds[f] = << >> /\ outcome[f] = "None"
       ELSE offers[f].lender \in Address /\ offers[f].invoice_id \in InvoiceIds

(* No round is dated after the present.                                    *)
RoundsInThePast ==
  \A f \in OfferIds : \A k \in DOMAIN rounds[f] : rounds[f][k].timestamp <= now

(* The standing offer is at the terms of the lender's last round.          *)
LastOfLenderStands ==
  \A f \in OfferIds : \A k \in RoundsBy(f, "Lender") :
    (\A j \in RoundsBy(f, "Lender") : j <= k) => TermsOf(rounds[f][k]) = TermsOf(offers[f])

(* What the other parts need of a state.                                   *)
NegBase == TypeOK /\ OffersAreTold

LEMMA OfferFacts ==
  ASSUME NegBase, NEW f \in OfferIds
  PROVE  /\ offers[f] \in Offer
         /\ rounds[f] \in Seq(NegotiationRecord)
         /\ Len(rounds[f]) \in Nat /\ Len(rounds[f]) <= MaxRounds
         /\ DOMAIN rounds[f] = 1 .. Len(rounds[f])
         /\ deadline[f] \in Nat
         /\ outcome[f] \in Ended \cup {"None"}
         /\ now \in Nat /\ window \in MinWindow .. MaxWindow /\ window \in Nat
<1>1. offers[f] \in Offer /\ rounds[f] \in Seq(NegotiationRecord)
  BY DEF NegBase, TypeOK, FinTypeOK, NegTypeOK
<1>2. Len(rounds[f]) \in Nat /\ DOMAIN rounds[f] = 1 .. Len(rounds[f])
  BY <1>1
<1>3. now \in Nat /\ window \in MinWindow .. MaxWindow /\ window \in Nat
  BY RegistryAssumption, NegotiationAssumption
     DEF NegBase, TypeOK, RegTypeOK, NegTypeOK
<1> QED BY <1>1, <1>2, <1>3 DEF NegBase, TypeOK, NegTypeOK

-----------------------------------------------------------------------------
(* What an offer contributes to the books *)

Offered(o, a) == IF o.lender = a THEN o.amount ELSE 0

Lent(o) == IF o.status = "Accepted" THEN o.amount ELSE 0

LentBy(o, a) == IF o.status = "Accepted" /\ o.lender = a THEN o.amount ELSE 0

(* The books move with the offer that is p before the call and q after it. *)
EntriesOf(p, q) ==
  /\ stats'.total_financed = stats.total_financed + Lent(q) - Lent(p)
  /\ \A a \in Address :
       /\ lstats'[a].total_offered = lstats[a].total_offered + Offered(q, a) - Offered(p, a)
       /\ lstats'[a].total_accepted = lstats[a].total_accepted + LentBy(q, a) - LentBy(p, a)
       /\ pos'[a] = pos[a] + LentBy(q, a) - LentBy(p, a)

-----------------------------------------------------------------------------
(* The ways a call changes an offer *)

(* The offer and its negotiation change, and those of no other.            *)
OnlyAt(f) ==
  \A g \in OfferIds \ {f} :
    /\ offers'[g] = offers[g]
    /\ rounds'[g] = rounds[g]
    /\ deadline'[g] = deadline[g]
    /\ outcome'[g] = outcome[g]

SameParties(f) ==
  /\ offers'[f].lender = offers[f].lender
  /\ offers'[f].invoice_id = offers[f].invoice_id

SameNegotiation(f) ==
  rounds'[f] = rounds[f] /\ deadline'[f] = deadline[f] /\ outcome'[f] = outcome[f]

Created(f) ==
  /\ offers[f].status = "Absent"
  /\ offers'[f].status = "Pending"
  /\ offers'[f].lender \in Address
  /\ offers'[f].invoice_id \in InvoiceIds
  /\ SameNegotiation(f)

Refused(f) ==
  /\ offers[f].status = "Pending"
  /\ offers'[f].status = "Rejected"
  /\ SameParties(f)
  /\ TermsOf(offers'[f]) = TermsOf(offers[f])
  /\ SameNegotiation(f)

Settled(f) ==
  /\ offers'[f].status = "Accepted"
  /\ outcome'[f] = IF rounds'[f] # << >> /\ outcome[f] = "None" THEN "Accepted"
                   ELSE outcome[f]

Taken(f) ==
  /\ offers[f].status = "Pending"
  /\ Settled(f)
  /\ SameParties(f)
  /\ TermsOf(offers'[f]) = TermsOf(offers[f])
  /\ rounds'[f] = rounds[f] /\ deadline'[f] = deadline[f]

ClosedDown(f) ==
  /\ offers'[f] = offers[f]
  /\ rounds'[f] = rounds[f] /\ deadline'[f] = deadline[f]
  /\ outcome[f] = "None"
  /\ \/ NegotiationStatus(f) = "Expired" /\ outcome'[f] = "Expired"
     \/ NegotiationStatus(f) = "Open" /\ outcome'[f] = "Closed"

(* r is the round of a party that had read all the rounds before.          *)
Round(f, r) ==
  /\ offers[f].status = "Pending"
  /\ NegotiationStatus(f) \in {"None", "Open"}
  /\ Len(rounds[f]) < MaxRounds
  /\ r \in NegotiationRecord
  /\ r.timestamp = now
  /\ r.read = Len(rounds[f])
  /\ rounds'[f] = Append(rounds[f], r)
  /\ deadline'[f] = IF rounds[f] = << >> THEN now + window ELSE deadline[f]
  /\ SameParties(f)
  /\ r.party = "Lender" => TermsOf(offers'[f]) = TermsOf(r)
  /\ r.party = "Originator" => TermsOf(offers'[f]) = TermsOf(offers[f])
  /\ IF offers'[f].status = "Pending" THEN outcome'[f] = outcome[f] ELSE Settled(f)

OfferMoves(f) ==
  \/ Created(f) \/ Refused(f) \/ Taken(f) \/ ClosedDown(f)
  \/ \E r : Round(f, r)

(* A call about the offer f: the types hold, the books move with f.        *)
OfferStep(f) ==
  /\ RegTypeOK' /\ FinTypeOK' /\ NegTypeOK'
  /\ now' = now
  /\ OnlyAt(f)
  /\ EntriesOf(offers[f], offers'[f])
  /\ OfferMoves(f)

(* A step about no offer.                                                  *)
OtherStep ==
  /\ RegTypeOK' /\ FinTypeOK' /\ NegTypeOK'
  /\ now' \in Nat /\ now <= now'
  /\ UNCHANGED <<finVars, rounds, deadline, outcome>>

-----------------------------------------------------------------------------
(* The calls are such steps *)

LEMMA StatsStayStats ==
  ASSUME NEW s \in LenderStats, NEW x \in Int
  PROVE  /\ [s EXCEPT !.total_offered = @ + x, !.offers_pending = @ + 1] \in LenderStats
         /\ [s EXCEPT !.total_offered = @ + x] \in LenderStats
         /\ [s EXCEPT !.total_accepted = @ + x] \in LenderStats
<1>1. /\ s.total_offered + x \in Int
      /\ s.total_accepted + x \in Int
      /\ s.offers_pending + 1 \in Nat
  BY DEF LenderStats
<1>2. [s EXCEPT !.total_offered = @ + x] \in LenderStats
  BY <1>1 DEF LenderStats
<1>3. [s EXCEPT !.total_accepted = @ + x] \in LenderStats
  BY <1>1 DEF LenderStats
<1>4. [s EXCEPT !.total_offered = @ + x, !.offers_pending = @ + 1] \in LenderStats
  BY <1>1 DEF LenderStats
<1> QED BY <1>2, <1>3, <1>4

LEMMA RegistryStepIsOther ==
  ASSUME NegBase, RegistryStep
  PROVE  OtherStep
<1>1. RegTypeOK' /\ now' \in Nat /\ now <= now'
  BY TypeStep, ClockForward DEF NegBase, TypeOK, RegistryStep, RegNext
<1> QED BY <1>1 DEF NegBase, TypeOK, RegistryStep, OtherStep, FinTypeOK, NegTypeOK,
                    finVars, negVars

LEMMA WindowStepIsOther ==
  ASSUME NegBase, WindowNext
  PROVE  OtherStep
<1>1. PICK w \in Windows : SetNegotiationWindow(w)
  BY DEF WindowNext
<1>2. RegTypeOK' /\ now' = now
  BY <1>1 DEF SetNegotiationWindow, NegBase, TypeOK, RegTypeOK, regVars
<1>3. now \in Nat
  BY RegistryAssumption DEF NegBase, TypeOK, RegTypeOK
<1>4. FinTypeOK' /\ NegTypeOK'
  BY <1>1 DEF SetNegotiationWindow, NegBase, TypeOK, FinTypeOK, NegTypeOK, finVars
<1> QED BY <1>1, <1>2, <1>3, <1>4 DEF SetNegotiationWindow, OtherStep

LEMMA CreateIsStep ==
  ASSUME NegBase, NEW f \in OfferIds, NEW a \in Address, NEW i \in InvoiceIds,
         NEW amount \in Principals, NEW rate \in Rates, NEW e \in Expiries,
         CreateOffer(f, i, a, amount, rate, e), UNCHANGED negVars
  PROVE  OfferStep(f)
<1> DEFINE made == [invoice_id |-> i, lender |-> a, amount |-> amount,
             interest_rate |-> rate, expires_at |-> e, status |-> "Pending",
             funded_at |-> 0, amount_repaid |-> 0]
<1>1. /\ offers \in [OfferIds -> Offer]
      /\ lstats \in [Address -> LenderStats]
      /\ stats \in ProtocolStats
      /\ pos \in [Address -> Int]
  BY DEF NegBase, TypeOK, FinTypeOK
<1>2. made \in Offer
  BY FinancingAssumption DEF Offer, OfferStatuses
<1>3. offers' = [offers EXCEPT ![f] = made]
  BY DEF CreateOffer
<1>4. lstats' = [lstats EXCEPT ![a] = [lstats[a] EXCEPT !.total_offered = @ + amount,
                                                        !.offers_pending = @ + 1]]
  BY <1>1 DEF CreateOffer, LenderStats
<1>5. stats' = [stats EXCEPT !.total_offers = @ + 1] /\ pos' = pos
  BY DEF CreateOffer
<1>6. amount \in Int
  BY FinancingAssumption
<1>7. /\ made.status = "Pending" /\ made.lender = a /\ made.amount = amount
      /\ made.invoice_id = i
  OBVIOUS
<1> HIDE DEF made
<1>8. FinTypeOK'
  <2>1. offers' \in [OfferIds -> Offer]
    BY <1>1, <1>2, <1>3
  <2>2. lstats' \in [Address -> LenderStats]
    <3>1. [lstats[a] EXCEPT !.total_offered = @ + amount, !.offers_pending = @ + 1]
            \in LenderStats
      <4>1. lstats[a] \in LenderStats
        BY <1>1
      <4> QED BY <1>6, <4>1, StatsStayStats
    <3> QED BY <1>1, <1>4, <3>1
  <2>3. stats' \in ProtocolStats
    BY <1>1, <1>5 DEF ProtocolStats
  <2> QED BY <1>1, <1>5, <2>1, <2>2, <2>3 DEF FinTypeOK
<1>9. RegTypeOK' /\ NegTypeOK' /\ now' = now
  BY DEF CreateOffer, NegBase, TypeOK, RegTypeOK, NegTypeOK, regVars, negVars
<1>10. offers[f].status = "Absent" /\ offers[f].lender = Nobody
  BY DEF CreateOffer, NegBase, OffersAreTold
<1>11. offers'[f] = made
  BY <1>1, <1>3
<1>12. EntriesOf(offers[f], offers'[f])
  <2>1. \A l \in Address :
          /\ Offered(offers[f], l) = 0
          /\ Offered(made, l) = IF l = a THEN amount ELSE 0
          /\ LentBy(offers[f], l) = 0 /\ LentBy(made, l) = 0
    BY <1>7, <1>10, RegistryAssumption DEF Offered, LentBy
  <2>2. Lent(offers[f]) = 0 /\ Lent(made) = 0
    BY <1>7, <1>10 DEF Lent
  <2>3. stats'.total_financed = stats.total_financed /\ stats.total_financed \in Int
    BY <1>1, <1>5 DEF ProtocolStats
  <2>4. \A l \in Address :
          /\ lstats'[l].total_offered = lstats[l].total_offered + (IF l = a THEN amount ELSE 0)
          /\ lstats'[l].total_accepted = lstats[l].total_accepted
          /\ lstats[l].total_offered \in Int /\ lstats[l].total_accepted \in Int
          /\ pos[l] \in Int /\ pos'[l] = pos[l]
    BY <1>1, <1>4, <1>5, <1>6 DEF LenderStats
  <2> QED BY <1>6, <1>11, <2>1, <2>2, <2>3, <2>4 DEF EntriesOf
<1>13. Created(f)
  BY <1>7, <1>10, <1>11 DEF Created, SameNegotiation, negVars
<1>14. OnlyAt(f)
  BY <1>1, <1>3 DEF OnlyAt, negVars
<1> QED BY <1>8, <1>9, <1>12, <1>13, <1>14 DEF OfferStep, OfferMoves

LEMMA RefuseIsStep ==
  ASSUME NegBase, NEW f \in OfferIds, NEW a \in Address,
         WithdrawOffer(f, a) \/ RejectOffer(f, a), UNCHANGED negVars
  PROVE  OfferStep(f)
<1>1. /\ offers \in [OfferIds -> Offer]
      /\ lstats \in [Address -> LenderStats]
      /\ stats \in ProtocolStats
      /\ pos \in [Address -> Int]
  BY DEF NegBase, TypeOK, FinTypeOK
<1>2. /\ offers[f].status = "Pending"
      /\ offers' = [offers EXCEPT ![f] = [offers[f] EXCEPT !.status = "Rejected"]]
      /\ UNCHANGED <<regVars, lstats, stats, pos>>
  BY DEF WithdrawOffer, RejectOffer
<1>3. /\ offers'[f] \in Offer
      /\ offers'[f].status = "Rejected"
      /\ offers'[f].lender = offers[f].lender
      /\ offers'[f].invoice_id = offers[f].invoice_id
      /\ offers'[f].amount = offers[f].amount
      /\ offers'[f].interest_rate = offers[f].interest_rate
      /\ offers[f].amount \in Int
  BY <1>1, <1>2 DEF Offer, OfferStatuses
<1>4. FinTypeOK'
  BY <1>1, <1>2, <1>3 DEF FinTypeOK
<1>5. RegTypeOK' /\ NegTypeOK' /\ now' = now
  BY <1>2 DEF NegBase, TypeOK, RegTypeOK, NegTypeOK, regVars, negVars
<1>6. EntriesOf(offers[f], offers'[f])
  <2>1. \A l \in Address :
          /\ Offered(offers'[f], l) = Offered(offers[f], l)
          /\ Offered(offers[f], l) \in Int
          /\ LentBy(offers[f], l) = 0 /\ LentBy(offers'[f], l) = 0
    BY <1>2, <1>3 DEF Offered, LentBy
  <2>2. Lent(offers[f]) = 0 /\ Lent(offers'[f]) = 0
    BY <1>2, <1>3 DEF Lent
  <2>3. /\ stats.total_financed \in Int
        /\ \A l \in Address : /\ lstats[l].total_offered \in Int
                              /\ lstats[l].total_accepted \in Int
                              /\ pos[l] \in Int
    BY <1>1 DEF ProtocolStats, LenderStats
  <2> QED BY <1>2, <2>1, <2>2, <2>3 DEF EntriesOf
<1>7. Refused(f)
  BY <1>2, <1>3 DEF Refused, SameParties, SameNegotiation, TermsOf, negVars
<1>8. OnlyAt(f)
  BY <1>1, <1>2 DEF OnlyAt, negVars
<1> QED BY <1>4, <1>5, <1>6, <1>7, <1>8 DEF OfferStep, OfferMoves

(* What settle_acceptance writes for the offer o stored under f.           *)
SettledAs(f, o, lenders) ==
  /\ RegTypeOK' /\ FinTypeOK' /\ now' = now
  /\ \A g \in OfferIds \ {f} : offers'[g] = offers[g]
  /\ offers'[f].status = "Accepted"
  /\ offers'[f].lender = o.lender
  /\ offers'[f].invoice_id = o.invoice_id
  /\ offers'[f].amount = o.amount
  /\ offers'[f].interest_rate = o.interest_rate
  /\ stats'.total_financed = stats.total_financed + o.amount
  /\ \A l \in Address :
       /\ pos'[l] = pos[l] + (IF l = o.lender THEN o.amount ELSE 0)
       /\ lstats'[l].total_offered = lenders[l].total_offered
       /\ lstats'[l].total_accepted
            = lenders[l].total_accepted + (IF l = o.lender THEN o.amount ELSE 0)

LEMMA SettlementSettles ==
  ASSUME NegBase, NEW f \in OfferIds, NEW o \in Offer,
         o.lender \in Address, o.invoice_id \in InvoiceIds,
         NEW lenders \in [Address -> LenderStats], SettleAcceptance(f, o, lenders)
  PROVE  SettledAs(f, o, lenders)
<1> DEFINE b == o.lender
           x == o.amount
           q == [o EXCEPT !.status = "Accepted", !.funded_at = now]
<1>1. /\ offers \in [OfferIds -> Offer]
      /\ stats \in ProtocolStats
      /\ pos \in [Address -> Int]
      /\ now \in Nat
  BY RegistryAssumption DEF NegBase, TypeOK, FinTypeOK, RegTypeOK
<1>2. RegTypeOK' /\ now' = now
  BY MarkFinancedType DEF NegBase, TypeOK, SettleAcceptance
<1>3. x \in Int /\ b \in Address
  BY DEF Offer
<1>4. /\ q \in Offer /\ q.status = "Accepted" /\ q.lender = o.lender
      /\ q.invoice_id = o.invoice_id /\ q.amount = o.amount
      /\ q.interest_rate = o.interest_rate
  BY <1>1 DEF Offer, OfferStatuses
<1>5. offers' = [offers EXCEPT ![f] = q]
  BY DEF SettleAcceptance
<1> HIDE DEF q
<1>6. /\ offers' \in [OfferIds -> Offer]
      /\ offers'[f] = q
      /\ \A g \in OfferIds \ {f} : offers'[g] = offers[g]
  BY <1>1, <1>4, <1>5
<1>7. /\ pos' \in [Address -> Int]
      /\ \A l \in Address : pos'[l] = pos[l] + (IF l = b THEN x ELSE 0)
  <2>1. pos' = [pos EXCEPT ![b] = @ + x]
    BY DEF SettleAcceptance
  <2> HIDE DEF b, x
  <2> QED BY <1>1, <1>3, <2>1
<1>8. /\ stats' \in ProtocolStats
      /\ stats'.total_financed = stats.total_financed + x
  <2>1. stats' = [stats EXCEPT !.total_financed = @ + x]
    BY DEF SettleAcceptance
  <2> HIDE DEF x
  <2> QED BY <1>1, <1>3, <2>1 DEF ProtocolStats
<1>9. lstats' = [lenders EXCEPT ![b] = [lenders[b] EXCEPT !.total_accepted = @ + x]]
  BY <1>3 DEF SettleAcceptance, LenderStats
<1>10. lstats' \in [Address -> LenderStats]
  <2>1. [lenders[b] EXCEPT !.total_accepted = @ + x] \in LenderStats
    <3>1. lenders[b] \in LenderStats
      BY <1>3
    <3> HIDE DEF b, x
    <3> QED BY <1>3, <3>1, StatsStayStats
  <2> HIDE DEF b, x
  <2> QED BY <1>3, <1>9, <2>1
<1>11. ASSUME NEW l \in Address
       PROVE  /\ lstats'[l].total_offered = lenders[l].total_offered
              /\ lstats'[l].total_accepted
                   = lenders[l].total_accepted + (IF l = b THEN x ELSE 0)
  <2>1. lenders[l] \in LenderStats /\ lenders[b] \in LenderStats
    BY <1>3
  <2> HIDE DEF b, x
  <2>2. CASE l = b
    <3>1. lstats'[l] = [lenders[b] EXCEPT !.total_accepted = @ + x]
      BY <1>3, <1>9, <2>2
    <3> QED BY <1>3, <2>1, <2>2, <3>1 DEF LenderStats
  <2>3. CASE l # b
    <3>1. lstats'[l] = lenders[l]
      BY <1>3, <1>9, <2>3
    <3> QED BY <2>1, <2>3, <3>1 DEF LenderStats
  <2> QED BY <2>2, <2>3
<1>12. FinTypeOK'
  BY <1>6, <1>7, <1>8, <1>10 DEF FinTypeOK
<1> QED BY <1>2, <1>4, <1>6, <1>7, <1>8, <1>11, <1>12 DEF SettledAs

(* The books after a settlement that began with the statistics `lenders`,  *)
(* in which the lender's total has followed the terms already.             *)
LEMMA SettlementEntries ==
  ASSUME NegBase, NEW f \in OfferIds, offers[f].status = "Pending",
         NEW o \in Offer, o.lender \in Address, o.lender = offers[f].lender,
         NEW lenders,
         \A l \in Address :
           /\ lenders[l].total_offered
                = lstats[l].total_offered + Offered(o, l) - Offered(offers[f], l)
           /\ lenders[l].total_accepted = lstats[l].total_accepted,
         SettledAs(f, o, lenders)
  PROVE  EntriesOf(offers[f], offers'[f])
<1>1. /\ stats.total_financed \in Int
      /\ o.amount \in Int /\ offers[f].amount \in Int
      /\ \A l \in Address : /\ lstats[l].total_offered \in Int
                            /\ lstats[l].total_accepted \in Int
                            /\ pos[l] \in Int
  BY DEF NegBase, TypeOK, FinTypeOK, ProtocolStats, LenderStats, Offer
<1>2. \A l \in Address :
        /\ Offered(offers'[f], l) = Offered(o, l)
        /\ LentBy(offers[f], l) = 0
        /\ LentBy(offers'[f], l) = IF l = o.lender THEN o.amount ELSE 0
  BY DEF Offered, LentBy, SettledAs
<1>3. Lent(offers[f]) = 0 /\ Lent(offers'[f]) = o.amount
  BY DEF Lent, SettledAs
<1> QED BY <1>1, <1>2, <1>3 DEF EntriesOf, SettledAs

LEMMA OutcomeOfSettlement ==
  ASSUME NegBase, NEW f \in OfferIds, NEW h, EndBySettlement(f, h)
  PROVE  /\ outcome' \in [OfferIds -> Ended \cup {"None"}]
         /\ outcome'[f] = IF h # << >> /\ outcome[f] = "None" THEN "Accepted" ELSE outcome[f]
         /\ \A g \in OfferIds \ {f} : outcome'[g] = outcome[g]
<1>1. outcome \in [OfferIds -> Ended \cup {"None"}]
  BY DEF NegBase, TypeOK, NegTypeOK
<1> QED BY <1>1 DEF EndBySettlement, Ended

LEMMA AcceptIsStep ==
  ASSUME NegBase, NEW f \in OfferIds, NEW a \in Address, AcceptOutright(f, a)
  PROVE  OfferStep(f)
<1>1. /\ offers[f].status = "Pending"
      /\ SettleAcceptance(f, offers[f], lstats)
      /\ EndBySettlement(f, rounds[f])
      /\ UNCHANGED <<window, rounds, deadline>>
  BY DEF AcceptOutright, AcceptOffer
<1>2. /\ offers[f] \in Offer /\ offers[f].lender \in Address
      /\ offers[f].invoice_id \in InvoiceIds
      /\ lstats \in [Address -> LenderStats]
  BY <1>1 DEF NegBase, OffersAreTold, TypeOK, FinTypeOK
<1>3. SettledAs(f, offers[f], lstats)
  BY <1>1, <1>2, SettlementSettles
<1>4. \A l \in Address :
        /\ lstats[l].total_offered
             = lstats[l].total_offered + Offered(offers[f], l) - Offered(offers[f], l)
        /\ lstats[l].total_accepted = lstats[l].total_accepted
  BY <1>2 DEF Offered, Offer, LenderStats
<1>5. EntriesOf(offers[f], offers'[f])
  BY <1>1, <1>2, <1>3, <1>4, SettlementEntries
<1>6. /\ outcome' \in [OfferIds -> Ended \cup {"None"}]
      /\ outcome'[f] = IF rounds[f] # << >> /\ outcome[f] = "None" THEN "Accepted"
                       ELSE outcome[f]
      /\ \A g \in OfferIds \ {f} : outcome'[g] = outcome[g]
  BY <1>1, OutcomeOfSettlement
<1>7. NegTypeOK'
  BY <1>1, <1>6 DEF NegBase, TypeOK, NegTypeOK
<1>8. Taken(f)
  BY <1>1, <1>3, <1>6 DEF SettledAs, Taken, Settled, SameParties, TermsOf
<1>9. OnlyAt(f)
  BY <1>1, <1>3, <1>6 DEF SettledAs, OnlyAt
<1> QED BY <1>3, <1>5, <1>7, <1>8, <1>9 DEF OfferStep, OfferMoves, SettledAs

LEMMA CloseIsStep ==
  ASSUME NegBase, NEW f \in OfferIds, NEW c \in Address, CloseNegotiation(f, c)
  PROVE  OfferStep(f)
<1>1. /\ outcome[f] = "None"
      /\ UNCHANGED <<regVars, finVars, window, rounds, deadline>>
      /\ \/ /\ NegotiationStatus(f) = "Expired"
            /\ outcome' = [outcome EXCEPT ![f] = "Expired"]
         \/ /\ NegotiationStatus(f) = "Open"
            /\ outcome' = [outcome EXCEPT ![f] = "Closed"]
  BY DEF CloseNegotiation
<1>2. outcome \in [OfferIds -> Ended \cup {"None"}]
  BY DEF NegBase, TypeOK, NegTypeOK
<1>3. outcome' \in [OfferIds -> Ended \cup {"None"}]
  BY <1>1, <1>2 DEF Ended
<1>4. ClosedDown(f)
  BY <1>1, <1>2 DEF ClosedDown, finVars
<1>5. OnlyAt(f)
  BY <1>1, <1>2 DEF OnlyAt, finVars
<1>6. NegTypeOK'
  BY <1>1, <1>3 DEF NegBase, TypeOK, NegTypeOK
<1>7. RegTypeOK' /\ FinTypeOK' /\ now' = now
  BY <1>1 DEF NegBase, TypeOK, RegTypeOK, FinTypeOK, regVars, finVars
<1>8. EntriesOf(offers[f], offers'[f])
  <2>1. \A l \in Address :
          /\ Offered(offers[f], l) \in Int /\ LentBy(offers[f], l) \in Int
          /\ lstats[l].total_offered \in Int
          /\ lstats[l].total_accepted \in Int
          /\ pos[l] \in Int
    BY DEF Offered, LentBy, NegBase, TypeOK, FinTypeOK, Offer, LenderStats
  <2>2. Lent(offers[f]) \in Int /\ stats.total_financed \in Int
    BY DEF Lent, NegBase, TypeOK, FinTypeOK, Offer, ProtocolStats
  <2>3. offers' = offers /\ lstats' = lstats /\ stats' = stats /\ pos' = pos
    BY <1>1 DEF finVars
  <2> QED BY <2>1, <2>2, <2>3 DEF EntriesOf
<1> QED BY <1>4, <1>5, <1>6, <1>7, <1>8 DEF OfferStep, OfferMoves

-----------------------------------------------------------------------------
(* The calls that submit a round *)

(* What record_round writes.                                               *)
Recorded(f, r) ==
  /\ r \in NegotiationRecord
  /\ r.timestamp = now
  /\ r.read = Len(rounds[f])
  /\ rounds' \in [OfferIds -> Seq(NegotiationRecord)]
  /\ \A g \in OfferIds : Len(rounds'[g]) <= MaxRounds
  /\ deadline' \in [OfferIds -> Nat]
  /\ rounds'[f] = Append(rounds[f], r)
  /\ rounds'[f] # << >>
  /\ deadline'[f] = IF rounds[f] = << >> THEN now + window ELSE deadline[f]
  /\ \A g \in OfferIds \ {f} : rounds'[g] = rounds[g] /\ deadline'[g] = deadline[g]

RoundOf(party, a, read, amount, rate) ==
  [party |-> party, amount |-> amount, interest_rate |-> rate,
   timestamp |-> now, by |-> a, read |-> read]

LEMMA RoundIsRecorded ==
  ASSUME NegBase, NEW f \in OfferIds, NEW party \in Parties, NEW a \in Address,
         NEW read, NEW amount \in Int, NEW rate \in Nat,
         AssertNegotiable(f, read), RecordRound(f, party, a, read, amount, rate)
  PROVE  Recorded(f, RoundOf(party, a, read, amount, rate))
<1> DEFINE r == RoundOf(party, a, read, amount, rate)
<1>1. /\ read = Len(rounds[f]) /\ Len(rounds[f]) < MaxRounds
  BY DEF AssertNegotiable
<1>2. /\ rounds[f] \in Seq(NegotiationRecord) /\ Len(rounds[f]) \in Nat
      /\ now \in Nat /\ window \in Nat
  BY OfferFacts
<1>3. /\ r \in NegotiationRecord /\ r.timestamp = now /\ r.read = Len(rounds[f])
  BY <1>1, <1>2 DEF RoundOf, NegotiationRecord
<1>4. rounds' = [rounds EXCEPT ![f] = Append(@, r)]
  BY DEF RecordRound, RoundOf
<1> HIDE DEF r
<1>5. /\ Append(rounds[f], r) \in Seq(NegotiationRecord)
      /\ Len(Append(rounds[f], r)) = Len(rounds[f]) + 1
      /\ Append(rounds[f], r) # << >>
  BY <1>2, <1>3, AppendProperties
<1>6. /\ rounds \in [OfferIds -> Seq(NegotiationRecord)]
      /\ \A g \in OfferIds : Len(rounds[g]) <= MaxRounds
      /\ deadline \in [OfferIds -> Nat]
  BY DEF NegBase, TypeOK, NegTypeOK
<1>7. /\ rounds' \in [OfferIds -> Seq(NegotiationRecord)]
      /\ rounds'[f] = Append(rounds[f], r)
      /\ \A g \in OfferIds \ {f} : rounds'[g] = rounds[g]
  BY <1>4, <1>5, <1>6
<1>8. \A g \in OfferIds : Len(rounds'[g]) <= MaxRounds
  <2>1. Len(rounds'[f]) <= MaxRounds
    <3>1. Len(rounds'[f]) = Len(rounds[f]) + 1
      BY <1>5, <1>7
    <3> QED BY <1>1, <1>2, <3>1, NegotiationAssumption
  <2>2. ASSUME NEW g \in OfferIds \ {f} PROVE Len(rounds'[g]) <= MaxRounds
    <3>1. rounds'[g] = rounds[g]
      BY <1>7
    <3> QED BY <1>6, <3>1
  <2> QED BY <2>1, <2>2
<1>9. /\ deadline' \in [OfferIds -> Nat]
      /\ deadline'[f] = IF rounds[f] = << >> THEN now + window ELSE deadline[f]
      /\ \A g \in OfferIds \ {f} : deadline'[g] = deadline[g]
  BY <1>2, <1>6 DEF RecordRound
<1> QED BY <1>3, <1>5, <1>7, <1>8, <1>9 DEF Recorded, r

(* A round that settles, or one that does not, with the offer o it leaves. *)
LEMMA SettlingRoundIsStep ==
  ASSUME NegBase, NEW f \in OfferIds, NEW r, Recorded(f, r), AssertNegotiable(f, r.read),
         NEW o \in Offer, o.lender = offers[f].lender, o.invoice_id = offers[f].invoice_id,
         r.party = "Lender" => TermsOf(o) = TermsOf(r),
         r.party = "Originator" => TermsOf(o) = TermsOf(offers[f]),
         NEW lenders \in [Address -> LenderStats],
         \A l \in Address :
           /\ lenders[l].total_offered
                = lstats[l].total_offered + Offered(o, l) - Offered(offers[f], l)
           /\ lenders[l].total_accepted = lstats[l].total_accepted,
         ExecuteAgreement(f, o, lenders), UNCHANGED window
  PROVE  OfferStep(f)
<1>1. /\ offers[f].status = "Pending"
      /\ NegotiationStatus(f) \in {"None", "Open"}
      /\ Len(rounds[f]) < MaxRounds
  BY DEF AssertNegotiable
<1>2. o.lender \in Address /\ o.invoice_id \in InvoiceIds
  BY <1>1 DEF NegBase, OffersAreTold
<1>3. SettledAs(f, o, lenders)
  BY <1>2, SettlementSettles DEF ExecuteAgreement
<1>4. EntriesOf(offers[f], offers'[f])
  BY <1>1, <1>2, <1>3, SettlementEntries
<1>5. /\ outcome' \in [OfferIds -> Ended \cup {"None"}]
      /\ outcome'[f] = IF rounds'[f] # << >> /\ outcome[f] = "None" THEN "Accepted"
                       ELSE outcome[f]
      /\ \A g \in OfferIds \ {f} : outcome'[g] = outcome[g]
  BY OutcomeOfSettlement DEF ExecuteAgreement
<1>6. NegTypeOK'
  BY <1>5 DEF Recorded, NegBase, TypeOK, NegTypeOK
<1>7. Settled(f)
  BY <1>3, <1>5 DEF Settled, SettledAs
<1>8. TermsOf(offers'[f]) = TermsOf(o) /\ SameParties(f)
  BY <1>3 DEF SettledAs, TermsOf, SameParties
<1>9. Round(f, r)
  BY <1>1, <1>7, <1>8 DEF Round, Recorded, Settled
<1>10. OnlyAt(f)
  BY <1>3, <1>5 DEF OnlyAt, SettledAs, Recorded
<1> QED BY <1>3, <1>4, <1>6, <1>9, <1>10 DEF OfferStep, OfferMoves, SettledAs

LEMMA OpenRoundIsStep ==
  ASSUME NegBase, NEW f \in OfferIds, NEW r, Recorded(f, r), AssertNegotiable(f, r.read),
         NEW o \in Offer, o.lender = offers[f].lender, o.invoice_id = offers[f].invoice_id,
         o.status = offers[f].status,
         r.party = "Lender" => TermsOf(o) = TermsOf(r),
         r.party = "Originator" => TermsOf(o) = TermsOf(offers[f]),
         NEW lenders \in [Address -> LenderStats],
         \A l \in Address :
           /\ lenders[l].total_offered
                = lstats[l].total_offered + Offered(o, l) - Offered(offers[f], l)
           /\ lenders[l].total_accepted = lstats[l].total_accepted,
         offers' = [offers EXCEPT ![f] = o], lstats' = lenders,
         UNCHANGED <<regVars, stats, pos, outcome, window>>
  PROVE  OfferStep(f)
<1>1. /\ offers[f].status = "Pending"
      /\ NegotiationStatus(f) \in {"None", "Open"}
      /\ Len(rounds[f]) < MaxRounds
  BY DEF AssertNegotiable
<1>2. /\ offers \in [OfferIds -> Offer] /\ stats \in ProtocolStats
      /\ pos \in [Address -> Int] /\ lstats \in [Address -> LenderStats]
  BY DEF NegBase, TypeOK, FinTypeOK
<1>3. /\ offers' \in [OfferIds -> Offer] /\ offers'[f] = o
      /\ \A g \in OfferIds \ {f} : offers'[g] = offers[g]
  BY <1>2
<1>4. FinTypeOK' /\ RegTypeOK' /\ NegTypeOK' /\ now' = now
  <2>1. FinTypeOK'
    BY <1>2, <1>3 DEF FinTypeOK
  <2>2. RegTypeOK' /\ now' = now
    BY DEF NegBase, TypeOK, RegTypeOK, regVars
  <2>3. NegTypeOK'
    BY DEF Recorded, NegBase, TypeOK, NegTypeOK
  <2> QED BY <2>1, <2>2, <2>3
<1>5. EntriesOf(offers[f], offers'[f])
  <2>1. /\ Lent(offers[f]) = 0 /\ Lent(o) = 0
        /\ \A l \in Address : LentBy(offers[f], l) = 0 /\ LentBy(o, l) = 0
    BY <1>1 DEF Lent, LentBy
  <2>2. /\ stats.total_financed \in Int
        /\ \A l \in Address : lstats[l].total_accepted \in Int /\ pos[l] \in Int
    BY <1>2 DEF ProtocolStats, LenderStats
  <2> QED BY <1>3, <2>1, <2>2 DEF EntriesOf
<1>6. TermsOf(offers'[f]) = TermsOf(o) /\ SameParties(f) /\ offers'[f].status = "Pending"
  BY <1>1, <1>3 DEF TermsOf, SameParties
<1>7. Round(f, r)
  BY <1>1, <1>6 DEF Round, Recorded
<1>8. OnlyAt(f)
  BY <1>3 DEF OnlyAt, Recorded
<1> QED BY <1>4, <1>5, <1>7, <1>8 DEF OfferStep, OfferMoves

LEMMA CreditFollows ==
  ASSUME NegBase, NEW f \in OfferIds, NEW o \in Offer, o.lender = offers[f].lender,
         o.lender \in Address
  PROVE  /\ CreditAmendment(o.lender, offers[f].amount, o.amount) \in [Address -> LenderStats]
         /\ \A l \in Address :
              /\ CreditAmendment(o.lender, offers[f].amount, o.amount)[l].total_offered
                   = lstats[l].total_offered + Offered(o, l) - Offered(offers[f], l)
              /\ CreditAmendment(o.lender, offers[f].amount, o.amount)[l].total_accepted
                   = lstats[l].total_accepted
<1> DEFINE b == o.lender
           d == o.amount - offers[f].amount
           credited == [lstats[b] EXCEPT !.total_offered = @ + d]
           c == CreditAmendment(b, offers[f].amount, o.amount)
<1>1. /\ lstats \in [Address -> LenderStats] /\ offers[f] \in Offer
  BY DEF NegBase, TypeOK, FinTypeOK
<1>2. o.amount \in Int /\ offers[f].amount \in Int /\ d \in Int
  BY <1>1 DEF Offer
<1>3. c = [lstats EXCEPT ![b] = credited]
  BY DEF CreditAmendment
<1>4. lstats[b] \in LenderStats
  BY <1>1
<1>5. credited \in LenderStats
  <2> HIDE DEF d, b
  <2> QED BY <1>2, <1>4, StatsStayStats
<1>6. credited.total_offered = lstats[b].total_offered + d
        /\ credited.total_accepted = lstats[b].total_accepted
  <2> HIDE DEF d, b
  <2> QED BY <1>4 DEF LenderStats
<1> HIDE DEF credited, c
<1>7. c \in [Address -> LenderStats]
  BY <1>1, <1>3, <1>5
<1>8. ASSUME NEW l \in Address
      PROVE  /\ c[l].total_offered
                  = lstats[l].total_offered + Offered(o, l) - Offered(offers[f], l)
             /\ c[l].total_accepted = lstats[l].total_accepted
  <2>1. lstats[l].total_offered \in Int
    BY <1>1 DEF LenderStats
  <2>2. CASE l = b
    BY <1>1, <1>2, <1>3, <1>6, <2>1, <2>2 DEF Offered
  <2>3. CASE l # b
    BY <1>1, <1>3, <2>1, <2>3 DEF Offered
  <2> QED BY <2>2, <2>3
<1> QED BY <1>7, <1>8 DEF c

LEMMA AmendIsStep ==
  ASSUME NegBase, NEW f \in OfferIds, NEW a \in Address, NEW read,
         NEW amount \in Principals, NEW rate \in Rates,
         AmendOffer(f, a, read, amount, rate)
  PROVE  OfferStep(f)
<1> DEFINE o == [offers[f] EXCEPT !.amount = amount, !.interest_rate = rate]
           lenders == CreditAmendment(a, offers[f].amount, amount)
           r == RoundOf("Lender", a, read, amount, rate)
<1>1. /\ offers[f].lender = a
      /\ AssertNegotiable(f, read)
      /\ RecordRound(f, "Lender", a, read, amount, rate)
      /\ window' = window
  BY DEF AmendOffer
<1>2. IF <<amount, rate>> \in LastProposalBy(f, "Originator")
      THEN ExecuteAgreement(f, o, lenders)
      ELSE /\ offers' = [offers EXCEPT ![f] = o]
           /\ lstats' = lenders
           /\ UNCHANGED <<regVars, stats, pos, outcome>>
  BY DEF AmendOffer
<1>3. amount \in Int /\ rate \in Nat
  BY FinancingAssumption
<1>4. Recorded(f, r)
  BY <1>1, <1>3, RoundIsRecorded DEF Parties
<1>5. /\ r.party = "Lender" /\ r.read = read
      /\ TermsOf(r) = <<amount, rate>>
  BY DEF RoundOf, TermsOf
<1>6. offers[f] \in Offer
  BY DEF NegBase, TypeOK, FinTypeOK
<1>7. /\ o \in Offer /\ o.lender = offers[f].lender
      /\ o.invoice_id = offers[f].invoice_id /\ o.status = offers[f].status
      /\ TermsOf(o) = <<amount, rate>> /\ o.amount = amount
  BY <1>3, <1>6 DEF Offer, TermsOf
<1> HIDE DEF o, r
<1>8. /\ lenders \in [Address -> LenderStats]
      /\ \A l \in Address :
           /\ lenders[l].total_offered
                = lstats[l].total_offered + Offered(o, l) - Offered(offers[f], l)
           /\ lenders[l].total_accepted = lstats[l].total_accepted
  BY <1>1, <1>7, CreditFollows
<1> HIDE DEF lenders
<1>9. /\ TermsOf(o) = TermsOf(r) /\ r.party # "Originator" /\ AssertNegotiable(f, r.read)
  BY <1>1, <1>5, <1>7
<1>10. CASE ExecuteAgreement(f, o, lenders)
  BY <1>1, <1>4, <1>7, <1>8, <1>9, <1>10, SettlingRoundIsStep
<1>11. CASE /\ offers' = [offers EXCEPT ![f] = o]
            /\ lstats' = lenders
            /\ UNCHANGED <<regVars, stats, pos, outcome>>
  BY <1>1, <1>4, <1>7, <1>8, <1>9, <1>11, OpenRoundIsStep
<1> QED BY <1>2, <1>10, <1>11

LEMMA CounterIsStep ==
  ASSUME NegBase, NEW f \in OfferIds, NEW a \in Address, NEW read,
         NEW amount \in Principals, NEW rate \in Rates,
         CounterOffer(f, a, read, amount, rate)
  PROVE  OfferStep(f)
<1> DEFINE r == RoundOf("Originator", a, read, amount, rate)
<1>1. /\ AssertNegotiable(f, read)
      /\ RecordRound(f, "Originator", a, read, amount, rate)
      /\ window' = window
      /\ \/ ExecuteAgreement(f, offers[f], lstats)
         \/ UNCHANGED <<regVars, finVars, outcome>>
  BY DEF CounterOffer
<1>2. amount \in Int /\ rate \in Nat
  BY FinancingAssumption
<1>3. Recorded(f, r)
  BY <1>1, <1>2, RoundIsRecorded DEF Parties
<1>4. r.party = "Originator" /\ AssertNegotiable(f, r.read)
  BY <1>1 DEF RoundOf
<1> HIDE DEF r
<1>5. /\ offers[f] \in Offer /\ offers \in [OfferIds -> Offer]
      /\ lstats \in [Address -> LenderStats]
  BY DEF NegBase, TypeOK, FinTypeOK
<1>6. \A l \in Address :
        /\ lstats[l].total_offered
             = lstats[l].total_offered + Offered(offers[f], l) - Offered(offers[f], l)
        /\ lstats[l].total_accepted = lstats[l].total_accepted
  BY <1>5 DEF Offered, Offer, LenderStats
<1>7. CASE ExecuteAgreement(f, offers[f], lstats)
  BY <1>1, <1>3, <1>4, <1>5, <1>6, <1>7, SettlingRoundIsStep
<1>8. CASE UNCHANGED <<regVars, finVars, outcome>>
  <2>1. /\ offers' = [offers EXCEPT ![f] = offers[f]] /\ lstats' = lstats
        /\ UNCHANGED <<regVars, stats, pos, outcome, window>>
    BY <1>1, <1>5, <1>8 DEF finVars
  <2> QED BY <1>3, <1>4, <1>5, <1>6, <2>1, OpenRoundIsStep
<1> QED BY <1>1, <1>7, <1>8

(* Every step is about one offer or about none.                            *)
LEMMA NegStepKinds ==
  ASSUME NegBase, [Next]_vars
  PROVE  OtherStep \/ \E f \in OfferIds : OfferStep(f)
<1>1. CASE RegistryStep
  BY <1>1, RegistryStepIsOther
<1>2. CASE WindowNext
  BY <1>2, WindowStepIsOther
<1>3. ASSUME NEW f \in OfferIds, NEW a \in Address,
             \/ \E i \in InvoiceIds, amount \in Principals, rate \in Rates, e \in Expiries :
                  CreateOffer(f, i, a, amount, rate, e) /\ UNCHANGED negVars
             \/ WithdrawOffer(f, a) /\ UNCHANGED negVars
             \/ RejectOffer(f, a) /\ UNCHANGED negVars
             \/ AcceptOutright(f, a)
             \/ CloseNegotiation(f, a)
      PROVE  OfferStep(f)
  BY <1>3, CreateIsStep, RefuseIsStep, AcceptIsStep, CloseIsStep
<1>4. ASSUME NEW f \in OfferIds, NEW a \in Address, NEW read \in 0 .. MaxRounds,
             NEW amount \in Principals, NEW rate \in Rates,
             AmendOffer(f, a, read, amount, rate) \/ CounterOffer(f, a, read, amount, rate)
      PROVE  OfferStep(f)
  BY <1>4, AmendIsStep, CounterIsStep
<1>5. CASE UNCHANGED vars
  <2>1. RegTypeOK' /\ now' = now
    BY <1>5 DEF vars, NegBase, TypeOK, RegTypeOK, regVars
  <2>2. FinTypeOK' /\ NegTypeOK'
    BY <1>5 DEF vars, NegBase, TypeOK, FinTypeOK, NegTypeOK, finVars, negVars
  <2>3. now \in Nat
    BY RegistryAssumption DEF NegBase, TypeOK, RegTypeOK
  <2> QED BY <1>5, <2>1, <2>2, <2>3 DEF vars, negVars, OtherStep
<1> QED BY <1>1, <1>2, <1>3, <1>4, <1>5 DEF Next, OfferNext, RoundNext

-----------------------------------------------------------------------------
(* The parts of the invariant are kept *)

LEMMA NegBaseInit == Init => NegBase
<1> SUFFICES ASSUME Init PROVE NegBase
  OBVIOUS
<1>1. RegTypeOK
  BY RegistryAssumption DEF Init, RegInit, RegTypeOK, AbsentInvoice, Invoice
<1>2. FinTypeOK
  BY DEF Init, FinInit, FinTypeOK, AbsentOffer, Offer, OfferStatuses, LenderStats,
         ProtocolStats
<1>3. NegTypeOK
  BY NegotiationAssumption DEF Init, NegInit, NegTypeOK
<1>4. OffersAreTold
  BY DEF Init, FinInit, NegInit, AbsentOffer, OffersAreTold
<1> QED BY <1>1, <1>2, <1>3, <1>4 DEF NegBase, TypeOK

LEMMA NegBaseStep ==
  ASSUME NegBase, [Next]_vars
  PROVE  NegBase'
<1>1. CASE OtherStep
  BY <1>1 DEF OtherStep, NegBase, TypeOK, OffersAreTold, finVars
<1>2. ASSUME NEW f \in OfferIds, OfferStep(f) PROVE NegBase'
  <2>1. TypeOK'
    BY <1>2 DEF OfferStep, TypeOK
  <2>2. \A g \in OfferIds \ {f} :
          /\ offers'[g].status \in {"Absent", "Pending", "Accepted", "Rejected"}
          /\ IF offers'[g].status = "Absent"
             THEN offers'[g].lender = Nobody /\ rounds'[g] = << >> /\ outcome'[g] = "None"
             ELSE offers'[g].lender \in Address /\ offers'[g].invoice_id \in InvoiceIds
    BY <1>2 DEF OfferStep, OnlyAt, NegBase, OffersAreTold
  <2>3. /\ offers'[f].status \in {"Absent", "Pending", "Accepted", "Rejected"}
        /\ IF offers'[f].status = "Absent"
           THEN offers'[f].lender = Nobody /\ rounds'[f] = << >> /\ outcome'[f] = "None"
           ELSE offers'[f].lender \in Address /\ offers'[f].invoice_id \in InvoiceIds
    <3>1. CASE Created(f)
      BY <3>1 DEF Created
    <3>2. CASE Refused(f)
      BY <3>2 DEF Refused, SameParties, NegBase, OffersAreTold
    <3>3. CASE Taken(f)
      BY <3>3 DEF Taken, Settled, SameParties, NegBase, OffersAreTold
    <3>4. CASE ClosedDown(f)
      <4>1. rounds[f] # << >>
        BY <3>4 DEF ClosedDown, NegotiationStatus
      <4> QED BY <3>4, <4>1 DEF ClosedDown, NegBase, OffersAreTold
    <3>5. CASE \E r : Round(f, r)
      BY <3>5 DEF Round, Settled, SameParties, NegBase, OffersAreTold
    <3> QED BY <1>2, <3>1, <3>2, <3>3, <3>4, <3>5 DEF OfferStep, OfferMoves
  <2>4. OffersAreTold'
    BY <2>2, <2>3 DEF OffersAreTold
  <2> QED BY <2>1, <2>4 DEF NegBase
<1> QED BY <1>1, <1>2, NegStepKinds

LEMMA RoundFacts ==
  ASSUME NegBase, NEW f \in OfferIds
  PROVE  \A k \in DOMAIN rounds[f] :
           /\ rounds[f][k] \in NegotiationRecord
           /\ rounds[f][k].timestamp \in Nat
           /\ rounds[f][k].party \in Parties
<1>1. /\ rounds[f] \in Seq(NegotiationRecord)
      /\ DOMAIN rounds[f] = 1 .. Len(rounds[f])
  BY OfferFacts
<1>2. \A k \in DOMAIN rounds[f] : rounds[f][k] \in NegotiationRecord
  BY <1>1
<1>3. \A r \in NegotiationRecord : r.timestamp \in Nat /\ r.party \in Parties
  BY DEF NegotiationRecord
<1> QED BY <1>2, <1>3

(* The rounds of an offer stay, or one is added.                           *)
LEMMA RoundAppends ==
  ASSUME NegBase, NEW f \in OfferIds, NEW r, Round(f, r)
  PROVE  /\ DOMAIN rounds'[f] = 1 .. (Len(rounds[f]) + 1)
         /\ \A k \in DOMAIN rounds[f] : rounds'[f][k] = rounds[f][k]
         /\ rounds'[f][Len(rounds[f]) + 1] = r
         /\ Len(rounds'[f]) = Len(rounds[f]) + 1
         /\ rounds'[f] # << >>
<1>1. /\ rounds[f] \in Seq(NegotiationRecord) /\ r \in NegotiationRecord
      /\ rounds'[f] = Append(rounds[f], r)
      /\ DOMAIN rounds[f] = 1 .. Len(rounds[f])
  BY OfferFacts DEF Round
<1>2. /\ Append(rounds[f], r) \in Seq(NegotiationRecord)
      /\ Append(rounds[f], r) # << >>
      /\ Len(Append(rounds[f], r)) = Len(rounds[f]) + 1
      /\ \A k \in 1 .. Len(rounds[f]) : Append(rounds[f], r)[k] = rounds[f][k]
      /\ Append(rounds[f], r)[Len(rounds[f]) + 1] = r
  BY <1>1, AppendProperties
<1>3. DOMAIN Append(rounds[f], r) = 1 .. (Len(rounds[f]) + 1)
  BY <1>2
<1> QED BY <1>1, <1>2, <1>3

LEMMA OtherRounds ==
  ASSUME NEW f \in OfferIds, OfferStep(f), ~ \E r : Round(f, r)
  PROVE  \A g \in OfferIds : rounds'[g] = rounds[g] /\ deadline'[g] = deadline[g]
BY DEF OfferStep, OfferMoves, OnlyAt, Created, Refused, Taken, ClosedDown, SameNegotiation

(* Rounds are dated in order of the clock, inside the window.              *)
WindowInv == RoundsInThePast /\ RoundsWithinWindow

LEMMA WindowStep ==
  ASSUME NegBase, NegBase', WindowInv, [Next]_vars
  PROVE  WindowInv'
<1> DEFINE inside(g) == \A k \in DOMAIN rounds[g] :
             /\ rounds[g][k].timestamp <= now
             /\ rounds[g][k].timestamp \in rounds[g][1].timestamp .. deadline[g]
             /\ deadline[g] - rounds[g][1].timestamp \in MinWindow .. MaxWindow
           insideNext(g) == \A k \in DOMAIN rounds'[g] :
             /\ rounds'[g][k].timestamp <= now'
             /\ rounds'[g][k].timestamp \in rounds'[g][1].timestamp .. deadline'[g]
             /\ deadline'[g] - rounds'[g][1].timestamp \in MinWindow .. MaxWindow
<1>1. \A g \in OfferIds : inside(g)
  BY DEF WindowInv, RoundsInThePast, RoundsWithinWindow
<1>2. SUFFICES \A g \in OfferIds : insideNext(g)
  BY DEF WindowInv, RoundsInThePast, RoundsWithinWindow
<1>3. ASSUME NEW g \in OfferIds, rounds'[g] = rounds[g], deadline'[g] = deadline[g],
             now' \in Nat, now <= now'
      PROVE  insideNext(g)
  <2>1. now \in Nat /\ rounds[g] \in Seq(NegotiationRecord)
          /\ DOMAIN rounds[g] = 1 .. Len(rounds[g])
    BY OfferFacts
  <2>2. \A k \in DOMAIN rounds[g] : rounds[g][k].timestamp \in Nat
    BY RoundFacts
  <2> QED BY <1>1, <1>3, <2>1, <2>2
<1>4. CASE OtherStep
  BY <1>3, <1>4 DEF OtherStep
<1>5. ASSUME NEW f \in OfferIds, OfferStep(f), ~ \E r : Round(f, r)
      PROVE  \A g \in OfferIds : insideNext(g)
  <2>1. now' = now /\ now \in Nat
    BY <1>5, OfferFacts DEF OfferStep
  <2> HIDE DEF insideNext
  <2> QED BY <1>3, <1>5, <2>1, OtherRounds
<1>6. ASSUME NEW f \in OfferIds, OfferStep(f), NEW r, Round(f, r)
      PROVE  \A g \in OfferIds : insideNext(g)
  <2>1. now' = now /\ now \in Nat
    BY <1>6, OfferFacts DEF OfferStep
  <2>2. \A g \in OfferIds \ {f} : insideNext(g)
    <3>1. \A g \in OfferIds \ {f} : rounds'[g] = rounds[g] /\ deadline'[g] = deadline[g]
      BY <1>6 DEF OfferStep, OnlyAt
    <3> HIDE DEF insideNext
    <3> QED BY <1>3, <2>1, <3>1
  <2>3. insideNext(f)
    <3> DEFINE n == Len(rounds[f])
    <3>1. /\ DOMAIN rounds'[f] = 1 .. (n + 1)
          /\ \A k \in DOMAIN rounds[f] : rounds'[f][k] = rounds[f][k]
          /\ rounds'[f][n + 1] = r
      BY <1>6, RoundAppends
    <3>2. /\ n \in Nat /\ DOMAIN rounds[f] = 1 .. n /\ deadline[f] \in Nat
          /\ window \in MinWindow .. MaxWindow /\ window \in Nat
          /\ rounds[f] \in Seq(NegotiationRecord)
      BY OfferFacts
    <3>3. r.timestamp = now
      BY <1>6 DEF Round
    <3>4. CASE rounds[f] = << >>
      <4>1. n = 0 /\ deadline'[f] = now + window
        BY <1>6, <3>4 DEF Round
      <4>2. rounds'[f][1].timestamp = now /\ DOMAIN rounds'[f] = {1}
        BY <3>1, <3>3, <4>1
      <4> QED BY <2>1, <3>2, <4>1, <4>2, NegotiationAssumption
    <3>5. CASE rounds[f] # << >>
      <4>1. n >= 1 /\ deadline'[f] = deadline[f] /\ 1 \in DOMAIN rounds[f]
        <5>1. n # 0
          BY <3>2, <3>5, EmptySeq
        <5> QED BY <1>6, <3>2, <3>5, <5>1 DEF Round
      <4>2. now <= deadline[f]
        <5>1. NegotiationStatus(f) \in {"None", "Open"} /\ offers[f].status = "Pending"
          BY <1>6 DEF Round
        <5>2. outcome[f] = "None"
          BY <5>1, OfferFacts DEF NegotiationStatus, Ended
        <5>3. ~ (now > deadline[f])
          BY <3>5, <5>1, <5>2 DEF NegotiationStatus
        <5> QED BY <2>1, <3>2, <5>3
      <4>3. rounds'[f][1] = rounds[f][1]
        BY <3>1, <4>1
      <4>4. \A k \in DOMAIN rounds[f] : rounds[f][k].timestamp \in Nat
        BY RoundFacts
      <4>5. inside(f)
        BY <1>1
      <4>6. ASSUME NEW k \in 1 .. (n + 1)
            PROVE  /\ rounds'[f][k].timestamp <= now'
                   /\ rounds'[f][k].timestamp \in rounds'[f][1].timestamp .. deadline'[f]
                   /\ deadline'[f] - rounds'[f][1].timestamp \in MinWindow .. MaxWindow
        <5>1. CASE k \in DOMAIN rounds[f]
          <6>1. rounds'[f][k] = rounds[f][k]
            BY <3>1, <5>1
          <6> QED BY <2>1, <4>1, <4>3, <4>5, <5>1, <6>1
        <5>2. CASE k = n + 1
          <6>1. rounds'[f][k].timestamp = now
            BY <3>1, <3>3, <5>2
          <6>2. rounds[f][1].timestamp <= now /\ rounds[f][1].timestamp \in Nat
            BY <4>1, <4>4, <4>5
          <6>3. deadline[f] - rounds[f][1].timestamp \in MinWindow .. MaxWindow
            BY <4>1, <4>5
          <6> QED BY <2>1, <3>2, <4>1, <4>2, <4>3, <6>1, <6>2, <6>3
        <5> QED BY <3>2, <5>1, <5>2
      <4> QED BY <3>1, <4>6
    <3> QED BY <3>4, <3>5
  <2> HIDE DEF insideNext
  <2> QED BY <2>2, <2>3
<1> QED BY <1>4, <1>5, <1>6, NegStepKinds

LEMMA OutcomeStep ==
  ASSUME NegBase, OutcomeMatchesOffer, [Next]_vars
  PROVE  OutcomeMatchesOffer'
<1>1. CASE OtherStep
  BY <1>1 DEF OtherStep, OutcomeMatchesOffer, finVars
<1>2. ASSUME NEW f \in OfferIds, OfferStep(f) PROVE OutcomeMatchesOffer'
  <2> DEFINE matches(g) ==
               /\ outcome'[g] = "Accepted" => offers'[g].status = "Accepted" /\ rounds'[g] # << >>
               /\ outcome'[g] = "None" /\ rounds'[g] # << >> =>
                    offers'[g].status \in {"Pending", "Rejected"}
  <2>1. \A g \in OfferIds \ {f} : matches(g)
    BY <1>2 DEF OfferStep, OnlyAt, OutcomeMatchesOffer
  <2>2. matches(f)
    <3>1. CASE Created(f)
      BY <3>1 DEF Created, SameNegotiation, OutcomeMatchesOffer
    <3>2. CASE Refused(f)
      BY <3>2 DEF Refused, SameNegotiation, OutcomeMatchesOffer
    <3>3. CASE Taken(f)
      BY <3>3 DEF Taken, Settled, OutcomeMatchesOffer
    <3>4. CASE ClosedDown(f)
      BY <3>4 DEF ClosedDown
    <3>5. ASSUME NEW r, Round(f, r) PROVE matches(f)
      <4>1. rounds'[f] # << >>
        BY <3>5, RoundAppends
      <4> QED BY <3>5, <4>1 DEF Round, Settled, OutcomeMatchesOffer
    <3> HIDE DEF matches
    <3> QED BY <1>2, <3>1, <3>2, <3>3, <3>4, <3>5 DEF OfferStep, OfferMoves
  <2> QED BY <2>1, <2>2 DEF OutcomeMatchesOffer
<1> QED BY <1>1, <1>2, NegStepKinds

LEMMA StandsStep ==
  ASSUME NegBase, LastOfLenderStands, [Next]_vars
  PROVE  LastOfLenderStands'
<1> DEFINE stands(g) == \A k \in RoundsBy(g, "Lender") :
             (\A j \in RoundsBy(g, "Lender") : j <= k) =>
               TermsOf(rounds[g][k]) = TermsOf(offers[g])
           standsNext(g) == \A k \in RoundsBy(g, "Lender")' :
             (\A j \in RoundsBy(g, "Lender")' : j <= k) =>
               TermsOf(rounds'[g][k]) = TermsOf(offers'[g])
<1>1. \A g \in OfferIds : stands(g)
  BY DEF LastOfLenderStands
<1>2. SUFFICES \A g \in OfferIds : standsNext(g)
  BY DEF LastOfLenderStands
<1>3. ASSUME NEW g \in OfferIds, rounds'[g] = rounds[g],
             rounds[g] # << >> => TermsOf(offers'[g]) = TermsOf(offers[g])
      PROVE  standsNext(g)
  <2>1. RoundsBy(g, "Lender")' = RoundsBy(g, "Lender")
    BY <1>3 DEF RoundsBy
  <2>2. rounds[g] = << >> => RoundsBy(g, "Lender") = {}
    BY DEF RoundsBy
  <2>3. stands(g)
    BY <1>1
  <2> QED BY <1>3, <2>1, <2>2, <2>3
<1>4. CASE OtherStep
  <2>1. \A g \in OfferIds : rounds'[g] = rounds[g] /\ offers'[g] = offers[g]
    BY <1>4 DEF OtherStep, finVars
  <2> HIDE DEF standsNext
  <2> QED BY <1>3, <2>1
<1>5. ASSUME NEW f \in OfferIds, OfferStep(f) PROVE \A g \in OfferIds : standsNext(g)
  <2>1. \A g \in OfferIds \ {f} : standsNext(g)
    <3>1. \A g \in OfferIds \ {f} : rounds'[g] = rounds[g] /\ offers'[g] = offers[g]
      BY <1>5 DEF OfferStep, OnlyAt
    <3> HIDE DEF standsNext
    <3> QED BY <1>3, <3>1
  <2>2. CASE ~ \E r : Round(f, r)
    <3>1. rounds'[f] = rounds[f]
      BY <1>5, <2>2, OtherRounds
    <3>2. rounds[f] # << >> => TermsOf(offers'[f]) = TermsOf(offers[f])
      BY <1>5, <2>2 DEF OfferStep, OfferMoves, Created, Refused, Taken, ClosedDown,
                        NegBase, OffersAreTold
    <3>3. standsNext(f)
      BY <1>3, <3>1, <3>2
    <3> HIDE DEF standsNext
    <3> QED BY <2>1, <3>3
  <2>3. ASSUME NEW r, Round(f, r) PROVE standsNext(f)
    <3> DEFINE n == Len(rounds[f])
    <3>1. /\ DOMAIN rounds'[f] = 1 .. (n + 1)
          /\ \A k \in DOMAIN rounds[f] : rounds'[f][k] = rounds[f][k]
          /\ rounds'[f][n + 1] = r
      BY <2>3, RoundAppends
    <3>2. n \in Nat /\ DOMAIN rounds[f] = 1 .. n
      BY OfferFacts
    <3>3. /\ r.party \in Parties
          /\ r.party = "Lender" => TermsOf(offers'[f]) = TermsOf(r)
          /\ r.party = "Originator" => TermsOf(offers'[f]) = TermsOf(offers[f])
      BY <2>3 DEF Round, NegotiationRecord
    <3>4. RoundsBy(f, "Lender")' = {k \in 1 .. (n + 1) : rounds'[f][k].party = "Lender"}
      BY <3>1 DEF RoundsBy
    <3>5. RoundsBy(f, "Lender") = {k \in 1 .. n : rounds[f][k].party = "Lender"}
      BY <3>2 DEF RoundsBy
    <3>6. CASE r.party = "Lender"
      <4>1. n + 1 \in RoundsBy(f, "Lender")'
        BY <3>1, <3>2, <3>4, <3>6
      <4>2. \A k \in RoundsBy(f, "Lender")' : n + 1 <= k => k = n + 1
        BY <3>2, <3>4
      <4>3. TermsOf(rounds'[f][n + 1]) = TermsOf(offers'[f])
        BY <3>1, <3>3, <3>6
      <4> HIDE DEF n
      <4> QED BY <4>1, <4>2, <4>3
    <3>7. CASE r.party = "Originator"
      <4>1. RoundsBy(f, "Lender")' = RoundsBy(f, "Lender")
        <5>1. \A k \in 1 .. (n + 1) : rounds'[f][k].party = "Lender"
                                        <=> k \in 1 .. n /\ rounds[f][k].party = "Lender"
          <6> SUFFICES ASSUME NEW k \in 1 .. (n + 1)
                       PROVE  rounds'[f][k].party = "Lender"
                                <=> k \in 1 .. n /\ rounds[f][k].party = "Lender"
            OBVIOUS
          <6>1. CASE k = n + 1
            BY <3>1, <3>2, <3>7, <6>1
          <6>2. CASE k \in 1 .. n
            BY <3>1, <3>2, <6>2
          <6> QED BY <3>2, <6>1, <6>2
        <5>2. 1 .. n \subseteq 1 .. (n + 1)
          BY <3>2
        <5> QED BY <3>4, <3>5, <5>1, <5>2
      <4>2. \A k \in RoundsBy(f, "Lender") : rounds'[f][k] = rounds[f][k]
        BY <3>1, <3>2, <3>5
      <4>3. stands(f)
        BY <1>1
      <4> QED BY <3>3, <3>7, <4>1, <4>2, <4>3
    <3> QED BY <3>3, <3>6, <3>7 DEF Parties
  <2> HIDE DEF standsNext
  <2> QED BY <2>1, <2>2, <2>3
<1> HIDE DEF standsNext
<1> QED BY <1>4, <1>5, NegStepKinds

-----------------------------------------------------------------------------
(* The books *)

Made == {f \in OfferIds : offers[f].status # "Absent"}

Mine(a) == {f \in OfferIds : offers[f].lender = a}

AllSettled == {f \in OfferIds : offers[f].status = "Accepted"}

SettledOf(a) == {f \in Mine(a) : offers[f].status = "Accepted"}

AmountsIn(p) == [g \in OfferIds |-> p[g].amount]

AmountOver(S) == SumOver(AmountsIn(offers), S)

NegBooks ==
  /\ stats.total_financed = AmountOver(AllSettled)
  /\ \A a \in Address :
       /\ lstats[a].total_offered = AmountOver(Mine(a))
       /\ lstats[a].total_accepted = AmountOver(SettledOf(a))
       /\ pos[a] = AmountOver(SettledOf(a))

LEMMA BooksAreNegBooks == BooksFollowTerms <=> NegBooks
BY DEF BooksFollowTerms, NegBooks, AllSettled, Mine, SettledOf, AmountOver, AmountsIn

(* The total over a set of offers when the offer f changes.                *)
LEMMA AmountMoves ==
  ASSUME NEW p \in [OfferIds -> Offer], NEW q \in [OfferIds -> Offer],
         NEW f \in OfferIds, \A g \in OfferIds \ {f} : q[g] = p[g],
         NEW S \in SUBSET OfferIds, IsFiniteSet(S),
         NEW T \in SUBSET OfferIds, T \ {f} = S \ {f}
  PROVE  SumOver(AmountsIn(q), T) = SumOver(AmountsIn(p), S)
                                      + (IF f \in T THEN q[f].amount ELSE 0)
                                      - (IF f \in S THEN p[f].amount ELSE 0)
<1>1. /\ \A g \in S : AmountsIn(p)[g] \in Int
      /\ \A g \in T : AmountsIn(q)[g] \in Int
      /\ \A g \in S \ {f} : AmountsIn(q)[g] = AmountsIn(p)[g]
  BY DEF Offer, AmountsIn
<1>2. AmountsIn(p)[f] = p[f].amount /\ AmountsIn(q)[f] = q[f].amount
  BY DEF AmountsIn
<1>3. SumOver(AmountsIn(q), T) = SumOver(AmountsIn(p), S)
                                   + (IF f \in T THEN AmountsIn(q)[f] ELSE 0)
                                   - (IF f \in S THEN AmountsIn(p)[f] ELSE 0)
  BY <1>1, SumStep
<1> QED BY <1>2, <1>3

(* Only finitely many offers are ever made, and the books add them up.     *)
BooksInv == IsFiniteSet(Made) /\ NegBooks

LEMMA BooksInit == Init => BooksInv
<1> SUFFICES ASSUME Init PROVE BooksInv
  OBVIOUS
<1>1. \A f \in OfferIds : offers[f] = AbsentOffer
  BY DEF Init, FinInit
<1>2. Made = {} /\ AllSettled = {}
  BY <1>1 DEF Made, AllSettled, AbsentOffer
<1>3. \A a \in Address : Mine(a) = {} /\ SettledOf(a) = {}
  BY <1>1, RegistryAssumption DEF Mine, SettledOf, AbsentOffer
<1>4. AmountOver({}) = 0
  BY SumEmpty DEF AmountOver
<1>5. NegBooks
  BY <1>2, <1>3, <1>4 DEF Init, FinInit, NegBooks
<1> QED BY <1>2, <1>5, FS_EmptySet DEF BooksInv

LEMMA BooksStep ==
  ASSUME NegBase, NegBase', BooksInv, [Next]_vars
  PROVE  BooksInv'
<1>1. CASE OtherStep
  <2>1. offers' = offers /\ lstats' = lstats /\ stats' = stats /\ pos' = pos
    BY <1>1 DEF OtherStep, finVars
  <2> QED BY <2>1 DEF BooksInv, NegBooks, Made, AllSettled, Mine, SettledOf, AmountOver
<1>2. ASSUME NEW f \in OfferIds, OfferStep(f) PROVE BooksInv'
  <2>1. /\ offers \in [OfferIds -> Offer] /\ offers' \in [OfferIds -> Offer]
        /\ \A g \in OfferIds \ {f} : offers'[g] = offers[g]
        /\ EntriesOf(offers[f], offers'[f])
    BY <1>2 DEF NegBase, TypeOK, FinTypeOK, OfferStep, OnlyAt
  <2>2. IsFiniteSet(Made)
    BY DEF BooksInv
  <2>3. IsFiniteSet(Made')
    <3>1. Made' \ {f} = Made \ {f}
      BY <2>1 DEF Made
    <3> QED BY <2>2, <3>1, CardinalityStep
  <2>4. AmountOver(AllSettled)' = AmountOver(AllSettled) + Lent(offers'[f]) - Lent(offers[f])
    <3>1. /\ AllSettled \in SUBSET OfferIds /\ AllSettled \in SUBSET Made
          /\ AllSettled' \in SUBSET OfferIds
          /\ AllSettled' \ {f} = AllSettled \ {f}
      BY <2>1 DEF AllSettled, Made
    <3>2. IsFiniteSet(AllSettled)
      BY <2>2, <3>1, FS_Subset
    <3>3. /\ f \in AllSettled <=> offers[f].status = "Accepted"
          /\ f \in AllSettled' <=> offers'[f].status = "Accepted"
      BY DEF AllSettled
    <3>4. SumOver(AmountsIn(offers'), AllSettled')
            = SumOver(AmountsIn(offers), AllSettled)
                + (IF f \in AllSettled' THEN offers'[f].amount ELSE 0)
                - (IF f \in AllSettled THEN offers[f].amount ELSE 0)
      BY <2>1, <3>1, <3>2, AmountMoves
    <3> QED BY <3>3, <3>4 DEF Lent, AmountOver, AmountsIn
  <2>5. ASSUME NEW a \in Address
        PROVE  AmountOver(Mine(a))'
                 = AmountOver(Mine(a)) + Offered(offers'[f], a) - Offered(offers[f], a)
    <3>1. Mine(a) \in SUBSET Made
      <4> SUFFICES ASSUME NEW g \in OfferIds, offers[g].lender = a
                   PROVE  offers[g].status # "Absent"
        BY DEF Mine, Made
      <4> QED BY RegistryAssumption DEF NegBase, OffersAreTold
    <3>2. /\ Mine(a) \in SUBSET OfferIds
          /\ Mine(a)' \in SUBSET OfferIds
          /\ Mine(a)' \ {f} = Mine(a) \ {f}
      BY <2>1 DEF Mine
    <3>3. IsFiniteSet(Mine(a))
      BY <2>2, <3>1, FS_Subset
    <3>4. /\ f \in Mine(a) <=> offers[f].lender = a
          /\ f \in Mine(a)' <=> offers'[f].lender = a
      BY DEF Mine
    <3>5. SumOver(AmountsIn(offers'), Mine(a)')
            = SumOver(AmountsIn(offers), Mine(a))
                + (IF f \in Mine(a)' THEN offers'[f].amount ELSE 0)
                - (IF f \in Mine(a) THEN offers[f].amount ELSE 0)
      BY <2>1, <3>2, <3>3, AmountMoves
    <3> QED BY <3>4, <3>5 DEF Offered, AmountOver, AmountsIn
  <2>6. ASSUME NEW a \in Address
        PROVE  AmountOver(SettledOf(a))'
                 = AmountOver(SettledOf(a)) + LentBy(offers'[f], a) - LentBy(offers[f], a)
    <3>1. /\ SettledOf(a) \in SUBSET OfferIds /\ SettledOf(a) \in SUBSET Made
          /\ SettledOf(a)' \in SUBSET OfferIds
          /\ SettledOf(a)' \ {f} = SettledOf(a) \ {f}
      BY <2>1 DEF SettledOf, Mine, Made
    <3>2. IsFiniteSet(SettledOf(a))
      BY <2>2, <3>1, FS_Subset
    <3>3. /\ f \in SettledOf(a) <=> offers[f].status = "Accepted" /\ offers[f].lender = a
          /\ f \in SettledOf(a)' <=> offers'[f].status = "Accepted" /\ offers'[f].lender = a
      BY DEF SettledOf, Mine
    <3>4. SumOver(AmountsIn(offers'), SettledOf(a)')
            = SumOver(AmountsIn(offers), SettledOf(a))
                + (IF f \in SettledOf(a)' THEN offers'[f].amount ELSE 0)
                - (IF f \in SettledOf(a) THEN offers[f].amount ELSE 0)
      BY <2>1, <3>1, <3>2, AmountMoves
    <3> QED BY <3>3, <3>4 DEF LentBy, AmountOver, AmountsIn
  <2>7. stats'.total_financed = AmountOver(AllSettled)'
    BY <2>1, <2>4 DEF BooksInv, NegBooks, EntriesOf
  <2>8. ASSUME NEW a \in Address
        PROVE  /\ lstats'[a].total_offered = AmountOver(Mine(a))'
               /\ lstats'[a].total_accepted = AmountOver(SettledOf(a))'
               /\ pos'[a] = AmountOver(SettledOf(a))'
    <3>1. /\ lstats[a].total_offered = AmountOver(Mine(a))
          /\ lstats[a].total_accepted = AmountOver(SettledOf(a))
          /\ pos[a] = AmountOver(SettledOf(a))
      BY DEF BooksInv, NegBooks
    <3> QED BY <2>1, <2>5, <2>6, <3>1 DEF EntriesOf
  <2> QED BY <2>3, <2>7, <2>8 DEF BooksInv, NegBooks
<1> QED BY <1>1, <1>2, NegStepKinds

-----------------------------------------------------------------------------
(* The theorems *)

NegInv == NegBase /\ WindowInv /\ OutcomeMatchesOffer /\ LastOfLenderStands /\ BooksInv

LEMMA NegInvAlways == Spec => []NegInv
<1>1. Init => NegInv
  <2> SUFFICES ASSUME Init PROVE NegInv
    OBVIOUS
  <2>1. \A f \in OfferIds : rounds[f] = << >> /\ outcome[f] = "None"
    BY DEF Init, NegInit
  <2>2. WindowInv
    BY <2>1 DEF WindowInv, RoundsInThePast, RoundsWithinWindow
  <2>3. OutcomeMatchesOffer
    BY <2>1 DEF OutcomeMatchesOffer
  <2>4. LastOfLenderStands
    BY <2>1 DEF LastOfLenderStands, RoundsBy
  <2> QED BY <2>2, <2>3, <2>4, NegBaseInit, BooksInit DEF NegInv
<1>2. NegInv /\ [Next]_vars => NegInv'
  BY NegBaseStep, WindowStep, OutcomeStep, StandsStep, BooksStep DEF NegInv
<1> QED BY <1>1, <1>2, PTL DEF Spec

(* No round lies outside the window its first round opened: what opened    *)
(* the window is never moved, whatever is configured later (record_round). *)
THEOREM NegotiationRoundsWithinWindow == Spec => []RoundsWithinWindow
<1>1. NegInv => RoundsWithinWindow
  BY DEF NegInv, WindowInv
<1> QED BY <1>1, NegInvAlways, PTL

(* The reported outcome tells a settled negotiation from one walked away   *)
(* from (settle_acceptance, get_negotiation_status).                       *)
THEOREM NegotiationOutcomeMatchesOffer == Spec => []OutcomeMatchesOffer
<1>1. NegInv => OutcomeMatchesOffer
  BY DEF NegInv
<1> QED BY <1>1, NegInvAlways, PTL

(* The lender's totals are sums of the offers at their final terms, for    *)
(* any number of offers and of amendments to each (amend_offer,            *)
(* settle_acceptance).                                                     *)
THEOREM NegotiationBooksFollowTerms == Spec => []BooksFollowTerms
<1>1. NegInv => BooksFollowTerms
  BY BooksAreNegBooks DEF NegInv, BooksInv
<1> QED BY <1>1, NegInvAlways, PTL

(* A negotiation that has ended never runs again, although its end may be  *)
(* written nowhere (get_negotiation_status).                               *)
THEOREM NegotiationEndedStaysEnded == Spec => EndedStaysEnded
<1> DEFINE ended == \A f \in OfferIds : NegotiationStatus(f) \in Ended =>
             /\ rounds'[f] = rounds[f]
             /\ NegotiationStatus(f)' \in Ended
             /\ NegotiationStatus(f) # "Expired" =>
                  NegotiationStatus(f)' = NegotiationStatus(f)
             /\ TermsOf(offers'[f]) = TermsOf(offers[f])
<1>1. ASSUME NegInv, [Next]_vars PROVE ended
  <2> SUFFICES ASSUME NEW f \in OfferIds, NegotiationStatus(f) \in Ended
               PROVE  /\ rounds'[f] = rounds[f]
                      /\ NegotiationStatus(f)' \in Ended
                      /\ NegotiationStatus(f) # "Expired" =>
                           NegotiationStatus(f)' = NegotiationStatus(f)
                      /\ TermsOf(offers'[f]) = TermsOf(offers[f])
    OBVIOUS
  <2>1. NegBase /\ OutcomeMatchesOffer
    BY <1>1 DEF NegInv
  <2>2. /\ deadline[f] \in Nat /\ now \in Nat
        /\ outcome[f] \in Ended \cup {"None"}
        /\ "None" \notin Ended /\ "Open" \notin Ended
    BY <2>1, OfferFacts DEF Ended
  <2>3. offers[f].status # "Absent"
    BY <2>1, <2>2 DEF NegBase, OffersAreTold, NegotiationStatus
  <2>4. CASE /\ rounds'[f] = rounds[f] /\ deadline'[f] = deadline[f]
             /\ outcome'[f] = outcome[f] /\ offers'[f] = offers[f]
             /\ now' \in Nat /\ now <= now'
    BY <2>2, <2>4 DEF NegotiationStatus, Ended
  <2>5. CASE OtherStep
    BY <2>4, <2>5 DEF OtherStep, finVars
  <2>6. ASSUME NEW g \in OfferIds, OfferStep(g), g # f
        PROVE  /\ rounds'[f] = rounds[f] /\ deadline'[f] = deadline[f]
               /\ outcome'[f] = outcome[f] /\ offers'[f] = offers[f]
               /\ now' \in Nat /\ now <= now'
    BY <2>2, <2>6 DEF OfferStep, OnlyAt
  <2>7. CASE OfferStep(f)
    <3>1. now' = now
      BY <2>7 DEF OfferStep
    <3>2. ~ Created(f) /\ ~ \E r : Round(f, r)
      BY <2>2, <2>3 DEF Created, Round, Ended
    <3>3. CASE Refused(f)
      BY <2>1, <2>2, <3>3 DEF Refused, SameNegotiation, NegotiationStatus, Ended
    <3>4. CASE Taken(f)
      BY <2>2, <3>1, <3>4 DEF Taken, Settled, NegotiationStatus, Ended
    <3>5. CASE ClosedDown(f)
      BY <2>2, <3>1, <3>5 DEF ClosedDown, NegotiationStatus, Ended
    <3> QED BY <2>7, <3>2, <3>3, <3>4, <3>5 DEF OfferStep, OfferMoves
  <2> QED BY <1>1, <2>1, <2>4, <2>5, <2>6, <2>7, NegStepKinds
<1>2. NegInv /\ [Next]_vars => [ended]_vars
  <2> HIDE DEF ended
  <2> QED BY <1>1
<1>3. Spec => [][ended]_vars
  <2> HIDE DEF ended
  <2> QED BY <1>2, NegInvAlways, PTL DEF Spec
<1> QED BY <1>3 DEF EndedStaysEnded

-----------------------------------------------------------------------------
(* Agreements *)

(* last_proposal_by looks at the party's latest round, and at no other.    *)
LEMMA LatestProposal ==
  ASSUME NegBase, NEW f \in OfferIds, NEW party, NEW t \in LastProposalBy(f, party)
  PROVE  \E k \in RoundsBy(f, party) :
           /\ \A j \in RoundsBy(f, party) : j <= k
           /\ TermsOf(rounds[f][k]) = t
<1> DEFINE S == RoundsBy(f, party)
           bounds == {m \in Nat : \A j \in S : j <= m}
<1>1. /\ S \in SUBSET (1 .. Len(rounds[f])) /\ Len(rounds[f]) \in Nat
      /\ S # {} /\ t = TermsOf(rounds[f][Max(S)])
  <2>1. DOMAIN rounds[f] = 1 .. Len(rounds[f]) /\ Len(rounds[f]) \in Nat
    BY OfferFacts
  <2> QED BY <2>1 DEF RoundsBy, LastProposalBy
<1> HIDE DEF S
<1>2. Len(rounds[f]) \in bounds /\ bounds \in SUBSET Nat
  BY <1>1
<1>3. PICK m \in bounds : \A n \in bounds : m <= n
  BY <1>2, LeastNatural
<1>4. m \in Nat /\ \A j \in S : j \in Nat /\ 1 <= j /\ j <= m
  BY <1>1
<1>5. m \in S
  <2> SUFFICES ASSUME m \notin S PROVE FALSE
    OBVIOUS
  <2>1. \A j \in S : j <= m - 1
    BY <1>4
  <2>2. m - 1 \in Nat
    <3>1. PICK j \in S : TRUE
      BY <1>1
    <3> QED BY <1>4, <3>1
  <2>3. m - 1 \in bounds
    BY <2>1, <2>2
  <2> QED BY <1>3, <1>4, <2>3
<1>6. \A j \in S : m >= j
  BY <1>4
<1>7. Max(S) \in S /\ \A j \in S : Max(S) >= j
  BY <1>5, <1>6, Zenon DEF Max
<1>8. \A j \in S : j <= Max(S)
  BY <1>4, <1>7
<1> QED BY <1>1, <1>7, <1>8 DEF S

(* r is a round that settles the offer f.                                  *)
Agreed(f, r) ==
  /\ Round(f, r)
  /\ offers[f].lender \notin blacklist
  /\ invoices[offers[f].invoice_id].originator \notin blacklist
  /\ TermsOf(offers'[f]) = TermsOf(r)
  /\ r.party = "Originator" => TermsOf(offers[f]) = TermsOf(r)
  /\ r.party = "Lender" => TermsOf(r) \in LastProposalBy(f, "Originator")

LEMMA ConvergingAmendment ==
  ASSUME NegBase, NEW f \in OfferIds, NEW a \in Address, NEW read,
         NEW amount \in Principals, NEW rate \in Rates,
         AmendOffer(f, a, read, amount, rate), Converges(f)
  PROVE  \E r : Agreed(f, r)
<1> DEFINE o == [offers[f] EXCEPT !.amount = amount, !.interest_rate = rate]
           lenders == CreditAmendment(a, offers[f].amount, amount)
           r == RoundOf("Lender", a, read, amount, rate)
<1>1. /\ offers[f].lender = a
      /\ AssertNegotiable(f, read)
      /\ RecordRound(f, "Lender", a, read, amount, rate)
  BY DEF AmendOffer
<1>2. offers \in [OfferIds -> Offer] /\ offers[f].status # "Accepted"
  BY DEF NegBase, TypeOK, FinTypeOK, Converges
<1>3. <<amount, rate>> \in LastProposalBy(f, "Originator") /\ ExecuteAgreement(f, o, lenders)
  <2>1. offers'[f].status = "Accepted"
    BY DEF Converges
  <2>2. o.status = offers[f].status
    BY <1>2 DEF Offer
  <2>3. offers' # [offers EXCEPT ![f] = o]
    BY <1>2, <2>1, <2>2
  <2> QED BY <2>3 DEF AmendOffer
<1>4. amount \in Int /\ rate \in Nat
  BY FinancingAssumption
<1>5. Recorded(f, r)
  BY <1>1, <1>4, RoundIsRecorded DEF Parties
<1>6. TermsOf(r) = <<amount, rate>> /\ r.party = "Lender"
  BY DEF RoundOf, TermsOf
<1>7. /\ o \in Offer /\ o.lender = offers[f].lender
      /\ o.invoice_id = offers[f].invoice_id
      /\ TermsOf(o) = <<amount, rate>> /\ o.amount = amount
      /\ o.lender \in Address /\ o.invoice_id \in InvoiceIds
  <2>1. offers[f].status = "Pending" /\ offers[f] \in Offer
    BY <1>1, <1>2 DEF AssertNegotiable
  <2>2. offers[f].lender \in Address /\ offers[f].invoice_id \in InvoiceIds
    BY <2>1 DEF NegBase, OffersAreTold
  <2> QED BY <1>4, <2>1, <2>2 DEF Offer, TermsOf
<1> HIDE DEF o, r
<1>8. lenders \in [Address -> LenderStats]
  BY <1>1, <1>7, CreditFollows
<1> HIDE DEF lenders
<1>9. SettledAs(f, o, lenders)
  BY <1>3, <1>7, <1>8, SettlementSettles DEF ExecuteAgreement
<1>10. /\ outcome'[f] = IF rounds'[f] # << >> /\ outcome[f] = "None" THEN "Accepted"
                        ELSE outcome[f]
  BY <1>3, OutcomeOfSettlement DEF ExecuteAgreement
<1>11. Settled(f) /\ SameParties(f) /\ TermsOf(offers'[f]) = TermsOf(r)
  BY <1>6, <1>7, <1>9, <1>10 DEF Settled, SettledAs, SameParties, TermsOf
<1>12. Round(f, r)
  BY <1>1, <1>5, <1>6, <1>11 DEF Round, Recorded, AssertNegotiable, Settled
<1>13. /\ offers[f].lender \notin blacklist
       /\ invoices[offers[f].invoice_id].originator \notin blacklist
  BY <1>3, <1>7 DEF ExecuteAgreement
<1> QED BY <1>3, <1>6, <1>11, <1>12, <1>13 DEF Agreed

LEMMA ConvergingCounter ==
  ASSUME NegBase, NEW f \in OfferIds, NEW a \in Address, NEW read,
         NEW amount \in Principals, NEW rate \in Rates,
         CounterOffer(f, a, read, amount, rate), Converges(f)
  PROVE  \E r : Agreed(f, r)
<1> DEFINE r == RoundOf("Originator", a, read, amount, rate)
<1>1. /\ AssertNegotiable(f, read)
      /\ RecordRound(f, "Originator", a, read, amount, rate)
  BY DEF CounterOffer
<1>2. <<amount, rate>> = TermsOf(offers[f]) /\ ExecuteAgreement(f, offers[f], lstats)
  BY DEF CounterOffer, Converges, finVars
<1>3. amount \in Int /\ rate \in Nat
  BY FinancingAssumption
<1>4. Recorded(f, r)
  BY <1>1, <1>3, RoundIsRecorded DEF Parties
<1>5. TermsOf(r) = <<amount, rate>> /\ r.party = "Originator"
  BY DEF RoundOf, TermsOf
<1> HIDE DEF r
<1>6. /\ offers[f] \in Offer /\ lstats \in [Address -> LenderStats]
      /\ offers[f].lender \in Address /\ offers[f].invoice_id \in InvoiceIds
  BY DEF NegBase, TypeOK, FinTypeOK, OffersAreTold, Converges
<1>7. SettledAs(f, offers[f], lstats)
  BY <1>2, <1>6, SettlementSettles DEF ExecuteAgreement
<1>8. outcome'[f] = IF rounds'[f] # << >> /\ outcome[f] = "None" THEN "Accepted"
                    ELSE outcome[f]
  BY <1>2, OutcomeOfSettlement DEF ExecuteAgreement
<1>9. /\ Settled(f) /\ SameParties(f)
      /\ TermsOf(offers'[f]) = TermsOf(offers[f])
  BY <1>7, <1>8 DEF Settled, SettledAs, SameParties, TermsOf
<1>10. Round(f, r)
  BY <1>1, <1>4, <1>5, <1>9 DEF Round, Recorded, AssertNegotiable, Settled
<1> QED BY <1>2, <1>5, <1>9, <1>10 DEF Agreed, ExecuteAgreement

LEMMA ConvergingStep ==
  ASSUME NegBase, NEW f \in OfferIds, [Next]_vars, Converges(f)
  PROVE  \E r : Agreed(f, r)
<1>1. /\ rounds \in [OfferIds -> Seq(NegotiationRecord)]
      /\ rounds'[f] # rounds[f] /\ rounds' # rounds
  BY DEF NegBase, TypeOK, NegTypeOK, Converges
<1>2. PICK g \in OfferIds, a \in Address, read \in 0 .. MaxRounds,
           amount \in Principals, rate \in Rates :
        AmendOffer(g, a, read, amount, rate) \/ CounterOffer(g, a, read, amount, rate)
  BY <1>1 DEF Next, RegistryStep, OfferNext, AcceptOutright, CloseNegotiation, RoundNext,
              WindowNext, SetNegotiationWindow, vars, negVars
<1>3. g = f
  BY <1>1, <1>2 DEF AmendOffer, CounterOffer, RecordRound
<1> QED BY <1>2, <1>3, ConvergingAmendment, ConvergingCounter

(* An agreement is the last word of both sides, in the presence of both:   *)
(* the caller had read every round, the settled terms are those of its     *)
(* round and of the other side's latest, which is no older than the        *)
(* longest window (amend_offer, counter_offer, execute_agreement).         *)
THEOREM NegotiationAgreementIsMutual == Spec => AgreementIsMutual
<1> DEFINE mutual == \A f \in OfferIds : Converges(f) =>
             LET last  == Len(rounds'[f])
                 r     == rounds'[f][last]
                 other == {k \in 1 .. last - 1 : rounds[f][k].party # r.party}
             IN /\ r.read = last - 1
                /\ offers[f].lender \notin blacklist
                /\ invoices[offers[f].invoice_id].originator \notin blacklist
                /\ TermsOf(offers'[f]) = TermsOf(r)
                /\ r.party = "Originator" => TermsOf(offers[f]) = TermsOf(r)
                /\ r.party = "Lender" => other # {}
                /\ \A k \in other : (\A j \in other : j <= k) =>
                     /\ TermsOf(rounds[f][k]) = TermsOf(r)
                     /\ now <= rounds[f][k].timestamp + MaxWindow
<1>1. ASSUME NegInv, [Next]_vars, NEW f \in OfferIds, Converges(f), NEW r, Agreed(f, r),
             NEW other, other = {k \in 1 .. Len(rounds[f]) : rounds[f][k].party # r.party}
      PROVE  /\ r.party = "Lender" => other # {}
             /\ \A k \in other : (\A j \in other : j <= k) =>
                  /\ TermsOf(rounds[f][k]) = TermsOf(r)
                  /\ now <= rounds[f][k].timestamp + MaxWindow
  <2>1. NegBase /\ Round(f, r)
    BY <1>1 DEF NegInv, Agreed
  <2>2. /\ DOMAIN rounds[f] = 1 .. Len(rounds[f]) /\ Len(rounds[f]) \in Nat
        /\ deadline[f] \in Nat /\ now \in Nat
        /\ outcome[f] \in Ended \cup {"None"}
    BY <2>1, OfferFacts
  <2>3. \A k \in DOMAIN rounds[f] :
          rounds[f][k].timestamp \in Nat /\ rounds[f][k].party \in Parties
    BY <2>1, RoundFacts
  <2>4. r.party \in Parties
    BY <2>1 DEF Round, NegotiationRecord
  <2>5. /\ r.party = "Lender" => other = RoundsBy(f, "Originator")
        /\ r.party = "Originator" => other = RoundsBy(f, "Lender")
    BY <1>1, <2>2, <2>3, <2>4 DEF RoundsBy, Parties
  <2>6. r.party = "Lender" =>
          \E k \in other : (\A j \in other : j <= k) /\ TermsOf(rounds[f][k]) = TermsOf(r)
    <3> HAVE r.party = "Lender"
    <3>1. TermsOf(r) \in LastProposalBy(f, "Originator")
      BY <1>1 DEF Agreed
    <3> QED BY <2>1, <2>5, <3>1, LatestProposal
  <2>7. ASSUME NEW k \in other, \A j \in other : j <= k
        PROVE  TermsOf(rounds[f][k]) = TermsOf(r)
    <3>1. CASE r.party = "Lender"
      <4>1. PICK m \in other :
              (\A j \in other : j <= m) /\ TermsOf(rounds[f][m]) = TermsOf(r)
        BY <2>6, <3>1
      <4>2. m <= k /\ k <= m /\ m \in Nat /\ k \in Nat
        BY <1>1, <2>7, <4>1
      <4>3. m = k
        BY <4>2
      <4> QED BY <4>1, <4>3
    <3>2. CASE r.party = "Originator"
      BY <1>1, <2>5, <2>7, <3>2 DEF NegInv, LastOfLenderStands, Agreed
    <3> QED BY <2>4, <3>1, <3>2 DEF Parties
  <2>8. ASSUME NEW k \in other
        PROVE  now <= rounds[f][k].timestamp + MaxWindow
    <3>1. k \in DOMAIN rounds[f] /\ 1 \in DOMAIN rounds[f] /\ rounds[f] # << >>
      BY <1>1, <2>2, <2>8
    <3>2. outcome[f] = "None"
      BY <2>1, <2>2 DEF Round, NegotiationStatus, Ended
    <3>3. now <= deadline[f]
      BY <2>1, <2>2, <3>1, <3>2 DEF Round, NegotiationStatus
    <3>4. /\ rounds[f][k].timestamp \in rounds[f][1].timestamp .. deadline[f]
          /\ deadline[f] - rounds[f][1].timestamp \in MinWindow .. MaxWindow
      BY <1>1, <3>1 DEF NegInv, WindowInv, RoundsWithinWindow
    <3>5. rounds[f][k].timestamp \in Nat /\ rounds[f][1].timestamp \in Nat
      BY <2>3, <3>1
    <3> DEFINE opened == rounds[f][1].timestamp
               dated == rounds[f][k].timestamp
               closes == deadline[f]
    <3>6. /\ opened <= dated /\ closes - opened <= MaxWindow /\ MaxWindow \in Nat
          /\ opened \in Nat /\ dated \in Nat /\ closes \in Nat /\ now <= closes
      BY <2>2, <3>3, <3>4, <3>5, NegotiationAssumption
    <3> HIDE DEF opened, dated, closes
    <3>7. now <= dated + MaxWindow
      BY <2>2, <3>6
    <3> QED BY <3>7 DEF dated
  <2> QED BY <2>6, <2>7, <2>8
<1>2. ASSUME NegInv, [Next]_vars PROVE mutual
  <2> SUFFICES ASSUME NEW f \in OfferIds, Converges(f)
               PROVE  LET last  == Len(rounds'[f])
                          r     == rounds'[f][last]
                          other == {k \in 1 .. last - 1 : rounds[f][k].party # r.party}
                      IN /\ r.read = last - 1
                         /\ offers[f].lender \notin blacklist
                         /\ invoices[offers[f].invoice_id].originator \notin blacklist
                         /\ TermsOf(offers'[f]) = TermsOf(r)
                         /\ r.party = "Originator" => TermsOf(offers[f]) = TermsOf(r)
                         /\ r.party = "Lender" => other # {}
                         /\ \A k \in other : (\A j \in other : j <= k) =>
                              /\ TermsOf(rounds[f][k]) = TermsOf(r)
                              /\ now <= rounds[f][k].timestamp + MaxWindow
    OBVIOUS
  <2>1. PICK r : Agreed(f, r)
    BY <1>2, ConvergingStep DEF NegInv
  <2>2. /\ Len(rounds'[f]) = Len(rounds[f]) + 1 /\ Len(rounds[f]) \in Nat
        /\ rounds'[f][Len(rounds[f]) + 1] = r
    BY <1>2, <2>1, RoundAppends, OfferFacts DEF NegInv, Agreed
  <2>3. /\ rounds'[f][Len(rounds'[f])] = r
        /\ Len(rounds'[f]) - 1 = Len(rounds[f])
        /\ r.read = Len(rounds[f])
    BY <2>1, <2>2 DEF Agreed, Round
  <2> DEFINE other == {k \in 1 .. Len(rounds[f]) : rounds[f][k].party # r.party}
  <2>4. /\ r.party = "Lender" => other # {}
        /\ \A k \in other : (\A j \in other : j <= k) =>
             /\ TermsOf(rounds[f][k]) = TermsOf(r)
             /\ now <= rounds[f][k].timestamp + MaxWindow
    BY <1>1, <1>2, <2>1
  <2> QED BY <2>1, <2>3, <2>4 DEF Agreed
<1>3. NegInv /\ [Next]_vars => [mutual]_vars
  <2> HIDE DEF mutual
  <2> QED BY <1>2
<1>4. Spec => [][mutual]_vars
  <2> HIDE DEF mutual
  <2> QED BY <1>3, NegInvAlways, PTL DEF Spec
<1> QED BY <1>4, PTL DEF AgreementIsMutual
=============================================================================
