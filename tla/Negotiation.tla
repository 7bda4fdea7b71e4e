---------------------------- MODULE Negotiation -----------------------------
(***************************************************************************)
(* Amendment and counter-offer on top of the financing contract: the       *)
(* lender rewrites its pending offer, the originator records what it would *)
(* accept, and the two settle in the call that makes their terms equal.    *)
(*                                                                         *)
(* Terms are amount and interest rate; the duration, only validated and    *)
(* compared, is left to the rate.  A round also names its caller and how   *)
(* many rounds that caller had read when it submitted its expected_round   *)
(* (`by` and `read`: the contract stores neither).  neg_clsd events are    *)
(* left out.                                                               *)
(***************************************************************************)
EXTENDS Financing, Sums

CONSTANTS
  Windows,         \* bound: windows the admins may submit
  DefaultWindow,   \* DEFAULT_NEGOTIATION_WINDOW_SECS
  MinWindow,       \* MIN_NEGOTIATION_WINDOW_SECS
  MaxWindow,       \* MAX_NEGOTIATION_WINDOW_SECS
  MaxRounds        \* MAX_NEGOTIATION_ROUNDS

ASSUME NegotiationAssumption ==
  /\ Windows \subseteq Nat
  /\ MinWindow \in Nat
  /\ MaxWindow \in Nat
  /\ DefaultWindow \in MinWindow .. MaxWindow
  /\ MaxRounds \in Nat

VARIABLES
  window,     \* "negwin"
  rounds,     \* "negot" of an offer
  deadline,   \* its deadline, 0 before the first round
  outcome     \* "negend" of an offer

negVars == <<window, rounds, deadline, outcome>>
vars == <<regVars, finVars, negVars>>

-----------------------------------------------------------------------------
(* Types *)

Parties == {"Lender", "Originator"}

Ended == {"Closed", "Accepted", "Expired"}

NegotiationRecord == [party : Parties, amount : Int, interest_rate : Nat,
                      timestamp : Nat, by : Address, read : Nat]

NegTypeOK ==
  /\ window \in MinWindow .. MaxWindow
  /\ rounds \in [OfferIds -> Seq(NegotiationRecord)]
  /\ \A f \in OfferIds : Len(rounds[f]) <= MaxRounds
  /\ deadline \in [OfferIds -> Nat]
  /\ outcome \in [OfferIds -> Ended \cup {"None"}]

TypeOK == RegTypeOK /\ FinTypeOK /\ NegTypeOK

NegInit ==
  /\ window = DefaultWindow
  /\ rounds = [f \in OfferIds |-> << >>]
  /\ deadline = [f \in OfferIds |-> 0]
  /\ outcome = [f \in OfferIds |-> "None"]

Init == RegInit /\ FinInit /\ NegInit

-----------------------------------------------------------------------------
(* Shared pieces *)

(* get_negotiation_status: a stored outcome wins, the rest is derived.     *)
NegotiationStatus(f) ==
  IF outcome[f] # "None" THEN outcome[f]
  ELSE IF rounds[f] = << >> THEN "None"
  ELSE IF offers[f].status # "Pending" THEN "Closed"
  ELSE IF now > deadline[f] THEN "Expired" ELSE "Open"

TermsOf(r) == <<r.amount, r.interest_rate>>

RoundsBy(f, party) == {k \in DOMAIN rounds[f] : rounds[f][k].party = party}

(* Mutant: a party stays bound by the first terms it proposed.             *)
FirstProposalBy(f, party) ==
  LET ks == RoundsBy(f, party) IN {TermsOf(rounds[f][Min(ks)]) : k \in ks}

(* last_proposal_by: the terms of the party's latest round, none without.  *)
LastProposalBy(f, party) ==
  LET ks == RoundsBy(f, party) IN {TermsOf(rounds[f][Max(ks)]) : k \in ks}

(* assert_terms_valid: the amount of the invoice is not consulted.         *)
TermsValid(amount, rate) == amount > 0 /\ rate \in 1 .. MaxInterestBps

(* Mutant: a negotiation that has ended takes further rounds.              *)
AssertNegotiableAfterEnd(f, expected_round) ==
  /\ offers[f].status = "Pending"
  /\ Len(rounds[f]) = expected_round
  /\ Len(rounds[f]) < MaxRounds

(* Mutant: the round is not held against the one the caller has read.      *)
AssertNegotiableUnread(f, expected_round) ==
  /\ offers[f].status = "Pending"
  /\ NegotiationStatus(f) \in {"None", "Open"}
  /\ Len(rounds[f]) < MaxRounds

AssertNegotiable(f, expected_round) ==
  /\ offers[f].status = "Pending"
  /\ NegotiationStatus(f) \in {"None", "Open"}
  /\ Len(rounds[f]) = expected_round
  /\ Len(rounds[f]) < MaxRounds

(* Mutant: every round moves the deadline.                                 *)
RecordRoundExtending(f, party, a, read, amount, rate) ==
  /\ deadline' = [deadline EXCEPT ![f] = now + window]
  /\ rounds' = [rounds EXCEPT ![f] = Append(@,
       [party |-> party, amount |-> amount, interest_rate |-> rate,
        timestamp |-> now, by |-> a, read |-> read])]

(* record_round: the first round freezes the deadline.                     *)
RecordRound(f, party, a, read, amount, rate) ==
  /\ deadline' = IF rounds[f] = << >>
                 THEN [deadline EXCEPT ![f] = now + window] ELSE deadline
  /\ rounds' = [rounds EXCEPT ![f] = Append(@,
       [party |-> party, amount |-> amount, interest_rate |-> rate,
        timestamp |-> now, by |-> a, read |-> read])]

(* What settle_acceptance does to the negotiation: it ends it unless there *)
(* was none or it has ended.                                               *)
EndBySettlement(f, history) ==
  outcome' = [outcome EXCEPT ![f] =
    IF history # << >> /\ @ = "None" THEN "Accepted" ELSE @]

(* Mutant: an agreement settles the offer and leaves the negotiation open. *)
ExecuteAgreementUnrecorded(f, o, lenders) ==
  /\ invoices[o.invoice_id].status = "Pending"
  /\ o.expires_at = 0 \/ now < o.expires_at
  /\ o.lender \notin blacklist
  /\ invoices[o.invoice_id].originator \notin blacklist
  /\ SettleAcceptance(f, o, lenders)
  /\ UNCHANGED outcome

(* execute_agreement on the offer o as the round has left it: invoice and  *)
(* parties are looked at again, and if one fails the round fails with it.  *)
ExecuteAgreement(f, o, lenders) ==
  /\ invoices[o.invoice_id].status = "Pending"
  /\ o.expires_at = 0 \/ now < o.expires_at
  /\ o.lender \notin blacklist
  /\ invoices[o.invoice_id].originator \notin blacklist
  /\ SettleAcceptance(f, o, lenders)
  /\ EndBySettlement(f, rounds'[f])

-----------------------------------------------------------------------------
(* Entry points *)

SetNegotiationWindow(w) ==
  /\ NotPaused("financing")
  /\ w \in MinWindow .. MaxWindow
  /\ window' = w
  /\ UNCHANGED <<regVars, finVars, rounds, deadline, outcome>>

(* Mutant: the amended amount is credited again instead of the difference. *)
CreditAmendmentAgain(l, old, new) == [lstats EXCEPT ![l].total_offered = @ + new]

(* The lender statistics after its offer went from `old` to `new`.         *)
CreditAmendment(l, old, new) ==
  [lstats EXCEPT ![l].total_offered = @ + (new - old)]

(* amend_offer: the standing offer is rewritten, and settles when the      *)
(* terms are those the originator last asked for.                          *)
AmendOffer(f, l, expected_round, amount, rate) ==
  LET o == [offers[f] EXCEPT !.amount = amount, !.interest_rate = rate]
      lenders == CreditAmendment(l, offers[f].amount, amount)
  IN /\ NotPaused("financing")
     /\ l \notin blacklist
     /\ TermsValid(amount, rate)
     /\ offers[f].lender = l
     /\ AssertNegotiable(f, expected_round)
     /\ RecordRound(f, "Lender", l, expected_round, amount, rate)
     /\ IF <<amount, rate>> \in LastProposalBy(f, "Originator")
        THEN ExecuteAgreement(f, o, lenders)
        ELSE /\ offers' = [offers EXCEPT ![f] = o]
             /\ lstats' = lenders
             /\ UNCHANGED <<regVars, stats, pos, outcome>>
     /\ UNCHANGED window

(* counter_offer: the offer stays as it is, and settles when its terms are *)
(* the ones asked for.                                                     *)
CounterOffer(f, o, expected_round, amount, rate) ==
  /\ NotPaused("financing")
  /\ o \notin blacklist
  /\ TermsValid(amount, rate)
  /\ AssertNegotiable(f, expected_round)
  /\ invoices[offers[f].invoice_id].originator = o
  /\ RecordRound(f, "Originator", o, expected_round, amount, rate)
  /\ IF <<amount, rate>> = TermsOf(offers[f])
     THEN ExecuteAgreement(f, offers[f], lstats)
     ELSE UNCHANGED <<regVars, finVars, outcome>>
  /\ UNCHANGED window

(* close_negotiation: anybody may record that the time is over, only a     *)
(* party may end it before.                                                *)
CloseNegotiation(f, c) ==
  /\ NotPaused("financing")
  /\ outcome[f] = "None"
  /\ \/ /\ NegotiationStatus(f) = "Expired"
        /\ outcome' = [outcome EXCEPT ![f] = "Expired"]
     \/ /\ NegotiationStatus(f) = "Open"
        /\ c \in {offers[f].lender, invoices[offers[f].invoice_id].originator}
        /\ outcome' = [outcome EXCEPT ![f] = "Closed"]
  /\ UNCHANGED <<regVars, finVars, window, rounds, deadline>>

(* accept_offer, with what its settlement does to the negotiation          *)
AcceptOutright(f, o) ==
  /\ AcceptOffer(f, o)
  /\ EndBySettlement(f, rounds[f])
  /\ UNCHANGED <<window, rounds, deadline>>

-----------------------------------------------------------------------------
RoundNext ==
  \E f \in OfferIds, a \in Address, expected_round \in 0 .. MaxRounds :
    \E amount \in Principals, rate \in Rates :
      \/ AmendOffer(f, a, expected_round, amount, rate)
      \/ CounterOffer(f, a, expected_round, amount, rate)

OfferNext ==
  \E f \in OfferIds, a \in Address :
    \/ \E i \in InvoiceIds, amount \in Principals, rate \in Rates, e \in Expiries :
         CreateOffer(f, i, a, amount, rate, e) /\ UNCHANGED negVars
    \/ WithdrawOffer(f, a) /\ UNCHANGED negVars
    \/ RejectOffer(f, a) /\ UNCHANGED negVars
    \/ AcceptOutright(f, a)
    \/ CloseNegotiation(f, a)

RegistryStep == RegUserNext /\ UNCHANGED <<finVars, negVars>>

WindowNext == \E w \in Windows : SetNegotiationWindow(w)

Next == RegistryStep \/ OfferNext \/ RoundNext \/ WindowNext

Spec == Init /\ [][Next]_vars

-----------------------------------------------------------------------------
(* Properties *)

(* The step settles f through a round, not through accept_offer.           *)
Converges(f) ==
  /\ offers[f].status = "Pending"
  /\ offers'[f].status = "Accepted"
  /\ rounds'[f] # rounds[f]

(***************************************************************************)
(* An agreement is the last word of both sides: the caller had read every  *)
(* round, the settled terms are those of its round, the other side's       *)
(* latest position asks for the same and is not older than the longest     *)
(* window, and neither side has been blacklisted since it took it          *)
(* (amend_offer, counter_offer, ADR-0008 sections 2 to 4 and 7).           *)
(***************************************************************************)
AgreementIsMutual ==
  [][\A f \in OfferIds : Converges(f) =>
       LET last  == Len(rounds'[f])
           r     == rounds'[f][last]
           other == {k \in 1 .. last - 1 : rounds[f][k].party # r.party}
       IN /\ r.read = last - 1
          /\ offers[f].lender \notin blacklist
          /\ invoices[offers[f].invoice_id].originator \notin blacklist
          /\ TermsOf(offers'[f]) = TermsOf(r)
          /\ r.party = "Originator" => TermsOf(offers[f]) = TermsOf(r)
          /\ r.party = "Lender" => other # {}
          /\ \A k \in other : (\A j \in other : j <= k) =>
               /\ TermsOf(rounds[f][k]) = TermsOf(r)
               /\ now <= rounds[f][k].timestamp + MaxWindow]_vars

(***************************************************************************)
(* No round lies outside the window its first round opened, whatever the   *)
(* rounds after it and the changes of the configured window: trading       *)
(* rounds does not keep a commitment alive (ADR-0008 section 3).           *)
(***************************************************************************)
RoundsWithinWindow ==
  \A f \in OfferIds : \A k \in DOMAIN rounds[f] :
    /\ rounds[f][k].timestamp \in rounds[f][1].timestamp .. deadline[f]
    /\ deadline[f] - rounds[f][1].timestamp \in MinWindow .. MaxWindow

(***************************************************************************)
(* A negotiation that has ended never runs again, although nothing is      *)
(* written when the time is over or the offer is withdrawn: its rounds are *)
(* complete, and only an offer left pending may still be accepted as it    *)
(* stands (get_negotiation_status).                                        *)
(***************************************************************************)
EndedStaysEnded ==
  [][\A f \in OfferIds : NegotiationStatus(f) \in Ended =>
       /\ rounds'[f] = rounds[f]
       /\ NegotiationStatus(f)' \in Ended
       /\ NegotiationStatus(f) # "Expired" =>
            NegotiationStatus(f)' = NegotiationStatus(f)
       /\ TermsOf(offers'[f]) = TermsOf(offers[f])]_vars

(***************************************************************************)
(* What the contract reports tells a settled negotiation from one that was *)
(* walked away from: Accepted only with a funded offer, and a status       *)
(* derived from the offer never hides a settlement, by convergence or      *)
(* outright (settle_acceptance, ADR-0008:113-115; the comment of           *)
(* get_negotiation_status, financing 940-942, has the latter as Closed).   *)
(***************************************************************************)
OutcomeMatchesOffer ==
  \A f \in OfferIds :
    /\ outcome[f] = "Accepted" => offers[f].status = "Accepted" /\ rounds[f] # << >>
    /\ outcome[f] = "None" /\ rounds[f] # << >> =>
         offers[f].status \in {"Pending", "Rejected"}

(***************************************************************************)
(* The lender's totals follow the terms through every amendment, settled   *)
(* in the same call or not: they are sums over offers, not over rounds,    *)
(* and what was minted and counted as financed are the final terms.        *)
(***************************************************************************)
BooksFollowTerms ==
  LET sum(S) == SumOver([f \in OfferIds |-> offers[f].amount], S)
      of(l) == {f \in OfferIds : offers[f].lender = l}
      settled(l) == {f \in of(l) : offers[f].status = "Accepted"}
  IN /\ stats.total_financed = sum({f \in OfferIds : offers[f].status = "Accepted"})
     /\ \A l \in Address :
          /\ lstats[l].total_offered = sum(of(l))
          /\ lstats[l].total_accepted = sum(settled(l))
          /\ pos[l] = sum(settled(l))
=============================================================================
