--------------------------- MODULE MCNegotiation ----------------------------
(* Instance of Negotiation for TLC.                                        *)
EXTENDS Negotiation

CONSTANTS alice, bob, inv1, off1

Accounts2 == {alice, bob}

(* Constraint: an invoice is followed while it is pending or financed by   *)
(* its offer, and what follows the end of an offer without blacklisting.   *)
(* Offers are opened at the amount of the invoice.                         *)
NegotiationMatters ==
  /\ \A f \in OfferIds : offers[f].status = "Pending" /\ rounds[f] = << >> =>
       offers[f].amount = invoices[offers[f].invoice_id].amount
  /\ \A i \in InvoiceIds :
       invoices[i].status \notin {"Absent", "Pending"} =>
         /\ invoices[i].status = "Financed"
         /\ \E f \in OfferIds : offers[f].invoice_id = i /\ offers[f].status = "Accepted"
  /\ \A f \in OfferIds :
       offers[f].status \notin {"Absent", "Pending"} => blacklist = {}
=============================================================================
