----------------------------- MODULE Amendments -----------------------------
(***************************************************************************)
(* Amendments of the registry (ADR-0012): the originator asks for another  *)
(* amount or due date, at once while the invoice is Pending, and for the   *)
(* lender to decide once it is Financed.  Who the lender is, the registry  *)
(* asks the financing contract once and remembers.  The registry of the    *)
(* model knows its financing contract from the start: set_invoice_lender   *)
(* is open to that contract only, which never calls it.  Before            *)
(* set_financing_contract it asks for no authorization; what it stores     *)
(* then is not modelled, and nothing is remembered at first.               *)
(***************************************************************************)
EXTENDS Financing

CONSTANTS
  AmendAmounts,   \* bound: amounts an originator may ask for
  AmendDates,     \* bound: due dates an originator may ask for
  MaxAmendments   \* bound: amendments of one invoice

ASSUME AmendmentAssumption ==
  /\ AmendAmounts \subseteq Int
  /\ AmendDates \subseteq Nat
  /\ MaxAmendments \in Nat

VARIABLES
  amendments,  \* "amends": the amendments of an invoice, oldest first
  invlend      \* "invlend": the remembered lender of an invoice

amdVars == <<amendments, invlend>>

AmendmentFields == {"amount", "due_date"}

AmendmentRecord == [field  : AmendmentFields,
                    value  : Int,
                    status : {"Pending", "Approved", "Rejected"}]

AmdTypeOK ==
  /\ amendments \in [InvoiceIds -> Seq(AmendmentRecord)]
  /\ invlend \in [InvoiceIds -> Address \cup {Nobody}]

AmdInit ==
  /\ amendments = [i \in InvoiceIds |-> << >>]
  /\ invlend = [i \in InvoiceIds |-> Nobody]

-----------------------------------------------------------------------------
(* Mutant: any offer on the invoice names its lender.                      *)
LendersOfAnyOffer(i) ==
  {offers[f].lender : f \in {g \in OfferIds : offers[g].invoice_id = i}}

ActiveLenders(i) ==
  {offers[f].lender : f \in {g \in OfferIds : /\ offers[g].invoice_id = i
                                              /\ offers[g].status \in ActiveStatuses}}

(* get_invoice_lender resolving to l: the remembered lender, otherwise the *)
(* first active offer in the order of the keys, which is any order, and    *)
(* that lender is remembered.                                              *)
ResolveLender(i, l) ==
  IF invlend[i] # Nobody
  THEN l = invlend[i] /\ UNCHANGED invlend
  ELSE l \in ActiveLenders(i) /\ invlend' = [invlend EXCEPT ![i] = l]

(* get_invoice_lender as an entry point: it writes, and looks at no pause. *)
GetInvoiceLender(i) ==
  /\ \E l \in Address : ResolveLender(i, l)
  /\ UNCHANGED <<regVars, finVars, amendments>>

-----------------------------------------------------------------------------
ValidValue(field, value) ==
  IF field = "amount" THEN value >= MinInvoiceAmount ELSE value > now

(* apply_amendment_to_invoice                                              *)
ApplyAmendment(i, field, value) ==
  invoices' = [invoices EXCEPT ![i][field] = value]

RequestAmendment(o, i, field, value) ==
  LET auto == invoices[i].status = "Pending"
  IN /\ NotPaused("registry")
     /\ invoices[i].originator = o
     /\ invoices[i].status \in {"Pending", "Financed"}
     /\ ValidValue(field, value)
     /\ Len(amendments[i]) < MaxAmendments
     /\ IF auto THEN ApplyAmendment(i, field, value) ELSE UNCHANGED invoices
     /\ amendments' = [amendments EXCEPT ![i] =
          Append(@, [field |-> field, value |-> value,
                     status |-> IF auto THEN "Approved" ELSE "Pending"])]
     /\ UNCHANGED <<now, adminVars, by_origin, tokVars, trn_log, finVars, invlend>>

(* Who decides: the lender of a Financed invoice, the originator of a      *)
(* Pending one, nobody at any other status.                                *)
Decides(a, i) ==
  \/ invoices[i].status = "Financed" /\ ResolveLender(i, a)
  \/ invoices[i].status = "Pending" /\ invoices[i].originator = a /\ UNCHANGED invlend

(* approve_amendment: the value is held against the clock of today.        *)
ApproveAmendment(a, i, k) ==
  LET r == amendments[i][k]
  IN /\ NotPaused("registry")
     /\ Decides(a, i)
     /\ r.status = "Pending"
     /\ ValidValue(r.field, r.value)
     /\ ApplyAmendment(i, r.field, r.value)
     /\ amendments' = [amendments EXCEPT ![i][k].status = "Approved"]
     /\ UNCHANGED <<now, adminVars, by_origin, tokVars, trn_log, finVars>>

(* Mutant: a decided amendment may be rejected again.                      *)
RejectAmendmentAnytime(a, i, k) ==
  /\ NotPaused("registry")
  /\ Decides(a, i)
  /\ amendments' = [amendments EXCEPT ![i][k].status = "Rejected"]
  /\ UNCHANGED <<regVars, finVars>>

RejectAmendment(a, i, k) ==
  /\ NotPaused("registry")
  /\ Decides(a, i)
  /\ amendments[i][k].status = "Pending"
  /\ amendments' = [amendments EXCEPT ![i][k].status = "Rejected"]
  /\ UNCHANGED <<regVars, finVars>>

AmdNext ==
  \E i \in InvoiceIds :
    \/ GetInvoiceLender(i)
    \/ \E a \in Address :
         \/ \E value \in AmendAmounts : RequestAmendment(a, i, "amount", value)
         \/ \E value \in AmendDates : RequestAmendment(a, i, "due_date", value)
         \/ \E k \in DOMAIN amendments[i] :
              ApproveAmendment(a, i, k) \/ RejectAmendment(a, i, k)
=============================================================================
