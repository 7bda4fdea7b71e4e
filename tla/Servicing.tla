------------------------------ MODULE Servicing -----------------------------
(***************************************************************************)
(* A loan being serviced: the three contracts together with what may be    *)
(* agreed about a loan under way, amendments of its invoice in the         *)
(* registry and an installment schedule of its offer in financing.         *)
(***************************************************************************)
EXTENDS Protocol, Amendments, Schedules

serviceVars == <<vars, amdVars, schedules>>

ServiceInit == Init /\ AmdInit /\ SchedInit

ProtocolStep  == Next /\ UNCHANGED <<amdVars, schedules>>
AmendmentStep == AmdNext /\ UNCHANGED <<repVars, schedules>>
ScheduleStep  == SchedNext /\ UNCHANGED <<repVars, amdVars>>

ServiceNext == ProtocolStep \/ AmendmentStep \/ ScheduleStep

ServiceSpec == ServiceInit /\ [][ServiceNext]_serviceVars

ServiceTypeOK == TypeOK /\ AmdTypeOK /\ SchedTypeOK

-----------------------------------------------------------------------------
(* Properties *)

InvoiceTerms(inv) == [amount |-> inv.amount, due_date |-> inv.due_date]

DecidedAs(r, s, verdict) ==
  /\ r.status = "Pending"
  /\ s = [r EXCEPT !.status = verdict]

(***************************************************************************)
(* The terms of a Financed invoice change only in the step that approves a *)
(* pending amendment, to exactly what it asked for and nothing else, and   *)
(* the lender the registry goes by has principal out on the invoice at     *)
(* that time.  The registry remembers its lender for good, while the       *)
(* offers it was read from live on in two other contracts (ADR-0012).      *)
(***************************************************************************)
FinancedTermsByLender ==
  [][\A i \in InvoiceIds :
       /\ invoices[i].status = "Financed"
       /\ InvoiceTerms(invoices'[i]) # InvoiceTerms(invoices[i])
       => \E k \in DOMAIN amendments[i] :
            LET r == amendments[i][k]
            IN /\ DecidedAs(r, amendments'[i][k], "Approved")
               /\ invoices'[i] = [invoices[i] EXCEPT ![r.field] = r.value]
               /\ \E f \in OffersOn(i) : Active(f) /\ offers[f].lender = invlend'[i]
  ]_serviceVars

(***************************************************************************)
(* The list of amendments is an audit trail: entries are only added, each  *)
(* is decided at most once, and one that waits for the lender changes      *)
(* nothing (request, approve and reject address entries by position).      *)
(***************************************************************************)
AmendmentsAreATrail ==
  [][\A i \in InvoiceIds :
       /\ Len(amendments'[i]) >= Len(amendments[i])
       /\ \A k \in DOMAIN amendments[i] :
            \/ amendments'[i][k] = amendments[i][k]
            \/ DecidedAs(amendments[i][k], amendments'[i][k], "Approved")
            \/ DecidedAs(amendments[i][k], amendments'[i][k], "Rejected")
       /\ \A k \in DOMAIN amendments'[i] \ DOMAIN amendments[i] :
            amendments'[i][k].status = "Pending" =>
              invoices'[i] = invoices[i]]_serviceVars

(***************************************************************************)
(* get_installment_due names the first installment that is due by now and  *)
(* not covered by what was repaid, and none when there is no such one:     *)
(* payments of any size, amendments and a new schedule keep it in step.    *)
(* (financing 1377-1386; covered is counted in installment amounts.)       *)
(***************************************************************************)
FirstUncoveredIsDue ==
  \A f \in OfferIds :
    LET s == schedules[f]
        due == {k \in 1 .. s.count :
                  /\ s.first_due + (k - 1) * s.period <= now
                  /\ offers[f].amount_repaid < k * s.installment_amount}
    IN offers[f].status \notin {"Repaid", "Defaulted"} =>
         GetInstallmentDue(f) = (IF due = {} THEN 0 ELSE Min(due))

(***************************************************************************)
(* docs/adr/0012-lender-approval-financed-amendments.md:25, "requiring     *)
(* lender approval gives the lender complete sovereignty over whether to   *)
(* permit face-value reductions".  The originator may dispute, move the    *)
(* invoice back to Pending and lower the amount there.                     *)
(***************************************************************************)
LenderIsSovereign ==
  [][\A f \in OfferIds :
       LET i == offers[f].invoice_id
       IN Active(f) /\ invoices'[i].amount < invoices[i].amount =>
            \E k \in DOMAIN amendments[i] :
              DecidedAs(amendments[i][k], amendments'[i][k], "Approved")]_serviceVars
=============================================================================
