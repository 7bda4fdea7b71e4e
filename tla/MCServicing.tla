---------------------------- MODULE MCServicing -----------------------------
(* Instances of Servicing for TLC.                                         *)
EXTENDS Servicing, TLC

CONSTANTS alice, bob, inv1, off1, off2

Accounts2 == {alice, bob}

NoPenalty == {<<0, 0>>}

(* Constraint: neither of the two extensions reads what the other writes,  *)
(* so they are followed one at a time: one offer with a schedule, and the  *)
(* amendments while the invoice takes or may again take them, before its   *)
(* first installment, which no amendment reads.                            *)
AmendedOrScheduled ==
  \/ /\ \A i \in InvoiceIds : amendments[i] = << >> /\ invlend[i] = Nobody
     /\ \E f \in OfferIds : \A g \in OfferIds \ {f} : schedules[g] = NoSchedule
  \/ /\ \A f \in OfferIds : schedules[f] = NoSchedule
     /\ \A i \in InvoiceIds :
          /\ invoices[i].status \in {"Absent", "Pending", "Financed", "Disputed"}
          /\ pays[i].count = 0

OfferSymmetry == Permutations(OfferIds)

Periods == [q \in {"Daily", "Weekly"} |-> IF q = "Daily" THEN 1 ELSE 2]

=============================================================================
