----------------------------- MODULE MCProtocol -----------------------------
(* Instances of Protocol for TLC.                                          *)
EXTENDS Protocol, TLC

CONSTANTS alice, bob, inv1, off1, off2

Accounts2 == {alice, bob}

SomePenalty == {<<1, 10>>, <<6, 10>>}

(* Constraint of the liveness run, which is about invoices that nobody     *)
(* moved by hand: once touched, an invoice stays touched.                  *)
(* FundedInvoiceSettles holds in every state it cuts off, so no            *)
(* counterexample is lost behind it.                                       *)
OnePauseAtATime == (\A i \in InvoiceIds : SystemOnly(i)) /\ Cardinality(paused) <= 1

OfferSymmetry == Permutations(OfferIds)
=============================================================================
