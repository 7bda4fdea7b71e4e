-------------------------------- MODULE Loan --------------------------------
(***************************************************************************)
(* What registry, financing and repayment together promise about a loan,   *)
(* with no word of invoices' statuses, counters, penalties or pauses: its  *)
(* terms are fixed once it is offered, it is the only loan ever started on *)
(* its claim, it is over exactly when its principal is back, and the pool  *)
(* covers it at most once, for a default, and never beyond what it insured.*)
(*                                                                         *)
(* A claim goes astray when somebody else moves its invoice, or when its   *)
(* history outgrows what the contracts read of it; then it may carry a     *)
(* second loan and a loan on it may end early or late, but it keeps the    *)
(* rest of the promise.                                                    *)
(***************************************************************************)
EXTENDS Integers, Sequences

CONSTANTS Loans, Claims, NoTerms

VARIABLES
  loan,     \* stage, terms, start, principal returned, payouts of the pool
  astray    \* the claims left to others

vars == <<loan, astray>>

Started == {"running", "repaid", "defaulted"}

Init ==
  /\ loan = [l \in Loans |-> [stage |-> "none", terms |-> NoTerms, since |-> 0,
                              returned |-> 0, covered |-> << >>]]
  /\ astray \subseteq Claims

Offer(l, terms) ==
  /\ loan[l].stage = "none"
  /\ terms.claim \in Claims
  /\ terms.lent > 0
  /\ loan' = [loan EXCEPT ![l].stage = "offered", ![l].terms = terms]

Refuse(l) ==
  /\ loan[l].stage = "offered"
  /\ loan' = [loan EXCEPT ![l].stage = "refused"]

Start(l, time) ==
  /\ loan[l].stage = "offered"
  /\ \A k \in Loans :
       loan[k].stage \in Started /\ loan[k].terms.claim = loan[l].terms.claim =>
         loan[l].terms.claim \in astray
  /\ loan' = [loan EXCEPT ![l].stage = "running", ![l].since = time]

(* `last` ends the loan.                                                   *)
Return(l, principal, last) ==
  LET returned == loan[l].returned + principal
  IN /\ loan[l].stage = "running"
     /\ principal >= 0
     /\ \/ last <=> returned >= loan[l].terms.lent
        \/ loan[l].terms.claim \in astray
     /\ loan' = [loan EXCEPT ![l].returned = returned,
                             ![l].stage = IF last THEN "repaid" ELSE "running"]

Default(l, covered) ==
  /\ loan[l].stage = "running"
  /\ Len(covered) <= 1
  /\ \A k \in 1 .. Len(covered) :
       /\ covered[k] >= 0
       /\ loan[l].returned + covered[k] <= loan[l].terms.insured
  /\ loan' = [loan EXCEPT ![l].stage = "defaulted", ![l].covered = covered]

(* The terms, the time and the amounts are whatever the parties choose:    *)
(* they are read off the outcome.                                          *)
LoanStep(l) ==
  LET outcome == loan'[l]
  IN \/ Offer(l, outcome.terms)
     \/ Refuse(l)
     \/ Start(l, outcome.since)
     \/ \E last \in BOOLEAN : Return(l, outcome.returned - loan[l].returned, last)
     \/ Default(l, outcome.covered)

Next ==
  /\ astray \subseteq astray' /\ astray' \subseteq Claims
  /\ UNCHANGED loan \/ \E l \in Loans : LoanStep(l)

Spec == Init /\ [][Next]_vars
=============================================================================
