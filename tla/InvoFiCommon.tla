---------------------------- MODULE InvoFiCommon ----------------------------
(***************************************************************************)
(* What every InvoFi contract takes from the crate common: the invoice     *)
(* statuses, the table of legal status changes and the bounded audit log   *)
(* kept by assert_transition.  Constant-level only.                        *)
(***************************************************************************)
EXTENDS Integers, Sequences

Statuses ==
  {"Pending", "Financed", "Repaid", "Overdue", "Cancelled", "Disputed", "Defaulted"}

(* The statuses at which every entry point of the registry burns the       *)
(* invoice token.                                                          *)
Terminal == {"Repaid", "Cancelled", "Defaulted"}

Live == Statuses \ Terminal

(* Mutant: a repaid invoice may still be disputed.                         *)
ValidTransitionsReopening ==
  ({"Pending"}  \X {"Cancelled", "Financed"})
    \cup ({"Financed"} \X {"Repaid", "Financed", "Overdue", "Disputed"})
    \cup ({"Overdue"}  \X {"Defaulted"})
    \cup ({"Disputed"} \X {"Pending", "Financed", "Repaid", "Cancelled", "Defaulted"})
    \cup {<<"Repaid", "Disputed">>}

(* The match in validate_transition: the pairs (from_status, to_status).   *)
ValidTransitions ==
  ({"Pending"}  \X {"Cancelled", "Financed"})
    \cup ({"Financed"} \X {"Repaid", "Financed", "Overdue", "Disputed"})
    \cup ({"Overdue"}  \X {"Defaulted"})
    \cup ({"Disputed"} \X {"Pending", "Financed", "Repaid", "Cancelled", "Defaulted"})

(* Mutant: the newest entry makes room instead of the oldest.              *)
RecordTransitionOverNewest(log, entry, max) ==
  IF Len(log) >= max THEN Append(SubSeq(log, 1, max - 1), entry) ELSE Append(log, entry)

(* record_transition: append, then drop the oldest entry beyond max.       *)
RecordTransition(log, entry, max) ==
  IF Len(log) >= max THEN Append(Tail(log), entry) ELSE Append(log, entry)

(* Integer division as the contracts use it: operands are never negative.  *)
Bps(amount, bps, denominator) == (amount * bps) \div denominator

AtMost(a, b) == IF a <= b THEN a ELSE b
AtLeast(a, b) == IF a >= b THEN a ELSE b
=============================================================================
