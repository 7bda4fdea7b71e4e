------------------------------ MODULE Schedules -----------------------------
(***************************************************************************)
(* Advisory installment schedules of the financing contract (ADR-0006):    *)
(* lender or originator attaches one to an offer that is still live, and   *)
(* get_installment_due tells keepers which installment to ask for.         *)
(***************************************************************************)
EXTENDS Financing

CONSTANTS
  Frequencies,    \* ScheduleFrequency
  PeriodSecs,     \* period_secs of a frequency
  RateUnit,       \* 10_000
  MaxCount,       \* 1_200
  InstallmentCounts,         \* bound: numbers of installments a caller may submit
  FirstDues,      \* bound: first due dates a caller may submit
  Scheduled       \* bound: offers a caller schedules

ASSUME ScheduleAssumption ==
  /\ PeriodSecs \in [Frequencies -> Nat \ {0}]
  /\ RateUnit \in Nat \ {0}
  /\ MaxCount \in Nat \ {0}
  /\ InstallmentCounts \subseteq Nat
  /\ FirstDues \subseteq Nat
  /\ Scheduled \subseteq OfferIds

VARIABLE schedules   \* "schedules"

NoSchedule ==
  [count |-> 0, period |-> 1, installment_amount |-> 0, first_due |-> 0]

RepaymentSchedule == [count              : 0 .. MaxCount,
                      period             : Nat \ {0},
                      installment_amount : Nat,
                      first_due          : Nat]

SchedTypeOK == schedules \in [OfferIds -> RepaymentSchedule]

SchedInit == schedules = [f \in OfferIds |-> NoSchedule]

-----------------------------------------------------------------------------
InstallmentAmount(o, count) ==
  LET principal == o.amount \div count
  IN principal + Bps(principal, o.interest_rate, RateUnit)

(* schedule_repayment: overwrites an earlier schedule.                     *)
ScheduleRepayment(c, f, frequency, count, first_due) ==
  LET o == offers[f]
  IN /\ NotPaused("financing")
     /\ count \in 1 .. MaxCount
     /\ first_due > now
     /\ o.status \notin {"Absent", "Rejected", "Repaid", "Defaulted"}
     /\ c \in {o.lender, invoices[o.invoice_id].originator}
     /\ InstallmentAmount(o, count) > 0
     /\ schedules' = [schedules EXCEPT ![f] =
          [count |-> count, period |-> PeriodSecs[frequency],
           installment_amount |-> InstallmentAmount(o, count), first_due |-> first_due]]
     /\ UNCHANGED <<regVars, finVars>>

(* Mutant: the first installment counts as elapsed a period late.          *)
ElapsedInstallmentsLate(s) == AtMost((now - s.first_due) \div s.period, s.count)

(* Installments whose due time has come; the first is due at first_due.    *)
ElapsedInstallments(s) == AtMost((now - s.first_due) \div s.period + 1, s.count)

(* get_installment_due: 0 when nothing is due.                             *)
GetInstallmentDue(f) ==
  LET s == schedules[f]
      covered == offers[f].amount_repaid \div s.installment_amount
  IN IF \/ s.count = 0
        \/ offers[f].status \in {"Repaid", "Defaulted"}
        \/ now < s.first_due
        \/ covered >= ElapsedInstallments(s)
     THEN 0
     ELSE covered + 1

SchedNext ==
  \E c \in Address, f \in Scheduled, q \in Frequencies, n \in InstallmentCounts, d \in FirstDues :
    ScheduleRepayment(c, f, q, n, d)
=============================================================================
