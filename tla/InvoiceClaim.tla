---------------------------- MODULE InvoiceClaim ----------------------------
(***************************************************************************)
(* What the registry promises about the claim an invoice embodies, with no *)
(* word of statuses, approvals, pauses or logs: a claim is issued once,    *)
(* has exactly one holder until it is settled, and is never revived.       *)
(***************************************************************************)
CONSTANTS Claims, Accounts, None

VARIABLES stage, holder

vars == <<stage, holder>>

Init ==
  /\ stage = [c \in Claims |-> "unissued"]
  /\ holder = [c \in Claims |-> None]

(* A set of new claims is issued to one account in one step.               *)
Issue(S, a) ==
  /\ \A c \in S : stage[c] = "unissued"
  /\ stage' = [c \in Claims |-> IF c \in S THEN "live" ELSE stage[c]]
  /\ holder' = [c \in Claims |-> IF c \in S THEN a ELSE holder[c]]

Trade(c, a) ==
  /\ stage[c] = "live"
  /\ holder' = [holder EXCEPT ![c] = a]
  /\ UNCHANGED stage

Settle(c) ==
  /\ stage[c] = "live"
  /\ stage' = [stage EXCEPT ![c] = "settled"]
  /\ holder' = [holder EXCEPT ![c] = None]

Next ==
  \/ \E S \in SUBSET Claims, a \in Accounts : Issue(S, a)
  \/ \E c \in Claims, a \in Accounts : Trade(c, a)
  \/ \E c \in Claims : Settle(c)

Spec == Init /\ [][Next]_vars
=============================================================================
