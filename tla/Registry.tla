------------------------------ MODULE Registry ------------------------------
(***************************************************************************)
(* The invoice registry: the invoice records and their life cycle, the     *)
(* transferable token that stands for each invoice, the blacklist, the     *)
(* pause switch and the protocol fee.                                      *)
(*                                                                         *)
(* A contract call is one atomic step: the host reverts every write of a   *)
(* call that panics, so an action is enabled exactly when the call returns *)
(* normally.  Tick moves the ledger time between two calls.  The system    *)
(* transitions financing_marks_... and repayment_marks_... are actions     *)
(* here, taken at any time by the contract registered for them; modules    *)
(* Financing and Repayment replace them by the calls those contracts make. *)
(***************************************************************************)
EXTENDS InvoFiCommon, FiniteSets

CONSTANTS
  InvoiceIds,        \* identifiers a caller may register
  Address,           \* accounts
  Nobody,            \* the absent address (None)
  Admins,            \* accounts a quorum of which the admin check accepts
  Contracts,         \* contracts whose pause switch the instance exercises
  Blacklistable,     \* bound: accounts the admins may blacklist
  Delegates,         \* bound: accounts an owner may approve
  FaceAmounts,       \* bound: amounts a caller may submit
  DueDates,          \* bound: due dates a caller may submit
  Fees,              \* bound: fees the admins may submit
  MinInvoiceAmount,  \* MIN_INVOICE_AMOUNT
  MaxFeeBps,         \* the ceiling in set_fee
  MaxHistory,        \* length of the audit log of an invoice
  MaxListed,         \* bound: times one invoice may enter one index entry
  MaxTime            \* bound: last ledger time

ASSUME RegistryAssumption ==
  /\ Nobody \notin Address
  /\ Address \cap {"registry", "financing", "repayment"} = {}
  /\ Admins \subseteq Address
  /\ Blacklistable \subseteq Address
  /\ Delegates \subseteq Address
  /\ FaceAmounts \subseteq Int
  /\ DueDates \subseteq Nat
  /\ Fees \subseteq Nat
  /\ MinInvoiceAmount \in Nat
  /\ MaxFeeBps \in Nat
  /\ MaxHistory \in Nat \ {0}
  /\ MaxListed \in Nat
  /\ MaxTime \in Nat

VARIABLES
  now,        \* env.ledger().timestamp()
  paused,     \* the contracts whose "paused" flag is set
  blacklist,  \* "blklist"
  feebps,     \* "feebps" in the registry's storage
  invoices,   \* "invoices"
  by_origin,  \* "by_origin": how often an account's index lists an invoice
  tok_own,    \* owner of an invoice token, Nobody when there is none
  tok_app,    \* account approved to move it
  tok_brn,    \* burned flag
  trn_log     \* "trn_log": transition history of an invoice

adminVars == <<paused, blacklist, feebps>>
tokVars   == <<tok_own, tok_app, tok_brn>>
regVars   == <<now, paused, blacklist, feebps, invoices, by_origin,
               tok_own, tok_app, tok_brn, trn_log>>

-----------------------------------------------------------------------------
(* Types *)

(* The accounts and contracts that can be named as actor of a transition.  *)
Actors == Address \cup {"registry", "financing", "repayment"}

Invoice == [status     : Statuses \cup {"Absent"},
            originator : Address \cup {Nobody},
            amount     : Int,
            due_date   : Nat]

(* The value of an identifier that is not a key of the invoices map.       *)
AbsentInvoice ==
  [status |-> "Absent", originator |-> Nobody, amount |-> 0, due_date |-> 0]

TransitionRecord == [from : Statuses, to : Statuses, actor : Actors]

RegTypeOK ==
  /\ now \in 0 .. MaxTime
  /\ paused \subseteq Contracts
  /\ blacklist \subseteq Blacklistable
  /\ feebps \in 0 .. MaxFeeBps
  /\ invoices \in [InvoiceIds -> Invoice]
  /\ by_origin \in [Address -> [InvoiceIds -> Nat]]
  /\ tok_own \in [InvoiceIds -> Address \cup {Nobody}]
  /\ tok_app \in [InvoiceIds -> Address \cup {Nobody}]
  /\ tok_brn \in [InvoiceIds -> BOOLEAN]
  /\ trn_log \in [InvoiceIds -> Seq(TransitionRecord)]

RegInit ==
  /\ now = 0
  /\ paused = {}
  /\ blacklist = {}
  /\ feebps = 0
  /\ invoices = [i \in InvoiceIds |-> AbsentInvoice]
  /\ by_origin = [a \in Address |-> [i \in InvoiceIds |-> 0]]
  /\ tok_own = [i \in InvoiceIds |-> Nobody]
  /\ tok_app = [i \in InvoiceIds |-> Nobody]
  /\ tok_brn = [i \in InvoiceIds |-> FALSE]
  /\ trn_log = [i \in InvoiceIds |-> << >>]

-----------------------------------------------------------------------------
(* Shared pieces of the entry points *)

NotPaused(contract) == contract \notin paused

Registered(i) == invoices[i].status # "Absent"

(* assert_transition followed by the write of the new status: every entry  *)
(* point that changes a status does both, in this order.                   *)
MoveStatus(i, to, actor) ==
  /\ <<invoices[i].status, to>> \in ValidTransitions
  /\ invoices' = [invoices EXCEPT ![i].status = to]
  /\ trn_log' = [trn_log EXCEPT ![i] =
       RecordTransition(@, [from |-> invoices[i].status, to |-> to, actor |-> actor],
                        MaxHistory)]

(* burn_invoice_token_if_exists                                            *)
BurnToken(i) ==
  IF tok_brn[i] \/ tok_own[i] = Nobody
  THEN UNCHANGED tokVars
  ELSE /\ tok_app' = [tok_app EXCEPT ![i] = Nobody]
       /\ tok_own' = [tok_own EXCEPT ![i] = Nobody]
       /\ tok_brn' = [tok_brn EXCEPT ![i] = TRUE]

BurnTokenIf(settled, i) == IF settled THEN BurnToken(i) ELSE UNCHANGED tokVars

-----------------------------------------------------------------------------
(* Registration *)

(* batch_register_invoices: one bad argument reverts the whole batch.      *)
BatchRegisterInvoices(o, args) ==
  LET ids == DOMAIN args
  IN /\ NotPaused("registry")
     /\ o \notin blacklist
     /\ \A i \in ids : /\ ~Registered(i)
                       /\ args[i].amount >= MinInvoiceAmount
                       /\ args[i].due_date > now
     /\ invoices' = [i \in InvoiceIds |->
          IF i \in ids
          THEN [status |-> "Pending", originator |-> o,
                amount |-> args[i].amount, due_date |-> args[i].due_date]
          ELSE invoices[i]]
     /\ by_origin' = [by_origin EXCEPT ![o] =
          [i \in InvoiceIds |-> IF i \in ids THEN @[i] + 1 ELSE @[i]]]
     /\ tok_own' = [i \in InvoiceIds |-> IF i \in ids THEN o ELSE tok_own[i]]
     /\ UNCHANGED <<now, adminVars, tok_app, tok_brn, trn_log>>

(* register_invoice                                                        *)
RegisterInvoice(o, i, amount, due_date) ==
  BatchRegisterInvoices(o, [j \in {i} |-> [amount |-> amount, due_date |-> due_date]])

-----------------------------------------------------------------------------
(* Entry points of the originator *)

(* update_invoice_status: any pair of the transition table.                *)
UpdateInvoiceStatus(o, i, to) ==
  /\ NotPaused("registry")
  /\ invoices[i].originator = o
  /\ MoveStatus(i, to, o)
  /\ BurnTokenIf(to \in {"Cancelled", "Repaid", "Defaulted"}, i)
  /\ UNCHANGED <<now, adminVars, by_origin>>

UpdateInvoiceAmount(o, i, amount) ==
  /\ NotPaused("registry")
  /\ invoices[i].originator = o
  /\ invoices[i].status = "Pending"
  /\ amount >= MinInvoiceAmount
  /\ invoices' = [invoices EXCEPT ![i].amount = amount]
  /\ UNCHANGED <<now, adminVars, by_origin, tokVars, trn_log>>

(* Mutant: the token outlives the cancelled invoice.                       *)
CancelInvoiceKeepingToken(o, i) ==
  /\ NotPaused("registry")
  /\ invoices[i].originator = o
  /\ MoveStatus(i, "Cancelled", o)
  /\ UNCHANGED <<now, adminVars, by_origin, tokVars>>

CancelInvoice(o, i) ==
  /\ NotPaused("registry")
  /\ invoices[i].originator = o
  /\ MoveStatus(i, "Cancelled", o)
  /\ BurnToken(i)
  /\ UNCHANGED <<now, adminVars, by_origin>>

RaiseDispute(o, i) ==
  /\ NotPaused("registry")
  /\ invoices[i].originator = o
  /\ MoveStatus(i, "Disputed", o)
  /\ UNCHANGED <<now, adminVars, by_origin, tokVars>>

(* set_invoice_repaid_status: the repayer is any account.                  *)
SetInvoiceRepaidStatus(repayer, i, fully_repaid) ==
  /\ NotPaused("registry")
  /\ MoveStatus(i, IF fully_repaid THEN "Repaid" ELSE "Financed", repayer)
  /\ BurnTokenIf(fully_repaid, i)
  /\ UNCHANGED <<now, adminVars, by_origin>>

-----------------------------------------------------------------------------
(* System transitions, called by the registered contracts, and the keeper  *)

FinancingMarksInvoiceFinanced(i) ==
  /\ NotPaused("registry")
  /\ MoveStatus(i, "Financed", "financing")
  /\ UNCHANGED <<now, adminVars, by_origin, tokVars>>

RepaymentMarksInvoiceRepaid(i, fully_repaid) ==
  /\ NotPaused("registry")
  /\ MoveStatus(i, IF fully_repaid THEN "Repaid" ELSE "Financed", "repayment")
  /\ BurnTokenIf(fully_repaid, i)
  /\ UNCHANGED <<now, adminVars, by_origin>>

(* Mutant: the token outlives the default.                                 *)
RepaymentMarksDefaultedKeepingToken(i) ==
  /\ NotPaused("registry")
  /\ MoveStatus(i, "Defaulted", "repayment")
  /\ UNCHANGED <<now, adminVars, by_origin, tokVars>>

RepaymentMarksDefaulted(i) ==
  /\ NotPaused("registry")
  /\ MoveStatus(i, "Defaulted", "repayment")
  /\ BurnToken(i)
  /\ UNCHANGED <<now, adminVars, by_origin>>

(* mark_invoice_overdue: anyone may call it after the due date.            *)
MarkInvoiceOverdue(i) ==
  /\ NotPaused("registry")
  /\ now > invoices[i].due_date
  /\ MoveStatus(i, "Overdue", "registry")
  /\ UNCHANGED <<now, adminVars, by_origin, tokVars>>

-----------------------------------------------------------------------------
(* Administration.  s is the first of the signers whose quorum is checked. *)

(* resolve_dispute: the current status is checked by the table alone.      *)
ResolveDispute(s, i, target) ==
  /\ NotPaused("registry")
  /\ s \in Admins
  /\ target # "Disputed"
  /\ MoveStatus(i, target, s)
  /\ BurnTokenIf(target \in {"Cancelled", "Repaid", "Defaulted"}, i)
  /\ UNCHANGED <<now, adminVars, by_origin>>

BlacklistAddress(a) ==
  /\ NotPaused("registry")
  /\ blacklist' = blacklist \cup {a}
  /\ UNCHANGED <<now, paused, feebps, invoices, by_origin, tokVars, trn_log>>

UnblacklistAddress(a) ==
  /\ NotPaused("registry")
  /\ blacklist' = blacklist \ {a}
  /\ UNCHANGED <<now, paused, feebps, invoices, by_origin, tokVars, trn_log>>

SetFee(fee) ==
  /\ NotPaused("registry")
  /\ fee <= MaxFeeBps
  /\ feebps' = fee
  /\ UNCHANGED <<now, paused, blacklist, invoices, by_origin, tokVars, trn_log>>

(* pause and unpause have the same code in each contract; neither looks    *)
(* at the flag.                                                            *)
Pause(contract) ==
  /\ paused' = paused \cup {contract}
  /\ UNCHANGED <<now, blacklist, feebps, invoices, by_origin, tokVars, trn_log>>

Unpause(contract) ==
  /\ paused' = paused \ {contract}
  /\ UNCHANGED <<now, blacklist, feebps, invoices, by_origin, tokVars, trn_log>>

-----------------------------------------------------------------------------
(* The invoice token *)

(* Mutant: the approval given by the seller survives the trade.            *)
ExecuteTokenTransferKeepingApproval(from, to, i) ==
  /\ NotPaused("registry")
  /\ {from, to} \cap blacklist = {}
  /\ from # to
  /\ ~tok_brn[i]
  /\ tok_own[i] = from
  /\ by_origin[to][i] < MaxListed
  /\ invoices' = [invoices EXCEPT ![i].originator = to]
  /\ by_origin' = [by_origin EXCEPT ![to][i] = @ + 1]
  /\ tok_own' = [tok_own EXCEPT ![i] = to]
  /\ UNCHANGED <<now, adminVars, tok_app, tok_brn, trn_log>>

(* execute_token_transfer: the new owner becomes the originator of record. *)
ExecuteTokenTransfer(from, to, i) ==
  /\ NotPaused("registry")
  /\ from \notin blacklist
  /\ to \notin blacklist
  /\ from # to
  /\ ~tok_brn[i]
  /\ tok_own[i] = from
  /\ by_origin[to][i] < MaxListed
  /\ invoices' = [invoices EXCEPT ![i].originator = to]
  /\ by_origin' = [by_origin EXCEPT ![to][i] = @ + 1]
  /\ tok_own' = [tok_own EXCEPT ![i] = to]
  /\ tok_app' = [tok_app EXCEPT ![i] = Nobody]
  /\ UNCHANGED <<now, adminVars, tok_brn, trn_log>>

(* transfer: an approved delegate passes itself as `from`.                 *)
Transfer(caller, to, i) ==
  /\ tok_own[i] # Nobody
  /\ ExecuteTokenTransfer(IF tok_app[i] = caller THEN tok_own[i] ELSE caller, to, i)

TransferFrom(spender, from, to, i) ==
  /\ tok_own[i] = from
  /\ spender \in {tok_app[i], tok_own[i]}
  /\ ExecuteTokenTransfer(from, to, i)

Approve(approver, i) ==
  /\ NotPaused("registry")
  /\ ~tok_brn[i]
  /\ tok_own[i] # Nobody
  /\ approver \notin blacklist
  /\ tok_app' = [tok_app EXCEPT ![i] = approver]
  /\ UNCHANGED <<now, adminVars, invoices, by_origin, tok_own, tok_brn, trn_log>>

(* set_token_approval with Some(approved) or None.                         *)
SetTokenApproval(owner, approved, i) ==
  /\ NotPaused("registry")
  /\ ~tok_brn[i]
  /\ tok_own[i] = owner
  /\ approved \notin blacklist
  /\ tok_app' = [tok_app EXCEPT ![i] = approved]
  /\ UNCHANGED <<now, adminVars, invoices, by_origin, tok_own, tok_brn, trn_log>>

-----------------------------------------------------------------------------
(* The ledger closes with a later timestamp.                               *)
Tick ==
  /\ now < MaxTime
  /\ now' = now + 1
  /\ UNCHANGED <<adminVars, invoices, by_origin, tokVars, trn_log>>

RegistrationArgs == [amount : FaceAmounts, due_date : DueDates]

OriginatorNext ==
  \E o \in Address, i \in InvoiceIds :
    \/ \E amount \in FaceAmounts, due_date \in DueDates :
         RegisterInvoice(o, i, amount, due_date)
    \/ \E to \in Statuses : UpdateInvoiceStatus(o, i, to)
    \/ \E amount \in FaceAmounts : UpdateInvoiceAmount(o, i, amount)
    \/ CancelInvoice(o, i)
    \/ RaiseDispute(o, i)
    \/ \E full \in BOOLEAN : SetInvoiceRepaidStatus(o, i, full)

BatchNext ==
  \E o \in Address, ids \in SUBSET InvoiceIds :
    \E args \in [ids -> RegistrationArgs] : BatchRegisterInvoices(o, args)

TokenNext ==
  \E a, b \in Address, i \in InvoiceIds :
    \/ Transfer(a, b, i)
    \/ \E spender \in Address : TransferFrom(spender, a, b, i)
    \/ b \in Delegates /\ Approve(b, i)
    \/ \E approved \in Delegates \cup {Nobody} : SetTokenApproval(a, approved, i)

AdminNext ==
  \/ \E s \in Admins, i \in InvoiceIds, to \in Statuses : ResolveDispute(s, i, to)
  \/ \E a \in Blacklistable : BlacklistAddress(a) \/ UnblacklistAddress(a)
  \/ \E fee \in Fees : SetFee(fee)
  \/ \E c \in Contracts : Pause(c) \/ Unpause(c)

KeeperNext == \E i \in InvoiceIds : MarkInvoiceOverdue(i)

SystemNext ==
  \E i \in InvoiceIds :
    \/ FinancingMarksInvoiceFinanced(i)
    \/ \E full \in BOOLEAN : RepaymentMarksInvoiceRepaid(i, full)
    \/ RepaymentMarksDefaulted(i)

(* Everything the registry does without being called by another contract.  *)
RegUserNext ==
  Tick \/ OriginatorNext \/ BatchNext \/ TokenNext \/ AdminNext \/ KeeperNext

RegNext == RegUserNext \/ SystemNext

RegSpec == RegInit /\ [][RegNext]_regVars
-----------------------------------------------------------------------------
(* Properties *)

(***************************************************************************)
(* The token and the record agree: a live invoice has exactly one holder,  *)
(* its originator of record, and an unburned token; any other has neither  *)
(* holder nor approval, and its token is burned exactly when the invoice   *)
(* is settled.  Every entry point writes invoice and token separately.     *)
(***************************************************************************)
ClaimIntegrity ==
  \A i \in InvoiceIds :
    /\ invoices[i].status \in Live =>
         /\ tok_own[i] \in Address
         /\ tok_own[i] = invoices[i].originator
         /\ ~tok_brn[i]
    /\ invoices[i].status \notin Live =>
         /\ tok_own[i] = Nobody
         /\ tok_app[i] = Nobody
         /\ tok_brn[i] <=> invoices[i].status \in Terminal

(***************************************************************************)
(* The transition history is an account of the status without gaps: each   *)
(* entry starts where the one before ended, the last one ends at the       *)
(* current status, and eviction never breaks that (assert_transition is    *)
(* the only writer, record_transition drops from the front).               *)
(***************************************************************************)
AuditTrail ==
  \A i \in InvoiceIds :
    LET log == trn_log[i]
    IN /\ Len(log) <= MaxHistory
       /\ \A k \in 1 .. Len(log) : <<log[k].from, log[k].to>> \in ValidTransitions
       /\ \A k \in 1 .. Len(log) - 1 : log[k].to = log[k + 1].from
       /\ IF log = << >> THEN invoices[i].status \in {"Absent", "Pending"}
                         ELSE invoices[i].status = log[Len(log)].to

(***************************************************************************)
(* Paging through an account's index finds every invoice it holds now,     *)
(* however often invoices changed hands (get_originator_page).             *)
(***************************************************************************)
IndexCoversHolders ==
  \A i \in InvoiceIds :
    Registered(i) => by_origin[invoices[i].originator][i] >= 1

(***************************************************************************)
(* A settled invoice is settled for good: no sequence of calls, admin      *)
(* overrides included, changes its record, its token or its history.       *)
(***************************************************************************)
SettledForever ==
  [][\A i \in InvoiceIds : invoices[i].status \in Terminal =>
       /\ invoices'[i] = invoices[i]
       /\ tok_own'[i] = tok_own[i]
       /\ tok_app'[i] = tok_app[i]
       /\ tok_brn'[i] = tok_brn[i]
       /\ trn_log'[i] = trn_log[i]]_regVars

(***************************************************************************)
(* A live token changes hands only between two accounts that are not       *)
(* blacklisted, the approval does not outlive the trade (the delegate of   *)
(* the seller has no power over the buyer's token), and of the invoice     *)
(* only the originator of record changes (execute_token_transfer).         *)
(***************************************************************************)
TradeDiscipline ==
  [][\A i \in InvoiceIds :
       (tok_own[i] # Nobody /\ tok_own'[i] \notin {Nobody, tok_own[i]}) =>
         /\ {tok_own[i], tok_own'[i]} \cap blacklist = {}
         /\ tok_app'[i] = Nobody
         /\ invoices'[i] = [invoices[i] EXCEPT !.originator = tok_own'[i]]]_regVars

(* The promise made to holders: module InvoiceClaim, with the stage read   *)
(* off the invoice records and the holder off the token table.             *)
ClaimStage ==
  [i \in InvoiceIds |->
     IF invoices[i].status = "Absent" THEN "unissued"
     ELSE IF invoices[i].status \in Terminal THEN "settled" ELSE "live"]

Claim == INSTANCE InvoiceClaim
           WITH Claims <- InvoiceIds, Accounts <- Address, None <- Nobody,
                stage <- ClaimStage, holder <- tok_own

(***************************************************************************)
(* The registry implements InvoiceClaim: a claim is issued once, to one    *)
(* holder, moves only by a trade of a live claim, and vanishes in the very *)
(* step that settles its invoice.                                          *)
(***************************************************************************)
ImplementsClaim == Claim!Spec
=============================================================================
