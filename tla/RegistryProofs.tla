--------------------------- MODULE RegistryProofs ---------------------------
(***************************************************************************)
(* Proofs about Registry for all values of its constants.                  *)
(*                                                                         *)
(* The registry has some twenty actions, but they write the records of an  *)
(* invoice in five ways only.  StepKinds reduces a step to these five and  *)
(* every property is proved over them.                                     *)
(***************************************************************************)
EXTENDS Registry, TLAPS

-----------------------------------------------------------------------------
(* The kinds of step *)

(* Every field a property below speaks of stays as it is.                  *)
QuietStep ==
  /\ UNCHANGED <<invoices, by_origin, tokVars, trn_log>>
  /\ now' \in now .. MaxTime
  /\ paused' \subseteq Contracts
  /\ blacklist' \subseteq Blacklistable
  /\ feebps' \in 0 .. MaxFeeBps
  /\ NotPaused("registry") \/ UNCHANGED <<blacklist, feebps>>

(* New invoices, with a token each, for one account.                       *)
RegisterStep ==
  \E o \in Address, ids \in SUBSET InvoiceIds :
    \E args \in [ids -> RegistrationArgs] : BatchRegisterInvoices(o, args)

StatusStep(i, to, actor) ==
  /\ NotPaused("registry")
  /\ MoveStatus(i, to, actor)
  /\ BurnTokenIf(to \in Terminal, i)
  /\ UNCHANGED <<now, adminVars, by_origin>>

AmountStep(i, amount) ==
  /\ NotPaused("registry")
  /\ invoices[i].status = "Pending"
  /\ invoices' = [invoices EXCEPT ![i].amount = amount]
  /\ UNCHANGED <<now, adminVars, by_origin, tokVars, trn_log>>

TradeStep(i, to) ==
  /\ tok_own[i] \in Address
  /\ ExecuteTokenTransfer(tok_own[i], to, i)

ApproveStep(i, approved) ==
  /\ NotPaused("registry")
  /\ tok_own[i] \in Address
  /\ tok_app' = [tok_app EXCEPT ![i] = approved]
  /\ UNCHANGED <<now, adminVars, invoices, by_origin, tok_own, tok_brn, trn_log>>

InvoiceStep(i) ==
  \/ \E to \in Statuses, actor \in Actors : StatusStep(i, to, actor)
  \/ \E amount \in Int : AmountStep(i, amount)
  \/ \E to \in Address : TradeStep(i, to)
  \/ \E approved \in Address \cup {Nobody} : ApproveStep(i, approved)

LEMMA TransitionFacts ==
  ASSUME NEW from, NEW to, <<from, to>> \in ValidTransitions
  PROVE  from \in Live /\ to \in Statuses
  BY DEF ValidTransitions, Live, Statuses, Terminal

LEMMA LiveFacts ==
  /\ Live \cap Terminal = {}
  /\ Statuses = Live \cup Terminal
  /\ "Absent" \notin Statuses
  /\ "Pending" \in Live
  BY DEF Live, Terminal, Statuses

LEMMA TerminalIsBurned == Terminal = {"Cancelled", "Repaid", "Defaulted"}
  BY DEF Terminal

(* Every step of the registry is one of the kinds.                         *)
LEMMA StepKinds ==
  ASSUME RegTypeOK, RegNext
  PROVE  QuietStep \/ RegisterStep \/ \E i \in InvoiceIds : InvoiceStep(i)
<1> USE DEF RegTypeOK
<1>1. CASE Tick
  BY <1>1, RegistryAssumption DEF Tick, QuietStep, adminVars
<1>2. CASE OriginatorNext
  <2> SUFFICES ASSUME NEW o \in Address, NEW i \in InvoiceIds,
                      \/ \E amount \in FaceAmounts, due_date \in DueDates :
                           RegisterInvoice(o, i, amount, due_date)
                      \/ \E to \in Statuses : UpdateInvoiceStatus(o, i, to)
                      \/ \E amount \in FaceAmounts : UpdateInvoiceAmount(o, i, amount)
                      \/ CancelInvoice(o, i)
                      \/ RaiseDispute(o, i)
                      \/ \E full \in BOOLEAN : SetInvoiceRepaidStatus(o, i, full)
               PROVE  RegisterStep \/ InvoiceStep(i)
    BY <1>2 DEF OriginatorNext
  <2>0. o \in Actors
    BY DEF Actors
  <2>1. ASSUME NEW amount \in FaceAmounts, NEW due_date \in DueDates,
               RegisterInvoice(o, i, amount, due_date)
        PROVE  RegisterStep
    <3> DEFINE args == [j \in {i} |-> [amount |-> amount, due_date |-> due_date]]
    <3>1. args \in [{i} -> RegistrationArgs]
      BY DEF RegistrationArgs
    <3>2. BatchRegisterInvoices(o, args)
      BY <2>1 DEF RegisterInvoice
    <3> HIDE DEF args
    <3> QED BY <3>1, <3>2 DEF RegisterStep
  <2>2. ASSUME NEW to \in Statuses, UpdateInvoiceStatus(o, i, to)
        PROVE  StatusStep(i, to, o)
    BY <2>2, TerminalIsBurned DEF UpdateInvoiceStatus, StatusStep
  <2>3. ASSUME NEW amount \in FaceAmounts, UpdateInvoiceAmount(o, i, amount)
        PROVE  amount \in Int /\ AmountStep(i, amount)
    BY <2>3, RegistryAssumption DEF UpdateInvoiceAmount, AmountStep
  <2>4. ASSUME CancelInvoice(o, i) PROVE StatusStep(i, "Cancelled", o)
    BY <2>4 DEF CancelInvoice, StatusStep, BurnTokenIf, Terminal
  <2>5. ASSUME RaiseDispute(o, i) PROVE StatusStep(i, "Disputed", o)
    BY <2>5 DEF RaiseDispute, StatusStep, BurnTokenIf, Terminal
  <2>6. ASSUME NEW full \in BOOLEAN, SetInvoiceRepaidStatus(o, i, full)
        PROVE  StatusStep(i, IF full THEN "Repaid" ELSE "Financed", o)
    BY <2>6 DEF SetInvoiceRepaidStatus, StatusStep, BurnTokenIf, Terminal
  <2> QED
    BY <2>0, <2>1, <2>2, <2>3, <2>4, <2>5, <2>6 DEF InvoiceStep, Statuses
<1>3. CASE BatchNext
  BY <1>3 DEF BatchNext, RegisterStep
<1>4. CASE TokenNext
  <2> SUFFICES ASSUME NEW a \in Address, NEW b \in Address, NEW i \in InvoiceIds,
                      \/ Transfer(a, b, i)
                      \/ \E spender \in Address : TransferFrom(spender, a, b, i)
                      \/ b \in Delegates /\ Approve(b, i)
                      \/ \E approved \in Delegates \cup {Nobody} :
                           SetTokenApproval(a, approved, i)
               PROVE  InvoiceStep(i)
    BY <1>4 DEF TokenNext
  <2>1. ASSUME Transfer(a, b, i) PROVE TradeStep(i, b)
    BY <2>1 DEF Transfer, TradeStep, ExecuteTokenTransfer
  <2>2. ASSUME NEW spender \in Address, TransferFrom(spender, a, b, i)
        PROVE  TradeStep(i, b)
    BY <2>2 DEF TransferFrom, TradeStep
  <2>3. ASSUME Approve(b, i) PROVE ApproveStep(i, b)
    BY <2>3 DEF Approve, ApproveStep
  <2>4. ASSUME NEW approved \in Delegates \cup {Nobody}, SetTokenApproval(a, approved, i)
        PROVE  approved \in Address \cup {Nobody} /\ ApproveStep(i, approved)
    BY <2>4, RegistryAssumption DEF SetTokenApproval, ApproveStep
  <2> QED
    BY <2>1, <2>2, <2>3, <2>4 DEF InvoiceStep
<1>5. CASE AdminNext
  <2>1. ASSUME NEW s \in Admins, NEW i \in InvoiceIds, NEW to \in Statuses,
               ResolveDispute(s, i, to)
        PROVE  InvoiceStep(i)
    <3>1. s \in Actors
      BY RegistryAssumption DEF Actors
    <3>2. StatusStep(i, to, s)
      BY <2>1, TerminalIsBurned DEF ResolveDispute, StatusStep
    <3> QED BY <3>1, <3>2 DEF InvoiceStep
  <2>2. ASSUME NEW a \in Blacklistable, BlacklistAddress(a) \/ UnblacklistAddress(a)
        PROVE  QuietStep
    BY <2>2 DEF BlacklistAddress, UnblacklistAddress, QuietStep, NotPaused, tokVars
  <2>3. ASSUME NEW fee \in Fees, SetFee(fee)
        PROVE  QuietStep
    BY <2>3, RegistryAssumption DEF SetFee, QuietStep, NotPaused, tokVars
  <2>4. ASSUME NEW c \in Contracts, Pause(c) \/ Unpause(c)
        PROVE  QuietStep
    BY <2>4 DEF Pause, Unpause, QuietStep, NotPaused, tokVars
  <2> QED BY <1>5, <2>1, <2>2, <2>3, <2>4 DEF AdminNext
<1>6. CASE KeeperNext
  <2> SUFFICES ASSUME NEW i \in InvoiceIds, MarkInvoiceOverdue(i)
               PROVE  StatusStep(i, "Overdue", "registry")
    BY <1>6 DEF KeeperNext, InvoiceStep, Statuses, Actors
  <2> QED BY DEF MarkInvoiceOverdue, StatusStep, BurnTokenIf, Terminal
<1>7. CASE SystemNext
  <2> SUFFICES ASSUME NEW i \in InvoiceIds,
                      \/ FinancingMarksInvoiceFinanced(i)
                      \/ \E full \in BOOLEAN : RepaymentMarksInvoiceRepaid(i, full)
                      \/ RepaymentMarksDefaulted(i)
               PROVE  InvoiceStep(i)
    BY <1>7 DEF SystemNext
  <2>1. ASSUME FinancingMarksInvoiceFinanced(i)
        PROVE  StatusStep(i, "Financed", "financing")
    BY <2>1 DEF FinancingMarksInvoiceFinanced, StatusStep, BurnTokenIf, Terminal
  <2>2. ASSUME NEW full \in BOOLEAN, RepaymentMarksInvoiceRepaid(i, full)
        PROVE  StatusStep(i, IF full THEN "Repaid" ELSE "Financed", "repayment")
    BY <2>2 DEF RepaymentMarksInvoiceRepaid, StatusStep, BurnTokenIf, Terminal
  <2>3. ASSUME RepaymentMarksDefaulted(i)
        PROVE  StatusStep(i, "Defaulted", "repayment")
    BY <2>3 DEF RepaymentMarksDefaulted, StatusStep, BurnTokenIf, Terminal
  <2> QED BY <2>1, <2>2, <2>3 DEF InvoiceStep, Statuses, Actors
<1> QED
  BY <1>1, <1>2, <1>3, <1>4, <1>5, <1>6, <1>7 DEF RegNext, RegUserNext

-----------------------------------------------------------------------------
(* Type correctness *)

(* Appending to the history keeps it a sequence of records.                *)
LEMMA RecordTransitionType ==
  ASSUME NEW T, NEW log \in Seq(T), NEW entry \in T, NEW max \in Nat \ {0}
  PROVE  RecordTransition(log, entry, max) \in Seq(T)
<1>1. CASE Len(log) >= max
  <2>1. log # << >>
    BY <1>1
  <2>2. Tail(log) \in Seq(T)
    BY <2>1
  <2> QED BY <1>1, <2>2 DEF RecordTransition
<1>2. CASE ~(Len(log) >= max)
  BY <1>2 DEF RecordTransition
<1> QED BY <1>1, <1>2

(* The type invariant of the five kinds of step, one lemma for the writes  *)
(* of a status change.                                                     *)
LEMMA StatusStepType ==
  ASSUME RegTypeOK, NEW i \in InvoiceIds, NEW to \in Statuses, NEW actor \in Actors,
         StatusStep(i, to, actor)
  PROVE  RegTypeOK'
<1> USE DEF RegTypeOK
<1> DEFINE entry == [from |-> invoices[i].status, to |-> to, actor |-> actor]
<1>1. invoices[i].status \in Statuses
  BY TransitionFacts, LiveFacts DEF StatusStep, MoveStatus
<1>2. entry \in TransitionRecord
  BY <1>1 DEF TransitionRecord
<1>3. RecordTransition(trn_log[i], entry, MaxHistory) \in Seq(TransitionRecord)
  BY <1>2, RecordTransitionType, RegistryAssumption
<1>4. trn_log' = [trn_log EXCEPT ![i] = RecordTransition(trn_log[i], entry, MaxHistory)]
  BY DEF StatusStep, MoveStatus
<1> HIDE DEF entry
<1>5. trn_log' \in [InvoiceIds -> Seq(TransitionRecord)]
  BY <1>3, <1>4
<1>6. invoices' \in [InvoiceIds -> Invoice]
  <2>1. [invoices[i] EXCEPT !.status = to] \in Invoice
    BY DEF Invoice
  <2>2. invoices' = [invoices EXCEPT ![i] = [invoices[i] EXCEPT !.status = to]]
    BY DEF StatusStep, MoveStatus
  <2> QED BY <2>1, <2>2
<1>7. /\ tok_own' \in [InvoiceIds -> Address \cup {Nobody}]
      /\ tok_app' \in [InvoiceIds -> Address \cup {Nobody}]
      /\ tok_brn' \in [InvoiceIds -> BOOLEAN]
  BY DEF StatusStep, BurnTokenIf, BurnToken, tokVars
<1> QED BY <1>5, <1>6, <1>7 DEF StatusStep, adminVars

LEMMA RegisterStepType ==
  ASSUME RegTypeOK, RegisterStep
  PROVE  RegTypeOK'
<1> USE DEF RegTypeOK
<1>1. PICK o \in Address, ids \in SUBSET InvoiceIds :
        \E args \in [ids -> RegistrationArgs] : BatchRegisterInvoices(o, args)
  BY DEF RegisterStep
<1>2. PICK args \in [ids -> RegistrationArgs] : BatchRegisterInvoices(o, args)
  BY <1>1
<1>3. DOMAIN args = ids
  BY <1>2
<1>4. \A i \in ids : args[i].amount \in Int /\ args[i].due_date \in Nat
  BY <1>2, RegistryAssumption DEF RegistrationArgs
<1>5. invoices' \in [InvoiceIds -> Invoice]
  <2>1. \A i \in ids : [status |-> "Pending", originator |-> o, amount |-> args[i].amount,
                         due_date |-> args[i].due_date] \in Invoice
    BY <1>4 DEF Invoice, Statuses
  <2> QED BY <1>2, <1>3, <2>1 DEF BatchRegisterInvoices
<1>6. by_origin' \in [Address -> [InvoiceIds -> Nat]]
  BY <1>2, <1>3 DEF BatchRegisterInvoices
<1>7. tok_own' \in [InvoiceIds -> Address \cup {Nobody}]
  BY <1>2, <1>3 DEF BatchRegisterInvoices
<1> QED BY <1>2, <1>5, <1>6, <1>7 DEF BatchRegisterInvoices, adminVars

LEMMA TradeStepType ==
  ASSUME RegTypeOK, NEW i \in InvoiceIds, NEW to \in Address, TradeStep(i, to)
  PROVE  RegTypeOK'
<1> USE DEF RegTypeOK
<1>1. invoices' \in [InvoiceIds -> Invoice]
  <2>1. [invoices[i] EXCEPT !.originator = to] \in Invoice
    BY DEF Invoice
  <2>2. invoices' = [invoices EXCEPT ![i] = [invoices[i] EXCEPT !.originator = to]]
    BY DEF TradeStep, ExecuteTokenTransfer
  <2> QED BY <2>1, <2>2
<1>2. by_origin' \in [Address -> [InvoiceIds -> Nat]]
  <2>1. [by_origin[to] EXCEPT ![i] = @ + 1] \in [InvoiceIds -> Nat]
    OBVIOUS
  <2>2. by_origin' = [by_origin EXCEPT ![to] = [by_origin[to] EXCEPT ![i] = @ + 1]]
    BY DEF TradeStep, ExecuteTokenTransfer
  <2> QED BY <2>1, <2>2
<1> QED BY <1>1, <1>2 DEF TradeStep, ExecuteTokenTransfer, adminVars

LEMMA TypeStep ==
  ASSUME RegTypeOK, [RegNext]_regVars
  PROVE  RegTypeOK'
<1> USE DEF RegTypeOK
<1>1. CASE UNCHANGED regVars
  BY <1>1 DEF regVars
<1>2. CASE QuietStep
  BY <1>2 DEF QuietStep, tokVars
<1>3. CASE RegisterStep
  BY <1>3, RegisterStepType
<1>4. ASSUME NEW i \in InvoiceIds, InvoiceStep(i)
      PROVE  RegTypeOK'
  <2>1. CASE \E to \in Statuses, actor \in Actors : StatusStep(i, to, actor)
    BY <2>1, StatusStepType
  <2>2. ASSUME NEW amount \in Int, AmountStep(i, amount)
        PROVE  RegTypeOK'
    <3>1. [invoices[i] EXCEPT !.amount = amount] \in Invoice
      BY DEF Invoice
    <3>2. invoices' = [invoices EXCEPT ![i] = [invoices[i] EXCEPT !.amount = amount]]
      BY <2>2 DEF AmountStep
    <3>3. invoices' \in [InvoiceIds -> Invoice]
      BY <3>1, <3>2
    <3> QED BY <2>2, <3>3 DEF AmountStep, adminVars, tokVars
  <2>3. CASE \E to \in Address : TradeStep(i, to)
    BY <2>3, TradeStepType
  <2>4. CASE \E approved \in Address \cup {Nobody} : ApproveStep(i, approved)
    BY <2>4 DEF ApproveStep, adminVars
  <2> QED BY <1>4, <2>1, <2>2, <2>3, <2>4 DEF InvoiceStep
<1> QED BY <1>1, <1>2, <1>3, <1>4, StepKinds

(***************************************************************************)
(* The registry keeps its types: amounts, holders, histories and the fee   *)
(* stay in range whatever is called (set_fee's ceiling among them).        *)
(***************************************************************************)
THEOREM RegistryTypes == RegSpec => []RegTypeOK
<1>1. RegInit => RegTypeOK
  BY RegistryAssumption DEF RegInit, RegTypeOK, AbsentInvoice, Invoice
<1>2. RegTypeOK /\ [RegNext]_regVars => RegTypeOK'
  BY TypeStep
<1> QED BY <1>1, <1>2, PTL DEF RegSpec

-----------------------------------------------------------------------------
(* Claims *)

(* What a status change does to the token, given that record and token     *)
(* agree: it comes from a live invoice, and burns exactly when it settles. *)
LEMMA StatusStepClaim ==
  ASSUME RegTypeOK, ClaimIntegrity,
         NEW i \in InvoiceIds, NEW to \in Statuses, NEW actor \in Actors,
         StatusStep(i, to, actor)
  PROVE  /\ invoices[i].status \in Live
         /\ invoices' = [invoices EXCEPT ![i].status = to]
         /\ to \in Terminal => /\ tok_own' = [tok_own EXCEPT ![i] = Nobody]
                               /\ tok_app' = [tok_app EXCEPT ![i] = Nobody]
                               /\ tok_brn' = [tok_brn EXCEPT ![i] = TRUE]
         /\ to \notin Terminal => UNCHANGED tokVars
<1>1. invoices[i].status \in Live
  BY TransitionFacts DEF StatusStep, MoveStatus
<1>2. tok_own[i] # Nobody /\ ~tok_brn[i]
  BY <1>1, RegistryAssumption DEF ClaimIntegrity
<1> QED BY <1>1, <1>2 DEF StatusStep, MoveStatus, BurnTokenIf, BurnToken

(* A holder other than nobody is a sign of a live invoice.                 *)
LEMMA HeldIsLive ==
  ASSUME ClaimIntegrity, NEW i \in InvoiceIds, tok_own[i] # Nobody
  PROVE  invoices[i].status \in Live
  BY DEF ClaimIntegrity

LEMMA ClaimStep ==
  ASSUME RegTypeOK, ClaimIntegrity, [RegNext]_regVars
  PROVE  ClaimIntegrity'
<1> USE DEF RegTypeOK
<1> DEFINE Agree(j) ==
      /\ invoices[j].status \in Live =>
           /\ tok_own[j] \in Address
           /\ tok_own[j] = invoices[j].originator
           /\ ~tok_brn[j]
      /\ invoices[j].status \notin Live =>
           /\ tok_own[j] = Nobody
           /\ tok_app[j] = Nobody
           /\ tok_brn[j] <=> invoices[j].status \in Terminal
<1>0. ClaimIntegrity <=> \A j \in InvoiceIds : Agree(j)
  BY DEF ClaimIntegrity
<1>1. CASE UNCHANGED <<invoices, tok_own, tok_app, tok_brn>>
  BY <1>1 DEF ClaimIntegrity
<1>2. CASE RegisterStep
  <2>1. PICK o \in Address, ids \in SUBSET InvoiceIds :
          \E args \in [ids -> RegistrationArgs] : BatchRegisterInvoices(o, args)
    BY <1>2 DEF RegisterStep
  <2>2. PICK args \in [ids -> RegistrationArgs] : BatchRegisterInvoices(o, args)
    BY <2>1
  <2>3. DOMAIN args = ids
    BY <2>2
  <2> SUFFICES ASSUME NEW j \in InvoiceIds PROVE Agree(j)'
    BY <1>0 DEF ClaimIntegrity
  <2>4. CASE j \in ids
    <3>1. invoices[j].status = "Absent"
      BY <2>2, <2>3, <2>4 DEF BatchRegisterInvoices, Registered
    <3>2. ~tok_brn[j]
      BY <3>1, LiveFacts DEF ClaimIntegrity
    <3>3. /\ invoices'[j].status = "Pending"
          /\ invoices'[j].originator = o
          /\ tok_own'[j] = o
          /\ tok_brn'[j] = tok_brn[j]
      BY <2>2, <2>3, <2>4 DEF BatchRegisterInvoices
    <3> QED BY <3>2, <3>3, LiveFacts
  <2>5. CASE j \notin ids
    <3>1. /\ invoices'[j] = invoices[j]
          /\ tok_own'[j] = tok_own[j]
          /\ tok_app'[j] = tok_app[j]
          /\ tok_brn'[j] = tok_brn[j]
      BY <2>2, <2>3, <2>5 DEF BatchRegisterInvoices
    <3> QED BY <3>1 DEF ClaimIntegrity
  <2> QED BY <2>4, <2>5
<1>3. ASSUME NEW i \in InvoiceIds, NEW to \in Statuses, NEW actor \in Actors,
             StatusStep(i, to, actor)
      PROVE  ClaimIntegrity'
  <2>1. /\ invoices[i].status \in Live
        /\ invoices' = [invoices EXCEPT ![i].status = to]
        /\ to \in Terminal => /\ tok_own' = [tok_own EXCEPT ![i] = Nobody]
                              /\ tok_app' = [tok_app EXCEPT ![i] = Nobody]
                              /\ tok_brn' = [tok_brn EXCEPT ![i] = TRUE]
        /\ to \notin Terminal => UNCHANGED tokVars
    BY <1>3, StatusStepClaim
  <2> SUFFICES ASSUME NEW j \in InvoiceIds PROVE Agree(j)'
    BY <1>0 DEF ClaimIntegrity
  <2>2. CASE j # i
    BY <2>1, <2>2 DEF ClaimIntegrity, tokVars
  <2>3. CASE j = i /\ to \in Terminal
    BY <2>1, <2>3, LiveFacts
  <2>4. CASE j = i /\ to \notin Terminal
    <3>1. to \in Live
      BY <2>4, LiveFacts
    <3> QED BY <2>1, <2>4, <3>1 DEF ClaimIntegrity, tokVars
  <2> QED BY <2>2, <2>3, <2>4
<1>4. ASSUME NEW i \in InvoiceIds, NEW amount \in Int, AmountStep(i, amount)
      PROVE  ClaimIntegrity'
  <2>1. \A j \in InvoiceIds : /\ invoices'[j].status = invoices[j].status
                              /\ invoices'[j].originator = invoices[j].originator
    BY <1>4 DEF AmountStep, Invoice
  <2> QED BY <1>4, <2>1 DEF AmountStep, ClaimIntegrity, tokVars
<1>5. ASSUME NEW i \in InvoiceIds, NEW to \in Address, TradeStep(i, to)
      PROVE  ClaimIntegrity'
  <2>1. invoices[i].status \in Live
    BY <1>5, HeldIsLive, RegistryAssumption DEF TradeStep
  <2>2. /\ invoices' = [invoices EXCEPT ![i].originator = to]
        /\ tok_own' = [tok_own EXCEPT ![i] = to]
        /\ tok_app' = [tok_app EXCEPT ![i] = Nobody]
        /\ tok_brn' = tok_brn
    BY <1>5 DEF TradeStep, ExecuteTokenTransfer
  <2> SUFFICES ASSUME NEW j \in InvoiceIds PROVE Agree(j)'
    BY <1>0 DEF ClaimIntegrity
  <2>3. CASE j = i
    BY <2>1, <2>2, <2>3 DEF ClaimIntegrity, Invoice
  <2>4. CASE j # i
    BY <2>2, <2>4 DEF ClaimIntegrity
  <2> QED BY <2>3, <2>4
<1>6. ASSUME NEW i \in InvoiceIds, NEW approved \in Address \cup {Nobody},
             ApproveStep(i, approved)
      PROVE  ClaimIntegrity'
  <2>1. invoices[i].status \in Live
    BY <1>6, HeldIsLive, RegistryAssumption DEF ApproveStep
  <2> QED BY <1>6, <2>1 DEF ApproveStep, ClaimIntegrity
<1> QED
  BY <1>1, <1>2, <1>3, <1>4, <1>5, <1>6, StepKinds DEF InvoiceStep, QuietStep, regVars, tokVars

(***************************************************************************)
(* Record and token of an invoice agree in every reachable state, for any  *)
(* number of invoices and accounts: every entry point that settles an      *)
(* invoice burns its token, every one that moves the token moves the       *)
(* originator of record.  The type invariant is all the strengthening it   *)
(* takes.                                                                  *)
(***************************************************************************)
THEOREM RegistryClaimIntegrity == RegSpec => []ClaimIntegrity
<1>1. RegInit => ClaimIntegrity
  BY LiveFacts DEF RegInit, ClaimIntegrity, AbsentInvoice, Terminal
<1>2. RegTypeOK /\ ClaimIntegrity /\ [RegNext]_regVars => ClaimIntegrity'
  BY ClaimStep
<1> QED BY <1>1, <1>2, RegistryTypes, PTL DEF RegSpec

-----------------------------------------------------------------------------
(* Settlement *)

LEMMA SettledStep ==
  ASSUME RegTypeOK, ClaimIntegrity, [RegNext]_regVars,
         NEW j \in InvoiceIds, invoices[j].status \in Terminal
  PROVE  /\ invoices'[j] = invoices[j]
         /\ tok_own'[j] = tok_own[j]
         /\ tok_app'[j] = tok_app[j]
         /\ tok_brn'[j] = tok_brn[j]
         /\ trn_log'[j] = trn_log[j]
<1> USE DEF RegTypeOK
<1>1. invoices[j].status \notin Live /\ invoices[j].status # "Absent"
  BY LiveFacts
<1>2. tok_own[j] \notin Address
  BY <1>1, RegistryAssumption DEF ClaimIntegrity
<1>3. CASE UNCHANGED regVars \/ QuietStep
  BY <1>3 DEF regVars, QuietStep, tokVars
<1>4. CASE RegisterStep
  <2>1. PICK o \in Address, ids \in SUBSET InvoiceIds :
          \E args \in [ids -> RegistrationArgs] : BatchRegisterInvoices(o, args)
    BY <1>4 DEF RegisterStep
  <2>2. PICK args \in [ids -> RegistrationArgs] : BatchRegisterInvoices(o, args)
    BY <2>1
  <2>3. DOMAIN args = ids
    BY <2>2
  <2>4. j \notin ids
    BY <1>1, <2>2, <2>3 DEF BatchRegisterInvoices, Registered
  <2> QED BY <2>2, <2>3, <2>4 DEF BatchRegisterInvoices
<1>5. ASSUME NEW i \in InvoiceIds, InvoiceStep(i)
      PROVE  i # j /\ invoices'[j] = invoices[j] /\ tok_own'[j] = tok_own[j]
               /\ tok_app'[j] = tok_app[j] /\ tok_brn'[j] = tok_brn[j]
               /\ trn_log'[j] = trn_log[j]
  <2>1. ASSUME NEW to \in Statuses, NEW actor \in Actors, StatusStep(i, to, actor)
        PROVE  i # j /\ UNCHANGED <<invoices[j], tok_own[j], tok_app[j], tok_brn[j],
                                    trn_log[j]>>
    <3>1. i # j
      BY <2>1, <1>1, TransitionFacts DEF StatusStep, MoveStatus
    <3> QED
      BY <2>1, <3>1 DEF StatusStep, MoveStatus, BurnTokenIf, BurnToken, tokVars
  <2>2. ASSUME NEW amount \in Int, AmountStep(i, amount)
        PROVE  i # j /\ UNCHANGED <<invoices[j], tok_own[j], tok_app[j], tok_brn[j],
                                    trn_log[j]>>
    BY <2>2, <1>1, LiveFacts DEF AmountStep, tokVars
  <2>3. ASSUME NEW to \in Address, TradeStep(i, to)
        PROVE  i # j /\ UNCHANGED <<invoices[j], tok_own[j], tok_app[j], tok_brn[j],
                                    trn_log[j]>>
    BY <2>3, <1>2 DEF TradeStep, ExecuteTokenTransfer
  <2>4. ASSUME NEW approved \in Address \cup {Nobody}, ApproveStep(i, approved)
        PROVE  i # j /\ UNCHANGED <<invoices[j], tok_own[j], tok_app[j], tok_brn[j],
                                    trn_log[j]>>
    BY <2>4, <1>2 DEF ApproveStep
  <2> QED BY <1>5, <2>1, <2>2, <2>3, <2>4 DEF InvoiceStep
<1> QED BY <1>3, <1>4, <1>5, StepKinds

(***************************************************************************)
(* Settlement is final: whatever is called, by whomever, the record, the   *)
(* token and the history of a repaid, cancelled or defaulted invoice stay. *)
(***************************************************************************)
THEOREM RegistrySettledForever == RegSpec => SettledForever
<1>1. RegTypeOK /\ ClaimIntegrity /\ [RegNext]_regVars =>
        [\A i \in InvoiceIds : invoices[i].status \in Terminal =>
           /\ invoices'[i] = invoices[i]
           /\ tok_own'[i] = tok_own[i]
           /\ tok_app'[i] = tok_app[i]
           /\ tok_brn'[i] = tok_brn[i]
           /\ trn_log'[i] = trn_log[i]]_regVars
  BY SettledStep
<1> QED
  BY <1>1, RegistryTypes, RegistryClaimIntegrity, PTL DEF RegSpec, SettledForever

-----------------------------------------------------------------------------
(* Trade, index, pause *)

(* The holder of a token changes in three ways: it is issued, burned, or   *)
(* traded.                                                                 *)
LEMMA HolderStep ==
  ASSUME RegTypeOK, ClaimIntegrity, [RegNext]_regVars, NEW j \in InvoiceIds,
         tok_own[j] # Nobody, tok_own'[j] \notin {Nobody, tok_own[j]}
  PROVE  \E to \in Address : TradeStep(j, to)
<1> USE DEF RegTypeOK
<1>1. CASE UNCHANGED regVars \/ QuietStep
  BY <1>1 DEF regVars, QuietStep, tokVars
<1>2. CASE RegisterStep
  <2>1. PICK o \in Address, ids \in SUBSET InvoiceIds :
          \E args \in [ids -> RegistrationArgs] : BatchRegisterInvoices(o, args)
    BY <1>2 DEF RegisterStep
  <2>2. PICK args \in [ids -> RegistrationArgs] : BatchRegisterInvoices(o, args)
    BY <2>1
  <2>3. DOMAIN args = ids
    BY <2>2
  <2>4. invoices[j].status # "Absent"
    BY HeldIsLive, LiveFacts
  <2>5. j \notin ids
    BY <2>2, <2>3, <2>4 DEF BatchRegisterInvoices, Registered
  <2> QED BY <2>2, <2>3, <2>5 DEF BatchRegisterInvoices
<1>3. ASSUME NEW i \in InvoiceIds, InvoiceStep(i)
      PROVE  \E to \in Address : TradeStep(j, to)
  <2>1. ASSUME NEW to \in Statuses, NEW actor \in Actors, StatusStep(i, to, actor)
        PROVE  FALSE
    BY <2>1 DEF StatusStep, BurnTokenIf, BurnToken, tokVars
  <2>2. ASSUME NEW amount \in Int, AmountStep(i, amount)
        PROVE  FALSE
    BY <2>2 DEF AmountStep, tokVars
  <2>3. ASSUME NEW to \in Address, TradeStep(i, to)
        PROVE  i = j
    BY <2>3 DEF TradeStep, ExecuteTokenTransfer
  <2>4. ASSUME NEW approved \in Address \cup {Nobody}, ApproveStep(i, approved)
        PROVE  FALSE
    BY <2>4 DEF ApproveStep
  <2> QED BY <1>3, <2>1, <2>2, <2>3, <2>4 DEF InvoiceStep
<1> QED BY <1>1, <1>2, <1>3, StepKinds

(***************************************************************************)
(* A live token changes hands only by a trade between accounts that are    *)
(* not blacklisted, and the seller's approval ends with it.                *)
(***************************************************************************)
THEOREM RegistryTradeDiscipline == RegSpec => TradeDiscipline
<1>1. ASSUME RegTypeOK, ClaimIntegrity, [RegNext]_regVars, NEW i \in InvoiceIds,
             tok_own[i] # Nobody, tok_own'[i] \notin {Nobody, tok_own[i]}
      PROVE  /\ {tok_own[i], tok_own'[i]} \cap blacklist = {}
             /\ tok_app'[i] = Nobody
             /\ invoices'[i] = [invoices[i] EXCEPT !.originator = tok_own'[i]]
  <2>1. PICK to \in Address : TradeStep(i, to)
    BY <1>1, HolderStep
  <2>2. /\ tok_own[i] \notin blacklist
        /\ to \notin blacklist
        /\ tok_own' = [tok_own EXCEPT ![i] = to]
        /\ tok_app' = [tok_app EXCEPT ![i] = Nobody]
        /\ invoices' = [invoices EXCEPT ![i] = [invoices[i] EXCEPT !.originator = to]]
    BY <2>1 DEF TradeStep, ExecuteTokenTransfer
  <2>3. tok_own'[i] = to
    BY <1>1, <2>2 DEF RegTypeOK
  <2>4. tok_app'[i] = Nobody
    BY <1>1, <2>2 DEF RegTypeOK
  <2>5. invoices'[i] = [invoices[i] EXCEPT !.originator = to]
    BY <1>1, <2>2 DEF RegTypeOK
  <2> QED BY <2>2, <2>3, <2>4, <2>5
<1>2. RegTypeOK /\ ClaimIntegrity /\ [RegNext]_regVars =>
        [\A i \in InvoiceIds :
           (tok_own[i] # Nobody /\ tok_own'[i] \notin {Nobody, tok_own[i]}) =>
             /\ {tok_own[i], tok_own'[i]} \cap blacklist = {}
             /\ tok_app'[i] = Nobody
             /\ invoices'[i] = [invoices[i] EXCEPT !.originator = tok_own'[i]]]_regVars
  BY <1>1
<1> QED
  BY <1>2, RegistryTypes, RegistryClaimIntegrity, PTL DEF RegSpec, TradeDiscipline

LEMMA IndexStep ==
  ASSUME RegTypeOK, ClaimIntegrity, IndexCoversHolders, [RegNext]_regVars
  PROVE  IndexCoversHolders'
<1> USE DEF RegTypeOK
<1> SUFFICES ASSUME NEW j \in InvoiceIds, invoices'[j].status # "Absent"
             PROVE  by_origin'[invoices'[j].originator][j] >= 1
  BY DEF IndexCoversHolders, Registered
<1>1. CASE UNCHANGED <<invoices, by_origin>>
  BY <1>1 DEF IndexCoversHolders, Registered
<1>2. CASE RegisterStep
  <2>1. PICK o \in Address, ids \in SUBSET InvoiceIds :
          \E args \in [ids -> RegistrationArgs] : BatchRegisterInvoices(o, args)
    BY <1>2 DEF RegisterStep
  <2>2. PICK args \in [ids -> RegistrationArgs] : BatchRegisterInvoices(o, args)
    BY <2>1
  <2>3. DOMAIN args = ids
    BY <2>2
  <2>4. by_origin' = [by_origin EXCEPT ![o] =
          [i \in InvoiceIds |-> IF i \in ids THEN by_origin[o][i] + 1 ELSE by_origin[o][i]]]
    BY <2>2, <2>3 DEF BatchRegisterInvoices
  <2>5. CASE j \in ids
    <3>1. invoices'[j].originator = o
      BY <2>2, <2>3, <2>5 DEF BatchRegisterInvoices
    <3> QED BY <2>4, <2>5, <3>1
  <2>6. CASE j \notin ids
    <3>1. invoices'[j] = invoices[j]
      BY <2>2, <2>3, <2>6 DEF BatchRegisterInvoices
    <3>2. by_origin[invoices[j].originator][j] >= 1
      BY <3>1 DEF IndexCoversHolders, Registered
    <3> QED BY <2>4, <2>6, <3>1, <3>2
  <2> QED BY <2>5, <2>6
<1>3. ASSUME NEW i \in InvoiceIds, InvoiceStep(i)
      PROVE  by_origin'[invoices'[j].originator][j] >= 1
  <2>1. ASSUME NEW to \in Statuses, NEW actor \in Actors, StatusStep(i, to, actor)
        PROVE  by_origin'[invoices'[j].originator][j] >= 1
    <3>1. invoices' = [invoices EXCEPT ![i] = [invoices[i] EXCEPT !.status = to]]
      BY <2>1 DEF StatusStep, MoveStatus
    <3>2. invoices[i].status # "Absent"
      BY <2>1, TransitionFacts, LiveFacts DEF StatusStep, MoveStatus
    <3>3. invoices[j].status # "Absent" /\ invoices'[j].originator = invoices[j].originator
      BY <3>1, <3>2 DEF Invoice
    <3> QED BY <2>1, <3>3 DEF StatusStep, IndexCoversHolders, Registered
  <2>2. ASSUME NEW amount \in Int, AmountStep(i, amount)
        PROVE  by_origin'[invoices'[j].originator][j] >= 1
    <3>1. invoices' = [invoices EXCEPT ![i] = [invoices[i] EXCEPT !.amount = amount]]
      BY <2>2 DEF AmountStep
    <3>2. /\ invoices'[j].status = invoices[j].status
          /\ invoices'[j].originator = invoices[j].originator
      BY <3>1 DEF Invoice
    <3> QED BY <2>2, <3>2 DEF AmountStep, IndexCoversHolders, Registered
  <2>3. ASSUME NEW to \in Address, TradeStep(i, to)
        PROVE  by_origin'[invoices'[j].originator][j] >= 1
    <3>1. invoices' = [invoices EXCEPT ![i] = [invoices[i] EXCEPT !.originator = to]]
      BY <2>3 DEF TradeStep, ExecuteTokenTransfer
    <3>2. by_origin' = [by_origin EXCEPT ![to] = [by_origin[to] EXCEPT ![i] = @ + 1]]
      BY <2>3 DEF TradeStep, ExecuteTokenTransfer
    <3>3. CASE j = i
      <4>1. invoices'[j].originator = to
        BY <3>1, <3>3 DEF Invoice
      <4> QED BY <3>2, <3>3, <4>1
    <3>4. CASE j # i
      <4>1. invoices'[j] = invoices[j]
        BY <3>1, <3>4
      <4>2. by_origin[invoices[j].originator][j] >= 1
        BY <4>1 DEF IndexCoversHolders, Registered
      <4> QED BY <3>2, <3>4, <4>1, <4>2
    <3> QED BY <3>3, <3>4
  <2>4. CASE \E approved \in Address \cup {Nobody} : ApproveStep(i, approved)
    BY <2>4 DEF ApproveStep, IndexCoversHolders, Registered
  <2> QED BY <1>3, <2>1, <2>2, <2>3, <2>4 DEF InvoiceStep
<1> QED BY <1>1, <1>2, <1>3, StepKinds DEF QuietStep, regVars

(***************************************************************************)
(* An invoice is in the index of its holder, whatever number of hands it   *)
(* went through.                                                           *)
(***************************************************************************)
THEOREM RegistryIndexCovers == RegSpec => []IndexCoversHolders
<1>1. RegInit => IndexCoversHolders
  BY DEF RegInit, IndexCoversHolders, AbsentInvoice, Registered
<1>2. RegTypeOK /\ ClaimIntegrity /\ IndexCoversHolders /\ [RegNext]_regVars
        => IndexCoversHolders'
  BY IndexStep
<1> QED BY <1>1, <1>2, RegistryTypes, RegistryClaimIntegrity, PTL DEF RegSpec

-----------------------------------------------------------------------------
(* The transition history *)

(* A history without gaps whose entries are legal transitions.             *)
Chained(log) ==
  /\ \A k \in 1 .. Len(log) : <<log[k].from, log[k].to>> \in ValidTransitions
  /\ \A k \in 1 .. Len(log) - 1 : log[k].to = log[k + 1].from

(* Appending an entry that starts where the history ends keeps it chained  *)
(* and within its bound, eviction from the front included.                 *)
LEMMA RecordTransitionChained ==
  ASSUME NEW log \in Seq(TransitionRecord), NEW entry \in TransitionRecord,
         NEW max \in Nat \ {0}, Len(log) <= max, Chained(log),
         <<entry.from, entry.to>> \in ValidTransitions,
         log # << >> => log[Len(log)].to = entry.from
  PROVE  LET new == RecordTransition(log, entry, max)
         IN /\ Len(new) <= max
            /\ Chained(new)
            /\ new # << >>
            /\ new[Len(new)] = entry
<1> DEFINE new == RecordTransition(log, entry, max)
<1>1. CASE Len(log) >= max
  <2>1. new = Append(Tail(log), entry)
    BY <1>1 DEF RecordTransition
  <2>2. log # << >> /\ Len(log) = max
    BY <1>1
  <2>3. /\ Tail(log) \in Seq(TransitionRecord)
        /\ Len(Tail(log)) = max - 1
        /\ \A k \in 1 .. max - 1 : Tail(log)[k] = log[k + 1]
    BY <2>2
  <2>4. /\ Len(new) = max
        /\ new[max] = entry
        /\ \A k \in 1 .. max - 1 : new[k] = log[k + 1]
    BY <2>1, <2>3
  <2> HIDE DEF new
  <2>5. \A k \in 1 .. max : <<new[k].from, new[k].to>> \in ValidTransitions
    BY <2>2, <2>4 DEF Chained
  <2>6. \A k \in 1 .. max - 1 : new[k].to = new[k + 1].from
    <3> SUFFICES ASSUME NEW k \in 1 .. max - 1 PROVE new[k].to = new[k + 1].from
      OBVIOUS
    <3>1. CASE k = max - 1
      BY <2>2, <2>4, <3>1
    <3>2. CASE k # max - 1
      BY <2>2, <2>4, <3>2 DEF Chained
    <3> QED BY <3>1, <3>2
  <2>7. new # << >>
    BY <2>4
  <2> QED BY <2>4, <2>5, <2>6, <2>7 DEF Chained, new
<1>2. CASE ~(Len(log) >= max)
  <2>1. new = Append(log, entry)
    BY <1>2 DEF RecordTransition
  <2>2. /\ Len(new) = Len(log) + 1
        /\ new[Len(log) + 1] = entry
        /\ \A k \in 1 .. Len(log) : new[k] = log[k]
    BY <2>1
  <2> HIDE DEF new
  <2>3. \A k \in 1 .. Len(new) : <<new[k].from, new[k].to>> \in ValidTransitions
    BY <2>2 DEF Chained
  <2>4. \A k \in 1 .. Len(new) - 1 : new[k].to = new[k + 1].from
    <3> SUFFICES ASSUME NEW k \in 1 .. Len(log) PROVE new[k].to = new[k + 1].from
      BY <2>2
    <3>1. CASE k = Len(log)
      BY <2>2, <3>1
    <3>2. CASE k # Len(log)
      BY <2>2, <3>2 DEF Chained
    <3> QED BY <3>1, <3>2
  <2>5. new # << >> /\ Len(new) <= max
    BY <1>2, <2>2
  <2> QED BY <2>2, <2>3, <2>4, <2>5 DEF Chained, new
<1> QED BY <1>1, <1>2

LEMMA AuditStep ==
  ASSUME RegTypeOK, AuditTrail, [RegNext]_regVars
  PROVE  AuditTrail'
<1> USE DEF RegTypeOK
<1> DEFINE Audited(j) ==
      /\ Len(trn_log[j]) <= MaxHistory
      /\ Chained(trn_log[j])
      /\ IF trn_log[j] = << >> THEN invoices[j].status \in {"Absent", "Pending"}
         ELSE invoices[j].status = trn_log[j][Len(trn_log[j])].to
<1>0. AuditTrail <=> \A j \in InvoiceIds : Audited(j)
  BY DEF AuditTrail, Chained
<1>1. SUFFICES ASSUME NEW j \in InvoiceIds PROVE Audited(j)'
  BY DEF AuditTrail, Chained
<1>2. Audited(j)
  BY <1>0
<1>3. CASE invoices'[j].status = invoices[j].status /\ trn_log'[j] = trn_log[j]
  BY <1>2, <1>3
<1>4. CASE UNCHANGED regVars \/ QuietStep
  BY <1>3, <1>4 DEF regVars, QuietStep
<1>5. CASE RegisterStep
  <2>1. PICK o \in Address, ids \in SUBSET InvoiceIds :
          \E args \in [ids -> RegistrationArgs] : BatchRegisterInvoices(o, args)
    BY <1>5 DEF RegisterStep
  <2>2. PICK args \in [ids -> RegistrationArgs] : BatchRegisterInvoices(o, args)
    BY <2>1
  <2>3. DOMAIN args = ids
    BY <2>2
  <2>4. CASE j \notin ids
    BY <1>3, <2>2, <2>3, <2>4 DEF BatchRegisterInvoices
  <2>5. CASE j \in ids
    <3>1. invoices[j].status = "Absent"
      BY <2>2, <2>3, <2>5 DEF BatchRegisterInvoices, Registered
    <3>2. trn_log[j] = << >>
      <4> SUFFICES ASSUME trn_log[j] # << >> PROVE FALSE
        OBVIOUS
      <4>1. trn_log[j][Len(trn_log[j])] \in TransitionRecord
        OBVIOUS
      <4> QED BY <1>2, <3>1, <4>1, LiveFacts DEF TransitionRecord
    <3>3. trn_log'[j] = trn_log[j] /\ invoices'[j].status = "Pending"
      BY <2>2, <2>3, <2>5 DEF BatchRegisterInvoices
    <3> QED BY <1>2, <3>2, <3>3
  <2> QED BY <2>4, <2>5
<1>6. ASSUME NEW i \in InvoiceIds, InvoiceStep(i)
      PROVE  Audited(j)'
  <2>1. ASSUME NEW to \in Statuses, NEW actor \in Actors, StatusStep(i, to, actor)
        PROVE  Audited(j)'
    <3> DEFINE entry == [from |-> invoices[i].status, to |-> to, actor |-> actor]
               new == RecordTransition(trn_log[i], entry, MaxHistory)
    <3>1. /\ <<invoices[i].status, to>> \in ValidTransitions
          /\ invoices' = [invoices EXCEPT ![i] = [invoices[i] EXCEPT !.status = to]]
          /\ trn_log' = [trn_log EXCEPT ![i] = new]
      BY <2>1 DEF StatusStep, MoveStatus
    <3>2. CASE i # j
      BY <1>3, <3>1, <3>2
    <3>3. CASE i = j
      <4>1. entry \in TransitionRecord
        BY <3>1, TransitionFacts, LiveFacts DEF TransitionRecord
      <4>2. /\ Len(new) <= MaxHistory
            /\ Chained(new)
            /\ new # << >>
            /\ new[Len(new)] = entry
        <5>1. Len(trn_log[i]) <= MaxHistory /\ Chained(trn_log[i])
          BY <1>2, <3>3
        <5>2. trn_log[i] # << >> => trn_log[i][Len(trn_log[i])].to = entry.from
          BY <1>2, <3>3
        <5>3. <<entry.from, entry.to>> \in ValidTransitions
          BY <3>1
        <5> HIDE DEF entry
        <5> QED BY <4>1, <5>1, <5>2, <5>3, RegistryAssumption, RecordTransitionChained
      <4>3. entry.to = to
        OBVIOUS
      <4> HIDE DEF new, entry
      <4>4. trn_log'[j] = new /\ invoices'[j].status = to
        BY <3>1, <3>3 DEF Invoice
      <4> QED BY <4>2, <4>3, <4>4
    <3> QED BY <3>2, <3>3
  <2>2. ASSUME NEW amount \in Int, AmountStep(i, amount)
        PROVE  Audited(j)'
    BY <1>3, <2>2 DEF AmountStep, Invoice
  <2>3. ASSUME NEW to \in Address, TradeStep(i, to)
        PROVE  Audited(j)'
    BY <1>3, <2>3 DEF TradeStep, ExecuteTokenTransfer, Invoice
  <2>4. CASE \E approved \in Address \cup {Nobody} : ApproveStep(i, approved)
    BY <1>3, <2>4 DEF ApproveStep
  <2> QED BY <1>6, <2>1, <2>2, <2>3, <2>4 DEF InvoiceStep
<1> QED BY <1>4, <1>5, <1>6, StepKinds

(***************************************************************************)
(* The history of an invoice explains its status without a gap, for any    *)
(* bound on its length.                                                    *)
(***************************************************************************)
THEOREM RegistryAuditTrail == RegSpec => []AuditTrail
<1>1. RegInit => AuditTrail
  BY RegistryAssumption DEF RegInit, AuditTrail, AbsentInvoice
<1>2. RegTypeOK /\ AuditTrail /\ [RegNext]_regVars => AuditTrail'
  BY AuditStep
<1> QED BY <1>1, <1>2, RegistryTypes, PTL DEF RegSpec

-----------------------------------------------------------------------------
(* The registry implements InvoiceClaim *)

(* A step that leaves the statuses and the holders of all invoices alone   *)
(* is invisible in the abstract specification.                             *)
LEMMA InvisibleStep ==
  ASSUME RegTypeOK, tok_own' = tok_own,
         \A j \in InvoiceIds : invoices'[j].status = invoices[j].status
  PROVE  UNCHANGED Claim!vars
  BY DEF Claim!vars, ClaimStage

LEMMA ImplementsClaimStep ==
  ASSUME RegTypeOK, ClaimIntegrity, [RegNext]_regVars
  PROVE  [Claim!Next]_(Claim!vars)
<1> USE DEF RegTypeOK
<1>1. CASE UNCHANGED regVars \/ QuietStep
  BY <1>1, InvisibleStep DEF regVars, QuietStep, tokVars
<1>2. CASE RegisterStep
  <2>1. PICK o \in Address, ids \in SUBSET InvoiceIds :
          \E args \in [ids -> RegistrationArgs] : BatchRegisterInvoices(o, args)
    BY <1>2 DEF RegisterStep
  <2>2. PICK args \in [ids -> RegistrationArgs] : BatchRegisterInvoices(o, args)
    BY <2>1
  <2>3. DOMAIN args = ids
    BY <2>2
  <2>4. \A c \in ids : ClaimStage[c] = "unissued"
    BY <2>2, <2>3 DEF BatchRegisterInvoices, Registered, ClaimStage
  <2>5. ClaimStage' = [c \in InvoiceIds |-> IF c \in ids THEN "live" ELSE ClaimStage[c]]
    <3>1. \A c \in InvoiceIds : c \in ids => invoices'[c].status = "Pending"
      BY <2>2, <2>3 DEF BatchRegisterInvoices
    <3>2. \A c \in InvoiceIds : c \notin ids => invoices'[c] = invoices[c]
      BY <2>2, <2>3 DEF BatchRegisterInvoices
    <3> QED BY <3>1, <3>2 DEF ClaimStage, Terminal
  <2>6. tok_own' = [c \in InvoiceIds |-> IF c \in ids THEN o ELSE tok_own[c]]
    BY <2>2, <2>3 DEF BatchRegisterInvoices
  <2>7. Claim!Issue(ids, o)
    BY <2>4, <2>5, <2>6 DEF Claim!Issue
  <2> QED BY <2>7 DEF Claim!Next
<1>3. ASSUME NEW i \in InvoiceIds, InvoiceStep(i)
      PROVE  [Claim!Next]_(Claim!vars)
  <2>1. ASSUME NEW to \in Statuses, NEW actor \in Actors, StatusStep(i, to, actor)
        PROVE  [Claim!Next]_(Claim!vars)
    <3>1. /\ invoices[i].status \in Live
          /\ invoices' = [invoices EXCEPT ![i] = [invoices[i] EXCEPT !.status = to]]
          /\ to \in Terminal => tok_own' = [tok_own EXCEPT ![i] = Nobody]
          /\ to \notin Terminal => UNCHANGED tokVars
      BY <2>1, StatusStepClaim
    <3>2. \A j \in InvoiceIds :
            invoices'[j].status = IF j = i THEN to ELSE invoices[j].status
      BY <3>1 DEF Invoice
    <3>3. ClaimStage[i] = "live"
      BY <3>1, LiveFacts DEF ClaimStage
    <3>4. to # "Absent"
      BY LiveFacts
    <3>5. CASE to \in Terminal
      <4>1. ClaimStage' = [ClaimStage EXCEPT ![i] = "settled"]
        BY <3>2, <3>4, <3>5 DEF ClaimStage
      <4>2. Claim!Settle(i)
        BY <3>1, <3>3, <3>5, <4>1 DEF Claim!Settle
      <4> QED BY <4>2 DEF Claim!Next
    <3>6. CASE to \notin Terminal
      <4>1. ClaimStage' = ClaimStage
        BY <3>1, <3>2, <3>4, <3>6, LiveFacts DEF ClaimStage
      <4> QED BY <3>1, <3>6, <4>1 DEF Claim!vars, tokVars
    <3> QED BY <3>5, <3>6
  <2>2. ASSUME NEW amount \in Int, AmountStep(i, amount)
        PROVE  [Claim!Next]_(Claim!vars)
    BY <2>2, InvisibleStep DEF AmountStep, tokVars, Invoice
  <2>3. ASSUME NEW to \in Address, TradeStep(i, to)
        PROVE  [Claim!Next]_(Claim!vars)
    <3>1. /\ tok_own[i] # Nobody
          /\ invoices' = [invoices EXCEPT ![i] = [invoices[i] EXCEPT !.originator = to]]
          /\ tok_own' = [tok_own EXCEPT ![i] = to]
      BY <2>3, RegistryAssumption DEF TradeStep, ExecuteTokenTransfer
    <3>2. \A j \in InvoiceIds : invoices'[j].status = invoices[j].status
      BY <3>1 DEF Invoice
    <3>3. ClaimStage[i] = "live"
      BY <3>1, LiveFacts DEF ClaimIntegrity, ClaimStage
    <3>4. ClaimStage' = ClaimStage
      BY <3>2 DEF ClaimStage
    <3>5. Claim!Trade(i, to)
      BY <3>1, <3>3, <3>4 DEF Claim!Trade
    <3> QED BY <3>5 DEF Claim!Next
  <2>4. CASE \E approved \in Address \cup {Nobody} : ApproveStep(i, approved)
    BY <2>4, InvisibleStep DEF ApproveStep
  <2> QED BY <1>3, <2>1, <2>2, <2>3, <2>4 DEF InvoiceStep
<1> QED BY <1>1, <1>2, <1>3, StepKinds

(***************************************************************************)
(* The registry implements the abstract claim: issued once, one holder     *)
(* while live, moved only by a trade, gone in the step that settles it.    *)
(***************************************************************************)
THEOREM RegistryImplementsClaim == RegSpec => ImplementsClaim
<1>1. RegInit => Claim!Init
  BY DEF RegInit, Claim!Init, ClaimStage, AbsentInvoice
<1>2. RegTypeOK /\ ClaimIntegrity /\ [RegNext]_regVars => [Claim!Next]_(Claim!vars)
  BY ImplementsClaimStep
<1> QED
  BY <1>1, <1>2, RegistryTypes, RegistryClaimIntegrity, PTL
     DEF RegSpec, ImplementsClaim, Claim!Spec
=============================================================================
