------------------------------ MODULE Reputation ------------------------------
(***************************************************************************)
(* The reputation contract in full, under its administration: outcomes     *)
(* that lose weight with time, and the correction of a default after a     *)
(* dispute.  Protocol keeps only the counters (Repayment!RecordOutcome).   *)
(***************************************************************************)
EXTENDS Administration

CONSTANTS
  Originators,   \* accounts with a record
  HalfLife,      \* DECAY_HALF_LIFE_SECS
  NoRecorder,    \* the recorder is not configured
  Recorders,     \* bound: contracts that may be configured
  MaxOutcomes,   \* bound: outcomes recorded for an originator
  MaxTime        \* bound: last ledger time

ASSUME ReputationAssumption ==
  /\ HalfLife \in Nat \ {0}
  /\ NoRecorder \notin Recorders

VARIABLES
  now,        \* env.ledger().timestamp()
  recorder,   \* "recorder"
  records,    \* "reputn"
  outcomes    \* history: per originator, the outcomes and their times

reputationVars == <<now, recorder, records, outcomes>>
vars == <<adminVars, signed, reputationVars>>

Repaid    == 0
Defaulted == 1

NoRecord == [repayments |-> 0, defaults |-> 0, weighted_repayments |-> 0,
             weighted_defaults |-> 0, last_recompute |-> 0]

TypeOK ==
  /\ AdminTypeOK
  /\ now \in 1 .. MaxTime
  /\ recorder \in Recorders \cup {NoRecorder}
  /\ records \in [Originators -> [DOMAIN NoRecord -> Nat]]
  /\ outcomes \in [Originators -> Seq({Repaid, Defaulted} \X (1 .. MaxTime))]

Init ==
  /\ AdminInit
  /\ now = 1
  /\ recorder = NoRecorder
  /\ records = [o \in Originators |-> NoRecord]
  /\ outcomes = [o \in Originators |-> << >>]

-----------------------------------------------------------------------------
(* The loop of apply_pending_decay on one weight, run n times.             *)
Halved(w, n) ==
  LET left[k \in 0 .. n] == IF k = 0 THEN w ELSE left[k - 1] \div 2 IN left[n]

(* Mutant: the clock restarts only when a half-life was taken off.         *)
DecayedKeepingClock(r) ==
  LET halvings == (now - r.last_recompute) \div HalfLife
      weight(w) == IF r.last_recompute > 0 THEN Halved(w, halvings) ELSE w
  IN [r EXCEPT !.weighted_repayments = weight(@),
               !.weighted_defaults = weight(@),
               !.last_recompute = IF halvings > 0 \/ @ = 0 THEN now ELSE @]

(* apply_pending_decay: one halving per full half-life since the last      *)
(* write, and the clock restarts, also within a half-life.                 *)
Decayed(r) ==
  LET halvings == (now - r.last_recompute) \div HalfLife
      weight(w) == IF r.last_recompute > 0 THEN Halved(w, halvings) ELSE w
  IN [r EXCEPT !.weighted_repayments = weight(@),
               !.weighted_defaults = weight(@),
               !.last_recompute = now]

(* record_outcome: authorized by the recorder, no admin signs.             *)
RecordOutcome(o, outcome) ==
  /\ ~paused
  /\ recorder # NoRecorder
  /\ Len(outcomes[o]) < MaxOutcomes
  /\ LET r == Decayed(records[o])
     IN records' = [records EXCEPT ![o] =
          IF outcome = Repaid
          THEN [r EXCEPT !.repayments = @ + 1, !.weighted_repayments = @ + 1]
          ELSE [r EXCEPT !.defaults = @ + 1, !.weighted_defaults = @ + 2]]
  /\ outcomes' = [outcomes EXCEPT ![o] = Append(@, <<outcome, now>>)]
  /\ signed' = {}
  /\ UNCHANGED <<adminVars, now, recorder>>

(* resolve_dispute: in favour of the originator a default is taken back    *)
(* with its full weight; otherwise only the decay is applied.              *)
ResolveDispute(provided, o, favourable) ==
  /\ ~paused
  /\ AssertThreshold(provided)
  /\ LET r == Decayed(records[o])
     IN records' = [records EXCEPT ![o] =
          IF favourable /\ r.defaults > 0
          THEN [r EXCEPT !.defaults = @ - 1, !.weighted_defaults = Max({@ - 2, 0})]
          ELSE r]
  /\ UNCHANGED <<adminVars, now, recorder, outcomes>>

SetRecorder(provided, r) ==
  /\ ~paused
  /\ AssertThreshold(provided)
  /\ recorder' = r
  /\ UNCHANGED <<adminVars, now, records, outcomes>>

Tick ==
  /\ now < MaxTime
  /\ now' = now + 1
  /\ signed' = {}
  /\ UNCHANGED <<adminVars, recorder, records, outcomes>>

Next ==
  \/ AdminNext /\ UNCHANGED reputationVars
  \/ \E o \in Originators, outcome \in {Repaid, Defaulted} : RecordOutcome(o, outcome)
  \/ \E provided \in Lists :
       \/ \E o \in Originators, favourable \in BOOLEAN :
            ResolveDispute(provided, o, favourable)
       \/ \E r \in Recorders : SetRecorder(provided, r)
  \/ Tick

Spec == Init /\ [][Next]_vars

-----------------------------------------------------------------------------
(* Properties *)

(* Outcomes of a kind that are no older than the last write to the record  *)
(* minus a half-life.                                                      *)
Fresh(o, outcome) ==
  Cardinality({n \in DOMAIN outcomes[o] :
    outcomes[o][n][1] = outcome
      /\ records[o].last_recompute < outcomes[o][n][2] + HalfLife})

(* Defaults taken back by a dispute.                                       *)
TakenBack(o) ==
  Cardinality({n \in DOMAIN outcomes[o] : outcomes[o][n][1] = Defaulted})
    - records[o].defaults

(***************************************************************************)
(* However writes, disputes and the clock interleave, the weights stay     *)
(* between two counts: no outcome weighs more than it did when recorded,   *)
(* and one younger than a half-life still has its full weight, apart from  *)
(* the defaults taken back (ADR-0004: "Fresh outcomes hit immediately").   *)
(***************************************************************************)
FreshCountInFull ==
  \A o \in Originators :
    LET r == records[o]
    IN /\ Fresh(o, Repaid) <= r.weighted_repayments
       /\ r.weighted_repayments <= r.repayments
       /\ 2 * (Fresh(o, Defaulted) - TakenBack(o)) <= r.weighted_defaults
       /\ r.weighted_defaults <= 2 * r.defaults
=============================================================================
