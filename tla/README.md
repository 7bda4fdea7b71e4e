# TLA+ models of the InvoFi contracts

InvoFi finances invoices on Stellar: a business registers an invoice, a lender
advances the principal, and the loan ends in repayment or in a default that
the insurance pool covers in part. The Rust contracts (Soroban SDK) are
`registry/`, `financing/`, `repayment/`, `insurance/`, `reputation/` and
`event_indexer/`, with shared types and rules in `common/`. This directory
holds TLA+ models of them, TLC configurations, and proofs checked with TLAPS.
Paths below are relative to the root of the repository.

    tlc -workers 2 -config MCRegistry.cfg MCRegistry     # a model-checking run
    tlapm RegistryProofs.tla                             # the proofs

## 1. The system

Every contract call is one transaction. A call that panics, or whose callee
panics, is reverted as a whole, so between two calls the state is always one a
call that returned has left. The host refuses reentrancy. Concurrency is
therefore the *order of calls*: borrowers, lenders, admins, repayers and
keepers call any entry point at any time, the ledger clock moves between
calls, and nothing ever runs on its own. What one call checks may be untrue
when the next one relies on it.

| Component | State | Operations | Correct when |
|---|---|---|---|
| **Invoice registry** `registry/` | `invoices`, index by originator, token owner / approval / burned flag, transition history, blacklist, `feebps`, `paused`, registered callers | register (single, batch), update status / amount, cancel, dispute and resolve, set repaid status, system transitions, mark overdue, token transfer / approve, blacklist, fee, pause | record, token and history agree; settled is final; the holder can be found; pause freezes it |
| **State machine** `common/` | none (a table and a bounded log) | `assert_transition`, `record_transition` | only legal moves, log without gaps |
| **Verification oracle** `registry/`, `common/` (ADR-0009) | verifiers, attestations, threshold, validity | add / remove verifier, configure, attest, expire | the status of a fact follows from the live statements of today's verifiers, and a full list costs nobody's vote |
| **Amendments** `registry/` (ADR-0012) | requests and verdicts by invoice, remembered lender | request, approve, reject | a financed invoice changes only with the lender's consent, each request is decided once |
| **Offer financing** `financing/` | `offers`, `ProtocolStats`, `LenderStats`, position tokens | create, withdraw, accept, reject, callbacks of repayment | one active offer per invoice, books add up, offers only move forward |
| **Negotiation** `financing/` (ADR-0008) | rounds, deadline and outcome by offer, window | amend, counter, close, set window | who settles meets the other side's last word, in time; an ended negotiation stays ended |
| **Schedules** `financing/` (ADR-0006) | one schedule per offer | schedule, query | the installment asked for is the first due and uncovered |
| **Repayment** `repayment/` | payments by invoice, penalty | repay, mark overdue, reclaim, set penalty | payments account for the principal, a loan ends once |
| **Insurance pool** `insurance/` (ADR-0003, 0011, 0013) | stakes, yield, pool total, reservations, risk tiers | stake, unstake, pay out, reserve, claim, set rate, the same per tier | total = sum of stakes, losses pro rata, reservations covered |
| **Reputation** `reputation/` (ADR-0004) | counters and weights per account, disputes | record outcome, resolve dispute, decay | one outcome per settled loan, fresh outcomes count in full |
| **Event indexer** `event_indexer/` | events, indexes, counters | record, query, prune | indexes agree with events, a paging client misses none |
| **Admin governance** `common/` (ADR-0010) | signers, threshold | set signers, transfer admin, pause | nothing changes without a quorum, and a quorum stays reachable |
| **Upgrade** `common/` | version, pending upgrade, rollback target | begin, complete, roll back | version, pending upgrade and rollback target follow the executable |

How they interact:

    user ─► financing.accept_offer ──► registry.financing_marks_invoice_financed
    user ─► repayment.repay_invoice ─► financing.update_offer_status / _amount_repaid / stats
                                    ├► registry.repayment_marks_invoice_repaid
                                    └► reputation.record_outcome         (if wired)
    user ─► repayment.mark_overdue ──► registry.mark_invoice_overdue
    user ─► repayment.reclaim_invoice ► financing.update_offer_status
                                    ├► registry.repayment_marks_defaulted
                                    ├► insurance.pay_out                 (if wired)
                                    └► reputation.record_outcome         (if wired)
    insurance.pay_out ───────────────► registry.get_invoice (must be Defaulted)

Each contract has its own pause switch; a paused callee reverts the whole
outer call.

What is hard, and what the properties are aimed at (the complete list, line by
line, is `hazards` in `PROJECT.json`):

* **stale checks**: everything `create_offer` checks can change before
  `accept_offer` (the token is sold, the amount lowered, the seller's
  approval is still there);
* **several writers of one status**: nine entry points in three contracts
  move an invoice, three of them by hand;
* **state kept twice**: invoice and token, offer and invoice status, payments
  by invoice and `amount_repaid` by offer, fee stored in one contract and
  read from another;
* **partial failure**: the callee of a callee is paused or refuses;
* **rounding and limits**: interest on whole days, truncated shares of a
  loss, the twenty entries of a history, the summed payments of an invoice;
* **progress**: nobody is obliged to act on an overdue loan.

## 2. The modules

    InvoFiCommon ◄── Registry ◄── Financing ◄── Repayment ◄── Protocol ◄── MCProtocol
                       │   ▲         ▲ ▲                         ▲
         InvoiceClaim ◄┘   │         │ ├── Negotiation ◄─┐       ├──► Loan (refinement)
        (refinement)       │         │ ├── Amendments ◄──│──┐    │
                           │         │ └── Schedules ◄───│──┴── Servicing ◄── MCServicing
                           ├── MCRegistry                ├── MCNegotiation
                           └── RegistryProofs            └── NegotiationProofs
    Servicing, RegistryProofs ◄── ProtocolProofs
    Sums ◄── Protocol, Negotiation, InsurancePool
    InsurancePool ◄── RiskTiers ◄── MCRiskTiers, PoolProofs
    Administration ◄── Reputation ◄── MCReputation, AdministrationProofs
    Verification ◄── MCVerification, VerificationProofs
    Enumerations ◄── EventIndexer, OriginatorIndex ◄── Listings ◄── MCListings, ListingsProofs
    RegistryProofs ◄── NegotiationProofs
    Sums ◄── FiniteSums ◄── ProtocolProofs, PoolProofs, VerificationProofs,
                            NegotiationProofs, AdministrationProofs, ListingsProofs

An arrow points from a module to the one it extends. `MCInsurancePool` extends
`InsurancePool` for an instance of the flat pool alone.

**Sums**: the sum of a function over a set, by a fold of the community modules.

**InvoFiCommon** (constants only): the statuses, `ValidTransitions` (the match
in `validate_transition`) and `RecordTransition` (append, then evict the
oldest).

**InvoiceClaim**: the abstract specification. A claim is *unissued*, *live*
with one holder, or *settled* with none; it is issued once, traded while live,
settled once. It knows nothing of statuses, approvals, pauses or logs.

**Registry**: one action per entry point, named after it. An invoice record
that is not a key of the map is `AbsentInvoice`, an absent account is `Nobody`.
`MoveStatus` is `assert_transition` together with the write that always follows
it; `BurnToken` is `burn_invoice_token_if_exists`. `RegisterInvoice` is the
batch of one, which is what the two functions of the source agree on.
`by_origin` counts how often an account's index lists an invoice, because the
index is append-only and an invoice may come back. `RegUserNext` is what users
and admins do, `SystemNext` the three system transitions.

**Financing**: offers on top of `Registry`. `SettleAcceptance` is the part of
`accept_offer` that a converged negotiation shares. The callbacks
`RecordRepayment` and `RecordDefault` are not actions: `assert_only_repayment`
lets only the repayment contract call them, so they are parts of its actions.

**Repayment**: installments with whole-day pro-rata interest, the overdue
penalty with its cap, the reclaim of a default. The integer arithmetic is the
code's. `pay_out` appears by its result (at most what is asked and at most what
the pool holds), `record_outcome` by its two counters.

**Loan**: the abstract specification of what a lender is promised. A loan is *offered*,
*refused* or *running*, then *repaid* or *defaulted*; its terms are fixed by the offer, its
start by the acceptance; what is returned only grows, and what the pool covers is
one payout at most, for a default, within what it insured. A claim that somebody else moved,
or whose histories are full, is *astray*; on any other at most one loan is ever started,
and a loan on it is over exactly when its principal is back.

**Protocol**: the composition, the system properties, fairness, and the mapping to `Loan`: a
loan is an offer with the payouts on it, and a claim is astray once `SystemOnly` fails or it has
more payments than are summed.

**Negotiation**: the rounds on top of `Financing`, in a composition of its own
with the registry, without repayment: a negotiation is over when a loan runs.
`AmendOffer` and `CounterOffer` are the whole calls, settlement in the same
transaction included; if `ExecuteAgreement` refuses (the invoice is no longer
pending, the offer has expired, a party is blacklisted), the round fails with
it. `AcceptOutright` is `accept_offer` with what its settlement does to the
negotiation. `NegotiationStatus` is derived exactly as
`get_negotiation_status` derives it. A round of the model also carries its
caller and the number of rounds the caller had read (`by`, `read`), which the
properties need and the contract does not store. The duration of an offer is
not there: like the rate it is only validated and compared.

**Amendments**: what the originator may ask for and who decides it. The state
is the list of amendments per invoice and the remembered lender; of a record
only the field, the value asked for and the verdict are kept (the old value is
a copy for the reader of the log). `ResolveLender` is `get_invoice_lender`:
which of several active offers comes first in the order of the keys is left
open. The registry of the model knows its financing contract from the start, so
`set_invoice_lender` has no caller; what it stores before
`set_financing_contract`, when it asks nobody's authorization, is left out.

**Schedules**: `schedule_repayment` and the view `get_installment_due` as the
operator `GetInstallmentDue`.

**Servicing**: `Protocol` with both, so that a loan is amended and scheduled
while it is funded, disputed, repaid or written off around them. The three
steps are interleaved; none of the extensions writes the variables of the
protocol except `ApplyAmendment`, which writes the invoice.

**InsurancePool**: the flat pool alone. Stakers are numbers in the order in
which the host sorts the keys of the stakes map, because the loop of `pay_out`
gives the remainder to the last key. `Quot` is the division of `i128`, towards
zero. Tokens held by the contract are kept apart from `pool_total`.

**RiskTiers**: the tiers next to the flat pool. `ProRata`, the loop that
distributes a loss, is shared with the flat pool, as the two loops of the
source are the same; yield, payouts and reservations of a tier are actions of
their own because they differ (a fixed rate, a cap on the claim, an exit that is
refused while paused, claims that keep nothing back for others).

**Verification**: attestations of one invoice, oldest first. What a client
reads (`TypeStatus`, `InvoiceVerificationStatus`) is derived from the list, the
clock and today's configuration, as `type_status` derives it.

**Enumerations**: the list of the members of a set of numbers in order (`InOrder`), and the
list of those entries that are in a set (`Kept`). Both are given by the number of smaller
members, not by a recursion over the list, so that they can be reasoned about.

**EventIndexer**: the storage entries one by one (records, index per type, per
actor, list of all ids, two counters), the three queries, and a *client* that is
not part of the contract: it fixes a query and reads page after page while
other calls come between.

**OriginatorIndex**: the lists behind `by_origin`, with what `insert_sorted_id`
does to them, the pages of `get_originator_page` and a *client* reading them, and the
backfill as the hook of an upgrade (the earlier release, of which the source only
says that it kept no index, is external). `Registry` keeps these lists as counts.
Who may register or sell is a matter of `Registry`; here any order of such
calls is taken.

**Listings**: both indexes side by side, for one run; the contracts do not call
each other.

**Administration**: signers, threshold, pause switch and the replacement of the
executable, which every contract carries in the same form. An action takes the
list of accounts that the transaction provides, with repetitions. `code` is
what the ledger runs; `signed`, `lineage` and `misnamed` are history.

**Reputation**: the reputation contract in full, under its administration.

Mutants (`...KeepingToken`, `...Unlisting`, ...) are operators placed before
the definition they would replace; no specification uses them. Each one is a
plausible bug of the definition after it, and the property named with it in
`PROJECT.json` fails when it is put in its place.

### Abstractions

* Amounts are small integers of one currency; `i128` overflow panics in the
  build and reverts the call. A transfer that lacks balance or allowance
  reverts the call, and so does not appear.
* Signatures: an action takes its caller as parameter. Everywhere but in
  `Administration` and `Reputation` a quorum of admins is taken for granted.
* The wiring of insurance and reputation is the constant `Wired`; the other
  wiring setters are deployment steps.
* `offers_pending` is counted up by `create_offer` and by nothing counted down;
  it is kept as the code has it and no property speaks of it.
* An executable is a name, and a version a number in the order of versions. An
  upgrade replaces the code of the contract by another release with the same
  administration; what a hook does to data is left out.
* An attestation has no hash and costs no fee; an event has no payload.
* The invoice of `Verification` is a flag, whether it is Pending or Financed;
  `Registry` has its life cycle.

## 3. Runs

Nine passing runs. Sizes are distinct states with two workers.

| Run | Instance | States | What it shows |
|---|---|---|---|
| `MCRegistry.cfg` | 1 invoice, 3 accounts, 1 delegate, 1 account to blacklist, pause, a fee at and one above the ceiling | 0.52 M | `ClaimIntegrity`, `AuditTrail`, `SettledForever`, `TradeDiscipline`, and `ImplementsClaim` (refinement of `InvoiceClaim`) |
| `MCProtocolLoan.cfg` | 1 invoice, 2 accounts, 2 offers, penalties, *all* moves by hand | 0.36 M | the books: `BooksMatchOffers`, `HistoryMatchesOffers`, `ActiveOfferStillOwes`, `OnePayoutPerDefault`, `ReputationMatchesOutcomes` |
| `MCProtocolSettles.cfg` | 1 invoice nobody moves by hand, 2 offers that may be accepted after the due date and expire at the end of the grace period, 5 pause switches, an empty insurance pool | 0.13 M | `StatusAgreement`, `RepaidIsWhole`, `ImplementsRegistry` and `ImplementsLoan` (refinements), `FundedInvoiceSettles` (liveness) |
| `MCNegotiation.cfg` | 1 invoice that may be sold, 2 accounts (one may be blacklisted), 1 offer, 3 rounds over 3 amounts, a window that is reconfigured | 0.65 M | `AgreementIsMutual`, `EndedStaysEnded`, `RoundsWithinWindow`, `OutcomeMatchesOffer`, `BooksFollowTerms` |
| `MCServicing.cfg` | 1 invoice, 2 accounts, 2 offers, 2 amendments that lower the amount to the minimum or move the due date (one below the minimum is refused), schedules daily and weekly of 3 installments | 0.46 M | `FinancedTermsByLender`, `AmendmentsAreATrail`, `FirstUncoveredIsDue` |
| `MCRiskTiers.cfg` | 3 stakers, 2 reserved offers (one of them once yield accrues), 1 default; the flat pool, a tier that covers a third and one that covers all | 0.34 M | `TotalIsSumOfStakes`, `LossIsProRata`, `ReservationsAddUp`, `ReservationsStayCovered`, `YieldIsProspective`, `TierBooksAgree`, `TierLossIsItsOwn` |
| `MCVerification.cfg` | 3 verifiers for 2 seats, 2 facts, room for 4 attestations, thresholds 1 and 2 | 0.73 M | `VerdictNeedsQuorum`, `EvictionIsSilent`, `PokeIsUnobservable` |
| `MCListings.cfg` | 3 events of 2 types and 2 actors; 3 invoices of 2 accounts, lists of up to 3, an upgrade from an earlier release and back; a client with pages of 1 and 2 for each | 0.78 M | `IndexesAgree`, `PagingIsComplete`, `PagesMissNothing`, `ListedUnlessOvertaken` |
| `MCReputation.cfg` | 3 accounts, 2 signers at most, 3 executables (one with a failing hook), 3 versions; 3 outcomes over three half-lives | 0.06 M | `AdminByQuorum`, `MetadataFollowsCode`, `FreshCountInFull` |

What the newer ones show, in a sentence each:

* a financed invoice changes its terms only by the lender's approval of a
  pending request, to exactly what was asked, and the lender the registry
  remembers has principal out on the invoice then, although it was
  read from another contract some time before and is never refreshed;
* the installment a keeper is told to ask for is the first one that is due and
  not covered, whatever was paid when;
* what a tier pays is taken from the stakes of that tier, in proportion, and
  partial claims together stay under the part of the claim that the tier covers;
* verdicts count verifiers, not records; a full list costs nobody's vote; the
  sweep of expired attestations can be run at any time or never;
* a client of an account's list misses no invoice although ids are inserted in the
  middle of the list between its calls (it may read one twice or out of order), and
  every invoice is listed after an upgrade unless a registration overtook the hook;
* paging the event index with positions as offsets is complete as long as nothing is pruned,
  and never repeats an event even then;
* no change of the administration without a quorum of distinct signers, and
  after it a quorum can be reached again; a rollback undoes one upgrade, the
  last, and only once, also when a hook fails in between.

Deadlock is not checked (`CHECK_DEADLOCK FALSE`): when the clock has reached
its bound, all invoices are settled and no admin acts, the system may stop.

### Bounds, and why they are enough

The constants of the code are scaled so that the interesting cases fit:
a day is one tick, a unit of basis points is 10, a year 20 (`YearBps`), the
minimum invoice is 10 (9 where amendments lower an amount of 10), the grace period one tick. With principal 10 and rate 5
a loan accrues interest from the first day, a payment of 5 is split between
interest and principal, a payment of 10 may or may not close the loan, and the
clock (0..3) passes the due date (1), the grace period and one more tick in
which a repayment and a reclaim race. `MaxHistory` of 1 or 2 makes the history
evict; 5 or 6 where a property uses the whole history as evidence that nobody
intervened. `MaxPayments` below `MaxRecorded` reaches the payments that are
stored and no longer summed; `HistoryMatchesOffers`, `ActiveOfferStillOwes` and `RepaidIsWhole`
say nothing of an invoice from then on. Three stakers with deposits of 2 make every share
of a payout of 5 round. `MaxListed`, `MaxTime`, `MaxRecorded`, `MaxStake`,
`MaxReserved` and `MaxFunds` only keep the state space finite.

A third of a claim and a stake of 2 or 3 make the shares of a tier round. Four
places for attestations are the least the arithmetic behind `evict_one_slot`
allows for two seats and two facts (60 = 20 · 3 in the code), so the list is full
as soon as a verifier has been replaced. Two half-lives and more fit in the clock
of the reputation run. Pages of one and two leave a query of three events
unfinished in both ways, short page or empty page.

Six runs cut the state space with a constraint:

* `OnePauseAtATime` (settling run) follows an invoice as long as nobody moved it
  by hand, with at most one contract paused. `StatusAgreement` and
  `RepaidIsWhole` speak of such invoices only, and
  `FundedInvoiceSettles` is discharged in every state cut off, so a
  counterexample's tail lies within the constraint; since pausing only disables
  other actions, any state with no contract paused is also reached without two
  pauses at once.
* `NegotiationMatters` (negotiation run) follows an invoice only while it is
  pending or financed by its offer, and stops blacklisting once the offer has
  left Pending. The steps into the states cut off are still checked; from
  there no round and no settlement is possible, except after a dispute that
  is resolved to Pending, which only changes the history. Offers are
  opened at the amount of the invoice and reach the other amounts by
  amendment. Three rounds and three amounts are the least with which a
  proposal is superseded and then met; the clock (0..2) passes the shorter
  window (1), and reaches the end of the longer one (2), which the model's
  second round would overrun if it moved the deadline.
* `AmendedOrScheduled` (servicing run): either amendments or a schedule of one
  offer is followed. Neither extension reads what the other writes: a schedule
  is computed from the offer, which no amendment touches, and nothing reads a
  schedule but its view. Amendments are followed until the invoice reaches a
  status from which it cannot become Pending or Financed again, and before the
  first installment, which no amendment reads.
* `FlatOrTiers` (insurance run): either the flat pool or the tiers are
  followed; they share only the pause switch, the clock, the defaults and the
  contract's tokens, to which `Fund` adds in either case. In the flat pool two
  offers hold reservations before yield accrues and one while it does, so a
  reservation still meets accruing yield. Of the tiers three
  stakes and two reservations exist at once, and either time or reservations
  move: yield is no part of any reservation.
* `EitherListing` (listings run): either index is followed; they belong to
  contracts that do not call each other.
* `AdminOrOutcomes` (reputation run): outcomes need the administration only for
  the quorum, the administration never looks at a record; one of them moves
  while the other is as deployed.

Symmetry over offers (loan, servicing and insurance runs) and over verifiers and
facts (verification run) is used for safety only, where neither the initial
states nor the actions tell them apart.

### Fairness

`FairSpec` assumes only: time passes; somebody eventually pokes an overdue
invoice (`mark_overdue` is open to everybody, a keeper suffices); a lender
whose offer stays reclaimable reclaims it (nothing else is left for it to
do). The insurance pool of the instance is empty, its worst case: a reclaim
then pays nothing and must still go through. Borrowers may never pay and admins may never act. Under it every invoice
that was financed, and whose status nobody moves by hand, ends `Repaid` or
`Defaulted`, unless some contract is paused. The property exempts a history
that has been evicted, which the bound 6 never lets happen before the end of a
loan.

## 4. Disagreements between code and text

Each of these has a run of one property that TLC violates; the property states
the text.

| Run | The text | The code |
|---|---|---|
| `MCDocUnstakeOverdraws.cfg` | `insurance/src/lib.rs:951-953`: unstake can never overdraw the pool | the last key takes the whole remainder of the rounded shares, even beyond its balance, which may turn negative |
| `MCDocLenderSovereign.cfg` | ADR-0012, line 25: the lender has complete sovereignty over whether to permit face-value reductions | the originator disputes the financed invoice, moves it back to Pending (`registry/src/lib.rs:830`, the table allows it) and lowers the amount there (878, or an amendment approved at once), with the offer active |
| `MCDocHistoricalListed.cfg` | `registry/src/lib.rs:253-254`: the backfill rebuilds the index from the invoices map so historical invoices stay listed | the backfill runs in `post_upgrade`, one transaction after the new executable took over, and does nothing once an index is stored (256); a registration in between stores one, and the earlier invoices are never listed |

Met while modelling, without a run of their own:

* `accept_offer` does not compare lender and originator as `create_offer` does
  (`financing/src/lib.rs:507`); a lender that has bought the token in between
  accepts its own offer, which `docs/threat-model.md:119` calls mitigated;
* the originator of a financed invoice may dispute and cancel it
  (`registry/src/lib.rs:830`, `903`), after which the active offer can be neither
  repaid nor reclaimed; `docs/threat-model.md:110` lets originators move
  pending invoices only;
* interest is recomputed from `funded_at` at every payment and interest already
  paid is not credited, against `repayment/src/lib.rs:689-690`;
* `set_fee` writes the registry's storage, `get_fee_bps`
  (`financing/src/lib.rs:1141`) reads that of financing, which nothing writes:
  the fee of `docs/threat-model.md:29-30` is never charged;
* `unstake_tier` is refused while paused, whereas ADR-0011 keeps the exit open
  and `unstake` does; `claim_payout_tier` pays from what other offers
  have reserved and `pay_out_tier` ignores reservations;
* `remove_verifier` (`registry/src/lib.rs:1389-1393`) says that the
  attestations of a removed verifier still count until they expire;
  `type_status` hears today's verifiers only. Consequently a fact can become
  Verified with no new attestation, when a rejection lapses or a verifier is
  trusted again;
* a negotiation whose offer is accepted outright reads as `Accepted`:
  `settle_acceptance` (`financing/src/lib.rs:551`) stores that on both routes to a
  settlement, as ADR-0008 (lines 113-115) wants; the comment on `get_negotiation_status`
  (940-942) says that an offer "withdrawn, rejected, or accepted outright" reads as
  `Closed`. `OutcomeMatchesOffer` follows the code and the ADR;
* a counter-offer is held against the invoice, not its author
  (`financing/src/lib.rs:752`): the buyer of the token is bound by the seller's when the
  lender amends onto it, and `AgreementIsMutual`, which looks at rounds and not at holders,
  allows it; `financing/src/lib.rs:669-671` says neither party is
  ever bound to terms they did not themselves put on the table;
* `get_invoice_lender` (`registry/src/lib.rs:1838`) remembers a lender, hence writes, also while
  the registry is paused; ADR-0001 (lines 16-17) says that every state-changing function
  begins with `assert_not_paused`. Nor do `upgrade` and `post_upgrade` with its backfill,
  which belong to models of their own;
* `set_invoice_lender` (`registry/src/lib.rs:1866`) asks the registered financing
  contract for its authorization, and nobody as long as none is registered; the comment (1865)
  says "Callable by the registered financing contract or admin". Financing never calls
  it, and the model's registry knows its financing contract from the start, so nothing is
  remembered there but what `get_invoice_lender` found;
* `get_installment_due` speaks of offers that were withdrawn or rejected after
  they were scheduled, holds `amount_repaid` (principal only) against
  installments that include yield, and keeps the installment amount when
  `amend_offer` changes the offer's;
* every write restarts the clock of the decay (`reputation/src/lib.rs:105-115`), so
  under repayments more frequent than a half-life an old default keeps its full
  weight; ADR-0004, line 44, says that it weighs less after months of clean
  repayment;
* a favourable `resolve_dispute` takes off the full weight of a default also when
  it has decayed, at the expense of the other defaults' weight;
* a pending upgrade whose hook fails can be neither completed, rolled back nor
  replaced by another (`common/src/lib.rs:249`, `288`); the hash retained for
  a rollback is what the signers say it is (`misnamed` in the model);
* `transfer_admin` needs no consent of the new admin;
* the comments on `update_invoice_status` (`registry/src/lib.rs:827-829`,
  Pending → Cancelled only), `cancel_invoice` (890),
  `set_invoice_repaid_status` (924-925) and `resolve_dispute` (1148-1149) are
  narrower than the table that these functions rely on;
* the comment on `assert_transition` (`common/src/lib.rs:1350-1352`) mentions
  a check of the due date that its callers make;
* an offer may exceed the invoice after `update_invoice_amount` lowers it
  (`financing/src/lib.rs:397-400` checks at creation only), and after
  Disputed → Pending a second offer can become active;
* `assert_terms_valid` does not consult the invoice, so a negotiation reaches
  amounts above the invoice's, which `create_offer` refuses;
  `financing/src/lib.rs:153-155` and ADR-0008 section 6 say it cannot;
* `accept_offer` takes no `expected_round`: what the originator accepts is
  what the lender last wrote, also when it was written after the originator
  looked (`amend_offer` documents this);
* an offer accepted outright after its negotiation was closed or recorded as
  expired keeps that outcome, so `Accepted` is not the only outcome of a
  settled offer;
* payments are stored by invoice and count towards a later offer on it;
* `pay_out` and `unstake` look at the pool total and not at what is reserved
  (`insurance/src/lib.rs:1239-1241`), and yield is paid from the tokens that
  back the stakes;
* `pay_out` does not bank yield before it shrinks the principal.

The dead end of an overdue invoice (only a default leaves it) is documented in
ADR-0007 and in `docs/threat-model.md`; it is modelled and not a finding.

## 5. Proofs

TLC checks instances; the theorems hold for all sets of invoices, accounts and
offers, and for all amounts, rates, limits and clocks that satisfy the assumption
of each module (`RegistryAssumption`, `FinancingAssumption`,
`RepaymentAssumption`, `AmendmentAssumption`, `ScheduleAssumption`, `NegotiationAssumption`, `PoolAssumption` and
`TierAssumption`, `VerificationAssumption`, `AdministrationAssumption`,
`ReputationAssumption`, `IndexerAssumption` and `OriginatorIndexAssumption`), which TLC evaluates on every run. They say that limits are
numbers, that units are positive and that a special value is none of the regular
ones. Two sets are assumed finite, because a sum runs over them from the
first state on: the offers of the insurance pool (ids are symbols of bounded length)
and the facts of the oracle (an enumeration). `MaxAttestations` is
assumed large enough for the seats and facts, as 60 is for 20 and 3.

**FiniteSums** has no state: facts about sums over finite sets and about
cardinalities. Sums are folds, defined by recursion over subsets that takes *some*
element off each time; `SumTakeOff` shows that the choice does not matter, and
`SumStep` and `CardinalityStep` are what the other proofs use: if a
function changes at one point, its sum moves by the difference there. Induction is
by a minimal counterexample (`MinimalSubset`, `LeastNatural`): the set of the
subsets, or lengths, for which a statement fails has a least element if
it is not empty. This replaces the library's induction theorems, whose operator
parameter no installed prover can instantiate, and it is used in the same way
for the recursive functions of the model (the payout loop, the halvings of the
reputation, the list without one verifier's statement).

**RegistryProofs.** The registry has some twenty actions that write an
invoice's records in only five ways: registration, a change of status, of the
amount, of the holder, of the approval. Lemma `StepKinds` reduces every step
to these or to one that is quiet; each property is then proved over them.

* `RegistryTypes`: `RegTypeOK` is inductive.
* `RegistryClaimIntegrity`: inductive together with `RegTypeOK`. The point of
  the argument is lemma `StatusStepClaim`: a status only ever leaves a live
  state, where by the invariant there is an unburned token, so the
  conditional burn burns exactly when the new status is terminal.
* `RegistrySettledForever`, `RegistryTradeDiscipline`,
  `RegistryIndexCovers`: from these two.
* `RegistryAuditTrail`: lemma `RecordTransitionChained` shows that appending
  and evicting keeps a history without gaps, for any positive bound.
* `RegistryImplementsClaim`: the refinement of `InvoiceClaim`; a registration
  is an `Issue`, a trade a `Trade`, a change to a terminal status a `Settle`,
  all else is invisible.

**ProtocolProofs.**

* `ProtocolTypes`: needs `OffersNameTheirParties` (an offer in the map names
  an invoice and an account).
* `ProtocolImplementsRegistry`: no call on another contract touches the
  registry but by a system transition. Its corollary `ProtocolKeepsClaims`
  carries the registry's results over to the whole.
* `ProtocolPauseFreezes`.
* `ProtocolActiveOfferStillOwes`: not inductive as it stands. A pending offer
  inherits the payments of its invoice when it is accepted, so `LoanInv`
  speaks of all offers: nothing is repaid on an offer that was not accepted,
  the recorded principal of an invoice is at least what any one of its offers
  counts as repaid, and an installment that leaves the offer open leaves the
  recorded principal below the offer's amount.
* `ProtocolOnePayoutPerDefault`: inductive as `PayoutInv`; the offer is frozen
  after its default, so the bound on the payout stays true.

Its second half is about state that is kept twice, in the three contracts together. Only
finitely many offers have been made in any reachable state, so no finiteness is assumed.

* `ProtocolBooksMatchOffers`: every call changes one offer `f`, and
  `EntriesOf` computes what each counter has to move by from `f` before and
  after; `EntriesOfOfferStep` compares that with what creating, accepting,
  rejecting, repaying and reclaiming write.
* `ProtocolHistoryMatchesOffers`: the summed principal and the sum over the offers of
  the invoice move by the same installment, as long as it is still summed.
* `ProtocolStatusAgreement`: not inductive, since its counts do not say *which* offer is
  active. `StoryInv` does: while only the contracts have moved an invoice,
  its funded offers are none (Absent, Pending) or exactly one, in a status that
  fits the invoice's. It rests on `AuditTrail`: a status somebody moved by hand leaves
  its trace in the history as long as nothing was evicted.
* `ProtocolRepaidIsWhole`: by `StoryInv` the offer that a repayment closes is the
  only funded one, so by `HistoryMatchesOffers` the recorded principal,
  which the contract compares with the offer's amount, is that offer's own.
* `ProtocolImplementsLoan`: the refinement of `Loan`, on top of all of the above.
  `LoanOfOfferStep` maps each call about an offer to a step of that one loan: an
  acceptance finds no other loan started (`AcceptedAlone`, from `StoryInv`), an
  installment ends the loan exactly when the principal is back (`HistoryOfActive`: what
  the contract compares is the account of this offer), a reclaim leaves one payout
  within the insured (`CoveredOnce`, from `PayoutInv`); no call brings a claim back that went
  astray (`AstrayGrows`). The run checks it on a claim left to the protocol; the theorem
  holds for claims that go astray as well, which lose those two promises and no other.
* `ProtocolReputationMatchesOutcomes`: `OutcomesInv` adds that the sets counted are finite;
  a settlement by repayment adds one invoice to one of them, and `SettledForever`
  keeps it there with its originator.

Its last part is about **Servicing**. `AmendmentKinds` reduces a call on the amendments to three kinds: it only
looks the lender up, it adds an entry, or it decides one.

* `ServicingKeepsLoans`: types, `ClaimIntegrity` and `LoanInv` survive, because an amendment
  writes an invoice's amount or due date, and a schedule nothing of the loan.
* `FinancedTermsChangeByLender`: not inductive; the registry remembers a lender for good and
  never asks financing again. `LenderHolds` closes the gap: whom it remembers has principal out
  on the invoice until that is settled, because the calls that end an active offer
  settle its invoice too (`LoanStepKeepsLenders`).
* `AmendmentsLeaveATrail`: appending moves no entry, and only an entry that waits is decided.
* `DueIsFirstUncovered`: `DueByDivision`, that counting elapsed periods and covered
  installments by two divisions finds the first that is due and uncovered one by one.
  `InstallmentsCount` rules out a division by zero, `LoanInv` a negative sum repaid.

**PoolProofs.** `TierInv` collects types, totals and reservations of the flat
pool and of all tiers, and is inductive; one lemma for each action.

* `PoolTotalIsSumOfStakes`, `TiersBooksAgree`: what the payout loop takes from the
  stakes is the payout exactly (`LoopTakesPayout`), because the last key
  takes the rest.
* `PoolReservationsAddUp`, `PoolReservationsStayCovered`: a claim lowers what is outstanding and the
  pool by the same amount.
* `PoolLossIsProRata`, `TierLossStaysInTier`: `LoopFallsShort` is the loop
  invariant. After n keys the loop has taken no more than the exact share of these n,
  and less by under one unit per key; so the `min` with what is left of the payout
  never cuts a share (`FairUpTo`), and what the last key absorbs is bounded
  by the number of stakers.
* `PoolYieldIsProspective`: a change of rate, or a deposit, banks before it
  changes the balance or the rate. A first attempt, over every step that raises a stake, failed for
  a reason: a payout can raise a stake that is negative (dividing rounds
  towards zero) without banking its yield. The property now names the two calls that promise it.

**VerificationProofs.** `VerInv`: types, one statement of a verifier about a fact
(`OneStatementEach`), at most `MaxAttestations` of them.

* `VerdictsNeedQuorum`: with one statement each, the map from records to verifiers
  is a bijection, so the records that `type_status` counts are as many as the verifiers
  (`HeardAreVoters`).
* `EvictionsAreSilent`: `TrustedNeverFill` is a pigeonhole argument over pairs of a
  verifier and a fact. The statements of those who hold a seat never fill the list
  while one of them has not spoken, so in a full list somebody without a seat is
  found, and dropping such a statement changes no verdict.
* `TrustedFindRoom`: `AlwaysRoom`, the same for the list as it is: `evict_one_slot` never
  finds a full list without a record it may take.
* `PokesAreUnobservable`: the sweep turns statuses into what `StatusAt` already reads.

**NegotiationProofs.** `NegStepKinds` reduces a step to one of five things that can
happen to one offer (`OfferMoves`) or to one that leaves all negotiations alone.
`NegInv` has these parts besides the types: `WindowInv` (rounds lie in the past and
in the window), `OutcomeMatchesOffer`, `LastOfLenderStands` and the books.

* `NegotiationRoundsWithinWindow`, `NegotiationOutcomeMatchesOffer`, `NegotiationBooksFollowTerms`,
  `NegotiationEndedStaysEnded`.
* `NegotiationAgreementIsMutual`: the code compares an amendment with the latest
  counter-offer, but a counter-offer with the *offer as it stands*.
  `LastOfLenderStands` closes the gap: the standing terms are those of the lender's last round.

**AdministrationProofs.** `StepIsAdministration` sets aside the steps of the
reputation contract proper, which leave the administration alone.

* `AdministrationByQuorum`: inductive with `ConfigInv` (no signer twice, a
  threshold between one and their number). A list without repetitions has as
  many members as entries (`InjectiveCount`), which turns the count of
  signatures that `assert_threshold` makes into a count of signers.
* `MetadataFollowsExecutable`: `MetadataFollowsCode` is inductive with the types
  of its variables; one lemma for each of upgrade, completion and rollback.
* `ReputationCountsFresh`: `FreshCountInFull` is not inductive, because a halving
  might hit a fresh outcome. `WeightInv` adds that no outcome is younger than the last write:
  when a full half-life has passed since then, nothing recorded is fresh any
  more and the lower bounds are zero (`WeighsDecayed`).

**ListingsProofs.** Its first part is about lists in order. The n-th entry of `InOrder(S)` is the
member with n - 1 smaller ones (`InOrderFacts`), and an increasing list is the list of its
members (`InOrderUnique`). From these: a member above all others is appended (`InOrderAppend`),
keeping entries of such a list gives such a list (`KeptInOrder`), and if members are
taken out, the n-th entry of the rest is not smaller than the n-th was (`PartIsLater`).
Each part has an invariant, `IdxInv` and `OriInv`, checked by TLC before it was proved.

* `EntriesAgree`: the properties of a query's result all follow once every index is
  `InOrder` of what its query finds in the store; `record_event` appends to exactly the
  lists whose query finds the new record (`RecordFound`), and what `prune_events`
  takes out of an index by the type or account *of the record* is all of it that is
  gone (`PruneIndex`).
* `QueriesReadAll`: not inductive, since it says nothing of a client half way. `Scanning` does:
  all it has read is smaller than every entry from its offset on. A prune moves later
  events to places the client has passed, never earlier ones ahead of it (`PartIsLater`),
  so it can hide an event but not repeat one; and what is recorded has an id above
  all that was read. The queries by type and account cut
  the index before they look at the store and the query by time after, and both
  deliver the same page (`QueryIsPage`) because no index holds an id without a record.
* `PagesReadAll`: `Reading` says that what is due and not yet read lies ahead of the
  client's place. `Grown` is what every call does to a list: it stays as it is or gets
  longer, and no entry moves to an earlier place (`InsertGrows`, `BackfillGrows`).
* `ListsHoldInvoices`: needs that invoices with a token have an index, and that
  without one a registry that is neither upgraded nor overtaken has no invoices
  (`ListingsKept`).

Both type invariants, the pause of the protocol's calls and the index (`RegTypeOK`, `TypeOK`,
`PauseFreezesProtocol`, `IndexCoversHolders`), and `AlwaysRoom`, hold for every instance by
these theorems and are not repeated by the runs.

Only model-checked:

* `FundedInvoiceSettles`: liveness under fairness, and with it `ENABLED`, is
  out of the prover's reach;
* the three runs of §4: they show violations.

## 6. Not modelled, and the plan

Next: the fee of an attestation, as a movement of tokens of the originator.

Left out for good: the currency registry (a lookup), getters
that only read (`get_invoices_*`, `get_offers_*`: one call, no index), `assess_risk` (a pure view
that no contract calls), the rate table, event payloads, TTL extension of
storage, scripts, workflows and coverage tooling. They hold no protocol state
or only format it.
