# Midas Touch in TLA+

This directory is a verification project for the Midas Touch trading system:
an Expert Advisor (EA, MQL5) in a MetaTrader 5 terminal, a bridge (Python,
FastAPI, PostgreSQL, Telegram) that keeps the durable record of what the EA is
allowed to risk and passes signals, configurations and payments on, and the
research tools that judge its results. It holds TLA+ modules translated from
the source, TLC configurations that check them on small instances, and proofs
that TLAPS checks for every value of the constants. `PROJECT.json` ties each
definition to the lines it models.

Paths below are relative to the repository root; `bridge` is
`telegram-bridge/app`, `EA` is `EA/MedisTouch_v2.8.mq5`, and `includes` is
`EA/includes`.

## 1. Inventory

| component | state | operations | what is hard | what makes it correct |
|---|---|---|---|---|
| Execution ledger (`bridge/execution_control.py`, `bridge/api/execution_ledger.py`) | ledger rows, reservations, deal events, stop modifications, in PostgreSQL | reserve, transition, lease sweep, sync position / order / closure, risk update, deal event, prepare and confirm a stop modification | calls repeated, late and out of order; rows found by non-unique identities; concurrent transactions | risk is released only when nothing can be at the broker; admission bounds what no broker object backs; outcomes are final |
| EA submission and reconciliation (`EA`, `includes/Execution/ExecutionLedgerClient.mqh`, `BrokerAdapter.mqh`) | readiness flags, the leg being submitted, deals announced | reserve - checked - sent - submit - report; deal reports; snapshot | crash between any two steps; lost, delayed and half-done calls; a broker that acts on its own | intent durable before the order; exposure never outside the book; healthy means it agrees |
| Signal intake and delivery outbox (`bridge/routes.py`, `signal_outbox.py`, `telegram.py`) | signals, trade events, outbox entries, messages in the chat | intake, claim, send, record, retry, lifecycle update, pause | a claim without a row lock, lost answers of Telegram, a crash after the send, two ways to send one row | what is refused or muted is never posted; what is accepted is recoverable; what is delivered stays so |
| Subscriptions, payments and the copy-trading switch (`bridge/subscriptions.py`, `payments_bot.py`, `group_enforcement.py`, `settings_store.py`, `copytrading_admin.py`) | subscribers, payments, bot settings, the group | payment, renewal, sweep, ban and unban, two-step ON, OFF | webhooks redelivered and concurrent; statuses written from earlier reads; two commits | paid time counts once and is served; OFF stays off |
| Configuration, recalibration and promotion (`bridge/api/config_sync.py`, `api/backtest_evidence.py`, `recalibration_lifecycle.py`, `config_promotion_gate.py`, `bot_promotions.py`, `includes/Signals/ConfigSync.mqh`) | registry, evaluations, promotion requests, the symbol's sync row, what the EA acknowledged | ingest, evaluate, tap, poll, acknowledge, runtime report, rollback | check-then-insert, two taps, a lost acknowledgement, rollback during a promotion | what trades was approved on sound evidence and acknowledged; unhealthy reports do not roll back for ever |
| Outcomes and calibration (`bridge/routes.py`, `bridge/calibration.py`, `tools/gating.py`, `tools/regime_allocation.py`) | signals, outcomes, calibration cycles, promotion cards | deliver an outcome, run a cycle, decide a version | redelivered and overtaking outcomes, cycles run at once, stored order against read order | evidence is kept, only verified decisions count, promotion needs persistence |
| Reference execution stack (`medis_touch/app`) | SQLite journal and admission ledger, coordinator processes | execute, journal, send, fill, reconcile, recover | crash after the send, lapsed reservations, two processes on one order | a child is sent once; what the broker dealt is accounted for |
| Research tools (`tools/`) | deal exports, the reservation of the holdout, its consumption lock | reports, comparisons, walk-forward folds, the one-shot gate | positions that straddle a boundary, runs that fail or are killed | the holdout is scored once and shown by no guarded report; no fold sees its future |
| EA order manager, trade state machine, recovery (`includes/Execution/OrderManager.mqh`, `TradeStateMachine.mqh`, `includes/Recovery`) | trades per leg in memory and on disk | submit, bind, partial fill, cancel, prune, restore | restart with partial local state; retries | one submission per leg |
| EA position manager (`includes/Execution/PositionManager.mqh`) | admission latch, stop intents | intent, broker change, confirmation | a stop changed without a durable intent | admission stays closed while an outcome is unknown |
| EA emergency stop, risk guard, daily target | persisted latches | halt, resume | latch set before it is persisted | a halt survives a restart |
| EA multi-trade and portfolio policies (`includes/Portfolio`) | none (pure) | leg plans, admission of opposing positions | arithmetic at boundaries | plan within budget |
| EA analysis, scoring, outcome tracker, user interface | price windows, statistics | bar by bar numeric detection | floating point | heuristic, no stated property |
| Reference payments and lifecycle (`medis_touch/app/payment_webhook.py`, `lifecycle_engine.py`) | one table each | webhook | not in production | reference only |
| Telegram operator bot, formatting, rate limit, deployment scripts | little | commands | none | wording, operating system |

How they interact. The EA is the only writer of trades. Before an order it
calls the bridge's ledger (reserve, CHECKED, SENT), after it the ledger again
(ACKED, FILLED or RECOVERING). MetaTrader calls the EA back for every deal, and
the EA forwards each to the ledger. On start, and from the timer while it is
not ready, the EA sends a snapshot: lease sweep, open positions, pending
orders, deal history, closures. Signals leave the EA to the bridge, which
stores them and their outbox entry in one transaction; a worker posts them to
Telegram, and the outcome the EA measures later is stored against the decision
it belongs to. A weekly cycle reads those outcomes, and asks the operator to
promote a weight version. Configurations come from Strategy Tester reports,
pass the promotion gate and the operator, and go to the EA through the sync
endpoints. Telegram's webhooks bring payments and the operator's commands.
The reference stack and the research tools share no state with any of this.
Hence seven groups of modules that do not share variables.

## 2. Modules

| module | models | composed with |
|---|---|---|
| `RiskBook` | abstract: what the ledger promises about risk | - |
| `ExecutionLedger` | every state-changing handler of the ledger, one action each | implements `RiskBook` (`KeepsRiskBook`) |
| `LedgerTransactions` | five of those handlers as statements with locks in concurrent sessions | extends `ExecutionLedger`, implements its atomic actions (`AtomicHandlers`) |
| `SubmissionRecovery` | EA, network, broker and bridge together | instantiates `ExecutionLedger` as the bridge |
| `SignalDelivery` | intake, outbox worker, trade events, both retries, lifecycle, pause | - |
| `Membership` | payments, sweep, group, master switch | - |
| `BacktestEvidence` | what a Tester report is accepted as and concluded to be; the promotion gate | pure operators |
| `Configuration` | registry, promotion, synchronization with the EA, rollback | extends `BacktestEvidence` |
| `Calibration` | outcomes, cycles, the statistical gate, regime multipliers | - |
| `ReferenceExecution` | coordinator, journal and admission of the reference stack, with a venue | - |
| `ResearchHoldout` | every command that reads a deal export, and the one-shot gate | - |
| `*Proofs` | theorems about the module they are named for | extend it |
| `MC*` | values of the constants, casts and symmetry for TLC | extend it |

### ExecutionLedger

`ledger`, `reservation`, `deals`, `mods` are the tables `execution_ledger`,
`portfolio_reservations`, `execution_deal_events` and
`execution_position_modifications`; `expired` is the set of rows whose
`lease_until` lies in the past. A handler runs in one transaction and a 4xx
answer rolls it back, so each action is a whole handler and its guards are the
handler's refusals. A call that is answered without a change (a repeated
reserve, a repeated final closure) is stuttering.

Three details are worth knowing when reading it next to the code.

- `_lookup_broker_record` has no `ORDER BY` and its columns are not unique, so
  `BrokerRecords` is a set and the action picks any member.
- An observed position overwrites every state, `RECONCILED` included
  (`AdoptOpenPosition`); an observed pending order leaves a terminal state but
  holds its reservation again (`SyncPendingOrder`).
- Stops are ordered by protection, so that BUY and SELL are one case. Risk is
  in whole units, so the code's `1e-9` tolerances disappear.

### RiskBook

A request's reservation, the requests a broker identity is known for, and the
portfolios whose admission is blocked. It is the promise a caller of the ledger
relies on: admission respects the ceiling and is closed while a stop
modification is unresolved, and only an observation of the broker may take a
book over the ceiling.

### LedgerTransactions

Each session holds a call record: what it has read, where it is (`Statements`),
and the locks it owns. Advisory lock of the portfolio, row locks and the unique
key on `request_id` are the locks; writes take effect at commit. `Fail` is any
rollback: a crash of the bridge, a lost connection, a deadlock victim. It shows
which handlers the locks make atomic, and finds one exception, stated as
`StaleLookup`: a snapshot or a closure looks its row up by position under the
book lock, while `/transition`, which takes no such lock, records the position
on another row before the commit.

A row that the lease sweep has merely locked does not make an insert of the same
key wait (`Swept`); the other handlers have written their row by the time they
next wait for a lock, since a session flushes before it queries.

### SubmissionRecovery

`pc` is where the EA's single thread is: `idle`, in a submission (`reserve`,
`checked`, `sent`, `submit`, `ack`, `fill`, `ambiguous`), in a stage of
`ReconcileBrokerStateSnapshot` (`Stages`), or `down`. `healthy` is
`g_executionLedgerHealthy`, `admission` is the ledger client's
`m_admissionHealthy`, `used` is the durable decision store. Each call ends as
`Posted` (the bridge applied it and the EA knows) or `NotPosted` (refused, lost
on the way, applied but the reply lost, or, where the network is `slow`, still
under way and applied later by `Arrive`). The broker opens, rests, drops and
closes on its own; a position may also be closed by the owner, with another
magic number than the EA's. `OnTradeTransaction` and the history replays pass
over deals they cannot select, that bear another magic, or that name no
position, and say nothing (`PassOver`, `Skip`); `missed` is the history of those
no reconciliation has made up for. `Crash` may come between any two steps and loses everything
but the ledger, the broker and the decision store.

### SignalDelivery

`row` is a signal or a trade event, `outbox` its delivery entry, `chat` the
messages Telegram holds for it, each with its banner. A process (`proc`) is the
outbox worker or a request; what it read it keeps in its record, and whatever
it writes later it writes from there. A send has three ends: acknowledged, lost
on the way, or posted with the answer lost. The claim (`ReadEntry`,
`ClaimEntry`) is a read and a later write, as in the code, so two workers may
take one entry. Whether a symbol is muted and how old a row is are choices.

### Membership

`sub` is the subscriber row; a call keeps the row it loaded in `seen` and
writes only the columns it changed (`Written`), which is what SQLAlchemy's
UPDATE does. The sweep (`SelectDue`, `Flush`, `Commit`, `Ban`, `Unban`) has the
two autoflushes of the code: the rows to warn and to expire are written, still
uncommitted, before the rows to remove are selected. `stale` is a history
variable: whom a call acted on after somebody else changed the row. The
properties say what holds for everybody else, that is, precisely which overlap
does the damage.

### BacktestEvidence and Configuration

A report is a set of trades with their partition, fold, times and outcome; the
statistics of the code are either computed (degradations, in hundredths) or a
fact of the fold (whether two Wilson intervals overlap). `Accepted`,
`Decision`, `Complete` and `Promote` are the refusals and conclusions of
`ingest_backtest_evidence` and `evaluate_challenger`.

`Configuration` has one symbol; a configuration is its place in the order of
registration, so that "latest champion" is a maximum. `sync` is the row of
`config_sync_states`, `ea` what the EA remembers. Calls again write the columns
they changed of the row they loaded. Quarantine, shadow and challenger review
have no code (`Review` is external). `past` records what the properties compare
with: what the EA ever acknowledged, how many rollbacks followed the last
approval, what was approved last and which overlaps happened since.

### Calibration

`source` is the parity of the stored decision of a signal, `outcome` the row of
`signal_outcomes`, with the two flags `outcome_history_complete` and
`cashflows_known` as "yes", "no" or "null". `Applied` is
`_apply_outcome_fields`: a flag the payload does not carry keeps what is stored,
any other replaces it. The payloads are what current builds send, which always
name both flags (`SignalPublisher.mqh:58`), with complete evidence, unknown
costs or an incomplete history; what older builds send, without the flags; and
one under another fingerprint. The second of two
first deliveries is refused by the unique key and retried as an update
(`InsertRefused`). Cycles are appended by `generated_at` while they commit in
any order. What a metric does is a grade of the signal (`Grades`), on a coarser
scale than the code's confidence intervals: the interval is a point and
movements are by whole grades, which leaves the rules of `decide` and
`propose_multiplier` as they are.

### ReferenceExecution

`row` is the recovery journal, `reserved`, `lapsed` and `committed` the
admission ledger, `broker` the venue, `worker` the processes in
`GovernedExecutionCoordinator.execute`, one action per journal, ledger or venue
call. The sums of fills and reservations are computed. The journal keeps a deal
of a child in the parent's row under the child's id, the in-memory OMS under the
venue's deal id alone (`oms.py:70`): where the venue uses an id again,
`FillParent` counts the deal in the row and not in the OMS, and the order ends
UNKNOWN. `purged` and `undercut` are histories: reservations that lapsed while
their broker call was under way, and orders whose parent another process
cancelled or whose reservation it released. `MaxCalls` bounds batches started,
`MaxFaults` crashes and lost answers.

### ResearchHoldout

The export is per position the times of its entries, exits and reversals. Each
command's own row selection is an operator (`Complete`, `RiskPositions`,
`WiderPositions`, `Within`), because they differ. The gate (`Preflight`,
`TakeLock`, `Score`, `WriteOutput`, `CloseLock`, `Fail`, `Die`) runs in any
number of processes over the same files.

## 3. Runs

| run | module and configuration | asks |
|---|---|---|
| `requests` | `MCExecutionLedger`, `MCLedgerRequests.cfg` | types, risk of live requests, evidence behind broker states, unbacked heat under a ceiling |
| `portfolios` | `MCExecutionLedger`, `MCLedgerPortfolios.cfg` | what may raise risk or revive a request, final outcomes, refinement of the risk book, with two portfolios and stop modifications |
| `transactions` | `MCLedgerTransactions` | two sessions, statement by statement: atomicity and deadlock |
| `submissions` | `MCSubmissionRecovery`, `MCSubmissions.cfg` | two submissions under a ceiling of one, or one on a slow network; safety and the return of readiness |
| `restart_repair` | `MCSubmissionRecovery`, `MCSubmissionRepair.cfg` | a claim of a comment, violated (finding 1) |
| `manual_entry` | `MCSubmissionRecovery`, `MCSubmissionManual.cfg` | a claim of a comment and a log line, violated (finding 2) |
| `signals` | `MCSignalDelivery` | delivery with two workers or several calls, lost answers, crashes; every queued signal is settled |
| `membership` | `MCMembership` | payments against sweeps, the master switch |
| `configuration` | `MCConfiguration` | promotion, acknowledgement and rollback in two interleaved calls, or of two configurations in turn |
| `calibration` | `MCCalibration` | deliveries against decisions, cycles against cycles |
| `reference` | `MCReferenceExecution` | two processes, crashes, lapses, operator recovery |
| `holdout` | `MCResearchHoldout` | every export of two positions, and two gate processes |

What they show:

- `LiveRequestHoldsRisk` - in every order of calls, only a terminal request's
  reservation is released. The dangerous paths are a lapsed lease, a
  cancellation after SENT and a closure that meets a second row.
- `KeepsRiskBook`, `UnbackedHeatBounded` - admission bounds the risk that no
  broker identity backs. Total heat is not bounded, and must not be:
  observations record exposure that exists.
- `BrokerStatesAreBacked`, `FinalOutcomesStay` - a report alone cannot reach a
  broker state or rewrite the outcome of a modification.
- `RiskRisesOnlyByObservation` - once a request is admitted, no admission, report,
  lapsed lease or stop modification raises its risk, holds it again after a
  release, or brings a finished request back. Observations of the broker do
  (`execution_control.py:442`), and then the row names an order or position; a
  finished request comes back only as FILLED with its position.
- `AtomicHandlers`, `OnlySweepsDeadlock` - the locks are sufficient but for
  `StaleLookup`, and the only circle of waiting calls is made of lease sweeps.
- `IntentIsDurable`, `ExposureIsHeld`, `ExposureIsBounded` - write-ahead
  submission keeps what is really at the broker, orders in flight included,
  inside the book and so under the ceiling.
- `AgreesWhenHealthy`, `OpenIsFilledWhenHealthy` - an EA that is ready and has
  handled its deals has a ledger that matches the broker, but for the deals it
  passed over in silence (`missed`; section 5).
- `AdmissionReturns` - whatever failed before, the EA becomes ready again once the
  terminal stays up and the steps of its reconciliations succeed. The premise
  counts a refusal by the bridge among the failures: it does not say that the
  bridge never refuses for good.
- `OnlyQueuedIsPosted`, `ActiveWasPosted`, `AcceptedIsRecoverable`,
  `DeliveredStays`, `OutboxSettles` - a refused or muted signal is never
  posted; ACTIVE means a message exists; an accepted signal stays pending, in
  reach of the worker or of `/retry-failed`, until it is active or refused for
  good; what was delivered stays delivered, except
  that a call which read the row before may write its own failure over it; and
  every entry is settled once workers stop dying.
- `PaidTimeIsCounted`, `PaidIsServed`, `OffHolds` - nobody reads longer than
  paid, and nobody whose row was not raced, by a payment or a sweep, loses paid
  time or is refused (whom a sweep overtakes, does; section 5); after
  an answered OFF nobody copies until ON is asked for again.
- `OnlyAcknowledgedRuns`, `PromotionIsEarned`, `ApprovedStaysOffered`,
  `RollbacksEnd`, `OfferIsAnswered` - every hash the EA can be sent to
  is a champion's, and what the bridge calls active the EA acknowledged; a
  champion was approved and has a report with a clean holdout; an approval
  stays on offer; between two approvals there are no more rollbacks than
  champions, so unhealthy reports end in DEFENSIVE; the EA answers what it is
  offered. Each names the overlaps it does not survive (`past`).
- `EvidenceIsKept`, `CountedIsVerified`, `PromotionIsPersistent`,
  `MultiplierIsEarned` - accepted evidence survives smaller payloads, repeats and
  handlers that loaded the row before, until a delivery denies it; cycles count
  verified decisions only, promotion rests on two improvements each with new
  evidence, and a regime's multiplier above the default has a qualified
  statistic behind it.
- `SentOnce`, `AdmissionIsBounded`, `BrokerOrdersAreAccounted`,
  `ParentsAgree`, `DealsAreCounted` - a child is sent once; reservations and
  commitments stay under the limit; whatever is at the broker has a journal row
  that is open or counts it; parents agree with their children, and what was
  dealt keeps something reserved or committed, except where a reservation lapsed
  or a second process interfered (`purged`, `undercut`). Those two the code does
  lose: the properties say that nothing else does (section 5).
- `ScoredOnce`, `GuardedToolsAreBlind`, `FoldsLookBack` - one evaluation per
  lock, guarded reports blind to the holdout, no fold trained on its future.


### Bounds, and why they are enough

- Ledger. Two requests and one order, position and deal let two rows compete
  for one broker object, which is what the lookups are about. A request risks 1
  and an observation shows 1 or 0, under a ceiling of 1: the ceiling is reached
  exactly, a second admission would exceed it, and a risk may fall and rise
  again. Risks 1 and 2 under a ceiling of 2 are in `transactions`. `portfolios`
  has two portfolios that show equal broker identities and two stop levels
  besides "no stop"; an observed risk of 0 leaves room below the ceiling for a
  modification or a report that would raise it.
- `transactions` has two sessions: a lock conflict or a circle needs two, and
  three only lengthen it. A ceiling of 2 with risks 1 and 2 admits two requests
  at once, so that two sweeps do meet in a circle, and refuses some. Calls that
  name an order or a deal take their locks in the same order as those modelled.
- `SubmissionRecovery` has at most two decisions, each of risk 1; a decision's
  id is never used twice. `MaxLate` bounds calls under way after the EA gave
  them up. `AgreesWhenHealthy` excludes a `slow` network: a late call can
  undo an agreement after it was established, and no flag of the EA could know.
  `submissions` starts with either two decisions on a prompt network or one on
  a slow one. A ceiling of 1 for two decisions makes it bind; `manual_entry`
  needs 2 so that a second entry is admitted at all.
- `signals` has three casts (`MCSignalDelivery`): two workers and a call, a
  worker and two calls, both with the trade event already posted, and a worker
  and a call with the trade event still to post. Two attempts (`MAX_ATTEMPTS`)
  and at most two messages of an item: a second message is the fault the
  properties are about. With two items the limit of a retry's batch (5) is never
  reached, so that no batch is cut.
- `membership` has one subscriber, three charges and two calls; subscribers
  share no row. Period 2, grace 1, warning 1 and four days let a renewal come
  before the warning, between warning and end, between end and removal and
  after it.
- `configuration` has four configurations, two of them founders, and six reports:
  sound, better, best, a rival's, one whose training leaks into the holdout, one
  too thin. It has two casts (`MCConfiguration`), which together would be too
  many states: a race, in which two calls overlap over one promotion request,
  and a relay, in which two configurations are promoted and calls follow one
  another. The relay reaches the bound of `RollbacksEnd` exactly (3, 4, 3, 2, 1).
  Two requests for one challenger, which concurrent evaluations can insert, are
  explored by neither; the proofs of the other four properties cover them.
- `calibration` has two casts: all decisions verified, the first outcome stored,
  one delivery of each other and three cycles, two of them concurrent; or one
  signal whose decision is stored late or mismatched, three deliveries, two at a
  time, of any of the five payloads, and one cycle. The third delivery lets an
  acceptance be denied and then repeated, or denied while it is under way. In the
  first cast three cycles are the least in which persistence (two improvements)
  can be told from one.
- `reference` has one order of two children and one of a single child, two
  processes, one fault and two batches. It stops when the batches are used up
  (`CHECK_DEADLOCK FALSE`).
- `holdout` has two casts: every export of two positions with at most two
  entries over four months, read by each command; or two gate processes with
  two locks and three runs. A report depends on the export alone, so one report
  per history is enough. The proofs have neither bound.

### Fairness

`AdmissionReturns` needs `WF_vars(EA)` (`MCFairSpec`). A running
terminal delivers timer, tick and deal events to the EA, every call has a
timeout (`PostJson`), and a terminal that crashed is started again (`OnInit` is
part of `EA`). Nothing is assumed of the broker, the network or the order of
events. The premise of `AdmissionReturns` says that from some time on the
terminal stays up and no step of a reconciliation fails; deal reports and
submissions may go on failing.

`OutboxSettles` needs weak fairness of the worker and of the lapse of
`next_attempt_at`: `run_outbox_worker` polls forever, `main.py` starts it with
the process, and time passes. It does not assume that Telegram ever succeeds;
an entry is settled when it is sent or given up. Its premise, that from some
time on no worker dies in the middle of an entry, is what the code needs: each
death costs an attempt only when the claim lapses, and a worker may die forever.

No other property is a liveness property.

## 4. Proofs

The theorems hold for every value of the constants that satisfies the named
assumptions of the module: all sets of requests, users, signals, workers and
positions, every ceiling, period, window and number of folds.

`ExecutionLedgerProofs`:

- `TypeCorrect`: `Spec => []TypeOK`. One lemma per handler; the lemmas
  about the shared effects (`SetRowType`, `HoldType`, `ReleaseType`,
  `SnapshotType`, `CloseType`) carry the argument. `TypeOK` is inductive
  as it stands.
- `RiskHeldWhileLive`: `Spec => []LiveRequestHoldsRisk`. The property is
  inductive together with `TypeOK`, because it speaks of every live state and
  not of one of them: a report may only advance a row that is live already, so
  its risk is held, and no report leaves a terminal state. Two lemmas carry the
  proof. `HoldKeepsRisk`: a row written together with its reservation, held in
  the row's portfolio, may take any state. `ReleaseKeepsRisk`: a reservation is
  released only with a row that becomes terminal. Each handler is then one of
  these two or leaves liveness, portfolio and reservation alone
  (`SameLivenessKeepsRisk`).
- `PairsStay`: `Spec => []RowsHaveReservations`, a known row has a reservation
  and an unknown one has neither. `LedgerImplementsRiskBook`:
  `Spec => KeepsRiskBook`, that is `Spec => Book!Spec`. `PairsStay` is the
  strengthening it needs: without it, admission of an unknown request could
  overwrite a reservation, and a report could name an identity for a request
  the book has never seen. Four lemmas map effects to steps of the book
  (`ObserveStep`, `IdentifyStep`, `ReleaseStep`, `ReserveStep`); the handlers
  cite them. The heat of a portfolio is the same fold in both modules
  (`TotalIsHeat`), so nothing has to be known of what a fold computes.

- `StatesNameTheBroker`: `Spec => []BrokerStatesAreBacked`. Inductive with
  `TypeOK`: a handler that writes ACKED or FILLED has an identity in its hand,
  and no handler ever clears one. `OutcomesAreFinal` (`FinalOutcomesStay`) and
  `ReportsNeverRaiseRisk` (`RiskRisesOnlyByObservation`) speak of single steps
  and need the types alone; their lemmas go through the handlers. The second has
  two halves: each call that only tells of a request is `Quiet`, and each
  observation that raises risk or revives a row writes what the property asks
  (`HoldRises`, `SetRowRevives`).
- `UnbackedHeatStaysBounded`: `Spec => []UnbackedHeatBounded`. The heat that no
  broker identity backs never grows except by `Reserve`, which has just compared
  the whole heat with the ceiling, and it is part of the whole heat. What a sum
  over a finite set does when an element is added or a value falls is proved
  without induction over data: of the finite sets on which the statement fails,
  one has the fewest elements, and removing an element of it leaves a set on
  which the statement holds (`SmallestMember`, `SumStep`, `SumsGrow`,
  `SumCovers`). `SubmissionRecoveryProofs` and `ReferenceExecutionProofs` borrow
  these lemmas through an `INSTANCE`.
- `TransactionsImplementHandlers`: `TxSpec => AtomicHandlers`, for any number of
  sessions. A commit writes what the call read several statements ago, so it is
  an atomic handler only if that is still true. `TxInv` says of each call
  what it holds and what it knows: the row it locked is still as it read it, and
  what an admission has counted, with what it has still to count, is no less
  than the heat of the portfolio (`HeatOf` of the active reservations less those
  still to be counted is at most `heat`). Both are kept by the steps of others,
  which write only rows they have locked themselves and raise heat only in a
  portfolio whose book they have locked (`CommitKeeps`); a transition or sweep,
  which takes no book, lowers heat or leaves it alone. One lemma per statement
  keeps `TxInv` (`TxStep` puts them together), one per kind of commit maps it to its handler or
  to `StaleLookup`.
- `NoHandlerDeadlocks`: `TxSpec => []OnlySweepsDeadlock`. `LockInv` adds to
  `TxInv` which locks a call can have at the statement it has reached (`Holds`),
  that a reservation is in its row's portfolio (`Matched`), and `NoCircle`. A
  call that waits for a book has no lock yet, so in a circle everybody holds a
  row or a reservation (`HoldsAndWaits`), which leaves each kind of call one
  place (`WhereStuck`), an admission two. The reservations are locked by
  admissions (`HolderCounts`), and an admission that still counts waits for
  nobody, since the book keeps other admissions from its portfolio
  (`CountersGoOn`). So each admission waits to insert a row, whose holder waits
  for a reservation that another admission counted (`ReleaserWaits`,
  `InserterFollows`). But an admission comes to its insert only if it missed the
  row, so it was there before the row was: `Follows(c, h)` says that the row `c`
  asks for is by now in the portfolio of `h`, and `NoCircle` that every set of
  sessions has a member that follows none of it. The attempt
  to prove this found an error of the model, not of the code: `Insert` waited
  for a row the sweep had merely locked, and then three sessions on two
  portfolios could close a circle that PostgreSQL does not have. The run, with
  one portfolio, could not show it.

`SubmissionRecoveryProofs` goes along five invariants, each proved from those
before it.

- `SubmissionInv` ties rows, broker, the EA's step and every call under way
  together: a call, however late or often delivered, was legal when it was made
  and says only what has happened, so what it does to the ledger when it arrives
  is one of the changes `RowFine` allows. It gives `TypeCorrect`,
  `IntentPrecedesOrder` (`IntentIsDurable`: nothing is sent to the broker that
  the ledger does not know) and `ExposureStaysHeld` (`ExposureIsHeld`: what may
  be at the broker has its risk reserved).
- `BoundInv` counts the decisions the ceiling admitted; with the lemmas on sums
  it gives `ExposureStaysBounded` (`ExposureIsBounded`).
- `OrderlyInv`, `ClosedInv` and `OpenInv` hold in a network without late calls:
  one row for each position, and for a position the ledger does not know to be
  open or closed a step to come that will tell it, a failure the EA has noted,
  or a deal it passed over in silence (`missed`). They give `AgreementWhenHealthy` (`AgreesWhenHealthy`) and
  `OpenIsFilled` (`OpenIsFilledWhenHealthy`).

`SignalDeliveryProofs`: `DeliveryCorrect`, `Spec => []DeliveryInv`, and from it
`RefusedStayUnposted` (`OnlyQueuedIsPosted`), `ActiveMeansPosted`
(`ActiveWasPosted`), `AcceptedIsNeverLost` (`AcceptedIsRecoverable`) and
`DeliveredIsUndoneOnlyByStaleCalls` (`DeliveredStays`). Workers and calls act on
rows they read several steps ago, so none of the properties is inductive.
`Sound` says of each process what stays true of the item it works on however
others write meanwhile: the item is queued, the message it is about to record
was posted, what it retries was not refused. `ItemInv` relates row, outbox and
chat of one item; `OneItem` shows that a step about one item leaves the others
alone.

`ConfigurationProofs`: `ConfigurationCorrect`, `Spec => []ConfigInv`, and from it
`OnlyAcknowledgedConfigurationsRun` (`OnlyAcknowledgedRuns`), `ChampionsEarnedIt`
(`PromotionIsEarned`), `ApprovalsStayOffered` (`ApprovedStaysOffered`) and
`OffersGetAnswered` (`OfferIsAnswered`). A call writes what it computed from a row
others may have changed since; `Sound` says of each call what that computation
rests on, and it stays true because champions are never dismissed and requests
never deleted. `TestedBefore`, `Studied` and `Asked` carry the evidence of a
champion from its report to its approval; `Agreed` strengthens `OfferIsAnswered`
to what holds in the middle of an exchange. That a fallback, the latest older
champion, exists and is a champion comes from well-foundedness.
`RollbacksComeToAnEnd` (`RollbacksEnd`: between two approvals no more rollbacks
happen than there are champions) has an invariant of its own, `RollbackInv`: the
rollbacks done and the champions still to come, which are all older than the one
on offer, are together no more than the champions. The first rollback alone may
lead to a newer one, the recorded fallback.

`ReferenceExecutionProofs` proves eight invariants, each from those before it;
`StackInv` is their conjunction.

- `ChildrenAreSentOnce`: `Spec => []SentOnce`. The property says nothing of the
  journal, so it is not inductive. `JournalInv` is the write-ahead rule: what was
  sent has a row (`JournaledFirst`), a row never goes away, and a process about
  to send holds a child that has a row and was not sent; no two processes hold
  one, because `begin_submission` refuses an id that exists.
- `PortfolioStaysBounded` (`AdmissionIsBounded`): reserved and committed exposure
  together stay within the limit (`AdmissionInv`).
- `DealsStayCounted` (`DealsAreCounted`): `WorkInv` says what a process knows at
  each place of its code, `OneOwner` that an order, once begun, has at most one
  process at work on it, ever, and `CountedInv` that an order counts from its
  reservation on; only its owner releases it, before anything of it is at the
  broker.
- `BrokerStaysAccounted` (`BrokerOrdersAreAccounted`): a child's row that is final
  says what the broker dealt (`AccountInv`, over `BrokerInv`: the broker never
  deals more than was requested).
- `ParentsStayInAgreement` (`ParentsAgree`): the same of the parent's row, while
  it is owned, filled or cancelled (`ParentInv`). Its deals are a union of those
  of its children; that the total of the union is no more than the sum of the
  totals again comes from a least counterexample.

`CalibrationProofs`:

- `AcceptedEvidenceStays`: `Spec => []EvidenceIsKept`. A handler that writes an
  update does so from the row it loaded, so the strengthening (`EvidenceInv`)
  relates every loaded row to the stored one (`LoadedIsBehind`): a flag the loaded
  row has is not null in the table, and a decision it found verified is verified.
  A delivery then either denies a flag, which ends the claim, or leaves it true.
  Nothing is said of the measurements, which a smaller payload erases.
- `CyclesCountVerified`: `Spec => []CountedIsVerified`. `CountInv` carries it
  from the fetch through the allocation to the stored cycle.
- `PromotionNeedsPersistence`: `Spec => []PromotionIsPersistent`, and
  `MultipliersAreEarned`: `Spec => []MultiplierIsEarned`. The first rests on no
  invariant but that a card carries the history it was decided from (`Persistent`
  of its basis); the work is in `Grades` and `Nth`, that a history is made of the
  cycles that saw the version and that their grades have a least and a greatest
  member. In the second a multiplier may be handed on from cycle to cycle, so
  `MultipliersInv` speaks of the set of all cycles stored so far: each allocation
  in it, or about to join it, was earned by one of them.

`MembershipProofs`:

- `EveryChargeCountsOnce`: `Spec => []PaidTimeIsCounted`. `Counted` adds that
  the end in any row a call has loaded is bounded by what was paid, and no
  later than the stored one unless the user is in `stale`; counting a charge
  once uses that the recorded charges are a finite set that grows by one.
- `PaidStayServed`: `Spec => []PaidIsServed`. A sweep works from rows it loaded
  before the user paid. `ServedInv` adds that it holds the rows it has flushed,
  so the period of those it expires has ended whatever is paid meanwhile, and
  that the period of those it removes had ended when it selected them.
- `OffStaysOff`: `Spec => []OffHolds`. `SwitchInv` adds that after an answered
  OFF there is no request and no confirmation under way.

`ResearchHoldoutProofs`:

- `OneEvaluationPerLock`: `Spec => []ScoredOnce`. `GateInv` adds that a process
  about to score holds a lock that exists, that nobody else holds it and that
  it has not been scored.
- `ReservedOutcomesStayHidden`: `Spec => []GuardedToolsAreBlind`.
- `WalkForwardLooksBack`: `Spec => []FoldsLookBack`, for every number of folds
  and every calendar. Its core is `OrderedWindowsLookBack`: whatever the windows
  are, it is enough that each ends no later than the next begins. That the
  windows of both tools do so is arithmetic (`RollingFoldsLookBack`,
  `SlicesLookBack`, `QuotientsAreOrdered`), and greatest elements of sets come
  from well-foundedness (`MaxOfNaturals`).

The assumptions: `SizesAssumption` (risks and stops are positive naturals, the
ceiling is a natural); the `NullAssumption` of `ExecutionLedger`,
`SubmissionRecovery` and `ReferenceExecution` (a null column is not an identity);
`SessionsAssumption` of `LedgerTransactions` (null is neither a session nor a
request, and the states reported are states);
`GradesAssumption` of `Calibration`; `DeliveryAssumption`,
`MembershipAssumption`, `HoldoutAssumption`, `ConfigurationAssumption`,
`EvidenceAssumption` and their like say that counts are naturals, periods
positive, windows ordered and null values no members.
TLC evaluates each in the run of its module.

Only model-checked. Liveness (`AdmissionReturns`, `OutboxSettles`) is out of the
provers' reach. Every other property of a passing run is stated by a theorem.

## 5. Findings and observations

Two claims of the repository are refuted by a run:

1. `restart_repair`. `bridge/execution_control.py:440` says that adopting an
   observed position "also repairs a previous local timeout / RECOVERING state
   after restart". It repairs the row the position is found on. The deal
   event names the request `position:<id>` (`EA:1537`), so when it is handled
   before the snapshot the position is bound to a second row, and the
   submission's own row stays SENT, ACKED or RECOVERING with its risk held. The
   risk is counted twice; nothing is under-counted.
2. `manual_entry`. A deal event or snapshot item that fails before any POST
   lowers `g_executionLedgerHealthy` but not the ledger client's admission flag.
   `ManualMarketEntry` and `PrepareLedgerForSubmit` (`EA:386`) test only the
   latter, so a manual order goes out while the log says new entries are
   blocked.

What else was seen while modelling, for a reader of the code. The models show
these behaviours; the properties name them as exceptions, or say nothing of
them because the code promises nothing.

Submission. A deal event returns in silence when the deal cannot be selected,
bears another magic number, or names no position (`EA:1547`, `:1549`, `:1553`):
no report is made and the EA stays healthy. A position the owner closes by hand
then keeps its risk held and counted against the ceiling, and a position whose
opening deal was passed over, with no deal id in the broker's answer, stays
ACKED. The replay of the history makes up for both, but it runs on start and
while the EA is not ready, and nothing in this path makes it unready. A closure
whose history cannot be selected is passed over by the replay itself
(`EA:707`). Risk is over-counted, never under-counted.

Signals. A refused decision uses up its signal id. `/pause` holds back new
signals only; what is queued or retried is sent, although the bot answers that
all broadcasts are paused (`bot_handlers.py:418`). A lifecycle update before
delivery edits nothing and the message is posted without its banner.

Membership. `payments_bot.py:131` reads `was_removed` after `record_payment`
has made the row active, so `_welcome_back` never runs and a removed subscriber
who pays gets no invitation. A payment on a row loaded ACTIVE while a sweep
expires it leaves the row EXPIRED with paid time, and two concurrent payments
lose one extension (`stale`). The webhook answers ok when its handler raises
(`routes.py:288`), so such a payment is not delivered again. A failed or
interrupted unban leaves the ban.

Configuration. Acknowledging the active hash again makes it its own rollback,
and the next unhealthy report then ends DEFENSIVE. Approval records the active
configuration as rollback, so an unhealthy report while it waits for its
acknowledgement ends DEFENSIVE although other champions exist. A rollback
forgets an approved configuration that waits. A rollback can lead to a champion
that was itself rolled back from: approve 4, then 3, whose rollback is then 4;
when both prove unhealthy, 3 falls back to 4 and 4 to the latest older champion,
3 (`api/config_sync.py:290-300`), although `config_sync_contract.py:96` speaks of
a known-good champion. A lost acknowledgement followed by a rollback to what the
EA believes acknowledged is never acknowledged (`past.lost`). A promotion card
that could not be sent is not sent again and blocks another request. A
rejected challenger is proposed again by the next cycle.

Calibration. A flag sent as false replaces a stored true one
(`routes.py:757-766`), and current builds always send the flags, so a later
delivery that could not follow the costs or the history takes accepted evidence
back. A delivery that loaded a true flag before another denied it does not write
it again, and is answered as accepted. A redelivery without measurements erases `realized_r`, `filled`
and the times (`routes.py:733-741`), so an eligible outcome stops being
eligible although its parity flags are kept. A mismatched delivery stores its
flags, and a later one without fingerprint but with measurements makes it
eligible. A regime absent from a window starts over at the default multiplier;
two cycles at once lose an allocation. The ROLLBACK card executes nothing. A
repeated cycle proposes a promotion again.

Reference stack. A second process on one order cancels the first one's parent
and releases its reservation (`execution_coordinator.py:229`). A reservation
lapses thirty seconds after it was made, also while the broker call hangs or its
outcome is UNKNOWN, and the next `reserve` deletes it (`pretrade_risk.py:153`):
its headroom goes to another order although the first may still fill, and
`docs/DURABLE_EXECUTION_RECOVERY.md:5`, that after an ambiguous acknowledgement
"the reservation remains held", is then not so. The commit that comes later
fails, as does that of a fill above the reference price; the deal is then not in
the admission ledger. Where a venue uses a deal id again for a later child, the
OMS counts it once and the order ends UNKNOWN although everything was filled. What
operator recovery finds is never committed there. A crash leaves SUBMITTING,
which blocks until an operator marks it UNKNOWN. In the reference payments,
which are not modelled, a pending webhook creates the row, so the later success
with the same id grants nothing.

Research tools. `risk_trailing_experiment.py` and
`dao_wider_stops_experiment.py` report over the full period without a lock,
although `compare_mt5_variant_runs.py:431` says that all standard comparison
commands stop at the boundary; the comparisons stop at their manifest's own
boundary rather than the registered one. The gate reads the manifest again
after it took the lock, and two lock paths give two evaluations of one holdout.
The wider-stops experiment counts partly closed positions as closed. The
certification mode of `walk_forward.py` rejects every record, because
`_oos_record` omits two fields the firewall asks for.

## 6. Not modelled, and why

The EA's order manager, position manager, emergency stop and portfolio policies
are planned (section 7). Numeric analysis, scoring and the outcome tracker work
on floating-point series and promise no decidable property. User interface,
wording, logging, hashing, packaging and deployment scripts are input and
output. The reference payments and lifecycle are not in production and are one
transaction per call.

In the modelled parts: volatility and factor exposures, symbols, take-profits
and audit payloads decide nothing in the ledger; partial closes, netting
accounts, stop modifications and close-all are left out of
`SubmissionRecovery`; SQLite under the bridge, which has neither kind of lock,
is for development only. Validation of a signal's fields and the read-modify-write
of the mute lists are not in `SignalDelivery`; API keys and paging are not in
`Membership`; the approval of a weight version and `get_config` are not in
`Calibration`; the EA/backend event parity, the control service and the
in-memory order store are not in `ReferenceExecution`; `walk_forward.py`,
`optimizer.py` and `champion_challenger.py`, which read stored outcomes instead
of an export, are not in `ResearchHoldout`.

## 7. Plan

In order of importance:

1. A run that refutes the known-good claim of `config_sync_contract.py:96`.
2. `OrderManager`: local trade states, pruning, restore after a restart,
   broker retries; composed with the submission of `SubmissionRecovery`.
3. `PositionManager`: the EA side of stop modifications over `ExecutionLedger`,
   and the emergency stop's latch.
4. The weight versions of `Calibration` up to what the EA loads, and the mute
   lists of `SignalDelivery`.
5. Pure operators with reference definitions: leg plans, opposing-position
   policy, `tools/recalibration_guard.py`.

The new modules need runs of their own; those of the ledger and of
`SubmissionRecovery` share theirs already.
