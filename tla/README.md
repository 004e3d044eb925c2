# btc-sentinel in TLA+

A verification development kept beside btc-sentinel, a paper-trading engine for
BTC/USDT.  It contains TLA+ models of the parts in which the program can go
wrong between two steps, the TLC configurations that explore them on small
instances, and TLAPS proofs of what holds for every instance.

Source paths below are relative to the repository.  Prices are integers (ticks
above an unstated base) and times are whole minutes unless a module says
otherwise.

## 1. The system

| Component | Code | State it keeps | Operations |
|---|---|---|---|
| Signal life cycle | `src/btc_sentinel/domain/` | the status of a signal | PENDING, ACTIVE, EXPIRED, CANCELLED, CLOSED |
| Durable ledger | `migrations/`, `worker/src/persistence/runtime-repository.ts` | D1 tables: signals, trades, tracks, outcomes, statistics, decisions, events, receipts, checkpoints, outbox | eight mutating commands, each one D1 batch; reads |
| Trade rules | `lifecycle/engine.py`, `lifecycle/models.py`, `management/engine.py` | none | entry, stop, target, gap fill, net R, break-even, partial |
| Paper engine | `runtime/orchestrator.py`, `lifecycle/`, `management/` | the local variables of one run | load, collect, replay each monitored signal candle by candle, propose a signal, report, record health |
| State bridge and client | `runtime/state_bridge.py`, `runtime/state_api.py`, `persistence/state_api_repository.py` | none that lasts | one signed HTTPS request per command, five-second timeout, no retry |
| State API boundary | `worker/src/state-api/` | nonces | authentication, schema check, dispatch of commands |
| Outbox delivery | `worker/src/outbox/`, `telegram/sender.ts`, part of `d1-store.ts` | outbox rows | insert, read, mark UNKNOWN, send, settle; drain |
| Telegram webhook | `worker/src/app.ts`, `telegram/` | telegram_updates, bot_settings, command_audit | claim an update, execute, answer, finish |
| Workflow dispatch | `worker/src/dispatch/` | workflow_dispatches | claim, call GitHub, finish |
| Signal gate | `signals/engine.py` | none | admission, terms, score |
| Market data | `market_data/` | none that lasts | fetch, retry, validate, cross-check |
| News risk | `news/` | none that lasts | fetch feeds, parse, decide CLEAR, CAUTION or BLOCK |
| Analysis | `analysis/` | none | indicators, structure, regime |
| Statistics, reports | `statistics/`, `reports/` | none | figures over outcomes, period reports |
| Archives and datasets | `backtesting/archive_fetch.py`, `monthly_dataset.py`, `dataset.py` | a directory of archives and its manifest | download, inspect, validate, publish, load |
| Risk history | `backtesting/official_risk_fetch.py`, `risk_evidence.py`, `risk_derivation.py`, `risk_history.py` | evidence and timeline files | fetch pages, load evidence, derive one decision per boundary, import |
| Replay and evaluation | `backtesting/replay.py`, `simulator.py`, `historical_runner.py`, `engine.py` | candle store with a cache; one path per threshold | answer "the last closed candles", simulate a trade, run, evaluate walk-forward |
| SQLite repository | `persistence/sqlite_repository.py` | the same tables | the same commands, for tests and backtests |
| Configuration, scripts, workflows | `config.py`, `security/`, `scripts/`, `.github/` | none | parsing, redaction, gates |

How they interact.  A schedule (Worker cron, then a GitHub workflow whose
concurrency group keeps runs apart) starts a run.  The run drains the outbox and
loads a bootstrap through the state API, collects candles and news, replays
every monitored signal by sending commands one after another, may create a
signal, and records its health.  The Worker executes each command as one D1
batch.  Telegram messages go through the outbox, from a notification request, a
drain or the webhook.  The owner's commands arrive at the webhook at any time.  The Python tests run the
same engine over the SQLite store.  The backtest shares no state with any of
this: it reads archives and evidence files, and decides with the same signal and
news engines and a trade simulator of its own.

`scripts/runtime_gate.py` refuses to activate the workflow at this commit; the
models describe what the code does once it runs.

What is hard here:

- A command is executed and its answer is lost; the client gives up and the
  command is executed later; the run is killed anywhere.  Nothing in the client
  retries: the next run starts over from the checkpoints.
- A run acts on what it read at its start: the pause flag, the list of signals,
  the time of the latest signal, `now` itself.
- Two candle loops with two checkpoints (life cycle and management) advance over
  the same candles, and a decision made on one candle changes the next.
- Messages have at most one attempt: a call without an answer is never repeated.
- Several Worker invocations can work on one outbox row, one Telegram update or
  one cron instant, and each may die between any two statements.
- The tests run against a second store and the backtest against a second trade
  simulator: both are worth as much as they agree with production.
- The backtest looks back: everything it knows at a boundary was collected years
  later and must be cut down to what could be known then, with a block wherever
  that is in doubt.
- Archives have gaps; two scans of the same file must agree on where.

## 2. Modules

| Module | Models | Uses |
|---|---|---|
| `SignalLifecycle` | abstract specification: the status machine and the journal of its moves | |
| `Ledger` | the D1 tables and the eight mutating commands, open to any sequence of them | `SignalLifecycle` (refinement) |
| `SqliteStore` | the second store, transaction by transaction | `Ledger` (refinement) |
| `TradeRules` | the arithmetic of one candle | |
| `PaperEngine` | one run at a time, command by command, over the ledger | `Ledger`, `TradeRules` |
| `ReplayContract` | abstract specification of the engine: one uninterrupted replay, and the properties that compare the ledger with it | `PaperEngine` |
| `Outbox` | delivery, statement by statement | |
| `TelegramUpdates` | the owner's commands, statement by statement, over the delivery | `Outbox` |
| `Dispatch` | the scheduled start of the engine | |
| `ArchiveBuild` | archives to published dataset, with retries, kills and restarts, and the loader | |
| `NewsRisk` | the decision of the news engine at one instant | |
| `RiskTimeline` | official pages to the imported decision of every boundary | `NewsRisk` |
| `ReplayStore` | candles, resampling and the cache of `series_at` | |
| `TradeSimulator` | the backtest's replay of one signal, beside the live rules | `TradeRules` |
| `WalkForward` | folds, out-of-sample selection, sensitivity rows, what the evaluation refuses | |
| `HistoricalRun` | one backtest: every boundary, every threshold, then the evaluation | `ReplayStore`, `TradeSimulator`, `WalkForward` |
| `LedgerProofs`, `SqliteProofs` | theorems about the two stores | `Ledger`, `SqliteStore` |
| `TradeRulesProofs` | theorems about one candle and its result | `TradeRules` |
| `HistoryProofs` | archives that load and are complete; risk decisions of then; the store's candles and cache, the simulator beside the live engine, a whole run over stored history | `ArchiveBuild`, `RiskTimeline`, `HistoricalRun`, `TradeRulesProofs` |
| `EngineProofs` | the engine's types, and that it implements the ledger | `PaperEngine`, `LedgerProofs`, `TradeRulesProofs` |
| `ContractProofs` | what the engine promises of its books and messages | `ReplayContract`, `EngineProofs` |
| `ReplayProofs` | the engine's books are the replay's; a successful run has caught up; no command is refused | `ContractProofs` |
| `WorkerProofs` | theorems about delivery, webhook and dispatch | `TelegramUpdates`, `Dispatch` |
| `MCLedger`, `MCSqlite`, `MCEngine`, `MCOutbox`, `MCWorker`, `MCHistory` | instances for TLC | |

Some definitions are preceded by a variant of themselves under a comment that
begins with "Mutation".  A mutation is the definition with one plausible bug; it
is used nowhere in the specification.  Putting it in the place of the definition
breaks the property it is listed with in `PROJECT.json`, which shows that the
property depends on that piece of code.

### Ledger

A table is a variable; a row that does not exist is `Null` (or `"ABSENT"` for a
signal).  A command is an action.  D1 executes a batch atomically, so the guard
of the action gathers the reasons why any statement of the batch fails: the
primary key of the receipt, unique indexes (`uq_one_active_btc_signal`), and the
`assertOne` statements that check the number of rows the UPDATE before them
changed.  A command whose guard is false changes nothing; whether it is then
answered as a duplicate or refused is told apart in `PaperEngine!Redundant`.
`Spec` is open: any command may arrive with any arguments at any time, so what
holds of it holds whatever the client does.

### SqliteStore

One action per `BEGIN IMMEDIATE` transaction.  There are no receipts: what refuses
a command is its own read of the status and the UNIQUE keys of the rows it
writes.  The refinement mapping `D1` therefore reads the receipts off the events:
a command leaves an event under its own key with a suffix (`CommandPart`), and the
key is made from the operation's name (`KeyOp`).  Two differences of the stores
are part of the mapping.  The Worker stores the SIGNAL message with the signal and
SQLite does not, so `Notices` adds `CreationNotice` for every signal that exists;
`append_trade_event` has no counterpart in D1, so its events are hidden.

### TradeRules

R is kept exact without division.  All results of a signal share the divisor
`TotalRisk`, so an R is carried as its numerator, counted in halves of the
position (a track holds all of it or half).  Thresholds such as 1.5R are
compared by multiplying out.  The cost is a constant of the signal's terms.

### PaperEngine

`run` holds the local state of the run.  A *planning* step is the code between
two commands: it reads the ledger and puts the commands it leads to in
`run.todo`; `Send` sends the first of them and the ledger executes it.  Planning
is atomic because nothing but a pause, a tick or a late command can change what
it reads, and these are explored between any two steps.  The phases follow
`_run` and `_monitor_signal`: `load`, `collect`, then for every signal and
candle `entry`, `exit`, `manage`, then `report` and `record`.

- `LoseReply`: the answer is lost, the command did or did not take effect.
- `GiveUp` and `ArriveLate`: the client gives up and the Worker executes the
  command later.  `create_signal` is not among the late commands of the runs:
  admission relies on the concurrency group and on the cooldown, and a create
  that arrives after the next run has admitted its own signal would defeat it.
- `ReadFails`, `Kill`: a read fails, the job dies.
- `Tick`: a minute ends and its candle becomes complete, at any point of a run.
- `TogglePause`: the owner pauses or resumes.

`ReplayContract!ReplayTo` is the same pair of candle loops without ledger, runs
and retries: a recursive function over candles.  The engine is correct when the
ledger cannot be told from its result.

### Outbox, TelegramUpdates, Dispatch

Every D1 statement of `deliverOnce`, and the call to Telegram, is an action of an
invocation, so invocations interleave at each of them.  Telegram accepts a
message or not, and its answer arrives in time or not.

`TelegramUpdates` adds the webhook of `app.ts` around it.  `Deliver` is Telegram
handing over an update it has no 204 for, together with the claim
(`beginUpdate`, one batch); then `ExecuteCommand`, `StartResponse`, the steps of
the delivery, `RecordCommand`, `FinishUpdate`.  `Minute` lets a lease run out under
a working invocation, whose later statements then meet those of its successor;
`Die` ends an invocation anywhere.  `Acknowledge` is the 204, which arrives or not.

`Dispatch` is `dispatchScheduledWorkflow`: `Claim` (INSERT OR IGNORE), `Call`
(GitHub accepts or not, the answer arrives or not), `FinishSent` (storing SENT
may fail, with or without effect), `FinishFailed`, `Vanish`.

### ArchiveBuild

Both builders (one-minute and native monthly archives) over one directory: a
download may break at any attempt, the job may be killed between any two steps
and is started again on what it left.  `content` ranges over everything a small
archive can hold: rows out of order, missing, closing early or invalid.  The
inspection of the builder and the scan of the loader are separate definitions,
as they are separate code.  The native builder looks at no row: its record is the
checksum and the month (`NativeRecord`), its manifest knows neither row counts nor
missing intervals (`NativeSpecAccepts`), and its loader wants one candle that opens
with the month.

### NewsRisk, RiskTimeline

`NewsRisk` is the decision of `news/engine.py` at one instant: clusters of related
items, contradictions, confirmed and awaited headlines, event windows,
`block_until`, issues of coverage.  A headline carries the words and topics the engine
looks for; a cluster is classified from all of them as one text, by the words and the
first topic of the list (`Category`, `Volatility`), as `_events` does with the joined
text.  A term of two words that only the joining puts together is left out: the one that
could hide a rate decision, "exchange outage", brings the word "outage", which is HIGH
by itself.  `RiskTimeline` is the pipeline around it, one
action per job: `Fetch`, `PublishEvidence`, `Derive`, `ImportRisk`, and `KillRisk`
anywhere.  The gaps of the evidence are a set, the longest runs of boundaries a source
does not cover: what sorting and joining them comes to.  `DecidedAsOfThen` compares each derived point with the decision over
everything observed by then, without the windows the derivation looks through.

### ReplayStore, TradeSimulator, WalkForward, HistoricalRun

`ReplayStore` has the candles, the caches and the two imports; `SeriesAt` is the
code's own function, cache and all, and `Uncached` its answer from the stored
candles alone.  `TradeSimulator` has the simulator's minute (`Advance`) and the live one
(`LiveMinute`, put together from the definitions of `TradeRules`); both are run
over the same candles, a recursive function of the minute.  `HistoricalRun` is `run_thresholds`, one step per boundary
for the paths of all thresholds, and `WalkForward` the evaluation of what it found.

## 3. Runs

| Run | Instance | Shows |
|---|---|---|
| `ledger` | two signals, four receipt keys, any commands | the tables tell one story, every change has its receipt, the audit trail tells the status, the domain's machine is implemented |
| `sqlite` | two signals, six keys, any transactions | the second store implements the ledger and takes the same commands in the same states |
| `late` | one long, four minutes, every exit, two late or lost commands | booked as replayed, checkpoint vouches, no command refused, no false message |
| `policy` | two shorts that may follow one another, partial exits on, both creation alignments, a report minute, a window of three candles, one fault | no command is refused, no outcome missing from the statistics, success means caught up, classes are truthful |
| `liveness` | one long, four minutes, one fault, a pause, fair scheduling | the decided is booked in the end |
| `outbox_serial` | three messages, one invocation, two crashes, fair | never resent, status is true, every message taken |
| `worker` | two webhook invocations, two updates, one crash; three dispatch invocations, two instants | PENDING proves unsent, one attempt, status forward; a completed command was answered, an update is lost only by a death, a finished one stays finished; one run per instant and a true record of it |
| `history` | all small archives, risk pages and candle histories of section 3.1 | what is published is complete and loadable; no look-ahead and no silence in a risk window; the cache is invisible; a simulated trade ends as the live rules end it; the evaluation takes what the runner produces |

Runs that TLC must find violated, each a difference between the code and what the
repository says of it (section 6): `orphan`, `refused`, `gap`, `outbox_resend`.

### 3.1 Why the bounds are enough

- *Ledger.*  The first signal can go from activation through management to both
  closes, and one key is left for the second: every command meets every state of
  the signal it concerns, and the receipts of another.  Keys and notices are
  interchangeable (symmetry); no property counts them.
- *SQLite.*  A key belongs to one operation, so there is no symmetry and each
  operation has its own key: two activations and two closes (each meets the
  other's key and the other's signal), one expiry, one decision, one foreign
  event, one setting that names a secret and one that does not.
- *Markets.*  The candles are chosen so that each rule decides both ways: entry
  touched or not, stop and target in one candle, a gap beyond the stop, a close
  at the protection trigger, a retrace to the protected stop only.  Four to five
  minutes hold creation, activation, protection and exit with one minute to
  spare, and an expiry instead of an activation.
- *Faults.*  One fault at any step already makes every command both lost and
  repeated; two let a late command overtake a lost one.  More faults repeat the
  same state: after a failure the run is forgotten and only the ledger remains.
- *Worker.*  Two invocations race for one update or message; a lease of zero
  minutes runs out at the first tick, so a second delivery takes an update over
  at any statement of the first, dead or alive.  One update is a command, the
  other is not.  Three dispatch invocations for two instants let two overlap on
  one while the other is independent.  Webhook and scheduled handler share no
  table: exploring one while the other rests shows the same as their product.
- *History.*  The jobs meet only in files that are never changed once written, so
  each is explored alone.  Archives: a month of three minutes and one of a single
  minute hold a gap at the start, inside, at the end, a whole month and across
  the border; a native archive holds up to two rows, opening with its month or not; two
  downloads and two builds give one failure and one restart.
  Risk: two months of five boundaries, every combination of one event (or none)
  per month and impact with a date of modification before, amid or none.  Two headlines of
  one story or of two: one of the central bank, with a rate decision or without, and a
  grave one that agrees or contradicts, a routine one of another topic, or an irrelevant
  one.
  Replay: ten minutes, intervals
  of two and four, two deviations at any place (a gap, a rise to protection, a
  fall to the stop, the target, a return to the protected stop); two thresholds
  and two scores, so that a path admits what the other refuses.

Deadlock is checked in every engine run.  The other runs switch it off: keys,
starts, crashes, deliveries and builds are bounded there, and a job that has
reported is over, so the system may really stop.

## 4. Fairness

`ReplayContract!FairSpec`: weak fairness of the run's steps, among them its
start, and of time.  The schedule starts a run every few minutes, the workflow
never cancels one in progress, and each step of a run is bounded by a timeout.
Nothing is assumed of faults, late commands and the owner; faults are bounded
by `MaxFaults`, because a run that is killed every time never gets anywhere.

`Outbox!FairSpec`: weak fairness of the steps of an invocation and of the drain,
with which every run begins.  Nothing is assumed of requests and crashes.

No liveness is stated of the webhook, the dispatch and the historical jobs.  The
code promises none: an update whose invocation died is not necessarily taken up
again (section 6), a dispatch is never repeated, and a job that failed waits for
a person.

## 5. Proofs

Assumptions are those named in the modules: columns are subsets of the integers
where the code compares them, `Null` is no value of a NOT NULL column, prices
satisfy what the domain models validate, a partial exit may not precede
protection (`ManagementPolicy` refuses such a policy), and the answer to a command
is a message of the outbox.

- **Ledger** (`LedgerProofs`).  The inductive invariant is the conjunction of
  `TypeOK`, `StatusMatchesRows`, `ClosedTracksHaveOutcomes`,
  `FixedTrackUntouched` and `OneActiveSignal`.  None of the last four is
  inductive alone: that a closed track has its outcome needs that a new
  activation finds no tracks, which is `StatusMatchesRows`; that the FIXED track
  keeps the stop of the terms needs that terms exist wherever a trade does.  The
  proof has one step per command; the invariant then gives the action properties
  (receipts, monotonic checkpoints, append-only audit).
- **Life cycle** (`LedgerProofs`).  Under the refinement mapping (the
  journal is the part of `trade_events` that concerns the signal itself) every
  command is a step of `SignalLifecycle` or a stutter.  From this follows that
  the audit trail alone determines the status.
- **SQLite** (`SqliteProofs`).  The ledger's own invariant is carried through the
  mapping: `L == INSTANCE LedgerProofs` under the same substitution makes its
  theorems statements about the SQLite tables.  Added to it are `EventsTell` (an
  event of a command bears a key of that command's operation, and every decision
  has its event) and `AlertsOnly`.  With them an unused UNIQUE key is the same as an
  unused receipt, so each transaction is the ledger's command: `Refinement`
  (`ImplementsLedger`), and `TakesTheSame` (`TakesWhatD1Takes`) for every choice of
  the constants.
- **Outbox** (`WorkerProofs`).  For any number of messages, invocations and
  crashes: PENDING means no call began, a row leaves PENDING once, statuses move
  forward.  The strengthening is `MarkedBeforeCall`: an invocation past its mark
  step works on a row that has left PENDING.
  `NeverResent` and `StatusIsTrue` fail when two invocations race (run
  `outbox_resend`), because the UPDATE before the call does not tell its caller
  whether it changed the row.  `OnlyARaceResends` and `OnlyARaceLies` show that this
  race is all there is to it: under `[]Apart` (no two invocations past the read of the
  same PENDING row) both hold for any number of invocations, drains, repeated
  requests and crashes.  `CallAt` is the strengthening: an invocation that is
  between its mark and its result is the only one to have touched the row.
  `OneAtATime` is the case of run `outbox_serial`, for any number of messages.
- **Webhook** (`WorkerProofs`).  For any number of updates, invocations and
  crashes and any lease.  A step of the webhook is a step of the outbox, leaves
  the outbox alone, or kills an invocation; so the outbox's invariant holds here,
  too.  `Held` (a PROCESSING row has its invocation unless that died; an
  acknowledged update has a row) gives `LostOnlyByDeath`.  `Progress` (what an
  invocation has done by the time it reaches a phase) carries the outbox's
  invariant to the last statement: deliverOnce returns with its row past PENDING,
  hence `CompletedMeansAnswered`.
- **Dispatch** (`WorkerProofs`).  `ClaimHeld`: the claim of an instant has one
  holder, who has not called while it may still call.  It gives one run per instant
  and the truth of SENT and FAILED for any number of invocations.
- **Engine and ledger** (`EngineProofs`).  `EngineInv` types the run, the commands it
  has still to send (`EngineCommand`) and those that arrive late.  The engine
  composes its commands from what it read, so that their columns hold them is not
  obvious: a fill price, a result and a moved stop are integers only because the
  terms of every created signal satisfy `ValidTerms`.  `WideColumns` is the one
  hypothesis: identifiers, keys, decimals and snapshots are texts, and a column
  holds any of them.  Every step then is a command of the ledger or leaves it
  alone (`EngineImplementsLedger`), and what is proved of the ledger holds of the
  engine.
- **Books** (`ContractProofs`).  `BookedResultsAreTruthful` carries the class of a
  close from the plan to the row: `SoundInv` says of every close on its way, in
  this run or late, that its result is truthful, and of every open track that its
  row is sound (`SoundRow`), with the fill the terms give.  `StatisticsMissNothing`
  needs that no close arrives late: the snapshot is computed from what the client
  reads just before it sends the close, and a close executed between the two would
  be missing from it.
- **Messages** (`ContractProofs`).  A message is planned behind the commands it
  announces.  `TruthInv` says of each message in the list that its event is in the
  audit trail or that a command before it in the same list will write it, and of each
  late message that its event is there; a key names its signal, candle and action
  (`Keyed`), so a command that was executed before under its key has written that
  very event.
- **Replay** (`ReplayProofs`).  `BookedAsReplayed` and `CheckpointVouches` compare the
  ledger with a replay nobody runs, and neither is inductive: a command that a run
  gave up on may be executed many runs later, between two commands of another.
  `ReplayInv` has three parts.  *Books* says where the rows of a signal are: at the
  replay's state after the candle of the lifecycle checkpoint, before or after its
  management decision, or under way to the next candle, each track on one side of
  it or the other.  *Pending* says of every command that can still take effect,
  late or in the list of the run behind the commands before it, that it is what the
  replay does next or was done already, so that executing it, then or never, keeps
  Books.  *RunWaits* says of the run that what it read is still what it would read:
  the candle it is at is the next one, except for a late command that has overtaken
  it, whose effect its own command will find booked.
  Two facts the code does not check carry the argument: a signal's exit is replayed
  before its management on the same candle, and a command carries the key of its
  signal and candle.  A third the code cannot guarantee: that a snapshot of `Window`
  candles reaches back to the next one of an open managed trade.  `InWindow` states
  it, `[]InWindow` is the hypothesis of the first two theorems, and the run `gap` is
  the behaviour that violates both it and the property.
  `ReplayedWithinOneWindow` has no such hypothesis: when the candles there are fit
  into one window, `InWindow` holds by itself.
- **Success** (`ReplayProofs`).  `SuccessMeansCaughtUp` speaks of the end of a run;
  what carries it there is `RunProgress`.  From the bootstrap on, a signal that was
  open when the run began is in the queue, or has caught up with the snapshot
  (`CaughtUp`: no candle of it unresolved or unmanaged); from the snapshot on nothing
  of it is booked beyond the snapshot's last candle (`Within`), and no command that
  is out, late or queued, is about a candle the snapshot does not hold.  The last is
  why a late command of an earlier run does no harm: it is about a candle that run
  saw.  Two hypotheses: `[]InWindow`, as above (`CaughtUpWithinOneWindow` does
  without), and that no create_signal is executed after its run gave up on it; such
  a signal appears in the middle of a run that never had it in its queue.
- **No refusal** (`ReplayProofs`).  A refused command would be refused in every later
  run, too, and stop monitoring for good.  *Pending* says that a command is what the
  replay does next or was done already; `Backed` adds that whatever is booked has a
  receipt under the key of the very candle the replay books it on, and the replay
  opens a signal and closes a track on one candle only.  So a command that finds its
  work done finds its own receipt.  What remains is the unique index on ACTIVE
  signals, which relates one signal to all others.  `Supersedes` says that of any two
  signals one has had its chance (`Outlived`: it is over, or it is pending and its next
  candle lets it lapse).  A run admits a signal on what it read at its bootstrap and saw
  while monitoring; `RunKnows` says that it has seen every signal there is, open trades
  included, so that the latest one is at least `Cooldown` old.  Three hypotheses
  beside `[]InWindow` (`NothingRefusedWithinOneWindow` does without that):
  `Cooldown >= Expiry`, which `SignalPolicy` has by its defaults (four hours each) and
  does not enforce (with `Cooldown = 1` and `Expiry = 3` in `MCEnginePolicy.cfg` TLC finds
  a second activation refused); no create_signal that is executed late; and a route
  whose schema lets every command through (`RefusedOps = {}`).
- **Trade rules** (`TradeRulesProofs`).  For all integer prices that satisfy
  `ValidTerms` and `ValidCandle`: the stop costs exactly 1R, break-even nets
  zero, a partial exit needs protection, management keeps a row sound, and the
  class of a close agrees with the sign of its result.  `SoundRow` is the
  invariant of a track row that the close rules need and management preserves.
- **Run over stored history** (`HistoryProofs`).  For every history, with whatever
  gaps, all interval lengths, limits, signals with positive prices, expiries, cooldowns,
  thresholds and ranges.  The model computes with recursive functions of the minute,
  and what they compute is proved without an induction rule: if a claim failed for
  some minute there would be a least such minute (`LeastNumber`), and its predecessor
  refutes it.  Four lines of argument meet in `RunInv`.
  *Resampling*: `BucketAfter` says of the scan after each minute which intervals it
  has stored and which minutes its open bucket has counted; a count that equals the
  length of the interval between its first and last minute leaves no minute out
  (`StoredWhenWhole`).  Hence `WholeIntervals`.
  *Cache*: a cached series is the longest gapless one that ends at some stored candle
  (`Cached`), which is what makes both extending and shortening it right
  (`EndingExtends`); it outlives no import.  Hence `CacheInvisible`, whatever was
  asked, by a caller or by the run itself.
  *Simulation*: one minute takes the simulator and the live rules from like states
  (`Alike`) to like states (`MinutesAlike`), so the whole stream does, up to the gap
  that ends it (`ReplaysAlike`), and what is left open there is UNRESOLVED where the
  live track would still wait.  Hence `BacktestMeasuresLive`.
  *Paths*: both lists of a path hold the same signals in order, all before the
  boundaries that are left, and a managed track ends before the next one begins
  (`PathOf`), because a signal is admitted only behind `managed_active_until` and
  `terminal_at` of an unresolved track lies behind every minute it has seen.  This
  is what `_validated_trades` and `compare_trades` would refuse otherwise.  Hence
  `RunsAreEvaluated`.
  *Evaluation*: `Successive` is what `PathOf` says of the managed track: every trade takes
  time and ends before the next begins.  The tests of the folds, collected one after the
  other, are one slice of the list (`SampleIsSlice`), and the places whose trades lie in
  some window of the folds are the places of that slice (`WindowsHoldTests`): the trade
  before the first test ends before the window opens, and the one behind the last test of
  a fold ends behind `test_end`, or in the window of the next fold.  Hence
  `PrimaryRowHolds`.  The FIXED track is not successive, its trades overlap; of it the
  property says only that the pairs are matched with its own sample.
- **Archives** (`HistoryProofs`).  For every list of month bounds and every content of an
  archive.  `ArchiveInv` says of the builder that its records are those of the files on
  the disk (`RecordsAreTrue`) and that draft and manifest are these records, taken by the
  loader (`DraftIsTrue`); a build that was killed leaves a directory behind, and no
  builder enters a directory that exists.  The substance is in the two scans.
  *Builder*: after each row the declared intervals are the longest runs of minutes
  without a row that closes at the end of its minute (`Canonical`; `JoinCanonical` for a
  gap that touches the one before it), and the anomalies are the other rows
  (`RowScans`).  Rows are counted by minutes and anomalies together (`RowCount`), which
  is the last check of `ArchiveSpec`.  A native archive has no scan of the builder to agree
  with: what its manifest promises is what the builder checked through the loader before
  it published.
  *Loader, on what the builder declared*: behind each row it stands at the interval the
  row lies in, or expects the next minute (`Stands`); on the way to the next row it
  passes at most one interval, because between two intervals there is a candle
  (`PassArrives`).  Hence `TheScansAgree`.
  *Loader, on whatever it accepts*: what it passed and took are the minutes up to the one
  it expects, and no candle is declared missing (`Divided`); this uses only what the
  dataclass checks, so it holds for a manifest from any hand.  Hence
  `PublishedDatasetsAreComplete`.
- **Risk timeline** (`HistoryProofs`).  For every policy, calendar, schedule and headline
  that satisfies three assumptions: `PolicyAssumption` (waits and windows are positive,
  the extreme ones no shorter than the high ones, no wait longer than the lookback, as the
  defaults of `NewsRiskPolicy` are), `CalendarAssumption` (months follow one another) and
  `PagesAssumption` (both news archives are official sources and write the time of
  publication as the time of observation).  `RiskInv` says that the evidence is what was
  gathered from the pages, vouched for by its loader, and each draft the derivation of it.
  `DecisionsAreOfThen`: a headline or release outside the window the derivation looks
  through ends no block and starts no caution, so the decision and its end are those over
  everything observed by then.  `DraftsAreImportable`: a block that is decided ends behind
  its boundary, and nothing in a point was observed behind it.  `RiskIsNeverSilent`: a
  release that was known by then blocks by itself; one that was not leaves a gap from the
  start of its section, and joining gaps loses no boundary of it (`CoalesceGaps`), so an
  issue blocks.  A headline that is grave when read alone is grave in its cluster
  (`ClusterIsGravest`): the words _volatility looks for only add up, and of the topics
  ETF, the only one that is grave without any word, comes first.  The exception is a rate
  decision without such a word, which needs CENTRAL_BANK to be the first topic;
  `Obscured` names it and the theorem leaves it out (section 6).

Model-checked only: all liveness (`ReplayCatchesUp`, `EveryMessageTaken`), which is out of
the prover's reach.

## 6. Where code and documentation differ

- `orphan`: closing the MANAGED track closes the signal, and only PENDING and
  ACTIVE signals are monitored: an open FIXED track is never finished, although
  `docs/position-management.md:51` says it continues.
- `refused`: the schema check of the repository route refuses object keys with
  `-` or `.`; the statistics of `close_track` are keyed by strategy version.
  Every close is answered with 400.  The passing runs set `RefusedOps` to the
  empty set, so that they show what the engine does beyond this refusal.
- `gap`: the life cycle of a candle is resolved before management compares it with
  its own checkpoint.  A run dies between the two for candle r, and the next run
  that collects sees only what follows r: it resolves r+1, closing tracks at the stop
  management would have moved on r, and only then management refuses the gap.
  `docs/position-management.md:12` has management evaluate every completed candle
  before the next is resolved.  Where no candle leaves the window between two runs
  (run `late`) the books are the replay's.
- `outbox_resend`: two invocations that both read PENDING both send, although
  the comment at `worker/src/state-api/routes.ts:257` says otherwise.

- Headlines of one story are classified anew from their joined text, by the first topic
  in the list of `_category`.  A rate decision, HIGH when read alone, is MEDIUM together
  with a report of its story that names an exchange, a stablecoin or an insolvency, and
  the hour of confirmation that `docs/news-risk.md:46-47` promises is gone.  This has no
  run of its own: `Obscured` is the exact exception of `RiskNeverSilent`, and the instance
  of run `history` contains the case, so that TLC refutes the property without it.

Behaviours the models explore that contradict no promise of the documents, but
that a maintainer should know:

- An outage longer than the collected window leaves a gap that every later run
  refuses, so monitoring of the signal ends (run `policy` has a window of three
  candles: no run across the gap reports success).
- A run that read the pause flag before `/pause` was answered still creates its
  signal.
- A retry of an update within the lease of an invocation that died is answered
  204 and Telegram stops delivering it: the command is lost (`LostOnlyByDeath`
  states exactly this and no more).
- The gap that stands for an undated section of a schedule page begins with its
  month.  The window of an event in its first minutes begins in the month before,
  where no gap covers it; `RiskNeverSilent` leaves those boundaries out.
- The sensitivity rows select FIXED trades by time windows, so they may count
  trades that are in no fold; only the managed primary path agrees
  (`PrimaryRowIsTheSample`, proved as `PrimaryRowHolds`).

## 7. Not modelled

- HMAC, nonces, clock skew and body limits of the state API.  The client never
  repeats a request, so what these refuse is a request the client did not send.
- The market-data and news transports (retries, deadlines, parsing) and the
  cross-venue comparison: they keep no state and end in a snapshot or in a failed
  run, which is all `PaperEngine` sees.
- Analysis (indicators, structure, regime) and the score of a signal: pure decimal
  arithmetic over up to 200 candles.  Whether a setup exists is the environment's
  choice: `Setup` in the engine, `Setups` and `Scores` in the backtest.
- The figures of statistics and of backtest reports, the verdict and the cost
  stress: sums and ratios.  Which outcomes and trades they are taken over is
  modelled.
- The periods and the text of reports, the wording of messages, and the paging of
  outcomes.
- ZIP, CSV, HTML and JSON formats: an archive is a list of rows, a page a set of
  events and a modification time.
- Configuration, redaction, scripts and workflows, except what `PaperEngine`
  assumes of the workflow: one run at a time, killed at any step.

A read of the ledger is atomic in `PaperEngine`: the run is the only writer of what
it reads, late commands aside, and these are explored between planning steps.  The
outcomes and the strategy that a close reads are requests of their own in
`state_api_repository.py`; here they and the close are one step, so a late close of
another signal that lands between them is not explored, and `StatisticsComplete` is
stated only where no command is late (run `policy`, `StatisticsMissNothing`).

`BacktestIsLive` compares the simulator with the live *rules*, applied to each track
for itself.  The live engine stops replaying a FIXED track once the MANAGED one has
closed (run `orphan`); the backtest finishes both.

What would come next: the paging of outcomes together with late closes, the
report periods over the time zone's changes of clock, and the nonce window.
