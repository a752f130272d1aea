# Home energy optimiser: specifications

TLA+ specifications of the home energy optimiser, their TLC models and their
TLAPS proofs. Every definition is a translation of the code at the lines that
`PROJECT.json` gives for it; paths below are relative to the repository.

## 1. The system

One Home Assistant App process collects household energy observations every five
minutes, and next to it produces advisory forecasts, reserve estimates and
decisions. Nothing in it commands hardware: the one piece that models a command,
the supervised rehearsal, talks to a fake transport. PostgreSQL is the shared
state (SQLite in tests and for the rehearsal).

| Component | State it keeps | Operations | Interacts with | Hard behaviour |
|---|---|---|---|---|
| Supervised rehearsal (`arbitrage/supervised_pilot.py`, `arbitrage/executor.py`, `tools/rehearse_supervised_pilot.py`) | SQLite journal: intents, contracts, approvals, evidence | propose, approve, reject, dispatch, observe | operator processes over one file, fake transport | every SQL statement commits on its own; processes overlap and die |
| Forecast coordinator (`forecast_operations.py`, `db/repository.py`) | in-process lock, session advisory lock, attempts, forecast, reserve and decision rows | schedule, run_boundary, recover | PostgreSQL, retention, weather, AppHealth | claim and lock are different things; failures between any two statements |
| Retention and rollups (`forecast_retention.py`, `forecast_rollups.py`) | daily claim, detail rows, rollups | preflight, prune batches, refresh a date | called by the coordinator | batches commit one by one; rollups are rebuilt from what is left |
| Weather (`weather/`) | cycles, attempts, payloads, block state, spool file | claim, fetch, spool, finish | coordinator thread, provider | crash between request and archive, late answers, quota |
| Collector (`tools/run_collector.py`, `collector.py`, `persistence.py`) | one row per five-minute slot | collect, save with retry | Home Assistant, PostgreSQL | lost replies, retry of an upsert, what ends the loop |
| App (`home_assistant_app.py`, `tools/run_home_assistant_app.py`) | AppHealth, stop event | start, stop, record, respond | all threads | three threads, bounded joins |
| Context and capture (`context_*.py`, `arbitrage/capture.py`) | captures, commit witnesses | capture, witness | collector, coordinator | a capture and its witness are two transactions |
| A reading (`energy_flow.py`, `power_signs.py`, `ev.py`, `health.py`, `collector.py`) | none | derive flows, labels, vehicle, baseline, health | collector, reprocessing | meters that disagree, missing or old entities, two sign conventions |
| Reprocessing, annotation, reclassification (`reprocessing.py`, `ev_annotation.py`, `household_demand_reclassification.py`) | derived columns, audit, annotations with what they replaced | reprocess, annotate, remove, reclassify | collector writes the same rows | any order of tools over rows that others rewrite |
| Demand forecast, opportunity, reserve (`demand_forecast.py`, `opportunity_window.py`, `reserve.py`) | none | pure functions | coordinator | what may be learned from; energy that is counted twice |
| Evidence and calibration (`forecast_actuals.py`, `forecast_alignment.py`, `forecast_calibration.py`, `forecast_rollups.py`) | none | pure functions and one SQL query | coordinator, dashboard | everything is computed twice, by different code |
| Shadow decisions (`shadow_decisioning.py`) | decision and outcome rows | evaluate, score outcomes | coordinator | policy over many inputs |
| Arbitrage research (`offline_paired_synthetic.py`, `arbitrage/core_bridge.py`, `selector.py`, `economics.py`, `outcomes.py`, `conditional_adapter.py`, `independent_reconciler.py`, `export_model.py`) | none | pure functions | offline tools | a conserved energy, two accountings, three paths, hindsight |
| Recorded advice (`arbitrage/opportunity.py`, `advisory_inputs.py`, `archive.py`, `soc_freshness.py`) | archived opportunities | assemble, advise, show | captures, reserve, profile | inputs with clocks of their own |
| Transfer (`db/transfer.py`) | two databases | copy, validate | operator | a copy that is cut off, repeated, and onto a database in use |
| Jev runner and panel (`jev_*.py`, `ai_*.py`) | rehearsal ledger | reserve, attempt, clean up | worker process | a worker that is killed or late |
| Dashboard, probes, reviews, parsing, configuration | none | read, convert | | none |

What makes the parts correct:

- rehearsal: no intent is commanded twice; nothing is sent that is not durably
  recorded, approved and evidenced; one commanded intent is open at a time; what
  was sent is eventually reconciled; an aborted intent stays held.
- coordinator: a boundary is worked at most once; what is stored was claimed, and
  in order; a success is complete; operations exclude each other; a failure does
  not block later boundaries; the audit status of a finished attempt is final.
- retention: what is deleted stays represented; pruning goes on day after day.
- weather: every request is reserved and counted first; an answer received is
  neither lost nor archived twice; a closed cycle stays closed.
- collector: one row per slot, the newest; a transient error does not end it.
- capture: a witness only for what was committed.
- a reading: what is said of a direction is what the meters leave possible, and only
  a whole, balanced reading may carry an action.
- stored history: no training row has an unknown vehicle, an annotation can be taken
  back; a transfer loses nothing and may be cut off and repeated.
- forecasts, reserve, decisions, advice: they rest on inputs that were known, fresh
  and belong together; energy and money are counted once; what two pieces of code
  compute they compute alike.

## 2. Modules

| Module | What it is |
|---|---|
| `ExecutionJournal` | the states and legal transitions of an intent (`executor.py`) |
| `SupervisedPilot` | the rehearsal: one action per statement or call of each operation, any number of operator processes, properties, mutants |
| `SingleUseSlot` | abstract specification: what the rehearsal promises about the one slot, a command and its feedback |
| `SupervisedPilotProofs` | inductive invariant of `SupervisedPilot` and its safety theorems; for serialised processes what each knows, and that `SingleUseSlot` is implemented |
| `MCSupervisedPilot` | TLC instances |
| `ForecastCoordinator` | the coordinator thread of each App: scheduling, locks, claim, saves, audit, failure handling, recovery |
| `ForecastCoordinatorProofs` | its inductive invariant and safety theorems; with every answer delivered, that a status is final |
| `MCForecastCoordinator` | TLC instances |
| `ForecastRetention` | forecast detail from its creation to its deletion: scoring, rollups, the daily retention run of the App and of an operator's tool |
| `ForecastRetentionProofs` | its inductive invariant and the four properties the run checks |
| `MCForecastRetention` | TLC instances |
| `WeatherCollection` | the Apps that collect weather for one account: reservation, request, spool, archive, and what is read from it as of a time |
| `WeatherCollectionProofs` | its inductive invariant and the seven properties the run checks |
| `MCWeatherCollection` | TLC instance, with the symmetry of Apps and of configurations |
| `CollectorApp` | the process of an App: main thread from the reading to the capture and its witness, the decision inputs of the coordinator thread, signals, exceptions, shutdown and restart |
| `CollectorAppProofs` | its inductive invariant and safety theorems |
| `MCCollectorApp` | TLC instance |
| `Readings` | what modules over readings share: a missing reading, ratings |
| `EnergyFlow`, `VehicleTelemetry`, `DataHealth` | the directions and labels of a reading and the analysis of sign conventions; what is believed of the vehicle, and the load without it; what may be used of a reading |
| `Observation` | a row of the history: what the collector makes of the entities, what reprocessing derives of a row |
| `ObservationStore` | stored rows under the collector and the operator's four tools |
| `ObservationStoreProofs` | its inductive invariant and `HistoryIsSound`; theorems on the flows, the readiness and the reprocessing of any reading |
| `VehicleHistory` | candidates for unnoticed charging sessions, provenance of training samples |
| `Transfer` | the transactions of a transfer to PostgreSQL, and both validations |
| `TransferProofs` | what a transfer does to any target, from any source, in batches of any size |
| `OpportunityWindow`, `ReserveEstimate` | the next window to refill the battery; the reserve and the tradable energy |
| `DemandForecast` | household demand of a horizon from the strongest tier of samples |
| `ForecastEvidence`, `Calibration` | the actual value of a point, in Python and in SQL; calibration by points and by rollups |
| `ShadowInputs`, `ShadowDecision`, `ShadowOutcome` | price coverage and demand of a window; the decision; what was observed of it later |
| `Dispatch`, `PairedLedger` | one phase of constant power on the AC bus; the paired experiment, its admission, checks and comparison |
| `KernelBridge`, `ArbitrageSelection` | the three paths of an arbitrage decision; admission, selection, thresholds, replay and outcome |
| `ConditionalStudy`, `ExportModel` | the study of a retained export and its independent reconciliation; the export research model |
| `ArbitrageAgreement` | what those must agree on |
| `Advice` | from two captures and a declared profile to a selection, or the reasons against one, and what the board shows |
| `PolicyProofs` | theorems on `Route`, on `Decide` and on `Estimate` for all inputs |
| `MCPolicy` | TLC instances of the rows from `Readings` on: extends `ObservationStore` and `ReserveEstimate`, has a named instance of each of the others |

The stateful modules meet in two places, where one takes the other's result as a
choice of its environment: a run of retention is what the coordinator calls after a
boundary (the action after it in `ForecastRetention`), and the coordinator thread of
`CollectorApp` is `ForecastCoordinator` reduced to the capture at the end of an
operation. The pure modules are composed as the code composes them: `ObservationStore`
calls `Observation`, which calls flows, vehicle and health; `ShadowDecision` takes
`ShadowInputs` and the rating of `Calibration`; `Advice` calls `ArbitrageSelection`,
which calls `KernelBridge` over `PairedLedger` over `Dispatch`.

### 2.1 The supervised rehearsal

`SupervisedPilot` keeps, per intent, the journal state, the approval, evidence and
contract rows and how often the transport was called, and per operator process its
place in the code (`pc`), its intent and what it has read. One action is one SQL
statement, or the transport call, with the checks of the code before it: `Dispatch`
reads the contract row and `Check` the state, because another process may write in
between; `MarkSent` commits SENT and `Transmit` calls the transport. `Stop` kills a
process anywhere; `DatabaseFault` makes the statement at hand raise. The clock, the
feedback frames and the bound on evidence records are nondeterministic verdicts.
`Exclusive` (at most one process at a time) is a constant: the rehearsal tool is an
interactive script, and nothing in the code serialises two of them.

### 2.2 The forecast coordinator

`attempt` is the status column of the claim of each boundary, `rows` counts the
forecast, reserve and decision rows saved for it, `lock` is the session that holds
the advisory lock, and per App `pc`, `at` (the boundary), `active` (the in-process
lock), `token` (the variable `durable_lock`, which may be a broken connection) and
`claimed` (`attempt_id is not None`). An action is one statement of `run_boundary`
with its exception edges: `Handler(l)` is where an exception raised at `l` is
handled, `Done` loses the reply of a committed statement, `InTime` is
`_check_deadline`. `now` counts aligned boundaries; `aged` are attempts started
longer than `max_runtime_seconds` ago. `Faults` selects what the environment does:
kill a process, refuse a statement, lose a reply, drop the connection of the lock,
or let an operation take longer than its runtime. The reserve snapshot is enabled;
a decision row may be missing. Backend: PostgreSQL (on SQLite
`try_forecast_operation_lock` returns True and there is no lock). Two Apps stand for
two processes on the database, as during an update of the App or with a second
installation; it is what the advisory lock is for.

### 2.3 Retention and rollups

`ForecastRetention` keeps the set of forecast points there are, per UTC date the set
of those its retention run has deleted, per local date the set of points its rollup rows count (`total_points` is
its size) and per date and horizon `maximum_target_utc`, the forecast runs, the
shadow decisions and attempts that refer to them, and per UTC date the claim and
the audited count. One coordinator runs an operation at a boundary (`Operate`); the
App, after it, and any operator's tool run `run_forecast_retention` (`Retain`), each
batch a step. Time is counted in slots, of which a day has two: the smallest number
with a slot that ends the local day, a slot that does not, and a UTC date that
changes in between. A cutoff may fall before or after the points of its slot; in
the code it mostly falls among them, which the preflight always refuses. Horizons
are two instead of four. Scoring takes all that is due or nothing.
`Window + 1 < Keep` is assumed, as with the defaults (30 and 90 days): nothing in
the configuration demands it, and with a window that reaches the retention period a
refresh may rebuild a date from what retention left.

### 2.4 Weather collection

`WeatherCollection` keeps the archive (`cycles` and `attempts`, in order of
insertion, and `blocked`), and per App where it is in `WeatherCollector.step`, the
attempt it has claimed, the page in memory (`pending`) and the spool: the `.json`
file and whether a `.tmp` is there. One action is one transaction, the request, or
one write of the spool, with the checks before it: `NextPage` and `OpenCycle` are
`claim_page`, which commits the reservation; `Receive` is the request; `Keep` and
`Save` write the spool; `Deliver` is `finish_page`; `Acknowledge` removes the file.
`Fail` is an exception at any of these, `Crash` and `Start` a process that dies and
one that is started with the same spool and other options. A claim whose commit
succeeds and whose reply is lost has the effect of a crash right after it. Failures
of `prepare`, of reading the spool, and a busy budget lock change no state and have
no action.

A page is its start, its targets and the cursor to the next; the kind of an answer
says what `finish_page` finds in it: targets and a cursor, targets without one, a
rate limit, or nothing known of the outcome. The kinds `unusable` and `rejected` are
in the module; they close a cycle by the same path as `limited` and are not in the
run. Targets outside the window are left out: they are stored, and count for nothing.

### 2.5 The collector and its process

`CollectorApp` numbers readings in the order they are taken and keeps, per slot, the
reading that its observation, its context row and its capture hold, and the time of
the witness. `pc` is where the main thread is: `wait`, `read`, `save`, `context`,
`capture`, `stamp`, `confirm`, `report`, then `over`, `joining`, `closing` and
`exited` for the `finally` clause of `_run`. `Reconnect` is a connection error
before or in the commit, so the upsert may be there or not; `SaveFails` is any other
database error. `Capture` and `Confirm` are the two transactions of
`CaptureRepository.save` and `Stamp` the clock read between them. The coordinator
thread reads its clock (`Ready`), selects a source (`Look`) and archives what it
found; the witness that it gives its own row is left out. Waits are measured by a
clock that goes forward, slots and boundaries by one that may be set back. What a
thread keeps in local variables is forgotten when it returns.

### 2.6 A reading and its history

A power, a price or a state is None when the entity is missing; ages are what the
freshness policies compare. `Flow` splits four meters into directions under a sign
convention, and reports what it cannot place as the residual. `Observe` is
`build_observation`: flows, vehicle, baseline, five health domains and the labels.
`Derived` is what `reprocessing._derive` makes of a stored row.

`ObservationStore` keeps the rows of the slots that are stored, the audit of derivations, the annotations with
what they replaced per slot, and the slots that scores refer to. `Collect`,
`Reprocess`, `Annotate`, `RemoveSession` and `Reclassify` are the collector and the
four tools with `--apply`. A tool reads in one transaction and writes in another: it
either does both at once, or it has read earlier (`ReadFirst`, the copy is `earlier`),
and then writes (`late`) what it makes of that copy, whatever the collector or another
tool wrote meanwhile. Only reclassification reads the rows again when it writes.
`raced` is what such a write ran over: slots that were collected, annotated or restored
since the tool had read. The properties are about all others, and a step that has run
over some is the last.

`TrainingIsClean` says what a row that trains the forecaster may have been made from:
the house without the vehicle's power, which must be known as soon as a vehicle is known
to charge. Of a negative charger power the collector takes nothing off and an annotation
takes what it is (`annotations.py` against `vehicle.py`); both are allowed.
`AnnotationIsReversible` says that the sessions a row lies under can be removed one after
the other down to the vehicle as it was collected.

The bounds of the runs are conjuncts behind the constant `Bounded`, which is FALSE in
what is proved. `ReadingsAssumption` (None is not a number, and what a source says of the
house and the charger is a number or None) is evaluated by TLC on each of the three runs.

### 2.7 Transfer

A transfer is the sequence of its transactions on the target (`Transactions`): the
batches of each table in foreign-key order, then its progress row and its sequence. A
batch is the rows whose rank in the order of the primary key has the same quotient by the
batch size.
`TransferTo` is the first n of them, which is what a call that was cut off has done.
A database is rows, next identities and progress. Between calls the target may be in
use: the App stores a forecast, replaces an observation, derives one, or retention
prunes; the source may have grown. During a call nobody else writes.

### 2.8 Forecast, evidence, calibration, reserve

Times are ticks, slots or half hours, chosen so that a boundary can be met, missed by
one and passed. Means and medians are kept as pairs, energies in units in which every
quotient that the code takes of them is whole, so no result depends on rounding that
the code does and the module does not. Coverage of a forecast by evidence is computed
by `Scored` as the scorer does in Python and by `Compared` as the SQL query does;
calibration by `FromDetail` over points and by `FromRollups` over `RollupGroups`.

### 2.9 Decision, arbitrage, advice

`ShadowDecision` evaluates six candidate actions for half an hour ahead: blockers of
the state, price coverage, demand of the window joined from two forecasts, gates,
selection and rank. `ShadowOutcome` counts what was observed later.

`PairedLedger` simulates an action and a reference on the same inputs, phase by phase:
a phase ends where an input changes or a battery limit is met. `KernelBridge` runs it
for the three paths of a decision and cuts all of them at the phases of all.
`ArbitrageSelection` admits, selects, applies the business thresholds, replays and
judges. `ConditionalStudy` goes from an export's rows to the same estimate and
reconciles it by an accounting that knows nothing of the dispatch. `Advice` assembles
the inputs of a decision from captures and a profile that were reported, taken and
witnessed at times of their own.

## 3. Runs

| Run | Instance | Shows |
|---|---|---|
| pilot | 3 processes one after the other, 2 intents, kills, database faults, an operator who keeps recording feedback | safety, the inductive invariants of the proofs, refinement of `SingleUseSlot`, and that SENT is settled |
| coordinator_faults | 2 Apps, 2 boundaries, all faults | at most one run per boundary, order, completeness, exclusion, the inductive invariant |
| coordinator_one_app | 1 App, 3 boundaries, kill and slow | every boundary that is entered is forecast; finished statuses are final |
| retention | 5 days of 2 slots, App and tool, capacity of 2 points a day | capacity per UTC date, exact audit, rollups of whole dates, deleted detail stays counted |
| weather | 2 Apps, 2 configurations, 2 slots, 2 targets in 2 pages, cap of 3 | budget, order of reservations, whole cycles, nothing lost between spool and archive, a final archive |
| collector | 2 slots, 2 attempts to save, 2 faults, kills or clocks set back | nothing kept without a stored observation, a slot read once, evidence final and known when used, a process told to stop exits |
| policy | one instance per family of computations, see below | one property per family |

The run `policy` chooses a family in `Init` and then its inputs one after the other;
the step that chooses the last input is one call, and the property is about that step.

| Property | Family: what is varied | Says |
|---|---|---|
| ObservationIsGrounded | readings: entities present, missing, old, of either sign; meters for the analysis of signs | directions are accounted for up to the residual; ready for an action only when whole and balanced; reprocessing says what the collector said; the suggested convention balances best |
| HistoryIsSound | 2 slots, 4 kinds of sources, 2 sessions, up to 3 annotations, every order of the tools, one of which may have read early | no unknown vehicle in the training data; annotations can be taken back; a tool that was overtaken harms the slots it raced for and no other, and a derivation or a reclassification in between harms none |
| TransferIsWhole | 3 sources, up to 3 events, batches of 2 | nothing lost or rewritten; a call may be cut off and repeated; a dry run foretells; PASS means the source is there |
| ForecastIsLearned | subsets of a history, horizons, configurations | learned from eligible rows before it; contaminated samples are candidates for review |
| CalibrationIsConsistent | two slots of evidence; two days of predictions | two computations of the evidence and two of the calibration agree |
| ReserveIsFunded | estimates, tariffs, batteries, a time of day | between safety floor and capacity; with the sun it was planned over, each estimate once, it pays for house, vehicle and buffer |
| ActionIsGrounded | prices with gaps and overlaps; decisions | an action only on known, fresh and linked inputs; coverage is what the ticks say |
| OutcomeIsWhole | three observations around a window | counts every observation of the window once, only those |
| PairIsConserved | plants, batteries, demand, sun, prices | energy is conserved and the simulation, estimate, two accountings, export model and replay agree |
| ForesightIsNeverWrong | the same, and what happened instead | with what came as expected the selection is the best alternative; outcomes are judged by healthy quotes once |
| AdviceIsBound | captures, decisions, profiles, price periods on and a tick off the boundary | inputs belong together, were known and recent, with a price for every tick; a board shows no action that has begun |

Bounds. Two processes or Apps are enough for every race here: each lock, slot and
claim is a yes-or-no between one holder and another, and the proofs lift the bound.
Two intents are needed for the slot; two boundaries so that an operation that
overruns meets the next one; three so that a failure, what it blocks and a later
boundary are all there. `Last` ends time, so runs of the coordinator stop
(`CHECK_DEADLOCK FALSE`), and the rehearsal stops when its processes are gone or its
intents closed; nothing else is cut off. The run `policy` stops when a call is made.

For retention, `Active` are the slots in which the App runs: two in the first local
date and one in the second, so that the first is rolled up or not, and one in the
period in which detail has expired. `Missing` is a slot whose observation may be
missing, `Shadow` one with a shadow decision.

For weather, a tick is longer than the lease (0) and as long as a cycle may be
continued (1); a slot and a day are 2, so that the second slot meets reservations
that have left the window of 24 hours and some that have not. A cap of 3 is one less
than two cycles need: the second is opened only if the budget allows. Two targets in
two pages give every cursor there is (next target, end of window, none). There is one
exception, crash or step of the clock per behaviour: each App has a spool of its own,
and a second fault meets a state a first one could have left. Apps with equal options
and configurations are interchangeable: nothing compares them, hence the symmetry.

For the collector, a slot and the interval are one tick: what matters is whether a
step falls into the slot of the one before, and a restart, a retry or a slow
statement may fall into the next. Two readings are enough for one to replace, follow
or contradict another. Two faults reach: a lost reply and a second error, a capture
without witness and a kill, an exception and a coordinator that hangs. The clock
stops at `Last` (`CHECK_DEADLOCK FALSE`).

For the store, two slots are one that a session covers and one it shares with another
session; three annotations are one more than a removal must see past. The collector
writes the latest slot again only before the second annotation and before a
derivation: the rest of the orders add states, not cases. A tool that writes late has
read before the second annotation and the first derivation, and the others write once
until it does; a run ends at the first slot raced for. One sign convention is in
use; its change is part of the family of readings. Advice has periods that start on
the boundary or one tick late; other offsets are refused by one guard. A transfer has
fewer than 16 slots, which only the order of the rows needs; batches of two give a
full batch, a part of one, and none.

Overlapping processes of the rehearsal have no passing run of their own: `IInv`,
`AtMostOneSend`, `SendIsJournaled` and `OneCommandOutstanding` are proved for them.
`RowsAreClaimed` of the coordinator and the type invariants of retention, weather and
the collector are proved, or part of an invariant that is, and in no run.

Fairness. In `pilot` a survivor keeps dispatching and observing: strong
fairness of the operator's calls, which stands for a person who goes on until the
rehearsal is closed, and weak fairness of the process once called; the 256-record
bound on evidence is left out, so the run says nothing of an operator who exceeds
it. In `LiveSpec` of the coordinator time passes, the Supervisor starts an App that
is down, and a thread that can go on does (weak fairness each): there is one
cooperative thread, bounded waits on the database and a timed event wait. In
`LiveSpec` of the collector the main thread goes on (weak fairness): requests have a
timeout and retries a limit. The repository of observations sets no statement
timeout, so this assumes a database that answers or breaks the connection. Nothing is
assumed of the coordinator thread, and no time need pass. `Join` may return at once:
its timeout is what the property rests on. The dashboard server is taken to shut
down.

### Disagreements between code and text

Each is a run that TLC must find violated; `findings` quotes the text.

| Run | What happens |
|---|---|
| pilot_abort_race | one process aborts, another one's `observe`, already past its check, releases the abort |
| coordinator_wedge | a dropped lock connection makes the `finally` clause raise before `_active` is released: every later boundary is skipped until a restart |
| retention_unproven | the preflight compares two sums: points that old rollups count, but that are deleted already, stand in for detail that no rollup counts, which is then deleted |
| policy_rank | candidates are numbered by rank and chosen in the order they were built |
| annotation_reuse | an identifier used for two annotations of a slot: removal restores the first, which nothing can remove |

### Behaviour a reader may not expect

Without a run; the modules have the first group, the others are what reading the code
for them showed.

Rehearsal and coordinator:

- feedback recorded by another process between `MarkSent` and `Transmit` moves the
  intent on, and the command goes out all the same (`executor.py:311`);
- `dispatch` reads the session before the state (`supervised_pilot.py:398`): with
  overlapping processes the proposing session may send what another one approved;
- an `approve` that is refused by the busy slot, or interrupted after its first
  statement, leaves the approval row, and the intent can never be approved
  (`supervised_pilot.py:352`);
- a process that dies at PRECHECKED leaves an intent that no operation moves, in
  the only slot (`executor.py:310`); after 256 records of evidence `observe` raises
  before it looks (`supervised_pilot.py:205`), and an intent that is open then stays so;
- the contract clock is compared and updated in two statements, with a tolerance of
  two seconds that each call grants anew (`supervised_pilot.py:238`);
- an App without the lock audits a boundary as skipped by claiming it: if it does so
  before the holder's claim, nobody works it (`forecast_operations.py:277`), so
  `EnteredIsForecast` is a property of one App;
- `Recover` runs once per start, although the log says "next boundary will retry"
  (`forecast_operations.py:159`), and an App that restarts within
  `max_runtime_seconds` leaves its own attempt `running`.

Retention, weather, collector:

- after a date was pruned, its rollup stays in the preflight's sum
  (`forecast_retention.py:463`): unless the surplus matches by accident, as in
  retention_unproven, the sums differ from then on and retention stays blocked;
- a run with a shadow decision cannot be deleted (foreign keys of
  `shadow_decisions`): `PruneRuns` fails every day once such a run is old enough;
- only the two earliest incomplete dates and yesterday are rebuilt
  (`forecast_operations.py:335`): a date with no far horizon at all stays among them;
- a page whose outcome was unknown and that is delivered a second time becomes
  LATE_RESPONSE, although `docs/integrations/weather-collection.md` calls delivery
  idempotent: no target and no budget depends on it (`weather/repository.py:244`);
- a crash between the two files of the spool leaves a `.tmp` alone, at which every
  later start of the collector stops until someone removes it (`weather/spool.py:92`);
- QUOTA_STOP, PAGE_LIMIT and OVERLAPPING_TARGETS of an open cycle cannot occur
  (`OpenCycleIsFunded`, `CompleteIsWhole`); they guard against what is not reachable;
- a clock that steps back by less than a response takes may date the last page of a
  cycle before an earlier one: a read as of between them says COMPLETE and shows a
  part (`CompleteAsOfIsWhole` excludes it);
- a source capture whose witness was not written is never confirmed: a second reading
  of its slot has another receipt and conflicts (`capture.py:203`);
- after the clock was set back, the observation of a slot may be replaced while its
  context row and capture keep the first reading (`SlotIsReadOnce` excludes it); so
  they do with an interval that is not a whole number of slots;
- PostgreSQL returns `observed_at_local` in the session's zone (`AwareDateTime(utc=False)`).

Readings and their history:

- `reprocess` and `annotate` read in one transaction and write in another: an
  annotation committed in between loses its baseline decision, against
  `docs/energy_flow_conventions.md` ("Manual annotation baseline decisions are also
  retained"). The module reaches such states, in which a row trains with an unknown
  vehicle, or a removal no longer ends at the vehicle as collected; `HistoryIsSound`
  leaves out the slots in `raced`, and does not hold without that;
- an audit row is kept once per fingerprint, so reprocessing A, B, A with an override,
  or after another tolerance, leaves the row as B made it and calls it repairable;
- removing an annotation after a reclassification restores the eligibility of a row
  with negative demand; removing the older of two overlapping sessions may bring back
  the one that was removed before;
- `annotate` does not clamp a negative direct power, the collector does; the health
  that reprocessing computes ignores the vehicle's inconsistency; unhealthy telemetry
  excludes the baseline when a row is reprocessed and not when it is collected;
- a fresh vehicle sets the confidence of labels to high whatever the residual is, a
  vehicle's time in the future counts as fresh, and staleness is only a warning.

Forecast, reserve, decisions, arbitrage:

- the search for opportunities stops when the following one starts exactly where the
  candidate ends; after midnight `tomorrow` is read of the next day; what replenishes a
  skipped window is netted against earlier demand (`reserve.py`);
- `_maximum_interval_price` and `_interval_horizon` ignore durations, and a missing
  future price makes an opportunity cost of nothing (`shadow_decisioning.py`);
- two ends of a phase that are each rounded leave the twin ledgers 1.008e-9 apart at
  10 kW, more than the epsilon of the comparison; a dwell time counts HOLD as a change;
  a replay demands the very evidence of its assumptions for every decision.

Transfer:

- `--resume` is only reported, as documented, and progress is never read: a repeated call
  compares every row again, which is why it can be cut off anywhere (`transfer.py:54`);
- in exact mode `validate` compares the counts of the five tables other than
  observations: a conflicting row there passes, against `docs/database_migration.md:80`
  ("Missing or conflicting source rows fail in either mode"). The model reaches such a
  target; the call that copied reports the conflict in its own summary;
- the exit status of `--apply` is that of the copy, whatever the validation said;
- a conflicting `forecast_runs` row does not stop its points: they are copied under the
  run the target has, while the report says FAIL;
- `setval` can also set a sequence back (`transfer.py:138`), to the highest identity
  there is.

## 4. Proofs

All for every value of the constants (any number of processes, intents, Apps,
boundaries, and any set of faults) and of the inputs.

`SupervisedPilotProofs`: `IInv` says what the place of a process implies for its
intent, what the journal implies for the rows, and that two processes are never both
between PRECHECKED and the transport for one intent. It is needed because
`AtMostOneSend` alone does not say why the second `Transmit` cannot happen: only the
process that inserted the approval row marks APPROVED, and PRECHECKED and SENT are
each entered once. Theorems: `TypeInvariant`, `InductiveInvariant`, `SendAtMostOnce`,
`SendJournaled`, `OneOutstanding`.

In its second half: under `Exclusive`, `XInv` adds that the process knows
the present state of its intent. From it `Knowledge`, `ApproverSends` and
`ImplementsSlot`: every step is a step of `SingleUseSlot` or a stutter under
`PhaseMap`. Without `Exclusive` the refinement is false (see pilot_abort_race).

`ForecastCoordinatorProofs`: a boundary has one owner, the App whose INSERT returned
the id (`ClaimInv`); how far the owner has come gives its rows (`ProgressInv`); with
no owner nothing more is stored (`LedgerInv`); the lock is where the Apps believe it
is (`LockInv`). Theorems: `InductiveInvariant`, `TypeInvariant`, `NoDuplicateRows`,
`RowsFollowClaim`, `SuccessHasRows`, and `LockExcludes`.

`WeatherCollectionProofs`: `IInv` has seven parts. Cycles are made at increasing times
and only the last collects; a cycle has at most one reserved request, for the page that
follows those it has; answers are held only by the App that reserved them, in memory or
in its spool, and by nobody for two attempts; a cycle was opened with the requests that
its remaining pages need, and what leaves the window leaves for good; the pages of a
cycle join without a gap. The budget is then a matter of counting, the rest of who may
still write to what. Theorems: one for each property of the run, and `TypeIsPreserved`.
Not one of them assumes anything of the clock beyond what the property says itself.

`CollectorAppProofs`: `IInv` says what the place of the main thread implies for the
store (`Stored`, `Witnessed`), that readings are numbered in the order of their slots
as long as the clock is not set back, and what the coordinator's inputs may name
(`Known`, `Kept`). Theorems: `TypeIsPreserved`, `ObservationComesFirst`,
`SlotHasOneReading`, `ArchiveNamesKnownInputs`, `EvidenceNeverChanges`.

`ForecastRetentionProofs`: `IInv` says that an operation is over in the slot after its
own and what it saved is still there; that what is deleted is older than the retention
period; that a rollup is of a date before the operation's; that a claim has one worker,
who has deleted what his finished batches allow. None of the four properties is
inductive: the capacity needs the claim's one worker, the rollups need that a run's
points are never of a date that is rebuilt or pruned, which is where
`Window + 1 < Keep` is used. Lemmas: dates follow the order of slots, a batch of
`Oldest` has no more members than its limit, and the least of a bounded set is in it.
Theorems: `TypeIsPreserved`, `DeletionStaysInCapacity`, `AuditIsKept`,
`RollupsAreWhole`, `DeletedDetailStaysCounted`.

`ObservationStoreProofs`: for any set of slots, sources, conventions and sessions, any
number of annotations and derivations, and a tool that may have read at any time before
(`HistoryStaysSound`). `HistoryIsSound` is not inductive: a removal puts back a row that
no invariant of the present row speaks of, and a tool writes what it made of an earlier
one. `IInv` therefore says of every slot that was not raced (`SlotInv`) that its row is
sound (what trains is clean), that it unwinds to the vehicle as collected, and that the
row which the removal of any session under it would leave is sound too; and
(`EarlierInv`) that the notes a tool has read are a beginning of the present ones, and
that the present row of a slot not rewritten since follows the one it has read: same
house, same vehicle, not healthier.
It assumes `ReadingsAssumption`, and `~Reuse`: that an operator does not
give one session identifier to two annotations. The code accepts it, and the run
annotation_reuse shows what is lost then.

Also there, the three parts of `ObservationIsGrounded` that are about one reading, for
whatever the entities say (`StatesOK`: numbers where numbers are read) and under any
configuration: `ReadingIsAccounted` (the flows of a confirmed reading account for the
meters up to the residual, and the labels of a balanced one name supplies that the meters
show; it rests on `DirectionsAreAccounted`), `ReprocessingChangesNothing` and
`ReadyIsWhole`. They assume that None is neither a number nor a reason. The fourth part,
the suggestion of sign conventions, sorts sums over samples and stays with TLC.

`StatusStaysFinal` (in `ForecastCoordinatorProofs`) assumes `Answered`: no reply of the
database is lost, no connection drops its lock, and an operation overruns its runtime
only where one App runs. Without it a status really is rewritten: an App whose success
was stored but not acknowledged records a failure, and a second App that takes the lock
over recovers what still runs.

`TransferProofs`: `TransferLosesNothing` says of any prefix of a call that no row of the
target is lost or rewritten, that keys and references stay sound where they were, and
that a dry run changes nothing; `PassIsPreserved` says that a call that ends with PASS
has brought every row, and that validation in preserve mode then succeeds, the count of
matching observations included. Assumed is that the source's tables are finite and their
rows have their keys (`SourceOK`), that the target has its tables (`TargetOK`), and for
the second that its relations were sound (`Related`, what `integrity_counts` counts). The argument is
an induction along the transactions: `Advances` is what one does, `Advanced` what k have
done; `StepsOfCall` says that every row of the source is in one batch, which needs that
the rank of a row divided by the batch size is below the number of batches
(`LastBatch`). The inductions are over sets of numbers (`SetInduction`, from the
well-foundedness of < on Nat): that is first-order, and what a folded or recursively
defined function is at n follows from it.

`PolicyProofs` has three parts.

- `RouteIsSound` (conservation, limits, nothing both ways, for any naturals) and
  `BatteryStaysInBounds`, the two facts the checks of `_ledger_reasons` test on each
  phase.
- `CandidatesKeepBattery` and `RecommendationIsGrounded`: no candidate takes the battery
  below the reserve or beyond its capacity, and what is recommended was not blocked,
  passed every gate, and as a discharge gives the household at most the demand summed
  for the window. They hold in any situation that is `Situated`: readings and limits are
  integers or absent, the loss is positive, the conservative sun is not negative; and
  None is not the name of an action. The run `policy` checks that its situations are
  `Situated`, and the rest of `Grounded`: that each tick of the window has its price and
  one row of demand. That compares a sweep over sorted pieces with ticks, and the sort is
  opaque to the prover.
- `EstimateIsCovered`: `Covered`, for any two days of prices and estimates, any demand
  that is not negative and any limits (`Estimable`, which the run also checks of its
  inputs). The argument is an invariant of the search (`Searches`): what was skipped is
  at most the sun of what was analysed, and the analysed opportunities end before the
  next one starts. `ConsiderStays` is its step, `FollowingIsLater` is what makes it one:
  from the end of an opportunity the next found starts no earlier, after at most eight
  looks. `AnalysisIsCovered` is the sum for one opportunity: what the sun leaves the
  house and what it puts into the battery are together no more than it. The last conjunct
  of `Funded`, that no estimate is used for two opportunities, stays with TLC.

`PolicyProofs` also has what those need of the community modules: `MapThenSumSet` is a
fold over a CHOOSE, and `TotalIsSum` says that it is the sum that `TotalSplits` takes
apart one member at a time. `Readings` assumes a positive slot and that None is no
Boolean.

Only model-checked: the liveness properties (`SentIsSettled`, `EnteredIsForecast`,
`StopEndsProcess`); the properties of the run `policy` as far as the theorems above leave them, most
of which are about recursive or folded computations over data; and the runs that are
violated. Liveness under fairness, ENABLED, the library's induction theorems (which take
an operator) and RECURSIVE operators are outside what the prover does.

## 5. Plan

Done: the rehearsal, the coordinator, retention, weather, the collector, and the pure
core of forecasts, decisions, research, readings, the stored history and the transfer.
What a next step would add, in this order:

1. `JevRunner`: budget reservations, attempts and cleanup around a worker that may be
   killed.
2. `PilotFeedback`: the contract clock, its lost update and accumulated tolerance, and
   the evidence bound.
3. The counters of AppHealth and its response.
4. Proofs: that a transfer that was cut off and repeated ends where one would have
   (`Repeatable`), and that the coverage of a window is what its ticks say
   (`CoverageMeasured`).

## 6. Not modelled

Listed per component in `PROJECT.json`: the dashboard, probes and reviews (read-only),
parsing and configuration (stateless), migrations and packaging (one-off scripts), the
selection of points to score, the readiness report and the Jev rehearsal. Of the
modelled components: the texts of logs and failure summaries, health reporting, the
payloads of rows, float rounding, and what section 2 names: more than one tool
at a time that has read and has yet to write, a source or a target that changes during
a transfer, the conversion of column types between the two databases.
