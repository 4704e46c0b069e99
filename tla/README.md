# A TLA+ verification of lasr

`lasr` reconstructs a family of long/short equity strategies (N-LASR and its
successors): it takes vendor or synthetic data through raw snapshots, a
canonical store with vintages, point-in-time queries, features, prediction
targets, walk-forward training, portfolios with costs, and reports. This
directory holds TLA+ models of its stateful core and of the calculations its
results rest on, TLC configurations that check them on small instances, and
theorems with proofs that TLAPS checks for every value of the constants.

Paths are relative to the package, `src/src/lasr/`. `PROJECT.json` lists the
runs, the mutants of the code each property was tried against, the map from
every definition to the lines it models, the hazards, the disagreements found
and the theorems.

Contents: [Inventory](#inventory) · [Plan](#plan) · [Modules](#modules-and-the-code) ·
[Runs](#runs-what-each-checks-and-shows) · [Fairness](#fairness) ·
[Proofs](#proofs) · [Disagreements](#disagreements-between-code-and-documents) ·
[Observations](#observations) · [Only model-checked](#what-is-only-model-checked) ·
[Not modelled](#what-is-not-modelled)

## Inventory

### Where concurrency, failure and ordering matter

Most of `lasr` is a deterministic batch program. State that outlives a function
call is in eight places, and the models start there.

| component | state | operations | who touches it |
|---|---|---|---|
| live-call ledger, `data/providers/factset/ledger.py` | the append-only `_ledger.jsonl` under the cache root, the advisory lock `_ledger.lock` | reserve, record, release, count by day and endpoint, batch lines | every agent process that uses the cache root |
| transport, `factset/transport.py` | per process: the attempt loop of `execute`, the storage counter; per batch: the poll loop of `run_batch` | execute, force refresh, replay, submit, poll, fetch, probe | the providers, the discovery and smoke runs |
| raw-response cache, `factset/cache.py` | a directory per request: a body file per digest and the capture index `meta.json` | store, latest success, latest error | transport, and any process reading offline |
| rate limiter, `factset/limiter.py` | per family and process: a token bucket and a semaphore | slot, token | the threads of one process |
| discovery runs, `factset/{discovery,discovery_catalogs,run_manifest}.py` | a run directory with its manifest, the catalog files | preflight of the run id, probes, classification, catalogs, manifest | every run over the same cache and data root |
| canonical store, `data/canonical/store.py` | a directory per dataset, sealed by its manifest | write, verify, read | builders; every later stage |
| point-in-time store, `data/point_in_time/store.py` | a session: pins and a cache of loaded tables | as-of query, latest, as-of join | features, targets, pipeline |
| run directories and raw snapshots, `pipeline/experiment.py`, `data/ingestion/snapshots.py` | artifacts and a manifest per run; a write-once directory per snapshot | run an experiment, ingest, verify | every experiment under one artifacts root |

The hard behaviours there: two processes between one's check and its append;
a request that times out and may or may not have been counted by the vendor; a
response paid for and lost before it is on disk; midnight between the check
and the line; crashes between any two file operations; writers that share
temporary names; a directory without its manifest, and a manifest torn by a
crash; a successor dataset that appears while a session is answering; evidence
that is in the cache because of an earlier run and is read as this run's; an
experiment that finds what an earlier one left, complete, half-done or damaged.

The other components are sequential. What they compute is what the research
result rests on, and what is hard about them is the order of steps and the edges
of instants and figures:

| component | what must hold, and what is hard |
|---|---|
| walk-forward engine, `validation/{folds,clock,runner}.py` | nothing a model is trained on ends after the fit, no fit comes after the decision it serves, every test row is accounted for, purge and embargo separate overlapping returns |
| prediction targets, `targets/` | windows follow the calendar and the execution delay; a delisting is earned once; records called clean share no time |
| features, `features/`, `pipeline/feature_stage.py` | no query past the decision; the knowledge stamp covers every row that was read, under the longer of two lags |
| boosting, kernels, ensembles, `models/`, `pipeline/model_stage.py` | weights stay a distribution and no round makes the fit worse; selectors and weights use realized periods only |
| portfolio construction, `portfolio/{fractiles,simple,signal_weighted}.py` | legs sum to their exposure; the waterfall ends with no weight above the cap |
| level-3 optimizer, `portfolio/level3_*.py` | the conflicts, the program and the final checks say the same three times over |
| costs, `costs/`, `pipeline/cost_adapter.py` | charges do not depend on how a trade is split, add up over buckets and periods, and free borrowing is said |
| portfolio accounting, `portfolio/accounting.py` | a terminal return counts once; the NAV is explained by cash; two computations of the return agree |
| raw ingestion, builders, stamping, `data/{ingestion,canonical}/` | vintages are numbered by knowledge time; what is derived from several rows tells nothing early; grades are no better than capabilities |
| quality battery, `data/quality/` | each flaw is seen by its check, and nothing is seen in sound data |
| reporting, `reporting/`, the report of `pipeline/experiment.py` | an outcome counts once, skipped days are said, the figures agree with one another |
| request identity, configuration, sanitizing, telemetry, `factset/` | one identity per logical request; no secret in any output |
| synthetic world, `data/synthetic/` | same seed, same world; truncation does not change the past |
| configuration, `config/` | inheritance is resolved before the guards; what is called by a version's name is that version |
| core; schemas; command line | value types and row validators |

### How they interact

The transport reserves in the ledger, waits for the limiter, sends, records in
the ledger, stores in the cache, and only then returns or raises. A batch goes
through the same transport and ledger, and keeps its id in ledger lines. A
discovery run executes its probes through the transport and reads the cache
again for evidence and for catalogs. Snapshots become rows, rows become
datasets, and a dataset is read through point-in-time sessions only. Features
and targets are made of such queries; the walk-forward loop selects target
records by fold and fit time and calls the model; its predictions become target
weights, which the cost adapter prices and the accounting marks. The pipeline
calls all of these in order, reports, and writes the run directory. The stages
communicate through values and files; only the components of the first table
share state between processes or threads.

## Plan

Modules are written so that they can be proved about: constants with named
assumptions, one action for each operation, invariants in named parts, no
recursive operators. The order was: the budget that cannot be bought back and
what surrounds it, the canonical store, no look-ahead, the position ledger, then
the pure algorithms and the life of runs and snapshots. The models of that plan
are written. A pure algorithm is a module of operators over integers; the MC
module that puts it to use chooses its inputs with `\E` and states what the
operators must satisfy together.

The theorems were written in the same order: the ledger and the transport that
uses it, the batches, the cache and the limiter, the walk-forward loop, the
canonical store and the runs over it, the books and their accounting, the
discovery, the stamps of features, the costs of a whole run. What the plan has
left of them is where no sum over data is needed: the edges of `Quality`, and the
panel of the feature stage, whose kernels read as those of the library do.

Then the components of which nothing is modelled: request identity, truncation
of a synthetic world.

## Modules and the code

`PROJECT.json` maps each definition to its lines. In outline:

### The FactSet client

**`QuotaBudget`** is the abstract promise: units of an endpoint in use, `Take`
while one is left, `GiveBack`.

**`LiveCallLedger`** (`factset/ledger.py`). `log` is the file, `flock` the
advisory lock, `caller` where each process stands. `reserve_live_call` is two
actions, `Check` and `Reserve`, because it reads the clock twice and another
process's `RecordLiveCall` or `ReleaseReservation` can be appended in between:
the lock covers reservations only. The
queries `OpenReservations`, `ConsumedOnDay`, `ConsumedForEndpoint` are computed
from the lines as the code computes them. A crash frees the lock and leaves the
reservation.

**`Replies`** (`factset/envelopes.py`, `cache.py`): the classes of an answer, and
what a list of captures in the order they were indexed serves, as success or as
error. A capture whose body is already indexed is not added again.

**`FactSetTransport`** (`factset/transport.py` and the sender of
`factset/http.py`) runs `execute` in several processes over one ledger
(`Ledger == INSTANCE LiveCallLedger`, whose actions are conjuncts of the
transport's) and one cache. `Begin` is the cache lookup and the live gate,
`Policy` the cached denial, `CheckBudget`, `Reserve`, `Transmit`, `Receive` and
`Handle` one attempt, `Timeout` and `SendRaises` the two `except` branches of
the send, `StorageStop` the storage guard. `wire` and `leaked` are history:
what the vendor saw.

**`FactSetBatch`** runs `run_batch`: `LookUp` finds an open batch of the same
submission, the submission's attempts spend units, `RecordSubmitted` writes the
ledger line, polls and the fetch are probes, `StoreResult` and `RecordDone` are
two steps. `lost` is the history of batches whose id nobody kept.

**`ResponseCache`** (`factset/cache.py`) opens up `store` and `latest_success`
for one request: open, fill and rename of the body, read of the index, open,
fill and rename of the index. Because the temporary names are fixed, a rename
may take away a file another writer holds open; the model follows the file and
not the name.

**`RateLimiter`** (`factset/limiter.py`): the semaphore's count, the bucket in
whole units, and threads that sleep for the deficit and look again.

**`Discovery`** (`factset/discovery.py`, `discovery_catalogs.py`): several runs
over one cache. `RunDiscovery` is the preflight of the run id; for each probe
`Execute`, then attempts that end in `Answer`, `Timeout` or `Refused`, and
`ExecuteProbe`, which classifies the outcome and fetches the evidence of an
error from the cache; `BuildCatalog` reads the body again; `MakeDirectory` and
`WriteManifest` end the run. An attempt is one step here, because nothing in
the discovery looks at the ledger.

### Stores and runs

**`CanonicalStore`** (`data/canonical/{store,manifests}.py`,
`data/point_in_time/{store,asof_join}.py`): one table, vintaged or partitioned
by year. `Begin` holds the checks of `write`, then come the directory's
inspection, its removal, the part files and the two halves of the manifest's
write. A session's first query verifies a dataset and reads its payload in two
steps. `AsOf` is the query over the loaded rows.

**`Stamping`**, **`Builders`**, **`Quality`** are operators: when a row counts
as known and what a manifest may claim; from a raw payload through waves of
vintages, ids, merged stays and adjustment factors to canonical tables; and the
checks of the battery, each as the set of rows it flags.

**`RunArtifacts`** (`pipeline/{experiment,data_stage}.py`,
`data/ingestion/snapshots.py`): experiments over one artifacts root. `raw`,
`canon` and `files` are what is on disk, `proc` the run at work. A run may die
between any two steps and a stored file may be damaged while no run works;
a file that was being written is torn. Its datasets are those of `Builders`,
audited by `Quality`.

### Research

**`TargetMarket`**, **`TargetBuild`** (`targets/`): the market as it was known,
grids and forward returns with delistings, labels and overlap; one family and
the build of its training records.

**`PointInTime`**, **`Features`**: as-of frames, universe and join over the rows
of a session; registry, declared reads, the audited kernels and the rank
transform, and the panel of a run (`pipeline/feature_stage.py`).

**`Boosting`**, **`Ensembles`**: the loop with the hard-bin
kernel, whose logarithms are kept as odds; selectors, experts, weights and
scores; what a fold gives to train on, and the ledger of realized rank ICs.

**`WalkForward`** (`validation/`, with the windows of `targets/{engine,grids}.py`):
`settings` is chosen in `Init` and never changes, `Records` are the target
windows, `FoldAt` is `generate_folds`, `Retained` is `select_training_records`
with purge and embargo, `RefitDays` and `FitTime` the clock; `Fit`, `Score`,
`ScoreLeaks`, `ScoreRefused` are the loop of `run_walk_forward`. The model that
the fit function returns may stamp itself late, omit a row or answer nonsense.

### Portfolios and reports

**`Figures`** holds sums and roots of figures, and what a book weighs.
**`Construction`** is the two closed-form books, **`Level3`** the optimizer without
its solver: the program, the conflicts found before, the checks of the answer
after. The solver may answer any point of the program, or fail.

**`CostModel`** (`costs/`, `pipeline/cost_adapter.py`): the
components of a stack and what they charge a day's trades, the accrual of
borrow, sweeps, and the adapter with the ledger of results it keeps.

**`Accounting`** (`portfolio/accounting.py`): `Rebalance` trades to any target
with any charges, `MarkStep` applies any returns and terminations, `Close`
charges the borrow and writes the row after the reconciliation; each refusal
is an action. Weights and returns are whole numbers so that values stay
integers and the identities can be checked exactly.

**`Metrics`**, **`Report`** (`reporting/` and the report of `pipeline/experiment.py`): the outcomes made of the predictions and
what is excluded, coverage, statistics, the figures of a ledger, and what the
experiment puts around them: overrides, the book of each period, the audit of
leaks, acceptance.

**`Configuration`** (`config/`): a mapping is a function from the paths of its
leaves; `DeepMerge` and `ResolveInheritance`, the keys a mapping must and may
have, and the guards of the seven versions over the leaves they read.

### Instances

`MC...` modules give the constants their values. Several hold more than one
part, side by side: `part` (or which variable is not `None`) says which of them
moves, so that the parts share a run and no state. Definitions whose comment
begins "Mutant of" are not part of the model: each is the code with a plausible
mistake, and the property it is paired with in `PROJECT.json` fails once it
takes the place of the original.

## Runs: what each checks and shows

Every bound is a constant of a configuration or a set in its MC module.
`CHECK_DEADLOCK FALSE` stands where the modelled system really stops: budgets
and the bounded numbers of calls (`MaxReleases`, `MaxRuns`, `MaxStores`,
`MaxRequests`, `MaxWrites`, `MaxSends`) are used up, or a run is done or refused
(`walk_forward`, `portfolio`, `research`).

**`ledger`**: three processes, two endpoints with limits of three and two, a
daily budget of two, one midnight. `EndpointWithinLimit` is exact.
`DailyOvershootBounded` is as far as the code keeps its daily budget: a unit
counts on the day of its last line, so calls under way at midnight move to the
next day. `HeldReservationsOpen`: nobody else's line settles a process's
reservation. `ImplementsBudget`: the refinement. Three processes are the fewest
in which two race while a third appends; one midnight is enough for each
process to carry a call over it.

**`transport_race`**: two live processes and one request, an endpoint limit of
two, two attempts, answers of success, denial and unavailability. `WireIsPaid`:
what the vendor saw is in the ledger, except what a failed sender released.
`ServedIsReplayable`: data are on disk before the caller has them.

**`transport_ends`**: one live and one replaying process, every class of
answer, a clock that expires a cached denial. `ExecuteEnds`.

**`batch`**, two parts. Two processes, three runs, three vendor batches, a
budget of three, two attempts and two polls: `EveryBatchAccounted` says that no
path but the three the code cannot help forgets a batch, and that none is closed
before its result is captured. Three runs are a crash, a resume and a run that
meets what the resume left. Three threads, two slots, a bucket whose refill is
no divisor of a token, so that sleeps are rounded: `RateKept` for every stretch
of time. `EveryWaitEnds`: every run of a batch ends (`RunEnds`), and every
thread gets its slot and its token (`EveryRequestSent`).

**`cache`**, two parts. Two writers, a reader, two digests, four stores: while
the writers take turns, `FilesHold` through crashes anywhere: no reader meets a
torn file, and what was stored stays; when they race, an index may be corrupt or an entry lost. The premise
`raced` is a history variable and the run reaches both cases. And two discovery
runs with two ids over two probes, one of them the dictionary of metrics, live
or replaying, two attempts each and two sends in all: `MatrixTruthful` joins four
claims. `ManifestsStay`: a manifest is written once and its id is not used
again. `AloneIsNotRefused`: a run that was alone does not lose what it has
spent to an id already taken. `Warranted`: what a row says is warranted by the
capture it cites. `ReplaysTheSame` and `CatalogIsOfCapture`: a replay says the
same, and a catalog's rows are those of its capture, with the exceptions their
comments name and [Disagreements](#disagreements-between-code-and-documents)
explains. Two sends are the fewest in which an answer changes under a run.

**`canonical`** (`MCStores`), three parts.
A table: two writers, four writes, a session, six contents that extend,
contradict, skip a vintage or add keys; both kinds of table. `ReturnedStays`,
`DatasetsFormChain`, `CrashLeavesUsable`, `AnswersExact`. Their premises name
what breaks them in the code: two writers of one dataset (`clashed`), two
writers of one table (`raced`), a crash inside the manifest (`torn`).
Runs that share a root: two worlds, a window that ends before its data are
known, one in time, one later and one of the other world, three calls, one
death or damaged file. `SuccessIsWhole`: a call that ends well leaves a manifest and every file it
vouches for, and never ran over damaged data. `FailuresExplained`: a call fails
only for a cause the root shows.
Questions: `NothingToldEarly` (merged stays and adjustment factors, asked at
every instant; the one exception, the hours before an end that is told on the
day after it, is written into the property: see the disagreements below),
`AnswersLastServed` (deliveries repeated, restated or told early, under each
stamping policy, and queried after each delivery as of every instant: three
deliveries are the fewest in which a value returns after another one),
`FlawsSeen` (a dataset with each kind of flaw at the edge of its check, and sound
ones). But for deliveries, a question has no successor: one answer is one state.

**`walk_forward`**: two schemes, three horizons, two delays, windows, cadences,
purge and embargo, on an even grid and on a daily grid over a weekend: about a
thousand settings of up to six folds. `TrainedOnThePast`, `ChecksNeverFire`,
`EveryTestRowAccounted`, `EmbargoSeparates`. A horizon of three steps makes
returns overlap across a whole test window; a cadence of two makes a fit older
than its window. `ReportHonest` is asked of the finished loop and of every pool
of up to three predictions, every panel of three names over two dates and every
ledger of three periods of two marks: outcomes count once, coverage adds up, a
ratio or a drawdown agrees with the series it is made of, two overrides on
different paths commute and change the identity of the run. `VersionsApart` is
asked of every three files with one section and any parents, cycles and gaps
included (a leaf is that of the nearest file that has a key at, above or below
it), and of every combination of kernel, selection, target family, execution
mode and roster, whole or as what a child says over its parent: no choices make
two versions, but for the two made to be compared, and a child keeps its
parent's kernel and selection.

**`portfolio`**, two parts. Six names and two months: books from every score
vector the code treats differently, fractile or signal-weighted with caps, then
charged through the adapter by a stack of every component, with and without a
fee, or by what a version's cost section gives. `BookBalanced` (a leg is half the gross up to
rounding, no weight above the cap, larger scores no smaller weights),
`SlicingIsFree`, `PeriodsAddUp` (buckets, trades, dates, periods and totals are
one figure; break-even and sweep agree with it), `FreeShortsSaid`. Level-3
problems of two names under one or two limits: `OptimizerExact` says that the
conflicts found before the solver runs leave no book, and that the books
answered are exactly those that pass the final checks. The second month lets
positions be held and reversed.
The position ledger: two securities, two periods of two steps, weights of one
NAV long or short, returns that lose all, nothing or double, charges of both
signs. `RealizedOnce`, `CashExplainsNav`. Two periods let a terminated name come
back; two steps let a position be closed half-way.

**`research`**: markets of four securities over a calendar of months or of
weeks, three price histories, one security delisted inside a window, on its edge
or never; eight target families between them. `ReturnsCompound`,
`CleanWindowsApart`: eleven weeks are enough for two retained windows of four
weeks, one after the other, on every basis. The monthly ones go on through ranks, experts, weights and
three months of scores, and each run is compared with the run that had ended at
that month: `NoLookAhead`. Single library features of two securities under lags
of the store and of the feature, with restatements: `FeatureStampHolds`. Single
boosting runs of three observations and two factors, two rounds, every kernel:
`LossNeverGrows`. Three observations are the fewest with a right, a wrong and a
missing one.

**`wire_within_limit`**, **`denial_blocks`**, **`embargo_covers`**: each checks
one sentence of the repository and finds it violated (see below).

## Fairness

Safety is checked without fairness. Liveness uses weak fairness of what a
scheduled process or thread does next:

- `ExecuteEnds` and `RunEnds`: `WF_vars(Advance(c))`. Every wait of the code is
  bounded by the request timeout or the poll deadline, so a process that is
  scheduled can always take its next step. `SendRaises`, `Crash` and the vendor's
  progress are not assumed: a batch may never settle. `ExecuteEnds` is checked
  with one live process: the advisory lock promises no order, and a second
  process that takes it again and again, and dies each time, could keep the first
  one waiting.
- `EveryRequestSent`: weak fairness of every thread's turn and of the clock. A
  semaphore whose waiters are not woken in order needs no more here, because
  each thread makes a bounded number of requests (`MaxRequests`); with unbounded
  demand nothing in the code prevents overtaking, and the property is about the
  bounded one.

## Proofs

All theorems hold for every value of the constants that satisfies the module's
named assumption, which TLC evaluates in the runs. The assumptions type the
constants and say little else: that finitely many processes share a ledger
(`LedgerAssumption`), that the constants of the transport are those of its
ledger too (`SharedLedger`), that the level-3 problems are about securities of the
books and that the absent figure is none (`PortfolioAssumption`). One hypothesis is part of a statement, `BodiesApart`
(below).

Each argument is the same: the property is seldom inductive, the invariant
that is was first checked by TLC on a run's instance, there is a lemma for each
kind of step, and the theorem combines them.

**`LiveCallLedgerProofs`**. `EndpointWithinLimit` is not inductive: a process
that has passed its check appends without looking again. The invariant
`LedgerInv` adds what makes that safe: `CheckStillValid` (from check to append
the process holds the lock, its ordinal is the next one and a unit is left),
`OrdinalsUnique` (ids in the log are ordinals handed out, once each), and
`HeldIsOpen`, `HeldApart` (a held reservation is an open line, of one process).
The first lemmas say what one more line does to the sets the queries count
(`ReserveCounts`, `SettleCounts`); then there is one lemma for each kind of step
(`ReserveInv`, `SettleInv`, `CheckInv`, `ForgetInv`). From `LedgerInvariant`
follow `TypeCorrect`, `EndpointBudgetHolds`, `HeldReservations`, and
`LedgerImplementsBudget`: a reservation is a `Take`, a release a `GiveBack`, a
recorded call a stutter, because it replaces the reservation it converts.
`DailyBudgetHolds` needs a second invariant, `DailyInv`: today's units and the
processes that may still add one (`MayAdd`: past their check, or holding a
reservation of another day) are together fewer than the bound, and no line is
dated ahead of the clock.

**`FactSetTransportProofs`** puts the ledger's lemmas to use in the larger
system. `LedgerMoves` shows that every step of the transport is a step of the
ledger or leaves its variables alone, from which `LedgerInv` follows here too. `TransportInv` adds where each process
stands with its reservation (`InStep`) and `Paid`: the requests sent and those
about to be are no more than the units in the ledger and the leaked ones.
`WirePaid` is that; `WireWithinLeaks` says what is left of the limit that
`wire_within_limit` finds passed: the vendor sees the limit and the units given
back after a send, never more. `ServedIsIndexed` and `ServedReplays` rest on
`Served`. `BodiesApart` says that no success has the bytes of an error: the cache
tells captures apart by their bytes, so without it a success can be returned
and not be found again.

**`FactSetBatchProofs`**. `BatchesAccounted`: a batch whose id is in memory only
is in one process's hands and on no line (`InOneHand`), and a run that is about
to close a batch has its result on disk (`ClosedCaptured`). Of the limiter,
`LimiterKeepsRate`: `BucketCovers` relates the tokens left
to every grant since which the bucket could have filled up; refilling and
taking keep it, and it implies the rate for every stretch of time.
`LimiterKeepsGate`: the count of the semaphore and the threads in flight are the
concurrency.

**`DiscoveryProofs`**, with the cache under it. `CacheFilesHold`: `FilesInv` says, as
long as nobody raced, that one writer is in the directory (`TurnsTaken`), which
file it is writing and what is in it (`WriterInStep`), that final files are whole
with every indexed body there (`FilesWhole`), and that what was returned is
indexed. `DiscoveryTruthful` states all of `MatrixTruthful`, for any
plan in which no probe comes twice, any answers and any number of runs. What a
row says is settled long before it is written, so `MatrixInv` follows each run:
it has no row yet of what it has left (`InStep`); how its last execute ended is
what the cache says of that request, if the answer was new and nobody else is at
work (`Served`, `Fits`: a success is the last one stored, an error the last
error); and each row is warranted, and fresh if nothing can have been added to
its request since (`Fresh`), because later answers go to other requests.
`AloneStill` says that a run alone since it began still is; without it another
run might end, and the cache differ from what this one was told. Of the
directories, `DirectoryOwned`: a directory is made exclusively, so a run that is
about to write its manifest finds none there. The lemmas that carry this are
`LastAtIs` (which capture a lookup returns) and `Stored` (what storing one more
does to the two lookups). The assumption is that the plan repeats no probe, that
statuses are numbers, and that "none" is not a capture or a manifest.

**`StoresProofs`**, three parts. Of the canonical store, `StoreInv` is typing, what
holds unless two writers were at work on one dataset (`Unclashed`: where each
writer stands fits its directory, the manifest comes last, what was returned or
verified is whole) and what holds while writers take turns (`InTurn`: of two
datasets one appends to the other, and what is being written to all).
`StoreKeepsReturned`, `StoreUsableAfterCrash` and `StoreFormsChain` read it off;
for the last, `AppendContinues` shows that an append that passed the checks of
`verify_vintage_append` changes no earlier answer. `SessionsAnswerExactly` needs
`AsOfExact`: the highest vintage at a cutoff is the row known last.
Of the runs that share a root, `RunInv` says which files of the run at work are
finished, that the manifest is opened last, and that a run past the battery
has found every dataset sound (`AuditedSound`). `RunsEndWhole` follows, and
`UnverifiedHasCause`, the part of `FailuresExplained` that does not depend on the
data of the worlds.
Of the figures, `FiguresAnswered`: `Deliveries` says that the rows are those of the
deliveries that were added (`RowsServed`), that these rise in time
(`ServedRises`), and that vintages do so with them (`RowsRise`). The last is why
the highest vintage known at an instant is the row known last, which the query
looks for and the join too (`QueryIs`, `JoinIs`). `AssembleOne` unfolds the fold of
`AssembleVintages` over one candidate, and `DeliverAdds` says what a delivery
comes to: nothing, or the row that follows.

**`ResearchProofs`**. `CleanWindowsFollow`, for any market and any family that is
accepted: days shifted along a rising grid keep their order, so a window ends
where the next grid day's begins or later, and what `PurgedRetention` keeps is a
horizon apart. Windows from a close to an open end at the first open after the
close at which the next begins: `NextDay` and `WindowsShareNight` show that no
trading day lies between the two, so that they share that night and no session.
`RunWindowsApart` follows from `TargetsInv`, which says that the family of a build was
accepted and its records were built on the run's market.

`StampSuffices`, for any store, securities and instant, and every entry of the
library. A frame shows the latest restatement of each event that its cutoff admits;
without rows that it does not show it is the same (`FrameKept`), since what
was the latest of many is the latest of fewer. What a
feature reads was usable by the stamp, since the stamp is the latest of those
instants and none is ahead of the computation (`StampsInTime`), so every read is
the same again (`ReadAgain`); each kernel reads nothing but the fields that its entry
declares (`EntriesDeclare`, `ObservedAlike`), and the engine makes the same of the
same observations (`ComputedAgain`). The lag is what it hangs on: the stamp must carry
the one the store applied. `FeatureStampsHold` needs that a key finds its entry:
the library is registered whole, under nine keys that differ (`RegistryHas`), and the
stores of the run are such stores (`StoresShelve`).

**`WalkForwardProofs`**. `PastOnly`: `PastInv` says that every fit record
carries its fold's fit time and rows that had ended by then (`FitsStamped`),
that a fold is scored after it was fitted (`ScoredAfterFit`) and that
predictions carry that time (`PredictionsStamped`); fit times depend on the
settings alone (`FitAtFixed`). `EmbargoHolds` is arithmetic under an invariant
on the settings: on an even grid windows are multiples of the step
(`Multiples`, `EvenGrid`, `GridStep`), and a retained row lies apart from every
tested one whether its window comes before (`ApartBefore`) or after
(`ApartAfter`). `LoopNeverLeaks` and `LoopAccountsForRows` share `LoopInv`: the loop
is at a fold there is (`AtAFold`), the days left to score are test days of that
fold (`LeftToScore`), and for every fold the rows behind the loop are scored or
omitted, not both, while none ahead is (`Accounted`). That a step of the loop
leaves no day out needs that a fold's first and last days exist and lie in the
calendar; that the checks never fire needs that the clock's fit time is never
after the day it serves, which the test days of a fold give.

**`PortfolioProofs`**, six parts. Of the ledger, `TerminalReturnOnce`:
`OnceInv` adds `EventsEnded` (every event's security is banned) to
`RealizedOnce`. A rebalance buys nothing banned, and a mark terminates only what
is held, hence not banned before. `LedgerExplainsNav` is `CashExplainsNav` for
every number of securities, periods and steps. It is not inductive: `NavInv`
adds that the NAV has moved by profit less cost since the period began where the
last row ended (`Chained`), that what is held is worth its weight of the opening
NAV, compounded (`Valued`, which makes the profit of one more step the same in
both computations, so the residual check never fires), and the same of the rows
closed (`RowsExplained`). `TypeInv` is typing with a bound on the rows;
`LedgerTyped` follows.
The sums these need are sums over sets, which are folds, so they are given
their unfolding without an induction schema: a graph of a sum on the subsets of
a finite set is shown to exist (`SumsUpTo`), and a set at which a law failed
would have a smallest one below it (`NoBadSet`, `NoSmallestBad`), which
`LeastNat` excludes. From there `SumOverLinear`, `SumOverSplit`, `SumOverOrder`,
`SumOverGroups` and the shares of a rounded total (`Shares`) follow.

Of the books, `SimpleBookBalanced` rests on ranks being a bijection
(`RankBijects`), hence legs being disjoint and of known size (`Legs`).
`WeightedBookFollows` says what the caps of the level-2 book leave, whatever the
number of passes. `IsCapping` is the invariant of the passes: whole weights,
the pinned ones at the cap, a total no larger than the leg's, and the rest in
proportion to their scores (`InProportion`). A pass with a name over the cap pins
one (`PassPins`), so there are as many passes as names at most and the last
leaves none over it (`CapsHold`); a larger score never gets the smaller weight.

Of the optimizer, for every problem that is one (`IsProblem`; `AskedIsProblem`: every
problem the run asks is one): `ConflictsLeaveNoBook` takes the static
conflicts one by one (`SidesFit`, `MovesEnough`, `ReachEnough`, `GroupsEnough`);
`OptimizerAnswersExactly` says that a point of the program that is no wash
collapses to a book that passes the final checks (`ProgramPasses`), and that such
a book splits into one (`PassesInProgram`). `BindingLimitsExclude` is about the
limits the optimizer reports as binding: tightened by one unit, each excludes the
book, since every figure a limit is about is whole and reaches it (`SlackAttained`,
`SmallestSlack`, `LargestSize`). `OptimizerIsExact` puts the three together along
the invariant `ProblemAsked`. The volume of a name is no smaller than the value of
the book there, as in all the run asks: a unit of a coarser limit on participation
may be worth no unit of weight.

Of the borrowing, `FreeBorrowingSaid`, for the stacks of the run. A fee of theirs
never rounds to nothing on a short of one unit (`BorrowAsks`), so what a month
lends is either charged a fee or in its banner (`ChargedOrSaid`); `BorrowInv`
carries that to all months of a run. Each of these stacks is tagged as free
exactly when it charges nobody (`StacksTagged`), and `GridKeepsTag` says that a sweep
of any stack keeps that so, whatever the rates and the fees, because it sets the
tag anew.

Of the slicing of orders, `SlicingCosts`, for any stack with figures of the kinds its
fields have, any trades it does not refuse and any cut of each into two of its
side: the group of a day is as large as before (`GroupKept`, by `PairedSum`), each
component charges a fixed share of a row's notional, rounded down, as long as the
group is the same (`ShareOf`, a lemma for each of the four), and two quotients fall
short of the quotient of the sum by one at most (`DivSplits`). So the cut rows never
cost more, nor less by more than the rows' factors. `SlicingChangesNothing` is
`SlicingIsFree` for every set of names: `SliceInv` keeps what is held, built and
charged within the names, for which the run knows a volume and a spread. A row is
one for each name traded (`OrderedMembers`), which ranks being a bijection gives.

Of adding up, `PeriodsMakeTotals`: for any trades and marks with whole charges, the
rows by date that the cost model answers sum to its totals, bucket by bucket, since
the rows of the dates share out all of them (`SharedSum`); `NetAddsUp`: what is
left of a gross profit by date sums to the gross profit less all costs. `MonthsAddUp`
is about months of any trades and marks, no two of one date, put one after the
other: one run over all of them charges on each date what the month's own run
did, and in total the sum, and has a row where the month had a trade or a mark.
A place in the long list is a place in one month (`PlaceOnce`, `PlaceFound`), and
the group of a trade stays within its month (`GroupOfPart`), so each row is priced
as it was (`PricedAsInPart`). `MonthsAreOneRun` is `PeriodsAddUp` for every set of
names, any gross and number of months. The invariant `MonthsInv` is that every
record is a month, 73 days after the one before, whose trades have the size the
engine says (`ChargedAgrees`: the adapter refuses others) and whose answer is
the run of its own trades and mark, and that no book after the first is without
shorts, which the books asked for later give (`LaterBooksSell`) and which leaves
no month between two marks (`NothingUncovered`). The break-even rate is computed
from the same turnovers as the linear cost (`BreakEvenHolds`).

## Disagreements between code and documents

Three are runs and findings:

- `wire_within_limit`: a failure of the sender after the bytes went out
  releases the unit (`transport.py:330`; `transport.py:331` and `ledger.py:143`
  say only failures before the send do).
- `denial_blocks`: a second 401/403 with the same body is not stamped again, so
  it does not block after the first has expired (`cache.py:239`;
  `transport.py:257`).
- `embargo_covers`: on an uneven grid the embargo zone can be shorter than the
  tested return (`folds.py:429`; `folds.py:29-31`).

Others were met while modelling and are recorded here only. Of the client:

- Live calls may exceed the daily budget across midnight (`ledger.py:334`;
  `docs/architecture/factset_integration.md:592-594`); `DailyOvershootBounded`
  says by how much.
- Two processes that miss the cache for one request both send it
  (`factset_integration.md:616-618`).
- After a timeout `execute` retries although the vendor may have the request
  (`factset_integration.md:589-590`).
- The storage cap is counted by each process for itself (`config.py:134`).
- Probes are counted and never checked against the budget (`transport.py:680`;
  `ledger.py:6-8`).
- `store` returns the new record when it has kept the older one of the same
  bytes (`cache.py:245`; `:191-192`), and two writers of one request can drop
  each other's index entry (`cache.py:243`; `:14`).
- Two processes can submit one batch twice (`transport.py:559`;
  `ledger.py:17-18`).
- The evidence of a failed probe is the latest error of its request in the
  cache, because "the transport stores error evidence before raising"
  (`discovery.py:494-502`). A timeout stores nothing and a repeated body is not
  indexed again, so the evidence can be an earlier run's, or that of another run
  at work. Bodiless errors of one request share one capture, with the status
  that came first. `Warranted` is therefore about rows whose answer was new and
  whose run was alone (`row.sure`).
- A catalog is read from the cache again after its probe and persisted under
  the capture the probe cited (`discovery.py:910`): after a drift A, B, A, or
  beside another run, the rows are not that capture's
  (`discovery_catalogs.py:375-377`).
- "A re-run spends ZERO live quota" (`discovery.py:17-18`) holds for probes that
  succeeded and for denials that have not expired; other errors are sent again.

Of the stores, the research and the portfolios:

- The merge of a stay's vintages accepts an end that is told in the course of the
  day after it (`data_stage.py:171`). On that day, before it is told, a query
  finds the member gone. The docstring has the merge sound "at every as_of", and
  legal only for an end told "no later than the interval's own end"
  (`data_stage.py:148-150`). `NothingToldEarly` says what the universe is in these
  hours, and that they are the only exception.
- Retained windows "tile the timeline without intersection" (`overlap.py:88-89`)
  and are called clean since "purged retention is non-overlapping"
  (`overlap.py:69`). On the basis close to open a window lasts its horizon and a
  night more (`engine.py:169-175`): it ends at the first open after the close at
  which the next retained one starts, and the two overlap by that night.
  `CleanWindowsApart` says so, and that it is all they share.
- An earlier dataset of a vintaged table cannot be written again, idempotently,
  once it has a successor (`store.py:352`; `:297`).
- A sweep rebuilds the stack without its `free_borrow_banner_threshold`
  (`scenarios.py:132-151`), so a variant falls back to the threshold of zero.
- The guard against constant ranks in the audit of leaks never fires, since ties
  get ordinal ranks (`experiment.py:407-409`).
- `modernized` inherits `nlasr_2020`, and its guards allow the objective of
  either version, "both available and benchmarked" (`guards.py:350`;
  `docs/methodology/versions/modernized.md:49`). A delta cannot take it: the
  leaves of the parent's selection stay in the merge and are refused as unknown
  keys. `VersionsApart` says so of every kernel and selection.
- A version with a parent cannot be run: `run_experiment` builds the spec
  without parents (`experiment.py:489`), and the guards demand that parent.
- "Tagged leaves' values" are replaced wholesale, says `loader.py:61`; a value
  that is a mapping (fractiles, cost tiers) is merged like a section, so that a
  child can add a tier and drop none, and a delta that gives only a value keeps
  the parent's provenance.
- The borrow of the last period is charged after the last check of the NAV
  (`accounting.py:492`), so a run can end at zero or below without the error the
  docstring promises.

## Observations

These are consequences of the code that no document contradicts.

- `generate_folds` makes folds that train before they test, and
  `run_walk_forward` refuses any other; the embargo has an effect only where
  `select_training_records` is called directly. `EmbargoSeparates` is therefore
  stated for every pair of windows. It needs a delay shorter than a grid step.
- A test window longer than the refit cadence is scored with the fit of its
  first day to the end (`clock.py:6-9`).
- A successor dataset may give a new key any knowledge time, earlier ones
  included (`store.py:257`): `DatasetsFormChain` is about keys already there.
- A crash inside the write of a manifest leaves a torn file, in the canonical
  store (`store.py:390`), in the raw store and in a run directory: none of them
  renames it into place. A torn dataset can be read by nobody and a vintaged
  table takes no more writes; a torn run or snapshot refuses every rerun. The
  manifest of a discovery run (`run_manifest.py:96`) is written the same way.
  Concurrent writers can fork a vintaged table.
- `verified_records` verifies the payload and then reads it once more
  (`store.py:617`).
- Under one artifacts root the order of experiments matters. The retrieval time
  of a snapshot follows from the end of the window that stored it first
  (`data_stage.py:290`): when that window ended before the data were known, every
  later window of that world is refused; and when a run of a late window died
  after ingestion, an earlier window builds datasets retrieved before their
  sources and fails the battery for good. A second world is refused, because the
  pipeline resolves tables without pins. `FailuresExplained` lists these causes.
- A restatement under the lag rule is always refused: both vintages get the
  same knowledge time, and a restatement must be strictly later
  (`builders.py:535`).
- A value that is delivered again with an earlier knowledge time is not recorded
  as known earlier.
- A security relisted while its closed listing ends on the day of the delisting
  action matches two intervals and is refused (`actions.py:220-228`).
- A feature that is ineligible at one decision is dropped for the whole run
  (`feature_stage.py:308-327`): which features a month is scored with depends on
  later months. `NoLookAhead` compares runs with the same features.
- Accounting refuses consecutive periods that overlap, so a run with a horizon
  above one grid step ends there once two consecutive decision days are scored.
  The coverage of a report is about days that were scored.
- The pipeline's year fraction is days over 365; the cost adapter wants whole
  days (`cost_adapter.py:216`), so an act/360 borrow fee is refused for periods
  whose days are no multiple of 73.
- A 429 that outlasts its attempts is "Unavailable" in a live run and "Requires
  clarification" in its replay; a forced probe that fails where an older answer
  was good replays as "Working". `ReplaysTheSame` excepts both.

## What is only model-checked

Liveness (`ExecuteEnds`, `EveryWaitEnds`), which is out of the prover's reach.
What folds over sequences compute, which needs induction over data: of
`MCResearch`, `ReturnsCompound`, `NoLookAhead` and `LossNeverGrows`. `BookBalanced` is proved but for how much a capped
leg may fall short: in whole units that bound needs scores no share of which rounds
to zero, which the run's have and others need not.
The questions put to pure operators over given data
(`NothingToldEarly`, `FlawsSeen`, `ReportHonest`, `VersionsApart`),
whose content is what the operators compute on those data. `FailuresExplained`,
which depends on the data of the worlds; its part about unlike files is
proved.

## What is not modelled

Floating-point arithmetic, hashing, formatting, logging and the wording of
errors. A cache key, a dataset id, a body is a value that is equal or not; a
figure is an integer in a stated unit, and a quotient rounds down. Clock
adjustments, and files changed by somebody outside the program except where
`RunArtifacts` damages them. Network failures are modelled by what the sender
raises.

Of the parts that are modelled: pagination; capture sets; the discovery's plan
with the requests it builds, the counts and the overlap of its catalogs, its
rendered document, and the smoke run, which is one execute; the classification
and trading-day queries; fractional embargoes, mixed overlap modes, the seasonal
enumeration and the random generators of folds; the winsorizer and the z-score,
which no version runs; the stop and skip exits of other kernels; blending of
regions; the optimizer's estimated charges and the numerical solver; annualised
powers and t statistics; the identifier map and the classification intervals; the optional leaves of a
configuration, the types of values, and the experiment's own document;
reading files into rows. `PROJECT.json` gives each component its note.

Not at all: request identity, configuration and sanitizing of the client
(normal forms of text); the synthetic world (a generator of random numbers);
the core vocabulary (value types); the command line (arguments, and one call).
