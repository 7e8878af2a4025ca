# Pet-insurance data platform: TLA+ verification project

The repository moves five PostgreSQL tables into Snowflake, keeps every row
version it has seen in an append-only RAW table, and derives current-state and
history models from RAW with dbt. This directory holds TLA+ models of that
program, the TLC configurations that check them on small instances, and TLAPS
proofs of the results that matter most. Paths below are relative to the
repository; `ip/` stands for `src/insurance_platform/`.

## 1. Inventory of the system

| component | source | state it keeps | operations |
| --- | --- | --- | --- |
| Source database | `infra/postgres/`, `ip/reliability_scenarios.py`, `ip/apply_t4_demo.py`, `ip/apply_customer_history_demo.py`, `ip/estuary_cdc_demo.py`, `ip/load_seed.py` | five tables with foreign keys, `updated_at`, `is_deleted` | insert, update with any `updated_at`, soft and physical delete |
| Ingestion algebra | `ip/ingestion.py` | none | incremental query, change records, deduplication, watermark maximum, chunks, reconciliation predicate, retry |
| Incremental ingestion | `ip/run_ingestion.py` | RAW, watermark, batch audit and stage rows in Snowflake; the run's own locals | per table: read watermark, count, extract, audit STARTED, stage, transaction (count, merge, check, watermark, audit SUCCESS), cleanup, failure path |
| Full-state reconciliation | `ip/reconcile_source_state.py`, `ip/repair_initial_backfill.py` | the same | the same with a full scan and a shorter failure path |
| Contracts | `ip/contracts.py`, `ip/validate_contracts.py`, `contracts/` | none | compare the observed schema with the declared one |
| Orchestration | `ip/orchestration.py`, `.github/workflows/` | Dagster op states | validate, ingest, dbt build, health check, each with retries |
| Control schema | `infra/snowflake/deploy.sql` | RAW and CONTROL tables, INGESTION_HEALTH view | DDL, view |
| Warehouse models | `dbt/` | materialised marts and `int_claim_events` | views, tables, one incremental model, data tests |
| History load | `infra/snowflake/load_verified_claim_history.sql` | RAW, watermark of claims | two verified versions of one claim, a constant watermark |
| Estuary CDC | `ip/estuary_*.py` | PostgreSQL publication | readiness checks, flow specification, demo changes |
| GCP backfill | `ip/gcp_*.py`, `integrations/gcp/` | CSV export and manifest, CLAIMS_BACKFILL | export, copy, verify |
| Seed and benchmark | `ip/generate_seed.py`, `ip/load_seed.py`, `ip/benchmark_verify.py` | CSV files | generate, load, verify |

Components meet in four places: the PostgreSQL tables (written by the demo
scripts and applications while ingestion reads them, one READ COMMITTED
statement at a time), PostgreSQL's catalog (read by the contract gate, altered by
schema changes, the publication added by the CDC set-up), the Snowflake CONTROL
and RAW tables (written by
incremental runs, reconciliations and bulk loads that nothing keeps from
overlapping: no workflow declares a concurrency group), and the return values
that chain the Dagster ops.

What is hard here: overlapping runs that share one watermark; a transaction
whose pieces must stand or fall together although the audit row is also written
outside it; lost answers and retries; crashes that leave a transaction open;
versions that arrive behind the watermark; five tables read one after the other
while foreign-key chains are being inserted; models built from RAW at different
moments.

### What makes each component correct

- **Ingestion algebra.** The watermark is the greatest position among the rows
  read and the one in place; the incremental query returns exactly the rows past
  a position, ties on `updated_at` told apart by the key; the four counts of a
  batch are ordered and every candidate is represented.
- **Incremental ingestion and reconciliation.** No version is skipped by the
  watermark, none is stored twice, RAW, watermark and SUCCESS audit stand or fall
  together, the watermark only moves forward, the audit counts what the batch
  added, stage rows are given back, and every run ends.
- **Orchestration.** Whatever is retried, a job that succeeds captured and built
  every row its last pass began with and the watermark did not hide, and a
  reconciliation that succeeds captured all of them; tables are only read under a
  validated schema; RAW stays closed under the foreign keys; every execution ends.
- **Warehouse models.** The incremental model holds each claim record once and
  misses none; joins multiply no row; history periods partition time; two marts
  that count the same claims agree.
- **Source and scripts.** A script that stamps a row leaves a version that
  ingestion finds and staging shows, whatever the clock and earlier stamps were;
  where it does not, the row is one that was stamped blindly or late, and a
  reconciliation brings all of them into RAW.
- **Contracts.** A verdict says of every table whether it breaks its contract;
  breaking differences are rejected, additive ones are not; nothing in breach is
  captured past the gate unless it was altered behind it.
- **Estuary set-up.** A run that ends well leaves a complete publication, and
  interrupted or overlapping runs never need repair by hand.
- **Seed and GCP backfill.** A load takes exactly what was generated; a
  verification compares the warehouse with the manifest of the file that was
  loaded, and passes exactly when their numbers agree.

## 2. Modules

| module | models | extends |
| --- | --- | --- |
| `VersionOrder` | `ip/ingestion.py`: positions, incremental query, watermark maximum, reconciliation predicate, as operators | standard modules |
| `BatchIngestion` | `_process_table` of `ip/run_ingestion.py` and the loop body of `ip/reconcile_source_state.py`, one statement per action | `VersionOrder` |
| `VersionCapture` | abstract specification: RAW grows by atomic captures that leave no hole behind the watermark | `VersionOrder` |
| `PlatformRun` | `ip/orchestration.py`, `run()` of `ip/run_ingestion.py` and of `ip/reconcile_source_state.py` over all tables | standard modules |
| `WarehouseBuild` | `dbt/models`: `dbt build` overlapping with ingestion and with other builds | standard modules |
| `SourceScenarios` | `ip/reliability_scenarios.py`, the demos, the history load, and passes between them, up to the staged rows | `VersionOrder` |
| `ContractGate` | `ip/contracts.py`, `ip/validate_contracts.py` and the captures behind the gate, while tables are altered | standard modules |
| `EstuarySetup` | `ip/estuary_source_readiness.py` | standard modules |
| `SourceCatalog` | the two before on one PostgreSQL | `ContractGate`, `EstuarySetup` |
| `FileTransfers` | `ip/generate_seed.py`, `ip/load_seed.py`, `ip/gcp_backfill_export.py`, `ip/gcp_backfill_verify.py` | standard and community modules |
| `MC*` | values for TLC: rankings of the keys, foreign keys, versions, contracts | the module checked |
| `*_proofs` | theorems about the module of that name | the module, `TLAPS` |
| `SequentialIngestion_proofs` | theorems about batches that do not overlap | `BatchIngestion_proofs` |
| `DataInduction` | lemmas on natural numbers and finite sets that the proofs share | standard and proof modules |

### BatchIngestion: one table, statement by statement

A *run* is one batch of one table; its name is also its batch id. `IngestRuns`
follow `_process_table`, `ReconcileRuns` the reconciliation. `Overlapping` says
whether a run may start while another one works: nothing in the repository
forbids it (the workflows have no concurrency group, the reconciliation is a
script of its own), and documents describe the system as if runs were
sequential, so both are checked.

| state | code |
| --- | --- |
| `source` | current rows of the PostgreSQL table |
| `raw`, `mark`, `audit`, `stage` | RAW.SOURCE_RECORDS, CONTROL.INGESTION_WATERMARKS, INGESTION_BATCHES, INGESTION_STAGE |
| `lock`, `txn` | Snowflake's lock on RAW, and what a transaction has written and not committed |
| `pc`, `before`, `counted`, `cands`, `after`, `attempt`, `inserted` | place and locals of the run: `watermark_before`, `source_rows`, `candidates`, `watermark_after`, attempt of `retry_call`, `inserted` |
| `history`, `late` | ghosts: every version the table ever held, and those written at or before a position it had already used |

`ReadWatermark`, `SourceCount`, `Extract`, `WriteBatchStarted`, `StageRecords`
are the statements before the transaction, `CountUnrepresented` (with BEGIN),
`MergeRaw`, `CheckPasses` or `CheckFails`, `WriteWatermark`, `FinalizeSuccess`
and `Commit` the transaction, `CleanupStage` what follows it, `FinalizeFailure`
and `FailureCleanup` the except block. The reconciliation differs in two places,
as the code does: it extracts everything and counts what it extracted, and its
except block does not delete the stage rows.

Failures are actions of their own, selected by `FaultKinds`: a statement of the
transaction raises (rolled back; retried while attempts are left, or not
transient); COMMIT is applied and its answer lost; staging raises between
chunks; the cleanup after COMMIT raises; the failure audit raises; the process
dies, which leaves its transaction open until `ServerAbort`.

Source writes take any `updated_at`, as the repository's own scripts do
(`NOW()`, a constant, a time in the past), and rows may be deleted physically.
The two rankings of the keys stand for PostgreSQL's collation (the query) and
Python's string order (`max()`), which need not agree.

### VersionCapture: what ingestion promises

Its state is what a reader of RAW and of the watermark can see. `Capture` lets
RAW grow by any versions the table held, and moves the watermark to the position
of a captured version provided nothing current and in order at or before it is
missing. The table may hold rows before the first run.
`CapturesAtomically` in `BatchIngestion` is this specification under
the mapping `captured <- VersionsOf(raw)`; the statements of a batch map to
stuttering, its COMMIT to one `Capture`. `SourceScenarios` implements it once
for each of its tables (`Ingestion(t)` in its proofs).

### PlatformRun: whole executions

An *execution* is the Dagster job, `run()` started alone, or the reconciliation.
Phases follow the ops: `validate`, `connect` (connect and validate again),
`read`/`apply` per table, `dbt`, `health`. A table's batch is two steps: the
reading of its watermark and its rows with the STARTED audit (`ReadTable`), and
its outcome (`ApplyBatch`, `BatchFails`, `Crash`).

| state | code |
| --- | --- |
| `place` | where a row stands in `ORDER BY updated_at, key` of its table; two rows of a table never share a place |
| `mark` | the table's row of INGESTION_WATERMARKS, as a place |
| `seen`, `after` | `candidates` and `watermark_after` of the batch under way |
| `latest` | what INGESTION_HEALTH shows of a table: the batch started last, whoever's it is |
| `late` | ghost: rows inserted at or before the watermark, or at or before the `after` of a batch under way |
| `exposed`, `begun`, `built` | ghosts: rows inserted while a pass was reading; the source when the last pass began; RAW when dbt build passed |

`Extract` is `build_incremental_query`: a job or an ingestion reads only rows
past the watermark, a reconciliation all of them, so that a row inserted behind
the watermark, by a long transaction or with an `updated_at` in the past, stays
unread until a reconciliation comes (`docs/reliability.md:25`: "Normal watermark
ingestion misses the deliberately old versions."). `Commit` writes RAW and, if
there were candidates, the watermark computed from the one read before, which may
move it back when another execution overtook this one.

A failing op is run again from its beginning while its `RetryPolicy` lasts,
which for the ingestion op means the whole pass. The source inserts and deletes
rows under foreign keys, several rows in one transaction; a schema may break and
be restored, except that PostgreSQL keeps ALTER TABLE out of tables an open
transaction has read.

### WarehouseBuild: dbt build

RAW records are keys of a customer, a pet, a policy and a claim with `updated_at`,
a delete flag and a body; `CustomerOf`, `PetOf` and `PolicyOf` are the references
between them. Record ids are given in any order, since ids are handed
out before the commit and late versions come at any time. The models are
operators on a set of records: `Current` is `current_raw_records`, `DimPolicy`,
`FctClaims`, `PolicyMetrics`, `CustomerVersions` and `NewEvents` the SELECTs of
`dim_policy`, `fct_claims`, `mart_portfolio_performance`, `dim_customer_scd2`
and `int_claim_events`. A statement is two steps, what it reads (`StartModel`)
and when it takes effect (`FinishModel`), because threads and other builds run
in between; `Upstream` holds the `ref()` edges that order them. `first` is the
decision to build the incremental model as a whole, taken when dbt looks up the
existing relations at its start. `TestStaging` is the relationships tests, at
one moment; with `--fail-fast` a failing one ends the build, and a statement in
flight may still take effect or be cancelled.

### SourceScenarios: what the scripts write and staging shows

Each script mode is an action with the guard the script tests and the stamp it
writes: the clock (`InsertAtClock`, `CdcUpdate`), `GREATEST` of the clock and the
row's own `updated_at` (`Touch`), a constant (`ApplyT4`, `ApplyCustomerHistory`)
or a constant in the past (`InsertLate`). A script is one transaction, and one
that raises changes nothing. `source`, `raw`, `mark` are as in `BatchIngestion`,
for several tables; a table's batch is one step (`CaptureTable`), which keeps the
promise the batches of `BatchIngestion` keep: both implement `VersionCapture`
(`Refinement`, `TablesCaptureAtomically`). Scripts and the load run between the
tables of a pass. The history load commits its RAW rows and its constant
watermark in two steps (`LoadRaw`, `LoadMark`) and may stop between them. `Staged` is `current_raw_records`. The ghosts `late`, `jumped` and
`overtaken` name the three ways in which a version can get lost from view, and
the properties say that there is no fourth.

### ContractGate, EstuarySetup, SourceCatalog: PostgreSQL's catalog

`catalog` holds the columns (type, nullability) and the key of each table. A pass
is a validation on its own, an ingestion, or a reconciliation, which goes
straight to its captures. `ReadColumns` and `ReadKey` are the two queries of
`inspect_table_contract`, contract by contract in the order of their paths;
`Verdict` is what follows the last of them. Captures go through the tables in
the order of `TABLES`; what has been captured is locked against ALTER TABLE, as
in `PlatformRun`. The gate's queries read the catalog's views and lock no table.

The set-up runs are the statements of `estuary_source_readiness.run`, which
commits each by itself: `ShowWal`, `CreateFlowTable`, `LookupPublication`,
`CreatePublication`, `ListTables`, `AddTable`, in any number of runs, each of
which may be cut off anywhere. `SourceCatalog` interleaves both on one server;
enabling logical replication restarts the computes and ends what is under way.

### FileTransfers: seed files and the GCP backfill

The generator is seeded and works customer by customer, so that a generation is
its number of customers; `PetOwner`, `ClaimPet`, `Paid` and `Drawn` are what it
draws. `WriteFile` writes one table's file, `CopyTable` copies one in the load's
transaction, which `LoadCommits` makes visible. `BeginExport` fetches the rows,
`WriteCsv` and `WriteManifest` write the two files, `CopyInto` replaces the
warehouse's copy, and `Passes` is the verification. Every process may die before
or inside a file; a file cut inside its header or a row is `Unusable`, one cut
between rows is shorter. A sum is its value and its scale, because the texts of
two sums are compared: Python's of no row has six digits in this code path, that
of zero amounts none, Snowflake's always two. `sha256` is written and never compared.

## 3. Runs

All passing runs complete their state space. `CHECK_DEADLOCK FALSE` is in every
configuration because the system may stop: executions end, and the bounds on
writes, failures and records are used up.

| run | configuration | bounds | what it shows |
| --- | --- | --- | --- |
| `batch_overlap` | BatchOverlap | an incremental run and a reconciliation overlapping, 2 keys, 2 times, 3 writes, 2 attempts, any 1 failure, Python's order opposite to PostgreSQL's | `NothingSkipped`, `RawUnique`, `SuccessCaptures`, `CapturesAtomically`, `FailuresAreCountRaces` |
| `batch_sequential` | BatchSequential | two incremental runs and a reconciliation one at a time, 2 writes, 2 failures before COMMIT | `TypeOK`, `AuditExact`, `NoReplay`, `RowsBelongToSuccess`, `IngestReclaimsStage`, `MarkNeverRegresses` |
| `batch_live` | BatchLive | an incremental run and a reconciliation overlapping, 2 writes, any 1 failure, fairness | `RunsFinish`, `ReconciliationHeals` |
| `batch_failed_after_commit` | BatchFailedAfterCommit | 1 run, the cleanup may fail | violates `RowsBelongToSuccess` |
| `batch_mark_regress` | BatchMarkRegress | 2 overlapping runs, no failure | violates `MarkNeverRegresses` |
| `platform_executions` | PlatformExecutions | a job and a reconciliation overlapping, 2 tables, a customer with a pet and a second customer that stands behind it in the order, 2 source transactions, 1 failure, 1 schema change, fairness | `TypeOK`, `NoOldOrphans`, `SuccessIsFresh`, `ReadsAreValidated`, `ExecutionsEnd` |
| `platform_orphans` | PlatformOrphans | one job over the five tables with their foreign keys, no failure | violates `RelationshipsHold` |
| `warehouse_models` | WarehouseModels | one build over a customer, its pet, its policy and its claim: 8 versions in any order (the customer soft-deleted at the instant of another version; one of a late version of the customer, the deletion of the pet, and the policy rewritten under one `updated_at`) | `MartsAgree`, `OneRowEach`, `Scd2Timeline`, `DropsExplained` |
| `warehouse_overlap` | WarehouseOverlap | two overlapping builds, 2 claim records, 1 failure | `TypeOK`, `EventsUnique`, `EventsComplete` |
| `source_scenarios` | SourceScenarios | 3 tables, the 9 rows the scripts name, the clock before and after their constants, rows stamped ahead of it, 2 writes, 1 history load, any number of passes | `TypeOK`, `StagingFollowsSource`, `MissedIsExplained`, `ReconciliationMirrors`, `ReplayInsertsNothing` |
| `file_transfers` | FileTransfers | generations of 0 to 2 customers, 3 pets, 3 claims, 3 generations and exports, 1 change of an amount, any number of loads, copies and deaths | `TypeOK`, `FreshSeedLoads`, `ManifestMatchesCsv`, `PassesExplained` |
| `source_catalog` | SourceCatalog | 2 tables, 3 columns, 2 types, a validation, an ingestion, a reconciliation, 3 set-up runs; 3 starts and schema changes, of which 2 are changes | `VerdictsExact`, `RejectionsReal`, `BreachesExplained`, `ReadyMeansPublished`, `RaisesExplained`, `RacesComplete` |

Why these bounds are enough to be interesting. The watermark hazards need two
keys at one timestamp (the tie), a second timestamp (an older and a newer
position) and a write after the first extraction; losing and regaining a
position needs two runs; a retry needs two attempts and one failure, one attempt
too many needs two. A parent read before and a child read after an insertion
need two tables, and the counterexample is found on the repository's five. A row
behind a watermark needs another row at a later place (`PlacesOf` gives each row
the places it may have): of the two customers, whichever is inserted second is
in order or behind the watermark, and the pet of one of them may be an orphan.
The order of ids and of visibility needs two records of one key, the joins one
record of each table, and a claim that goes missing beside a policy that does
not a second record of one of them; record ids only tell ties apart in
`warehouse_models`, so that each version has one there (`IdsOf`), and versions
that share one exclude each other. The failures of a build are left to
`warehouse_overlap`. What TLC finds on these instances the proofs of section 5
establish for all values wherever they reach, among them `run()` started on its
own (`Ingests`), which no instance of `PlatformRun` has beside the other two
kinds. A script's row goes wrong in staging with two writes, one of them before
a capture; the history load needs one write between its statements and one
before. One customer draws no payment and two do, so that empty and full files
alternate; a stale manifest needs two exports, a mixture of generations two
generations. A verdict over two schemas needs two changes, a race of three set-
up runs nothing else (four events pass as well, in two minutes and a half).

`EventsComplete` excludes one case: a build that found no `int_claim_events`
replaces the table as a whole, and one that started beside another may replace
it with what it read before the other one's MERGE. The next build repairs that.

The run with two interchangeable builds is reduced by symmetry
(`BuildSymmetry`): builds and the bodies of the claim are model values, no
operator chooses among them or orders them, its versions hold both bodies alike,
and the run checks invariants only.

### Where code and documents disagree

Three runs end in a counterexample; PROJECT.json quotes the lines.

1. `batch_failed_after_commit`: the stage cleanup after COMMIT stands in the try
   block of the batch, so its failure audits a committed batch as FAILED.
2. `batch_mark_regress`: the watermark is written from the one read at the start
   and not compared with the one in place, so overlapping runs move it back.
   Nothing is lost by it (`NothingSkipped` holds in `batch_overlap`); rows are
   read again.
3. `platform_orphans`: five tables are read by separate READ COMMITTED
   statements, parents first; a family inserted between two of them leaves
   children in RAW without parents and fails the relationships tests of dbt.

Others are stated as what does hold around them.

- Source rows are counted in a statement before the extraction, so a row
  committed in between fails a healthy batch (`ip/ingestion.py:48` asserts
  candidates never exceed source rows). `FailuresAreCountRaces`: no batch fails
  its check for any other reason, and a reconciliation never does.
- The except block of the reconciliation leaves its stage rows behind
  (`docs/runbook.md:30`: "Staging rows are cleaned up."). `IngestReclaimsStage`
  is stated of incremental runs.
- Soft-deleting a customer, a pet or a policy removes live claims from
  `fct_claims`, described in `_marts.yml:37` as one row per current claim that is
  not deleted: `dim_policy` joins live customers and live pets. `DropsExplained`:
  those, and claims whose policy, customer or pet has not arrived, are the only
  claims missing, and they always are.
- A row inserted behind the watermark is not read by the incremental query; a
  child of it may be. `NoOldOrphans` and `SuccessIsFresh` exempt exactly such
  rows (`late`), the latter not for a reconciliation; with either exemption left
  out TLC finds the property violated.
- A constant `updated_at` may lie behind the row's own, and staging then shows
  the overwritten version; a physically deleted row stays. `StagingFollowsSource`
  and `ReconciliationMirrors` name these rows and exclude all others.
- A faultless transfer of claims whose amounts are all zero, or of none, fails
  its verification: "0" or "0.000000" is compared with "0.00".
  `PassesExplained` has this as its only exception.

The reconciliation never validates the contracts, so `ReadsAreValidated` is
stated of jobs and ingestion runs only.

## 4. Assumptions

- **PostgreSQL** runs at READ COMMITTED, its default: each statement reads what
  was committed when it started. A transaction that read a table holds off
  ALTER TABLE.
- **Snowflake** executes single statements atomically; they see committed data
  and the transaction's own writes. MERGE into RAW locks the table until the end
  of the transaction. A transaction whose client died is rolled back eventually.
- **Hashes** are injective: two versions have the same identity when key,
  `updated_at` and payload agree.
- **Batch ids** (UUIDs) are distinct.
- **The clock** of PostgreSQL gives no two transactions of `SourceScenarios` the
  same time; the application may have stamped rows ahead of it.
- **Files** are replaced in place: a writer that dies leaves a prefix of the new
  file, and COPY and COPY INTO refuse one that ends inside a row.
- **Fairness.** `BatchIngestion!FairSpec`: a run that started goes on executing
  its own statements (between attempts it sleeps a few seconds), and the server
  aborts an orphaned transaction. `PlatformRun!FairSpec`: a launched execution
  goes on (Dagster waits two seconds before a retry). Weak fairness suffices
  although a run may wait for the lock on RAW: its holder finishes or is
  aborted, and each of finitely many runs takes the lock at most once per
  attempt. The source, the
  launch of a run and failures have no fairness: nothing in the code makes them
  happen.

## 5. Proofs

The theorems hold for every value of the constants that satisfies the named
assumptions of each module: any finite set of keys, any times and bodies, any
two rankings, any number of runs, failures and writes; any foreign keys listed
parents first; any versions and builds; any scripts' rows, clocks and constants;
any contracts, passes and set-up runs; any drawing of rows.

**BatchIngestion.** `TypeCorrect`, `NothingEverSkipped`, `MarkAlwaysCaptured`,
`RawAlwaysUnique`, `SuccessAlwaysCaptures`, `FailuresAlwaysCountRaces`,
`RowsAlwaysBelong`, `IngestAlwaysReclaims`, `Refinement`. None of the four safety
invariants is inductive by itself. `NothingSkipped` speaks of the committed
watermark, but what a run will commit was computed much earlier, from a
watermark that may have been replaced and an extraction that RAW does not hold
yet. `IInv` therefore says of three positions, the committed one, the one each
run started from and the one it is going to write, that they are known and
complete (`WatermarkInv`), the last one counting the run's candidates as
captured; that the transaction's rows are exactly the staged versions RAW lacks
while the run owns the lock (`MergeInv`, which is why a retried or overlapping
MERGE doubles nothing); that what a run holds fits where it is (`PhaseInv`);
and that everything comes from the table's history (`ProvenanceInv`, which is
why a new version that is not late lies past every such position).
`Refinement` follows from `IInv` before and after each step, and so does
`FailuresAlwaysCountRaces` with `CountInv`: after its MERGE every candidate of a
run is represented, so only a count older than the extraction can fail the check.
`RowsAlwaysBelong` and `IngestAlwaysReclaims` assume that certain failures do not
occur (of the stage cleanup and the COMMIT's answer; of the cleanup and the audit):
with them the code breaks the property, without them no other failure does.

**Batches that do not overlap.** `MarkAlwaysAdvances`, `ReplaysAreEmpty` and
`AuditAlwaysExact` assume `Overlapping = FALSE`, as their run does: with overlap
the code breaks each of the three. `OneAtWork`: at most one run is past its start
and not at rest; a run that crashed is at rest, although the server still holds
its transaction, which can only be aborted. `MarkInv`: while a run holds
candidates, the committed watermark is the one it read, or already its own when a
COMMIT was applied and its answer lost, and its own is not before the one it read.
`CaughtInv`: no captured version lies past the committed watermark and no
candidate past the run's own; here the two collations have to order the keys alike
(`PgRank = PyRank`), since Python computes the mark that PostgreSQL compares.
`ExactInv`: what the run counted before its MERGE is what the MERGE inserts, and a
batch has no row before its COMMIT; an answer lost after COMMIT leads to a second
attempt that counts nothing new, hence the hypothesis that `commitAck` does not
occur.

**PlatformRun.** `TypeCorrect`, `NeverOldOrphans`, `SuccessAlwaysFresh`,
`ReadsAlwaysValidated`. Two parts of the invariant are about the watermark filter.
`MarkInv`: what lies at or before the watermark of its table is in RAW, was late
or is gone from the source. `FlightInv`: the same of the watermark a batch is
about to write, its candidates counted as captured; another execution may have
moved the watermark since, in either direction, without harm (`CommitMarks`).
So what the incremental query leaves unread and is not late is in RAW already.
The rest follows a pass through the tables: rows it began with and has to capture,
not deleted since, are in RAW up to its position (`PassInv`); what it extracted
has its parents in RAW already or they were late, because parents come earlier and
nothing but rows inserted during a pass escapes the beginning (`SeenInv`); what
holds after the pass and after dbt build (`AfterInv`). For
`ReadsAlwaysValidated`, whatever breaks its contract during the pass of an
execution that validates was altered since (`DriftInv`).

**WarehouseBuild.** `TypeCorrect` and all six properties of its runs. The
invariant adds that a statement in flight selected rows with one row per key
(`JoinInv`), that it started after its upstream models (`OrderInv`), and that
RAW is finite, so that claims can be counted. `CurrentUnique` is where the
record id as tie-break is needed.

- `EventsAlwaysComplete`, for any overlap. A record a build began with is either
  in `int_claim_events` or selected by a statement in flight; a MERGE selects
  what it did not find, and nothing but a first build removes a row (`EventsInv`).
- `MartsAlwaysAgree` and `DropsAlwaysExplained` assume `MaxActive = 1`, builds
  that do not overlap. RAW only grows, so a build that began with the RAW of now
  has read nothing else: what it built, and what it has in flight, is what the
  SELECTs give on RAW (`FreshInv`). The rest is a fact about those SELECTs: the
  claims of a policy in `fct_claims` are those the portfolio counts, by a
  bijection.
- `Scd2AlwaysTimeline`, for any overlap. `dim_customer_scd2` always is what the
  SELECT gives on some records of RAW (`HistoryInv`), whichever build it was. The
  records of a key are ordered by timestamp and id (`NewestRow`, `OldestRow`); the
  next version of a record is the least one after it, so a period ends where the
  next one begins (`EndsAt`), and a record that shares its timestamp with the
  next one has an empty period, which is never in force.

**SourceScenarios.** `TypeCorrect`, `StagingAlwaysFollows`,
`MissedAlwaysExplained`, `ReplayInsertsNone`, `ReconciliationAlwaysMirrors`,
`TablesCaptureAtomically`. The invariant relates RAW to the history of the source
and the load (what RAW holds of a key came from either), the current version of a
key to its earlier ones (it lies after them unless the key is in `overtaken`),
watermarks to what lies behind them, and, during a quiet reconciliation, RAW to
the tables already passed. For `ReconciliationAlwaysMirrors`, RAW is finite
(`RawFinite`), so staging shows something of every captured key (`StagedExists`);
the keys a script may overtake are never deleted and the only soft deletion is
that of one claim (`DeletedInv`), which is why a key whose staged version is not
its current one is live on both sides. `TablesCaptureAtomically` is a refinement
with one instance of `VersionCapture` per table: a script writes at most one row
of a table (`RowPerTable`), `MissedIsExplained` is the hole that must not be, and
the watermark is the position of a version in RAW (`FromBatches`). For the table
of claims it holds only if the history load is not run, which moves that watermark
by itself and puts versions into RAW that the source never held.

**SourceCatalog.** `TypeCorrect`, and all six properties of its run. The gate's
invariant relates a pass's errors to the schemas it may have read (`held`): an
error stems from a schema of that set and a table left alone has been compared as
it is (`CompareExact`, `CompareMixed`). The set-up's invariant says that a run's
list of tables misses something published only if another run has published since.

**FileTransfers.** `TypeCorrect`, `ManifestsMatch`, `FreshSeedsLoad`,
`PassesAlwaysExplained`. The load's transaction holds exactly the rows of the
tables before its position, of the generation it began with, as long as none has
begun since; `TableOrder` then gives every row its parents. For
`PassesAlwaysExplained` every file and table is finite (`FiniteInv`); `Total` is a
fold, so that its equation has a solution (`SumExists`) and a sum of natural
numbers is zero only when each of them is (`TotalZero`) are proved by induction
over finite sets; equal least and largest ids are what the property says of every
claim number (`BoundsAgree`).

**DataInduction.** The induction theorems of the library take a predicate as a
parameter and cannot be used here. These lemmas take a set instead: a set of
natural numbers has a least element (`LeastNat`, from the well-foundedness of
`<`), one with 0 that is closed under successor is all of them (`SetInduction`),
a set of subsets that is closed under adding, or that contains a set as soon as
it contains it without any one of its elements, is all of them
(`FiniteInduction`, `RemovalInduction`), and a finite set under a total order has
a first element (`FirstOfFinite`).

**Model-checked only.** Liveness (`RunsFinish`, `ReconciliationHeals`,
`ExecutionsEnd`) is out of the proof system's reach, which has no ENABLED. The
three violations are counterexamples, found on their instances. Every other
property of the runs is a theorem.

## 6. Not modelled

- Durations, messages, credentials, connection parameters, formats of payloads.
- In `PlatformRun`: later versions of a row; a validation is one step
  (`ContractGate` has its statements); collations that differ (`BatchIngestion`
  has them); and the latest batch of a table is that of the last execution to read
  it, where the view orders by a STARTED_AT taken a few statements earlier.
- Payments in the warehouse models, amounts, the GROUP BY of the portfolio, tests
  of accepted values: the properties stated do not tell them apart. Rows that come
  to refer to another customer, pet or policy in a later version.
- `ip/estuary_flow_spec.py` rewrites a connection string and renders a document;
  the capture itself is a managed service.
- `ip/benchmark_verify.py` and the BigQuery sandbox (`ip/gcp_bigquery_*.py`)
  compare counts of constant data and keep no state.
- The audit rows of the history load, malformed contract files, and the list
  operations `deduplicate_changes` and `chunked`, which are sets and one staging
  step here.
- Overlapping builds over customers, pets, policies and claims together: two builds of
  that instance exceed 12 million states, so `warehouse_overlap` has the event
  tables only and `MartsAgree` and `DropsExplained` are stated of builds that do
  not overlap.

## 7. Plan

What would extend this project, the most important first.

1. That a pass of `PlatformRun` is what batches of `BatchIngestion` do, as a
   refinement instead of a summary.
2. Additive columns across `ContractGate` and `SourceScenarios`: every row gets a
   new identity under its old `updated_at`.
3. `deduplicate_changes` and `chunked` on sequences, against their definitions on
   sets.
