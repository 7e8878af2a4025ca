----------------------------- MODULE BatchIngestion -----------------------------
(***************************************************************************)
(* The ingestion of one PostgreSQL table into Snowflake, by any number of  *)
(* runs that may overlap.                                                  *)
(*                                                                         *)
(* A run is one execution of _process_table in run_ingestion.py (an        *)
(* incremental run) or of the loop body of run() in                        *)
(* reconcile_source_state.py (a full-state reconciliation).  Each works on *)
(* a batch id of its own, so a run's name doubles as its batch id.  Between *)
(* two statements of a run anything may happen: the source is written,     *)
(* another run makes a step, a statement fails, the process is killed.     *)
(*                                                                         *)
(* Snowflake is external.  What is assumed of it: single statements are    *)
(* atomic and read committed data plus the transaction's own writes; MERGE *)
(* INTO the RAW table takes a lock on it that is held until the            *)
(* transaction ends; a transaction whose client died is rolled back by the *)
(* server some time later.  PostgreSQL is read at READ COMMITTED: every    *)
(* SELECT sees the rows committed when it starts.                          *)
(*                                                                         *)
(* Left out: durations, messages, row payload formats, the injected        *)
(* failure of INGESTION_FAIL_AFTER_MERGE_TABLE (it is one of the failures  *)
(* of StatementFails) and a ROLLBACK that raises while its session         *)
(* survives.                                                               *)
(***************************************************************************)
EXTENDS VersionOrder

CONSTANTS
    IngestRuns,      \* executions of run_ingestion._process_table
    ReconcileRuns,   \* executions of reconcile_source_state.run
    Overlapping,     \* may a run start while another one is working?
    MaxAttempts,     \* retry_call(max_attempts)
    FaultKinds,      \* the kinds of failure that may happen
    MaxFaults,       \* bound on the number of failures
    MaxWrites        \* bound on the number of source writes

Runs == IngestRuns \cup ReconcileRuns

ASSUME RunsFinite  == IsFiniteSet(Runs) /\ IngestRuns \cap ReconcileRuns = {}
ASSUME NoneNotRun  == None \notin Runs
ASSUME BoundsNat   == MaxAttempts \in Nat \ {0} /\ MaxFaults \in Nat /\ MaxWrites \in Nat
ASSUME OverlapBool == Overlapping \in BOOLEAN
ASSUME FaultsKnown ==
    FaultKinds \subseteq {"statement", "stage", "commitAck", "cleanup", "audit", "crash"}

VARIABLES
    source,     \* PostgreSQL: current version of each key, None when absent
    history,    \* ghost: every version the table ever held
    late,       \* ghost: versions written at or before an already used position
    raw,        \* Snowflake RAW: set of [ver, batch]
    mark,       \* INGESTION_WATERMARKS row of the table
    audit,      \* INGESTION_BATCHES row of each run
    stage,      \* INGESTION_STAGE rows of each run
    lock,       \* holder of the lock on RAW
    txn,        \* uncommitted writes of each run's transaction
    pc,         \* next statement of each run
    before,     \* watermark_before
    counted,    \* source_rows
    cands,      \* candidates
    after,      \* watermark_after
    attempt,    \* attempt number of retry_call
    inserted,   \* rows found unrepresented by the current attempt
    writes,     \* number of source writes so far
    faults      \* number of failures so far

pgVars   == <<source, history, late>>
locals   == <<before, counted, cands, after>>
tries    == <<attempt, inserted>>
vars     == <<source, history, late, raw, mark, audit, stage, lock, txn, pc,
              before, counted, cands, after, attempt, inserted, writes, faults>>

Row == [ver : Version, batch : Runs]

Statuses == {"NONE", "STARTED", "SUCCESS", "FAILED"}

\* Statements of the transaction: everything between BEGIN and COMMIT.
Transaction == {"begin", "merge", "check", "watermark", "finalize", "commit"}

Finished == {"done", "failed", "crashed"}

Phases == {"idle", "count", "extract", "start", "stage", "cleanup", "fail",
           "failCleanup"} \cup Transaction \cup Finished

NoWrites == [rows |-> {}, mark |-> None, success |-> FALSE]

VersionsOf(rows) == {row.ver : row \in rows}

Captured == VersionsOf(raw)

TypeOK ==
    /\ source \in [Keys -> Version \cup {None}]
    /\ history \subseteq Version
    /\ late \subseteq history
    /\ raw \subseteq Row
    /\ mark \in Watermark
    /\ audit \in [Runs -> [status : Statuses, rowsInserted : Nat]]
    /\ stage \in [Runs -> SUBSET Version]
    /\ lock \in Runs \cup {None}
    /\ txn \in [Runs -> [rows : SUBSET Row, mark : Watermark, success : BOOLEAN]]
    /\ pc \in [Runs -> Phases]
    /\ before \in [Runs -> Watermark]
    /\ counted \in [Runs -> Nat]
    /\ cands \in [Runs -> SUBSET Version]
    /\ after \in [Runs -> Watermark]
    /\ attempt \in [Runs -> 0..MaxAttempts]
    /\ inserted \in [Runs -> Nat]
    /\ writes \in 0..MaxWrites
    /\ faults \in 0..MaxFaults

\* An empty table, no RAW rows, no watermark row, no batch.
Init ==
    /\ source = [k \in Keys |-> None]
    /\ history = {} /\ late = {}
    /\ raw = {}
    /\ mark = None
    /\ audit = [r \in Runs |-> [status |-> "NONE", rowsInserted |-> 0]]
    /\ stage = [r \in Runs |-> {}]
    /\ lock = None
    /\ txn = [r \in Runs |-> NoWrites]
    /\ pc = [r \in Runs |-> "idle"]
    /\ before = [r \in Runs |-> None]
    /\ counted = [r \in Runs |-> 0]
    /\ cands = [r \in Runs |-> {}]
    /\ after = [r \in Runs |-> None]
    /\ attempt = [r \in Runs |-> 0]
    /\ inserted = [r \in Runs |-> 0]
    /\ writes = 0
    /\ faults = 0

-----------------------------------------------------------------------------
(* The source.  An INSERT or UPDATE commits a version with any updated_at:  *)
(* the scenarios set it to NOW(), to the past, or to a constant, and NOW()  *)
(* is the start of a transaction that may commit much later.                *)

IsLate(v) == \E u \in history : ~After(PgRank, v, u)

WriteSource(v) ==
    /\ writes < MaxWrites
    /\ source[v.pk] # v
    /\ source' = [source EXCEPT ![v.pk] = v]
    /\ history' = history \cup {v}
    /\ late' = IF IsLate(v) THEN late \cup {v} ELSE late
    /\ writes' = writes + 1
    /\ UNCHANGED <<raw, mark, audit, stage, lock, txn, pc, locals, tries, faults>>

\* A physical DELETE leaves no version behind.
DeleteSource(k) ==
    /\ writes < MaxWrites
    /\ source[k] # None
    /\ source' = [source EXCEPT ![k] = None]
    /\ writes' = writes + 1
    /\ UNCHANGED <<history, late, raw, mark, audit, stage, lock, txn, pc,
                   locals, tries, faults>>

-----------------------------------------------------------------------------
(* Before the batch exists: read the watermark, count, extract.             *)

MayStart(r) == Overlapping \/ \A q \in Runs : pc[q] \in {"idle"} \cup Finished

ReadWatermark(r) ==
    /\ pc[r] = "idle"
    /\ MayStart(r)
    /\ before' = [before EXCEPT ![r] = mark]
    /\ pc' = [pc EXCEPT ![r] = IF r \in IngestRuns THEN "count" ELSE "extract"]
    /\ UNCHANGED <<pgVars, raw, mark, audit, stage, lock, txn, counted, cands,
                   after, tries, writes, faults>>

SourceCount(r) ==
    /\ pc[r] = "count"
    /\ counted' = [counted EXCEPT ![r] = Cardinality(Current(source))]
    /\ pc' = [pc EXCEPT ![r] = "extract"]
    /\ UNCHANGED <<pgVars, raw, mark, audit, stage, lock, txn, before, cands,
                   after, tries, writes, faults>>

\* The incremental run selects past the watermark it read, in a statement that
\* follows the count; the reconciliation selects every row and counts those.
ExtractIncrement(r) ==
    /\ r \in IngestRuns
    /\ cands' = [cands EXCEPT ![r] = Incremental(Current(source), before[r])]
    /\ UNCHANGED counted

\* Mutant of ExtractAll: the reconciliation trusts the watermark, too.
ExtractAllPastWatermark(r) ==
    /\ r \in ReconcileRuns
    /\ cands' = [cands EXCEPT ![r] = Incremental(Current(source), before[r])]
    /\ counted' = [counted EXCEPT ![r] = Cardinality(Current(source))]

ExtractAll(r) ==
    /\ r \in ReconcileRuns
    /\ cands' = [cands EXCEPT ![r] = Current(source)]
    /\ counted' = [counted EXCEPT ![r] = Cardinality(Current(source))]

Extract(r) ==
    /\ pc[r] = "extract"
    /\ ExtractIncrement(r) \/ ExtractAll(r)
    /\ \E w \in NewestWatermark(cands'[r], before[r]) :
           after' = [after EXCEPT ![r] = w]
    /\ pc' = [pc EXCEPT ![r] = "start"]
    /\ UNCHANGED <<pgVars, raw, mark, audit, stage, lock, txn, before, tries,
                   writes, faults>>

WriteBatchStarted(r) ==
    /\ pc[r] = "start"
    /\ audit' = [audit EXCEPT ![r].status = "STARTED"]
    /\ pc' = [pc EXCEPT ![r] = "stage"]
    /\ UNCHANGED <<pgVars, raw, mark, stage, lock, txn, locals, tries, writes, faults>>

StageRecords(r) ==
    /\ pc[r] = "stage"
    /\ stage' = [stage EXCEPT ![r] = cands[r]]
    /\ pc' = [pc EXCEPT ![r] = "begin"]
    /\ UNCHANGED <<pgVars, raw, mark, audit, lock, txn, locals, tries, writes, faults>>

-----------------------------------------------------------------------------
(* The transaction.                                                         *)

\* Mutant of CountUnrepresented: every staged row counts as inserted.
CountStaged(r) ==
    /\ pc[r] = "begin"
    /\ attempt' = [attempt EXCEPT ![r] = @ + 1]
    /\ inserted' = [inserted EXCEPT ![r] = Cardinality(stage[r])]
    /\ pc' = [pc EXCEPT ![r] = "merge"]
    /\ UNCHANGED <<pgVars, raw, mark, audit, stage, lock, txn, locals, writes, faults>>

\* BEGIN, then count the staged versions RAW does not hold.  The count takes
\* no lock.
CountUnrepresented(r) ==
    /\ pc[r] = "begin"
    /\ attempt' = [attempt EXCEPT ![r] = @ + 1]
    /\ inserted' = [inserted EXCEPT ![r] = Cardinality(stage[r] \ Captured)]
    /\ pc' = [pc EXCEPT ![r] = "merge"]
    /\ UNCHANGED <<pgVars, raw, mark, audit, stage, lock, txn, locals, writes, faults>>

\* Mutant of MergeRaw: INSERT instead of MERGE ... WHEN NOT MATCHED.
InsertRaw(r) ==
    /\ pc[r] = "merge"
    /\ lock = None
    /\ lock' = r
    /\ txn' = [txn EXCEPT ![r].rows = {[ver |-> v, batch |-> r] : v \in stage[r]}]
    /\ pc' = [pc EXCEPT ![r] = "check"]
    /\ UNCHANGED <<pgVars, raw, mark, audit, stage, locals, tries, writes, faults>>

\* Mutant of MergeRaw: the MERGE runs outside the transaction.
MergeRawAutocommit(r) ==
    /\ pc[r] = "merge"
    /\ lock = None
    /\ raw' = raw \cup {[ver |-> v, batch |-> r] : v \in stage[r] \ Captured}
    /\ pc' = [pc EXCEPT ![r] = "check"]
    /\ UNCHANGED <<pgVars, mark, audit, stage, lock, txn, locals, tries, writes, faults>>

MergeRaw(r) ==
    /\ pc[r] = "merge"
    /\ lock = None
    /\ lock' = r
    /\ txn' = [txn EXCEPT ![r].rows =
                  {[ver |-> v, batch |-> r] : v \in stage[r] \ Captured}]
    /\ pc' = [pc EXCEPT ![r] = "check"]
    /\ UNCHANGED <<pgVars, raw, mark, audit, stage, locals, tries, writes, faults>>

\* Mutant of Represented: counted in a session that does not see the MERGE yet.
RepresentedCommitted(r) == stage[r] \cap Captured

Represented(r) == stage[r] \cap VersionsOf(raw \cup txn[r].rows)

Reconciles(r) ==
    IsConsistent(counted[r], Cardinality(cands[r]), inserted[r],
                 Cardinality(Represented(r)))

CheckPasses(r) ==
    /\ pc[r] = "check"
    /\ Reconciles(r)
    /\ pc' = [pc EXCEPT ![r] = "watermark"]
    /\ UNCHANGED <<pgVars, raw, mark, audit, stage, lock, txn, locals, tries,
                   writes, faults>>

\* Mutant of Rollback: the transaction is left open.
NoRollback(r) ==
    /\ txn' = [txn EXCEPT ![r] = NoWrites]
    /\ lock' = lock

\* ROLLBACK: the transaction's writes and its lock are gone.
Rollback(r) ==
    /\ txn' = [txn EXCEPT ![r] = NoWrites]
    /\ lock' = IF lock = r THEN None ELSE lock

\* "Reconciliation failed ..." is no transient error: no further attempt.
CheckFails(r) ==
    /\ pc[r] = "check"
    /\ ~Reconciles(r)
    /\ Rollback(r)
    /\ pc' = [pc EXCEPT ![r] = "fail"]
    /\ UNCHANGED <<pgVars, raw, mark, audit, stage, locals, tries, writes, faults>>

\* Mutant of WriteWatermark: the watermark the run started from is written back.
WriteWatermarkStale(r) ==
    /\ pc[r] = "watermark"
    /\ txn' = IF cands[r] = {} THEN txn ELSE [txn EXCEPT ![r].mark = before[r]]
    /\ pc' = [pc EXCEPT ![r] = "finalize"]
    /\ UNCHANGED <<pgVars, raw, mark, audit, stage, lock, locals, tries, writes, faults>>

WriteWatermark(r) ==
    /\ pc[r] = "watermark"
    /\ txn' = IF cands[r] = {} THEN txn ELSE [txn EXCEPT ![r].mark = after[r]]
    /\ pc' = [pc EXCEPT ![r] = "finalize"]
    /\ UNCHANGED <<pgVars, raw, mark, audit, stage, lock, locals, tries, writes, faults>>

\* Mutant of FinalizeSuccess: SUCCESS is audited outside the transaction.
FinalizeSuccessAutocommit(r) ==
    /\ pc[r] = "finalize"
    /\ audit' = [audit EXCEPT ![r] = [status |-> "SUCCESS", rowsInserted |-> inserted[r]]]
    /\ pc' = [pc EXCEPT ![r] = "commit"]
    /\ UNCHANGED <<pgVars, raw, mark, stage, lock, txn, locals, tries, writes, faults>>

FinalizeSuccess(r) ==
    /\ pc[r] = "finalize"
    /\ txn' = [txn EXCEPT ![r].success = TRUE]
    /\ pc' = [pc EXCEPT ![r] = "commit"]
    /\ UNCHANGED <<pgVars, raw, mark, audit, stage, lock, locals, tries, writes, faults>>

\* What the server does on COMMIT.
ApplyCommit(r) ==
    /\ raw' = raw \cup txn[r].rows
    /\ mark' = IF txn[r].mark = None THEN mark ELSE txn[r].mark
    /\ audit' = IF txn[r].success
                THEN [audit EXCEPT ![r] = [status |-> "SUCCESS",
                                           rowsInserted |-> inserted[r]]]
                ELSE audit
    /\ lock' = None
    /\ txn' = [txn EXCEPT ![r] = NoWrites]

Commit(r) ==
    /\ pc[r] = "commit"
    /\ ApplyCommit(r)
    /\ pc' = [pc EXCEPT ![r] = "cleanup"]
    /\ UNCHANGED <<pgVars, stage, locals, tries, writes, faults>>

CleanupStage(r) ==
    /\ pc[r] = "cleanup"
    /\ stage' = [stage EXCEPT ![r] = {}]
    /\ pc' = [pc EXCEPT ![r] = "done"]
    /\ UNCHANGED <<pgVars, raw, mark, audit, lock, txn, locals, tries, writes, faults>>

-----------------------------------------------------------------------------
(* Failures.                                                                *)

Fault(kind) ==
    /\ kind \in FaultKinds
    /\ faults < MaxFaults
    /\ faults' = faults + 1

\* Mutant of RetryOrFail: one attempt too many.
RetryOnceMore(r) ==
    \/ attempt[r] <= MaxAttempts /\ pc' = [pc EXCEPT ![r] = "begin"]
    \/ pc' = [pc EXCEPT ![r] = "fail"]

\* retry_call: a transient error is retried while attempts are left.
RetryOrFail(r) ==
    \/ attempt[r] < MaxAttempts /\ pc' = [pc EXCEPT ![r] = "begin"]
    \/ pc' = [pc EXCEPT ![r] = "fail"]

\* A statement between BEGIN and COMMIT raises: ROLLBACK, then retry or fail.
\* BEGIN counts as an attempt even when it is what fails.
StatementFails(r) ==
    /\ pc[r] \in Transaction
    /\ Fault("statement")
    /\ Rollback(r)
    /\ IF pc[r] = "begin"
       THEN /\ attempt' = [attempt EXCEPT ![r] = @ + 1]
            /\ \/ attempt[r] + 1 < MaxAttempts /\ UNCHANGED pc
               \/ pc' = [pc EXCEPT ![r] = "fail"]
       ELSE RetryOrFail(r) /\ UNCHANGED attempt
    /\ UNCHANGED <<pgVars, raw, mark, audit, stage, locals, inserted, writes>>

\* COMMIT is applied but its answer is lost: the ROLLBACK that follows finds no
\* transaction, and the error is retried or not like any other.
CommitAckLost(r) ==
    /\ pc[r] = "commit"
    /\ Fault("commitAck")
    /\ ApplyCommit(r)
    /\ RetryOrFail(r)
    /\ UNCHANGED <<pgVars, stage, locals, tries, writes>>

\* Staging is not retried; the chunks written so far stay.
StageFails(r) ==
    /\ pc[r] = "stage"
    /\ Fault("stage")
    /\ cands[r] # {}
    /\ \E part \in SUBSET cands[r] :
          /\ \A u \in cands[r], v \in part : After(PgRank, v, u) => u \in part
          /\ stage' = [stage EXCEPT ![r] = part]
    /\ pc' = [pc EXCEPT ![r] = "fail"]
    /\ UNCHANGED <<pgVars, raw, mark, audit, lock, txn, locals, tries, writes>>

\* The cleanup after COMMIT raises, with or without having deleted the rows.
\* It stands in the same try block as the staging and the transaction.
CleanupFails(r) ==
    /\ pc[r] = "cleanup"
    /\ Fault("cleanup")
    /\ \E rest \in {stage[r], {}} : stage' = [stage EXCEPT ![r] = rest]
    /\ pc' = [pc EXCEPT ![r] = "fail"]
    /\ UNCHANGED <<pgVars, raw, mark, audit, lock, txn, locals, tries, writes>>

\* Mutant of AfterFailureAudit: no failed run cleans its stage rows up.
NoFailureCleanup(r) == "failed"

\* Where the except block goes after the audit: only the incremental run
\* deletes its stage rows.
AfterFailureAudit(r) == IF r \in IngestRuns THEN "failCleanup" ELSE "failed"

FinalizeFailure(r) ==
    /\ pc[r] = "fail"
    /\ audit' = [audit EXCEPT ![r].status = "FAILED"]
    /\ pc' = [pc EXCEPT ![r] = AfterFailureAudit(r)]
    /\ UNCHANGED <<pgVars, raw, mark, stage, lock, txn, locals, tries, writes, faults>>

\* The UPDATE of the audit raises: the except block is left at once.
FinalizeFailureFails(r) ==
    /\ pc[r] = "fail"
    /\ Fault("audit")
    /\ pc' = [pc EXCEPT ![r] = "failed"]
    /\ UNCHANGED <<pgVars, raw, mark, audit, stage, lock, txn, locals, tries, writes>>

FailureCleanup(r) ==
    /\ pc[r] = "failCleanup"
    /\ stage' = [stage EXCEPT ![r] = {}]
    /\ pc' = [pc EXCEPT ![r] = "failed"]
    /\ UNCHANGED <<pgVars, raw, mark, audit, lock, txn, locals, tries, writes, faults>>

\* The exception of this cleanup is logged and swallowed.
FailureCleanupFails(r) ==
    /\ pc[r] = "failCleanup"
    /\ Fault("cleanup")
    /\ pc' = [pc EXCEPT ![r] = "failed"]
    /\ UNCHANGED <<pgVars, raw, mark, audit, stage, lock, txn, locals, tries, writes>>

\* The process ends between two statements: it is killed, or a statement
\* outside the try block raises.  Its transaction stays open on the server.
Crash(r) ==
    /\ pc[r] \notin {"idle"} \cup Finished
    /\ Fault("crash")
    /\ pc' = [pc EXCEPT ![r] = "crashed"]
    /\ UNCHANGED <<pgVars, raw, mark, audit, stage, lock, txn, locals, tries, writes>>

ServerAbort(r) ==
    /\ pc[r] = "crashed"
    /\ lock = r
    /\ Rollback(r)
    /\ UNCHANGED <<pgVars, raw, mark, audit, stage, pc, locals, tries, writes, faults>>

-----------------------------------------------------------------------------
RunStep(r) ==
    \/ ReadWatermark(r) \/ SourceCount(r) \/ Extract(r)
    \/ WriteBatchStarted(r) \/ StageRecords(r)
    \/ CountUnrepresented(r) \/ MergeRaw(r) \/ CheckPasses(r) \/ CheckFails(r)
    \/ WriteWatermark(r) \/ FinalizeSuccess(r) \/ Commit(r) \/ CleanupStage(r)
    \/ FinalizeFailure(r) \/ FailureCleanup(r)

RunFault(r) ==
    \/ StatementFails(r) \/ CommitAckLost(r) \/ StageFails(r) \/ CleanupFails(r)
    \/ FinalizeFailureFails(r) \/ FailureCleanupFails(r) \/ Crash(r)

SourceStep ==
    \/ \E v \in Version : WriteSource(v)
    \/ \E k \in Keys : DeleteSource(k)

Next ==
    \/ SourceStep
    \/ \E r \in Runs : RunStep(r) \/ RunFault(r) \/ ServerAbort(r)

Spec == Init /\ [][Next]_vars

\* A started run keeps executing (it sleeps at most 2 + 4 seconds between
\* attempts), and Snowflake rolls back the transaction of a client that died.
\* Neither the source nor the scheduler owes anything: no fairness on writes,
\* on the start of a run, or on failures.
Progress(r) == pc[r] # "idle" /\ RunStep(r)

FairSpec ==
    /\ Spec
    /\ \A r \in Runs : WF_vars(Progress(r)) /\ WF_vars(ServerAbort(r))

-----------------------------------------------------------------------------
(* Properties.                                                              *)

\* Nothing is skipped: every current version at or before the committed
\* watermark is in RAW, late ones (written at or before a position the table
\* had already used) excepted.  It is what makes it right for the incremental
\* query to look past the watermark only, whatever runs overlap or fail.
NothingSkipped ==
    \A v \in Current(source) \ late :
        mark # None /\ ~After(PgRank, v, mark) => v \in Captured

\* The watermark never points past what RAW holds: it is the position of a
\* captured version.  RAW and watermark are committed together or not at all.
MarkIsCaptured ==
    mark # None => \E v \in Captured : PosOf(v) = mark

\* MERGE ... WHEN NOT MATCHED keeps one RAW row per version identity, however
\* runs overlap and batches are retried: there is no key on RAW to enforce it.
RawUnique ==
    \A a, b \in raw : a.ver = b.ver => a = b

\* A batch audited SUCCESS has every candidate it extracted in RAW.
SuccessCaptures ==
    \A r \in Runs : audit[r].status = "SUCCESS" => cands[r] \subseteq Captured

\* RAW versions, watermark and SUCCESS audit roll back together: RAW holds no
\* row of a batch whose audit does not say SUCCESS.
RowsBelongToSuccess ==
    \A row \in raw : audit[row.batch].status = "SUCCESS"

\* An incremental run that returned, or raised past its except block, left no
\* stage rows.
IngestReclaimsStage ==
    \A r \in IngestRuns : pc[r] \in {"done", "failed"} => stage[r] = {}

\* ROWS_INSERTED of a SUCCESS batch is the number of RAW rows it added.
AuditExact ==
    \A r \in Runs : audit[r].status = "SUCCESS" =>
        audit[r].rowsInserted = Cardinality({row \in raw : row.batch = r})

\* What RAW holds of the current rows is behind the watermark: an unchanged
\* replay extracts none of it again.
NoReplay ==
    \A v \in Current(source) \cap Captured :
        mark # None /\ ~After(PgRank, v, mark)

\* A batch fails its reconciliation only because rows were committed between its
\* count and its extraction: never a reconciliation, and never because of what
\* overlapping runs merge or an earlier attempt left behind.
FailuresAreCountRaces ==
    [][\A r \in Runs : CheckFails(r) =>
           r \in IngestRuns /\ counted[r] < Cardinality(cands[r])]_vars

\* The committed watermark never moves backwards.
MarkNeverRegresses ==
    [][mark # None => mark' # None /\ ~After(PyRank, mark, mark')]_mark

\* Every run that starts ends, whatever fails and however runs wait for the
\* lock on RAW.
RunsFinish ==
    \A r \in Runs : pc[r] # "idle" ~> pc[r] \in Finished

\* A full-state reconciliation heals any gap, late versions included: a version
\* current when it is about to scan reaches RAW, unless the version is
\* overwritten first or the reconciliation does not succeed.
ReconciliationHeals ==
    \A r \in ReconcileRuns, v \in Version :
        pc[r] = "extract" /\ source[v.pk] = v
            ~> v \in Captured \/ source[v.pk] # v \/ pc[r] \in {"failed", "crashed"}

-----------------------------------------------------------------------------
Capturing == INSTANCE VersionCapture WITH captured <- Captured

\* Seen through the versions in RAW and the committed watermark, the ingestion
\* is an atomic capture that never leaves a hole behind its watermark: the
\* statements before COMMIT, failures, retries and crashes do not show.
CapturesAtomically == Capturing!CaptureSpec
=============================================================================
