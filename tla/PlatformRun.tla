------------------------------ MODULE PlatformRun ------------------------------
(***************************************************************************)
(* Whole executions over the five tables: the Dagster job                  *)
(* (orchestration.py), run() of run_ingestion.py started on its own, and   *)
(* run() of reconcile_source_state.py, all of which may overlap.           *)
(*                                                                         *)
(* A table is the number of its place in TABLES.  One table's batch, which *)
(* BatchIngestion models statement by statement, is two steps here: the    *)
(* reading of the watermark and of the rows together with the STARTED      *)
(* audit row, and its outcome.  The incremental query reads the rows past  *)
(* the watermark of the table, so a row may be written behind it and stay  *)
(* unread; the reconciliation reads them all.  The query, Python and       *)
(* Snowflake agree here on the order of keys; BatchIngestion lets them     *)
(* differ, and has the steps between the reading of the watermark and the  *)
(* COMMIT.  A validation of the contracts is one step (see ContractGate).  *)
(*                                                                         *)
(* A row is its table and the family (a customer with pet, policy, claim   *)
(* and payment) it belongs to; later versions of a row are left out.  So   *)
(* are the moments within dbt build (see WarehouseBuild), the arguments of *)
(* the ops, and the connection parameters.                                 *)
(***************************************************************************)
EXTENDS Naturals, FiniteSets

CONSTANTS
    NumTables,      \* len(TABLES)
    Parents,        \* tables each table has foreign keys to
    Families,       \* chains of rows that refer to each other
    Jobs,           \* executions of the Dagster job
    Ingests,        \* executions of run_ingestion.run outside Dagster
    Reconciles,     \* executions of reconcile_source_state.run
    None,           \* no batch yet
    MaxPlace,       \* bound on the places (updated_at, key) in a table's order
    PlacesOf,       \* bound on the places each row may be given
    MaxWrites,      \* bound on the number of transactions in PostgreSQL
    MaxFaults,      \* bound on the number of failures
    MaxAlters       \* bound on the number of schema changes

Tables == 1..NumTables
Actors == Jobs \cup Ingests \cup Reconciles

ASSUME TablesNat    == NumTables \in Nat \ {0}
ASSUME ParentsFirst == /\ Parents \in [Tables -> SUBSET Tables]
                       /\ \A t \in Tables : \A u \in Parents[t] : u < t
ASSUME ActorsApart  == /\ Jobs \cap Ingests = {}
                       /\ (Jobs \cup Ingests) \cap Reconciles = {}
                       /\ None \notin Actors
ASSUME BoundsNat    == /\ MaxPlace \in Nat /\ MaxWrites \in Nat
                       /\ MaxFaults \in Nat /\ MaxAlters \in Nat

VARIABLES
    source,     \* rows in PostgreSQL
    history,    \* ghost: rows ever inserted
    exposed,    \* ghost: rows inserted while some pass was reading tables
    place,      \* where each row stands in the order of its table's query
    late,       \* ghost: rows inserted behind the watermark of their table
    writes,     \* number of transactions in PostgreSQL so far
    drifted,    \* tables whose schema breaks their contract
    raw,        \* rows of which RAW holds a version
    mark,       \* per table: the watermark, 0 before there is one
    latest,     \* per table: the batch started last, as INGESTION_HEALTH sees it
    pc,         \* what each execution does next
    pos,        \* the table it is at
    seen,       \* what it extracted from that table, until the batch has ended
    after,      \* the watermark_after of that batch
    tries,      \* retries used by the current op
    begun,      \* ghost: rows in the source when its current pass began
    built,      \* ghost: rows in RAW when its dbt build passed
    altered,    \* ghost: tables altered during its pass, behind its validation
    faults,     \* number of failures so far
    alters      \* number of schema changes so far

pg        == <<source, history, exposed, place, late, writes>>
schema    == <<drifted, altered, alters>>
warehouse == <<raw, mark, latest>>
batch     == <<seen, after>>
vars      == <<source, history, exposed, place, late, writes, drifted, raw, mark, latest,
               pc, pos, seen, after, tries, begun, built, altered, faults, alters>>

Places == 1..MaxPlace

Row == [table : Tables, fam : Families]

ASSUME PlacesTyped  == PlacesOf \in [Row -> SUBSET Places]

ParentsOf(row) == {[table |-> u, fam |-> row.fam] : u \in Parents[row.table]}

Closed(rows) == \A row \in rows : ParentsOf(row) \subseteq rows

Rows(t) == {row \in source : row.table = t}

Statuses == {"NONE", "STARTED", "SUCCESS", "FAILED"}

\* A pass is one walk over TABLES; it holds its PostgreSQL transaction open.
Passing  == {"read", "apply"}
Finished == {"succeeded", "failed", "crashed"}
Phases   == {"idle", "validate", "connect", "dbt", "health"} \cup Passing \cup Finished

\* RetryPolicy(max_retries) of the op a phase belongs to; run() on its own and
\* the reconciliation have none.
MaxRetries(a, phase) ==
    IF a \notin Jobs THEN 0 ELSE IF phase = "dbt" THEN 1 ELSE 2

TypeOK ==
    /\ source \subseteq history /\ history \subseteq Row
    /\ exposed \subseteq history /\ late \subseteq history
    /\ place \in [Row -> 0..MaxPlace]
    /\ drifted \subseteq Tables
    /\ raw \subseteq history
    /\ mark \in [Tables -> 0..MaxPlace]
    /\ latest \in [Tables -> [owner : Actors \cup {None}, status : Statuses]]
    /\ pc \in [Actors -> Phases]
    /\ pos \in [Actors -> 1..NumTables]
    /\ seen \in [Actors -> SUBSET history]
    /\ after \in [Actors -> 0..MaxPlace]
    /\ tries \in [Actors -> 0..2]
    /\ \A a \in Actors : tries[a] <= MaxRetries(a, pc[a]) \/ pc[a] \in Finished
    /\ begun \in [Actors -> SUBSET history]
    /\ built \in [Actors -> SUBSET history]
    /\ altered \in [Actors -> SUBSET Tables]
    /\ writes \in 0..MaxWrites
    /\ faults \in 0..MaxFaults
    /\ alters \in 0..MaxAlters

Init ==
    /\ source = {} /\ history = {} /\ exposed = {} /\ late = {}
    /\ place = [row \in Row |-> 0]
    /\ drifted = {}
    /\ raw = {}
    /\ mark = [t \in Tables |-> 0]
    /\ latest = [t \in Tables |-> [owner |-> None, status |-> "NONE"]]
    /\ pc = [a \in Actors |-> "idle"]
    /\ pos = [a \in Actors |-> 1]
    /\ seen = [a \in Actors |-> {}]
    /\ after = [a \in Actors |-> 0]
    /\ tries = [a \in Actors |-> 0]
    /\ begun = [a \in Actors |-> {}]
    /\ built = [a \in Actors |-> {}]
    /\ altered = [a \in Actors |-> {}]
    /\ writes = 0
    /\ faults = 0
    /\ alters = 0

-----------------------------------------------------------------------------
(* The source: foreign keys without cascades, and schema changes.           *)

\* The table's watermark, or what a batch is about to make of it, is at or
\* past this place.
Passed(t, at) ==
    \/ at <= mark[t]
    \/ \E a \in Actors : pc[a] = "apply" /\ pos[a] = t /\ at <= after[a]

Write ==
    /\ writes < MaxWrites
    /\ writes' = writes + 1

\* One transaction inserts any rows whose parents are there once it commits, at
\* places of their own that it chose before it commits, or back-dates.
InsertRows(rows, at) ==
    /\ Write
    /\ rows # {}
    /\ rows \cap history = {}
    /\ Closed(source \cup rows)
    /\ \A row \in rows : at[row] \in PlacesOf[row]
    /\ \A row \in rows : \A other \in (source \cup rows) \ {row} :
          row.table = other.table =>
              at[row] # IF other \in rows THEN at[other] ELSE place[other]
    /\ source' = source \cup rows
    /\ history' = history \cup rows
    /\ place' = [row \in Row |-> IF row \in rows THEN at[row] ELSE place[row]]
    /\ late' = late \cup {row \in rows : Passed(row.table, at[row])}
    /\ exposed' = IF \E a \in Actors : pc[a] \in Passing
                  THEN exposed \cup rows ELSE exposed
    /\ UNCHANGED <<schema, warehouse, pc, pos, batch, tries, begun, built, faults>>

DeleteRow(row) ==
    /\ Write
    /\ row \in source
    /\ Closed(source \ {row})
    /\ source' = source \ {row}
    /\ UNCHANGED <<history, exposed, place, late, schema, warehouse, pc, pos, batch,
                   tries, begun, built, faults>>

\* An open transaction that has read a table keeps ALTER TABLE out of it.
HasRead(a, t) ==
    \/ pc[a] = "read" /\ t < pos[a]
    \/ pc[a] = "apply" /\ t <= pos[a]

\* An execution reads under the contracts it validated; the reconciliation does not.
Validated(a) == a \notin Reconciles /\ pc[a] \in Passing

\* A breaking change of a table, or its restoration.
AlterTable(t) ==
    /\ alters < MaxAlters
    /\ \A a \in Actors : ~HasRead(a, t)
    /\ drifted' = IF t \in drifted THEN drifted \ {t} ELSE drifted \cup {t}
    /\ altered' = [a \in Actors |-> altered[a] \cup IF Validated(a) THEN {t} ELSE {}]
    /\ alters' = alters + 1
    /\ UNCHANGED <<pg, warehouse, pc, pos, batch, tries, begun, built, faults>>

-----------------------------------------------------------------------------
(* Ops and their retries.                                                   *)

\* Mutant of RestartAt: a retried ingestion goes on after the table that failed.
ResumeAt(a) ==
    IF pc[a] \in Passing /\ pos[a] < NumTables THEN [phase |-> "read", table |-> pos[a] + 1]
    ELSE IF pc[a] \in Passing \cup {"connect"} THEN [phase |-> "connect", table |-> 1]
    ELSE [phase |-> pc[a], table |-> pos[a]]

\* Where a retry of the current op starts: the ingestion op is run() again.
RestartAt(a) ==
    IF pc[a] \in Passing \cup {"connect"} THEN [phase |-> "connect", table |-> 1]
    ELSE [phase |-> pc[a], table |-> pos[a]]

\* Mutant of MayRetry: one retry too many.
RetryOnceMore(a) == tries[a] <= MaxRetries(a, pc[a])

MayRetry(a) == tries[a] < MaxRetries(a, pc[a])

\* Nothing is kept of a batch that has ended.
Forget(a) ==
    /\ seen' = [seen EXCEPT ![a] = {}]
    /\ after' = [after EXCEPT ![a] = 0]

\* Mutant of OpFails: retries are not counted.
OpFailsUncounted(a) ==
    /\ Forget(a)
    /\ IF MayRetry(a)
       THEN /\ pc' = [pc EXCEPT ![a] = RestartAt(a).phase]
            /\ pos' = [pos EXCEPT ![a] = RestartAt(a).table]
            /\ UNCHANGED tries
       ELSE pc' = [pc EXCEPT ![a] = "failed"] /\ UNCHANGED <<pos, tries>>

\* The current op raises: Dagster runs it again, or the execution fails.
OpFails(a) ==
    /\ Forget(a)
    /\ IF MayRetry(a)
       THEN /\ pc' = [pc EXCEPT ![a] = RestartAt(a).phase]
            /\ pos' = [pos EXCEPT ![a] = RestartAt(a).table]
            /\ tries' = [tries EXCEPT ![a] = @ + 1]
       ELSE pc' = [pc EXCEPT ![a] = "failed"] /\ UNCHANGED <<pos, tries>>

\* The next op starts with no retry used.
GoesTo(a, phase) ==
    /\ pc' = [pc EXCEPT ![a] = phase]
    /\ tries' = [tries EXCEPT ![a] = 0]

BeginPass(a) ==
    /\ pos' = [pos EXCEPT ![a] = 1]
    /\ begun' = [begun EXCEPT ![a] = source]

\* The reconciliation starts reading at once; the others validate first.
Launch(a) ==
    /\ pc[a] = "idle"
    /\ \/ a \in Jobs /\ GoesTo(a, "validate") /\ UNCHANGED <<pos, begun, altered>>
       \/ a \in Ingests /\ GoesTo(a, "connect") /\ UNCHANGED <<pos, begun, altered>>
       \/ /\ a \in Reconciles
          /\ GoesTo(a, "read")
          /\ BeginPass(a)
          /\ altered' = [altered EXCEPT ![a] = {}]
    /\ UNCHANGED <<pg, drifted, alters, warehouse, batch, built, faults>>

\* validate_source_contracts_op.
ValidateOp(a) ==
    /\ pc[a] = "validate"
    /\ IF drifted = {}
       THEN GoesTo(a, "connect") /\ UNCHANGED <<pos, batch>>
       ELSE OpFails(a)
    /\ UNCHANGED <<pg, schema, warehouse, begun, built, faults>>

\* Mutant of ValidateSource: run() relies on the validation op.
TrustValidateOp(a) ==
    /\ pc[a] = "connect"
    /\ pc' = [pc EXCEPT ![a] = "read"]
    /\ BeginPass(a)
    /\ altered' = [altered EXCEPT ![a] = {}]
    /\ UNCHANGED <<pg, drifted, alters, warehouse, batch, tries, built, faults>>

\* run() connects and validates the contracts again.
ValidateSource(a) ==
    /\ pc[a] = "connect"
    /\ IF drifted = {}
       THEN /\ pc' = [pc EXCEPT ![a] = "read"]
            /\ BeginPass(a)
            /\ altered' = [altered EXCEPT ![a] = {}]
            /\ UNCHANGED <<tries, batch>>
       ELSE OpFails(a) /\ UNCHANGED <<begun, altered>>
    /\ UNCHANGED <<pg, drifted, alters, warehouse, built, faults>>

\* Only the reconciliation reads what is behind the watermark.
Extract(a) ==
    IF a \in Reconciles THEN Rows(pos[a])
    ELSE {row \in Rows(pos[a]) : place[row] > mark[pos[a]]}

\* newest_watermark: that of the last row, unless the watermark is past it.
IsNewest(at, t, rows) ==
    /\ at \in {mark[t]} \cup {place[row] : row \in rows}
    /\ at >= mark[t]
    /\ \A row \in rows : at >= place[row]

\* The watermark is read, then the rows; the latest batch is that of the last
\* execution to get here, whose STARTED_AT it took on the way.
ReadTable(a) ==
    /\ pc[a] = "read"
    /\ seen' = [seen EXCEPT ![a] = Extract(a)]
    /\ \E at \in 0..MaxPlace :
          /\ IsNewest(at, pos[a], Extract(a))
          /\ after' = [after EXCEPT ![a] = at]
    /\ latest' = [latest EXCEPT ![pos[a]] = [owner |-> a, status |-> "STARTED"]]
    /\ pc' = [pc EXCEPT ![a] = "apply"]
    /\ UNCHANGED <<pg, schema, raw, mark, pos, tries, begun, built, faults>>

\* A batch updates its own audit row, which a later batch may have superseded.
Audit(a, status) ==
    latest' = IF latest[pos[a]].owner = a
              THEN [latest EXCEPT ![pos[a]].status = status]
              ELSE latest

\* The batch's transaction: RAW and, when rows were read, the watermark, which
\* another execution may have moved further since.
Commit(a) ==
    /\ raw' = raw \cup seen[a]
    /\ mark' = IF seen[a] = {} THEN mark ELSE [mark EXCEPT ![pos[a]] = after[a]]

ApplyBatch(a) ==
    /\ pc[a] = "apply"
    /\ Commit(a)
    /\ Audit(a, "SUCCESS")
    /\ Forget(a)
    /\ IF pos[a] < NumTables
       THEN /\ pos' = [pos EXCEPT ![a] = @ + 1]
            /\ pc' = [pc EXCEPT ![a] = "read"]
            /\ UNCHANGED tries
       ELSE /\ GoesTo(a, IF a \in Jobs THEN "dbt" ELSE "succeeded")
            /\ UNCHANGED pos
    /\ UNCHANGED <<pg, schema, begun, built, faults>>

\* dbt build runs the relationships tests over what RAW holds.
DbtBuild(a) ==
    /\ pc[a] = "dbt"
    /\ IF Closed(raw)
       THEN /\ GoesTo(a, "health") /\ UNCHANGED <<pos, batch>>
            /\ built' = [built EXCEPT ![a] = raw]
       ELSE OpFails(a) /\ UNCHANGED built
    /\ UNCHANGED <<pg, schema, warehouse, begun, faults>>

\* Every table's latest batch, whoever's it is, must be a SUCCESS.
Healthy == \A t \in Tables : latest[t].status = "SUCCESS"

VerifyHealth(a) ==
    /\ pc[a] = "health"
    /\ IF Healthy
       THEN GoesTo(a, "succeeded") /\ UNCHANGED <<pos, batch>>
       ELSE OpFails(a)
    /\ UNCHANGED <<pg, schema, warehouse, begun, built, faults>>

-----------------------------------------------------------------------------
(* Failures.                                                                *)

Fault ==
    /\ faults < MaxFaults
    /\ faults' = faults + 1

\* A connection, a query of the source, dbt itself: nothing is written.
OpRaises(a) ==
    /\ pc[a] \in {"validate", "connect", "read", "dbt", "health"}
    /\ Fault
    /\ OpFails(a)
    /\ UNCHANGED <<pg, schema, warehouse, begun, built>>

\* Mutant of BatchFails: the loop goes on with the next table.
BatchFailsAlone(a) ==
    /\ pc[a] = "apply"
    /\ Fault
    /\ Audit(a, "FAILED") /\ UNCHANGED <<raw, mark>>
    /\ IF pos[a] < NumTables
       THEN /\ pos' = [pos EXCEPT ![a] = @ + 1]
            /\ pc' = [pc EXCEPT ![a] = "read"]
            /\ Forget(a)
            /\ UNCHANGED tries
       ELSE OpFails(a)
    /\ UNCHANGED <<pg, schema, begun, built>>

\* A batch raises: it was rolled back, or it was committed and its cleanup
\* failed.  Its failure is audited unless the audit fails as well.
BatchFails(a) ==
    /\ pc[a] = "apply"
    /\ Fault
    /\ \/ \E status \in {"FAILED", "STARTED"} : Audit(a, status) /\ UNCHANGED <<raw, mark>>
       \/ \E status \in {"FAILED", "SUCCESS"} : Audit(a, status) /\ Commit(a)
    /\ OpFails(a)
    /\ UNCHANGED <<pg, schema, begun, built>>

\* The process is killed; a batch it leaves stays STARTED.
Crash(a) ==
    /\ pc[a] \notin {"idle"} \cup Finished
    /\ Fault
    /\ pc' = [pc EXCEPT ![a] = "crashed"]
    /\ Forget(a)
    /\ UNCHANGED <<pg, schema, warehouse, pos, tries, begun, built>>

-----------------------------------------------------------------------------
ActorStep(a) ==
    \/ ValidateOp(a) \/ ValidateSource(a) \/ ReadTable(a) \/ ApplyBatch(a)
    \/ DbtBuild(a) \/ VerifyHealth(a)

SourceStep ==
    \/ \E rows \in SUBSET Row : \E at \in [rows -> Places] : InsertRows(rows, at)
    \/ \E row \in Row : DeleteRow(row)
    \/ \E t \in Tables : AlterTable(t)

Next ==
    \/ SourceStep
    \/ \E a \in Actors : \/ Launch(a) \/ ActorStep(a)
                         \/ OpRaises(a) \/ BatchFails(a) \/ Crash(a)

Spec == Init /\ [][Next]_vars

\* A launched execution keeps going: Dagster sleeps two seconds before a retry.
FairSpec == Spec /\ \A a \in Actors : WF_vars(ActorStep(a))

-----------------------------------------------------------------------------
(* Properties.                                                              *)

\* Tables are read parents first and a failed table ends the pass, so the parents
\* of a row in RAW are in RAW, unless the row was inserted while a pass was
\* reading, or the parent was inserted behind the watermark of its table and the
\* incremental query does not find it.  No failure, retry, crash, overlap or stale
\* watermark leaves another row without its parents.
NoOldOrphans ==
    \A row \in raw \ exposed : ParentsOf(row) \subseteq raw \cup late

\* What a pass has to capture of what was in the source when it began, rows
\* deleted since excepted: all of it for the reconciliation, and for the others
\* what had not been inserted behind a watermark.
Due(a) == (begun[a] \cap source) \ IF a \in Reconciles THEN {} ELSE late

\* An execution that succeeds has captured all that its last pass was to
\* capture, whatever was retried on the way and however other executions moved
\* the watermarks, and a job has shown it to dbt.
SuccessIsFresh ==
    \A a \in Actors : pc[a] = "succeeded" =>
        /\ Due(a) \subseteq raw
        /\ a \in Jobs => Due(a) \subseteq built[a]

\* A job or an ingestion reads a table under a schema that breaks its contract
\* only when the table was altered after this execution had validated the
\* contracts: each pass, a retried one too, validates before it reads.  (The
\* reconciliation validates nothing.)
ReadsAreValidated ==
    [][\A a \in Jobs \cup Ingests :
          pc[a] = "read" /\ pc'[a] = "apply" /\ pos[a] \in drifted
              => pos[a] \in altered[a]]_vars

\* Every execution that is launched ends, since time and again none is under way
\* and none is launched twice: retries are limited and nothing waits.
ExecutionsEnd ==
    []<>(\A a \in Actors : pc[a] \in {"idle"} \cup Finished)

\* When dbt build starts on what the ingestion op of its own job brought in,
\* every reference in RAW resolves (the relationships tests of the models).
RelationshipsHold ==
    \A a \in Jobs : pc[a] = "dbt" => Closed(raw)
=============================================================================
