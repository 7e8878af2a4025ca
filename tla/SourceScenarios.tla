---------------------------- MODULE SourceScenarios ----------------------------
(***************************************************************************)
(* The scripts that write the source (the reliability suite, the T4 and    *)
(* customer demos, the CDC demo), the Snowflake history load, and what the *)
(* staging models show of it after ingestion and reconciliation passes.    *)
(*                                                                         *)
(* A script is one transaction; one that raises writes nothing and is not  *)
(* a step.  The batch of one table, which BatchIngestion takes apart, is   *)
(* one step here, and passes do not overlap.  What is new is the order:    *)
(* scripts and the load run between the tables of a pass, and stamp        *)
(* updated_at in four ways (the clock, a constant, a constant in the past, *)
(* GREATEST of the clock and the row's own).                               *)
(*                                                                         *)
(* A row's body is what the scripts test: "initial", "changed" by its      *)
(* script, "deleted" softly, "other" for amounts a script refuses, and     *)
(* "loaded" for a payload of the history load, which lacks columns and so  *)
(* has a hash of its own.  The audit rows of the load are left out.        *)
(***************************************************************************)
EXTENDS VersionOrder

CONSTANTS
    NumTables,      \* tables, in the order in which passes capture them
    TableOf,        \* table of each key
    Customer, T4Claim, T4Payment,               \* rows of the demos
    DqClaim, DqPayment, LateClaim, LateExisting,    \* rows of the suite
    TxnClaim, CdcClaim,     \* claims inserted at the clock's time
    FirstAt, LateAt, LateExistingAt, RevisedAt, HistoryAt, EventAt,  \* constants
    Clocks,         \* where the clock may stand at first
    Seeded,         \* updated_at of the rows that exist at first
    MaxTime, MaxWrites, MaxLoads    \* bounds

Tables == 1..NumTables

\* VALUES of the history load: two versions of one claim.
HistoryVersions ==
    {[pk |-> T4Claim, at |-> t, body |-> "loaded"] : t \in {FirstAt, HistoryAt}}

ASSUME TablesTyped   == NumTables \in Nat /\ TableOf \in [Keys -> Tables]
ASSUME RowsAreKeys   == {Customer, T4Claim, T4Payment, DqClaim, DqPayment, LateClaim,
                         LateExisting, TxnClaim, CdcClaim} \subseteq Keys
ASSUME RowsApart     ==
    /\ CdcClaim \notin {Customer, T4Claim, T4Payment, DqClaim, DqPayment, LateClaim,
                        LateExisting, TxnClaim}
    /\ {Customer, T4Claim} \cap {T4Payment, DqClaim, DqPayment, LateClaim,
                                 LateExisting, TxnClaim} = {}
    /\ {DqClaim, DqPayment} \cap {T4Payment, LateClaim, LateExisting, TxnClaim} = {}
    /\ LateExisting \notin {T4Payment, LateClaim, TxnClaim}
    /\ Customer # T4Claim /\ DqClaim # DqPayment
ASSUME ClaimsApart   == TableOf[T4Claim] # TableOf[T4Payment]
ASSUME TimesOrdered  == Times = 0..MaxTime /\ LateExistingAt < RevisedAt
ASSUME ConstantTimes ==
    {FirstAt, LateAt, LateExistingAt, RevisedAt, HistoryAt, EventAt} \subseteq Times
ASSUME BodiesKnown   == Bodies = {"initial", "changed", "deleted", "other", "loaded"}
ASSUME ClocksInTime  == Clocks \subseteq Times /\ Seeded \subseteq Times
ASSUME BoundsNat     == MaxTime \in Nat /\ MaxWrites \in Nat /\ MaxLoads \in Nat

VARIABLES
    source,     \* PostgreSQL: current version of each key, None when absent
    now,        \* CURRENT_TIMESTAMP of the next transaction
    raw,        \* RAW: set of [ver, rid]
    ids,        \* RAW_RECORD_ID handed out next
    mark,       \* watermark of each table
    pass,       \* the pass under way
    pos,        \* its table
    loading,    \* has the history load written RAW and not yet the watermark?
    history,    \* ghost: every version the source ever held
    late,       \* ghost: versions written at or before a used position
    jumped,     \* ghost: versions the load's watermark passed over
    overtaken,  \* ghost: keys stamped at or before an earlier version of theirs
    quiet,      \* ghost: a pass is under way, and nothing was written since it began
    settled,    \* ghost: nothing was written since a complete reconciliation began
    writes, loads

passes == <<pass, pos>>
vars   == <<source, now, raw, ids, mark, pass, pos, loading, history, late, jumped,
            overtaken, quiet, settled, writes, loads>>

Captured == {r.ver : r \in raw}

Rows(t) == {v \in Current(source) : TableOf[v.pk] = t}

PassKinds == {"none", "ingest", "reconcile"}

TypeOK ==
    /\ source \in [Keys -> Version \cup {None}]
    /\ now \in 0..(MaxTime + 1)
    /\ raw \subseteq [ver : Version, rid : Nat] /\ ids \in Nat
    /\ mark \in [Tables -> Watermark]
    /\ pass \in PassKinds /\ pos \in Tables
    /\ loading \in BOOLEAN
    /\ history \subseteq Version /\ late \subseteq history /\ jumped \subseteq history
    /\ overtaken \subseteq Keys
    /\ quiet \in BOOLEAN /\ settled \in BOOLEAN
    /\ writes \in 0..MaxWrites /\ loads \in 0..MaxLoads

\* Rows of an application that stamps at any time, the future included; RAW and
\* the watermarks are empty.
Init ==
    /\ \E at \in [{Customer, T4Claim, DqClaim, T4Payment} -> Seeded],
          demo \in SUBSET {T4Payment} :
          source = [k \in Keys |->
              CASE k \in {Customer, T4Claim, DqClaim} ->
                       [pk |-> k, at |-> at[k], body |-> "initial"]
                [] k \in demo -> [pk |-> k, at |-> at[k], body |-> "other"]
                [] OTHER -> None]
    /\ now \in Clocks
    /\ raw = {} /\ ids = 0
    /\ mark = [t \in Tables |-> None]
    /\ pass = "none" /\ pos = 1
    /\ loading = FALSE
    /\ history = Current(source) /\ late = {} /\ jumped = {}
    /\ overtaken = {}
    /\ quiet = FALSE /\ settled = FALSE
    /\ writes = 0 /\ loads = 0

-----------------------------------------------------------------------------
(* The scripts.                                                             *)

\* No position used so far comes before v.
Behind(v) ==
    LET t == TableOf[v.pk]
    IN  \/ mark[t] # None /\ ~After(PgRank, v, mark[t])
        \/ \E u \in history : TableOf[u.pk] = t /\ ~After(PgRank, v, u)

WithRow(k, t, b) == [source EXCEPT ![k] = [pk |-> k, at |-> t, body |-> b]]

\* A transaction leaves the source as new.
Commit(new) ==
    /\ new # source
    /\ writes < MaxWrites
    /\ source' = new
    /\ LET fresh == Current(new) \ Current(source)
       IN  /\ history' = history \cup fresh
           /\ late' = late \cup {v \in fresh : Behind(v)}
    /\ quiet' = FALSE /\ settled' = FALSE
    /\ writes' = writes + 1
    /\ UNCHANGED <<raw, ids, mark, passes, loading, jumped, loads>>

\* CURRENT_TIMESTAMP: no two transactions have the same.
UseClock ==
    /\ now <= MaxTime
    /\ now' = now + 1

\* Mutant of Touch: _touch_expression without the row's own updated_at.
TouchByClock(k) == now

\* GREATEST(CURRENT_TIMESTAMP, updated_at + INTERVAL '1 second').
Touch(k) == IF source[k].at < now THEN now ELSE source[k].at + 1

\* Key k is stamped t, whatever its updated_at was.
Stamp(k, t) ==
    overtaken' = IF \E u \in history : u.pk = k /\ u.at >= t
                 THEN overtaken \cup {k} ELSE overtaken \ {k}

\* insert_late_claim, insert_late_existing_claim: ON CONFLICT DO NOTHING.
InsertLate(k, t) ==
    /\ source[k] = None
    /\ Commit(WithRow(k, t, "initial"))
    /\ UNCHANGED <<now, overtaken>>

\* mutate_late_existing_claim: only while the amount is the first one.
MutateLateExisting ==
    /\ source[LateExisting] # None /\ source[LateExisting].body = "initial"
    /\ Commit(WithRow(LateExisting, RevisedAt, "changed"))
    /\ UNCHANGED <<now, overtaken>>

\* insert_transaction_failure_claim, and mode insert of the CDC demo.
InsertAtClock(k) ==
    /\ source[k] = None
    /\ UseClock
    /\ Commit(WithRow(k, now, "initial"))
    /\ UNCHANGED overtaken

\* soft_delete_claim: only while it is not deleted.
SoftDeleteClaim ==
    /\ source[DqClaim] # None /\ source[DqClaim].body # "deleted"
    /\ UseClock
    /\ Touch(DqClaim) <= MaxTime
    /\ Commit(WithRow(DqClaim, Touch(DqClaim), "deleted"))
    /\ UNCHANGED overtaken

\* inject_invalid_payment: ON CONFLICT DO UPDATE.
InjectInvalidPayment ==
    /\ source[DqClaim] # None
    /\ UseClock
    /\ IF source[DqPayment] = None
       THEN Commit(WithRow(DqPayment, now, "initial"))
       ELSE /\ Touch(DqPayment) <= MaxTime
            /\ Commit(WithRow(DqPayment, Touch(DqPayment), "initial"))
    /\ UNCHANGED overtaken

RepairInvalidPayment ==
    /\ source[DqPayment] # None
    /\ UseClock
    /\ Touch(DqPayment) <= MaxTime
    /\ Commit(WithRow(DqPayment, Touch(DqPayment), "changed"))
    /\ UNCHANGED overtaken

\* apply_customer_history_demo.run: another province raises.
ApplyCustomerHistory ==
    /\ source[Customer] # None /\ source[Customer].body = "initial"
    /\ Commit(WithRow(Customer, EventAt, "changed"))
    /\ Stamp(Customer, EventAt)
    /\ UNCHANGED now

\* apply_t4_demo.run: claim and payment in one transaction, which raises when
\* an amount of either is not the expected one.
ApplyT4 ==
    /\ source[T4Claim] # None /\ source[T4Claim].body # "other"
    /\ \A v \in {source[T4Payment]} \ {None} : v.body = "initial"
    /\ LET pay  == [pk |-> T4Payment, at |-> EventAt, body |-> "initial"]
           paid == [pk |-> T4Claim, at |-> EventAt, body |-> "changed"]
       IN  /\ Commit([source EXCEPT
                ![T4Claim] = IF source[T4Claim].body = "changed" THEN @ ELSE paid,
                ![T4Payment] = IF source[T4Payment] = None THEN pay ELSE @])
           /\ IF source[T4Claim].body = "changed"
              THEN UNCHANGED overtaken
              ELSE Stamp(T4Claim, EventAt)
    /\ UNCHANGED now

\* Mode update of the CDC demo.
CdcUpdate ==
    /\ source[CdcClaim] # None
    /\ UseClock
    /\ Commit(WithRow(CdcClaim, now, "changed"))
    /\ UNCHANGED overtaken

\* Mode delete of the CDC demo: a physical DELETE.
CdcDelete ==
    /\ source[CdcClaim] # None
    /\ Commit([source EXCEPT ![CdcClaim] = None])
    /\ UNCHANGED <<now, overtaken>>

\* The application takes a row of a demo back, as the clock stands.
Update(k) ==
    /\ source[k] # None
    /\ UseClock
    /\ Commit(WithRow(k, now, "initial"))
    /\ Stamp(k, now)

-----------------------------------------------------------------------------
(* Passes: run_ingestion.run and reconcile_source_state.run.                *)

BeginPass(kind) ==
    /\ pass = "none"
    /\ pass' = kind /\ pos' = 1
    /\ quiet' = TRUE
    /\ UNCHANGED <<source, now, raw, ids, mark, loading, history, late, jumped,
                   overtaken, settled, writes, loads>>

\* Mutant of Selected: a reconciliation trusts the watermark, too.
SelectedPastMark == Incremental(Rows(pos), mark[pos])

\* What the pass reads of its table.
Selected == IF pass = "ingest" THEN Incremental(Rows(pos), mark[pos]) ELSE Rows(pos)

\* Mutant of Unrepresented: a key is taken to be captured once and for all.
UnseenKeys == {v \in Selected : \A u \in Captured : u.pk # v.pk}

\* Mutant of Unrepresented: no anti-join against RAW.
AllSelected == Selected

\* The versions the MERGE finds no record of.
Unrepresented == Selected \ Captured

\* Mutant of LastTable: the loop runs past the end of TABLES.
BeyondLast == pos > NumTables

LastTable == pos = NumTables

\* One table's batch commits.  A batch has one version of a key at most, so its
\* records may share an id here.
CaptureTable ==
    /\ pass # "none"
    /\ raw' = raw \cup {[ver |-> v, rid |-> ids] : v \in Unrepresented}
    /\ ids' = IF Unrepresented = {} THEN ids ELSE ids + 1
    /\ \E w \in NewestWatermark(Selected, mark[pos]) : mark' = [mark EXCEPT ![pos] = w]
    /\ IF LastTable
       THEN /\ pass' = "none" /\ pos' = 1 /\ quiet' = FALSE
            /\ settled' = (settled \/ (pass = "reconcile" /\ quiet))
       ELSE pos' = pos + 1 /\ UNCHANGED <<pass, quiet, settled>>
    /\ UNCHANGED <<source, now, loading, history, late, jumped, overtaken, writes, loads>>

\* A table's batch fails and ends the pass.
PassFails ==
    /\ pass # "none"
    /\ pass' = "none" /\ pos' = 1 /\ quiet' = FALSE
    /\ UNCHANGED <<source, now, raw, ids, mark, loading, history, late, jumped,
                   overtaken, settled, writes, loads>>

-----------------------------------------------------------------------------
(* load_verified_claim_history.sql: statements that commit one by one.      *)

LoadRaw ==
    /\ ~loading /\ loads < MaxLoads
    /\ raw' = raw \cup {[ver |-> v, rid |-> ids] : v \in HistoryVersions \ Captured}
    /\ ids' = ids + 1
    /\ loading' = TRUE
    /\ loads' = loads + 1
    /\ UNCHANGED <<source, now, mark, passes, history, late, jumped, overtaken,
                   quiet, settled, writes>>

LoadMark ==
    /\ loading
    /\ LET t == TableOf[T4Claim]
           m == [pk |-> T4Claim, at |-> HistoryAt]
       IN  /\ mark' = [mark EXCEPT ![t] = m]
           /\ jumped' = jumped \cup {v \in Rows(t) \ Captured : ~After(PgRank, v, m)}
    /\ loading' = FALSE
    /\ UNCHANGED <<source, now, raw, ids, passes, history, late, overtaken, quiet,
                   settled, writes, loads>>

\* The load ends after its first statements.
LoadStops ==
    /\ loading
    /\ loading' = FALSE
    /\ UNCHANGED <<source, now, raw, ids, mark, passes, history, late, jumped,
                   overtaken, quiet, settled, writes, loads>>

-----------------------------------------------------------------------------
Script ==
    \/ InsertLate(LateClaim, LateAt) \/ InsertLate(LateExisting, LateExistingAt)
    \/ MutateLateExisting
    \/ \E k \in {TxnClaim, CdcClaim} : InsertAtClock(k)
    \/ SoftDeleteClaim \/ InjectInvalidPayment \/ RepairInvalidPayment
    \/ ApplyCustomerHistory \/ ApplyT4
    \/ CdcUpdate \/ CdcDelete

Next ==
    \/ Script
    \/ \E k \in {Customer, T4Claim} : Update(k)
    \/ \E kind \in {"ingest", "reconcile"} : BeginPass(kind)
    \/ CaptureTable \/ PassFails
    \/ LoadRaw \/ LoadMark \/ LoadStops

Spec == Init /\ [][Next]_vars

-----------------------------------------------------------------------------
(* Properties.                                                              *)

\* current_raw_records: the newest records of a key, by updated_at and id.
Staged(k) ==
    {r.ver : r \in {s \in raw : /\ s.ver.pk = k
                                /\ \A u \in raw : u.ver.pk = k =>
                                     \/ u.ver.at < s.ver.at
                                     \/ u.ver.at = s.ver.at /\ u.rid <= s.rid}}

\* Rows whose staged version need not be the source's: stamped behind an earlier
\* version, or not after a version the history load brings.
Shadowed(k) ==
    \/ k \in overtaken
    \/ \E v \in HistoryVersions : v.pk = k /\ v.at >= source[k].at

\* Once the current version of a row is in RAW, staging shows it and nothing
\* else, whatever order versions were captured in, wherever the clock stood and
\* although the row's updated_at may lie in the clock's future.  The exceptions
\* are rows stamped without a look at their own updated_at.
StagingFollowsSource ==
    \A k \in Keys : source[k] # None /\ source[k] \in Captured /\ ~Shadowed(k) =>
        Staged(k) = {source[k]}

\* A current version behind the watermark of its table that RAW lacks was late
\* when it was written, or the history load moved the watermark over it: nothing
\* else is ever skipped.
MissedIsExplained ==
    \A v \in Current(source) \ Captured :
        LET m == mark[TableOf[v.pk]]
        IN  m # None /\ ~After(PgRank, v, m) => v \in late \cup jumped

LiveStaged == {k \in Keys : \E v \in Staged(k) : v.body # "deleted"}

LiveSource == {k \in Keys : source[k] # None /\ source[k].body # "deleted"}

\* After a complete reconciliation with no write since it began, RAW holds every
\* row of the source, late and jumped-over ones too, and the keys staging shows
\* as not deleted are those of the source and those that were physically deleted
\* after they had been captured, which stay for good.
ReconciliationMirrors ==
    settled =>
        /\ Current(source) \subseteq Captured
        /\ LiveStaged = LiveSource \cup {v.pk : v \in {u \in Captured : source[u.pk] = None}}

\* From then on no pass inserts a record, even after the history load has moved
\* the watermark back.
ReplayInsertsNothing ==
    [][settled /\ CaptureTable => raw' = raw]_vars
=============================================================================
