-------------------------- MODULE BatchIngestion_proofs --------------------------
(***************************************************************************)
(* Proofs about BatchIngestion, for any number of runs of either kind, any *)
(* finite set of keys, any rankings of the keys, and any kinds and number  *)
(* of failures.                                                            *)
(***************************************************************************)
EXTENDS BatchIngestion, FiniteSetTheorems, TLAPS

-----------------------------------------------------------------------------
(* Facts about the operators of VersionOrder.                               *)

\* The rows of a table with finitely many keys are finitely many.
LEMMA CurrentFinite ==
    ASSUME NEW s \in [Keys -> Version \cup {None}]
    PROVE  IsFiniteSet(Current(s)) /\ Current(s) \subseteq Version
<1>1. IsFiniteSet({s[k] : k \in Keys})
  <2>1. [k \in Keys |-> s[k]] \in Surjection(Keys, {s[k] : k \in Keys})
    BY DEF Surjection
  <2> QED BY <2>1, KeysFinite, FS_Surjection
<1>2. Current(s) \in SUBSET {s[k] : k \in Keys}
  BY DEF Current
<1>3. IsFiniteSet(Current(s))
  BY <1>1, <1>2, FS_Subset
<1> QED BY <1>3 DEF Current

\* A new watermark is the old one or the position of a candidate: whatever
\* Python's ordering of the keys, max never invents a position.
LEMMA NewestIsKnown ==
    ASSUME NEW records \in SUBSET Version, NEW fallback \in Watermark,
           NEW w \in NewestWatermark(records, fallback)
    PROVE  /\ w \in Watermark
           /\ w = fallback \/ \E v \in records : w = PosOf(v)
<1>1. CASE records = {}
  BY <1>1 DEF NewestWatermark
<1>2. CASE records # {}
  <2>1. PICK v \in Latest(records) : w = MaxWatermark(fallback, PosOf(v))
    BY <1>2 DEF NewestWatermark
  <2>2. v \in records /\ v \in Version
    BY <2>1 DEF Latest
  <2>3. PosOf(v) \in Watermark
    BY <2>2 DEF PosOf, Version, Position, Watermark
  <2>4. w = fallback \/ w = PosOf(v)
    BY <2>1, SMT DEF MaxWatermark
  <2> QED BY <2>2, <2>3, <2>4
<1> QED BY <1>1, <1>2

-----------------------------------------------------------------------------
(* Type correctness.                                                        *)

\* TypeOK needs to know that what a run holds is finite, so that it can be
\* counted, and that retry_call enters an attempt only while one is left.
TypeInv ==
    /\ TypeOK
    /\ \A r \in Runs : IsFiniteSet(cands[r]) /\ IsFiniteSet(stage[r])
    /\ \A r \in Runs :
          pc[r] \in {"idle", "count", "extract", "start", "stage"} => attempt[r] = 0
    /\ \A r \in Runs : pc[r] = "begin" => attempt[r] < MaxAttempts

LEMMA TypeInit == Init => TypeInv
<1> SUFFICES ASSUME Init PROVE TypeInv
  OBVIOUS
<1>1. TypeOK
  BY BoundsNat DEF Init, TypeOK, Phases, Transaction, Finished, Statuses, NoWrites, Watermark
<1>2. IsFiniteSet({})
  BY FS_EmptySet
<1> QED BY <1>1, <1>2, BoundsNat DEF Init, TypeInv

LEMMA TypeStep == TypeInv /\ [Next]_vars => TypeInv'
<1> SUFFICES ASSUME TypeInv, [Next]_vars PROVE TypeInv'
  OBVIOUS
<1> USE DEF TypeInv, TypeOK, pgVars, locals, tries, Phases, Transaction, Finished
<1>1. ASSUME NEW v \in Version, WriteSource(v) PROVE TypeInv'
  <2>1. v.pk \in Keys
    BY DEF Version
  <2> QED BY <1>1, <2>1, BoundsNat DEF WriteSource
<1>2. ASSUME NEW k \in Keys, DeleteSource(k) PROVE TypeInv'
  BY <1>2, BoundsNat DEF DeleteSource
<1>3. ASSUME NEW r \in Runs, ReadWatermark(r) PROVE TypeInv'
  BY <1>3 DEF ReadWatermark
<1>4. ASSUME NEW r \in Runs, SourceCount(r) PROVE TypeInv'
  <2>1. Cardinality(Current(source)) \in Nat
    BY CurrentFinite, FS_CardinalityType
  <2> QED BY <1>4, <2>1 DEF SourceCount
<1>5. ASSUME NEW r \in Runs, Extract(r) PROVE TypeInv'
  <2>1. /\ Cardinality(Current(source)) \in Nat
        /\ IsFiniteSet(Current(source)) /\ Current(source) \subseteq Version
    BY CurrentFinite, FS_CardinalityType
  <2>2. Incremental(Current(source), before[r]) \in SUBSET Current(source)
    BY DEF Incremental
  <2>3. IsFiniteSet(Incremental(Current(source), before[r]))
    BY <2>1, <2>2, FS_Subset
  <2>4. PICK rows \in SUBSET Current(source) :
            /\ IsFiniteSet(rows)
            /\ cands' = [cands EXCEPT ![r] = rows]
    BY <1>5, <2>1, <2>2, <2>3, Zenon DEF Extract, ExtractIncrement, ExtractAll
  <2>5. /\ cands' \in [Runs -> SUBSET Version]
        /\ \A q \in Runs : IsFiniteSet(cands'[q])
        /\ cands'[r] \in SUBSET Version
    BY <2>1, <2>4
  <2>6. counted' \in [Runs -> Nat]
    BY <1>5, <2>1 DEF Extract, ExtractIncrement, ExtractAll
  <2>7. PICK w \in NewestWatermark(cands'[r], before[r]) :
            after' = [after EXCEPT ![r] = w]
    BY <1>5 DEF Extract
  <2>8. w \in Watermark
    BY <2>5, <2>7, NewestIsKnown
  <2>9. after' \in [Runs -> Watermark]
    BY <2>7, <2>8
  <2> QED BY <1>5, <2>5, <2>6, <2>9 DEF Extract
<1>6. ASSUME NEW r \in Runs, WriteBatchStarted(r) PROVE TypeInv'
  BY <1>6 DEF WriteBatchStarted, Statuses
<1>7. ASSUME NEW r \in Runs, StageRecords(r) PROVE TypeInv'
  BY <1>7, BoundsNat DEF StageRecords
<1>8. ASSUME NEW r \in Runs, CountUnrepresented(r) PROVE TypeInv'
  <2>1. stage[r] \ Captured \in SUBSET stage[r]
    OBVIOUS
  <2>2. Cardinality(stage[r] \ Captured) \in Nat
    BY <2>1, FS_Subset, FS_CardinalityType
  <2> QED BY <1>8, <2>2, BoundsNat DEF CountUnrepresented
<1>9. ASSUME NEW r \in Runs, MergeRaw(r) PROVE TypeInv'
  <2>1. {[ver |-> v, batch |-> r] : v \in stage[r] \ Captured} \in SUBSET Row
    BY DEF Row
  <2> QED BY <1>9, <2>1 DEF MergeRaw
<1>10. ASSUME NEW r \in Runs, CheckPasses(r) PROVE TypeInv'
  BY <1>10 DEF CheckPasses
<1>11. ASSUME NEW r \in Runs, CheckFails(r) PROVE TypeInv'
  BY <1>11 DEF CheckFails, Rollback, NoWrites, Watermark
<1>12. ASSUME NEW r \in Runs, WriteWatermark(r) PROVE TypeInv'
  BY <1>12 DEF WriteWatermark
<1>13. ASSUME NEW r \in Runs, FinalizeSuccess(r) PROVE TypeInv'
  BY <1>13 DEF FinalizeSuccess
<1>14. ASSUME NEW r \in Runs, ApplyCommit(r)
       PROVE /\ raw' \subseteq Row
             /\ mark' \in Watermark
             /\ audit' \in [Runs -> [status : Statuses, rowsInserted : Nat]]
             /\ lock' \in Runs \cup {None}
             /\ txn' \in [Runs -> [rows : SUBSET Row, mark : Watermark, success : BOOLEAN]]
  BY <1>14 DEF ApplyCommit, NoWrites, Statuses, Watermark
<1>15. ASSUME NEW r \in Runs, Commit(r) PROVE TypeInv'
  BY <1>14, <1>15 DEF Commit
<1>16. ASSUME NEW r \in Runs, CommitAckLost(r) PROVE TypeInv'
  <2>1. faults' \in 0..MaxFaults
    BY <1>16, BoundsNat DEF CommitAckLost, Fault
  <2>2. PICK next \in {"begin", "fail"} :
            /\ pc' = [pc EXCEPT ![r] = next]
            /\ next = "begin" => attempt[r] < MaxAttempts
    BY <1>16 DEF CommitAckLost, RetryOrFail
  <2> QED BY <1>14, <1>16, <2>1, <2>2 DEF CommitAckLost
<1>17. ASSUME NEW r \in Runs, CleanupStage(r) PROVE TypeInv'
  BY <1>17, FS_EmptySet DEF CleanupStage
<1>18. ASSUME NEW r \in Runs, FinalizeFailure(r) PROVE TypeInv'
  BY <1>18 DEF FinalizeFailure, AfterFailureAudit, Statuses
<1>19. ASSUME NEW r \in Runs, FailureCleanup(r) PROVE TypeInv'
  BY <1>19, FS_EmptySet DEF FailureCleanup
<1>20. ASSUME NEW r \in Runs, StatementFails(r) PROVE TypeInv'
  <2>1. faults' \in 0..MaxFaults
    BY <1>20, BoundsNat DEF StatementFails, Fault
  <2>2. /\ txn' \in [Runs -> [rows : SUBSET Row, mark : Watermark, success : BOOLEAN]]
        /\ lock' \in Runs \cup {None}
    BY <1>20 DEF StatementFails, Rollback, NoWrites, Watermark
  <2>3. PICK next \in {"begin", "fail"}, n \in 0..MaxAttempts :
            /\ pc' = [pc EXCEPT ![r] = next]
            /\ attempt' = [attempt EXCEPT ![r] = n]
            /\ next = "begin" => n < MaxAttempts
    <3>1. CASE pc[r] = "begin"
      <4>1. attempt[r] + 1 \in 0..MaxAttempts
        BY <3>1, BoundsNat
      <4>2. CASE attempt[r] + 1 < MaxAttempts /\ UNCHANGED pc
        <5>1. pc' = [pc EXCEPT ![r] = "begin"]
          BY <3>1, <4>2
        <5> QED BY <1>20, <3>1, <4>1, <4>2, <5>1 DEF StatementFails
      <4>3. CASE pc' = [pc EXCEPT ![r] = "fail"]
        BY <1>20, <3>1, <4>1, <4>3 DEF StatementFails
      <4> QED BY <1>20, <3>1, <4>2, <4>3 DEF StatementFails
    <3>2. CASE pc[r] # "begin"
      <4>1. attempt' = [attempt EXCEPT ![r] = attempt[r]]
        BY <1>20, <3>2 DEF StatementFails
      <4>2. RetryOrFail(r)
        BY <1>20, <3>2 DEF StatementFails
      <4> QED BY <4>1, <4>2 DEF RetryOrFail
    <3> QED BY <3>1, <3>2
  <2>4. /\ pc[r] \in Transaction
        /\ UNCHANGED <<pgVars, raw, mark, audit, stage, locals, inserted, writes>>
    BY <1>20 DEF StatementFails
  <2> QED BY <2>1, <2>2, <2>3, <2>4
<1>21. ASSUME NEW r \in Runs, StageFails(r) PROVE TypeInv'
  <2>1. PICK part \in SUBSET cands[r] : stage' = [stage EXCEPT ![r] = part]
    BY <1>21 DEF StageFails
  <2>2. IsFiniteSet(part)
    BY <2>1, FS_Subset
  <2> QED BY <1>21, <2>1, <2>2, BoundsNat DEF StageFails, Fault
<1>22. ASSUME NEW r \in Runs, CleanupFails(r) PROVE TypeInv'
  <2>1. PICK rest \in {stage[r], {}} : stage' = [stage EXCEPT ![r] = rest]
    BY <1>22 DEF CleanupFails
  <2>2. IsFiniteSet(rest) /\ rest \in SUBSET Version
    BY <2>1, FS_EmptySet
  <2> QED BY <1>22, <2>1, <2>2, BoundsNat DEF CleanupFails, Fault
<1>23. ASSUME NEW r \in Runs, FinalizeFailureFails(r) PROVE TypeInv'
  BY <1>23, BoundsNat DEF FinalizeFailureFails, Fault
<1>24. ASSUME NEW r \in Runs, FailureCleanupFails(r) PROVE TypeInv'
  BY <1>24, BoundsNat DEF FailureCleanupFails, Fault
<1>25. ASSUME NEW r \in Runs, Crash(r) PROVE TypeInv'
  BY <1>25, BoundsNat DEF Crash, Fault
<1>26. ASSUME NEW r \in Runs, ServerAbort(r) PROVE TypeInv'
  BY <1>26 DEF ServerAbort, Rollback, NoWrites, Watermark
<1>27. CASE UNCHANGED vars
  BY <1>27 DEF vars
<1> QED
  BY <1>1, <1>2, <1>3, <1>4, <1>5, <1>6, <1>7, <1>8, <1>9, <1>10, <1>11, <1>12,
     <1>13, <1>15, <1>16, <1>17, <1>18, <1>19, <1>20, <1>21, <1>22, <1>23, <1>24,
     <1>25, <1>26, <1>27
  DEF Next, SourceStep, RunStep, RunFault

\* Every variable keeps its type; in particular no run makes more than
\* MaxAttempts attempts.
THEOREM TypeCorrect == Spec => []TypeOK
<1>1. TypeInv => TypeOK
  BY DEF TypeInv
<1> QED BY <1>1, TypeInit, TypeStep, PTL DEF Spec

-----------------------------------------------------------------------------
(* The inductive invariant.                                                 *)

\* The phases in which a run holds the lock on RAW.
Locked == {"check", "watermark", "finalize", "commit"}

\* What a run holds agrees with where it is: before the batch exists there is
\* no audit; in the transaction the stage holds the candidates; before the
\* MERGE the transaction has written nothing.
PhaseInv ==
    \A r \in Runs :
        /\ pc[r] \in {"idle", "count", "extract", "start"} => audit[r].status = "NONE"
        /\ pc[r] \in Transaction => stage[r] = cands[r]
        /\ pc[r] \notin Locked \cup {"crashed"} => txn[r] = NoWrites

\* From its MERGE to its COMMIT a run owns the lock; its uncommitted rows are
\* the staged versions that RAW lacks, and all of those.
MergeInv ==
    \A r \in Runs : pc[r] \in Locked =>
        /\ lock = r
        /\ stage[r] \subseteq Captured \cup VersionsOf(txn[r].rows)
        /\ VersionsOf(txn[r].rows) \subseteq stage[r] \ Captured
        /\ \A row \in txn[r].rows : row.batch = r
        /\ txn[r].mark \in {None, after[r]}

\* Everything downstream comes from the history of the table.
ProvenanceInv ==
    /\ \A k \in Keys : source[k] # None => source[k] \in history
    /\ Captured \subseteq history
    /\ \A r \in Runs : cands[r] \subseteq history

\* m is no position at all or the position of a version in S.
Known(m, S) == m # None => \E v \in S : PosOf(v) = m

\* No current in-order version at or before m is missing from S.
Complete(m, S) ==
    \A v \in Current(source) \ late : m # None /\ ~After(PgRank, v, m) => v \in S

\* The committed watermark, the one a run started from and the one it is going
\* to write all stand at known versions and leave no hole behind them.  The
\* last counts the run's candidates as captured, since both commit together.
WatermarkInv ==
    /\ Known(mark, Captured) /\ Complete(mark, Captured)
    /\ \A r \in Runs :
          /\ Known(before[r], Captured) /\ Complete(before[r], Captured)
          /\ Known(after[r], Captured \cup cands[r])
          /\ Complete(after[r], Captured \cup cands[r])

IInv ==
    /\ TypeInv
    /\ PhaseInv
    /\ MergeInv
    /\ ProvenanceInv
    /\ WatermarkInv
    /\ RawUnique
    /\ SuccessCaptures

LEMMA PhaseStep == TypeInv /\ PhaseInv /\ [Next]_vars => PhaseInv'
<1> SUFFICES ASSUME TypeInv, PhaseInv, [Next]_vars PROVE PhaseInv'
  OBVIOUS
<1> USE DEF TypeInv, TypeOK, PhaseInv, pgVars, locals, tries, Transaction, Locked, NoWrites
<1>1. ASSUME NEW v \in Version, WriteSource(v) PROVE PhaseInv'
  BY <1>1 DEF WriteSource
<1>2. ASSUME NEW k \in Keys, DeleteSource(k) PROVE PhaseInv'
  BY <1>2 DEF DeleteSource
<1>3. ASSUME NEW r \in Runs, ReadWatermark(r) PROVE PhaseInv'
  BY <1>3 DEF ReadWatermark
<1>4. ASSUME NEW r \in Runs, SourceCount(r) PROVE PhaseInv'
  BY <1>4 DEF SourceCount
<1>5. ASSUME NEW r \in Runs, Extract(r) PROVE PhaseInv'
  <2>1. PICK rows : cands' = [cands EXCEPT ![r] = rows]
    BY <1>5 DEF Extract, ExtractIncrement, ExtractAll
  <2>2. /\ pc[r] = "extract" /\ pc' = [pc EXCEPT ![r] = "start"]
        /\ UNCHANGED <<audit, stage, txn>>
    BY <1>5 DEF Extract
  <2> QED BY <2>1, <2>2
<1>6. ASSUME NEW r \in Runs, WriteBatchStarted(r) PROVE PhaseInv'
  BY <1>6 DEF WriteBatchStarted
<1>7. ASSUME NEW r \in Runs, StageRecords(r) PROVE PhaseInv'
  BY <1>7 DEF StageRecords
<1>8. ASSUME NEW r \in Runs, CountUnrepresented(r) PROVE PhaseInv'
  BY <1>8 DEF CountUnrepresented
<1>9. ASSUME NEW r \in Runs, MergeRaw(r) PROVE PhaseInv'
  BY <1>9 DEF MergeRaw
<1>10. ASSUME NEW r \in Runs, CheckPasses(r) PROVE PhaseInv'
  BY <1>10 DEF CheckPasses
<1>11. ASSUME NEW r \in Runs, CheckFails(r) PROVE PhaseInv'
  BY <1>11 DEF CheckFails, Rollback
<1>12. ASSUME NEW r \in Runs, WriteWatermark(r) PROVE PhaseInv'
  BY <1>12 DEF WriteWatermark
<1>13. ASSUME NEW r \in Runs, FinalizeSuccess(r) PROVE PhaseInv'
  BY <1>13 DEF FinalizeSuccess
<1>14. ASSUME NEW r \in Runs, Commit(r) PROVE PhaseInv'
  BY <1>14 DEF Commit, ApplyCommit
<1>15. ASSUME NEW r \in Runs, CleanupStage(r) PROVE PhaseInv'
  BY <1>15 DEF CleanupStage
<1>16. ASSUME NEW r \in Runs, FinalizeFailure(r) PROVE PhaseInv'
  BY <1>16 DEF FinalizeFailure, AfterFailureAudit
<1>17. ASSUME NEW r \in Runs, FailureCleanup(r) PROVE PhaseInv'
  BY <1>17 DEF FailureCleanup
<1>18. ASSUME NEW r \in Runs, StatementFails(r) PROVE PhaseInv'
  BY <1>18 DEF StatementFails, Rollback, RetryOrFail
<1>19. ASSUME NEW r \in Runs, CommitAckLost(r) PROVE PhaseInv'
  BY <1>19 DEF CommitAckLost, ApplyCommit, RetryOrFail
<1>20. ASSUME NEW r \in Runs, StageFails(r) PROVE PhaseInv'
  BY <1>20 DEF StageFails
<1>21. ASSUME NEW r \in Runs, CleanupFails(r) PROVE PhaseInv'
  BY <1>21 DEF CleanupFails
<1>22. ASSUME NEW r \in Runs, FinalizeFailureFails(r) PROVE PhaseInv'
  BY <1>22 DEF FinalizeFailureFails
<1>23. ASSUME NEW r \in Runs, FailureCleanupFails(r) PROVE PhaseInv'
  BY <1>23 DEF FailureCleanupFails
<1>24. ASSUME NEW r \in Runs, Crash(r) PROVE PhaseInv'
  BY <1>24 DEF Crash
<1>25. ASSUME NEW r \in Runs, ServerAbort(r) PROVE PhaseInv'
  BY <1>25 DEF ServerAbort, Rollback
<1>26. CASE UNCHANGED vars
  BY <1>26 DEF vars
<1> QED
  BY <1>1, <1>2, <1>3, <1>4, <1>5, <1>6, <1>7, <1>8, <1>9, <1>10, <1>11, <1>12, <1>13, <1>14, <1>15, <1>16, <1>17, <1>18, <1>19, <1>20, <1>21, <1>22, <1>23, <1>24, <1>25, <1>26
  DEF Next, SourceStep, RunStep, RunFault

\* The rows a batch would insert for the versions S hold exactly S.
LEMMA VersionsOfBatch ==
    ASSUME NEW S, NEW r, NEW rows,
           \A row : row \in rows <=> \E v \in S : row = [ver |-> v, batch |-> r]
    PROVE  /\ VersionsOf(rows) = S
           /\ \A row \in rows : row.batch = r
<1>1. ASSUME NEW v \in S PROVE v \in VersionsOf(rows)
  <2>1. [ver |-> v, batch |-> r] \in rows /\ [ver |-> v, batch |-> r].ver = v
    OBVIOUS
  <2> QED BY <2>1 DEF VersionsOf
<1>2. ASSUME NEW v \in VersionsOf(rows) PROVE v \in S
  <2>1. PICK row \in rows : v = row.ver
    BY DEF VersionsOf
  <2> QED BY <2>1
<1> QED BY <1>1, <1>2

LEMMA MergeStep == TypeInv /\ PhaseInv /\ MergeInv /\ [Next]_vars => MergeInv'
<1> SUFFICES ASSUME TypeInv, PhaseInv, MergeInv, [Next]_vars PROVE MergeInv'
  OBVIOUS
<1> USE DEF TypeInv, TypeOK, PhaseInv, MergeInv, pgVars, locals, tries, Transaction,
            Locked, NoWrites, Captured, VersionsOf
<1>1. ASSUME NEW v \in Version, WriteSource(v) PROVE MergeInv'
  BY <1>1 DEF WriteSource
<1>2. ASSUME NEW k \in Keys, DeleteSource(k) PROVE MergeInv'
  BY <1>2 DEF DeleteSource
<1>3. ASSUME NEW r \in Runs, ReadWatermark(r) PROVE MergeInv'
  BY <1>3 DEF ReadWatermark
<1>4. ASSUME NEW r \in Runs, SourceCount(r) PROVE MergeInv'
  BY <1>4 DEF SourceCount
<1>5. ASSUME NEW r \in Runs, Extract(r) PROVE MergeInv'
  BY <1>5 DEF Extract
<1>6. ASSUME NEW r \in Runs, WriteBatchStarted(r) PROVE MergeInv'
  BY <1>6 DEF WriteBatchStarted
<1>7. ASSUME NEW r \in Runs, StageRecords(r) PROVE MergeInv'
  BY <1>7 DEF StageRecords
<1>8. ASSUME NEW r \in Runs, CountUnrepresented(r) PROVE MergeInv'
  BY <1>8 DEF CountUnrepresented
<1>9. ASSUME NEW r \in Runs, MergeRaw(r) PROVE MergeInv'
  <2>1. /\ pc[r] = "merge" /\ txn[r] = NoWrites /\ lock = None /\ lock' = r
        /\ pc' = [pc EXCEPT ![r] = "check"]
        /\ UNCHANGED <<raw, stage, after>>
    BY <1>9 DEF MergeRaw
  <2>2. ASSUME NEW q \in Runs, q # r PROVE pc'[q] \notin Locked
    BY <2>1, <2>2, NoneNotRun
  <2>3. /\ txn'[r].rows = {[ver |-> v, batch |-> r] : v \in stage[r] \ Captured}
        /\ txn'[r].mark = None
    BY <1>9, <2>1 DEF MergeRaw
  <2>4. VersionsOf(txn'[r].rows) = stage[r] \ Captured
    <3> DEFINE new == stage[r] \ Captured
               rows == txn'[r].rows
    <3>1. \A row : row \in rows <=> \E v \in new : row = [ver |-> v, batch |-> r]
      BY <2>3
    <3> HIDE DEF new, rows, VersionsOf
    <3>2. VersionsOf(rows) = new
      BY ONLY <3>1, VersionsOfBatch
    <3> QED BY <3>2 DEF new, rows
  <2>5. \A row \in txn'[r].rows : row.batch = r
    BY <2>3
  <2>6. Captured' = Captured /\ VersionsOf(txn[r].rows)' = VersionsOf(txn'[r].rows)
    BY <2>1
  <2>7. /\ stage'[r] \subseteq Captured' \cup VersionsOf(txn[r].rows)'
        /\ VersionsOf(txn[r].rows)' \subseteq stage'[r] \ Captured'
    <3> HIDE DEF Captured, VersionsOf
    <3> QED BY <2>1, <2>4, <2>6
  <2> HIDE DEF Captured, VersionsOf
  <2> QED BY <2>1, <2>2, <2>3, <2>5, <2>7
<1>10. ASSUME NEW r \in Runs, CheckPasses(r) PROVE MergeInv'
  BY <1>10 DEF CheckPasses
<1>11. ASSUME NEW r \in Runs, CheckFails(r) PROVE MergeInv'
  BY <1>11 DEF CheckFails, Rollback
<1>12. ASSUME NEW r \in Runs, WriteWatermark(r) PROVE MergeInv'
  <2>1. PICK m \in {txn[r].mark, after[r]} :
            txn' = [txn EXCEPT ![r].mark = m]
    <3>1. txn = [txn EXCEPT ![r].mark = txn[r].mark]
      OBVIOUS
    <3> QED BY <1>12, <3>1 DEF WriteWatermark
  <2>2. /\ \A q \in Runs : txn'[q].rows = txn[q].rows
        /\ \A q \in Runs : txn'[q].mark \in {txn[q].mark, after[q]}
    BY <2>1
  <2>3. /\ pc[r] = "watermark" /\ pc' = [pc EXCEPT ![r] = "finalize"]
        /\ UNCHANGED <<raw, lock, stage, after>>
    BY <1>12 DEF WriteWatermark
  <2> QED BY <2>2, <2>3
<1>13. ASSUME NEW r \in Runs, FinalizeSuccess(r) PROVE MergeInv'
  <2>1. /\ \A q \in Runs : txn'[q].rows = txn[q].rows
        /\ \A q \in Runs : txn'[q].mark = txn[q].mark
    BY <1>13 DEF FinalizeSuccess
  <2>2. /\ pc[r] = "finalize" /\ pc' = [pc EXCEPT ![r] = "commit"]
        /\ UNCHANGED <<raw, lock, stage, after>>
    BY <1>13 DEF FinalizeSuccess
  <2> QED BY <2>1, <2>2
<1>14. ASSUME NEW r \in Runs, Commit(r) PROVE MergeInv'
  BY <1>14 DEF Commit, ApplyCommit
<1>15. ASSUME NEW r \in Runs, CleanupStage(r) PROVE MergeInv'
  BY <1>15 DEF CleanupStage
<1>16. ASSUME NEW r \in Runs, FinalizeFailure(r) PROVE MergeInv'
  BY <1>16 DEF FinalizeFailure, AfterFailureAudit
<1>17. ASSUME NEW r \in Runs, FailureCleanup(r) PROVE MergeInv'
  BY <1>17 DEF FailureCleanup
<1>18. ASSUME NEW r \in Runs, StatementFails(r) PROVE MergeInv'
  <2>1. pc'[r] \notin Locked
    BY <1>18 DEF StatementFails, RetryOrFail
  <2>2. \A q \in Runs : q # r => pc'[q] = pc[q] /\ txn'[q] = txn[q]
    BY <1>18 DEF StatementFails, RetryOrFail, Rollback
  <2>3. /\ lock' = IF lock = r THEN None ELSE lock
        /\ UNCHANGED <<raw, stage, after>>
    BY <1>18 DEF StatementFails, Rollback
  <2> QED BY <2>1, <2>2, <2>3
<1>19. ASSUME NEW r \in Runs, CommitAckLost(r) PROVE MergeInv'
  BY <1>19 DEF CommitAckLost, ApplyCommit, RetryOrFail
<1>20. ASSUME NEW r \in Runs, StageFails(r) PROVE MergeInv'
  BY <1>20 DEF StageFails
<1>21. ASSUME NEW r \in Runs, CleanupFails(r) PROVE MergeInv'
  BY <1>21 DEF CleanupFails
<1>22. ASSUME NEW r \in Runs, FinalizeFailureFails(r) PROVE MergeInv'
  BY <1>22 DEF FinalizeFailureFails
<1>23. ASSUME NEW r \in Runs, FailureCleanupFails(r) PROVE MergeInv'
  BY <1>23 DEF FailureCleanupFails
<1>24. ASSUME NEW r \in Runs, Crash(r) PROVE MergeInv'
  BY <1>24 DEF Crash
<1>25. ASSUME NEW r \in Runs, ServerAbort(r) PROVE MergeInv'
  BY <1>25 DEF ServerAbort, Rollback
<1>26. CASE UNCHANGED vars
  BY <1>26 DEF vars
<1> QED
  BY <1>1, <1>2, <1>3, <1>4, <1>5, <1>6, <1>7, <1>8, <1>9, <1>10, <1>11, <1>12, <1>13, <1>14, <1>15, <1>16, <1>17, <1>18, <1>19, <1>20, <1>21, <1>22, <1>23, <1>24, <1>25, <1>26
  DEF Next, SourceStep, RunStep, RunFault

\* Only five kinds of step touch what the watermark speaks about.
Observable == <<source, history, late, raw, mark, before, cands, after>>

Applies(r) ==
    /\ pc[r] = "commit"
    /\ ApplyCommit(r)
    /\ UNCHANGED <<pgVars, locals>>

LEMMA StepKinds ==
    ASSUME [Next]_vars
    PROVE  \/ \E v \in Version : WriteSource(v)
           \/ \E k \in Keys : DeleteSource(k)
           \/ \E r \in Runs : ReadWatermark(r) \/ Extract(r) \/ Applies(r)
           \/ UNCHANGED Observable
<1> USE DEF Observable, pgVars, locals, tries
<1>1. CASE SourceStep
  BY <1>1 DEF SourceStep
<1>2. ASSUME NEW r \in Runs, RunStep(r)
      PROVE  ReadWatermark(r) \/ Extract(r) \/ Applies(r) \/ UNCHANGED Observable
  BY <1>2 DEF RunStep, SourceCount, WriteBatchStarted, StageRecords, CountUnrepresented,
     MergeRaw, CheckPasses, CheckFails, WriteWatermark, FinalizeSuccess, Commit,
     CleanupStage, FinalizeFailure, FailureCleanup, Applies
<1>3. ASSUME NEW r \in Runs, RunFault(r)
      PROVE  Applies(r) \/ UNCHANGED Observable
  BY <1>3 DEF RunFault, StatementFails, CommitAckLost, StageFails, CleanupFails,
     FinalizeFailureFails, FailureCleanupFails, Crash, Applies
<1>4. ASSUME NEW r \in Runs, ServerAbort(r) PROVE UNCHANGED Observable
  BY <1>4 DEF ServerAbort
<1>5. CASE UNCHANGED vars
  BY <1>5 DEF vars
<1> QED BY <1>1, <1>2, <1>3, <1>4, <1>5 DEF Next

\* What a commit adds to RAW: after it, all candidates of the run are captured.
LEMMA CommitCaptures ==
    ASSUME TypeInv, PhaseInv, MergeInv, NEW r \in Runs, Applies(r)
    PROVE  /\ Captured' = Captured \cup VersionsOf(txn[r].rows)
           /\ cands[r] \subseteq Captured'
           /\ Captured' \subseteq Captured \cup cands[r]
           /\ mark' \in {mark, after[r]}
<1>1. pc[r] \in Locked /\ stage[r] = cands[r]
  BY DEF Applies, Locked, PhaseInv, Transaction
<1>2. raw' = raw \cup txn[r].rows /\ mark' \in {mark, after[r]}
  BY <1>1 DEF Applies, ApplyCommit, MergeInv
<1>3. Captured' = Captured \cup VersionsOf(txn[r].rows)
  BY <1>2 DEF Captured, VersionsOf
<1>4. /\ stage[r] \subseteq Captured \cup VersionsOf(txn[r].rows)
      /\ VersionsOf(txn[r].rows) \subseteq stage[r]
  BY <1>1 DEF MergeInv
<1> QED BY <1>1, <1>2, <1>3, <1>4

\* The candidates of an extraction are current rows, and every current row is
\* among them or at or before the watermark the run started from.
LEMMA ExtractRows ==
    ASSUME TypeInv, NEW r \in Runs, Extract(r)
    PROVE  \E rows \in SUBSET Current(source) :
              /\ cands' = [cands EXCEPT ![r] = rows]
              /\ \A v \in Current(source) \ rows :
                    before[r] # None /\ ~After(PgRank, v, before[r])
<1>1. CASE ExtractIncrement(r)
  <2> DEFINE rows == Incremental(Current(source), before[r])
  <2>1. rows \in SUBSET Current(source)
    BY DEF Incremental
  <2>2. \A v \in Current(source) \ rows :
            before[r] # None /\ ~After(PgRank, v, before[r])
    BY DEF Incremental
  <2>3. cands' = [cands EXCEPT ![r] = rows]
    BY <1>1 DEF ExtractIncrement
  <2> HIDE DEF rows
  <2> QED BY <2>1, <2>2, <2>3
<1>2. CASE ExtractAll(r)
  <2>1. cands' = [cands EXCEPT ![r] = Current(source)]
    BY <1>2 DEF ExtractAll
  <2> QED BY <2>1
<1> QED BY <1>1, <1>2 DEF Extract

LEMMA ProvenanceStep ==
    TypeInv /\ PhaseInv /\ MergeInv /\ ProvenanceInv /\ [Next]_vars => ProvenanceInv'
<1> SUFFICES ASSUME TypeInv, PhaseInv, MergeInv, ProvenanceInv, [Next]_vars
             PROVE  ProvenanceInv'
  OBVIOUS
<1> USE DEF ProvenanceInv, pgVars, locals, tries
<1>1. ASSUME NEW v \in Version, WriteSource(v) PROVE ProvenanceInv'
  <2>1. v.pk \in Keys
    BY DEF Version
  <2> QED BY <1>1, <2>1 DEF WriteSource, TypeInv, TypeOK, Captured, VersionsOf
<1>2. ASSUME NEW k \in Keys, DeleteSource(k) PROVE ProvenanceInv'
  BY <1>2 DEF DeleteSource, TypeInv, TypeOK, Captured, VersionsOf
<1>3. ASSUME NEW r \in Runs, ReadWatermark(r) PROVE ProvenanceInv'
  BY <1>3 DEF ReadWatermark, Captured, VersionsOf
<1>4. ASSUME NEW r \in Runs, Extract(r) PROVE ProvenanceInv'
  <2>1. PICK rows \in SUBSET Current(source) : cands' = [cands EXCEPT ![r] = rows]
    BY <1>4, ExtractRows
  <2>2. rows \subseteq history
    BY DEF Current
  <2>3. UNCHANGED <<source, history, raw>>
    BY <1>4 DEF Extract
  <2> QED BY <2>1, <2>2, <2>3 DEF TypeInv, TypeOK, Captured, VersionsOf
<1>5. ASSUME NEW r \in Runs, Applies(r) PROVE ProvenanceInv'
  <2>1. Captured' \subseteq history
    BY <1>5, CommitCaptures
  <2> QED BY <1>5, <2>1 DEF Applies
<1>6. CASE UNCHANGED Observable
  BY <1>6 DEF Observable, Captured, VersionsOf
<1> QED BY <1>1, <1>2, <1>3, <1>4, <1>5, <1>6, StepKinds

\* A bigger set keeps what is known and complete.
LEMMA Monotone ==
    ASSUME NEW m, NEW S, NEW T, S \subseteq T
    PROVE  (Known(m, S) => Known(m, T)) /\ (Complete(m, S) => Complete(m, T))
BY DEF Known, Complete

\* Positions of the history stay complete when the source is written: an
\* in-order version stands after all of them.
LEMMA CompleteStable ==
    ASSUME TypeInv, NEW m, NEW S \in SUBSET history, Known(m, S), Complete(m, S),
           \/ \E v \in Version : WriteSource(v)
           \/ \E k \in Keys : DeleteSource(k)
    PROVE  \A v \in (Current(source) \ late)' :
              m # None /\ ~After(PgRank, v, m) => v \in S
<1> SUFFICES ASSUME NEW w \in Current(source)', w \notin late',
                    m # None, ~After(PgRank, w, m)
             PROVE  w \in S
  OBVIOUS
<1>1. PICK u \in S : PosOf(u) = m
  BY DEF Known
<1>2. u \in history
  BY <1>1
<1>3. ASSUME NEW v \in Version, WriteSource(v) PROVE w \in S
  <2>1. CASE w = v
    <3>1. ~IsLate(v)
      BY <1>3, <2>1 DEF WriteSource
    <3>2. After(PgRank, v, u)
      BY <1>2, <3>1 DEF IsLate
    <3>3. After(PgRank, v, m)
      BY <1>1, <3>2 DEF After, PosOf
    <3> QED BY <2>1, <3>3
  <2>2. CASE w # v
    <3>1. w \in Current(source) /\ w \notin late
      BY <1>3, <2>2 DEF WriteSource, Current, TypeInv, TypeOK
    <3> QED BY <3>1 DEF Complete
  <2> QED BY <2>1, <2>2
<1>4. ASSUME NEW k \in Keys, DeleteSource(k) PROVE w \in S
  <2>1. w \in Current(source) /\ w \notin late
    BY <1>4 DEF DeleteSource, Current, TypeInv, TypeOK
  <2> QED BY <2>1 DEF Complete
<1> QED BY <1>3, <1>4

LEMMA WatermarkStep ==
    TypeInv /\ PhaseInv /\ MergeInv /\ ProvenanceInv /\ WatermarkInv /\ [Next]_vars
        => WatermarkInv'
<1> SUFFICES ASSUME TypeInv, PhaseInv, MergeInv, ProvenanceInv, WatermarkInv, [Next]_vars
             PROVE  WatermarkInv'
  OBVIOUS
<1>1. CASE \/ \E v \in Version : WriteSource(v)
           \/ \E k \in Keys : DeleteSource(k)
  <2>1. UNCHANGED <<raw, mark, before, cands, after>>
    BY <1>1 DEF WriteSource, DeleteSource, locals
  <2>2. Captured' = Captured
    BY <2>1 DEF Captured, VersionsOf
  <2>3. ASSUME NEW m, NEW S \in SUBSET history, Known(m, S), Complete(m, S)
        PROVE  \A v \in (Current(source) \ late)' :
                  m # None /\ ~After(PgRank, v, m) => v \in S
    BY <1>1, <2>3, CompleteStable
  <2>4. /\ Captured \in SUBSET history
        /\ \A r \in Runs : Captured \cup cands[r] \in SUBSET history
    BY DEF ProvenanceInv
  <2>5. Complete(mark, Captured)'
    BY <2>1, <2>2, <2>3, <2>4 DEF WatermarkInv, Complete
  <2>6. ASSUME NEW r \in Runs
        PROVE  /\ Complete(before[r], Captured)'
               /\ Complete(after[r], Captured \cup cands[r])'
    <3>1. Complete(before[r], Captured)'
      BY <2>1, <2>2, <2>3, <2>4 DEF WatermarkInv, Complete
    <3>2. \A v \in (Current(source) \ late)' :
              after[r] # None /\ ~After(PgRank, v, after[r]) => v \in Captured \cup cands[r]
      BY <2>3, <2>4 DEF WatermarkInv
    <3> QED BY <2>1, <2>2, <3>1, <3>2 DEF Complete
  <2>7. /\ Known(mark, Captured)'
        /\ \A r \in Runs : Known(before[r], Captured)' /\ Known(after[r], Captured \cup cands[r])'
    BY <2>1, <2>2 DEF WatermarkInv, Known
  <2> QED BY <2>5, <2>6, <2>7 DEF WatermarkInv
<1>2. ASSUME NEW r \in Runs, ReadWatermark(r) PROVE WatermarkInv'
  <2>1. /\ before' = [before EXCEPT ![r] = mark]
        /\ UNCHANGED <<source, history, late, raw, mark, cands, after>>
    BY <1>2 DEF ReadWatermark, pgVars
  <2>2. Captured' = Captured /\ Current(source)' = Current(source)
    BY <2>1 DEF Captured, VersionsOf, Current
  <2>3. \A q \in Runs : before'[q] = before[q] \/ before'[q] = mark
    BY <2>1 DEF TypeInv, TypeOK
  <2>4. \A q \in Runs : Known(before[q], Captured)' /\ Complete(before[q], Captured)'
    BY <2>1, <2>2, <2>3 DEF WatermarkInv, Known, Complete
  <2>5. /\ Known(mark, Captured)' /\ Complete(mark, Captured)'
        /\ \A q \in Runs : /\ Known(after[q], Captured \cup cands[q])'
                           /\ Complete(after[q], Captured \cup cands[q])'
    BY <2>1, <2>2 DEF WatermarkInv, Known, Complete
  <2> QED BY <2>4, <2>5 DEF WatermarkInv
<1>3. ASSUME NEW r \in Runs, Extract(r) PROVE WatermarkInv'
  <2>1. PICK rows \in SUBSET Current(source) :
            /\ cands' = [cands EXCEPT ![r] = rows]
            /\ \A v \in Current(source) \ rows :
                  before[r] # None /\ ~After(PgRank, v, before[r])
    BY <1>3, ExtractRows
  <2>2. UNCHANGED <<source, history, late, raw, mark, before>>
    BY <1>3 DEF Extract, pgVars
  <2>3. cands'[r] = rows
    BY <2>1 DEF TypeInv, TypeOK
  <2>4. PICK w \in NewestWatermark(rows, before[r]) : after' = [after EXCEPT ![r] = w]
    BY <1>3, <2>3 DEF Extract
  <2>5. w = before[r] \/ \E v \in rows : w = PosOf(v)
    BY <2>4, CurrentFinite, NewestIsKnown DEF TypeInv, TypeOK
  <2>6. Known(w, Captured \cup rows)
    BY <2>5 DEF WatermarkInv, Known
  <2>7. Complete(w, Captured \cup rows)
    BY <2>1 DEF WatermarkInv, Complete
  <2>8. Captured' = Captured /\ Current(source)' = Current(source)
    BY <2>2 DEF Captured, VersionsOf, Current
  <2>9. ASSUME NEW q \in Runs
        PROVE  /\ Known(after[q], Captured \cup cands[q])'
               /\ Complete(after[q], Captured \cup cands[q])'
    <3>1. CASE q = r
      <4>1. after'[q] = w /\ cands'[q] = rows
        BY <2>3, <2>4, <3>1 DEF TypeInv, TypeOK
      <4> QED BY <2>2, <2>6, <2>7, <2>8, <4>1 DEF Known, Complete
    <3>2. CASE q # r
      <4>1. after'[q] = after[q] /\ cands'[q] = cands[q]
        BY <2>1, <2>4, <3>2 DEF TypeInv, TypeOK
      <4> QED BY <2>2, <2>8, <4>1 DEF WatermarkInv, Known, Complete
    <3> QED BY <3>1, <3>2
  <2>10. /\ Known(mark, Captured)' /\ Complete(mark, Captured)'
         /\ \A q \in Runs : Known(before[q], Captured)' /\ Complete(before[q], Captured)'
    BY <2>2, <2>8 DEF WatermarkInv, Known, Complete
  <2> QED BY <2>9, <2>10 DEF WatermarkInv
<1>4. ASSUME NEW r \in Runs, Applies(r) PROVE WatermarkInv'
  <2>1. /\ Captured \subseteq Captured' /\ cands[r] \subseteq Captured'
        /\ mark' \in {mark, after[r]}
    BY <1>4, CommitCaptures
  <2>2. UNCHANGED <<source, late, before, cands, after>>
    BY <1>4 DEF Applies, pgVars, locals
  <2>3. Captured \cup cands[r] \subseteq Captured'
    BY <2>1
  <2>4. ASSUME NEW m, NEW S, S \subseteq Captured', Known(m, S), Complete(m, S)
        PROVE  Known(m, Captured') /\ Complete(m, Captured')
    BY <2>4, Monotone
  <2>5. Known(mark', Captured') /\ Complete(mark', Captured')
    <3>1. CASE mark' = mark
      BY <2>1, <2>4, <3>1 DEF WatermarkInv
    <3>2. CASE mark' = after[r]
      BY <2>3, <2>4, <3>2 DEF WatermarkInv
    <3> QED BY <2>1, <3>1, <3>2
  <2>6. ASSUME NEW q \in Runs
        PROVE  Known(before[q], Captured') /\ Complete(before[q], Captured')
    BY <2>1, <2>4 DEF WatermarkInv
  <2>7. ASSUME NEW q \in Runs
        PROVE  /\ Known(after[q], Captured' \cup cands[q])
               /\ Complete(after[q], Captured' \cup cands[q])
    <3>1. Captured \cup cands[q] \subseteq Captured' \cup cands[q]
      BY <2>1
    <3> QED BY <3>1, Monotone DEF WatermarkInv
  <2> QED BY <2>2, <2>5, <2>6, <2>7 DEF WatermarkInv, Known, Complete, Current
<1>5. CASE UNCHANGED Observable
  BY <1>5 DEF Observable, WatermarkInv, Known, Complete, Current, Captured, VersionsOf
<1> QED BY <1>1, <1>2, <1>3, <1>4, <1>5, StepKinds

LEMMA UniqueStep ==
    TypeInv /\ PhaseInv /\ MergeInv /\ RawUnique /\ [Next]_vars => RawUnique'
<1> SUFFICES ASSUME TypeInv, PhaseInv, MergeInv, RawUnique, [Next]_vars PROVE RawUnique'
  OBVIOUS
<1>1. ASSUME NEW r \in Runs, Applies(r) PROVE RawUnique'
  <2>1. pc[r] \in Locked
    BY <1>1 DEF Applies, Locked
  <2>2. raw' = raw \cup txn[r].rows
    BY <1>1 DEF Applies, ApplyCommit
  <2>3. \A a \in raw, b \in txn[r].rows : a.ver # b.ver
    BY <2>1 DEF MergeInv, Captured, VersionsOf
  <2>4. txn[r].rows \subseteq Row
    BY DEF TypeInv, TypeOK
  <2>5. \A a, b \in txn[r].rows : a.ver = b.ver => a = b
    BY <2>1, <2>4 DEF MergeInv, Row
  <2> QED BY <2>2, <2>3, <2>5 DEF RawUnique
<1>2. CASE raw' = raw
  BY <1>2 DEF RawUnique
<1> QED
  BY <1>1, <1>2, StepKinds
  DEF WriteSource, DeleteSource, ReadWatermark, Extract, Observable

LEMMA SuccessStep ==
    TypeInv /\ PhaseInv /\ MergeInv /\ SuccessCaptures /\ [Next]_vars => SuccessCaptures'
<1> SUFFICES ASSUME TypeInv, PhaseInv, MergeInv, SuccessCaptures, [Next]_vars
             PROVE  SuccessCaptures'
  OBVIOUS
<1> USE DEF TypeInv, TypeOK, pgVars, locals, tries
<1>1. ASSUME NEW r \in Runs, Applies(r) PROVE SuccessCaptures'
  <2>1. \A q \in Runs : q # r => audit'[q] = audit[q]
    BY <1>1 DEF Applies, ApplyCommit
  <2>2. cands[r] \subseteq Captured' /\ Captured \subseteq Captured'
    BY <1>1, CommitCaptures
  <2>3. cands' = cands
    BY <1>1 DEF Applies
  <2> QED BY <2>1, <2>2, <2>3 DEF SuccessCaptures
<1>2. ASSUME NEW r \in Runs, Extract(r) PROVE SuccessCaptures'
  <2>1. PICK rows : cands' = [cands EXCEPT ![r] = rows]
    BY <1>2 DEF Extract, ExtractIncrement, ExtractAll
  <2>2. pc[r] = "extract" /\ UNCHANGED <<audit, raw>>
    BY <1>2 DEF Extract
  <2>3. audit[r].status # "SUCCESS"
    BY <2>2 DEF PhaseInv
  <2> QED BY <2>1, <2>2, <2>3 DEF SuccessCaptures, Captured, VersionsOf
<1>3. ASSUME cands' = cands, raw' = raw,
             \A r \in Runs : audit'[r].status = "SUCCESS" => audit[r].status = "SUCCESS"
      PROVE  SuccessCaptures'
  BY <1>3 DEF SuccessCaptures, Captured, VersionsOf
<1>4. ASSUME NEW r \in Runs, WriteBatchStarted(r) PROVE SuccessCaptures'
  <2>1. \A q \in Runs : audit'[q].status = "SUCCESS" => audit[q].status = "SUCCESS"
    BY <1>4 DEF WriteBatchStarted
  <2> QED BY <1>3, <1>4, <2>1 DEF WriteBatchStarted
<1>5. ASSUME NEW r \in Runs, FinalizeFailure(r) PROVE SuccessCaptures'
  <2>1. \A q \in Runs : audit'[q].status = "SUCCESS" => audit[q].status = "SUCCESS"
    BY <1>5 DEF FinalizeFailure
  <2> QED BY <1>3, <1>5, <2>1 DEF FinalizeFailure
<1>6. CASE UNCHANGED <<cands, raw, audit>>
  BY <1>3, <1>6
<1>7. ASSUME SourceStep PROVE UNCHANGED <<cands, raw, audit>>
  BY <1>7 DEF SourceStep, WriteSource, DeleteSource
<1>8. ASSUME NEW r \in Runs, RunStep(r)
      PROVE  \/ Applies(r) \/ Extract(r) \/ WriteBatchStarted(r) \/ FinalizeFailure(r)
             \/ UNCHANGED <<cands, raw, audit>>
  BY <1>8 DEF RunStep, ReadWatermark, SourceCount, StageRecords, CountUnrepresented,
     MergeRaw, CheckPasses, CheckFails, WriteWatermark, FinalizeSuccess, Commit,
     CleanupStage, FailureCleanup, Applies
<1>9. ASSUME NEW r \in Runs, RunFault(r)
      PROVE  Applies(r) \/ UNCHANGED <<cands, raw, audit>>
  BY <1>9 DEF RunFault, StatementFails, CommitAckLost, StageFails, CleanupFails,
     FinalizeFailureFails, FailureCleanupFails, Crash, Applies
<1>10. ASSUME NEW r \in Runs, ServerAbort(r) PROVE UNCHANGED <<cands, raw, audit>>
  BY <1>10 DEF ServerAbort
<1>11. CASE UNCHANGED vars
  BY <1>6, <1>11 DEF vars
<1> QED
  BY <1>1, <1>2, <1>4, <1>5, <1>6, <1>7, <1>8, <1>9, <1>10, <1>11 DEF Next

LEMMA InvInit == Init => IInv
<1> SUFFICES ASSUME Init PROVE IInv
  OBVIOUS
<1>1. TypeInv
  BY TypeInit
<1>2. Captured = {}
  BY DEF Init, Captured, VersionsOf
<1>3. PhaseInv /\ MergeInv
  BY DEF Init, PhaseInv, MergeInv, Locked, Transaction, NoWrites
<1>4. ProvenanceInv
  BY <1>2 DEF Init, ProvenanceInv
<1>5. WatermarkInv
  BY <1>2 DEF Init, WatermarkInv, Known, Complete
<1>6. RawUnique /\ SuccessCaptures
  BY DEF Init, RawUnique, SuccessCaptures
<1> QED BY <1>1, <1>3, <1>4, <1>5, <1>6 DEF IInv

LEMMA InvStep == IInv /\ [Next]_vars => IInv'
BY TypeStep, PhaseStep, MergeStep, ProvenanceStep, WatermarkStep, UniqueStep, SuccessStep
DEF IInv

LEMMA Invariance == Spec => []IInv
BY InvInit, InvStep, PTL DEF Spec

\* No current in-order version is ever missing from RAW behind the committed
\* watermark, whatever runs overlap, fail, retry or crash, and even when Python
\* and PostgreSQL order the keys differently.
THEOREM NothingEverSkipped == Spec => []NothingSkipped
<1>1. IInv => NothingSkipped
  BY DEF IInv, WatermarkInv, Complete, NothingSkipped
<1> QED BY <1>1, Invariance, PTL

\* The committed watermark is always the position of a version in RAW.
THEOREM MarkAlwaysCaptured == Spec => []MarkIsCaptured
<1>1. IInv => MarkIsCaptured
  BY DEF IInv, WatermarkInv, Known, MarkIsCaptured
<1> QED BY <1>1, Invariance, PTL

\* RAW never holds a version twice.
THEOREM RawAlwaysUnique == Spec => []RawUnique
<1>1. IInv => RawUnique
  BY DEF IInv
<1> QED BY <1>1, Invariance, PTL

\* A batch audited SUCCESS has all its candidates in RAW.
THEOREM SuccessAlwaysCaptures == Spec => []SuccessCaptures
<1>1. IInv => SuccessCaptures
  BY DEF IInv
<1> QED BY <1>1, Invariance, PTL

-----------------------------------------------------------------------------
(* Refinement of VersionCapture.                                            *)

\* What the abstract specification says of versions means the same here.
LEMMA SameOperators ==
    /\ \A s : Capturing!Current(s) = Current(s)
    /\ \A rank, p, q : Capturing!After(rank, p, q) <=> After(rank, p, q)
    /\ \A v : Capturing!PosOf(v) = PosOf(v)
    /\ Capturing!Version = Version
BY DEF Capturing!Current, Current, Capturing!After, After, Capturing!PosOf, PosOf,
   Capturing!Version, Version

\* A table that is empty at first is one that may hold rows.
LEMMA CaptureInitially == Init => Capturing!CaptureInit
BY DEF Init, Capturing!CaptureInit, Capturing!Current, Captured, VersionsOf

LEMMA CaptureStep == IInv /\ IInv' /\ [Next]_vars => [Capturing!CaptureNext]_Capturing!captureVars
<1> SUFFICES ASSUME IInv, IInv', [Next]_vars
             PROVE  Capturing!CaptureNext \/ UNCHANGED Capturing!captureVars
  OBVIOUS
<1> USE DEF pgVars, locals
<1>1. ASSUME NEW v \in Version, WriteSource(v) PROVE Capturing!Write
  <2>1. Captured' = Captured /\ mark' = mark
    BY <1>1 DEF WriteSource, Captured, VersionsOf
  <2> QED BY <1>1, <2>1, SameOperators DEF WriteSource, IsLate, Capturing!Write
<1>2. ASSUME NEW k \in Keys, DeleteSource(k) PROVE Capturing!Write
  <2>1. Captured' = Captured /\ mark' = mark
    BY <1>2 DEF DeleteSource, Captured, VersionsOf
  <2> QED BY <1>2, <2>1 DEF DeleteSource, Capturing!Write
<1>3. ASSUME NEW r \in Runs, Applies(r) PROVE Capturing!Capture
  <2>1. /\ Captured \subseteq Captured' /\ cands[r] \subseteq Captured'
        /\ mark' \in {mark, after[r]}
    BY <1>3, CommitCaptures DEF IInv
  <2>2. UNCHANGED <<source, history, late>>
    BY <1>3 DEF Applies
  <2>3. Captured' \subseteq history
    BY <2>2 DEF IInv, ProvenanceInv
  <2>4. mark' = mark \/ \E v \in Captured' : mark' = PosOf(v)
    <3>1. CASE mark' = None
      BY <1>3, <3>1 DEF ApplyCommit, Applies
    <3>2. CASE mark' # None
      BY <3>2 DEF IInv, WatermarkInv, Known
    <3> QED BY <3>1, <3>2
  <2>5. \A v \in Current(source) \ late :
            mark' # None /\ ~After(PgRank, v, mark') => v \in Captured'
    BY <2>2 DEF IInv, WatermarkInv, Complete, Current
  <2> QED
    BY <2>1, <2>2, <2>3, <2>4, <2>5, SameOperators DEF Capturing!Capture, Capturing!NoHole
<1>4. CASE UNCHANGED <<source, history, late, raw, mark>>
  BY <1>4 DEF Capturing!captureVars, Captured, VersionsOf
<1>5. ASSUME NEW r \in Runs, ReadWatermark(r) \/ Extract(r)
      PROVE  UNCHANGED <<source, history, late, raw, mark>>
  BY <1>5 DEF ReadWatermark, Extract
<1>6. CASE UNCHANGED Observable
  BY <1>4, <1>6 DEF Observable
<1> QED
  BY <1>1, <1>2, <1>3, <1>4, <1>5, <1>6, StepKinds DEF Capturing!CaptureNext

\* The ingestion implements the atomic capture: commits are its only steps
\* that a reader of RAW and of the watermark sees.
THEOREM Refinement == Spec => CapturesAtomically
<1>1. Init => Capturing!CaptureInit
  BY CaptureInitially
<1>2. IInv /\ IInv' /\ [Next]_vars => [Capturing!CaptureNext]_Capturing!captureVars
  BY CaptureStep
<1> QED
  BY <1>1, <1>2, Invariance, PTL DEF Spec, CapturesAtomically, Capturing!CaptureSpec

-----------------------------------------------------------------------------
(* Reconciliation failures.                                                 *)

\* No run inserts more than its candidates, and a reconciliation has counted them.
CountInv ==
    \A r \in Runs :
        /\ pc[r] \in {"merge"} \cup Locked => inserted[r] <= Cardinality(cands[r])
        /\ r \in ReconcileRuns /\ pc[r] \in {"start", "stage"} \cup Transaction =>
               counted[r] = Cardinality(cands[r])

LEMMA CountStep == TypeInv /\ PhaseInv /\ CountInv /\ [Next]_vars => CountInv'
<1> SUFFICES ASSUME TypeInv, PhaseInv, CountInv, [Next]_vars PROVE CountInv'
  OBVIOUS
<1> USE DEF TypeInv, TypeOK, CountInv, pgVars, locals, tries, Transaction, Locked
<1>1. ASSUME NEW v \in Version, WriteSource(v) PROVE CountInv'
  BY <1>1 DEF WriteSource
<1>2. ASSUME NEW k \in Keys, DeleteSource(k) PROVE CountInv'
  BY <1>2 DEF DeleteSource
<1>3. ASSUME NEW r \in Runs, ReadWatermark(r) PROVE CountInv'
  BY <1>3 DEF ReadWatermark
<1>4. ASSUME NEW r \in Runs, SourceCount(r) PROVE CountInv'
  BY <1>4 DEF SourceCount
<1>5. ASSUME NEW r \in Runs, Extract(r) PROVE CountInv'
  <2>1. PICK rows : cands' = [cands EXCEPT ![r] = rows]
    BY <1>5 DEF Extract, ExtractIncrement, ExtractAll
  <2>2. pc[r] = "extract" /\ pc' = [pc EXCEPT ![r] = "start"] /\ UNCHANGED inserted
    BY <1>5 DEF Extract
  <2>3. \A q \in Runs : q # r => cands'[q] = cands[q] /\ counted'[q] = counted[q]
    BY <1>5 DEF Extract, ExtractIncrement, ExtractAll
  <2>4. r \in ReconcileRuns => counted'[r] = Cardinality(cands'[r])
    BY <1>5, RunsFinite DEF Extract, ExtractIncrement, ExtractAll
  <2> QED BY <2>2, <2>3, <2>4
<1>6. ASSUME NEW r \in Runs, WriteBatchStarted(r) PROVE CountInv'
  BY <1>6 DEF WriteBatchStarted
<1>7. ASSUME NEW r \in Runs, StageRecords(r) PROVE CountInv'
  BY <1>7 DEF StageRecords
<1>8. ASSUME NEW r \in Runs, CountUnrepresented(r) PROVE CountInv'
  <2>1. stage[r] = cands[r] /\ stage[r] \ Captured \in SUBSET cands[r]
    BY <1>8 DEF CountUnrepresented, PhaseInv, Transaction
  <2>2. Cardinality(stage[r] \ Captured) <= Cardinality(cands[r])
    BY <2>1, FS_Subset
  <2> QED BY <1>8, <2>2 DEF CountUnrepresented
<1>9. ASSUME NEW r \in Runs, MergeRaw(r) PROVE CountInv'
  BY <1>9 DEF MergeRaw
<1>10. ASSUME NEW r \in Runs, CheckPasses(r) PROVE CountInv'
  BY <1>10 DEF CheckPasses
<1>11. ASSUME NEW r \in Runs, CheckFails(r) PROVE CountInv'
  BY <1>11 DEF CheckFails, Rollback
<1>12. ASSUME NEW r \in Runs, WriteWatermark(r) PROVE CountInv'
  BY <1>12 DEF WriteWatermark
<1>13. ASSUME NEW r \in Runs, FinalizeSuccess(r) PROVE CountInv'
  BY <1>13 DEF FinalizeSuccess
<1>14. ASSUME NEW r \in Runs, Commit(r) PROVE CountInv'
  BY <1>14 DEF Commit, ApplyCommit
<1>15. ASSUME NEW r \in Runs, CleanupStage(r) PROVE CountInv'
  BY <1>15 DEF CleanupStage
<1>16. ASSUME NEW r \in Runs, FinalizeFailure(r) PROVE CountInv'
  BY <1>16 DEF FinalizeFailure, AfterFailureAudit
<1>17. ASSUME NEW r \in Runs, FailureCleanup(r) PROVE CountInv'
  BY <1>17 DEF FailureCleanup
<1>18. ASSUME NEW r \in Runs, StatementFails(r) PROVE CountInv'
  <2>1. /\ \A q \in Runs : q # r => pc'[q] = pc[q]
        /\ pc'[r] \in {"begin", "fail"} /\ pc[r] \in Transaction
        /\ UNCHANGED <<counted, cands, inserted>>
    BY <1>18 DEF StatementFails, RetryOrFail
  <2> QED BY <2>1
<1>19. ASSUME NEW r \in Runs, CommitAckLost(r) PROVE CountInv'
  <2>1. /\ \A q \in Runs : q # r => pc'[q] = pc[q]
        /\ pc'[r] \in {"begin", "fail"} /\ pc[r] = "commit" /\ UNCHANGED <<counted, cands, inserted>>
    BY <1>19 DEF CommitAckLost, RetryOrFail
  <2> QED BY <2>1
<1>20. ASSUME NEW r \in Runs, StageFails(r) PROVE CountInv'
  BY <1>20 DEF StageFails
<1>21. ASSUME NEW r \in Runs, CleanupFails(r) PROVE CountInv'
  BY <1>21 DEF CleanupFails
<1>22. ASSUME NEW r \in Runs, FinalizeFailureFails(r) PROVE CountInv'
  BY <1>22 DEF FinalizeFailureFails
<1>23. ASSUME NEW r \in Runs, FailureCleanupFails(r) PROVE CountInv'
  BY <1>23 DEF FailureCleanupFails
<1>24. ASSUME NEW r \in Runs, Crash(r) PROVE CountInv'
  BY <1>24 DEF Crash
<1>25. ASSUME NEW r \in Runs, ServerAbort(r) PROVE CountInv'
  BY <1>25 DEF ServerAbort, Rollback
<1>26. CASE UNCHANGED vars
  BY <1>26 DEF vars
<1> QED
  BY <1>1, <1>2, <1>3, <1>4, <1>5, <1>6, <1>7, <1>8, <1>9, <1>10, <1>11, <1>12,
     <1>13, <1>14, <1>15, <1>16, <1>17, <1>18, <1>19, <1>20, <1>21, <1>22,
     <1>23, <1>24, <1>25, <1>26
  DEF Next, SourceStep, RunStep, RunFault

\* A batch fails its reconciliation only because its count is older than its
\* extraction, for any overlapping runs and failures: the rows of the batch are in
\* RAW after its MERGE, whoever brought them.
THEOREM FailuresAlwaysCountRaces == Spec => FailuresAreCountRaces
<1>1. Init => CountInv
  BY DEF Init, CountInv, Transaction, Locked
<1>2. Spec => []CountInv
  BY <1>1, CountStep, Invariance, PTL DEF Spec, IInv
<1>3. ASSUME IInv, CountInv, NEW r \in Runs, CheckFails(r)
      PROVE  r \in IngestRuns /\ counted[r] < Cardinality(cands[r])
  <2>1. pc[r] = "check" /\ ~Reconciles(r)
    BY <1>3 DEF CheckFails
  <2>2. /\ stage[r] = cands[r] /\ stage[r] \subseteq Captured \cup VersionsOf(txn[r].rows)
        /\ inserted[r] <= Cardinality(cands[r])
    BY <1>3, <2>1 DEF IInv, PhaseInv, MergeInv, CountInv, Transaction, Locked
  <2>3. Captured \cup VersionsOf(txn[r].rows) = VersionsOf(raw \cup txn[r].rows)
    BY DEF Captured, VersionsOf
  <2>4. Represented(r) = cands[r]
    BY <2>2, <2>3 DEF Represented
  <2>5. counted[r] \in Nat /\ inserted[r] \in Nat /\ Cardinality(cands[r]) \in Nat
    BY <1>3, FS_CardinalityType DEF IInv, TypeInv, TypeOK
  <2>6. counted[r] < Cardinality(cands[r])
    BY <2>1, <2>2, <2>4, <2>5 DEF Reconciles, IsConsistent
  <2>7. r \notin ReconcileRuns
    BY <1>3, <2>1, <2>5, <2>6 DEF CountInv, Transaction
  <2> QED BY <2>6, <2>7 DEF Runs
<1>4. IInv /\ CountInv =>
        [\A r \in Runs : CheckFails(r) => r \in IngestRuns /\ counted[r] < Cardinality(cands[r])]_vars
  BY <1>3
<1> QED BY <1>2, <1>4, Invariance, PTL DEF FailuresAreCountRaces

-----------------------------------------------------------------------------
(* What depends on the kinds of failure.                                    *)

\* A batch audited SUCCESS is past its COMMIT, which carries the audit.
RowsInv ==
    /\ RowsBelongToSuccess
    /\ \A r \in Runs :
          /\ audit[r].status = "SUCCESS" => pc[r] \in {"cleanup", "done", "crashed"}
          /\ pc[r] = "commit" => txn[r].success

LEMMA RowsStep ==
    ASSUME FaultKinds \cap {"cleanup", "commitAck"} = {}
    PROVE  TypeInv /\ PhaseInv /\ MergeInv /\ RowsInv /\ [Next]_vars => RowsInv'
<1> SUFFICES ASSUME TypeInv, PhaseInv, MergeInv, RowsInv, [Next]_vars PROVE RowsInv'
  OBVIOUS
<1> USE DEF TypeInv, TypeOK, RowsInv, RowsBelongToSuccess, pgVars, locals, tries, Transaction,
            NoWrites
<1>1. ASSUME NEW v \in Version, WriteSource(v) PROVE RowsInv'
  BY <1>1 DEF WriteSource
<1>2. ASSUME NEW k \in Keys, DeleteSource(k) PROVE RowsInv'
  BY <1>2 DEF DeleteSource
<1>3. ASSUME NEW r \in Runs, ReadWatermark(r) PROVE RowsInv'
  BY <1>3 DEF ReadWatermark
<1>4. ASSUME NEW r \in Runs, SourceCount(r) PROVE RowsInv'
  BY <1>4 DEF SourceCount
<1>5. ASSUME NEW r \in Runs, Extract(r) PROVE RowsInv'
  BY <1>5 DEF Extract
<1>6. ASSUME NEW r \in Runs, WriteBatchStarted(r) PROVE RowsInv'
  <2>1. /\ pc[r] = "start" /\ UNCHANGED <<raw, txn>>
        /\ \A q \in Runs : q # r => audit'[q] = audit[q] /\ pc'[q] = pc[q]
        /\ pc'[r] # "commit" /\ audit'[r].status # "SUCCESS"
    BY <1>6 DEF WriteBatchStarted
  <2>2. audit[r].status # "SUCCESS"
    BY <2>1
  <2>3. \A row \in raw : row.batch \in Runs /\ row.batch # r
    BY <2>2 DEF Row
  <2> QED BY <2>1, <2>2, <2>3
<1>7. ASSUME NEW r \in Runs, StageRecords(r) PROVE RowsInv'
  BY <1>7 DEF StageRecords
<1>8. ASSUME NEW r \in Runs, CountUnrepresented(r) PROVE RowsInv'
  BY <1>8 DEF CountUnrepresented
<1>9. ASSUME NEW r \in Runs, MergeRaw(r) PROVE RowsInv'
  BY <1>9 DEF MergeRaw
<1>10. ASSUME NEW r \in Runs, CheckPasses(r) PROVE RowsInv'
  BY <1>10 DEF CheckPasses
<1>11. ASSUME NEW r \in Runs, CheckFails(r) PROVE RowsInv'
  BY <1>11 DEF CheckFails, Rollback
<1>12. ASSUME NEW r \in Runs, WriteWatermark(r) PROVE RowsInv'
  BY <1>12 DEF WriteWatermark
<1>13. ASSUME NEW r \in Runs, FinalizeSuccess(r) PROVE RowsInv'
  BY <1>13 DEF FinalizeSuccess
<1>14. ASSUME NEW r \in Runs, Commit(r) PROVE RowsInv'
  <2>1. /\ pc[r] = "commit" /\ txn[r].success
        /\ \A row \in txn[r].rows : row.batch = r /\ row \in Row
    BY <1>14 DEF Commit, MergeInv, Locked
  <2>2. /\ raw' = raw \cup txn[r].rows /\ audit'[r].status = "SUCCESS"
        /\ \A q \in Runs : q # r => audit'[q] = audit[q] /\ txn'[q] = txn[q]
        /\ pc' = [pc EXCEPT ![r] = "cleanup"]
    BY <1>14, <2>1 DEF Commit, ApplyCommit
  <2>3. RowsBelongToSuccess'
    BY <2>1, <2>2 DEF RowsBelongToSuccess, Row
  <2> QED BY <2>1, <2>2, <2>3
<1>15. ASSUME NEW r \in Runs, CleanupStage(r) PROVE RowsInv'
  BY <1>15 DEF CleanupStage
<1>16. ASSUME NEW r \in Runs, FinalizeFailure(r) PROVE RowsInv'
  <2>1. /\ pc[r] = "fail" /\ UNCHANGED <<raw, txn>>
        /\ \A q \in Runs : q # r => audit'[q] = audit[q] /\ pc'[q] = pc[q]
        /\ pc'[r] # "commit" /\ audit'[r].status # "SUCCESS"
    BY <1>16 DEF FinalizeFailure, AfterFailureAudit
  <2>2. audit[r].status # "SUCCESS"
    BY <2>1
  <2>3. \A row \in raw : row.batch \in Runs /\ row.batch # r
    BY <2>2 DEF Row
  <2> QED BY <2>1, <2>2, <2>3
<1>17. ASSUME NEW r \in Runs, FailureCleanup(r) PROVE RowsInv'
  BY <1>17 DEF FailureCleanup
<1>18. ASSUME NEW r \in Runs, StatementFails(r) PROVE RowsInv'
  <2>1. /\ \A q \in Runs : q # r => pc'[q] = pc[q] /\ txn'[q] = txn[q]
        /\ pc'[r] \in {"begin", "fail"} /\ pc[r] \in Transaction /\ UNCHANGED <<raw, audit>>
    BY <1>18 DEF StatementFails, RetryOrFail, Rollback
  <2> QED BY <2>1
<1>19. ASSUME NEW r \in Runs, CommitAckLost(r) PROVE RowsInv'
  BY <1>19 DEF CommitAckLost, Fault
<1>20. ASSUME NEW r \in Runs, StageFails(r) PROVE RowsInv'
  BY <1>20 DEF StageFails
<1>21. ASSUME NEW r \in Runs, CleanupFails(r) PROVE RowsInv'
  BY <1>21 DEF CleanupFails, Fault
<1>22. ASSUME NEW r \in Runs, FinalizeFailureFails(r) PROVE RowsInv'
  BY <1>22 DEF FinalizeFailureFails
<1>23. ASSUME NEW r \in Runs, FailureCleanupFails(r) PROVE RowsInv'
  BY <1>23 DEF FailureCleanupFails
<1>24. ASSUME NEW r \in Runs, Crash(r) PROVE RowsInv'
  BY <1>24 DEF Crash
<1>25. ASSUME NEW r \in Runs, ServerAbort(r) PROVE RowsInv'
  BY <1>25 DEF ServerAbort, Rollback
<1>26. CASE UNCHANGED vars
  BY <1>26 DEF vars
<1> QED
  BY <1>1, <1>2, <1>3, <1>4, <1>5, <1>6, <1>7, <1>8, <1>9, <1>10, <1>11, <1>12,
     <1>13, <1>14, <1>15, <1>16, <1>17, <1>18, <1>19, <1>20, <1>21, <1>22,
     <1>23, <1>24, <1>25, <1>26
  DEF Next, SourceStep, RunStep, RunFault

\* RAW holds no row of a batch whose audit does not say SUCCESS, as long as neither
\* the stage cleanup after COMMIT raises nor the answer to a COMMIT is lost: no
\* other failure, crash or overlap breaks it.
THEOREM RowsAlwaysBelong ==
    ASSUME FaultKinds \cap {"cleanup", "commitAck"} = {}
    PROVE  Spec => []RowsBelongToSuccess
<1>1. Init => RowsInv
  BY DEF Init, RowsInv, RowsBelongToSuccess
<1>2. TypeInv /\ PhaseInv /\ MergeInv /\ RowsInv /\ [Next]_vars => RowsInv'
  BY RowsStep
<1>3. RowsInv => RowsBelongToSuccess
  BY DEF RowsInv
<1> QED BY <1>1, <1>2, <1>3, Invariance, PTL DEF Spec, IInv

LEMMA StageStep ==
    ASSUME FaultKinds \cap {"cleanup", "audit"} = {}
    PROVE  TypeInv /\ IngestReclaimsStage /\ [Next]_vars => IngestReclaimsStage'
<1> SUFFICES ASSUME TypeInv, IngestReclaimsStage, [Next]_vars PROVE IngestReclaimsStage'
  OBVIOUS
<1> USE DEF TypeInv, TypeOK, IngestReclaimsStage, Runs, pgVars, locals, tries
<1>1. ASSUME NEW v \in Version, WriteSource(v) PROVE IngestReclaimsStage'
  BY <1>1 DEF WriteSource
<1>2. ASSUME NEW k \in Keys, DeleteSource(k) PROVE IngestReclaimsStage'
  BY <1>2 DEF DeleteSource
<1>3. ASSUME NEW r \in Runs, ReadWatermark(r) PROVE IngestReclaimsStage'
  BY <1>3 DEF ReadWatermark
<1>4. ASSUME NEW r \in Runs, SourceCount(r) PROVE IngestReclaimsStage'
  BY <1>4 DEF SourceCount
<1>5. ASSUME NEW r \in Runs, Extract(r) PROVE IngestReclaimsStage'
  BY <1>5 DEF Extract
<1>6. ASSUME NEW r \in Runs, WriteBatchStarted(r) PROVE IngestReclaimsStage'
  BY <1>6 DEF WriteBatchStarted
<1>7. ASSUME NEW r \in Runs, StageRecords(r) PROVE IngestReclaimsStage'
  BY <1>7 DEF StageRecords
<1>8. ASSUME NEW r \in Runs, CountUnrepresented(r) PROVE IngestReclaimsStage'
  BY <1>8 DEF CountUnrepresented
<1>9. ASSUME NEW r \in Runs, MergeRaw(r) PROVE IngestReclaimsStage'
  BY <1>9 DEF MergeRaw
<1>10. ASSUME NEW r \in Runs, CheckPasses(r) PROVE IngestReclaimsStage'
  BY <1>10 DEF CheckPasses
<1>11. ASSUME NEW r \in Runs, CheckFails(r) PROVE IngestReclaimsStage'
  BY <1>11 DEF CheckFails, Rollback
<1>12. ASSUME NEW r \in Runs, WriteWatermark(r) PROVE IngestReclaimsStage'
  BY <1>12 DEF WriteWatermark
<1>13. ASSUME NEW r \in Runs, FinalizeSuccess(r) PROVE IngestReclaimsStage'
  BY <1>13 DEF FinalizeSuccess
<1>14. ASSUME NEW r \in Runs, Commit(r) PROVE IngestReclaimsStage'
  BY <1>14 DEF Commit, ApplyCommit
<1>15. ASSUME NEW r \in Runs, CleanupStage(r) PROVE IngestReclaimsStage'
  BY <1>15 DEF CleanupStage
<1>16. ASSUME NEW r \in Runs, FinalizeFailure(r) PROVE IngestReclaimsStage'
  BY <1>16 DEF FinalizeFailure, AfterFailureAudit
<1>17. ASSUME NEW r \in Runs, FailureCleanup(r) PROVE IngestReclaimsStage'
  BY <1>17 DEF FailureCleanup
<1>18. ASSUME NEW r \in Runs, StatementFails(r) PROVE IngestReclaimsStage'
  <2>1. /\ \A q \in Runs : q # r => pc'[q] = pc[q]
        /\ pc'[r] \in {"begin", "fail"} /\ UNCHANGED stage
    BY <1>18 DEF StatementFails, RetryOrFail, Transaction
  <2> QED BY <2>1
<1>19. ASSUME NEW r \in Runs, CommitAckLost(r) PROVE IngestReclaimsStage'
  <2>1. /\ \A q \in Runs : q # r => pc'[q] = pc[q]
        /\ pc'[r] \in {"begin", "fail"} /\ UNCHANGED stage
    BY <1>19 DEF CommitAckLost, RetryOrFail
  <2> QED BY <2>1
<1>20. ASSUME NEW r \in Runs, StageFails(r) PROVE IngestReclaimsStage'
  BY <1>20 DEF StageFails
<1>21. ASSUME NEW r \in Runs, CleanupFails(r) PROVE IngestReclaimsStage'
  BY <1>21 DEF CleanupFails
<1>22. ASSUME NEW r \in Runs, FinalizeFailureFails(r) PROVE IngestReclaimsStage'
  BY <1>22 DEF FinalizeFailureFails, Fault
<1>23. ASSUME NEW r \in Runs, FailureCleanupFails(r) PROVE IngestReclaimsStage'
  BY <1>23 DEF FailureCleanupFails, Fault
<1>24. ASSUME NEW r \in Runs, Crash(r) PROVE IngestReclaimsStage'
  BY <1>24 DEF Crash
<1>25. ASSUME NEW r \in Runs, ServerAbort(r) PROVE IngestReclaimsStage'
  BY <1>25 DEF ServerAbort, Rollback
<1>26. CASE UNCHANGED vars
  BY <1>26 DEF vars
<1> QED
  BY <1>1, <1>2, <1>3, <1>4, <1>5, <1>6, <1>7, <1>8, <1>9, <1>10, <1>11, <1>12,
     <1>13, <1>14, <1>15, <1>16, <1>17, <1>18, <1>19, <1>20, <1>21, <1>22,
     <1>23, <1>24, <1>25, <1>26
  DEF Next, SourceStep, RunStep, RunFault

\* An incremental run that returns or raises has deleted its stage rows, as long as
\* neither a stage cleanup nor the audit of the failure raises.
THEOREM IngestAlwaysReclaims ==
    ASSUME FaultKinds \cap {"cleanup", "audit"} = {}
    PROVE  Spec => []IngestReclaimsStage
<1>1. Init => IngestReclaimsStage
  BY DEF Init, IngestReclaimsStage, Runs
<1>2. TypeInv /\ IngestReclaimsStage /\ [Next]_vars => IngestReclaimsStage'
  BY StageStep
<1> QED BY <1>1, <1>2, Invariance, PTL DEF Spec, IInv
=============================================================================
