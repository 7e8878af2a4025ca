----------------------- MODULE SequentialIngestion_proofs -----------------------
(***************************************************************************)
(* Proofs about BatchIngestion for runs that do not overlap, as under a    *)
(* scheduler that starts a run when the previous one has ended: any number *)
(* of runs of either kind, one after another, any of which may fail or be  *)
(* killed and leave its transaction open on the server.                    *)
(***************************************************************************)
EXTENDS BatchIngestion_proofs

-----------------------------------------------------------------------------
(* One run at a time.                                                       *)

Working(r) == pc[r] \notin {"idle"} \cup Finished

OneAtWork == \A q, r \in Runs : Working(q) /\ Working(r) => q = r

\* What a step does to the program counters: that of one run moves, and only a
\* run that is at work moves it, or an idle one that may start.
LEMMA PcMoves ==
    ASSUME TypeInv, [Next]_vars
    PROVE  \/ UNCHANGED pc
           \/ \E r \in Runs : /\ Working(r) \/ (pc[r] = "idle" /\ MayStart(r))
                              /\ \A q \in Runs : q # r => pc'[q] = pc[q]
<1> USE DEF TypeInv, TypeOK, Working, Finished, Transaction
<1>1. CASE SourceStep
  BY <1>1 DEF SourceStep, WriteSource, DeleteSource
<1>2. ASSUME NEW r \in Runs, RunStep(r)
      PROVE  /\ Working(r) \/ (pc[r] = "idle" /\ MayStart(r))
             /\ \A q \in Runs : q # r => pc'[q] = pc[q]
  BY <1>2 DEF RunStep, ReadWatermark, SourceCount, Extract, WriteBatchStarted, StageRecords,
     CountUnrepresented, MergeRaw, CheckPasses, CheckFails, WriteWatermark, FinalizeSuccess,
     Commit, CleanupStage, FinalizeFailure, FailureCleanup
<1>3. ASSUME NEW r \in Runs, RunFault(r)
      PROVE  Working(r) /\ \A q \in Runs : q # r => pc'[q] = pc[q]
  BY <1>3 DEF RunFault, StatementFails, CommitAckLost, StageFails, CleanupFails, RetryOrFail,
     FinalizeFailureFails, FailureCleanupFails, Crash
<1>4. ASSUME NEW r \in Runs, ServerAbort(r) PROVE UNCHANGED pc
  BY <1>4 DEF ServerAbort
<1>5. CASE UNCHANGED vars
  BY <1>5 DEF vars
<1> QED BY <1>1, <1>2, <1>3, <1>4, <1>5 DEF Next

\* Without overlap no two runs work at once: a start needs the others at rest.
LEMMA AloneStep ==
    ASSUME Overlapping = FALSE
    PROVE  TypeInv /\ OneAtWork /\ [Next]_vars => OneAtWork'
<1> SUFFICES ASSUME TypeInv, OneAtWork, [Next]_vars PROVE OneAtWork'
  OBVIOUS
<1>1. CASE UNCHANGED pc
  BY <1>1 DEF OneAtWork, Working
<1>2. ASSUME NEW r \in Runs, Working(r) \/ (pc[r] = "idle" /\ MayStart(r)),
             \A q \in Runs : q # r => pc'[q] = pc[q]
      PROVE  OneAtWork'
  <2>1. \A q \in Runs : q # r => ~Working(q)
    BY <1>2 DEF OneAtWork, Working, MayStart
  <2>2. \A q \in Runs : q # r => ~Working(q)'
    BY <1>2, <2>1 DEF Working
  <2> QED BY <2>2 DEF OneAtWork
<1> QED BY <1>1, <1>2, PcMoves

\* Runs that do not overlap are at work one at a time.
LEMMA Alone ==
    ASSUME Overlapping = FALSE
    PROVE  Spec => []OneAtWork
<1>1. Init => OneAtWork
  BY DEF Init, OneAtWork, Working
<1>2. TypeInv /\ OneAtWork /\ [Next]_vars => OneAtWork'
  BY AloneStep
<1> QED BY <1>1, <1>2, Invariance, PTL DEF Spec, IInv

-----------------------------------------------------------------------------
(* The order of positions.                                                  *)

\* p stands at position m or before it, in a ranking of the keys.
AtOrBefore(rank, p, m) == m # None /\ ~After(rank, p, m)

\* Positions are ordered totally: neither collation has ties.
LEMMA OrderFacts ==
    ASSUME NEW rank, IsRanking(rank),
           NEW p, p.pk \in Keys, p.at \in Nat,
           NEW q, q.pk \in Keys, q.at \in Nat,
           NEW m, m.pk \in Keys, m.at \in Nat
    PROVE  /\ ~After(rank, p, p)
           /\ After(rank, q, p) => ~After(rank, p, q)
           /\ ~After(rank, p, q) /\ ~After(rank, q, m) => ~After(rank, p, m)
<1>1. rank[p.pk] \in Nat /\ rank[q.pk] \in Nat /\ rank[m.pk] \in Nat
  BY DEF IsRanking
<1> QED BY <1>1 DEF After

\* A new watermark lies at or behind neither the old one nor, when PostgreSQL
\* and Python order keys alike, any of the candidates.
LEMMA NewestIsNewest ==
    ASSUME NEW records \in SUBSET Version, NEW fallback \in Watermark,
           NEW w \in NewestWatermark(records, fallback)
    PROVE  /\ fallback # None => AtOrBefore(PyRank, fallback, w)
           /\ PgRank = PyRank => \A v \in records : AtOrBefore(PgRank, v, w)
<1> USE TimesNat, PyRanking
<1>a. ASSUME NEW v \in Version
      PROVE  /\ v.pk \in Keys /\ v.at \in Nat
             /\ PosOf(v) # None /\ PosOf(v).pk = v.pk /\ PosOf(v).at = v.at
  <2>1. v.pk \in Keys /\ v.at \in Times
    BY DEF Version
  <2>2. PosOf(v) \in Position
    BY <2>1 DEF PosOf, Position
  <2> QED BY <2>1, <2>2, NoneFresh DEF PosOf
<1>b. fallback # None => fallback.pk \in Keys /\ fallback.at \in Nat
  BY DEF Watermark, Position
<1>1. CASE records = {}
  <2>1. w = fallback
    BY <1>1 DEF NewestWatermark
  <2> QED BY <1>b, <1>1, <2>1, OrderFacts DEF AtOrBefore
<1>2. CASE records # {}
  <2>1. PICK v \in Latest(records) : w = MaxWatermark(fallback, PosOf(v))
    BY <1>2 DEF NewestWatermark
  <2>2. v \in records /\ v \in Version /\ \A u \in records : ~After(PyRank, u, v)
    BY <2>1 DEF Latest
  <2>3. PosOf(v) # None
    BY <1>a, <1>b, <2>2
  <2>4. CASE w = PosOf(v) /\ (fallback = None \/ After(PyRank, PosOf(v), fallback))
    <3>1. fallback # None => ~After(PyRank, fallback, PosOf(v))
      BY <1>a, <1>b, <2>2, <2>4, OrderFacts
    <3>2. \A u \in records : ~After(PyRank, u, PosOf(v))
      BY <1>a, <1>b, <2>2 DEF After
    <3> QED BY <2>3, <2>4, <3>1, <3>2 DEF AtOrBefore
  <2>5. CASE w = fallback /\ fallback # None /\ ~After(PyRank, PosOf(v), fallback)
    <3>1. ~After(PyRank, v, fallback)
      BY <1>a, <1>b, <2>2, <2>5 DEF After
    <3>2. \A u \in records : ~After(PyRank, u, fallback)
      BY <1>a, <1>b, <2>2, <2>5, <3>1, OrderFacts
    <3>3. ~After(PyRank, fallback, fallback)
      BY <1>a, <1>b, <2>5, OrderFacts
    <3> QED BY <2>5, <3>2, <3>3 DEF AtOrBefore
  <2> QED BY <2>1, <2>3, <2>4, <2>5 DEF MaxWatermark
<1> QED BY <1>1, <1>2

-----------------------------------------------------------------------------
(* The watermark.                                                           *)

\* The phases in which a run holds candidates that it may still commit.
Holding == {"start", "stage"} \cup Transaction

\* Until a run commits, the watermark is the one it read, or already its own when
\* the answer to its COMMIT was lost; its own is not behind the one it read.
MarkInv ==
    \A r \in Runs :
        /\ pc[r] \in {"count", "extract"} => before[r] = mark
        /\ pc[r] \in Holding =>
              /\ mark \in {before[r], after[r]}
              /\ before[r] # None => AtOrBefore(PyRank, before[r], after[r])

\* Every step of the runs, of the source and of the faults keeps MarkInv.
LEMMA MarkStep == TypeInv /\ MergeInv /\ OneAtWork /\ MarkInv /\ [Next]_vars => MarkInv'
<1> SUFFICES ASSUME TypeInv, MergeInv, OneAtWork, MarkInv, [Next]_vars PROVE MarkInv'
  OBVIOUS
<1> USE DEF TypeInv, TypeOK, MarkInv, Holding, Transaction, pgVars, locals, tries
<1>1. ASSUME NEW v \in Version, WriteSource(v) PROVE MarkInv'
  BY <1>1 DEF WriteSource
<1>2. ASSUME NEW k \in Keys, DeleteSource(k) PROVE MarkInv'
  BY <1>2 DEF DeleteSource
<1>3. ASSUME NEW r \in Runs, ReadWatermark(r) PROVE MarkInv'
  BY <1>3 DEF ReadWatermark
<1>4. ASSUME NEW r \in Runs, SourceCount(r) PROVE MarkInv'
  BY <1>4 DEF SourceCount
<1>5. ASSUME NEW r \in Runs, Extract(r) PROVE MarkInv'
  <2>1. /\ pc[r] = "extract" /\ pc' = [pc EXCEPT ![r] = "start"]
        /\ UNCHANGED <<mark, before>>
    BY <1>5 DEF Extract
  <2>2. PICK rows \in SUBSET Current(source) : cands' = [cands EXCEPT ![r] = rows]
    BY <1>5, ExtractRows
  <2>3. PICK w \in NewestWatermark(rows, before[r]) : after' = [after EXCEPT ![r] = w]
    BY <1>5, <2>2 DEF Extract
  <2>4. before[r] # None => AtOrBefore(PyRank, before[r], w)
    BY <2>3, CurrentFinite, NewestIsNewest
  <2>5. before[r] = mark
    BY <2>1
  <2> QED BY <2>1, <2>3, <2>4, <2>5
<1>6. ASSUME NEW r \in Runs, WriteBatchStarted(r) PROVE MarkInv'
  BY <1>6 DEF WriteBatchStarted
<1>7. ASSUME NEW r \in Runs, StageRecords(r) PROVE MarkInv'
  BY <1>7 DEF StageRecords
<1>8. ASSUME NEW r \in Runs, CountUnrepresented(r) PROVE MarkInv'
  BY <1>8 DEF CountUnrepresented
<1>9. ASSUME NEW r \in Runs, MergeRaw(r) PROVE MarkInv'
  BY <1>9 DEF MergeRaw
<1>10. ASSUME NEW r \in Runs, CheckPasses(r) PROVE MarkInv'
  BY <1>10 DEF CheckPasses
<1>11. ASSUME NEW r \in Runs, CheckFails(r) PROVE MarkInv'
  BY <1>11 DEF CheckFails, Rollback
<1>12. ASSUME NEW r \in Runs, WriteWatermark(r) PROVE MarkInv'
  BY <1>12 DEF WriteWatermark
<1>13. ASSUME NEW r \in Runs, FinalizeSuccess(r) PROVE MarkInv'
  BY <1>13 DEF FinalizeSuccess
<1>14. ASSUME NEW r \in Runs, Commit(r) PROVE MarkInv'
  <2>1. /\ pc[r] = "commit" /\ mark' \in {mark, after[r]}
        /\ UNCHANGED <<before, after>>
    BY <1>14 DEF Commit, ApplyCommit, MergeInv, Locked
  <2>2. \A q \in Runs : q # r => pc[q] \notin {"count", "extract"} \cup Holding
    BY <2>1 DEF OneAtWork, Working, Finished
  <2>3. pc'[r] \in {"cleanup", "begin", "fail"} /\ \A q \in Runs : q # r => pc'[q] = pc[q]
    BY <1>14 DEF Commit, RetryOrFail
  <2> QED BY <2>1, <2>2, <2>3
<1>15. ASSUME NEW r \in Runs, CleanupStage(r) PROVE MarkInv'
  BY <1>15 DEF CleanupStage
<1>16. ASSUME NEW r \in Runs, FinalizeFailure(r) PROVE MarkInv'
  BY <1>16 DEF FinalizeFailure, AfterFailureAudit
<1>17. ASSUME NEW r \in Runs, FailureCleanup(r) PROVE MarkInv'
  BY <1>17 DEF FailureCleanup
<1>18. ASSUME NEW r \in Runs, StatementFails(r) PROVE MarkInv'
  <2>1. /\ \A q \in Runs : q # r => pc'[q] = pc[q]
        /\ pc'[r] \in {"begin", "fail"} /\ pc[r] \in Transaction
        /\ UNCHANGED <<mark, before, after>>
    BY <1>18 DEF StatementFails, RetryOrFail
  <2> QED BY <2>1
<1>19. ASSUME NEW r \in Runs, CommitAckLost(r) PROVE MarkInv'
  <2>1. /\ pc[r] = "commit" /\ mark' \in {mark, after[r]}
        /\ UNCHANGED <<before, after>>
    BY <1>19 DEF CommitAckLost, ApplyCommit, MergeInv, Locked
  <2>2. \A q \in Runs : q # r => pc[q] \notin {"count", "extract"} \cup Holding
    BY <2>1 DEF OneAtWork, Working, Finished
  <2>3. pc'[r] \in {"cleanup", "begin", "fail"} /\ \A q \in Runs : q # r => pc'[q] = pc[q]
    BY <1>19 DEF CommitAckLost, RetryOrFail
  <2> QED BY <2>1, <2>2, <2>3
<1>20. ASSUME NEW r \in Runs, StageFails(r) PROVE MarkInv'
  BY <1>20 DEF StageFails
<1>21. ASSUME NEW r \in Runs, CleanupFails(r) PROVE MarkInv'
  BY <1>21 DEF CleanupFails
<1>22. ASSUME NEW r \in Runs, FinalizeFailureFails(r) PROVE MarkInv'
  BY <1>22 DEF FinalizeFailureFails
<1>23. ASSUME NEW r \in Runs, FailureCleanupFails(r) PROVE MarkInv'
  BY <1>23 DEF FailureCleanupFails
<1>24. ASSUME NEW r \in Runs, Crash(r) PROVE MarkInv'
  BY <1>24 DEF Crash
<1>25. ASSUME NEW r \in Runs, ServerAbort(r) PROVE MarkInv'
  BY <1>25 DEF ServerAbort, Rollback
<1>26. CASE UNCHANGED vars
  BY <1>26 DEF vars
<1> QED
  BY <1>1, <1>2, <1>3, <1>4, <1>5, <1>6, <1>7, <1>8, <1>9, <1>10, <1>11, <1>12, <1>13,
     <1>14, <1>15, <1>16, <1>17, <1>18, <1>19, <1>20, <1>21, <1>22, <1>23, <1>24, <1>25,
     <1>26
  DEF Next, SourceStep, RunStep, RunFault

\* The committed watermark never moves backwards, whatever fails, when runs do not
\* overlap: a run writes a position that is not behind the one it read, and the one
\* it read is still in place (ReadWatermark, NewestWatermark, WriteWatermark).
THEOREM MarkAlwaysAdvances ==
    ASSUME Overlapping = FALSE
    PROVE  Spec => MarkNeverRegresses
<1>1. Init => MarkInv
  BY DEF Init, MarkInv, Holding, Transaction
<1>2. Spec => []MarkInv
  BY <1>1, MarkStep, Invariance, Alone, PTL DEF Spec, IInv
<1>3. ASSUME IInv, MarkInv, [Next]_vars
      PROVE  [mark # None => mark' # None /\ ~After(PyRank, mark, mark')]_mark
  <2>1. SUFFICES ASSUME mark' # mark, mark # None
                 PROVE  mark' # None /\ ~After(PyRank, mark, mark')
    OBVIOUS
  <2>2. PICK r \in Runs : Applies(r)
    BY <1>3, <2>1, StepKinds DEF WriteSource, DeleteSource, ReadWatermark, Extract, Observable
  <2>3. pc[r] \in Holding /\ mark' = after[r]
    BY <1>3, <2>1, <2>2, CommitCaptures DEF IInv, Applies, Holding, Transaction
  <2>4. before[r] = mark /\ AtOrBefore(PyRank, before[r], after[r])
    BY <1>3, <2>1, <2>3 DEF MarkInv
  <2> QED BY <2>3, <2>4 DEF AtOrBefore
<1> QED BY <1>2, <1>3, Invariance, PTL DEF MarkNeverRegresses, Spec

-----------------------------------------------------------------------------
(* Replays.                                                                 *)

\* All that RAW holds is at or before the watermark, all that a run may still
\* merge at or before the watermark it is going to write, and it writes that one.
CaughtInv ==
    /\ \A v \in Captured : AtOrBefore(PgRank, v, mark)
    /\ \A r \in Runs :
        /\ pc[r] \in Holding => \A v \in cands[r] : AtOrBefore(PgRank, v, after[r])
        /\ pc[r] \in {"finalize", "commit"} => cands[r] = {} \/ txn[r].mark = after[r]

\* What is not above a watermark is not above a later one.
LEMMA AtOrBeforeTrans ==
    ASSUME NEW v \in Version, NEW p \in Watermark, NEW q \in Watermark,
           AtOrBefore(PgRank, v, p), AtOrBefore(PgRank, p, q)
    PROVE  AtOrBefore(PgRank, v, q)
<1>1. /\ v.pk \in Keys /\ v.at \in Nat
      /\ p.pk \in Keys /\ p.at \in Nat
      /\ q.pk \in Keys /\ q.at \in Nat
  BY TimesNat DEF Version, Watermark, Position, AtOrBefore
<1> QED BY <1>1, PgRanking, OrderFacts DEF AtOrBefore

\* What a commit brings is at or before the watermark it writes, which is not behind
\* the one it replaces; a batch without candidates leaves both alone.
LEMMA CommitKeepsUp ==
    ASSUME PgRank = PyRank, TypeInv, PhaseInv, MergeInv, MarkInv, CaughtInv,
           NEW r \in Runs, Applies(r)
    PROVE  \A v \in Captured' : AtOrBefore(PgRank, v, mark')
<1>1. pc[r] = "commit" /\ pc[r] \in Holding /\ pc[r] \in Locked
  BY DEF Applies, Holding, Transaction, Locked
<1>2. Captured' \subseteq Captured \cup cands[r] /\ mark' \in {mark, after[r]}
  BY CommitCaptures
<1>3. /\ \A v \in Captured : AtOrBefore(PgRank, v, mark)
      /\ \A v \in cands[r] : AtOrBefore(PgRank, v, after[r])
      /\ cands[r] = {} \/ txn[r].mark = after[r]
  BY <1>1 DEF CaughtInv
<1>4. /\ Captured \subseteq Version /\ cands[r] \subseteq Version
      /\ mark \in Watermark /\ after[r] \in Watermark
  BY DEF TypeInv, TypeOK, Captured, VersionsOf, Row
<1>5. CASE cands[r] = {}
  <2>1. VersionsOf(txn[r].rows) = {}
    BY <1>1, <1>5 DEF MergeInv, PhaseInv, Transaction
  <2>2. Captured' = Captured
    BY <2>1, CommitCaptures
  <2>3. CASE mark' = mark
    BY <1>3, <2>2, <2>3
  <2>4. CASE mark' = after[r] /\ mark # after[r]
    <3> SUFFICES ASSUME NEW v \in Captured PROVE AtOrBefore(PgRank, v, after[r])
      BY <2>2, <2>4
    <3>1. AtOrBefore(PgRank, v, mark) /\ AtOrBefore(PgRank, mark, after[r])
      BY <1>1, <1>3, <2>4 DEF MarkInv, AtOrBefore
    <3> QED BY <1>4, <3>1, AtOrBeforeTrans
  <2> QED BY <1>2, <2>3, <2>4
<1>6. CASE cands[r] # {}
  <2>1. txn[r].mark = after[r] /\ after[r] # None
    BY <1>3, <1>6 DEF AtOrBefore
  <2>2. mark' = after[r]
    BY <2>1 DEF Applies, ApplyCommit
  <2>3. ASSUME NEW v \in Captured PROVE AtOrBefore(PgRank, v, after[r])
    <3>1. AtOrBefore(PgRank, v, mark) /\ mark # None
      BY <1>3 DEF AtOrBefore
    <3>2. mark = after[r] \/ AtOrBefore(PgRank, mark, after[r])
      BY <1>1, <3>1 DEF MarkInv
    <3> QED BY <1>4, <3>1, <3>2, AtOrBeforeTrans
  <2> QED BY <1>2, <1>3, <2>2, <2>3
<1> QED BY <1>5, <1>6

\* With one order of the keys, the rows a run has merged stay behind its watermark.
LEMMA CaughtStep ==
    ASSUME PgRank = PyRank
    PROVE  TypeInv /\ PhaseInv /\ MergeInv /\ MarkInv /\ CaughtInv /\ [Next]_vars => CaughtInv'
<1> SUFFICES ASSUME TypeInv, PhaseInv, MergeInv, MarkInv, CaughtInv, [Next]_vars
             PROVE  CaughtInv'
  OBVIOUS
<1> USE DEF TypeInv, TypeOK, CaughtInv, Holding, Transaction, Captured, VersionsOf,
            pgVars, locals, tries
<1>1. ASSUME NEW v \in Version, WriteSource(v) PROVE CaughtInv'
  BY <1>1 DEF WriteSource
<1>2. ASSUME NEW k \in Keys, DeleteSource(k) PROVE CaughtInv'
  BY <1>2 DEF DeleteSource
<1>3. ASSUME NEW r \in Runs, ReadWatermark(r) PROVE CaughtInv'
  BY <1>3 DEF ReadWatermark
<1>4. ASSUME NEW r \in Runs, SourceCount(r) PROVE CaughtInv'
  BY <1>4 DEF SourceCount
<1>5. ASSUME NEW r \in Runs, Extract(r) PROVE CaughtInv'
  <2>1. /\ pc[r] = "extract" /\ pc' = [pc EXCEPT ![r] = "start"]
        /\ UNCHANGED <<raw, mark, txn>>
    BY <1>5 DEF Extract
  <2>2. PICK rows \in SUBSET Current(source) : cands' = [cands EXCEPT ![r] = rows]
    BY <1>5, ExtractRows
  <2>3. PICK w \in NewestWatermark(rows, before[r]) : after' = [after EXCEPT ![r] = w]
    BY <1>5, <2>2 DEF Extract
  <2>4. \A v \in rows : AtOrBefore(PgRank, v, w)
    BY <2>3, CurrentFinite, NewestIsNewest
  <2> QED BY <2>1, <2>2, <2>3, <2>4
<1>6. ASSUME NEW r \in Runs, WriteBatchStarted(r) PROVE CaughtInv'
  BY <1>6 DEF WriteBatchStarted
<1>7. ASSUME NEW r \in Runs, StageRecords(r) PROVE CaughtInv'
  BY <1>7 DEF StageRecords
<1>8. ASSUME NEW r \in Runs, CountUnrepresented(r) PROVE CaughtInv'
  BY <1>8 DEF CountUnrepresented
<1>9. ASSUME NEW r \in Runs, MergeRaw(r) PROVE CaughtInv'
  BY <1>9 DEF MergeRaw
<1>10. ASSUME NEW r \in Runs, CheckPasses(r) PROVE CaughtInv'
  BY <1>10 DEF CheckPasses
<1>11. ASSUME NEW r \in Runs, CheckFails(r) PROVE CaughtInv'
  BY <1>11 DEF CheckFails, Rollback
<1>12. ASSUME NEW r \in Runs, WriteWatermark(r) PROVE CaughtInv'
  <2>1. /\ pc[r] = "watermark" /\ pc' = [pc EXCEPT ![r] = "finalize"]
        /\ UNCHANGED <<raw, mark, cands, after>>
    BY <1>12 DEF WriteWatermark
  <2>2. /\ cands[r] = {} \/ txn'[r].mark = after[r]
        /\ \A q \in Runs : q # r => txn'[q] = txn[q]
    BY <1>12 DEF WriteWatermark
  <2> QED BY <2>1, <2>2
<1>13. ASSUME NEW r \in Runs, FinalizeSuccess(r) PROVE CaughtInv'
  <2>1. /\ pc[r] = "finalize" /\ pc' = [pc EXCEPT ![r] = "commit"]
        /\ UNCHANGED <<raw, mark, cands, after>>
    BY <1>13 DEF FinalizeSuccess
  <2>2. \A q \in Runs : txn'[q].mark = txn[q].mark
    BY <1>13 DEF FinalizeSuccess
  <2> QED BY <2>1, <2>2
<1>14. ASSUME NEW r \in Runs, Commit(r) PROVE CaughtInv'
  <2>1. Applies(r) /\ UNCHANGED <<cands, after>>
    BY <1>14 DEF Commit, Applies
  <2>2. /\ \A v \in Captured' : AtOrBefore(PgRank, v, mark')
        /\ \A q \in Runs : q # r => txn'[q] = txn[q]
    <3> HIDE DEF Captured, VersionsOf
    <3> QED BY <2>1, CommitKeepsUp DEF Applies, ApplyCommit
  <2>3. pc'[r] \in {"cleanup", "begin", "fail"} /\ \A q \in Runs : q # r => pc'[q] = pc[q]
    BY <1>14 DEF Commit, RetryOrFail
  <2> QED BY <1>14, <2>1, <2>2, <2>3 DEF Commit
<1>15. ASSUME NEW r \in Runs, CleanupStage(r) PROVE CaughtInv'
  BY <1>15 DEF CleanupStage
<1>16. ASSUME NEW r \in Runs, FinalizeFailure(r) PROVE CaughtInv'
  BY <1>16 DEF FinalizeFailure, AfterFailureAudit
<1>17. ASSUME NEW r \in Runs, FailureCleanup(r) PROVE CaughtInv'
  BY <1>17 DEF FailureCleanup
<1>18. ASSUME NEW r \in Runs, StatementFails(r) PROVE CaughtInv'
  <2>1. /\ \A q \in Runs : q # r => pc'[q] = pc[q] /\ txn'[q] = txn[q]
        /\ pc'[r] \in {"begin", "fail"} /\ pc[r] \in Transaction
        /\ UNCHANGED <<raw, mark, cands, after>>
    BY <1>18 DEF StatementFails, RetryOrFail, Rollback
  <2> QED BY <2>1
<1>19. ASSUME NEW r \in Runs, CommitAckLost(r) PROVE CaughtInv'
  <2>1. Applies(r) /\ UNCHANGED <<cands, after>>
    BY <1>19 DEF CommitAckLost, Applies
  <2>2. /\ \A v \in Captured' : AtOrBefore(PgRank, v, mark')
        /\ \A q \in Runs : q # r => txn'[q] = txn[q]
    <3> HIDE DEF Captured, VersionsOf
    <3> QED BY <2>1, CommitKeepsUp DEF Applies, ApplyCommit
  <2>3. pc'[r] \in {"cleanup", "begin", "fail"} /\ \A q \in Runs : q # r => pc'[q] = pc[q]
    BY <1>19 DEF CommitAckLost, RetryOrFail
  <2> QED BY <1>19, <2>1, <2>2, <2>3 DEF CommitAckLost
<1>20. ASSUME NEW r \in Runs, StageFails(r) PROVE CaughtInv'
  BY <1>20 DEF StageFails
<1>21. ASSUME NEW r \in Runs, CleanupFails(r) PROVE CaughtInv'
  BY <1>21 DEF CleanupFails
<1>22. ASSUME NEW r \in Runs, FinalizeFailureFails(r) PROVE CaughtInv'
  BY <1>22 DEF FinalizeFailureFails
<1>23. ASSUME NEW r \in Runs, FailureCleanupFails(r) PROVE CaughtInv'
  BY <1>23 DEF FailureCleanupFails
<1>24. ASSUME NEW r \in Runs, Crash(r) PROVE CaughtInv'
  BY <1>24 DEF Crash
<1>25. ASSUME NEW r \in Runs, ServerAbort(r) PROVE CaughtInv'
  BY <1>25 DEF ServerAbort, Rollback
<1>26. CASE UNCHANGED vars
  BY <1>26 DEF vars
<1> QED
  BY <1>1, <1>2, <1>3, <1>4, <1>5, <1>6, <1>7, <1>8, <1>9, <1>10, <1>11, <1>12, <1>13,
     <1>14, <1>15, <1>16, <1>17, <1>18, <1>19, <1>20, <1>21, <1>22, <1>23, <1>24, <1>25,
     <1>26
  DEF Next, SourceStep, RunStep, RunFault

\* An unchanged replay extracts nothing again, when runs do not overlap and
\* PostgreSQL orders keys as Python does, whatever fails, is late or goes back.
THEOREM ReplaysAreEmpty ==
    ASSUME Overlapping = FALSE, PgRank = PyRank
    PROVE  Spec => []NoReplay
<1>1. Init => MarkInv /\ CaughtInv
  BY DEF Init, MarkInv, CaughtInv, Holding, Transaction, Captured, VersionsOf
<1>2. Spec => []MarkInv
  BY <1>1, MarkStep, Invariance, Alone, PTL DEF Spec, IInv
<1>3. TypeInv /\ PhaseInv /\ MergeInv /\ MarkInv /\ CaughtInv /\ [Next]_vars => CaughtInv'
  BY CaughtStep
<1>4. Spec => []CaughtInv
  BY <1>1, <1>2, <1>3, Invariance, PTL DEF Spec, IInv
<1>5. CaughtInv => NoReplay
  BY DEF CaughtInv, NoReplay, AtOrBefore
<1> QED BY <1>4, <1>5, PTL

-----------------------------------------------------------------------------
(* The audit.                                                               *)

\* One row is inserted for each version.
LEMMA RowsCounted ==
    ASSUME NEW S, IsFiniteSet(S), NEW r
    PROVE  /\ IsFiniteSet({[ver |-> v, batch |-> r] : v \in S})
           /\ Cardinality({[ver |-> v, batch |-> r] : v \in S}) = Cardinality(S)
<1> DEFINE rows == {[ver |-> v, batch |-> r] : v \in S}
           f == [v \in S |-> [ver |-> v, batch |-> r]]
<1>1. f \in Bijection(S, rows)
  <2>1. f \in [S -> rows]
    OBVIOUS
  <2>2. ASSUME NEW u \in S, NEW v \in S, f[u] = f[v] PROVE u = v
    <3>1. f[u].ver = u /\ f[v].ver = v
      OBVIOUS
    <3> QED BY <2>2, <3>1
  <2>3. \A row \in rows : \E v \in S : f[v] = row
    OBVIOUS
  <2> HIDE DEF f, rows
  <2>4. f \in Injection(S, rows)
    BY <2>1, <2>2 DEF Injection, IsInjective
  <2>5. f \in Surjection(S, rows)
    BY <2>1, <2>3 DEF Surjection
  <2> QED BY <2>4, <2>5 DEF Bijection
<1>2. ExistsBijection(S, rows)
  BY <1>1 DEF ExistsBijection
<1> HIDE DEF rows
<1> QED BY <1>2, FS_Bijection DEF rows

BatchRows(r) == {row \in raw : row.batch = r}

\* What a run counted before its MERGE is what the MERGE inserts, since no other
\* run commits in between; and a batch has no row in RAW before its COMMIT.
ExactInv ==
    \A r \in Runs :
        /\ pc[r] = "merge" => inserted[r] = Cardinality(stage[r] \ Captured)
        /\ pc[r] \in Locked => inserted[r] = Cardinality(txn[r].rows)
        /\ pc[r] \in {"idle", "count", "extract"} \cup Holding =>
              BatchRows(r) = {} /\ audit[r].status # "SUCCESS"
        /\ audit[r].status = "SUCCESS" => audit[r].rowsInserted = Cardinality(BatchRows(r))

\* The commit of a batch makes its rows and its mark those of the audit.
LEMMA CommitExact ==
    ASSUME TypeInv, PhaseInv, MergeInv, OneAtWork, ExactInv, NEW r \in Runs, Applies(r),
           pc'[r] = "cleanup", \A q \in Runs : q # r => pc'[q] = pc[q],
           UNCHANGED <<stage, inserted>>
    PROVE  ExactInv'
<1> USE DEF TypeInv, TypeOK
<1>1. pc[r] = "commit" /\ pc[r] \in Locked /\ pc[r] \in Holding
  BY DEF Applies, Locked, Holding, Transaction
<1>2. /\ raw' = raw \cup txn[r].rows
      /\ audit' \in {audit, [audit EXCEPT ![r] = [status |-> "SUCCESS", rowsInserted |-> inserted[r]]]}
      /\ \A q \in Runs : q # r => txn'[q] = txn[q]
  BY DEF Applies, ApplyCommit
<1>3. \A row \in txn[r].rows : row.batch = r
  BY <1>1 DEF MergeInv
<1>4. ASSUME NEW q \in Runs, q # r
      PROVE  BatchRows(q)' = BatchRows(q) /\ audit'[q] = audit[q] /\ pc'[q] = pc[q]
  BY <1>2, <1>3, <1>4 DEF BatchRows
<1>5. BatchRows(r)' = txn[r].rows
  <2>1. BatchRows(r) = {}
    BY <1>1 DEF ExactInv
  <2> QED BY <1>2, <1>3, <2>1 DEF BatchRows
<1>6. ASSUME NEW q \in Runs, q # r
      PROVE  pc[q] # "merge" /\ pc[q] \notin Locked
  BY <1>1, <1>6 DEF OneAtWork, Working, Finished, Locked
<1>7. audit'[r].status = "SUCCESS" => audit'[r].rowsInserted = Cardinality(BatchRows(r)')
  <2>1. inserted[r] = Cardinality(txn[r].rows)
    BY <1>1 DEF ExactInv
  <2>2. CASE audit' = audit
    <3>1. audit[r].status # "SUCCESS"
      BY <1>1 DEF ExactInv
    <3> QED BY <2>2, <3>1
  <2>3. CASE audit' = [audit EXCEPT ![r] = [status |-> "SUCCESS", rowsInserted |-> inserted[r]]]
    <3>1. audit'[r].rowsInserted = inserted[r]
      BY <2>3
    <3> QED BY <1>5, <2>1, <3>1
  <2> QED BY <1>2, <2>2, <2>3
<1>8. ASSUME NEW q \in Runs, audit'[q].status = "SUCCESS"
      PROVE  audit'[q].rowsInserted = Cardinality(BatchRows(q)')
  <2>1. CASE q = r
    BY <1>7, <1>8, <2>1
  <2>2. CASE q # r
    BY <1>4, <1>8, <2>2 DEF ExactInv
  <2> QED BY <2>1, <2>2
<1>9. pc'[r] \notin {"merge"} \cup Locked \cup {"idle", "count", "extract"} \cup Holding
  BY DEF Locked, Holding, Transaction
<1> QED BY <1>4, <1>6, <1>8, <1>9 DEF ExactInv

\* No step separates the audit from the rows, if no commit is left unacknowledged.
LEMMA ExactStep ==
    ASSUME "commitAck" \notin FaultKinds
    PROVE  TypeInv /\ PhaseInv /\ MergeInv /\ OneAtWork /\ ExactInv /\ [Next]_vars => ExactInv'
<1> SUFFICES ASSUME TypeInv, PhaseInv, MergeInv, OneAtWork, ExactInv, [Next]_vars
             PROVE  ExactInv'
  OBVIOUS
<1>raw. raw' = raw => \A q \in Runs : BatchRows(q)' = BatchRows(q)
  BY DEF BatchRows
<1> USE DEF TypeInv, TypeOK, ExactInv, Holding, Transaction, Locked,
            Captured, VersionsOf, pgVars, locals, tries
<1>1. ASSUME NEW v \in Version, WriteSource(v) PROVE ExactInv'
  BY <1>1, <1>raw DEF WriteSource
<1>2. ASSUME NEW k \in Keys, DeleteSource(k) PROVE ExactInv'
  BY <1>2, <1>raw DEF DeleteSource
<1>3. ASSUME NEW r \in Runs, ReadWatermark(r) PROVE ExactInv'
  BY <1>3, <1>raw DEF ReadWatermark
<1>4. ASSUME NEW r \in Runs, SourceCount(r) PROVE ExactInv'
  BY <1>4, <1>raw DEF SourceCount
<1>5. ASSUME NEW r \in Runs, Extract(r) PROVE ExactInv'
  BY <1>5, <1>raw DEF Extract
<1>6. ASSUME NEW r \in Runs, WriteBatchStarted(r) PROVE ExactInv'
  <2>1. /\ pc[r] = "start" /\ pc' = [pc EXCEPT ![r] = "stage"]
        /\ UNCHANGED <<raw, txn, stage, inserted>>
        /\ audit'[r].status = "STARTED" /\ \A q \in Runs : q # r => audit'[q] = audit[q]
    BY <1>6 DEF WriteBatchStarted
  <2> QED BY <2>1, <1>raw
<1>7. ASSUME NEW r \in Runs, StageRecords(r) PROVE ExactInv'
  <2>1. /\ pc[r] = "stage" /\ pc' = [pc EXCEPT ![r] = "begin"]
        /\ UNCHANGED <<raw, txn, audit, inserted>>
        /\ \A q \in Runs : q # r => stage'[q] = stage[q]
    BY <1>7 DEF StageRecords
  <2> QED BY <2>1, <1>raw
<1>8. ASSUME NEW r \in Runs, CountUnrepresented(r) PROVE ExactInv'
  <2>1. /\ pc[r] = "begin" /\ pc' = [pc EXCEPT ![r] = "merge"]
        /\ UNCHANGED <<raw, stage, txn, audit>>
        /\ inserted' = [inserted EXCEPT ![r] = Cardinality(stage[r] \ Captured)]
    BY <1>8 DEF CountUnrepresented
  <2> QED BY <2>1, <1>raw
<1>9. ASSUME NEW r \in Runs, MergeRaw(r) PROVE ExactInv'
  <2>1. /\ pc[r] = "merge" /\ pc' = [pc EXCEPT ![r] = "check"]
        /\ UNCHANGED <<raw, stage, audit, inserted>>
        /\ \A q \in Runs : q # r => txn'[q] = txn[q]
        /\ txn'[r].rows = {[ver |-> v, batch |-> r] : v \in stage[r] \ Captured}
    BY <1>9 DEF MergeRaw
  <2>2. inserted'[r] = Cardinality(txn'[r].rows)
    <3>1. stage[r] \ Captured \in SUBSET stage[r]
      OBVIOUS
    <3>2. IsFiniteSet(stage[r] \ Captured)
      BY <3>1, FS_Subset
    <3>3. inserted[r] = Cardinality(stage[r] \ Captured)
      BY <2>1
    <3> HIDE DEF Captured
    <3>4. Cardinality(txn'[r].rows) = Cardinality(stage[r] \ Captured)
      <4> DEFINE new == stage[r] \ Captured
      <4>1. IsFiniteSet(new) /\ txn'[r].rows = {[ver |-> v, batch |-> r] : v \in new}
        BY <2>1, <3>2
      <4> HIDE DEF new
      <4>2. Cardinality(txn'[r].rows) = Cardinality(new)
        BY ONLY <4>1, RowsCounted
      <4> QED BY <4>2 DEF new
    <3> QED BY <2>1, <3>3, <3>4
  <2> QED BY <2>1, <2>2, <1>raw
<1>10. ASSUME NEW r \in Runs, CheckPasses(r) PROVE ExactInv'
  BY <1>10, <1>raw DEF CheckPasses
<1>11. ASSUME NEW r \in Runs, CheckFails(r) PROVE ExactInv'
  BY <1>11, <1>raw DEF CheckFails, Rollback
<1>12. ASSUME NEW r \in Runs, WriteWatermark(r) PROVE ExactInv'
  <2>1. /\ pc[r] = "watermark" /\ pc' = [pc EXCEPT ![r] = "finalize"]
        /\ UNCHANGED <<raw, audit, stage, inserted>>
    BY <1>12 DEF WriteWatermark
  <2>2. \A q \in Runs : txn'[q].rows = txn[q].rows
    BY <1>12 DEF WriteWatermark
  <2> QED BY <2>1, <2>2, <1>raw
<1>13. ASSUME NEW r \in Runs, FinalizeSuccess(r) PROVE ExactInv'
  <2>1. /\ pc[r] = "finalize" /\ pc' = [pc EXCEPT ![r] = "commit"]
        /\ UNCHANGED <<raw, audit, stage, inserted>>
    BY <1>13 DEF FinalizeSuccess
  <2>2. \A q \in Runs : txn'[q].rows = txn[q].rows
    BY <1>13 DEF FinalizeSuccess
  <2> QED BY <2>1, <2>2, <1>raw
<1>14. ASSUME NEW r \in Runs, Commit(r) PROVE ExactInv'
  <2>1. Applies(r) /\ pc'[r] = "cleanup" /\ UNCHANGED <<stage, inserted>>
    BY <1>14 DEF Commit, Applies
  <2>2. \A q \in Runs : q # r => pc'[q] = pc[q]
    BY <1>14 DEF Commit
  <2> QED BY <2>1, <2>2, CommitExact
<1>15. ASSUME NEW r \in Runs, CleanupStage(r) PROVE ExactInv'
  BY <1>15, <1>raw DEF CleanupStage
<1>16. ASSUME NEW r \in Runs, FinalizeFailure(r) PROVE ExactInv'
  <2>1. /\ pc[r] = "fail" /\ pc'[r] \in {"failCleanup", "failed"}
        /\ \A q \in Runs : q # r => pc'[q] = pc[q]
        /\ UNCHANGED <<raw, txn, stage, inserted>>
        /\ audit'[r].status = "FAILED" /\ \A q \in Runs : q # r => audit'[q] = audit[q]
    BY <1>16 DEF FinalizeFailure, AfterFailureAudit
  <2> QED BY <2>1, <1>raw
<1>17. ASSUME NEW r \in Runs, FailureCleanup(r) PROVE ExactInv'
  BY <1>17, <1>raw DEF FailureCleanup
<1>18. ASSUME NEW r \in Runs, StatementFails(r) PROVE ExactInv'
  <2>1. /\ \A q \in Runs : q # r => pc'[q] = pc[q] /\ txn'[q] = txn[q]
        /\ pc'[r] \in {"begin", "fail"} /\ pc[r] \in Transaction
        /\ UNCHANGED <<raw, audit, stage, inserted>>
    BY <1>18 DEF StatementFails, RetryOrFail, Rollback
  <2> QED BY <2>1, <1>raw
<1>19. ASSUME NEW r \in Runs, CommitAckLost(r) PROVE ExactInv'
  BY <1>19, <1>raw DEF CommitAckLost, Fault
<1>20. ASSUME NEW r \in Runs, StageFails(r) PROVE ExactInv'
  BY <1>20, <1>raw DEF StageFails
<1>21. ASSUME NEW r \in Runs, CleanupFails(r) PROVE ExactInv'
  BY <1>21, <1>raw DEF CleanupFails
<1>22. ASSUME NEW r \in Runs, FinalizeFailureFails(r) PROVE ExactInv'
  BY <1>22, <1>raw DEF FinalizeFailureFails
<1>23. ASSUME NEW r \in Runs, FailureCleanupFails(r) PROVE ExactInv'
  BY <1>23, <1>raw DEF FailureCleanupFails
<1>24. ASSUME NEW r \in Runs, Crash(r) PROVE ExactInv'
  BY <1>24, <1>raw DEF Crash
<1>25. ASSUME NEW r \in Runs, ServerAbort(r) PROVE ExactInv'
  BY <1>25, <1>raw DEF ServerAbort, Rollback
<1>26. CASE UNCHANGED vars
  BY <1>26, <1>raw DEF vars
<1> QED
  BY <1>1, <1>2, <1>3, <1>4, <1>5, <1>6, <1>7, <1>8, <1>9, <1>10, <1>11, <1>12, <1>13,
     <1>14, <1>15, <1>16, <1>17, <1>18, <1>19, <1>20, <1>21, <1>22, <1>23, <1>24, <1>25,
     <1>26
  DEF Next, SourceStep, RunStep, RunFault

\* ROWS_INSERTED of a SUCCESS batch is the number of RAW rows it added, when runs do
\* not overlap and no answer to a COMMIT is lost: it was counted before the MERGE.
THEOREM AuditAlwaysExact ==
    ASSUME Overlapping = FALSE, "commitAck" \notin FaultKinds
    PROVE  Spec => []AuditExact
<1>1. Init => ExactInv
  BY DEF Init, ExactInv, BatchRows, Locked
<1>2. TypeInv /\ PhaseInv /\ MergeInv /\ OneAtWork /\ ExactInv /\ [Next]_vars => ExactInv'
  BY ExactStep
<1>3. ExactInv => AuditExact
  BY DEF ExactInv, AuditExact, BatchRows
<1> QED BY <1>1, <1>2, <1>3, Alone, Invariance, PTL DEF Spec, IInv
=============================================================================
