--------------------------- MODULE PlatformRun_proofs ---------------------------
(***************************************************************************)
(* Proofs about PlatformRun, for any number of tables whose foreign keys   *)
(* point to earlier tables, any rows, and any number of executions of each *)
(* kind that overlap, fail, retry and are killed.                          *)
(***************************************************************************)
EXTENDS PlatformRun, TLAPS

-----------------------------------------------------------------------------
(* Lemmas about the ops.                                                    *)

\* Where an op that raised leads: to its own beginning or to the end.
LEMMA OpFailsLeads ==
    ASSUME NEW a \in Actors, TypeOK, OpFails(a), pc[a] \notin {"idle"} \cup Finished
    PROVE  /\ \E phase \in {"validate", "connect", "dbt", "health", "failed"} :
                 /\ pc' = [pc EXCEPT ![a] = phase]
                 /\ phase = "dbt" => pc[a] = "dbt"
                 /\ phase = "health" => pc[a] = "health"
           /\ pos' \in [Actors -> 1..NumTables]
           /\ Forget(a)
           /\ tries' \in [Actors -> 0..2]
           /\ tries'[a] <= MaxRetries(a, pc'[a]) \/ pc'[a] = "failed"
           /\ \A b \in Actors \ {a} : tries'[b] = tries[b]
<1> USE DEF TypeOK, Phases, Passing, Finished
<1>1. CASE MayRetry(a)
  <2>1. pc' = [pc EXCEPT ![a] = RestartAt(a).phase]
    BY <1>1 DEF OpFails
  <2>2. \/ RestartAt(a) = [phase |-> "connect", table |-> 1]
        \/ RestartAt(a) = [phase |-> pc[a], table |-> pos[a]] /\ pc[a] \notin Passing
    BY DEF RestartAt
  <2>3. RestartAt(a).phase \in {"validate", "connect", "dbt", "health"}
    BY <2>2
  <2>4. RestartAt(a).table \in 1..NumTables
    BY <2>2, TablesNat
  <2>5. tries[a] + 1 <= MaxRetries(a, RestartAt(a).phase) /\ tries[a] + 1 \in 0..2
    BY <1>1, <2>2 DEF MayRetry, MaxRetries, RestartAt
  <2>6. /\ pos' = [pos EXCEPT ![a] = RestartAt(a).table]
        /\ tries' = [tries EXCEPT ![a] = @ + 1]
        /\ Forget(a)
    BY <1>1 DEF OpFails
  <2>7. pc'[a] = RestartAt(a).phase /\ tries'[a] = tries[a] + 1
    BY <2>1, <2>6
  <2>8. pos' \in [Actors -> 1..NumTables]
    BY <2>4, <2>6
  <2>9. tries' \in [Actors -> 0..2] /\ \A b \in Actors \ {a} : tries'[b] = tries[b]
    BY <2>5, <2>6
  <2>10. tries'[a] <= MaxRetries(a, pc'[a])
    BY <2>5, <2>7
  <2>11. /\ RestartAt(a).phase = "dbt" => pc[a] = "dbt"
         /\ RestartAt(a).phase = "health" => pc[a] = "health"
    BY <2>2
  <2> QED BY <2>1, <2>3, <2>6, <2>8, <2>9, <2>10, <2>11
<1>2. CASE ~MayRetry(a)
  BY <1>2 DEF OpFails
<1> QED BY <1>1, <1>2

\* The variables of the op that raised keep their types.
OpTypes ==
    /\ pc \in [Actors -> Phases]
    /\ pos \in [Actors -> 1..NumTables]
    /\ seen \in [Actors -> SUBSET history]
    /\ after \in [Actors -> 0..MaxPlace]
    /\ tries \in [Actors -> 0..2]
    /\ \A a \in Actors : tries[a] <= MaxRetries(a, pc[a]) \/ pc[a] \in Finished

LEMMA OpFailsTyped ==
    ASSUME NEW a \in Actors, TypeOK, OpFails(a), pc[a] \notin {"idle"} \cup Finished,
           history' = history
    PROVE  OpTypes'
<1>1. PICK phase \in {"validate", "connect", "dbt", "health", "failed"} :
          pc' = [pc EXCEPT ![a] = phase]
  BY OpFailsLeads
<1>2. /\ pos' \in [Actors -> 1..NumTables]
      /\ Forget(a)
      /\ tries' \in [Actors -> 0..2]
      /\ tries'[a] <= MaxRetries(a, pc'[a]) \/ pc'[a] = "failed"
      /\ \A b \in Actors \ {a} : tries'[b] = tries[b]
  BY OpFailsLeads
<1>3. pc' \in [Actors -> Phases]
  BY <1>1 DEF TypeOK, Phases, Finished
<1>4. seen' \in [Actors -> SUBSET history'] /\ after' \in [Actors -> 0..MaxPlace]
  BY <1>2, BoundsNat DEF TypeOK, Forget
<1>5. ASSUME NEW b \in Actors
      PROVE  tries'[b] <= MaxRetries(b, pc'[b]) \/ pc'[b] \in Finished
  <2>1. CASE b = a
    BY <1>2, <2>1 DEF Finished
  <2>2. CASE b # a
    <3>1. pc'[b] = pc[b] /\ tries'[b] = tries[b]
      BY <1>1, <1>2, <2>2 DEF TypeOK
    <3> QED BY <3>1 DEF TypeOK
  <2> QED BY <2>1, <2>2
<1> QED BY <1>2, <1>3, <1>4, <1>5 DEF OpTypes

\* So do those of the execution that goes on to its next op.
LEMMA GoesToTyped ==
    ASSUME NEW a \in Actors, NEW phase \in Phases, TypeOK, GoesTo(a, phase)
    PROVE  /\ pc' \in [Actors -> Phases]
           /\ tries' \in [Actors -> 0..2]
           /\ \A b \in Actors : tries'[b] <= MaxRetries(b, pc'[b]) \/ pc'[b] \in Finished
BY DEF GoesTo, TypeOK, MaxRetries

-----------------------------------------------------------------------------
(* Type correctness.                                                        *)

LEMMA TypeInit == Init => TypeOK
BY TablesNat, BoundsNat
   DEF Init, TypeOK, Statuses, Phases, Passing, Finished, MaxRetries, Row

LEMMA TypeStep == TypeOK /\ [Next]_vars => TypeOK'
<1> SUFFICES ASSUME TypeOK, [Next]_vars PROVE TypeOK'
  OBVIOUS
<1> USE DEF pg, schema, warehouse, batch, Fault
<1> DEFINE Batches == [Tables -> [owner : Actors \cup {None}, status : Statuses]]
<1>a. ASSUME NEW a \in Actors, NEW status \in Statuses, Audit(a, status)
      PROVE  latest' \in Batches
  BY <1>a DEF Audit, TypeOK, Tables
<1>b. ASSUME NEW a \in Actors, Forget(a), history' = history
      PROVE  seen' \in [Actors -> SUBSET history'] /\ after' \in [Actors -> 0..MaxPlace]
  BY <1>b, BoundsNat DEF Forget, TypeOK
<1>c. ASSUME NEW a \in Actors, Commit(a), history' = history
      PROVE  raw' \subseteq history' /\ mark' \in [Tables -> 0..MaxPlace]
  BY <1>c DEF Commit, TypeOK, Tables
<1>1. ASSUME NEW rows \in SUBSET Row, NEW at \in [rows -> Places], InsertRows(rows, at)
      PROVE  TypeOK'
  <2>1. history \subseteq history'
    BY <1>1 DEF InsertRows
  <2>2. /\ seen' \in [Actors -> SUBSET history']
        /\ begun' \in [Actors -> SUBSET history']
        /\ built' \in [Actors -> SUBSET history']
    BY <1>1, <2>1 DEF InsertRows, TypeOK
  <2>3. place' \in [Row -> 0..MaxPlace]
    BY <1>1, BoundsNat DEF InsertRows, TypeOK, Places
  <2>4. writes' \in 0..MaxWrites
    BY <1>1, BoundsNat DEF InsertRows, Write, TypeOK
  <2> QED BY <1>1, <2>1, <2>2, <2>3, <2>4 DEF InsertRows, TypeOK, MaxRetries
<1>2. ASSUME NEW row \in Row, DeleteRow(row) PROVE TypeOK'
  BY <1>2, BoundsNat DEF DeleteRow, Write, TypeOK, MaxRetries
<1>3. ASSUME NEW t \in Tables, AlterTable(t) PROVE TypeOK'
  BY <1>3, BoundsNat DEF AlterTable, TypeOK, MaxRetries
<1>4. ASSUME NEW a \in Actors, Launch(a) PROVE TypeOK'
  BY <1>4, TablesNat DEF Launch, GoesTo, BeginPass, TypeOK, Phases, Passing, MaxRetries
<1>5. ASSUME NEW a \in Actors, ValidateOp(a) PROVE TypeOK'
  <2>1. CASE drifted = {}
    <3>1. GoesTo(a, "connect") /\ "connect" \in Phases
      BY <1>5, <2>1 DEF ValidateOp, Phases
    <3> QED BY <1>5, <2>1, <3>1, GoesToTyped DEF ValidateOp, TypeOK
  <2>2. CASE drifted # {}
    <3>1. OpFails(a)
      BY <1>5, <2>2 DEF ValidateOp
    <3> QED
      BY <1>5, <2>2, <3>1, OpFailsTyped DEF ValidateOp, TypeOK, OpTypes, Finished
  <2> QED BY <2>1, <2>2
<1>6. ASSUME NEW a \in Actors, ValidateSource(a) PROVE TypeOK'
  <2>1. CASE drifted = {}
    <3>1. /\ pc[a] = "connect" /\ pc' = [pc EXCEPT ![a] = "read"] /\ UNCHANGED tries
          /\ BeginPass(a) /\ altered' = [altered EXCEPT ![a] = {}]
      BY <1>6, <2>1 DEF ValidateSource
    <3>2. pc' \in [Actors -> Phases]
      BY <3>1 DEF TypeOK, Phases, Passing
    <3>3. \A b \in Actors : tries'[b] <= MaxRetries(b, pc'[b]) \/ pc'[b] \in Finished
      BY <3>1 DEF TypeOK, MaxRetries, Finished
    <3>4. /\ pos' \in [Actors -> 1..NumTables]
          /\ begun' \in [Actors -> SUBSET history]
          /\ altered' \in [Actors -> SUBSET Tables]
      BY <3>1, TablesNat DEF BeginPass, TypeOK
    <3> QED BY <1>6, <2>1, <3>1, <3>2, <3>3, <3>4 DEF ValidateSource, TypeOK
  <2>2. CASE drifted # {}
    <3>1. OpFails(a)
      BY <1>6, <2>2 DEF ValidateSource
    <3> QED
      BY <1>6, <2>2, <3>1, OpFailsTyped
         DEF ValidateSource, TypeOK, OpTypes, Finished
  <2> QED BY <2>1, <2>2
<1>7. ASSUME NEW a \in Actors, ReadTable(a) PROVE TypeOK'
  <2>1. seen' \in [Actors -> SUBSET history']
    BY <1>7 DEF ReadTable, Extract, Rows, TypeOK
  <2>2. after' \in [Actors -> 0..MaxPlace]
    BY <1>7 DEF ReadTable, TypeOK
  <2> QED
    BY <1>7, <2>1, <2>2
       DEF ReadTable, TypeOK, Phases, Passing, Finished, MaxRetries, Statuses, Tables
<1>8. ASSUME NEW a \in Actors, ApplyBatch(a) PROVE TypeOK'
  <2>1. latest' \in Batches
    BY <1>8, <1>a DEF ApplyBatch, Statuses
  <2>2. /\ raw' \subseteq history' /\ mark' \in [Tables -> 0..MaxPlace]
        /\ seen' \in [Actors -> SUBSET history'] /\ after' \in [Actors -> 0..MaxPlace]
    BY <1>8, <1>b, <1>c DEF ApplyBatch
  <2>3. CASE pos[a] < NumTables
    <3>1. pos' \in [Actors -> 1..NumTables]
      BY <1>8, <2>3, TablesNat DEF ApplyBatch, TypeOK
    <3>2. pc' \in [Actors -> Phases]
      BY <1>8, <2>3 DEF ApplyBatch, TypeOK, Phases, Passing
    <3>3. \A b \in Actors : tries'[b] <= MaxRetries(b, pc'[b]) \/ pc'[b] \in Finished
      BY <1>8, <2>3 DEF ApplyBatch, TypeOK, MaxRetries, Finished
    <3> QED BY <1>8, <2>1, <2>2, <2>3, <3>1, <3>2, <3>3 DEF ApplyBatch, TypeOK
  <2>4. CASE ~(pos[a] < NumTables)
    <3>1. PICK phase \in {"dbt", "succeeded"} : GoesTo(a, phase) /\ UNCHANGED pos
      BY <1>8, <2>4 DEF ApplyBatch
    <3>2. phase \in Phases
      BY DEF Phases, Finished
    <3> QED BY <1>8, <2>1, <2>2, <3>1, <3>2, GoesToTyped DEF ApplyBatch, TypeOK
  <2> QED BY <2>3, <2>4
<1>9. ASSUME NEW a \in Actors, DbtBuild(a) PROVE TypeOK'
  <2>1. CASE Closed(raw)
    BY <1>9, <2>1 DEF DbtBuild, GoesTo, TypeOK, Phases, Passing, Finished, MaxRetries
  <2>2. CASE ~Closed(raw)
    <3>1. OpFails(a)
      BY <1>9, <2>2 DEF DbtBuild
    <3> QED
      BY <1>9, <2>2, <3>1, OpFailsTyped DEF DbtBuild, TypeOK, OpTypes, Finished
  <2> QED BY <2>1, <2>2
<1>10. ASSUME NEW a \in Actors, VerifyHealth(a) PROVE TypeOK'
  <2>1. CASE Healthy
    BY <1>10, <2>1 DEF VerifyHealth, GoesTo, TypeOK, Phases, Passing, Finished, MaxRetries
  <2>2. CASE ~Healthy
    <3>1. OpFails(a)
      BY <1>10, <2>2 DEF VerifyHealth
    <3> QED
      BY <1>10, <2>2, <3>1, OpFailsTyped
         DEF VerifyHealth, TypeOK, OpTypes, Finished
  <2> QED BY <2>1, <2>2
<1>11. ASSUME NEW a \in Actors, OpRaises(a) PROVE TypeOK'
  BY <1>11, OpFailsTyped, BoundsNat DEF OpRaises, TypeOK, OpTypes, Finished
<1>12. ASSUME NEW a \in Actors, BatchFails(a) PROVE TypeOK'
  <2>1. latest' \in Batches
    BY <1>12, <1>a DEF BatchFails, Statuses
  <2>2. raw' \subseteq history /\ mark' \in [Tables -> 0..MaxPlace]
    BY <1>12, <1>c DEF BatchFails, TypeOK
  <2> QED
    BY <1>12, <2>1, <2>2, OpFailsTyped, BoundsNat DEF BatchFails, TypeOK, OpTypes, Finished
<1>13. ASSUME NEW a \in Actors, Crash(a) PROVE TypeOK'
  BY <1>13, <1>b, BoundsNat DEF Crash, TypeOK, Phases, Passing, Finished, MaxRetries
<1>14. CASE UNCHANGED vars
  BY <1>14 DEF vars, TypeOK, MaxRetries
<1> QED
  BY <1>1, <1>2, <1>3, <1>4, <1>5, <1>6, <1>7, <1>8, <1>9, <1>10, <1>11, <1>12,
     <1>13, <1>14 DEF Next, SourceStep, ActorStep

\* Every variable keeps its type, and no op is retried more often than its
\* RetryPolicy says.
THEOREM TypeCorrect == Spec => []TypeOK
<1> QED BY TypeInit, TypeStep, PTL DEF Spec

-----------------------------------------------------------------------------
(* Closure of RAW, and what a successful job has captured.                  *)

\* The rows up to the watermark, and up to what a batch is about to make of it,
\* have been captured, those inserted behind it excepted.
MarkInv ==
    \A row \in source \ late : place[row] <= mark[row.table] => row \in raw

FlightInv ==
    \A a \in Actors : pc[a] = "apply" =>
        \A row \in source \ late :
            row.table = pos[a] /\ place[row] <= after[a] => row \in raw \cup seen[a]

\* What a pass has done by the time it stands at a table: the rows it is to
\* capture are in RAW if their table comes before, and in RAW or extracted if it
\* has been read.  Rows it has not seen from the beginning were inserted while it
\* was reading.
PassInv ==
    \A a \in Actors : pc[a] \in Passing =>
        /\ source \ exposed \subseteq begun[a]
        /\ Closed(begun[a])
        /\ \A row \in Due(a) :
              /\ row.table < pos[a] => row \in raw
              /\ pc[a] = "apply" /\ row.table = pos[a] => row \in raw \cup seen[a]

\* Extracted rows that are not recent have their parents in RAW already, unless
\* these were late.
SeenInv ==
    \A a \in Actors : \A row \in seen[a] \ exposed : ParentsOf(row) \subseteq raw \cup late

\* After the pass, and after dbt build.
AfterInv ==
    \A a \in Actors :
        /\ pc[a] \in {"dbt", "health", "succeeded"} => Due(a) \subseteq raw
        /\ a \in Jobs /\ pc[a] \in {"health", "succeeded"} => Due(a) \subseteq built[a]

IInv ==
    /\ TypeOK /\ Closed(source)
    /\ MarkInv /\ FlightInv /\ PassInv /\ SeenInv /\ AfterInv
    /\ NoOldOrphans

LEMMA InvInit == Init => IInv
BY TypeInit
   DEF Init, IInv, Closed, MarkInv, FlightInv, PassInv, SeenInv, AfterInv, NoOldOrphans, Passing

\* A foreign key points to an earlier table.
LEMMA ParentsEarlier ==
    ASSUME NEW row \in Row, NEW parent \in ParentsOf(row)
    PROVE  parent \in Row /\ parent.table < row.table
<1>1. PICK u \in Parents[row.table] : parent = [table |-> u, fam |-> row.fam]
  BY DEF ParentsOf
<1>2. u \in Tables /\ u < row.table
  BY ParentsFirst DEF Row
<1> QED BY <1>1, <1>2 DEF Row

\* The transaction of a batch captures all that its watermark passes.
LEMMA CommitMarks ==
    ASSUME IInv, NEW a \in Actors, pc[a] = "apply", Commit(a), UNCHANGED <<source, place, late>>
    PROVE  /\ raw' = raw \cup seen[a]
           /\ MarkInv'
<1>1. raw' = raw \cup seen[a]
  BY DEF Commit
<1>2. SUFFICES ASSUME NEW row \in source \ late, place[row] <= mark'[row.table]
               PROVE  row \in raw'
  BY <1>1 DEF MarkInv
<1>3. row.table \in Tables /\ mark \in [Tables -> 0..MaxPlace]
  BY DEF IInv, TypeOK, Row
<1>4. CASE mark'[row.table] = mark[row.table]
  BY <1>1, <1>2, <1>4 DEF IInv, MarkInv
<1>5. CASE mark'[row.table] # mark[row.table]
  <2>1. row.table = pos[a] /\ mark'[row.table] = after[a]
    BY <1>3, <1>5 DEF Commit
  <2> QED BY <1>1, <1>2, <2>1 DEF IInv, FlightInv
<1> QED BY <1>4, <1>5

\* Steps that move no data into RAW but what the execution has extracted keep the
\* invariants when they keep every execution where it was, except for one that
\* leaves the pass for an earlier op or the end.
Moves(a) ==
    /\ UNCHANGED <<source, history, exposed, place, late, begun>>
    /\ raw \subseteq raw' /\ raw' \ raw \subseteq seen[a]
    /\ MarkInv'
    /\ \A b \in Actors : seen'[b] \in {seen[b], {}}
    /\ \A b \in Actors \ {a} : /\ pc'[b] = pc[b] /\ pos'[b] = pos[b]
                              /\ seen'[b] = seen[b] /\ after'[b] = after[b]
                              /\ built'[b] = built[b]
    /\ \/ pc'[a] \in {"validate", "connect", "failed", "crashed"}
       \/ pc'[a] = pc[a] /\ pc[a] \in {"dbt", "health"}
    /\ built'[a] = built[a]

LEMMA ControlStep ==
    ASSUME IInv, TypeOK', NEW a \in Actors, Moves(a)
    PROVE  IInv'
<1> USE DEF IInv, Moves
<1>1. Closed(source)'
  BY DEF Closed
<1>d. \A b \in Actors : Due(b)' = Due(b)
  BY DEF Due
<1>2. PassInv'
  <2> SUFFICES ASSUME NEW b \in Actors, (pc[b] \in Passing)'
               PROVE  /\ source \ exposed \subseteq begun[b]
                      /\ Closed(begun[b])
                      /\ \A row \in Due(b) :
                            /\ row.table < pos'[b] => row \in raw'
                            /\ pc'[b] = "apply" /\ row.table = pos'[b]
                                  => row \in raw' \cup seen'[b]
    BY <1>d DEF PassInv, Closed
  <2>1. b # a /\ pc'[b] = pc[b] /\ pos'[b] = pos[b] /\ seen'[b] = seen[b]
    BY DEF Passing
  <2> QED BY <2>1 DEF PassInv
<1>3. SeenInv'
  <2> SUFFICES ASSUME NEW b \in Actors, NEW row \in seen'[b] \ exposed
               PROVE  ParentsOf(row) \subseteq raw' \cup late
    BY DEF SeenInv, ParentsOf
  <2> QED BY DEF SeenInv
<1>4. AfterInv'
  BY <1>d DEF AfterInv
<1>5. NoOldOrphans'
  BY DEF NoOldOrphans, SeenInv, ParentsOf
<1>6. FlightInv'
  <2> SUFFICES ASSUME NEW b \in Actors, pc'[b] = "apply", NEW row \in source \ late,
                      row.table = pos'[b], place[row] <= after'[b]
               PROVE  row \in raw' \cup seen'[b]
    BY DEF FlightInv
  <2>1. b # a
    OBVIOUS
  <2> QED BY <2>1 DEF FlightInv
<1> QED BY <1>1, <1>2, <1>3, <1>4, <1>5, <1>6

LEMMA InvStep == IInv /\ [Next]_vars => IInv'
<1> SUFFICES ASSUME IInv, [Next]_vars PROVE IInv'
  OBVIOUS
<1>t. TypeOK /\ TypeOK'
  BY TypeStep DEF IInv
<1> USE DEF pg, schema, warehouse, batch, Fault
<1>n. TypeOK => /\ \A row \in source : row.table \in Nat
                /\ \A a \in Actors : pos[a] \in Nat
  <2>1. TypeOK => source \subseteq Row /\ pos \in [Actors -> 1..NumTables]
    BY DEF TypeOK
  <2> QED BY <2>1, TablesNat DEF Row, Tables
<1>m. ASSUME UNCHANGED <<source, place, late, raw, mark>>
      PROVE  MarkInv'
  BY <1>m DEF IInv, MarkInv
<1>f. ASSUME NEW a \in Actors, OpFails(a), pc[a] \notin {"idle"} \cup Finished,
             UNCHANGED <<source, history, exposed, place, late, begun, built>>,
             raw \subseteq raw', raw' \ raw \subseteq seen[a], MarkInv'
      PROVE  IInv'
  <2>1. PICK phase \in {"validate", "connect", "dbt", "health", "failed"} :
            /\ pc' = [pc EXCEPT ![a] = phase]
            /\ phase = "dbt" => pc[a] = "dbt"
            /\ phase = "health" => pc[a] = "health"
    BY <1>t, <1>f, OpFailsLeads
  <2>2. pc'[a] = phase /\ \A b \in Actors \ {a} : pc'[b] = pc[b]
    BY <1>t, <2>1 DEF TypeOK
  <2>3. /\ Forget(a)
        /\ \A b \in Actors \ {a} : pos'[b] = pos[b]
    BY <1>t, <1>f DEF OpFails, TypeOK
  <2>4. /\ \A b \in Actors : seen'[b] \in {seen[b], {}}
        /\ \A b \in Actors \ {a} : seen'[b] = seen[b] /\ after'[b] = after[b]
    BY <1>t, <2>3 DEF TypeOK, Forget
  <2>5. \/ pc'[a] \in {"validate", "connect", "failed", "crashed"}
        \/ pc'[a] = pc[a] /\ pc[a] \in {"dbt", "health"}
    BY <2>1, <2>2
  <2>6. Moves(a)
    BY <1>f, <2>2, <2>3, <2>4, <2>5 DEF Moves
  <2> QED BY <1>t, <2>6, ControlStep
<1>1. ASSUME NEW rows \in SUBSET Row, NEW at \in [rows -> Places], InsertRows(rows, at)
      PROVE  IInv'
  <2>1. /\ Closed(source)'
        /\ rows \cap history = {} /\ source' = source \cup rows /\ history' = history \cup rows
        /\ UNCHANGED <<raw, mark, pc, pos, seen, after, begun, built>>
        /\ exposed \subseteq exposed' /\ exposed' \subseteq exposed \cup rows
        /\ late' = late \cup {row \in rows : Passed(row.table, at[row])}
    BY <1>1 DEF InsertRows, Closed
  <2>2. \A a \in Actors : begun[a] \subseteq history /\ seen[a] \subseteq history
    BY <1>t DEF TypeOK
  <2>3. \A a \in Actors : Due(a)' = Due(a)
    BY <2>1, <2>2 DEF Due
  <2>4. PassInv'
    <3> SUFFICES ASSUME NEW a \in Actors, pc[a] \in Passing
                 PROVE  /\ source' \ exposed' \subseteq begun[a]
                        /\ Closed(begun[a])
                        /\ \A row \in Due(a) :
                              /\ row.table < pos[a] => row \in raw
                              /\ pc[a] = "apply" /\ row.table = pos[a]
                                    => row \in raw \cup seen[a]
      BY <2>1, <2>3 DEF PassInv, Closed
    <3>1. rows \subseteq exposed'
      BY <1>1 DEF InsertRows
    <3> QED BY <2>1, <3>1 DEF IInv, PassInv
  <2>5. SeenInv'
    BY <2>1, <2>2 DEF IInv, SeenInv, ParentsOf
  <2>6. AfterInv'
    BY <2>1, <2>3 DEF IInv, AfterInv
  <2>7. NoOldOrphans'
    <3>1. raw \subseteq history
      BY <1>t DEF TypeOK
    <3> QED BY <2>1, <3>1 DEF IInv, NoOldOrphans, ParentsOf
  <2>8. /\ source \subseteq Row /\ source \subseteq history
        /\ \A row \in source : place'[row] = place[row]
        /\ \A row \in rows : place'[row] = at[row]
    BY <1>1, <1>t, <2>1 DEF InsertRows, TypeOK
  <2>9. \A row \in source' \ late' : row \in source \ late \/ row \in rows
    BY <2>1
  <2>10. \A row \in rows \ late' : ~Passed(row.table, at[row])
    BY <2>1
  <2>11. MarkInv'
    BY <2>1, <2>8, <2>9, <2>10 DEF IInv, MarkInv, Passed
  <2>12. FlightInv'
    BY <2>1, <2>8, <2>9, <2>10 DEF IInv, FlightInv, Passed
  <2> QED BY <1>t, <2>1, <2>4, <2>5, <2>6, <2>7, <2>11, <2>12 DEF IInv
<1>2. ASSUME NEW row \in Row, DeleteRow(row) PROVE IInv'
  <2>1. /\ Closed(source)' /\ source' \subseteq source
        /\ UNCHANGED <<history, exposed, place, late, raw, mark, pc, pos, seen, after,
                       begun, built>>
    BY <1>2 DEF DeleteRow, Closed
  <2>2. \A a \in Actors : Due(a)' \subseteq Due(a)
    BY <2>1 DEF Due
  <2>3. PassInv'
    BY <2>1, <2>2 DEF IInv, PassInv, Closed
  <2>4. SeenInv' /\ AfterInv' /\ NoOldOrphans'
    BY <2>1, <2>2 DEF IInv, SeenInv, AfterInv, NoOldOrphans
  <2>5. MarkInv' /\ FlightInv'
    BY <2>1 DEF IInv, MarkInv, FlightInv
  <2> QED BY <1>t, <2>1, <2>3, <2>4, <2>5 DEF IInv
<1>3. ASSUME NEW t \in Tables, AlterTable(t) PROVE IInv'
  BY <1>3, <1>t DEF AlterTable, IInv, Closed, MarkInv, FlightInv, PassInv, Due, SeenInv,
                    AfterInv, NoOldOrphans
<1>4. ASSUME NEW a \in Actors, pc[a] \in {"idle", "connect"}, pc'[a] = "read",
             \A b \in Actors \ {a} : pc'[b] = pc[b],
             BeginPass(a),
             UNCHANGED <<source, history, exposed, place, late, raw, mark, seen, after, built>>
      PROVE  IInv'
  <2>1. /\ begun'[a] = source /\ pos'[a] = 1
        /\ \A b \in Actors \ {a} : begun'[b] = begun[b] /\ pos'[b] = pos[b]
    BY <1>4, <1>t DEF BeginPass, TypeOK
  <2>2. \A b \in Actors \ {a} : Due(b)' = Due(b)
    BY <1>4, <2>1 DEF Due
  <2>3. PassInv'
    <3> SUFFICES ASSUME NEW b \in Actors, pc'[b] \in Passing
                 PROVE  /\ source \ exposed \subseteq begun'[b]
                        /\ Closed(begun'[b])
                        /\ \A row \in Due(b)' :
                              /\ row.table < pos'[b] => row \in raw
                              /\ pc'[b] = "apply" /\ row.table = pos'[b]
                                    => row \in raw \cup seen[b]
      BY <1>4 DEF PassInv, Closed
    <3>1. CASE b = a
      <4>1. \A row \in source : ~(row.table < 1)
        BY <1>t DEF TypeOK, Row, Tables
      <4>2. Due(a)' \subseteq source
        BY <1>4 DEF Due
      <4> QED BY <1>4, <2>1, <3>1, <4>1, <4>2 DEF IInv
    <3>2. CASE b # a
      BY <1>4, <2>1, <2>2, <3>2 DEF IInv, PassInv
    <3> QED BY <3>1, <3>2
  <2>4. AfterInv'
    BY <1>4, <2>1, <2>2 DEF IInv, AfterInv
  <2>5. MarkInv' /\ FlightInv'
    BY <1>4, <2>1 DEF IInv, MarkInv, FlightInv
  <2> QED BY <1>4, <1>t, <2>3, <2>4, <2>5 DEF IInv, Closed, SeenInv, NoOldOrphans
<1>5. ASSUME NEW a \in Actors, Launch(a) PROVE IInv'
  <2>1. CASE pc'[a] = "read"
    <3>1. BeginPass(a) /\ GoesTo(a, "read")
      BY <1>5, <1>t, <2>1 DEF Launch, GoesTo, TypeOK
    <3>2. \A b \in Actors \ {a} : pc'[b] = pc[b]
      BY <1>t, <3>1 DEF GoesTo, TypeOK
    <3> QED BY <1>4, <1>5, <2>1, <3>1, <3>2 DEF Launch
  <2>2. CASE pc'[a] # "read"
    <3>1. PICK phase \in {"validate", "connect"} :
              GoesTo(a, phase) /\ UNCHANGED <<pos, begun>>
      BY <1>5, <1>t, <2>2 DEF Launch, GoesTo, TypeOK
    <3>2. pc'[a] = phase /\ \A b \in Actors \ {a} : pc'[b] = pc[b]
      BY <1>t, <3>1 DEF GoesTo, TypeOK
    <3>3. UNCHANGED <<source, history, exposed, place, late, raw, mark, seen, after, built>>
      BY <1>5 DEF Launch
    <3>4. Moves(a)
      BY <1>m, <3>1, <3>2, <3>3 DEF Moves
    <3> QED BY <1>t, <3>4, ControlStep
  <2> QED BY <2>1, <2>2
<1>6. ASSUME NEW a \in Actors, ValidateOp(a) PROVE IInv'
  <2>1. CASE drifted = {}
    <3>1. pc' = [pc EXCEPT ![a] = "connect"]
      BY <1>6, <2>1 DEF ValidateOp, GoesTo
    <3>2. pc'[a] = "connect" /\ \A b \in Actors \ {a} : pc'[b] = pc[b]
      BY <1>t, <3>1 DEF TypeOK
    <3>3. UNCHANGED <<source, history, exposed, place, late, begun, raw, mark, pos, seen,
                     after, built>>
      BY <1>6, <2>1 DEF ValidateOp
    <3>4. Moves(a)
      BY <1>m, <3>2, <3>3 DEF Moves
    <3> QED BY <1>t, <3>4, ControlStep
  <2>2. CASE drifted # {}
    <3>1. OpFails(a) /\ UNCHANGED <<source, history, exposed, place, late, begun, built, raw, mark>>
      BY <1>6, <2>2 DEF ValidateOp
    <3> QED BY <1>6, <1>f, <1>m, <3>1 DEF ValidateOp, Finished
  <2> QED BY <2>1, <2>2
<1>7. ASSUME NEW a \in Actors, ValidateSource(a) PROVE IInv'
  <2>1. CASE drifted = {}
    <3>1. pc' = [pc EXCEPT ![a] = "read"] /\ BeginPass(a)
      BY <1>7, <2>1 DEF ValidateSource
    <3>2. pc'[a] = "read" /\ \A b \in Actors \ {a} : pc'[b] = pc[b]
      BY <1>t, <3>1 DEF TypeOK
    <3>3. UNCHANGED <<source, history, exposed, place, late, raw, mark, seen, after, built>>
      BY <1>7, <2>1 DEF ValidateSource
    <3> QED BY <1>4, <1>7, <3>1, <3>2, <3>3 DEF ValidateSource
  <2>2. CASE drifted # {}
    <3>1. OpFails(a) /\ UNCHANGED <<source, history, exposed, place, late, begun, built, raw, mark>>
      BY <1>7, <2>2 DEF ValidateSource
    <3> QED BY <1>7, <1>f, <1>m, <3>1 DEF ValidateSource, Finished
  <2> QED BY <2>1, <2>2
<1>8. ASSUME NEW a \in Actors, ReadTable(a) PROVE IInv'
  <2>1. /\ UNCHANGED <<source, history, exposed, place, late, raw, mark, pos, begun, built>>
        /\ pc[a] = "read" /\ pc' = [pc EXCEPT ![a] = "apply"]
        /\ seen' = [seen EXCEPT ![a] = Extract(a)]
        /\ \E at : after' = [after EXCEPT ![a] = at]
    BY <1>8 DEF ReadTable
  <2>2. /\ pc'[a] = "apply" /\ seen'[a] = Extract(a)
        /\ \A b \in Actors \ {a} : /\ pc'[b] = pc[b]
                                  /\ seen'[b] = seen[b] /\ after'[b] = after[b]
    BY <1>t, <2>1 DEF TypeOK
  <2>3. /\ source \ exposed \subseteq begun[a] /\ Closed(begun[a])
        /\ \A row \in Due(a) : row.table < pos[a] => row \in raw
    BY <2>1 DEF IInv, PassInv, Passing
  <2>4. \A b \in Actors : Due(b)' = Due(b)
    BY <2>1 DEF Due
  <2>5. ASSUME NEW row \in source, row.table = pos[a], a \in Reconciles \/ row \notin late
        PROVE  row \in raw \cup Extract(a)
    <3>1. row \in Rows(pos[a])
      BY <2>5 DEF Rows
    <3>2. CASE a \in Reconciles \/ place[row] > mark[pos[a]]
      BY <3>1, <3>2 DEF Extract
    <3>3. CASE a \notin Reconciles /\ ~(place[row] > mark[pos[a]])
      <4>1. place[row] \in Nat /\ mark[pos[a]] \in Nat
        BY <1>t, BoundsNat DEF TypeOK, Tables
      <4>2. place[row] <= mark[row.table]
        BY <2>5, <3>3, <4>1
      <4> QED BY <2>5, <3>3, <4>2 DEF IInv, MarkInv
    <3> QED BY <3>2, <3>3
  <2>6. Extract(a) \subseteq Rows(pos[a])
    BY DEF Extract
  <2>7. ASSUME NEW row \in Extract(a) \ exposed, NEW parent \in ParentsOf(row)
        PROVE  parent \in raw \cup late
    <3>1. row \in source /\ row \in begun[a] /\ row.table = pos[a] /\ row \in Row
      BY <1>t, <2>3, <2>6 DEF Rows, TypeOK
    <3>2. parent \in source /\ parent \in begun[a]
      BY <2>3, <3>1 DEF IInv, Closed
    <3>3. parent.table < pos[a]
      BY <3>1, ParentsEarlier
    <3>4. parent \in late \/ parent \in Due(a)
      BY <3>2 DEF Due
    <3> QED BY <2>3, <3>3, <3>4
  <2>8. SeenInv'
    <3> SUFFICES ASSUME NEW b \in Actors, NEW row \in seen'[b] \ exposed
                 PROVE  ParentsOf(row) \subseteq raw \cup late
      BY <2>1 DEF SeenInv, ParentsOf
    <3>1. CASE b = a
      BY <2>2, <2>7, <3>1
    <3>2. CASE b # a
      BY <2>2, <3>2 DEF IInv, SeenInv
    <3> QED BY <3>1, <3>2
  <2>9. PassInv'
    <3> SUFFICES ASSUME NEW b \in Actors, pc'[b] \in Passing
                 PROVE  /\ source \ exposed \subseteq begun[b]
                        /\ Closed(begun[b])
                        /\ \A row \in Due(b) :
                              /\ row.table < pos[b] => row \in raw
                              /\ pc'[b] = "apply" /\ row.table = pos[b]
                                    => row \in raw \cup seen'[b]
      BY <2>1, <2>4 DEF PassInv, Closed
    <3>1. CASE b = a
      <4>1. \A row \in Due(a) : row.table = pos[a] => row \in raw \cup Extract(a)
        BY <2>5 DEF Due
      <4> QED BY <2>2, <2>3, <3>1, <4>1
    <3>2. CASE b # a
      BY <2>2, <3>2 DEF IInv, PassInv
    <3> QED BY <3>1, <3>2
  <2>10. AfterInv'
    BY <2>1, <2>2, <2>4 DEF IInv, AfterInv
  <2>11. MarkInv'
    BY <1>m, <2>1
  <2>12. FlightInv'
    <3> SUFFICES ASSUME NEW b \in Actors, pc'[b] = "apply", NEW row \in source \ late,
                        row.table = pos[b], place[row] <= after'[b]
                 PROVE  row \in raw \cup seen'[b]
      BY <2>1 DEF FlightInv
    <3>1. CASE b = a
      BY <2>2, <2>5, <3>1
    <3>2. CASE b # a
      BY <2>2, <3>2 DEF IInv, FlightInv
    <3> QED BY <3>1, <3>2
  <2> QED
    BY <1>t, <2>1, <2>8, <2>9, <2>10, <2>11, <2>12 DEF IInv, Closed, NoOldOrphans
<1>9. ASSUME NEW a \in Actors, ApplyBatch(a) PROVE IInv'
  <2>a. /\ UNCHANGED <<source, history, exposed, place, late, begun, built>>
        /\ pc[a] = "apply" /\ Commit(a) /\ Forget(a)
    BY <1>9 DEF ApplyBatch
  <2>m. MarkInv'
    BY <2>a, CommitMarks
  <2>1. /\ UNCHANGED <<source, history, exposed, place, late, begun, built>>
        /\ pc[a] = "apply" /\ raw' = raw \cup seen[a]
    BY <2>a, CommitMarks
  <2>2. /\ seen'[a] = {}
        /\ \A b \in Actors \ {a} : seen'[b] = seen[b] /\ after'[b] = after[b]
    BY <1>t, <2>a DEF TypeOK, Forget
  <2>d. \A b \in Actors : Due(b)' = Due(b) /\ Due(b) \subseteq source
    BY <2>1 DEF Due
  <2>3. /\ source \ exposed \subseteq begun[a] /\ Closed(begun[a])
        /\ \A row \in Due(a) : row.table <= pos[a] => row \in raw'
    <3>1. /\ source \ exposed \subseteq begun[a] /\ Closed(begun[a])
          /\ \A row \in Due(a) :
                /\ row.table < pos[a] => row \in raw
                /\ row.table = pos[a] => row \in raw \cup seen[a]
      BY <2>1 DEF IInv, PassInv, Passing
    <3>2. \A row \in source : row.table \in Nat /\ pos[a] \in Nat
      BY <1>t, <1>n
    <3> QED BY <2>1, <2>d, <3>1, <3>2
  <2>4. \/ /\ pos[a] < NumTables
           /\ pos' = [pos EXCEPT ![a] = @ + 1] /\ pc' = [pc EXCEPT ![a] = "read"]
        \/ /\ ~(pos[a] < NumTables) /\ UNCHANGED pos
           /\ pc' = [pc EXCEPT ![a] = IF a \in Jobs THEN "dbt" ELSE "succeeded"]
    BY <1>9 DEF ApplyBatch, GoesTo
  <2>5. /\ \A b \in Actors \ {a} : pc'[b] = pc[b] /\ pos'[b] = pos[b]
        /\ pc'[a] = "read" => pos[a] < NumTables /\ pos'[a] = pos[a] + 1
        /\ pc'[a] # "read" => /\ pos[a] = NumTables
                              /\ pc'[a] = "dbt" \/ (pc'[a] = "succeeded" /\ a \notin Jobs)
    <3>1. pos[a] \in 1..NumTables
      BY <1>t DEF TypeOK
    <3>2. CASE /\ pos[a] < NumTables
               /\ pos' = [pos EXCEPT ![a] = @ + 1] /\ pc' = [pc EXCEPT ![a] = "read"]
      BY <1>t, <3>2 DEF TypeOK
    <3>3. CASE /\ ~(pos[a] < NumTables) /\ UNCHANGED pos
               /\ pc' = [pc EXCEPT ![a] = IF a \in Jobs THEN "dbt" ELSE "succeeded"]
      <4>1. pos[a] = NumTables
        BY <3>1, <3>3, TablesNat
      <4>2. \A b \in Actors \ {a} : pc'[b] = pc[b]
        BY <1>t, <3>3 DEF TypeOK
      <4>3. pc'[a] = IF a \in Jobs THEN "dbt" ELSE "succeeded"
        BY <1>t, <3>3 DEF TypeOK
      <4>4. pc'[a] # "read" /\ (pc'[a] = "dbt" \/ (pc'[a] = "succeeded" /\ a \notin Jobs))
        BY <4>3
      <4>5. pos' = pos
        BY <3>3
      <4> QED BY <4>1, <4>2, <4>4, <4>5
    <3> QED BY <2>4, <3>2, <3>3
  <2>6. PassInv'
    <3> SUFFICES ASSUME NEW b \in Actors, pc'[b] \in Passing
                 PROVE  /\ source \ exposed \subseteq begun[b]
                        /\ Closed(begun[b])
                        /\ \A row \in Due(b) :
                              /\ row.table < pos'[b] => row \in raw'
                              /\ pc'[b] = "apply" /\ row.table = pos'[b]
                                    => row \in raw' \cup seen'[b]
      BY <2>1, <2>d DEF PassInv, Closed
    <3>1. CASE b = a
      <4>1. pc'[a] = "read" /\ pos'[a] = pos[a] + 1
        BY <2>5, <3>1 DEF Passing
      <4>2. \A row \in source : row.table \in Nat /\ pos[a] \in Nat
        BY <1>t, <1>n
      <4> QED BY <2>3, <2>d, <3>1, <4>1, <4>2
    <3>2. CASE b # a
      <4>1. pc[b] \in Passing /\ pos'[b] = pos[b] /\ seen'[b] = seen[b] /\ pc'[b] = pc[b]
        BY <2>2, <2>5, <3>2
      <4> QED BY <2>1, <4>1 DEF IInv, PassInv
    <3> QED BY <3>1, <3>2
  <2>7. SeenInv'
    <3> SUFFICES ASSUME NEW b \in Actors, NEW row \in seen'[b] \ exposed
                 PROVE  ParentsOf(row) \subseteq raw' \cup late
      BY <2>1 DEF SeenInv, ParentsOf
    <3>1. b # a /\ row \in seen[b]
      BY <2>2
    <3> QED BY <2>1, <3>1 DEF IInv, SeenInv
  <2>8. AfterInv'
    <3>1. \A row \in source : row.table <= NumTables
      BY <1>t DEF TypeOK, Row, Tables
    <3>2. pc'[a] # "read" => Due(a) \subseteq raw'
      BY <2>3, <2>5, <2>d, <3>1
    <3> QED BY <2>1, <2>5, <2>d, <3>2 DEF IInv, AfterInv
  <2>9. NoOldOrphans'
    BY <2>1 DEF IInv, NoOldOrphans, SeenInv, ParentsOf
  <2>10. FlightInv'
    <3> SUFFICES ASSUME NEW b \in Actors, pc'[b] = "apply", NEW row \in source \ late,
                        row.table = pos'[b], place[row] <= after'[b]
                 PROVE  row \in raw' \cup seen'[b]
      BY <2>1 DEF FlightInv
    <3>1. b # a
      BY <2>5
    <3> QED BY <2>1, <2>2, <2>5, <3>1 DEF IInv, FlightInv
  <2> QED BY <1>t, <2>m, <2>1, <2>6, <2>7, <2>8, <2>9, <2>10 DEF IInv, Closed
<1>10. ASSUME NEW a \in Actors, DbtBuild(a) PROVE IInv'
  <2>1. CASE Closed(raw)
    <3>1. /\ pc[a] = "dbt" /\ pc' = [pc EXCEPT ![a] = "health"]
          /\ built' = [built EXCEPT ![a] = raw]
          /\ UNCHANGED <<source, history, exposed, place, late, raw, mark, pos, seen, after, begun>>
      BY <1>10, <2>1 DEF DbtBuild, GoesTo
    <3>2. /\ pc'[a] = "health" /\ built'[a] = raw
          /\ \A b \in Actors \ {a} : pc'[b] = pc[b] /\ built'[b] = built[b]
      BY <1>t, <3>1 DEF TypeOK
    <3>3. AfterInv'
      BY <3>1, <3>2 DEF IInv, AfterInv, Due
    <3>4. PassInv'
      BY <3>1, <3>2 DEF IInv, PassInv, Due, Closed, Passing
    <3>5. MarkInv' /\ FlightInv'
      BY <3>1, <3>2 DEF IInv, MarkInv, FlightInv
    <3> QED BY <1>t, <3>1, <3>3, <3>4, <3>5 DEF IInv, Closed, SeenInv, NoOldOrphans
  <2>2. CASE ~Closed(raw)
    <3>1. OpFails(a) /\ UNCHANGED <<source, history, exposed, place, late, begun, built, raw, mark>>
      BY <1>10, <2>2 DEF DbtBuild
    <3> QED BY <1>10, <1>f, <1>m, <3>1 DEF DbtBuild, Finished
  <2> QED BY <2>1, <2>2
<1>11. ASSUME NEW a \in Actors, VerifyHealth(a) PROVE IInv'
  <2>1. CASE Healthy
    <3>1. /\ pc[a] = "health" /\ pc' = [pc EXCEPT ![a] = "succeeded"]
          /\ UNCHANGED <<source, history, exposed, place, late, raw, mark, pos, seen, after,
                         begun, built>>
      BY <1>11, <2>1 DEF VerifyHealth, GoesTo
    <3>2. pc'[a] = "succeeded" /\ \A b \in Actors \ {a} : pc'[b] = pc[b]
      BY <1>t, <3>1 DEF TypeOK
    <3>3. AfterInv'
      BY <3>1, <3>2 DEF IInv, AfterInv, Due
    <3>4. PassInv'
      BY <3>1, <3>2 DEF IInv, PassInv, Due, Closed, Passing
    <3>5. MarkInv' /\ FlightInv'
      BY <3>1, <3>2 DEF IInv, MarkInv, FlightInv
    <3> QED BY <1>t, <3>1, <3>3, <3>4, <3>5 DEF IInv, Closed, SeenInv, NoOldOrphans
  <2>2. CASE ~Healthy
    <3>1. OpFails(a) /\ UNCHANGED <<source, history, exposed, place, late, begun, built, raw, mark>>
      BY <1>11, <2>2 DEF VerifyHealth
    <3> QED BY <1>11, <1>f, <1>m, <3>1 DEF VerifyHealth, Finished
  <2> QED BY <2>1, <2>2
<1>12. ASSUME NEW a \in Actors, OpRaises(a) PROVE IInv'
  <2>1. OpFails(a) /\ UNCHANGED <<source, history, exposed, place, late, begun, built, raw, mark>>
    BY <1>12 DEF OpRaises
  <2> QED BY <1>12, <1>f, <1>m, <2>1 DEF OpRaises, Finished
<1>13. ASSUME NEW a \in Actors, BatchFails(a) PROVE IInv'
  <2>1. /\ OpFails(a) /\ UNCHANGED <<source, history, exposed, place, late, begun, built>>
        /\ UNCHANGED <<raw, mark>> \/ Commit(a)
        /\ pc[a] = "apply"
    BY <1>13 DEF BatchFails
  <2>2. raw \subseteq raw' /\ raw' \ raw \subseteq seen[a] /\ MarkInv'
    BY <1>m, <2>1, CommitMarks
  <2> QED BY <1>f, <2>1, <2>2 DEF Finished
<1>14. ASSUME NEW a \in Actors, Crash(a) PROVE IInv'
  <2>1. /\ pc' = [pc EXCEPT ![a] = "crashed"]
        /\ UNCHANGED <<source, history, exposed, place, late, raw, mark, pos, begun, built>>
        /\ Forget(a)
    BY <1>14 DEF Crash
  <2>2. /\ pc'[a] = "crashed" /\ seen'[a] = {}
        /\ \A b \in Actors \ {a} : /\ pc'[b] = pc[b]
                                  /\ seen'[b] = seen[b] /\ after'[b] = after[b]
    BY <1>t, <2>1 DEF TypeOK, Forget
  <2>3. Moves(a)
    BY <1>m, <2>1, <2>2 DEF Moves
  <2> QED BY <1>t, <2>3, ControlStep
<1>15. CASE UNCHANGED vars
  BY <1>15, <1>t DEF vars, IInv, Closed, MarkInv, FlightInv, PassInv, Due, SeenInv, AfterInv,
                     NoOldOrphans
<1> QED
  BY <1>1, <1>2, <1>3, <1>5, <1>6, <1>7, <1>8, <1>9, <1>10, <1>11, <1>12, <1>13,
     <1>14, <1>15 DEF Next, SourceStep, ActorStep

\* The invariant the two theorems below follow from.
THEOREM Invariance == Spec => []IInv
<1> QED BY InvInit, InvStep, PTL DEF Spec

\* However executions overlap, fail and are retried, a row in RAW lacks a parent
\* only if it was inserted while a pass was reading, or the parent was inserted
\* behind the watermark of its table.
THEOREM NeverOldOrphans == Spec => []NoOldOrphans
<1>1. IInv => NoOldOrphans
  BY DEF IInv
<1> QED BY <1>1, Invariance, PTL

\* A successful execution has captured what was there when its last pass began,
\* a job has built it too: all of it after a reconciliation, and all but the rows
\* inserted behind a watermark after the others.
THEOREM SuccessAlwaysFresh == Spec => []SuccessIsFresh
<1>1. IInv => SuccessIsFresh
  BY DEF IInv, AfterInv, SuccessIsFresh
<1> QED BY <1>1, Invariance, PTL

-----------------------------------------------------------------------------
(* Validation before reading.                                               *)

\* During a pass of an execution that validates, whatever breaks its contract
\* was altered since.
DriftInv ==
    \A a \in Jobs \cup Ingests : pc[a] \in Passing => drifted \subseteq altered[a]

LEMMA DriftStep == TypeOK /\ DriftInv /\ [Next]_vars => DriftInv'
<1> SUFFICES ASSUME TypeOK, DriftInv, [Next]_vars PROVE DriftInv'
  OBVIOUS
<1> USE DEF schema
<1>f. ASSUME NEW a \in Actors, OpFails(a), pc[a] \notin {"idle"} \cup Finished,
             UNCHANGED <<drifted, altered>>
      PROVE  DriftInv'
  <2>1. PICK phase \in {"validate", "connect", "dbt", "health", "failed"} :
            pc' = [pc EXCEPT ![a] = phase]
    BY <1>f, OpFailsLeads
  <2> QED BY <1>f, <2>1 DEF TypeOK, DriftInv, Actors, Passing
<1>1. ASSUME NEW t \in Tables, AlterTable(t) PROVE DriftInv'
  <2>1. \A a \in Jobs \cup Ingests :
            pc[a] \in Passing => altered'[a] = altered[a] \cup {t}
    BY <1>1, ActorsApart DEF AlterTable, TypeOK, Validated, Actors
  <2> QED BY <1>1, <2>1 DEF AlterTable, DriftInv, Actors
<1>2. ASSUME NEW a \in Actors, Launch(a) PROVE DriftInv'
  BY <1>2, ActorsApart DEF Launch, GoesTo, TypeOK, DriftInv, Actors, Passing
<1>3. ASSUME NEW a \in Actors, ValidateOp(a) PROVE DriftInv'
  <2>1. CASE drifted = {}
    BY <1>3, <2>1 DEF ValidateOp, GoesTo, TypeOK, DriftInv, Actors, Passing
  <2>2. CASE drifted # {}
    BY <1>3, <1>f, <2>2 DEF ValidateOp, Finished
  <2> QED BY <2>1, <2>2
<1>4. ASSUME NEW a \in Actors, ValidateSource(a) PROVE DriftInv'
  <2>1. CASE drifted = {}
    BY <1>4, <2>1 DEF ValidateSource, DriftInv
  <2>2. CASE drifted # {}
    BY <1>4, <1>f, <2>2 DEF ValidateSource, Finished
  <2> QED BY <2>1, <2>2
<1>5. ASSUME NEW a \in Actors, ReadTable(a) PROVE DriftInv'
  BY <1>5 DEF ReadTable, TypeOK, DriftInv, Actors, Passing
<1>6. ASSUME NEW a \in Actors, ApplyBatch(a) PROVE DriftInv'
  BY <1>6 DEF ApplyBatch, GoesTo, TypeOK, DriftInv, Actors, Passing
<1>7. ASSUME NEW a \in Actors, DbtBuild(a) PROVE DriftInv'
  <2>1. CASE Closed(raw)
    BY <1>7, <2>1 DEF DbtBuild, GoesTo, TypeOK, DriftInv, Actors, Passing
  <2>2. CASE ~Closed(raw)
    BY <1>7, <1>f, <2>2 DEF DbtBuild, Finished
  <2> QED BY <2>1, <2>2
<1>8. ASSUME NEW a \in Actors, VerifyHealth(a) PROVE DriftInv'
  <2>1. CASE Healthy
    BY <1>8, <2>1 DEF VerifyHealth, GoesTo, TypeOK, DriftInv, Actors, Passing
  <2>2. CASE ~Healthy
    BY <1>8, <1>f, <2>2 DEF VerifyHealth, Finished
  <2> QED BY <2>1, <2>2
<1>9. ASSUME NEW a \in Actors, OpRaises(a) PROVE DriftInv'
  BY <1>9, <1>f DEF OpRaises, Finished
<1>10. ASSUME NEW a \in Actors, BatchFails(a) PROVE DriftInv'
  BY <1>10, <1>f DEF BatchFails, Finished
<1>11. ASSUME NEW a \in Actors, Crash(a) PROVE DriftInv'
  BY <1>11 DEF Crash, TypeOK, DriftInv, Actors, Passing
<1>12. CASE UNCHANGED <<drifted, altered, pc>>
  BY <1>12 DEF DriftInv
<1>13. ASSUME NEW rows \in SUBSET Row, NEW at \in [rows -> Places], InsertRows(rows, at)
       PROVE  UNCHANGED <<drifted, altered, pc>>
  BY <1>13 DEF InsertRows
<1>14. ASSUME NEW row \in Row, DeleteRow(row) PROVE UNCHANGED <<drifted, altered, pc>>
  BY <1>14 DEF DeleteRow
<1> QED
  BY <1>1, <1>2, <1>3, <1>4, <1>5, <1>6, <1>7, <1>8, <1>9, <1>10, <1>11, <1>12,
     <1>13, <1>14 DEF Next, SourceStep, ActorStep, vars

\* Executions that validate read a table under a breaking schema only when it
\* was altered after their validation.
THEOREM ReadsAlwaysValidated == Spec => ReadsAreValidated
<1>1. Init => DriftInv
  BY DEF Init, DriftInv, Actors, Passing
<1>2. DriftInv => \A a \in Jobs \cup Ingests :
          pc[a] = "read" /\ pc'[a] = "apply" /\ pos[a] \in drifted => pos[a] \in altered[a]
  BY DEF DriftInv, Passing
<1> QED BY <1>1, <1>2, TypeCorrect, DriftStep, PTL DEF Spec, ReadsAreValidated
=============================================================================
