-------------------------- MODULE SourceCatalog_proofs --------------------------
(***************************************************************************)
(* Theorems about SourceCatalog: any contracts in any order of paths, any  *)
(* number of passes and of set-up runs, any schema changes.                *)
(***************************************************************************)
EXTENDS SourceCatalog, TLAPS

-----------------------------------------------------------------------------
(* The comparison.                                                          *)

LEMMA SameType ==
    ASSUME NEW a \in ColumnType, NEW b \in ColumnType,
           a.type = b.type, a.nullable = b.nullable
    PROVE  a = b
BY DEF ColumnType

Agree(t, seen) ==
    \A c \in Names : Contract[t].columns[c] # None =>
        /\ seen[c] # None
        /\ seen[c].type = Contract[t].columns[c].type
        /\ seen[c].nullable = Contract[t].columns[c].nullable

\* No column is reported exactly when each column of the contract is as declared.
LEMMA NoColumnErrors ==
    ASSUME NEW t, NEW seen
    PROVE  ColumnErrors(t, seen) = {} <=> Agree(t, seen)
<1> DEFINE required == {c \in Names : Contract[t].columns[c] # None}
           present  == {c \in required : seen[c] # None}
           absent   == required \ present
           typed    == {d \in present : seen[d].type # Contract[t].columns[d].type}
           nulled   == {d \in present : seen[d].nullable # Contract[t].columns[d].nullable}
           A == {[what |-> "missing", column |-> c] : c \in absent}
           B == {[what |-> "type", column |-> c] : c \in typed}
           C == {[what |-> "nullability", column |-> c] : c \in nulled}
<1>1. ColumnErrors(t, seen) = A \cup B \cup C
    BY Zenon DEF ColumnErrors
<1>2. (A = {} <=> absent = {}) /\ (B = {} <=> typed = {}) /\ (C = {} <=> nulled = {})
    <2>1. A = {} <=> absent = {}
        <3> HIDE DEF absent, typed, nulled
        <3>1. \A d \in absent : [what |-> "missing", column |-> d] \in A
            OBVIOUS
        <3>2. \A x \in A : \E d \in absent : TRUE
            OBVIOUS
        <3> HIDE DEF A
        <3> QED BY <3>1, <3>2
    <2>2. B = {} <=> typed = {}
        <3> HIDE DEF absent, typed, nulled
        <3>1. \A d \in typed : [what |-> "type", column |-> d] \in B
            OBVIOUS
        <3>2. \A x \in B : \E d \in typed : TRUE
            OBVIOUS
        <3> HIDE DEF B
        <3> QED BY <3>1, <3>2
    <2>3. C = {} <=> nulled = {}
        <3> HIDE DEF absent, typed, nulled
        <3>1. \A d \in nulled : [what |-> "nullability", column |-> d] \in C
            OBVIOUS
        <3>2. \A x \in C : \E d \in nulled : TRUE
            OBVIOUS
        <3> HIDE DEF C
        <3> QED BY <3>1, <3>2
    <2> QED BY ONLY <2>1, <2>2, <2>3
<1>3. ColumnErrors(t, seen) = {} <=> absent = {} /\ typed = {} /\ nulled = {}
    <2> HIDE DEF absent, typed, nulled, A, B, C
    <2> QED BY <1>1, <1>2
<1> QED BY ONLY <1>3 DEF Agree

\* Of one schema, the comparison finds nothing exactly when the schema conforms.
LEMMA CompareExact ==
    ASSUME NEW t \in Tables, NEW s \in Schema
    PROVE  Compare(t, s.columns, s.key) = {} <=> Conforms(t, s)
<1>1. Contract[t].columns \in Columns /\ s.columns \in Columns
    BY ContractTyped DEF Schema
<1>2. \A c \in Names : /\ Contract[t].columns[c] # None => Contract[t].columns[c] \in ColumnType
                       /\ s.columns[c] # None => s.columns[c] \in ColumnType
    BY <1>1 DEF Columns
<1>3. \A c \in Names : Contract[t].columns[c] # None =>
          ( s.columns[c] = Contract[t].columns[c] <=>
              /\ s.columns[c] # None
              /\ s.columns[c].type = Contract[t].columns[c].type
              /\ s.columns[c].nullable = Contract[t].columns[c].nullable )
    BY <1>2, SameType
<1>4. Compare(t, s.columns, s.key) = {} <=>
          /\ ColumnErrors(t, s.columns) = {}
          /\ ~Additive(t, s.columns) /\ s.key = {Contract[t].key}
    BY DEF Compare
<1>5. ColumnErrors(t, s.columns) = {} <=>
          \A c \in Names : Contract[t].columns[c] # None => s.columns[c] = Contract[t].columns[c]
    <2>1. ColumnErrors(t, s.columns) = {} <=> Agree(t, s.columns)
        BY ONLY NoColumnErrors
    <2> QED BY ONLY <2>1, <1>3 DEF Agree
<1>6. ~Additive(t, s.columns) <=>
          \A c \in Names : Contract[t].columns[c] = None =>
              Contract[t].additive \/ s.columns[c] = None
    BY DEF Additive
<1> QED BY <1>4, <1>5, <1>6 DEF Conforms

\* The columns of one sound schema and the key of another give no error.
LEMMA CompareMixed ==
    ASSUME NEW t \in Tables, NEW s \in Schema, NEW u \in Schema,
           Conforms(t, s), Conforms(t, u)
    PROVE  Compare(t, s.columns, u.key) = {}
<1>1. u.key = s.key
    BY DEF Conforms
<1> QED BY <1>1, CompareExact

LEMMA CompareTyped ==
    ASSUME NEW t, NEW seen, NEW key
    PROVE  Compare(t, seen, key) \subseteq Error
BY DEF Compare, ColumnErrors, Error

-----------------------------------------------------------------------------
(* The invariant of the gate.                                               *)

\* The schema of a table is among those a running pass has held it in.
HeldInv ==
    \A p \in Passes, t \in Tables :
        phase[p] \in Running /\ held[p][t] # {} => catalog[t] \in held[p][t]

\* Between its two queries a pass has the columns of a schema it holds.
ReadInv ==
    \A p \in Passes : phase[p] = "keys" =>
        \E s \in held[p][PathOrder[pos[p]]] : columns[p] = s.columns

\* Has pass p compared table t?
Inspected(p, t) ==
    \/ phase[p] \in {"columns", "keys"} /\ \E i \in 1..(pos[p] - 1) : PathOrder[i] = t
    \/ phase[p] \in {"passed", "rejected"}
    \/ phase[p] = "capture" /\ p \notin Reconciles

\* What the errors of pass p say of table t.
Judged(p, t) ==
    /\ held[p][t] # {}
    /\ \A s \in Schema : held[p][t] = {s} => (errors[p][t] = {} <=> Conforms(t, s))
    /\ errors[p][t] # {} => \E s \in Schema : s \in held[p][t] /\ ~Conforms(t, s)

VerdictInv ==
    \A p \in Passes, t \in Tables : Inspected(p, t) => Judged(p, t)

PassedInv ==
    \A p \in Passes :
        /\ phase[p] = "rejected" => \E t \in Tables : errors[p][t] # {}
        /\ phase[p] = "passed" \/ (phase[p] = "capture" /\ p \notin Reconciles) =>
               \A t \in Tables : errors[p][t] = {}

IdleInv ==
    \A p \in Passes : phase[p] = "idle" => pos[p] = 1 /\ \A t \in Tables : held[p][t] = {}

GateInv == GateTypeOK /\ HeldInv /\ ReadInv /\ VerdictInv /\ PassedInv /\ IdleInv

LEMMA PlaceTyped ==
    ASSUME GateTypeOK, NEW p \in Passes, phase[p] \in {"columns", "keys"}
    PROVE  pos[p] \in 1..Len(PathOrder) /\ PathOrder[pos[p]] \in Tables
BY OrdersTyped DEF GateTypeOK

LEMMA Lengths ==
    /\ Len(PathOrder) \in Nat \ {0} /\ Len(CaptureOrder) \in Nat \ {0}
    /\ 1 \in 1..Len(PathOrder) /\ 1 \in 1..Len(CaptureOrder)
BY OrdersTyped

LEMMA GateStarts == GateInit => GateInv
<1> SUFFICES ASSUME GateInit PROVE GateInv
    OBVIOUS
<1>1. catalog \in [Tables -> Schema]
    BY ContractTyped DEF GateInit, Schema
<1>2. GateTypeOK
    <2>1. phase \in [Passes -> Phases] /\ \A p \in Passes : phase[p] = "idle"
        BY DEF GateInit, Phases
    <2>2. columns \in [Passes -> Columns]
        BY DEF GateInit, Columns
    <2>3. errors \in [Passes -> [Tables -> SUBSET Error]]
        BY DEF GateInit
    <2>4. held \in [Passes -> [Tables -> SUBSET Schema]]
        BY DEF GateInit
    <2>5. alters \in 0..MaxAlters /\ pos \in [Passes -> Nat]
        BY AltersNat DEF GateInit
    <2> QED BY <1>1, <2>1, <2>2, <2>3, <2>4, <2>5 DEF GateTypeOK
<1>3. \A p \in Passes : phase[p] = "idle"
    BY DEF GateInit
<1>4. IdleInv
    BY DEF GateInit, IdleInv
<1> QED BY <1>2, <1>3, <1>4 DEF GateInv, HeldInv, ReadInv, VerdictInv, Inspected, PassedInv,
           Running

\* A schema change: the passes that hold the table now hold it in two schemas.
LEMMA AlterKeeps ==
    ASSUME GateInv, NEW t \in Tables, NEW new \in Schema, Alter(t, new)
    PROVE  GateInv'
<1> GateTypeOK /\ HeldInv /\ ReadInv /\ VerdictInv /\ PassedInv /\ IdleInv
    BY DEF GateInv
<1>1. /\ new # catalog[t] /\ catalog' = [catalog EXCEPT ![t] = new]
      /\ UNCHANGED <<phase, pos, columns, errors>> /\ alters' \in 0..MaxAlters
    <2>1. alters < MaxAlters /\ alters' = alters + 1 /\ alters \in 0..MaxAlters
        BY DEF Alter, GateTypeOK
    <2>2. alters' \in 0..MaxAlters
        BY <2>1, AltersNat
    <2> QED BY <2>2 DEF Alter
<1>2. \A p \in Passes, u \in Tables :
        held'[p][u] = IF u = t /\ phase[p] \in Running /\ held[p][t] # {}
                      THEN held[p][u] \cup {new} ELSE held[p][u]
    BY DEF Alter, GateTypeOK
<1>3. held' \in [Passes -> [Tables -> SUBSET Schema]]
    <2>1. \A p \in Passes : [held[p] EXCEPT ![t] = @ \cup {new}] \in [Tables -> SUBSET Schema]
        BY DEF GateTypeOK
    <2> QED BY <2>1 DEF Alter, GateTypeOK
<1>4. GateTypeOK'
    BY <1>1, <1>3 DEF GateTypeOK
<1>5. HeldInv'
    <2> SUFFICES ASSUME NEW p \in Passes, NEW u \in Tables,
                        phase[p] \in Running, held'[p][u] # {}
                 PROVE  catalog'[u] \in held'[p][u]
        BY <1>1 DEF HeldInv
    <2>1. CASE u = t
        <3>1. catalog'[u] = new /\ held[p][t] # {}
            BY <1>1, <1>2, <2>1 DEF GateTypeOK
        <3> QED BY <1>2, <2>1, <3>1
    <2>2. CASE u # t
        BY <1>1, <1>2, <2>2 DEF HeldInv, GateTypeOK
    <2> QED BY <2>1, <2>2
<1>6. ReadInv'
    <2> SUFFICES ASSUME NEW p \in Passes, phase[p] = "keys"
                 PROVE  \E s \in held'[p][PathOrder[pos[p]]] : columns[p] = s.columns
        BY <1>1 DEF ReadInv
    <2>1. PathOrder[pos[p]] \in Tables
        BY PlaceTyped
    <2>2. PICK s \in held[p][PathOrder[pos[p]]] : columns[p] = s.columns
        BY DEF ReadInv
    <2>3. s \in held'[p][PathOrder[pos[p]]]
        BY <1>2, <2>1
    <2> QED BY <2>2, <2>3
<1>7. VerdictInv'
    <2> SUFFICES ASSUME NEW p \in Passes, NEW u \in Tables, Inspected(p, u)'
                 PROVE  Judged(p, u)'
        BY DEF VerdictInv
    <2>1. Judged(p, u)
        BY <1>1 DEF VerdictInv, Inspected
    <2>2. CASE held'[p][u] = held[p][u]
        BY <1>1, <2>1, <2>2 DEF Judged
    <2>3. CASE held'[p][u] # held[p][u]
        <3>1. u = t /\ phase[p] \in Running /\ held'[p][u] = held[p][u] \cup {new}
            BY <1>2, <2>3
        <3>3. catalog[t] \in held[p][u] /\ new # catalog[t]
            BY <1>1, <1>2, <2>3, <3>1 DEF HeldInv
        <3>2. \A s \in Schema : held'[p][u] # {s}
            <4> SUFFICES ASSUME NEW s, held'[p][u] = {s} PROVE FALSE
                OBVIOUS
            <4>1. new \in {s} /\ catalog[t] \in {s}
                BY <3>1, <3>3
            <4> QED BY <3>3, <4>1
        <3> QED BY <1>1, <2>1, <3>1, <3>2 DEF Judged
    <2> QED BY <2>2, <2>3
<1>8. PassedInv'
    BY <1>1 DEF PassedInv
<1>9. IdleInv'
    <2> SUFFICES ASSUME NEW p \in Passes, phase[p] = "idle"
                 PROVE  pos'[p] = 1 /\ \A u \in Tables : held'[p][u] = {}
        BY <1>1 DEF IdleInv
    <2>1. \A u \in Tables : held'[p][u] = held[p][u]
        BY <1>2 DEF Running
    <2> QED BY <1>1, <2>1 DEF IdleInv
<1> QED BY <1>4, <1>5, <1>6, <1>7, <1>8, <1>9 DEF GateInv

LEMMA AlterTableKeeps == GateInv /\ AlterTable => GateInv'
<1> SUFFICES ASSUME GateInv, NEW t \in Tables, NEW c \in Names,
                    \/ AddColumn(t, c) \/ ChangeNullability(t, c) \/ ChangeType(t, c)
                    \/ DropColumn(t, c) \/ ChangeKey(t, c)
             PROVE  GateInv'
    BY DEF AlterTable
<1>1. /\ catalog[t] = [columns |-> catalog[t].columns, key |-> catalog[t].key]
      /\ catalog[t].columns \in Columns /\ catalog[t].key \subseteq Names
      /\ catalog[t].columns[c] # None => catalog[t].columns[c] \in ColumnType
    BY DEF GateInv, GateTypeOK, Schema, Columns
<1>2. \A x \in ColumnType \cup {None} : [catalog[t].columns EXCEPT ![c] = x] \in Columns
    BY <1>1 DEF Columns
<1>3. \A cs \in Columns, k \in SUBSET Names : [columns |-> cs, key |-> k] \in Schema
    BY DEF Schema
<1>4. CASE AddColumn(t, c)
    <2>1. PICK y \in Types : Alter(t, WithColumn(t, c, [type |-> y, nullable |-> TRUE]))
        BY <1>4 DEF AddColumn
    <2>2. [type |-> y, nullable |-> TRUE] \in ColumnType
        BY DEF ColumnType
    <2>3. WithColumn(t, c, [type |-> y, nullable |-> TRUE]) \in Schema
        BY <1>1, <1>2, <1>3, <2>2 DEF WithColumn
    <2> QED BY <2>1, <2>3, AlterKeeps
<1>5. CASE ChangeNullability(t, c)
    <2> DEFINE spec == [type |-> catalog[t].columns[c].type,
                        nullable |-> ~catalog[t].columns[c].nullable]
    <2>1. spec \in ColumnType
        BY <1>1, <1>5 DEF ChangeNullability, ColumnType
    <2>2. WithColumn(t, c, spec) \in Schema
        BY <1>1, <1>2, <1>3, <2>1 DEF WithColumn
    <2> QED BY <1>5, <2>2, AlterKeeps DEF ChangeNullability
<1>6. CASE ChangeType(t, c)
    <2> DEFINE spec(y) == [type |-> y, nullable |-> catalog[t].columns[c].nullable]
    <2>1. PICK y \in Types : Alter(t, WithColumn(t, c, spec(y)))
        BY <1>6 DEF ChangeType
    <2>2. spec(y) \in ColumnType
        BY <1>1, <1>6 DEF ChangeType, ColumnType
    <2>3. WithColumn(t, c, spec(y)) \in Schema
        BY <1>1, <1>2, <1>3, <2>2 DEF WithColumn
    <2> QED BY <2>1, <2>3, AlterKeeps
<1>7. CASE DropColumn(t, c)
    <2> DEFINE new == [columns |-> [catalog[t].columns EXCEPT ![c] = None],
                       key |-> IF c \in catalog[t].key THEN {} ELSE catalog[t].key]
    <2>1. new \in Schema
        BY <1>1, <1>2, <1>3
    <2> QED BY <1>7, <2>1, AlterKeeps DEF DropColumn
<1>8. CASE ChangeKey(t, c)
    <2> DEFINE strict == [type |-> catalog[t].columns[c].type, nullable |-> FALSE]
               keyed  == [columns |-> WithColumn(t, c, strict).columns, key |-> {c}]
    <2>1. [columns |-> catalog[t].columns, key |-> {}] \in Schema
        BY <1>1, <1>3
    <2>2. ASSUME catalog[t].columns[c] # None
          PROVE  keyed \in Schema
        <3>1. strict \in ColumnType
            BY <1>1, <2>2 DEF ColumnType
        <3>2. WithColumn(t, c, strict).columns \in Columns
            BY <1>2, <3>1 DEF WithColumn
        <3> QED BY <1>3, <3>2
    <2> QED BY <1>8, <2>1, <2>2, AlterKeeps DEF ChangeKey
<1> QED BY <1>4, <1>5, <1>6, <1>7, <1>8

LEMMA BeginPassKeeps ==
    ASSUME GateInv, NEW p \in Passes, BeginPass(p)
    PROVE  GateInv'
<1> GateTypeOK /\ HeldInv /\ ReadInv /\ VerdictInv /\ PassedInv /\ IdleInv
    BY DEF GateInv
<1>1. /\ phase[p] = "idle" /\ UNCHANGED <<catalog, alters, pos, columns, errors, held>>
      /\ pos[p] = 1 /\ \A t \in Tables : held[p][t] = {}
    BY DEF BeginPass, IdleInv
<1>2. \A q \in Passes : phase'[q] = IF q # p THEN phase[q]
                                    ELSE IF p \in Reconciles THEN "capture" ELSE "columns"
    BY DEF BeginPass, GateTypeOK
<1>3. phase' \in [Passes -> Phases]
    BY DEF BeginPass, GateTypeOK, Phases, Running
<1>4. GateTypeOK'
    <2>1. 1 \in 1..Len(PathOrder) /\ 1 \in 1..Len(CaptureOrder)
        BY Lengths
    <2>2. \A q \in Passes :
            /\ phase'[q] \in {"columns", "keys"} => pos[q] \in 1..Len(PathOrder)
            /\ phase'[q] = "capture" => pos[q] \in 1..Len(CaptureOrder)
        BY <1>1, <1>2, <2>1 DEF GateTypeOK
    <2> QED BY <1>1, <1>3, <2>2 DEF GateTypeOK
<1>5. HeldInv'
    BY <1>1, <1>2 DEF HeldInv
<1>6. ReadInv'
    BY <1>1, <1>2 DEF ReadInv
<1>7. VerdictInv'
    <2> SUFFICES ASSUME NEW q \in Passes, NEW u \in Tables, Inspected(q, u)'
                 PROVE  Judged(q, u)
        BY <1>1 DEF VerdictInv, Judged
    <2>1. q # p
        BY <1>1, <1>2 DEF Inspected
    <2> QED BY <1>1, <1>2, <2>1 DEF VerdictInv, Inspected
<1>8. PassedInv' /\ IdleInv'
    BY <1>1, <1>2 DEF PassedInv, IdleInv
<1> QED BY <1>4, <1>5, <1>6, <1>7, <1>8 DEF GateInv

LEMMA ReadColumnsKeeps ==
    ASSUME GateInv, NEW p \in Passes, ReadColumns(p)
    PROVE  GateInv'
<1> GateTypeOK /\ HeldInv /\ ReadInv /\ VerdictInv /\ PassedInv /\ IdleInv
    BY DEF GateInv
<1> DEFINE t == PathOrder[pos[p]]
<1>1. phase[p] = "columns" /\ UNCHANGED <<catalog, alters, pos, errors>>
    BY DEF ReadColumns
<1>2. pos[p] \in 1..Len(PathOrder) /\ t \in Tables /\ catalog[t] \in Schema
    BY <1>1, PlaceTyped DEF GateTypeOK
<1>3. /\ phase' \in [Passes -> Phases]
      /\ \A q \in Passes : phase'[q] = IF q = p THEN "keys" ELSE phase[q]
    BY DEF ReadColumns, GateTypeOK, Phases, Running
<1>4. /\ columns' \in [Passes -> Columns]
      /\ \A q \in Passes : columns'[q] = IF q = p THEN catalog[t].columns ELSE columns[q]
    BY <1>2 DEF ReadColumns, GateTypeOK, Schema
<1>5. /\ held' \in [Passes -> [Tables -> SUBSET Schema]]
      /\ \A q \in Passes, u \in Tables :
            held'[q][u] = IF q = p /\ u = t THEN {catalog[t]} ELSE held[q][u]
    <2>1. held' = [held EXCEPT ![p] = [held[p] EXCEPT ![t] = {catalog[t]}]]
        BY DEF ReadColumns
    <2>2. [held[p] EXCEPT ![t] = {catalog[t]}] \in [Tables -> SUBSET Schema]
        BY <1>2 DEF GateTypeOK
    <2> QED BY <2>1, <2>2 DEF GateTypeOK
<1>6. GateTypeOK'
    BY <1>1, <1>2, <1>3, <1>4, <1>5 DEF GateTypeOK
<1>7. HeldInv'
    BY <1>1, <1>3, <1>5 DEF HeldInv, Running
<1>8. ReadInv'
    <2> SUFFICES ASSUME NEW q \in Passes, phase'[q] = "keys"
                 PROVE  \E s \in held'[q][PathOrder[pos[q]]] : columns'[q] = s.columns
        BY <1>1 DEF ReadInv
    <2>1. CASE q = p
        BY <1>2, <1>4, <1>5, <2>1
    <2>2. CASE q # p
        <3>1. phase[q] = "keys" /\ PathOrder[pos[q]] \in Tables
            BY <1>3, <2>2, PlaceTyped
        <3> QED BY <1>4, <1>5, <2>2, <3>1 DEF ReadInv
    <2> QED BY <2>1, <2>2
<1>9. VerdictInv'
    <2> SUFFICES ASSUME NEW q \in Passes, NEW u \in Tables, Inspected(q, u)'
                 PROVE  Judged(q, u)'
        BY DEF VerdictInv
    <2>1. Inspected(q, u)
        BY <1>1, <1>3 DEF Inspected
    <2>2. ~(q = p /\ u = t)
        <3> SUFFICES ASSUME q = p, u = t PROVE FALSE
            OBVIOUS
        <3>1. PICK i \in 1..(pos[p] - 1) : PathOrder[i] = t
            BY <1>1, <2>1 DEF Inspected
        <3>2. i \in 1..Len(PathOrder) /\ i # pos[p]
            BY ONLY <1>2, Lengths, i \in 1..(pos[p] - 1)
        <3> QED BY <1>2, <3>1, <3>2, OneContractEach
    <2>3. held'[q][u] = held[q][u]
        BY <1>5, <2>2
    <2> QED BY <1>1, <2>1, <2>3 DEF VerdictInv, Judged
<1>10. PassedInv'
    <2> SUFFICES ASSUME NEW q \in Passes
                 PROVE  /\ phase'[q] = "rejected" => \E u \in Tables : errors[q][u] # {}
                        /\ phase'[q] = "passed" \/ (phase'[q] = "capture" /\ q \notin Reconciles)
                               => \A u \in Tables : errors[q][u] = {}
        BY <1>1 DEF PassedInv
    <2> QED BY <1>3 DEF PassedInv
<1>11. IdleInv'
    <2> SUFFICES ASSUME NEW q \in Passes, phase'[q] = "idle"
                 PROVE  pos'[q] = 1 /\ \A u \in Tables : held'[q][u] = {}
        BY DEF IdleInv
    <2>1. phase[q] = "idle" /\ q # p
        BY <1>3
    <2> QED BY <1>1, <1>5, <2>1 DEF IdleInv
<1> QED BY <1>6, <1>7, <1>8, <1>9, <1>10, <1>11 DEF GateInv

LEMMA ReadKeyKeeps ==
    ASSUME GateInv, NEW p \in Passes, ReadKey(p)
    PROVE  GateInv'
<1> GateTypeOK /\ HeldInv /\ ReadInv /\ VerdictInv /\ PassedInv /\ IdleInv
    BY DEF GateInv
<1> DEFINE t     == PathOrder[pos[p]]
           last  == pos[p] = Len(PathOrder)
           now   == Compare(t, columns[p], catalog[t].key)
           found == [errors[p] EXCEPT ![t] = now]
<1>1. phase[p] = "keys" /\ UNCHANGED <<catalog, alters, held>>
    BY DEF ReadKey
<1>2. pos[p] \in 1..Len(PathOrder) /\ t \in Tables /\ catalog[t] \in Schema
    BY <1>1, PlaceTyped DEF GateTypeOK
<1>3. /\ found \in [Tables -> SUBSET Error]
      /\ \A u \in Tables : found[u] = IF u = t THEN now ELSE errors[p][u]
    <2>1. now \in SUBSET Error
        BY CompareTyped
    <2> HIDE DEF now
    <2> QED BY <1>2, <2>1 DEF GateTypeOK
<1>4. /\ errors' \in [Passes -> [Tables -> SUBSET Error]]
      /\ \A q \in Passes : errors'[q] = IF q = p THEN found ELSE errors[q]
    <2>1. errors' = [errors EXCEPT ![p] = found]
        BY DEF ReadKey
    <2> HIDE DEF found
    <2> QED BY <1>3, <2>1 DEF GateTypeOK
<1>5. /\ phase' \in [Passes -> Phases]
      /\ \A q \in Passes : phase'[q] = IF q = p THEN Verdict(p, found, last) ELSE phase[q]
    <2>1. phase' = [phase EXCEPT ![p] = Verdict(p, found, last)]
        BY DEF ReadKey
    <2>2. Verdict(p, found, last) \in Phases
        BY DEF Verdict, Phases, Running
    <2> HIDE DEF found
    <2> QED BY <2>1, <2>2 DEF GateTypeOK
<1>6. /\ pos' \in [Passes -> Nat]
      /\ \A q \in Passes : pos'[q] = IF q = p THEN IF last THEN 1 ELSE pos[p] + 1 ELSE pos[q]
    BY <1>2 DEF ReadKey, GateTypeOK
<1>7. /\ columns' \in [Passes -> Columns]
      /\ \A q \in Passes : q # p => columns'[q] = columns[q]
    <2>1. [c \in Names |-> None] \in Columns
        BY DEF Columns
    <2> QED BY <2>1 DEF ReadKey, GateTypeOK
<1>8. Verdict(p, found, last) =
          IF ~last THEN "columns"
          ELSE IF \E u \in Tables : found[u] # {} THEN "rejected"
          ELSE IF p \in Validators THEN "passed" ELSE "capture"
    BY DEF Verdict
<1> HIDE DEF now, found
<1>9. GateTypeOK'
    <2>1. 1 \in 1..Len(CaptureOrder)
        BY Lengths
    <2>2. ASSUME NEW q \in Passes
          PROVE  /\ phase'[q] \in {"columns", "keys"} => pos'[q] \in 1..Len(PathOrder)
                 /\ phase'[q] = "capture" => pos'[q] \in 1..Len(CaptureOrder)
        <3>1. CASE q # p
            BY <1>5, <1>6, <3>1 DEF GateTypeOK
        <3>2. CASE q = p /\ last
            BY <1>5, <1>6, <1>8, <2>1, <3>2
        <3>3. CASE q = p /\ ~last
            <4>1. phase'[p] = "columns" /\ pos'[p] = pos[p] + 1
                BY <1>5, <1>6, <1>8, <3>3
            <4>2. pos[p] + 1 \in 1..Len(PathOrder)
                BY <1>2, <3>3, Lengths
            <4> QED BY <3>3, <4>1, <4>2
        <3> QED BY <3>1, <3>2, <3>3
    <2> QED BY <1>1, <1>4, <1>5, <1>6, <1>7, <2>2 DEF GateTypeOK
<1>10. HeldInv'
    BY <1>1, <1>5 DEF HeldInv, Running
<1>11. ReadInv'
    <2> SUFFICES ASSUME NEW q \in Passes, phase'[q] = "keys"
                 PROVE  \E s \in held[q][PathOrder[pos'[q]]] : columns'[q] = s.columns
        BY <1>1 DEF ReadInv
    <2>1. q # p
        BY <1>5, <1>8
    <2> QED BY <1>5, <1>6, <1>7, <2>1 DEF ReadInv
<1>12. held[p][t] # {} /\ (\A s \in Schema : held[p][t] = {s} => (now = {} <=> Conforms(t, s)))
       /\ (now # {} => \E s \in Schema : s \in held[p][t] /\ ~Conforms(t, s))
    <2>1. PICK s \in held[p][t] : columns[p] = s.columns
        BY <1>1 DEF ReadInv
    <2>2. s \in Schema /\ catalog[t] \in held[p][t]
        BY <1>1, <1>2, <2>1 DEF HeldInv, Running, GateTypeOK
    <2>3. now = Compare(t, s.columns, catalog[t].key)
        BY <2>1 DEF now
    <2>4. ASSUME NEW u \in Schema, held[p][t] = {u}
          PROVE  now = {} <=> Conforms(t, u)
        <3>1. s = u /\ catalog[t] = u
            BY <2>1, <2>2, <2>4
        <3>2. now = Compare(t, u.columns, u.key)
            BY <2>3, <3>1
        <3>3. Compare(t, u.columns, u.key) = {} <=> Conforms(t, u)
            BY <1>2, CompareExact
        <3> QED BY ONLY <3>2, <3>3
    <2>5. ASSUME now # {}
          PROVE  \E u \in Schema : u \in held[p][t] /\ ~Conforms(t, u)
        <3>1. ~(Conforms(t, s) /\ Conforms(t, catalog[t]))
            BY <1>2, <2>2, <2>3, <2>5, CompareMixed
        <3> QED BY <1>2, <2>1, <2>2, <3>1
    <2> QED BY <2>1, <2>4, <2>5
<1>13. VerdictInv'
    <2> SUFFICES ASSUME NEW q \in Passes, NEW u \in Tables, Inspected(q, u)'
                 PROVE  Judged(q, u)'
        BY DEF VerdictInv
    <2>1. CASE q # p
        <3>1. Inspected(q, u)
            BY <1>1, <1>5, <1>6, <2>1 DEF Inspected
        <3> QED BY <1>1, <1>4, <2>1, <3>1 DEF VerdictInv, Judged
    <2>2. CASE q = p /\ u = t
        BY <1>1, <1>2, <1>3, <1>4, <1>12, <2>2 DEF Judged
    <2>3. CASE q = p /\ u # t
        <3>1. \E i \in 1..(pos[p] - 1) : PathOrder[i] = u
            <4>1. CASE ~last
                <5>1. pos'[p] = pos[p] + 1 /\ phase'[p] = "columns"
                    BY <1>5, <1>6, <1>8, <4>1
                <5>2. PICK i \in 1..(pos'[p] - 1) : PathOrder[i] = u
                    BY <2>3, <5>1 DEF Inspected
                <5>3. i # pos[p]
                    BY <2>3, <5>2
                <5>4. i \in 1..(pos[p] - 1)
                    BY ONLY <5>1, <5>3, <1>2, Lengths, i \in 1..(pos'[p] - 1)
                <5> QED BY <5>2, <5>4
            <4>2. CASE last
                <5>1. PICK i \in 1..Len(PathOrder) : PathOrder[i] = u
                    BY OneContractEach
                <5>2. i # pos[p]
                    BY <2>3, <5>1
                <5>3. i \in 1..(pos[p] - 1)
                    BY ONLY <4>2, <5>2, Lengths, i \in 1..Len(PathOrder), <1>2
                <5> QED BY <5>1, <5>3
            <4> QED BY <4>1, <4>2
        <3>2. Inspected(p, u)
            BY <1>1, <3>1 DEF Inspected
        <3>3. errors'[p][u] = errors[p][u]
            BY <1>3, <1>4, <2>3
        <3> QED BY <1>1, <2>3, <3>2, <3>3 DEF VerdictInv, Judged
    <2> QED BY <2>1, <2>2, <2>3
<1>14. PassedInv'
    <2> SUFFICES ASSUME NEW q \in Passes
                 PROVE  /\ phase'[q] = "rejected" => \E u \in Tables : errors'[q][u] # {}
                        /\ phase'[q] = "passed" \/ (phase'[q] = "capture" /\ q \notin Reconciles) =>
                               \A u \in Tables : errors'[q][u] = {}
        BY DEF PassedInv
    <2>1. CASE q # p
        BY <1>4, <1>5, <2>1 DEF PassedInv
    <2>2. CASE q = p
        BY <1>4, <1>5, <1>8, <2>2
    <2> QED BY <2>1, <2>2
<1>15. IdleInv'
    BY <1>1, <1>5, <1>6, <1>8 DEF IdleInv
<1> QED BY <1>9, <1>10, <1>11, <1>13, <1>14, <1>15 DEF GateInv

LEMMA CaptureTableKeeps ==
    ASSUME GateInv, NEW p \in Passes, CaptureTable(p)
    PROVE  GateInv'
<1> GateTypeOK /\ HeldInv /\ ReadInv /\ VerdictInv /\ PassedInv /\ IdleInv
    BY DEF GateInv
<1>1. phase[p] = "capture" /\ UNCHANGED <<catalog, alters, columns, errors, held>>
      /\ pos[p] \in 1..Len(CaptureOrder)
    BY DEF CaptureTable, GateTypeOK
<1>2. /\ phase' \in [Passes -> Phases] /\ pos' \in [Passes -> Nat]
      /\ \A q \in Passes : q # p => phase'[q] = phase[q] /\ pos'[q] = pos[q]
      /\ \/ phase'[p] = "captured"
         \/ phase'[p] = "capture" /\ pos'[p] = pos[p] + 1 /\ pos[p] # Len(CaptureOrder)
    <2>1. CASE pos[p] = Len(CaptureOrder)
        BY <2>1 DEF CaptureTable, GateTypeOK, Phases, Running
    <2>2. CASE pos[p] # Len(CaptureOrder)
        <3>1. pos' = [pos EXCEPT ![p] = @ + 1] /\ phase' = phase /\ pos[p] + 1 \in Nat
            BY <1>1, <2>2, Lengths DEF CaptureTable
        <3> QED BY <1>1, <2>2, <3>1 DEF GateTypeOK
    <2> QED BY <2>1, <2>2
<1>3. GateTypeOK'
    <2>1. ASSUME NEW q \in Passes
          PROVE  /\ phase'[q] \in {"columns", "keys"} => pos'[q] \in 1..Len(PathOrder)
                 /\ phase'[q] = "capture" => pos'[q] \in 1..Len(CaptureOrder)
        <3>1. CASE q # p
            BY <1>2, <3>1 DEF GateTypeOK
        <3>2. CASE q = p
            <4>1. pos[p] # Len(CaptureOrder) => pos[p] + 1 \in 1..Len(CaptureOrder)
                BY <1>1, Lengths
            <4> QED BY <1>2, <3>2, <4>1
        <3> QED BY <3>1, <3>2
    <2> QED BY <1>1, <1>2, <2>1 DEF GateTypeOK
<1>4. HeldInv'
    BY <1>1, <1>2 DEF HeldInv, Running
<1>5. ReadInv'
    BY <1>1, <1>2 DEF ReadInv
<1>6. VerdictInv'
    <2> SUFFICES ASSUME NEW q \in Passes, NEW u \in Tables, Inspected(q, u)'
                 PROVE  Judged(q, u)
        BY <1>1 DEF VerdictInv, Judged
    <2>1. Inspected(q, u)
        BY <1>1, <1>2 DEF Inspected
    <2> QED BY <2>1 DEF VerdictInv
<1>7. PassedInv' /\ IdleInv'
    BY <1>1, <1>2 DEF PassedInv, IdleInv
<1> QED BY <1>3, <1>4, <1>5, <1>6, <1>7 DEF GateInv

\* Passes that end without a verdict: by themselves, or with the computes.
LEMMA FailingKeeps ==
    ASSUME GateInv, UNCHANGED <<catalog, alters, pos, columns, errors, held>>,
           phase' \in [Passes -> Phases],
           \A p \in Passes : phase'[p] \in {phase[p], "failed"}
    PROVE  GateInv'
<1> GateTypeOK /\ HeldInv /\ ReadInv /\ VerdictInv /\ PassedInv /\ IdleInv
    BY DEF GateInv
<1>1. GateTypeOK'
    <2>1. ASSUME NEW q \in Passes
          PROVE  /\ phase'[q] \in {"columns", "keys"} => pos'[q] \in 1..Len(PathOrder)
                 /\ phase'[q] = "capture" => pos'[q] \in 1..Len(CaptureOrder)
        BY DEF GateTypeOK
    <2> QED BY <2>1 DEF GateTypeOK
<1>2. HeldInv'
    BY DEF HeldInv, Running
<1>3. ReadInv'
    <2> SUFFICES ASSUME NEW q \in Passes, phase'[q] = "keys"
                 PROVE  \E s \in held[q][PathOrder[pos[q]]] : columns[q] = s.columns
        BY DEF ReadInv
    <2> QED BY DEF ReadInv
<1>4. VerdictInv'
    <2> SUFFICES ASSUME NEW q \in Passes, NEW u \in Tables, Inspected(q, u)'
                 PROVE  Judged(q, u)
        BY DEF VerdictInv, Judged
    <2>1. Inspected(q, u)
        BY DEF Inspected
    <2> QED BY <2>1 DEF VerdictInv
<1>5. PassedInv' /\ IdleInv'
    <2>1. \A q \in Passes : phase'[q] # "failed" => phase'[q] = phase[q]
        OBVIOUS
    <2> QED BY <2>1 DEF PassedInv, IdleInv
<1> QED BY <1>1, <1>2, <1>3, <1>4, <1>5 DEF GateInv

LEMMA GateStutters == GateInv /\ UNCHANGED gateVars => GateInv'
<1> SUFFICES ASSUME GateInv, UNCHANGED gateVars PROVE GateInv'
    OBVIOUS
<1> QED BY FailingKeeps DEF GateInv, GateTypeOK, gateVars

-----------------------------------------------------------------------------
(* The invariant of the set-up runs.                                        *)

LEMMA WantedIs ==
    /\ Len(Wanted) = 2 /\ Wanted[1] = "flow_watermarks" /\ Wanted[2] = "claims"
    /\ 1..Len(Wanted) = {1, 2}
BY DEF Wanted

\* The publication exists only under logical replication, and is filled in order.
PubInv ==
    /\ publication.exists => wal
    /\ ~publication.exists => publication.tables = {}
    /\ "claims" \in publication.tables => "flow_watermarks" \in publication.tables

\* What a run has seen to exist.
SeenInv ==
    \A e \in Setups :
        /\ step[e] \in {"table", "lookup", "create", "list", "add", "ready", "raised"} => wal
        /\ step[e] \in {"lookup", "create", "list", "add", "ready", "raised"} => flowTable
        /\ step[e] \in {"list", "add", "ready", "raised"} => publication.exists

\* The tables before the one a run is at are published, and those it saw still are.
PlaceInv ==
    \A e \in Setups :
        /\ step[e] \in {"idle", "wal", "table", "lookup", "create", "list"} => place[e] = 1
        /\ step[e] = "add" => /\ listed[e] \subseteq publication.tables
                              /\ place[e] = 2 => "flow_watermarks" \in publication.tables
        /\ step[e] = "ready" => publication.tables = Published

\* What a run takes to be absent was put there by another run, if it is there.
RivalInv ==
    \A e \in Setups :
        /\ step[e] = "raised" => rivalled[e]
        /\ step[e] = "create" /\ publication.exists => rivalled[e]
        /\ step[e] = "add" /\ place[e] = 1 /\ "flow_watermarks" \in publication.tables \ listed[e]
               => rivalled[e]
        /\ step[e] = "add" /\ "claims" \in publication.tables \ listed[e] => rivalled[e]

\* Run f will publish what is missing.
Completes(f) ==
    \/ step[f] = "list"
    \/ /\ step[f] = "add" /\ place[f] = 1
       /\ "flow_watermarks" \in publication.tables => "flow_watermarks" \in listed[f]
    \/ step[f] = "add" /\ place[f] = 2

\* As long as no run was cut off, one of them will complete what was begun.
ProgressInv ==
    publication.exists /\ publication.tables # Published =>
        \/ \E e \in Setups : step[e] = "cut"
        \/ \E f \in Setups : Completes(f)

SetupInv == SetupTypeOK /\ PubInv /\ SeenInv /\ PlaceInv /\ RivalInv /\ ProgressInv

LEMMA SetupStarts == SetupInit => SetupInv
<1> SUFFICES ASSUME SetupInit PROVE SetupInv
    OBVIOUS
<1>1. SetupTypeOK
    BY WantedIs DEF SetupInit, SetupTypeOK, Steps
<1>2. \A e \in Setups : step[e] = "idle" /\ place[e] = 1
    BY DEF SetupInit
<1>3. publication.exists = FALSE /\ publication.tables = {}
    BY DEF SetupInit
<1> QED BY <1>1, <1>2, <1>3 DEF SetupInv, PubInv, SeenInv, PlaceInv, RivalInv, ProgressInv

\* Steps of run e that leave the publication alone, to a statement before "list".
LEMMA MovesKeep ==
    ASSUME SetupInv, NEW e \in Setups, NEW s \in Steps, GoTo(e, s),
           UNCHANGED <<wal, publication, place, listed>>,
           flowTable' \in BOOLEAN, flowTable => flowTable',
           rivalled' \in [Setups -> BOOLEAN],
           \A f \in Setups : f # e \/ s = "raised" => rivalled'[f] = rivalled[f],
           \/ s \in {"wal", "refused"}
           \/ s \in {"table"} /\ wal
           \/ s \in {"lookup", "create"} /\ wal /\ flowTable'
           \/ s = "list" /\ wal /\ flowTable' /\ publication.exists
           \/ s = "cut"
           \/ s = "raised" /\ wal /\ flowTable' /\ publication.exists /\ rivalled[e],
           s = "create" => ~publication.exists,
           s \notin {"cut", "refused", "raised"} => place[e] = 1,
           step[e] # "cut", step[e] \in {"list", "add"} => s \in {"cut", "raised"},
           s = "raised" => ~Completes(e) \/ publication.tables = Published
    PROVE  SetupInv'
<1> SetupTypeOK /\ PubInv /\ SeenInv /\ PlaceInv /\ RivalInv /\ ProgressInv
    BY DEF SetupInv
<1>1. /\ step' \in [Setups -> Steps]
      /\ \A f \in Setups : step'[f] = IF f = e THEN s ELSE step[f]
    BY DEF GoTo, SetupTypeOK
<1>2. SetupTypeOK'
    BY <1>1 DEF SetupTypeOK
<1>3. PubInv'
    BY DEF PubInv
<1>4. SeenInv'
    BY <1>1 DEF SeenInv
<1>5. PlaceInv'
    BY <1>1 DEF PlaceInv
<1>6. RivalInv'
    BY <1>1 DEF RivalInv
<1>7. ProgressInv'
    <2> SUFFICES ASSUME publication.exists, publication.tables # Published, s # "cut",
                        \A f \in Setups : step[f] # "cut" \/ f = e
                 PROVE  \E f \in Setups : Completes(f)'
        BY <1>1 DEF ProgressInv
    <2>1. CASE \E f \in Setups : f # e /\ Completes(f)
        BY <1>1, <2>1 DEF Completes
    <2> QED BY <1>1, <2>1 DEF ProgressInv, Completes
<1> QED BY <1>2, <1>3, <1>4, <1>5, <1>6, <1>7 DEF SetupInv

\* Run e publishes t: the other runs have a rival from here on.
LEMMA PublishTells ==
    ASSUME SetupTypeOK, NEW e \in Setups, NEW tables \in SUBSET Published, Publish(e, tables)
    PROVE  /\ publication' \in [exists : BOOLEAN, tables : SUBSET Published]
           /\ publication'.exists /\ publication'.tables = tables
           /\ rivalled' \in [Setups -> BOOLEAN] /\ rivalled'[e] = rivalled[e]
           /\ \A f \in Setups : f # e => rivalled'[f]
BY DEF SetupTypeOK, Publish

LEMMA CreateKeeps ==
    ASSUME SetupInv, NEW e \in Setups, CreatePublication(e), ~publication.exists
    PROVE  SetupInv'
<1> SetupTypeOK /\ PubInv /\ SeenInv /\ PlaceInv /\ RivalInv /\ ProgressInv
    BY DEF SetupInv
<1>1. /\ step[e] = "create" /\ Publish(e, {}) /\ GoTo(e, "list")
      /\ UNCHANGED <<wal, flowTable, place, listed>>
    BY DEF CreatePublication
<1>2. /\ step' \in [Setups -> Steps]
      /\ \A f \in Setups : step'[f] = IF f = e THEN "list" ELSE step[f]
    BY <1>1 DEF GoTo, SetupTypeOK, Steps, Busy
<1>3. /\ publication' \in [exists : BOOLEAN, tables : SUBSET Published]
      /\ publication'.exists /\ publication'.tables = {} /\ rivalled' \in [Setups -> BOOLEAN]
      /\ \A f \in Setups : f # e => rivalled'[f]
    BY <1>1, PublishTells
<1>4. publication.tables = {} /\ wal /\ flowTable /\ place[e] = 1
    BY <1>1 DEF PubInv, SeenInv, PlaceInv
<1>5. SetupTypeOK'
    BY <1>1, <1>2, <1>3 DEF SetupTypeOK
<1>6. PubInv' /\ SeenInv'
    BY <1>1, <1>2, <1>3, <1>4 DEF PubInv, SeenInv
<1>7. PlaceInv'
    BY <1>1, <1>2, <1>3, <1>4 DEF PlaceInv
<1>8. RivalInv'
    BY <1>1, <1>2, <1>3 DEF RivalInv
<1>9. ProgressInv'
    BY <1>2 DEF ProgressInv, Completes
<1> QED BY <1>5, <1>6, <1>7, <1>8, <1>9 DEF SetupInv

LEMMA ListKeeps ==
    ASSUME SetupInv, NEW e \in Setups, ListTables(e)
    PROVE  SetupInv'
<1> SetupTypeOK /\ PubInv /\ SeenInv /\ PlaceInv /\ RivalInv /\ ProgressInv
    BY DEF SetupInv
<1>1. step[e] = "list" /\ place[e] = 1 /\ UNCHANGED <<wal, flowTable, publication, place>>
    BY DEF ListTables, PlaceInv
<1>2. /\ step' \in [Setups -> Steps]
      /\ \A f \in Setups : step'[f] = IF f = e THEN "add" ELSE step[f]
    BY DEF ListTables, GoTo, SetupTypeOK, Steps, Busy
<1>3. /\ listed' \in [Setups -> SUBSET Published]
      /\ \A f \in Setups : listed'[f] = IF f = e THEN publication.tables ELSE listed[f]
    BY DEF ListTables, SetupTypeOK
<1>4. /\ rivalled' \in [Setups -> BOOLEAN]
      /\ \A f \in Setups : f # e => rivalled'[f] = rivalled[f]
    BY DEF ListTables, SetupTypeOK
<1>5. SetupTypeOK' /\ PubInv'
    BY <1>1, <1>2, <1>3, <1>4 DEF SetupTypeOK, PubInv
<1>6. SeenInv'
    BY <1>1, <1>2 DEF SeenInv
<1>7. PlaceInv'
    BY <1>1, <1>2, <1>3 DEF PlaceInv
<1>8. RivalInv'
    BY <1>1, <1>2, <1>3, <1>4 DEF RivalInv
<1>9. ProgressInv'
    <2>1. Completes(e)'
        BY <1>1, <1>2, <1>3 DEF Completes
    <2> QED BY <2>1 DEF ProgressInv
<1> QED BY <1>5, <1>6, <1>7, <1>8, <1>9 DEF SetupInv

LEMMA AddKeeps ==
    ASSUME SetupInv, NEW e \in Setups, AddTable(e)
    PROVE  SetupInv'
<1> SetupTypeOK /\ PubInv /\ SeenInv /\ PlaceInv /\ RivalInv /\ ProgressInv
    BY DEF SetupInv
<1> DEFINE t == Wanted[place[e]]
<1>1. step[e] = "add" /\ UNCHANGED <<wal, flowTable, listed>> /\ listed[e] \subseteq publication.tables
    <2>1. step[e] = "add" /\ UNCHANGED <<wal, flowTable, listed>>
        BY ONLY AddTable(e) DEF AddTable
    <2> QED BY <2>1 DEF PlaceInv
<1>2. \/ place[e] = 1 /\ t = "flow_watermarks"
      \/ place[e] = 2 /\ t = "claims" /\ "flow_watermarks" \in publication.tables
    BY <1>1, WantedIs DEF SetupTypeOK, PlaceInv
<1>3. CASE Missing(e) /\ t \in publication.tables
    <2>1. GoTo(e, "raised") /\ UNCHANGED <<publication, place, rivalled>>
        BY <1>3 DEF AddTable
    <2>2. t \notin listed[e]
        BY <1>3 DEF Missing
    <2>3. rivalled[e] /\ wal /\ flowTable /\ publication.exists
        BY <1>1, <1>2, <1>3, <2>2 DEF RivalInv, SeenInv
    <2>4. ~Completes(e) \/ publication.tables = Published
        BY <1>1, <1>2, <1>3, <2>2 DEF Completes, SetupTypeOK, Published
    <2>5. "raised" \in Steps
        BY DEF Steps
    <2> QED BY <1>1, <2>1, <2>3, <2>4, <2>5, MovesKeep DEF SetupTypeOK
<1>4. CASE ~Missing(e) \/ t \notin publication.tables
    <2> DEFINE now == publication.tables \cup {t}
    <2>1. /\ publication' \in [exists : BOOLEAN, tables : SUBSET Published]
          /\ publication'.exists /\ publication'.tables = now
          /\ rivalled' \in [Setups -> BOOLEAN] /\ rivalled'[e] = rivalled[e]
          /\ \A f \in Setups : f # e =>
                rivalled'[f] \/ (now = publication.tables /\ rivalled'[f] = rivalled[f])
          /\ NextPlace(e)
        <3>1. CASE ~Missing(e)
            <4>1. now = publication.tables /\ publication.exists
                BY <1>1, <3>1 DEF Missing, SeenInv
            <4> QED BY <3>1, <4>1 DEF AddTable, SetupTypeOK
        <3>2. CASE Missing(e) /\ t \notin publication.tables
            <4>1. Publish(e, now) /\ NextPlace(e) /\ now \in SUBSET Published
                BY <1>2, <3>2 DEF AddTable, SetupTypeOK, Published
            <4> QED BY <4>1, PublishTells
        <3> QED BY <1>4, <3>1, <3>2
    <2>2. CASE place[e] = 1
        <3>1. /\ place' \in [Setups -> 1..Len(Wanted)] /\ step' = step
              /\ \A f \in Setups : place'[f] = IF f = e THEN 2 ELSE place[f]
            BY <2>1, <2>2, WantedIs DEF NextPlace, SetupTypeOK
        <3>2. t = "flow_watermarks" /\ wal
            BY <1>1, <1>2, <2>2 DEF SeenInv
        <3>3. SetupTypeOK' /\ PubInv'
            BY <1>1, <2>1, <3>1, <3>2 DEF SetupTypeOK, PubInv
        <3>4. SeenInv'
            BY <1>1, <2>1, <3>1 DEF SeenInv
        <3>5. PlaceInv'
            BY <1>1, <2>1, <3>1, <3>2 DEF PlaceInv, SetupTypeOK
        <3>6. RivalInv'
            <4> SUFFICES ASSUME NEW f \in Setups
                         PROVE  /\ step'[f] = "raised" => rivalled'[f]
                                /\ step'[f] = "create" /\ publication'.exists => rivalled'[f]
                                /\ step'[f] = "add" /\ place'[f] = 1
                                   /\ "flow_watermarks" \in publication'.tables \ listed'[f]
                                       => rivalled'[f]
                                /\ step'[f] = "add" /\ "claims" \in publication'.tables \ listed'[f]
                                       => rivalled'[f]
                BY DEF RivalInv
            <4>1. CASE f # e /\ now = publication.tables /\ rivalled'[f] = rivalled[f]
                <5>1. step[f] = "create" => publication'.exists = publication.exists
                    BY <1>1, <2>1 DEF SeenInv
                <5> QED BY <1>1, <2>1, <3>1, <4>1, <5>1 DEF RivalInv
            <4>2. CASE f = e
                BY <1>1, <2>1, <2>2, <3>1, <3>2, <4>2 DEF RivalInv
            <4> QED BY <2>1, <4>1, <4>2
        <3>7. ProgressInv'
            BY <1>1, <3>1 DEF ProgressInv, Completes
        <3> QED BY <3>3, <3>4, <3>5, <3>6, <3>7 DEF SetupInv
    <2>3. CASE place[e] = 2
        <3>1. /\ step' \in [Setups -> Steps] /\ place' = place
              /\ \A f \in Setups : step'[f] = IF f = e THEN "ready" ELSE step[f]
            BY <2>1, <2>3, WantedIs DEF NextPlace, GoTo, SetupTypeOK, Steps
        <3>2. now = Published /\ wal /\ flowTable
            BY <1>1, <1>2, <2>3 DEF SeenInv, SetupTypeOK, Published
        <3>3. SetupTypeOK' /\ PubInv'
            BY <1>1, <2>1, <3>1, <3>2 DEF SetupTypeOK, PubInv, Published
        <3>4. SeenInv'
            BY <1>1, <2>1, <3>1, <3>2 DEF SeenInv
        <3>5. PlaceInv'
            BY <1>1, <2>1, <3>1, <3>2 DEF PlaceInv, SetupTypeOK, Published
        <3>6. RivalInv'
            <4> SUFFICES ASSUME NEW f \in Setups
                         PROVE  /\ step'[f] = "raised" => rivalled'[f]
                                /\ step'[f] = "create" /\ publication'.exists => rivalled'[f]
                                /\ step'[f] = "add" /\ place'[f] = 1
                                   /\ "flow_watermarks" \in publication'.tables \ listed'[f]
                                       => rivalled'[f]
                                /\ step'[f] = "add" /\ "claims" \in publication'.tables \ listed'[f]
                                       => rivalled'[f]
                BY DEF RivalInv
            <4>1. CASE f # e /\ now = publication.tables /\ rivalled'[f] = rivalled[f]
                <5>1. step[f] = "create" => publication'.exists = publication.exists
                    BY <1>1, <2>1 DEF SeenInv
                <5> QED BY <1>1, <2>1, <3>1, <4>1, <5>1 DEF RivalInv
            <4>2. CASE f = e
                BY <1>1, <2>1, <2>3, <3>1, <3>2, <4>2 DEF RivalInv
            <4> QED BY <2>1, <4>1, <4>2
        <3>7. ProgressInv'
            BY <2>1, <3>2 DEF ProgressInv
        <3> QED BY <3>3, <3>4, <3>5, <3>6, <3>7 DEF SetupInv
    <2> QED BY <1>2, <2>2, <2>3
<1> QED BY <1>3, <1>4

LEMMA SetupStepKeeps ==
    ASSUME SetupInv, NEW e \in Setups, BeginSetup(e) \/ SetupStep(e)
    PROVE  SetupInv'
<1> SetupTypeOK /\ PubInv /\ SeenInv /\ PlaceInv /\ RivalInv /\ ProgressInv
    BY DEF SetupInv
<1>1. {"wal", "table", "refused", "lookup", "create", "list", "cut", "raised"} \subseteq Steps
    BY DEF Steps, Busy
<1>2. CASE BeginSetup(e)
    BY <1>1, <1>2, MovesKeep DEF BeginSetup, SetupTypeOK, PlaceInv
<1>3. CASE ShowWal(e)
    <2>1. CASE wal
        BY <1>1, <1>3, <2>1, MovesKeep DEF ShowWal, SetupTypeOK, PlaceInv
    <2>2. CASE ~wal
        BY <1>1, <1>3, <2>2, MovesKeep DEF ShowWal, SetupTypeOK
    <2> QED BY <2>1, <2>2
<1>4. CASE CreateFlowTable(e)
    BY <1>1, <1>4, MovesKeep DEF CreateFlowTable, SetupTypeOK, PlaceInv, SeenInv
<1>5. CASE LookupPublication(e)
    <2>1. /\ rivalled' \in [Setups -> BOOLEAN] /\ wal /\ flowTable /\ place[e] = 1
          /\ \A f \in Setups : f # e => rivalled'[f] = rivalled[f]
        BY <1>5 DEF LookupPublication, SetupTypeOK, SeenInv, PlaceInv
    <2>2. CASE publication.exists
        <3>1. /\ step[e] = "lookup" /\ GoTo(e, "list")
              /\ UNCHANGED <<wal, flowTable, publication, place, listed>>
            BY <1>5, <2>2 DEF LookupPublication
        <3>2. flowTable' /\ flowTable' \in BOOLEAN /\ "list" \in Steps
            BY <1>1, <2>1, <3>1 DEF SetupTypeOK
        <3> QED BY <2>1, <2>2, <3>1, <3>2, MovesKeep, SMTT(30)
    <2>3. CASE ~publication.exists
        <3>1. /\ step[e] = "lookup" /\ GoTo(e, "create")
              /\ UNCHANGED <<wal, flowTable, publication, place, listed>>
            BY <1>5, <2>3 DEF LookupPublication
        <3> QED BY <1>1, <2>1, <2>3, <3>1, MovesKeep DEF SetupTypeOK
    <2> QED BY <2>2, <2>3
<1>6. CASE CreatePublication(e)
    <2>1. CASE publication.exists
        <3>1. /\ step[e] = "create" /\ GoTo(e, "raised")
              /\ UNCHANGED <<wal, flowTable, publication, place, listed, rivalled>>
            BY <1>6, <2>1 DEF CreatePublication
        <3>2. wal /\ flowTable /\ rivalled[e] /\ ~Completes(e)
            BY <2>1, <3>1 DEF SeenInv, RivalInv, Completes
        <3> QED BY <1>1, <2>1, <3>1, <3>2, MovesKeep DEF SetupTypeOK
    <2>2. CASE ~publication.exists
        BY <1>6, <2>2, CreateKeeps
    <2> QED BY <2>1, <2>2
<1>7. CASE ListTables(e)
    BY <1>7, ListKeeps
<1>8. CASE AddTable(e)
    BY <1>8, AddKeeps
<1>9. CASE SetupCut(e)
    BY <1>1, <1>9, MovesKeep DEF SetupCut, SetupTypeOK, Busy
<1> QED BY <1>2, <1>3, <1>4, <1>5, <1>6, <1>7, <1>8, <1>9 DEF SetupStep

\* Only runs that have not seen the publication can be under way.
LEMMA EnableKeeps ==
    ASSUME SetupInv, EnableLogical
    PROVE  SetupInv'
<1> SetupTypeOK /\ PubInv /\ SeenInv /\ PlaceInv /\ RivalInv /\ ProgressInv
    BY DEF SetupInv
<1>1. /\ ~wal /\ wal' = TRUE /\ UNCHANGED <<flowTable, publication, place, listed, rivalled>>
      /\ ~publication.exists
    BY DEF EnableLogical, PubInv
<1>2. /\ step' \in [Setups -> Steps]
      /\ \A e \in Setups : step'[e] \in {step[e], "cut"}
    BY DEF EnableLogical, SetupTypeOK, Steps
<1>3. SetupTypeOK' /\ PubInv'
    BY <1>1, <1>2 DEF SetupTypeOK, PubInv
<1>4. SeenInv'
    BY <1>1, <1>2 DEF SeenInv
<1>5. PlaceInv'
    BY <1>1, <1>2 DEF PlaceInv
<1>6. RivalInv'
    BY <1>1, <1>2 DEF RivalInv
<1>7. ProgressInv'
    BY <1>1 DEF ProgressInv
<1> QED BY <1>3, <1>4, <1>5, <1>6, <1>7 DEF SetupInv

LEMMA SetupStutters == SetupInv /\ UNCHANGED setupVars => SetupInv'
BY DEF setupVars, SetupInv, SetupTypeOK, PubInv, SeenInv, PlaceInv, RivalInv, ProgressInv, Completes

-----------------------------------------------------------------------------
(* The specification.                                                       *)

IInv == GateInv /\ SetupInv /\ starts \in 0..MaxEvents

LEMMA PassStepKeeps ==
    ASSUME GateInv, NEW p \in Passes, PassStep(p)
    PROVE  GateInv'
<1>1. CASE PassFails(p)
    <2>1. UNCHANGED <<catalog, alters, pos, columns, errors, held>>
        BY <1>1 DEF PassFails
    <2>2. phase' \in [Passes -> Phases] /\ \A q \in Passes : phase'[q] \in {phase[q], "failed"}
        BY <1>1 DEF PassFails, GateInv, GateTypeOK, Phases
    <2> QED BY <2>1, <2>2, FailingKeeps
<1> QED BY <1>1, ReadColumnsKeeps, ReadKeyKeeps, CaptureTableKeeps DEF PassStep

LEMMA Invariance == Spec => []IInv
<1>1. Init => IInv
    BY GateStarts, SetupStarts, EventsNat DEF Init, IInv
<1>2. IInv /\ [Next]_vars => IInv'
    <2> SUFFICES ASSUME IInv, [Next]_vars PROVE IInv'
        OBVIOUS
    <2> GateInv /\ SetupInv /\ starts \in 0..MaxEvents
        BY DEF IInv
    <2>1. CASE Start
        <3>1. starts' \in 0..MaxEvents
            <4>1. alters \in Nat /\ starts + alters < MaxEvents /\ starts' = starts + 1
                BY <2>1 DEF Start, GateInv, GateTypeOK
            <4> QED BY <4>1, EventsNat
        <3>2. CASE \E p \in Passes : BeginPass(p) /\ UNCHANGED setupVars
            BY <3>1, <3>2, BeginPassKeeps, SetupStutters DEF IInv
        <3>3. CASE \E e \in Setups : BeginSetup(e) /\ UNCHANGED gateVars
            BY <3>1, <3>3, SetupStepKeeps, GateStutters DEF IInv
        <3> QED BY <2>1, <3>2, <3>3 DEF Start
    <2>2. CASE AlterTable /\ UNCHANGED <<setupVars, starts>>
        BY <2>2, AlterTableKeeps, SetupStutters DEF IInv
    <2>3. CASE (\E p \in Passes : PassStep(p)) /\ UNCHANGED <<setupVars, starts>>
        BY <2>3, PassStepKeeps, SetupStutters DEF IInv
    <2>4. CASE (\E e \in Setups : SetupStep(e)) /\ UNCHANGED <<gateVars, starts>>
        BY <2>4, SetupStepKeeps, GateStutters DEF IInv
    <2>5. CASE RestartComputes
        <3>1. UNCHANGED <<catalog, alters, pos, columns, errors, held, starts>> /\ EnableLogical
            BY <2>5 DEF RestartComputes
        <3>2. phase' \in [Passes -> Phases] /\ \A p \in Passes : phase'[p] \in {phase[p], "failed"}
            BY <2>5 DEF RestartComputes, GateInv, GateTypeOK, Phases
        <3> QED BY <3>1, <3>2, FailingKeeps, EnableKeeps DEF IInv
    <2>6. CASE UNCHANGED vars
        BY <2>6, GateStutters, SetupStutters DEF IInv, vars
    <2> QED BY <2>1, <2>2, <2>3, <2>4, <2>5, <2>6 DEF Next
<1> QED BY <1>1, <1>2, PTL DEF Spec

\* The state stays within its types, whatever is interleaved: every position of a
\* pass is a place of the list it walks, every list of errors one the comparison
\* can give.
THEOREM TypeCorrect == Spec => []TypeOK
<1>1. IInv => TypeOK
    BY DEF IInv, GateInv, SetupInv, TypeOK
<1> QED BY Invariance, <1>1, PTL

\* The verdict of validate_source_contracts is exact on each table that is left
\* alone from the reading of its columns on, for any contracts.
THEOREM VerdictsAlwaysExact == Spec => []VerdictsExact
<1>1. IInv => VerdictsExact
    <2> SUFFICES ASSUME IInv, NEW p \in Passes, phase[p] \in {"passed", "rejected"},
                        NEW t \in Tables, held[p][t] \subseteq {catalog[t]}
                 PROVE  errors[p][t] = {} <=> Conforms(t, catalog[t])
        BY DEF VerdictsExact
    <2>1. Judged(p, t) /\ catalog[t] \in Schema
        BY DEF IInv, GateInv, GateTypeOK, VerdictInv, Inspected
    <2>2. held[p][t] = {catalog[t]}
        BY <2>1 DEF Judged
    <2> QED BY <2>1, <2>2 DEF Judged
<1> QED BY Invariance, <1>1, PTL

\* A rejected pass has seen a table break its contract: columns of one sound schema
\* and the key of another do not add up to an error.
THEOREM RejectionsAlwaysReal == Spec => []RejectionsReal
<1>1. IInv => RejectionsReal
    <2> SUFFICES ASSUME IInv, NEW p \in Passes, phase[p] = "rejected"
                 PROVE  \E t \in Tables, s \in Schema : s \in held[p][t] /\ ~Conforms(t, s)
        BY DEF RejectionsReal
    <2>1. PICK t \in Tables : errors[p][t] # {}
        BY DEF IInv, GateInv, PassedInv
    <2>2. Judged(p, t)
        BY DEF IInv, GateInv, VerdictInv, Inspected
    <2> QED BY <2>1, <2>2 DEF Judged
<1> QED BY Invariance, <1>1, PTL

\* A gated ingestion captures a table that breaks its contract only when the table
\* was altered after the gate had read its columns.
THEOREM BreachesAlwaysExplained == Spec => BreachesExplained
<1> DEFINE Explained ==
        \A p \in Passes :
            LET t == CaptureOrder[pos[p]]
            IN  CaptureTable(p) /\ ~Conforms(t, catalog[t]) =>
                    p \in Reconciles \/ held[p][t] # {catalog[t]}
<1>1. IInv => Explained
    <2> SUFFICES ASSUME IInv, NEW p \in Passes, CaptureTable(p), p \notin Reconciles,
                        held[p][CaptureOrder[pos[p]]] = {catalog[CaptureOrder[pos[p]]]}
                 PROVE  Conforms(CaptureOrder[pos[p]], catalog[CaptureOrder[pos[p]]])
        OBVIOUS
    <2> DEFINE t == CaptureOrder[pos[p]]
    <2>1. phase[p] = "capture"
        BY DEF CaptureTable
    <2>2. t \in Tables
        BY <2>1, OrdersTyped DEF IInv, GateInv, GateTypeOK
    <2>3. catalog[t] \in Schema
        BY <2>2 DEF IInv, GateInv, GateTypeOK
    <2>4. Judged(p, t) /\ errors[p][t] = {}
        BY <2>1, <2>2 DEF IInv, GateInv, VerdictInv, PassedInv, Inspected
    <2> QED BY <2>3, <2>4 DEF Judged
<1>2. IInv => [Explained]_gateVars
    BY <1>1
<1> HIDE DEF Explained
<1>3. Spec => [][Explained]_gateVars
    BY Invariance, <1>2, PTL
<1> QED BY <1>3 DEF BreachesExplained, Explained

\* Whatever was cut off or ran beside it, a run that says so leaves the publication
\* complete, under logical replication.
THEOREM ReadyAlwaysPublished == Spec => []ReadyMeansPublished
<1>1. IInv => ReadyMeansPublished
    BY DEF IInv, SetupInv, ReadyMeansPublished, SeenInv, PlaceInv
<1> QED BY Invariance, <1>1, PTL

\* A run raises past the check of wal_level only because of a rival.
THEOREM RaisesAlwaysExplained == Spec => []RaisesExplained
<1>1. IInv => RaisesExplained
    BY DEF IInv, SetupInv, RaisesExplained, RivalInv
<1> QED BY Invariance, <1>1, PTL

\* Racing runs of any number do not leave the publication half filled.
THEOREM RacesAlwaysComplete == Spec => []RacesComplete
<1>1. IInv => RacesComplete
    <2> SUFFICES ASSUME IInv, \A e \in Setups : step[e] \notin Busy \cup {"cut"},
                        NEW e \in Setups, step[e] \in {"ready", "raised"}
                 PROVE  publication.tables = Published
        BY DEF RacesComplete
    <2>1. publication.exists
        BY DEF IInv, SetupInv, SeenInv
    <2>2. \A f \in Setups : step[f] # "cut" /\ ~Completes(f)
        BY DEF Busy, Completes
    <2> QED BY <2>1, <2>2 DEF IInv, SetupInv, ProgressInv
<1> QED BY Invariance, <1>1, PTL
=============================================================================
