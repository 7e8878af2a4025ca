------------------------------ MODULE ContractGate ------------------------------
(***************************************************************************)
(* The contract gate of the source (contracts.py): passes read the catalog *)
(* of PostgreSQL contract by contract, columns and primary key in separate *)
(* statements, while tables are altered, and an ingestion then captures    *)
(* the tables in another order.  A reconciliation captures without a gate. *)
(*                                                                         *)
(* A table has a few named columns, each with a type and a nullability.    *)
(* One of them, the contract's key, also stands for updated_at: a capture  *)
(* names both, so it raises when it is gone.  What is captured is left to  *)
(* BatchIngestion.                                                         *)
(***************************************************************************)
EXTENDS Naturals, Sequences, FiniteSets

CONSTANTS
    Tables,
    PathOrder,      \* tables of the contracts, sorted by their path
    CaptureOrder,   \* TABLES
    Names, Types,   \* of columns
    Contract,       \* contract of each table
    Validators,     \* executions of validate_contracts.run
    Ingests,        \* executions of run_ingestion.run
    Reconciles,     \* executions of reconcile_source_state.run
    None,
    MaxAlters       \* bound on schema changes

Passes == Validators \cup Ingests \cup Reconciles

ColumnType == [type : Types, nullable : BOOLEAN]

\* None for a column the table does not have.
Columns == [Names -> ColumnType \cup {None}]

Schema == [columns : Columns, key : SUBSET Names]

ASSUME OrdersTyped ==
    /\ PathOrder \in Seq(Tables) /\ CaptureOrder \in Seq(Tables)
    /\ PathOrder # <<>> /\ CaptureOrder # <<>>
ASSUME OneContractEach ==
    /\ \A t \in Tables : \E i \in 1..Len(PathOrder) : PathOrder[i] = t
    /\ \A i, j \in 1..Len(PathOrder) : PathOrder[i] = PathOrder[j] => i = j
ASSUME ContractTyped ==
    Contract \in [Tables -> [columns : Columns, key : Names, additive : BOOLEAN]]
ASSUME PassesApart == Validators \cap (Ingests \cup Reconciles) = {}
                      /\ Ingests \cap Reconciles = {}
ASSUME NoneIsNoType == None \notin ColumnType
ASSUME AltersNat == MaxAlters \in Nat

VARIABLES
    catalog,    \* schema of each table
    alters,     \* schema changes so far
    phase, pos, \* of each pass: what it does next, and with which table
    columns,    \* what its last columns query returned
    errors,     \* errors it found, by table
    held        \* ghost: schemas of each table since the pass read its columns

gateVars == <<catalog, alters, phase, pos, columns, errors, held>>

Running == {"columns", "keys", "capture"}
Phases  == {"idle", "passed", "rejected", "captured", "failed"} \cup Running

Error == [what : {"missing", "type", "nullability"}, column : Names]
            \cup [what : {"additive", "key"}]

GateTypeOK ==
    /\ catalog \in [Tables -> Schema]
    /\ alters \in 0..MaxAlters
    /\ phase \in [Passes -> Phases]
    /\ pos \in [Passes -> Nat]
    /\ \A p \in Passes :
         /\ phase[p] \in {"columns", "keys"} => pos[p] \in 1..Len(PathOrder)
         /\ phase[p] = "capture" => pos[p] \in 1..Len(CaptureOrder)
    /\ columns \in [Passes -> Columns]
    /\ errors \in [Passes -> [Tables -> SUBSET Error]]
    /\ held \in [Passes -> [Tables -> SUBSET Schema]]

\* 001_schema.sql: the source starts as the contracts have it.
GateInit ==
    /\ catalog = [t \in Tables |-> [columns |-> Contract[t].columns,
                                    key |-> {Contract[t].key}]]
    /\ alters = 0
    /\ phase = [p \in Passes |-> "idle"]
    /\ pos = [p \in Passes |-> 1]
    /\ columns = [p \in Passes |-> [c \in Names |-> None]]
    /\ errors = [p \in Passes |-> [t \in Tables |-> {}]]
    /\ held = [p \in Passes |-> [t \in Tables |-> {}]]

-----------------------------------------------------------------------------
(* Schema changes.                                                          *)

\* A pass keeps what it has captured locked against ALTER TABLE until it ends.
Locked(t) ==
    \E p \in Passes : phase[p] = "capture" /\ \E i \in 1..(pos[p] - 1) : CaptureOrder[i] = t

Alter(t, new) ==
    /\ alters < MaxAlters
    /\ new # catalog[t] /\ ~Locked(t)
    /\ catalog' = [catalog EXCEPT ![t] = new]
    /\ alters' = alters + 1
    /\ held' = [p \in Passes |->
                   IF phase[p] \in Running /\ held[p][t] # {}
                   THEN [held[p] EXCEPT ![t] = @ \cup {new}] ELSE held[p]]
    /\ UNCHANGED <<phase, pos, columns, errors>>

WithColumn(t, c, spec) ==
    [columns |-> [catalog[t].columns EXCEPT ![c] = spec], key |-> catalog[t].key]

\* ADD COLUMN.
AddColumn(t, c) ==
    /\ catalog[t].columns[c] = None
    /\ \E y \in Types : Alter(t, WithColumn(t, c, [type |-> y, nullable |-> TRUE]))

\* DROP NOT NULL and SET NOT NULL; a key has no nulls.
ChangeNullability(t, c) ==
    /\ catalog[t].columns[c] # None /\ c \notin catalog[t].key
    /\ LET old == catalog[t].columns[c]
       IN  Alter(t, WithColumn(t, c, [type |-> old.type, nullable |-> ~old.nullable]))

ChangeType(t, c) ==
    /\ catalog[t].columns[c] # None
    /\ LET old == catalog[t].columns[c]
       IN  \E y \in Types :
               Alter(t, WithColumn(t, c, [type |-> y, nullable |-> old.nullable]))

\* DROP COLUMN; a key loses its constraint with a column.
DropColumn(t, c) ==
    /\ catalog[t].columns[c] # None
    /\ Alter(t, [columns |-> [catalog[t].columns EXCEPT ![c] = None],
                 key |-> IF c \in catalog[t].key THEN {} ELSE catalog[t].key])

\* The key is dropped, or put on a column that is then NOT NULL.
ChangeKey(t, c) ==
    \/ Alter(t, [columns |-> catalog[t].columns, key |-> {}])
    \/ /\ catalog[t].columns[c] # None
       /\ LET strict == [type |-> catalog[t].columns[c].type, nullable |-> FALSE]
          IN  Alter(t, [columns |-> WithColumn(t, c, strict).columns, key |-> {c}])

AlterTable ==
    \E t \in Tables, c \in Names :
        \/ AddColumn(t, c) \/ ChangeNullability(t, c) \/ ChangeType(t, c)
        \/ DropColumn(t, c) \/ ChangeKey(t, c)

-----------------------------------------------------------------------------
(* The gate.                                                                *)

\* Mutant of ColumnErrors: a column that differs twice is reported for its type,
\* one that differs in nullability alone is not.
ColumnErrorsByType(t, seen) ==
    {[what |-> IF seen[c] = None THEN "missing" ELSE "type", column |-> c] :
        c \in {d \in Names : /\ Contract[t].columns[d] # None
                             /\ \/ seen[d] = None
                                \/ seen[d].type # Contract[t].columns[d].type}}

\* The loop over the contract's columns.
ColumnErrors(t, seen) ==
    LET required == {c \in Names : Contract[t].columns[c] # None}
        present  == {c \in required : seen[c] # None}
    IN  {[what |-> "missing", column |-> c] : c \in required \ present}
        \cup {[what |-> "type", column |-> c] :
                c \in {d \in present : seen[d].type # Contract[t].columns[d].type}}
        \cup {[what |-> "nullability", column |-> c] :
                c \in {d \in present : seen[d].nullable # Contract[t].columns[d].nullable}}

\* Mutant of Additive: additive columns are never allowed.
AdditiveAlways(t, seen) ==
    \E c \in Names : seen[c] # None /\ Contract[t].columns[c] = None

Additive(t, seen) ==
    /\ ~Contract[t].additive
    /\ \E c \in Names : seen[c] # None /\ Contract[t].columns[c] = None

\* compare_contract_metadata.
Compare(t, seen, key) ==
    ColumnErrors(t, seen)
        \cup (IF Additive(t, seen) THEN {[what |-> "additive"]} ELSE {})
        \cup (IF key = {Contract[t].key} THEN {} ELSE {[what |-> "key"]})

BeginPass(p) ==
    /\ phase[p] = "idle"
    /\ phase' = [phase EXCEPT ![p] = IF p \in Reconciles THEN "capture" ELSE "columns"]
    /\ UNCHANGED <<catalog, alters, pos, columns, errors, held>>

\* inspect_table_contract, its first query.
ReadColumns(p) ==
    /\ phase[p] = "columns"
    /\ LET t == PathOrder[pos[p]]
       IN  /\ columns' = [columns EXCEPT ![p] = catalog[t].columns]
           /\ held' = [held EXCEPT ![p][t] = {catalog[t]}]
    /\ phase' = [phase EXCEPT ![p] = "keys"]
    /\ UNCHANGED <<catalog, alters, pos, errors>>

\* Mutant of Verdict: the first invalid contract raises.
VerdictAtOnce(p, found, last) ==
    IF found[PathOrder[pos[p]]] # {} THEN "rejected"
    ELSE IF ~last THEN "columns"
    ELSE IF p \in Validators THEN "passed" ELSE "capture"

\* All contracts are inspected before validate_source_contracts raises.
Verdict(p, found, last) ==
    IF ~last THEN "columns"
    ELSE IF \E t \in Tables : found[t] # {} THEN "rejected"
    ELSE IF p \in Validators THEN "passed" ELSE "capture"

\* Its second query, and the comparison.
ReadKey(p) ==
    /\ phase[p] = "keys"
    /\ LET t     == PathOrder[pos[p]]
           last  == pos[p] = Len(PathOrder)
           found == [errors[p] EXCEPT ![t] = Compare(t, columns[p], catalog[t].key)]
       IN  /\ errors' = [errors EXCEPT ![p] = found]
           /\ phase' = [phase EXCEPT ![p] = Verdict(p, found, last)]
           /\ pos' = [pos EXCEPT ![p] = IF last THEN 1 ELSE @ + 1]
    /\ columns' = [columns EXCEPT ![p] = [c \in Names |-> None]]
    /\ UNCHANGED <<catalog, alters, held>>

\* SELECT * with the key in ORDER BY.
CaptureTable(p) ==
    /\ phase[p] = "capture"
    /\ LET t == CaptureOrder[pos[p]]
       IN  catalog[t].columns[Contract[t].key] # None
    /\ IF pos[p] = Len(CaptureOrder)
       THEN phase' = [phase EXCEPT ![p] = "captured"] /\ UNCHANGED pos
       ELSE pos' = [pos EXCEPT ![p] = @ + 1] /\ UNCHANGED phase
    /\ UNCHANGED <<catalog, alters, columns, errors, held>>

\* Any statement raises, the query of a column that is gone for one.
PassFails(p) ==
    /\ phase[p] \in Running
    /\ phase' = [phase EXCEPT ![p] = "failed"]
    /\ UNCHANGED <<catalog, alters, pos, columns, errors, held>>

PassStep(p) ==
    ReadColumns(p) \/ ReadKey(p) \/ CaptureTable(p) \/ PassFails(p)

-----------------------------------------------------------------------------
(* Properties.                                                              *)

\* What a contract asks of a table, said of the schema as a whole.
Conforms(t, s) ==
    /\ \A c \in Names :
         IF Contract[t].columns[c] # None
         THEN s.columns[c] = Contract[t].columns[c]
         ELSE Contract[t].additive \/ s.columns[c] = None
    /\ s.key = {Contract[t].key}

\* A verdict is exact on every table left alone since its columns were read: the
\* table is reported if and only if it breaks its contract, however many others
\* do.
VerdictsExact ==
    \A p \in Passes : phase[p] \in {"passed", "rejected"} =>
        \A t \in Tables : held[p][t] \subseteq {catalog[t]} =>
            (errors[p][t] = {} <=> Conforms(t, catalog[t]))

\* A rejection is never made up from two sound schemas, although columns and key
\* are read by different statements: some table broke its contract at some moment
\* after the pass had read its columns.
RejectionsReal ==
    \A p \in Passes : phase[p] = "rejected" =>
        \E t \in Tables, s \in Schema : s \in held[p][t] /\ ~Conforms(t, s)

\* A table that breaks its contract is captured by a reconciliation, which has no
\* gate, or by an ingestion whose gate read the table before it was altered.
BreachesExplained ==
    [][\A p \in Passes :
         LET t == CaptureOrder[pos[p]]
         IN  CaptureTable(p) /\ ~Conforms(t, catalog[t]) =>
                 p \in Reconciles \/ held[p][t] # {catalog[t]}]_gateVars
=============================================================================
