------------------------------ MODULE VersionOrder ------------------------------
(***************************************************************************)
(* The pure part of the PostgreSQL -> Snowflake ingestion, as operators    *)
(* (src/insurance_platform/ingestion.py): what a row version is, in which  *)
(* order versions are read, which versions an incremental query returns,   *)
(* how the watermark is computed, and when a batch reconciles.             *)
(*                                                                         *)
(* One source table is modelled.  A row version is its primary key, its    *)
(* updated_at, and a body that stands for the rest of the payload: the     *)
(* SHA-256 of the canonical JSON is taken to be injective, so two versions *)
(* are the same ChangeRecord identity exactly when they are equal.         *)
(*                                                                         *)
(* Text keys are compared twice in this system, by PostgreSQL in the       *)
(* row-wise comparison of the query and in its ORDER BY, and by Python in  *)
(* max().  The two collations need not agree, so each has its own ranking. *)
(***************************************************************************)
EXTENDS Integers, FiniteSets

CONSTANTS
    Keys,       \* primary keys of the table
    Times,      \* values updated_at may take
    Bodies,     \* the rest of the row
    PgRank,     \* position of each key in PostgreSQL's collation
    PyRank,     \* position of each key in Python's string order
    None        \* SQL NULL / Python None

IsRanking(rank) ==
    /\ rank \in [Keys -> Nat]
    /\ \A j, k \in Keys : rank[j] = rank[k] => j = k

Version  == [pk : Keys, at : Times, body : Bodies]
Position == [pk : Keys, at : Times]

ASSUME KeysFinite == IsFiniteSet(Keys)
ASSUME TimesNat   == Times \subseteq Nat
ASSUME PgRanking  == IsRanking(PgRank)
ASSUME PyRanking  == IsRanking(PyRank)
ASSUME NoneFresh  == None \notin Version /\ None \notin Position /\ None \notin Nat

\* class Watermark: both fields NULL (no row yet), or both set.
Watermark == Position \cup {None}

PosOf(v) == [pk |-> v.pk, at |-> v.at]

\* (updated_at, pk) row comparison under a ranking of the keys.
After(rank, p, q) ==
    \/ p.at > q.at
    \/ p.at = q.at /\ rank[p.pk] > rank[q.pk]

\* The rows of the table: each key holds at most one current version.
Current(source) == {source[k] : k \in Keys} \ {None}

\* Mutant of Incremental: the tie-breaker on the primary key is forgotten.
IncrementalByTime(rows, wm) ==
    IF wm = None THEN rows ELSE {v \in rows : v.at > wm.at}

\* build_incremental_query: everything, or the rows past the watermark.
Incremental(rows, wm) ==
    IF wm = None THEN rows ELSE {v \in rows : After(PgRank, v, wm)}

\* max_watermark: NULL loses; the right one wins only when it is greater.
MaxWatermark(left, right) ==
    IF left = None THEN right
    ELSE IF right = None THEN left
    ELSE IF After(PyRank, right, left) THEN right ELSE left

\* max(records, key = (updated_at, pk)): the records nothing exceeds.  Current
\* rows have distinct keys, so there is exactly one when there is any record.
Latest(records) ==
    {v \in records : \A u \in records : ~After(PyRank, u, v)}

\* Mutant of NewestWatermark: the maxima of updated_at and of the key are taken
\* apart, which need not be a position of any record.
NewestFieldwise(records, fallback) ==
    IF records = {} THEN {fallback}
    ELSE {MaxWatermark(fallback, [pk |-> u.pk, at |-> v.at]) :
              v \in Latest(records),
              u \in {x \in records : \A y \in records : PyRank[y.pk] <= PyRank[x.pk]}}

\* Mutant of NewestWatermark: not compared with the watermark in place.
NewestOfBatch(records, fallback) ==
    IF records = {} THEN {fallback} ELSE {PosOf(v) : v \in Latest(records)}

\* newest_watermark, as the set of its possible results (one element).
NewestWatermark(records, fallback) ==
    IF records = {} THEN {fallback}
    ELSE {MaxWatermark(fallback, PosOf(v)) : v \in Latest(records)}

\* Reconciliation.is_consistent over the four counts of a batch.
IsConsistent(sourceRows, candidateRows, insertedRows, representedRows) ==
    /\ insertedRows >= 0
    /\ insertedRows <= candidateRows
    /\ candidateRows <= sourceRows
    /\ representedRows = candidateRows
=============================================================================
