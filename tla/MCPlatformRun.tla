----------------------------- MODULE MCPlatformRun -----------------------------
(***************************************************************************)
(* Values for model checking PlatformRun: the foreign keys of the five     *)
(* tables, and those of their first two.                                   *)
(***************************************************************************)
EXTENDS PlatformRun

CONSTANTS f1, f2

\* 1 customers, 2 pets, 3 policies, 4 claims, 5 claim_payments
FiveTables  == <<{}, {1}, {1, 2}, {2, 3}, {4}>>
TwoTables   == <<{}, {1}>>

\* A family of every table, and a customer without a pet whose place is past it:
\* whichever is inserted second, it is inserted in order or behind the watermark.
CustomerPast == [row \in Row |-> IF row.fam = f1 THEN {1}
                                 ELSE IF row.table = 1 THEN {2} ELSE {}]
OnePlace     == [row \in Row |-> {1}]
=============================================================================
