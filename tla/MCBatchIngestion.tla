---------------------------- MODULE MCBatchIngestion ----------------------------
(***************************************************************************)
(* Values for model checking BatchIngestion.                               *)
(***************************************************************************)
EXTENDS BatchIngestion, TLC

CONSTANTS k1, k2

\* PostgreSQL's collation and two collations of Python: the same, and the
\* opposite ('a' < 'B' in en_US.UTF-8, 'B' < 'a' by code point).
Ascending  == (k1 :> 1) @@ (k2 :> 2)
Descending == (k1 :> 2) @@ (k2 :> 1)
=============================================================================
