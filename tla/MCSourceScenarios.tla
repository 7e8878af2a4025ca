--------------------------- MODULE MCSourceScenarios ---------------------------
(***************************************************************************)
(* Values for model checking SourceScenarios: customers, claims and        *)
(* payments, in the order in which a pass reads them.                      *)
(***************************************************************************)
EXTENDS SourceScenarios, TLC

CONSTANTS cus, t4c, t4p, dqc, dqp, ltc, lte, txn, cdc

KeyTable == [k \in Keys |-> CASE k = cus -> 1 [] k \in {t4p, dqp} -> 3 [] OTHER -> 2]

\* Collations agree here; BatchIngestion is checked with collations that do not.
KeyRank == (cdc :> 1) @@ (t4c :> 2) @@ (dqc :> 3) @@ (ltc :> 4) @@ (lte :> 5)
           @@ (txn :> 6) @@ (cus :> 7) @@ (t4p :> 8) @@ (dqp :> 9)

AllTimes == 0..MaxTime
=============================================================================
