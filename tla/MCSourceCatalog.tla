---------------------------- MODULE MCSourceCatalog ----------------------------
(***************************************************************************)
(* Two tables, of which one allows additive columns and the other leaves   *)
(* allow_additive_columns out; contracts are sorted by path and tables     *)
(* captured parents first.                                                 *)
(***************************************************************************)
EXTENDS SourceCatalog, TLC

Paths    == <<"claims", "customers">>
Captures == <<"customers", "claims">>

NotNull == [type |-> "text", nullable |-> FALSE]

Declared(additive) ==
    [columns |-> [id |-> NotNull, status |-> NotNull, channel |-> None],
     key |-> "id", additive |-> additive]

Contracts == [claims |-> Declared(TRUE), customers |-> Declared(FALSE)]
=============================================================================
