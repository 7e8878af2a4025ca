---------------------------- MODULE MCFileTransfers ----------------------------
(***************************************************************************)
(* Two customers: the first has two pets and one claim, which is not paid, *)
(* the second one pet and two claims, of which one is paid.  So one        *)
(* customer is too few for a payment file, and two are enough.             *)
(***************************************************************************)
EXTENDS FileTransfers, TLC

Owners     == <<1, 1, 2>>
PetsOf     == <<2, 3, 3>>
PaidClaims == {3}
DrawnSums  == <<1, 1, 2>>
=============================================================================
