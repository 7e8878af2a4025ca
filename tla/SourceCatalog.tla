----------------------------- MODULE SourceCatalog -----------------------------
(***************************************************************************)
(* What runs against the catalog of one PostgreSQL: the passes of          *)
(* ContractGate and the set-up runs of EstuarySetup, interleaved by their  *)
(* statements.  Enabling logical replication restarts the computes, which  *)
(* ends every pass and every run that is under way.                        *)
(***************************************************************************)
EXTENDS ContractGate, EstuarySetup

CONSTANTS MaxEvents     \* bound on starts and schema changes together

ASSUME EventsNat == MaxEvents \in Nat

VARIABLES starts    \* passes and runs started

vars == <<gateVars, setupVars, starts>>

TypeOK == GateTypeOK /\ SetupTypeOK /\ starts \in 0..MaxEvents

Init == GateInit /\ SetupInit /\ starts = 0

Start ==
    /\ starts + alters < MaxEvents /\ starts' = starts + 1
    /\ \/ \E p \in Passes : BeginPass(p) /\ UNCHANGED setupVars
       \/ \E e \in Setups : BeginSetup(e) /\ UNCHANGED gateVars

RestartComputes ==
    /\ EnableLogical
    /\ phase' = [p \in Passes |-> IF phase[p] \in Running THEN "failed" ELSE phase[p]]
    /\ UNCHANGED <<catalog, alters, pos, columns, errors, held, starts>>

Next ==
    \/ Start
    \/ starts + alters < MaxEvents /\ AlterTable /\ UNCHANGED <<setupVars, starts>>
    \/ (\E p \in Passes : PassStep(p)) /\ UNCHANGED <<setupVars, starts>>
    \/ (\E e \in Setups : SetupStep(e)) /\ UNCHANGED <<gateVars, starts>>
    \/ RestartComputes

Spec == Init /\ [][Next]_vars
=============================================================================
