------------------------------ MODULE EstuarySetup ------------------------------
(***************************************************************************)
(* estuary_source_readiness.py: the publication the CDC service reads from *)
(* is looked up, created and filled by statements that commit one by one,  *)
(* in any number of runs that may overlap and may be cut off anywhere.     *)
(***************************************************************************)
EXTENDS Naturals, Sequences, FiniteSets

CONSTANT Setups     \* executions of estuary_source_readiness.run

Published == {"flow_watermarks", "claims"}

\* The tables in the order in which they are added.
Wanted == <<"flow_watermarks", "claims">>

VARIABLES
    wal,            \* is wal_level logical?
    flowTable,      \* does public.flow_watermarks exist?
    publication,    \* does it exist, and its tables
    step, place,    \* of each run: its next statement, and the table it is at
    listed,         \* tables it saw published
    rivalled        \* ghost: has another run changed the publication since it looked?

setupVars == <<wal, flowTable, publication, step, place, listed, rivalled>>

Busy  == {"wal", "table", "lookup", "create", "list", "add"}
Steps == {"idle", "ready", "refused", "raised", "cut"} \cup Busy

SetupTypeOK ==
    /\ wal \in BOOLEAN /\ flowTable \in BOOLEAN
    /\ publication \in [exists : BOOLEAN, tables : SUBSET Published]
    /\ step \in [Setups -> Steps]
    /\ place \in [Setups -> 1..Len(Wanted)]
    /\ listed \in [Setups -> SUBSET Published]
    /\ rivalled \in [Setups -> BOOLEAN]

SetupInit ==
    /\ wal = FALSE /\ flowTable = FALSE
    /\ publication = [exists |-> FALSE, tables |-> {}]
    /\ step = [e \in Setups |-> "idle"]
    /\ place = [e \in Setups |-> 1]
    /\ listed = [e \in Setups |-> {}]
    /\ rivalled = [e \in Setups |-> FALSE]

-----------------------------------------------------------------------------
GoTo(e, s) == step' = [step EXCEPT ![e] = s]

BeginSetup(e) ==
    /\ step[e] = "idle"
    /\ GoTo(e, "wal")
    /\ UNCHANGED <<wal, flowTable, publication, place, listed, rivalled>>

\* SHOW wal_level.
ShowWal(e) ==
    /\ step[e] = "wal"
    /\ GoTo(e, IF wal THEN "table" ELSE "refused")
    /\ UNCHANGED <<wal, flowTable, publication, place, listed, rivalled>>

\* CREATE TABLE IF NOT EXISTS.
CreateFlowTable(e) ==
    /\ step[e] = "table"
    /\ flowTable' = TRUE
    /\ GoTo(e, "lookup")
    /\ UNCHANGED <<wal, publication, place, listed, rivalled>>

\* Mutant of LookupPublication: no lookup, always create.
CreateAnyway(e) ==
    /\ step[e] = "lookup"
    /\ GoTo(e, "create")
    /\ rivalled' = [rivalled EXCEPT ![e] = FALSE]
    /\ UNCHANGED <<wal, flowTable, publication, place, listed>>

LookupPublication(e) ==
    /\ step[e] = "lookup"
    /\ GoTo(e, IF publication.exists THEN "list" ELSE "create")
    /\ rivalled' = [rivalled EXCEPT ![e] = FALSE]
    /\ UNCHANGED <<wal, flowTable, publication, place, listed>>

Publish(e, tables) ==
    /\ publication' = [exists |-> TRUE, tables |-> tables]
    /\ rivalled' = [f \in Setups |-> rivalled[f] \/ f # e]

\* A publication of that name already exists: the statement raises.
CreatePublication(e) ==
    /\ step[e] = "create"
    /\ IF publication.exists
       THEN GoTo(e, "raised") /\ UNCHANGED <<publication, rivalled>>
       ELSE Publish(e, {}) /\ GoTo(e, "list")
    /\ UNCHANGED <<wal, flowTable, place, listed>>

ListTables(e) ==
    /\ step[e] = "list"
    /\ listed' = [listed EXCEPT ![e] = publication.tables]
    /\ rivalled' = [rivalled EXCEPT ![e] = FALSE]
    /\ GoTo(e, "add")
    /\ UNCHANGED <<wal, flowTable, publication, place>>

\* Mutant of Missing: a publication with any table is taken to be complete.
MissingAll(e) == listed[e] = {}

\* qualified not in published.
Missing(e) == Wanted[place[e]] \notin listed[e]

\* Mutant of NextPlace: the run ends with the first table.
ReadyAtOnce(e) == GoTo(e, "ready") /\ UNCHANGED place

NextPlace(e) ==
    IF place[e] = Len(Wanted)
    THEN GoTo(e, "ready") /\ UNCHANGED place
    ELSE place' = [place EXCEPT ![e] = @ + 1] /\ UNCHANGED step

\* ALTER PUBLICATION ... ADD TABLE raises when the table is already a member.
AddTable(e) ==
    /\ step[e] = "add"
    /\ LET t == Wanted[place[e]]
       IN  IF ~Missing(e)
           THEN NextPlace(e) /\ UNCHANGED <<publication, rivalled>>
           ELSE IF t \in publication.tables
           THEN GoTo(e, "raised") /\ UNCHANGED <<publication, place, rivalled>>
           ELSE Publish(e, publication.tables \cup {t}) /\ NextPlace(e)
    /\ UNCHANGED <<wal, flowTable, listed>>

\* Killed, or the connection is lost.
SetupCut(e) ==
    /\ step[e] \in Busy
    /\ GoTo(e, "cut")
    /\ UNCHANGED <<wal, flowTable, publication, place, listed, rivalled>>

SetupStep(e) ==
    \/ ShowWal(e) \/ CreateFlowTable(e) \/ LookupPublication(e) \/ CreatePublication(e)
    \/ ListTables(e) \/ AddTable(e) \/ SetupCut(e)

\* Logical replication is enabled, which restarts the computes.
EnableLogical ==
    /\ ~wal /\ wal' = TRUE
    /\ step' = [e \in Setups |-> IF step[e] \in Busy THEN "cut" ELSE step[e]]
    /\ UNCHANGED <<flowTable, publication, place, listed, rivalled>>

-----------------------------------------------------------------------------
(* Properties.                                                              *)

\* A run that ends well leaves a publication the capture can start from, whatever
\* earlier runs were cut off at and whatever runs beside it did.
ReadyMeansPublished ==
    \A e \in Setups : step[e] = "ready" =>
        wal /\ flowTable /\ publication.tables = Published

\* A run raises after the check of wal_level only because another run published
\* something it was about to publish: it can simply be started again, and never
\* stumbles over what an earlier run left half done.
RaisesExplained ==
    \A e \in Setups : step[e] = "raised" => rivalled[e]

\* Runs that get in each other's way do not all give up on the publication: once
\* none is busy, none was cut off and one found logical replication, it is complete.
RacesComplete ==
    /\ \A e \in Setups : step[e] \notin Busy \cup {"cut"}
    /\ \E e \in Setups : step[e] \in {"ready", "raised"}
    => publication.tables = Published
=============================================================================
