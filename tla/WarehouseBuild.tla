----------------------------- MODULE WarehouseBuild -----------------------------
(***************************************************************************)
(* dbt build over the append-only RAW table (dbt/): staging and            *)
(* intermediate models are views, evaluated when a table reads them; marts *)
(* and int_claim_events are tables, each built by one statement that reads *)
(* at one moment and writes at a later one.  Ingestion appends to RAW all  *)
(* the while, and builds may overlap: the Dagster job and the workflows    *)
(* each start their own.                                                   *)
(*                                                                         *)
(* Customers, pets, policies and claims are modelled.  Payments are summed *)
(* per claim before a left join, so they add nothing to what is said of    *)
(* rows here.  A version is its key, its updated_at, is_deleted and a body *)
(* that stands for its other columns; what a row refers to does not change *)
(* between its versions; the grouping of the portfolio by province,        *)
(* species and plan is left out.                                           *)
(***************************************************************************)
EXTENDS Naturals, FiniteSets

CONSTANTS
    Customers, Pets, Policies, Claims,  \* primary keys of the four tables
    CustomerOf,     \* customer_id of a pet or a policy
    PetOf,          \* pet_id of a policy or a claim
    PolicyOf,       \* policy_id of a claim
    Bodies,         \* the other columns
    Versions,       \* versions ingestion may bring
    Builds,         \* dbt invocations
    None,           \* SQL NULL, no statement
    MaxRecords,     \* bound on RAW
    IdsOf,          \* bound on the record ids each version may be given
    MaxActive,      \* how many builds may be under way at once
    MaxFaults       \* bound on the number of failures

Keys    == Customers \cup Pets \cup Policies \cup Claims
Rids    == 1..MaxRecords

ASSUME TablesApart  == /\ Customers \cap Pets = {}
                       /\ (Customers \cup Pets) \cap Policies = {}
                       /\ (Customers \cup Pets \cup Policies) \cap Claims = {}
ASSUME OwnersTyped  == /\ CustomerOf \in [Pets \cup Policies -> Customers]
                       /\ PetOf \in [Policies \cup Claims -> Pets]
                       /\ PolicyOf \in [Claims -> Policies]
ASSUME VersionsSound == Versions \subseteq [pk : Keys, at : Nat, deleted : BOOLEAN, body : Bodies]
ASSUME IdsTyped     == IdsOf \in [Versions -> SUBSET Rids]
ASSUME NoneApart    == None \notin Nat
ASSUME BoundsNat    == MaxRecords \in Nat /\ MaxActive \in Nat /\ MaxFaults \in Nat

VARIABLES
    raw,        \* RAW.SOURCE_RECORDS
    created,    \* does the table int_claim_events exist?
    events,     \* rows of int_claim_events with each RAW_RECORD_ID
    dim,        \* dim_policy
    fct,        \* fct_claims
    portfolio,  \* mart_portfolio_performance, before its GROUP BY
    scd2,       \* dim_customer_scd2
    pc,         \* state of each build
    first,      \* did it find no int_claim_events when it started?
    done,       \* models it has built
    read,       \* what its statements have read and not yet written
    began,      \* ghost: RAW when it started
    faults      \* number of failures so far

tables == <<created, events, dim, fct, portfolio, scd2>>
build  == <<pc, first, done, read, began>>
vars   == <<raw, created, events, dim, fct, portfolio, scd2,
            pc, first, done, read, began, faults>>

RecordOf(i, v) ==
    [rid |-> i, pk |-> v.pk, at |-> v.at, deleted |-> v.deleted, body |-> v.body]

Record == {RecordOf(i, v) : i \in Rids, v \in Versions}

-----------------------------------------------------------------------------
(* The models, as functions of the records they select from.                *)

\* ORDER BY source_updated_at, raw_record_id.
Newer(r, s) == r.at > s.at \/ (r.at = s.at /\ r.rid > s.rid)

\* Mutant of Current: rank() over updated_at alone, which ties.
CurrentByTime(pks, rows) ==
    {r \in rows : r.pk \in pks /\ \A s \in rows : s.pk = r.pk => s.at <= r.at}

\* current_raw_records: the newest record of each key (the stg_ views).
Current(pks, rows) ==
    {r \in rows : r.pk \in pks /\ \A s \in rows : s.pk = r.pk => ~Newer(s, r)}

Live(pks, rows) == {r \in Current(pks, rows) : ~r.deleted}

LiveKeys(pks, rows) == {r.pk : r \in Live(pks, rows)}

\* Mutant of DimPolicy: pets are joined whether or not they are deleted.
DimPolicyOfAnyPet(rows) ==
    {p \in Live(Policies, rows) :
        /\ CustomerOf[p.pk] \in LiveKeys(Customers, rows)
        /\ \E pet \in rows : pet.pk = PetOf[p.pk]}

\* Both joins are inner joins with rows that are not deleted.
DimPolicy(rows) ==
    {p \in Live(Policies, rows) :
        /\ CustomerOf[p.pk] \in LiveKeys(Customers, rows)
        /\ PetOf[p.pk] \in LiveKeys(Pets, rows)}

\* stg_claims joined with dim_policy, which is a table.
FctClaims(rows, policies) ==
    {j \in [claim : Live(Claims, rows), policy : policies] :
        PolicyOf[j.claim.pk] = j.policy.pk}

\* int_policy_claims joined with live customers and pets (CTE policy_metrics).
PolicyMetrics(rows) ==
    {[policy |-> p, claimCount |->
        Cardinality({c \in Live(Claims, rows) : PolicyOf[c.pk] = p.pk})] :
      p \in {q \in Live(Policies, rows) :
                /\ CustomerOf[q.pk] \in LiveKeys(Customers, rows)
                /\ PetOf[q.pk] \in LiveKeys(Pets, rows)}}

\* Mutant of Following: lead() ordered by raw_record_id.
FollowingById(r, rows) == {s \in rows : s.pk = r.pk /\ s.rid > r.rid}

Following(r, rows) == {s \in rows : s.pk = r.pk /\ Newer(s, r)}

\* The record lead() looks at, if there is one.
Lead(r, rows) ==
    {s \in Following(r, rows) : \A t \in Following(r, rows) : s \notin Following(t, rows)}

\* effective_to is lead(source_updated_at), and NULL when there is none.
CustomerVersions(rows) ==
    LET versions == {c \in rows : c.pk \in Customers}
    IN  {[record |-> r, to |-> None] : r \in {v \in versions : Lead(v, versions) = {}}}
        \cup UNION {{[record |-> r, to |-> s.at] : s \in Lead(r, versions)} : r \in versions}

ClaimIds(rows) == {r.rid : r \in {c \in rows : c.pk \in Claims}}

\* Mutant of NewEvents: only ids beyond the largest one already there.
EventsPastMax(whole, rows) ==
    {i \in ClaimIds(rows) : whole \/ \A e \in Rids : events[e] > 0 => i > e}

\* NOT EXISTS (... existing.raw_record_id = raw.raw_record_id), unless the
\* model is built as a whole.
NewEvents(whole, rows) == {i \in ClaimIds(rows) : whole \/ events[i] = 0}

\* relationships tests of the staging models.
Related(rows) ==
    LET keys == {r.pk : r \in rows}
    IN  \A refs \in {CustomerOf, PetOf, PolicyOf} :
            \A k \in keys \cap DOMAIN refs : refs[k] \in keys

-----------------------------------------------------------------------------
(* What a build is made of.                                                 *)

\* Tables it builds; "tests" stands for the tests of the staging models, which
\* the models downstream of them wait for.
Models == {"tests", "events", "dim", "fct", "portfolio", "scd2"}

\* Mutant of Upstream: fct_claims names dim_policy without ref().
UpstreamUnreferenced(m) == IF m \in {"dim", "fct", "portfolio"} THEN {"tests"} ELSE {}

\* ref() edges: what must be built before a model starts.
Upstream(m) ==
    CASE m = "fct" -> {"tests", "dim"}
      [] m \in {"dim", "portfolio"} -> {"tests"}
      [] OTHER -> {}

\* Rows a statement of a model selects now.
Select(b, m) ==
    CASE m = "events"    -> NewEvents(first[b], raw)
      [] m = "dim"       -> DimPolicy(raw)
      [] m = "fct"       -> FctClaims(raw, dim)
      [] m = "portfolio" -> PolicyMetrics(raw)
      [] m = "scd2"      -> CustomerVersions(raw)

Statements == Models \ {"tests"}

\* A statement in flight; one of a failed build may still be running.
InFlight(b, m) == read[b][m] # None

Active(b) == pc[b] = "running" \/ \E m \in Statements : InFlight(b, m)

Phases == {"idle", "running", "succeeded", "failed"}

\* What the statement of a model may select.
Selectable(m) ==
    CASE m = "events"    -> SUBSET Rids
      [] m = "dim"       -> SUBSET Record
      [] m = "fct"       -> SUBSET [claim : Record, policy : Record]
      [] m = "portfolio" -> SUBSET [policy : Record, claimCount : Nat]
      [] m = "scd2"      -> SUBSET [record : Record, to : Nat \cup {None}]

TypeOK ==
    /\ raw \subseteq Record
    /\ \A r, s \in raw : r.rid = s.rid => r = s
    /\ created \in BOOLEAN
    /\ events \in [Rids -> Nat]
    /\ dim \in Selectable("dim")
    /\ fct \in Selectable("fct")
    /\ portfolio \in Selectable("portfolio")
    /\ scd2 \in Selectable("scd2")
    /\ pc \in [Builds -> Phases]
    /\ first \in [Builds -> BOOLEAN]
    /\ done \in [Builds -> SUBSET Models]
    /\ \A b \in Builds : \A m \in done[b] : Upstream(m) \subseteq done[b]
    /\ DOMAIN read = Builds
    /\ \A b \in Builds : /\ DOMAIN read[b] = Statements
                          /\ \A m \in Statements : read[b][m] \in Selectable(m) \cup {None}
    /\ began \in [Builds -> SUBSET Record]
    /\ faults \in 0..MaxFaults

\* Nothing ingested; nothing built, or built once when RAW was empty.
Init ==
    /\ raw = {}
    /\ created \in BOOLEAN
    /\ events = [i \in Rids |-> 0]
    /\ dim = {} /\ fct = {} /\ portfolio = {} /\ scd2 = {}
    /\ pc = [b \in Builds |-> "idle"]
    /\ first = [b \in Builds |-> FALSE]
    /\ done = [b \in Builds |-> {}]
    /\ read = [b \in Builds |-> [m \in Statements |-> None]]
    /\ began = [b \in Builds |-> {}]
    /\ faults = 0

-----------------------------------------------------------------------------
\* Ingestion commits a version.  Ids are handed out before the commit, and a
\* late version may come at any time: records appear in no order.
Append ==
    /\ \E v \in Versions : \E i \in IdsOf[v] :
        /\ \A r \in raw : r.rid # i /\ r # RecordOf(r.rid, v)
        /\ raw' = raw \cup {RecordOf(i, v)}
    /\ UNCHANGED <<tables, build, faults>>

\* dbt looks up which relations exist before it runs anything.
Begin(b) ==
    /\ pc[b] = "idle"
    /\ Cardinality({c \in Builds : Active(c)}) < MaxActive
    /\ pc' = [pc EXCEPT ![b] = "running"]
    /\ first' = [first EXCEPT ![b] = ~created]
    /\ began' = [began EXCEPT ![b] = raw]
    /\ UNCHANGED <<raw, tables, done, read, faults>>

\* --fail-fast: one failing test ends the build.
TestStaging(b) ==
    /\ pc[b] = "running"
    /\ "tests" \notin done[b]
    /\ IF Related(raw)
       THEN /\ done' = [done EXCEPT ![b] = @ \cup {"tests"}]
            /\ pc' = IF done'[b] = Models THEN [pc EXCEPT ![b] = "succeeded"] ELSE pc
       ELSE pc' = [pc EXCEPT ![b] = "failed"] /\ UNCHANGED done
    /\ UNCHANGED <<raw, tables, first, read, began, faults>>

\* Mutant of StartModel: threads do not wait for the models upstream.
StartAtOnce(b, m) ==
    /\ pc[b] = "running"
    /\ m \notin done[b] /\ ~InFlight(b, m)
    /\ read' = [read EXCEPT ![b][m] = Select(b, m)]
    /\ UNCHANGED <<raw, tables, pc, first, done, began, faults>>

\* A thread starts the statement of a model whose upstream models are built.
StartModel(b, m) ==
    /\ pc[b] = "running"
    /\ m \notin done[b] /\ ~InFlight(b, m)
    /\ Upstream(m) \subseteq done[b]
    /\ read' = [read EXCEPT ![b][m] = Select(b, m)]
    /\ UNCHANGED <<raw, tables, pc, first, done, began, faults>>

\* Mutant of WriteEvents: insert without a unique_key.
AppendEvents(whole, ids) ==
    [i \in Rids |-> IF i \in ids THEN (IF whole THEN 1 ELSE events[i] + 1)
                    ELSE IF whole THEN 0 ELSE events[i]]

\* CREATE OR REPLACE the first time, then MERGE on raw_record_id.
WriteEvents(whole, ids) ==
    [i \in Rids |-> IF i \in ids THEN (IF whole \/ events[i] = 0 THEN 1 ELSE events[i])
                    ELSE IF whole THEN 0 ELSE events[i]]

\* The statement takes effect: CREATE OR REPLACE TABLE, or the MERGE.
FinishModel(b, m) ==
    /\ InFlight(b, m)
    /\ read' = [read EXCEPT ![b][m] = None]
    /\ events'    = IF m = "events" THEN WriteEvents(first[b], read[b][m]) ELSE events
    /\ created'   = (created \/ m = "events")
    /\ dim'       = IF m = "dim" THEN read[b][m] ELSE dim
    /\ fct'       = IF m = "fct" THEN read[b][m] ELSE fct
    /\ portfolio' = IF m = "portfolio" THEN read[b][m] ELSE portfolio
    /\ scd2'      = IF m = "scd2" THEN read[b][m] ELSE scd2
    /\ done' = [done EXCEPT ![b] = @ \cup {m}]
    /\ pc' = IF pc[b] = "running" /\ done'[b] = Models
             THEN [pc EXCEPT ![b] = "succeeded"] ELSE pc
    /\ UNCHANGED <<raw, first, began, faults>>

\* A statement is cancelled with its build, or fails and ends it.
Cancel(b, m) ==
    /\ pc[b] = "failed"
    /\ InFlight(b, m)
    /\ read' = [read EXCEPT ![b][m] = None]
    /\ UNCHANGED <<raw, tables, pc, first, done, began, faults>>

\* A statement or a test raises, or dbt is killed.
Fail(b) ==
    /\ pc[b] = "running"
    /\ faults < MaxFaults
    /\ faults' = faults + 1
    /\ pc' = [pc EXCEPT ![b] = "failed"]
    /\ UNCHANGED <<raw, tables, first, done, read, began>>

Next ==
    \/ Append
    \/ \E b \in Builds :
        \/ Begin(b) \/ TestStaging(b) \/ Fail(b)
        \/ \E m \in Statements : StartModel(b, m) \/ FinishModel(b, m) \/ Cancel(b, m)

Spec == Init /\ [][Next]_vars

-----------------------------------------------------------------------------
(* Properties.                                                              *)

\* int_claim_events holds each RAW record once (its unique test), although two
\* overlapping builds may select the same new records and merge them both.
EventsUnique == \A i \in Rids : events[i] <= 1

\* Once a build has built int_claim_events, it holds every claim record that RAW
\* held when the build began, whatever ids they were given, in whatever order
\* they became visible and whatever other builds do, unless another build is one
\* that replaces the table as a whole.
EventsComplete ==
    \A b \in Builds :
        "events" \in done[b] /\ (\A c \in Builds \ {b} : ~first[c]) =>
        \A i \in ClaimIds(began[b]) : events[i] > 0

\* At every instant since a customer's first version, exactly one row of
\* dim_customer_scd2 is in force, and the one without an end is the last one
\* written, late and equal timestamps included.
Scd2Timeline ==
    \A k \in {p.record.pk : p \in scd2} :
        LET periods == {p \in scd2 : p.record.pk = k}
            InForce(t) == {p \in periods : p.record.at <= t /\ (p.to = None \/ t < p.to)}
        IN  /\ Cardinality({p \in periods : p.to = None}) = 1
            /\ \A p, q \in periods : q.to = None => p.record.at <= q.record.at
            /\ \A p \in periods : Cardinality(InForce(p.record.at)) = 1

\* A claim is at most one row of fct_claims, and a policy at most one of the
\* portfolio: no join multiplies rows, although fct_claims joins a view with a
\* table that was built from an older RAW.
OneRowEach ==
    /\ \A i, j \in fct : i.claim.pk = j.claim.pk => i = j
    /\ \A i, j \in portfolio : i.policy.pk = j.policy.pk => i = j

\* When nothing was appended during a build, the two ways of counting claims
\* agree: a policy has as many claims in fct_claims as in the portfolio.
MartsAgree ==
    \A b \in Builds : pc[b] = "succeeded" /\ raw = began[b] =>
        \A p \in Policies :
            LET claims == Cardinality({j \in fct : j.policy.pk = p})
            IN  \/ \E m \in portfolio : m.policy.pk = p /\ m.claimCount = claims
                \/ claims = 0 /\ \A m \in portfolio : m.policy.pk # p

\* When nothing was appended during a build, fct_claims misses a claim that is not
\* deleted exactly when its policy, or the customer or the pet of that policy, is
\* deleted or has not arrived: soft deletes do not cascade, and nothing else drops
\* a claim.
DropsExplained ==
    \A b \in Builds : pc[b] = "succeeded" /\ raw = began[b] =>
        \A c \in LiveKeys(Claims, raw) :
            (\A j \in fct : j.claim.pk # c) <=>
                \/ PolicyOf[c] \notin LiveKeys(Policies, raw)
                \/ CustomerOf[PolicyOf[c]] \notin LiveKeys(Customers, raw)
                \/ PetOf[PolicyOf[c]] \notin LiveKeys(Pets, raw)
=============================================================================
