-------------------------- MODULE WarehouseBuild_proofs --------------------------
(***************************************************************************)
(* Theorems about WarehouseBuild, for any keys, versions and builds, and   *)
(* any bounds, overlapping and failing builds included.                    *)
(***************************************************************************)
EXTENDS WarehouseBuild, DataInduction

USE DEF Models, Statements, Rids

-----------------------------------------------------------------------------
(* Staging.                                                                 *)

\* The fields of a record and their types.
LEMMA RecordFields ==
    ASSUME NEW r \in Record
    PROVE  /\ r.rid \in Nat /\ r.rid \in Rids
           /\ r.pk \in Keys
           /\ r.at \in Nat
BY VersionsSound, BoundsNat DEF Record, RecordOf

IdsUnique(rows) == \A r, s \in rows : r.rid = s.rid => r = s

\* The staging views have one row per key: row_number() never ties, because no
\* two records have the same id.
LEMMA CurrentUnique ==
    ASSUME NEW rows \in SUBSET Record, IdsUnique(rows), NEW pks,
           NEW r \in Current(pks, rows), NEW s \in Current(pks, rows), r.pk = s.pk
    PROVE  r = s
<1>1. r \in rows /\ s \in rows /\ ~Newer(r, s) /\ ~Newer(s, r)
    BY DEF Current
<1>2. /\ r.at \in Nat /\ s.at \in Nat
      /\ r.rid \in Nat /\ s.rid \in Nat
    BY <1>1, RecordFields
<1>3. r.rid = s.rid
    BY <1>1, <1>2 DEF Newer
<1> QED BY <1>1, <1>3 DEF IdsUnique

-----------------------------------------------------------------------------
(* What the statements select has the type of its table.                    *)

\* Every statement selects rows of its table's type.
LEMMA SelectTyped ==
    ASSUME raw \subseteq Record, IsFiniteSet(raw), dim \subseteq Record,
           NEW b, NEW m \in Statements
    PROVE  Select(b, m) \in Selectable(m)
<1>live. \A pks : Live(pks, raw) \subseteq raw
    BY DEF Live, Current
<1>1. CASE m = "events"
    <2>1. ClaimIds(raw) \subseteq Rids
        BY RecordFields DEF ClaimIds
    <2>2. NewEvents(first[b], raw) \subseteq Rids
        BY <2>1 DEF NewEvents
    <2> QED BY <1>1, <2>2 DEF Select, Selectable
<1>2. CASE m = "dim"
    <2>1. DimPolicy(raw) \subseteq Record
        BY <1>live DEF DimPolicy
    <2> QED BY <1>2, <2>1 DEF Select, Selectable
<1>3. CASE m = "fct"
    <2>1. FctClaims(raw, dim) \subseteq [claim : Record, policy : Record]
        BY <1>live DEF FctClaims
    <2> QED BY <1>3, <2>1 DEF Select, Selectable
<1>4. CASE m = "portfolio"
    <2>1. ASSUME NEW p
          PROVE  Cardinality({c \in Live(Claims, raw) : PolicyOf[c.pk] = p}) \in Nat
        <3>1. {c \in Live(Claims, raw) : PolicyOf[c.pk] = p} \subseteq raw
            BY <1>live
        <3>2. IsFiniteSet({c \in Live(Claims, raw) : PolicyOf[c.pk] = p})
            BY <3>1, FS_Subset
        <3> QED BY <3>2, FS_CardinalityType
    <2>2. ASSUME NEW x \in PolicyMetrics(raw)
          PROVE  x \in [policy : Record, claimCount : Nat]
        <3>1. PICK p \in Live(Policies, raw) :
                x = [policy |-> p, claimCount |->
                        Cardinality({c \in Live(Claims, raw) : PolicyOf[c.pk] = p.pk})]
            BY <2>2 DEF PolicyMetrics
        <3>2. p \in Record
            BY <1>live
        <3> QED BY <3>1, <3>2, <2>1
    <2> QED BY <1>4, <2>2 DEF Select, Selectable
<1>5. CASE m = "scd2"
    <2>1. ASSUME NEW x \in CustomerVersions(raw)
          PROVE  x \in [record : Record, to : Nat \cup {None}]
        <3> DEFINE versions == {c \in raw : c.pk \in Customers}
        <3>1. \A r \in versions : Lead(r, versions) \subseteq versions
            BY DEF Lead, Following
        <3>2. CASE x \in {[record |-> r, to |-> None] :
                            r \in {v \in versions : Lead(v, versions) = {}}}
            BY <3>2
        <3>3. CASE x \in UNION {{[record |-> r, to |-> s.at] : s \in Lead(r, versions)} :
                                    r \in versions}
            <4>1. PICK r \in versions : \E s \in Lead(r, versions) :
                                            x = [record |-> r, to |-> s.at]
                BY <3>3
            <4>2. PICK s \in Lead(r, versions) : x = [record |-> r, to |-> s.at]
                BY <4>1
            <4>3. s \in Record /\ r \in Record
                BY <3>1
            <4>4. s.at \in Nat
                BY <4>3, RecordFields
            <4> QED BY <4>2, <4>3, <4>4
        <3> QED BY <3>2, <3>3 DEF CustomerVersions
    <2> QED BY <1>5, <2>1 DEF Select, Selectable
<1> QED BY <1>1, <1>2, <1>3, <1>4, <1>5

-----------------------------------------------------------------------------
(* One row for each.                                                        *)

OnePerPolicy(rows) == \A i, j \in rows : i.pk = j.pk => i = j
OnePerClaim(rows)  == \A i, j \in rows : i.claim.pk = j.claim.pk => i = j
OnePerMetric(rows) == \A i, j \in rows : i.policy.pk = j.policy.pk => i = j

\* dim_policy has a row per policy.
LEMMA DimSelectUnique ==
    ASSUME raw \subseteq Record, IdsUnique(raw)
    PROVE  OnePerPolicy(DimPolicy(raw))
<1>1. SUFFICES ASSUME NEW i \in DimPolicy(raw), NEW j \in DimPolicy(raw), i.pk = j.pk
               PROVE  i = j
    BY DEF OnePerPolicy
<1>2. i \in Current(Policies, raw) /\ j \in Current(Policies, raw)
    BY DEF DimPolicy, Live
<1> QED BY <1>1, <1>2, CurrentUnique

\* fct_claim has a row per claim, given that dim_policy has one per policy.
LEMMA FctSelectUnique ==
    ASSUME raw \subseteq Record, IdsUnique(raw), OnePerPolicy(dim)
    PROVE  OnePerClaim(FctClaims(raw, dim))
<1>1. SUFFICES ASSUME NEW i \in FctClaims(raw, dim), NEW j \in FctClaims(raw, dim),
                      i.claim.pk = j.claim.pk
               PROVE  i = j
    BY DEF OnePerClaim
<1>2. /\ i \in [claim : Live(Claims, raw), policy : dim]
      /\ j \in [claim : Live(Claims, raw), policy : dim]
      /\ PolicyOf[i.claim.pk] = i.policy.pk
      /\ PolicyOf[j.claim.pk] = j.policy.pk
    BY DEF FctClaims
<1>3. i.claim \in Current(Claims, raw) /\ j.claim \in Current(Claims, raw)
    BY <1>2 DEF Live
<1>4. i.claim = j.claim
    BY <1>1, <1>3, CurrentUnique
<1>5. i.policy \in dim /\ j.policy \in dim /\ i.policy.pk = j.policy.pk
    BY <1>2, <1>4
<1>6. i.policy = j.policy
    BY <1>5 DEF OnePerPolicy
<1> QED BY <1>2, <1>4, <1>6

\* The portfolio has a row per policy.
LEMMA PortfolioSelectUnique ==
    ASSUME raw \subseteq Record, IdsUnique(raw)
    PROVE  OnePerMetric(PolicyMetrics(raw))
<1> DEFINE Count(p) == Cardinality({c \in Live(Claims, raw) : PolicyOf[c.pk] = p.pk})
<1>1. SUFFICES ASSUME NEW i \in PolicyMetrics(raw), NEW j \in PolicyMetrics(raw),
                      i.policy.pk = j.policy.pk
               PROVE  i = j
    BY DEF OnePerMetric
<1>2. PICK p \in Live(Policies, raw) : i = [policy |-> p, claimCount |-> Count(p)]
    BY DEF PolicyMetrics
<1>3. PICK q \in Live(Policies, raw) : j = [policy |-> q, claimCount |-> Count(q)]
    BY DEF PolicyMetrics
<1> HIDE DEF Count
<1>4. p.pk = q.pk
    BY <1>1, <1>2, <1>3
<1>5. p = q
    BY <1>4, CurrentUnique DEF Live
<1> QED BY <1>2, <1>3, <1>5

-----------------------------------------------------------------------------
(* The inductive invariant: besides the types, RAW is finite (so that        *)
(* claims can be counted), and what has been read without being written yet  *)
(* is as free of duplicates as the tables are, and was read after what it    *)
(* depends on had been built.                                                *)

ReadUnique(b) ==
    /\ InFlight(b, "dim") => OnePerPolicy(read[b]["dim"])
    /\ InFlight(b, "fct") => OnePerClaim(read[b]["fct"])
    /\ InFlight(b, "portfolio") => OnePerMetric(read[b]["portfolio"])

JoinInv ==
    /\ OnePerPolicy(dim)
    /\ OnePerClaim(fct)
    /\ OnePerMetric(portfolio)
    /\ \A b \in Builds : ReadUnique(b)

OrderInv ==
    \A b \in Builds, m \in Statements : InFlight(b, m) => Upstream(m) \subseteq done[b]

IInv ==
    /\ TypeOK
    /\ OrderInv
    /\ IsFiniteSet(raw)
    /\ EventsUnique
    /\ JoinInv

LEMMA InitIInv == Init => IInv
<1>1. SUFFICES ASSUME Init PROVE IInv
    OBVIOUS
<1>2. TypeOK
    BY <1>1, BoundsNat DEF Init, TypeOK, Phases, Selectable
<1>3. IsFiniteSet(raw)
    BY <1>1, FS_EmptySet DEF Init
<1>4. EventsUnique
    BY <1>1 DEF Init, EventsUnique
<1>5. JoinInv
    BY <1>1 DEF Init, JoinInv, ReadUnique, InFlight, OnePerPolicy, OnePerClaim, OnePerMetric
<1>6. OrderInv
    BY <1>1 DEF Init, OrderInv, InFlight
<1> QED BY <1>2, <1>3, <1>4, <1>5, <1>6 DEF IInv

LEMMA AppendIInv == IInv /\ Append => IInv'
<1>1. SUFFICES ASSUME IInv, Append PROVE IInv'
    OBVIOUS
<1>2. PICK i \in Rids, v \in Versions :
        /\ \A r \in raw : r.rid # i
        /\ raw' = raw \cup {RecordOf(i, v)}
    BY <1>1, IdsTyped DEF Append
<1>3. RecordOf(i, v) \in Record /\ RecordOf(i, v).rid = i
    BY DEF Record, RecordOf
<1>4. raw' \subseteq Record /\ IdsUnique(raw')
    <2>1. IdsUnique(raw)
        BY <1>1 DEF IInv, TypeOK, IdsUnique
    <2> QED BY <1>1, <1>2, <1>3, <2>1 DEF IInv, TypeOK, IdsUnique
<1>5. IsFiniteSet(raw')
    BY <1>1, <1>2, FS_AddElement DEF IInv
<1>6. UNCHANGED <<tables, build, faults>>
    BY <1>1 DEF Append
<1>7. TypeOK'
    BY <1>1, <1>4, <1>6 DEF IInv, TypeOK, IdsUnique, tables, build
<1>8. EventsUnique' /\ JoinInv' /\ OrderInv'
    BY <1>1, <1>6 DEF IInv, EventsUnique, JoinInv, OrderInv, ReadUnique, InFlight, tables, build
<1> QED BY <1>5, <1>7, <1>8 DEF IInv

LEMMA StartModelIInv ==
    ASSUME NEW b \in Builds, NEW m \in Statements, IInv, StartModel(b, m)
    PROVE  IInv'
<1>1. /\ read' = [read EXCEPT ![b][m] = Select(b, m)]
      /\ UNCHANGED <<raw, tables, pc, first, done, began, faults>>
    BY DEF StartModel
<1>2. Select(b, m) \in Selectable(m)
    BY SelectTyped DEF IInv, TypeOK, Selectable
<1>3. /\ DOMAIN read' = Builds
      /\ \A c \in Builds : DOMAIN read'[c] = Statements
      /\ \A c \in Builds, n \in Statements :
            read'[c][n] = IF c = b /\ n = m THEN Select(b, m) ELSE read[c][n]
    BY <1>1 DEF IInv, TypeOK
<1>4. TypeOK'
    BY <1>1, <1>2, <1>3 DEF IInv, TypeOK, tables, Selectable
<1>5. ASSUME NEW c \in Builds PROVE ReadUnique(c)'
    <2>1. raw \subseteq Record /\ IdsUnique(raw) /\ OnePerPolicy(dim)
        BY DEF IInv, TypeOK, IdsUnique, JoinInv
    <2>2. /\ m = "dim" => OnePerPolicy(Select(b, m))
          /\ m = "fct" => OnePerClaim(Select(b, m))
          /\ m = "portfolio" => OnePerMetric(Select(b, m))
        BY <2>1, DimSelectUnique, FctSelectUnique, PortfolioSelectUnique DEF Select
    <2>3. ReadUnique(c)
        BY DEF IInv, JoinInv
    <2> QED BY <1>3, <2>2, <2>3 DEF ReadUnique, InFlight
<1>6. EventsUnique' /\ JoinInv'
    BY <1>1, <1>5 DEF IInv, EventsUnique, JoinInv, tables
<1>7. OrderInv'
    BY <1>1, <1>3 DEF IInv, OrderInv, InFlight, StartModel, TypeOK
<1> QED BY <1>1, <1>4, <1>6, <1>7 DEF IInv

LEMMA FinishModelIInv ==
    ASSUME NEW b \in Builds, NEW m \in Statements, IInv, FinishModel(b, m)
    PROVE  IInv'
<1>1. /\ read[b][m] # None /\ read[b][m] \in Selectable(m) \cup {None}
      /\ UNCHANGED <<raw, first, began, faults>>
    BY DEF FinishModel, InFlight, IInv, TypeOK
<1>2. read[b][m] \in Selectable(m)
    BY <1>1
<1>3. /\ DOMAIN read' = Builds
      /\ \A c \in Builds : DOMAIN read'[c] = Statements
      /\ \A c \in Builds, n \in Statements :
            read'[c][n] = IF c = b /\ n = m THEN None ELSE read[c][n]
    BY DEF IInv, TypeOK, FinishModel
<1>4. events' \in [Rids -> Nat] /\ EventsUnique'
    BY DEF FinishModel, WriteEvents, IInv, TypeOK, EventsUnique
<1>5. done' \in [Builds -> SUBSET Models] /\ pc' \in [Builds -> Phases]
    BY DEF FinishModel, IInv, TypeOK, Phases
<1>6. /\ \A c \in Builds : \A n \in done'[c] : Upstream(n) \subseteq done'[c]
      /\ OrderInv'
    <2>1. Upstream(m) \subseteq done[b]
        BY <1>1 DEF IInv, OrderInv, InFlight
    <2>2. \A c \in Builds : done'[c] = IF c = b THEN done[c] \cup {m} ELSE done[c]
        BY DEF FinishModel, IInv, TypeOK
    <2>3. \A c \in Builds : \A n \in done'[c] : Upstream(n) \subseteq done'[c]
        <3>1. \A c \in Builds : \A n \in done[c] : Upstream(n) \subseteq done[c]
            BY DEF IInv, TypeOK
        <3>2. SUFFICES ASSUME NEW c \in Builds, NEW n \in done'[c]
                       PROVE  Upstream(n) \subseteq done'[c]
            OBVIOUS
        <3>3. done[c] \subseteq done'[c]
            BY <2>2
        <3>4. n \in done[c] \/ (c = b /\ n = m)
            BY <2>2
        <3> QED BY <3>1, <3>3, <3>4, <2>1
    <2>4. OrderInv'
        <3>1. SUFFICES ASSUME NEW c \in Builds, NEW n \in Statements, InFlight(c, n)'
                       PROVE  Upstream(n) \subseteq done'[c]
            BY DEF OrderInv, Upstream
        <3>2. InFlight(c, n)
            BY <1>3, <3>1 DEF InFlight
        <3>3. Upstream(n) \subseteq done[c]
            BY <3>2 DEF IInv, OrderInv
        <3> QED BY <2>2, <3>3
    <2> QED BY <2>3, <2>4
<1>7. TypeOK'
    <2>1. /\ dim' \in Selectable("dim")
          /\ fct' \in Selectable("fct")
          /\ portfolio' \in Selectable("portfolio")
          /\ scd2' \in Selectable("scd2")
          /\ created' \in BOOLEAN
        BY <1>2 DEF FinishModel, IInv, TypeOK
    <2>2. \A c \in Builds, n \in Statements : read'[c][n] \in Selectable(n)' \cup {None}
        BY <1>3 DEF IInv, TypeOK, Selectable
    <2> QED BY <1>1, <1>3, <1>4, <1>5, <1>6, <2>1, <2>2 DEF IInv, TypeOK, Selectable
<1>8. JoinInv'
    <2>1. ReadUnique(b)
        BY DEF IInv, JoinInv
    <2>2. OnePerPolicy(dim') /\ OnePerClaim(fct') /\ OnePerMetric(portfolio')
        BY <1>1, <2>1 DEF FinishModel, IInv, JoinInv, ReadUnique, InFlight
    <2>3. ASSUME NEW c \in Builds PROVE ReadUnique(c)'
        BY <1>3 DEF IInv, JoinInv, ReadUnique, InFlight
    <2> QED BY <2>2, <2>3 DEF JoinInv
<1> QED BY <1>1, <1>4, <1>6, <1>7, <1>8 DEF IInv

\* The other steps of a build touch no table.
LEMMA ControlIInv ==
    ASSUME NEW b \in Builds, IInv,
           Begin(b) \/ TestStaging(b) \/ Fail(b) \/ \E m \in Statements : Cancel(b, m)
    PROVE  IInv'
<1>1. CASE Begin(b)
    <2>1. TypeOK'
        BY <1>1 DEF Begin, IInv, TypeOK, tables, Phases, Selectable
    <2> QED BY <1>1, <2>1 DEF Begin, IInv, EventsUnique, JoinInv, OrderInv, ReadUnique,
                              InFlight, tables
<1>2. CASE TestStaging(b)
    <2>1. \A c \in Builds : \/ done'[c] = done[c]
                            \/ c = b /\ done'[c] = done[c] \cup {"tests"}
        BY <1>2 DEF TestStaging, IInv, TypeOK
    <2>2. /\ done' \in [Builds -> SUBSET Models]
          /\ pc' \in [Builds -> Phases]
        BY <1>2 DEF TestStaging, IInv, TypeOK, Phases
    <2>3. UNCHANGED <<raw, tables, first, read, began, faults>>
        BY <1>2 DEF TestStaging
    <2>4. \A c \in Builds : \A n \in done'[c] : Upstream(n) \subseteq done'[c]
        BY <2>1 DEF IInv, TypeOK, Upstream
    <2>5. TypeOK'
        BY <2>2, <2>3, <2>4 DEF IInv, TypeOK, tables, Selectable
    <2>6. OrderInv'
        BY <2>1, <2>3 DEF IInv, OrderInv, InFlight
    <2> QED BY <2>3, <2>5, <2>6 DEF IInv, EventsUnique, JoinInv, ReadUnique, InFlight, tables
<1>3. CASE Fail(b)
    <2>1. TypeOK'
        BY <1>3, BoundsNat DEF Fail, IInv, TypeOK, tables, Phases, Selectable
    <2> QED BY <1>3, <2>1 DEF Fail, IInv, EventsUnique, JoinInv, OrderInv, ReadUnique,
                              InFlight, tables
<1>4. ASSUME NEW m \in Statements, Cancel(b, m) PROVE IInv'
    <2>1. /\ DOMAIN read' = Builds
          /\ \A c \in Builds : DOMAIN read'[c] = Statements
          /\ \A c \in Builds, n \in Statements :
                read'[c][n] = IF c = b /\ n = m THEN None ELSE read[c][n]
        BY <1>4 DEF Cancel, IInv, TypeOK
    <2>2. UNCHANGED <<raw, tables, pc, first, done, began, faults>>
        BY <1>4 DEF Cancel
    <2>3. TypeOK'
        BY <2>1, <2>2 DEF IInv, TypeOK, tables, Selectable
    <2>4. JoinInv' /\ OrderInv'
        BY <2>1, <2>2 DEF IInv, JoinInv, OrderInv, ReadUnique, InFlight, tables
    <2> QED BY <2>2, <2>3, <2>4 DEF IInv, EventsUnique, tables
<1> QED BY <1>1, <1>2, <1>3, <1>4

-----------------------------------------------------------------------------
\* The inductive invariant holds in every reachable state.
THEOREM Invariance == Spec => []IInv
<1>1. IInv /\ [Next]_vars => IInv'
    <2>1. SUFFICES ASSUME IInv, [Next]_vars PROVE IInv'
        OBVIOUS
    <2>2. CASE Append
        BY <2>1, <2>2, AppendIInv
    <2>3. ASSUME NEW b \in Builds,
                 Begin(b) \/ TestStaging(b) \/ Fail(b) \/ \E m \in Statements : Cancel(b, m)
          PROVE  IInv'
        BY <2>1, <2>3, ControlIInv
    <2>4. ASSUME NEW b \in Builds, NEW m \in Statements, StartModel(b, m) PROVE IInv'
        BY <2>1, <2>4, StartModelIInv
    <2>5. ASSUME NEW b \in Builds, NEW m \in Statements, FinishModel(b, m) PROVE IInv'
        BY <2>1, <2>5, FinishModelIInv
    <2>6. CASE UNCHANGED vars
        BY <2>1, <2>6 DEF vars, IInv, TypeOK, EventsUnique, JoinInv, OrderInv, ReadUnique,
                          InFlight, Selectable
    <2> QED BY <2>1, <2>2, <2>3, <2>4, <2>5, <2>6 DEF Next
<1> QED BY InitIInv, <1>1, PTL DEF Spec

\* Every variable keeps its type, and no model is built before those upstream of
\* it, whatever fails (Upstream, Selectable; the ref() edges of the models).
THEOREM TypeCorrect == Spec => []TypeOK
<1>1. IInv => TypeOK
    BY DEF IInv
<1> QED BY Invariance, <1>1, PTL

\* int_claim_events never holds a RAW record twice, however many builds overlap
\* (the anti-join and the unique_key of int_claim_events.sql).
THEOREM EventsAlwaysUnique == Spec => []EventsUnique
<1>1. IInv => EventsUnique
    BY DEF IInv
<1> QED BY Invariance, <1>1, PTL

\* A claim is at most one row of fct_claims and a policy at most one row behind
\* the portfolio, whatever RAW was when each of the joined tables was built.
THEOREM OneRowEachAlways == Spec => []OneRowEach
<1>1. IInv => OneRowEach
    BY DEF IInv, JoinInv, OneRowEach, OnePerClaim, OnePerMetric
<1> QED BY Invariance, <1>1, PTL

-----------------------------------------------------------------------------
(* The claim events.                                                        *)

\* What an idle build has: nothing.  RAW only grows, so that it still holds what a
\* build began with; and a statement for the events that is in flight selects all
\* claim records of that RAW which the table does not hold, unless another build
\* replaces the table as a whole.
EventsInv ==
    \A b \in Builds :
        /\ pc[b] = "idle" => /\ ~first[b] /\ done[b] = {}
                             /\ \A m \in Statements : ~InFlight(b, m)
        /\ began[b] \subseteq raw
        /\ InFlight(b, "events") /\ (\A c \in Builds \ {b} : ~first[c]) =>
               \A i \in ClaimIds(began[b]) :
                   i \in read[b]["events"] \/ (~first[b] /\ events[i] > 0)

CompleteInv == EventsInv /\ EventsComplete

\* RAW only grows, and with it the claims' record ids.
LEMMA ClaimIdsGrow ==
    ASSUME NEW rows \in SUBSET Record, NEW more, rows \subseteq more
    PROVE  ClaimIds(rows) \subseteq ClaimIds(more) /\ ClaimIds(rows) \subseteq Rids
BY RecordFields DEF ClaimIds

\* A MERGE and a build of the whole table both leave the rows selected in it; a
\* MERGE removes none.
LEMMA WriteEventsKeeps ==
    ASSUME TypeOK, NEW whole \in BOOLEAN, NEW ids \in SUBSET Rids
    PROVE  /\ WriteEvents(whole, ids) \in [Rids -> Nat]
           /\ \A i \in ids : WriteEvents(whole, ids)[i] > 0
           /\ ~whole => \A i \in Rids : events[i] > 0 => WriteEvents(whole, ids)[i] > 0
BY DEF WriteEvents, TypeOK

\* What CompleteInv says of build c and claim record i after a step.
Kept(c, i) ==
    /\ "events" \in done'[c] => events'[i] > 0
    /\ read'[c]["events"] # None =>
           i \in read'[c]["events"] \/ (~first[c] /\ events'[i] > 0)

\* Completeness follows when every row a first build began with is still on its way.
LEMMA CompleteFromKept ==
    ASSUME UNCHANGED <<raw, first, began>>, CompleteInv,
           \A c \in Builds : pc'[c] = "idle" =>
               ~first'[c] /\ done'[c] = {} /\ \A n \in Statements : ~InFlight(c, n)',
           \A c \in Builds : (\A d \in Builds \ {c} : ~first[d]) =>
               \A i \in ClaimIds(began[c]) : Kept(c, i)
    PROVE  CompleteInv'
<1>1. EventsComplete'
  BY DEF EventsComplete, Kept
<1>2. EventsInv'
  BY DEF CompleteInv, EventsInv, InFlight, Kept
<1> QED BY <1>1, <1>2 DEF CompleteInv

\* Whichever statement ends, no event of a finished build is lost.
LEMMA FinishEvents ==
    ASSUME IInv, CompleteInv, NEW b \in Builds, NEW m \in Statements, FinishModel(b, m)
    PROVE  CompleteInv'
<1>1. /\ \A c \in Builds, n \in Statements :
            read'[c][n] = IF c = b /\ n = m THEN None ELSE read[c][n]
      /\ \A c \in Builds : done'[c] = IF c = b THEN done[c] \cup {m} ELSE done[c]
      /\ \A c \in Builds : pc'[c] = "idle" => pc[c] = "idle"
      /\ UNCHANGED <<raw, first, began>>
  BY DEF FinishModel, IInv, TypeOK
<1>2. pc[b] # "idle" /\ read[b][m] # None
  BY DEF FinishModel, CompleteInv, EventsInv, InFlight
<1>3. ASSUME NEW c \in Builds, pc'[c] = "idle"
      PROVE  ~first'[c] /\ done'[c] = {} /\ \A n \in Statements : ~InFlight(c, n)'
  <2>1. c # b
    BY <1>1, <1>2, <1>3
  <2>2. ~first[c] /\ done[c] = {} /\ \A n \in Statements : read[c][n] = None
    BY <1>1, <1>3 DEF CompleteInv, EventsInv, InFlight
  <2> QED BY <1>1, <2>1, <2>2 DEF InFlight
<1>4. ASSUME NEW c \in Builds, \A d \in Builds \ {c} : ~first[d],
             NEW i \in ClaimIds(began[c])
      PROVE  /\ i \in Rids
             /\ "events" \in done[c] => events[i] > 0
             /\ read[c]["events"] # None =>
                    i \in read[c]["events"] \/ (~first[c] /\ events[i] > 0)
  <2>1. began[c] \in SUBSET Record
    BY DEF IInv, TypeOK
  <2>2. i \in Rids
    BY <2>1, ClaimIdsGrow
  <2> QED BY <1>4, <2>2 DEF CompleteInv, EventsInv, EventsComplete, InFlight
<1>5. CASE m # "events"
  <2>1. UNCHANGED events
    BY <1>5 DEF FinishModel
  <2>2. \A c \in Builds : /\ read'[c]["events"] = read[c]["events"]
                          /\ "events" \in done'[c] <=> "events" \in done[c]
    BY <1>1, <1>5
  <2>3. ASSUME NEW c \in Builds, \A d \in Builds \ {c} : ~first[d],
               NEW i \in ClaimIds(began[c])
        PROVE  Kept(c, i)
    BY <1>4, <2>1, <2>2, <2>3 DEF Kept
  <2> QED BY <1>1, <1>3, <2>3, CompleteFromKept
<1>6. CASE m = "events"
  <2>1. /\ read[b]["events"] \in SUBSET Rids /\ first[b] \in BOOLEAN
        /\ events' = WriteEvents(first[b], read[b]["events"])
    BY <1>2, <1>6 DEF FinishModel, Selectable, IInv, TypeOK
  <2>2. /\ \A i \in read[b]["events"] : events'[i] > 0
        /\ ~first[b] => \A i \in Rids : events[i] > 0 => events'[i] > 0
    BY <2>1, WriteEventsKeeps DEF IInv
  <2>3. ASSUME NEW c \in Builds, \A d \in Builds \ {c} : ~first[d],
               NEW i \in ClaimIds(began[c])
        PROVE  Kept(c, i)
    <3>1. CASE c = b
      <4>1. i \in read[b]["events"] \/ (~first[b] /\ events[i] > 0)
        BY <1>2, <1>4, <1>6, <2>3, <3>1
      <4>2. events'[i] > 0
        BY <1>4, <2>2, <2>3, <4>1
      <4>3. read'[c]["events"] = None
        BY <1>1, <1>6, <3>1
      <4> QED BY <4>2, <4>3 DEF Kept
    <3>2. CASE c # b
      <4>1. /\ read'[c]["events"] = read[c]["events"] /\ done'[c] = done[c]
            /\ ~first[b]
        BY <1>1, <2>3, <3>2
      <4>2. events[i] > 0 => events'[i] > 0
        BY <1>4, <2>2, <2>3, <4>1
      <4> QED BY <1>4, <2>3, <4>1, <4>2 DEF Kept
    <3> QED BY <3>1, <3>2
  <2> QED BY <1>1, <1>3, <2>3, CompleteFromKept
<1> QED BY <1>5, <1>6

LEMMA EventsStep == IInv /\ CompleteInv /\ [Next]_vars => CompleteInv'
<1> SUFFICES ASSUME IInv, CompleteInv, [Next]_vars PROVE CompleteInv'
  OBVIOUS
<1> USE DEF IInv, TypeOK, CompleteInv, EventsInv, EventsComplete, InFlight, Kept
<1>1. CASE Append
  BY <1>1 DEF Append, tables, build
<1>2. ASSUME NEW b \in Builds, Begin(b) PROVE CompleteInv'
  BY <1>2 DEF Begin, tables, Phases
<1>3. ASSUME NEW b \in Builds, TestStaging(b) PROVE CompleteInv'
  <2>1. /\ \A c \in Builds : "events" \in done'[c] <=> "events" \in done[c]
        /\ \A c \in Builds : pc'[c] = "idle" => pc[c] = "idle" /\ done'[c] = done[c]
        /\ UNCHANGED <<raw, tables, first, read, began>>
    BY <1>3 DEF TestStaging
  <2> QED BY <2>1 DEF tables
<1>4. ASSUME NEW b \in Builds, Fail(b) PROVE CompleteInv'
  BY <1>4 DEF Fail, tables
<1>5. ASSUME NEW b \in Builds, NEW m \in Statements, StartModel(b, m) PROVE CompleteInv'
  <2>1. /\ pc[b] = "running"
        /\ \A c \in Builds, n \in Statements :
              read'[c][n] = IF c = b /\ n = m THEN Select(b, m) ELSE read[c][n]
        /\ UNCHANGED <<raw, tables, pc, first, done, began>>
    BY <1>5 DEF StartModel
  <2>2. m = "events" =>
            \A i \in ClaimIds(began[b]) :
                i \in Select(b, m) \/ (~first[b] /\ events[i] > 0)
    <3> SUFFICES ASSUME m = "events", NEW i \in ClaimIds(began[b])
                 PROVE  i \in NewEvents(first[b], raw) \/ (~first[b] /\ events[i] > 0)
      BY DEF Select
    <3>1. began[b] \in SUBSET Record /\ began[b] \subseteq raw
      OBVIOUS
    <3>2. i \in ClaimIds(raw) /\ i \in Rids
      BY <3>1, ClaimIdsGrow
    <3>3. first[b] \/ events[i] = 0 => i \in NewEvents(first[b], raw)
      BY <3>2 DEF NewEvents
    <3>4. events[i] \in Nat
      BY <3>2
    <3> QED BY <3>3, <3>4
  <2> QED BY <2>1, <2>2 DEF tables
<1>6. ASSUME NEW b \in Builds, NEW m \in Statements, FinishModel(b, m) PROVE CompleteInv'
  BY <1>6, FinishEvents
<1>7. ASSUME NEW b \in Builds, NEW m \in Statements, Cancel(b, m) PROVE CompleteInv'
  <2>1. /\ \A c \in Builds, n \in Statements :
              read'[c][n] = IF c = b /\ n = m THEN None ELSE read[c][n]
        /\ UNCHANGED <<raw, tables, pc, first, done, began>>
    BY <1>7 DEF Cancel
  <2> QED BY <2>1 DEF tables
<1>8. CASE UNCHANGED vars
  BY <1>8 DEF vars
<1> QED BY <1>1, <1>2, <1>3, <1>4, <1>5, <1>6, <1>7, <1>8 DEF Next

\* Once a build has built int_claim_events, every claim record that RAW held when
\* the build began is in it, whatever is appended, fails or overlaps, as long as no
\* other build is one that replaces the table as a whole (int_claim_events.sql).
THEOREM EventsAlwaysComplete == Spec => []EventsComplete
<1>1. Init => CompleteInv
  BY DEF Init, CompleteInv, EventsInv, EventsComplete, InFlight
<1>2. CompleteInv => EventsComplete
  BY DEF CompleteInv
<1> QED BY Invariance, EventsStep, <1>1, <1>2, PTL DEF Spec

-----------------------------------------------------------------------------
(* One build at a time.                                                     *)

Marts == {"dim", "fct", "portfolio"}

Table(m) ==
    CASE m = "dim"       -> dim
      [] m = "fct"       -> fct
      [] m = "portfolio" -> portfolio

\* What the table of a model holds when it and those upstream of it were all built
\* from the RAW of now.
Fresh(m) ==
    CASE m = "dim"       -> DimPolicy(raw)
      [] m = "fct"       -> FctClaims(raw, DimPolicy(raw))
      [] m = "portfolio" -> PolicyMetrics(raw)

\* Whatever a build that began with the RAW of now has read or built is what that
\* RAW gives.  A later build that rewrites one of its tables began with a RAW at
\* least as large, hence with the same one.
FreshInv ==
    /\ \A b, c \in Builds : Active(b) /\ Active(c) => b = c
    /\ \A b, c \in Builds : Active(c) /\ pc[b] # "idle" => began[b] \subseteq began[c]
    /\ \A b \in Builds : pc[b] = "succeeded" => done[b] = Models
    /\ \A b \in Builds, m \in Marts : began[b] = raw =>
           /\ m \in done[b] => Table(m) = Fresh(m)
           /\ InFlight(b, m) => read[b][m] = Fresh(m)

LEMMA FreshInit == Init => FreshInv
BY DEF Init, FreshInv, Active, InFlight, Marts

\* RAW grows by a record it did not hold: no build began with the RAW of after.
LEMMA FreshAppend ==
    ASSUME IInv, EventsInv, FreshInv, Append
    PROVE  FreshInv'
<1>1. PICK i \in Rids, v \in Versions :
        /\ \A r \in raw : r.rid # i
        /\ raw' = raw \cup {RecordOf(i, v)}
  BY IdsTyped DEF Append
<1>2. RecordOf(i, v) \notin raw
  BY <1>1 DEF RecordOf
<1>3. UNCHANGED <<tables, build>>
  BY DEF Append
<1>4. \A b \in Builds : began'[b] # raw'
  BY <1>1, <1>2, <1>3 DEF EventsInv, build
<1> QED BY <1>3, <1>4 DEF FreshInv, Active, InFlight, build

\* No other build is at work when one begins, and RAW holds whatever any build
\* began with.
LEMMA FreshBegin ==
    ASSUME MaxActive = 1, IInv, EventsInv, FreshInv, NEW b \in Builds, Begin(b)
    PROVE  FreshInv'
<1> DEFINE A == {c \in Builds : Active(c)}
<1>1. /\ pc[b] = "idle" /\ Cardinality(A) < 1
      /\ UNCHANGED <<raw, tables, done, read>>
      /\ \A c \in Builds : /\ pc'[c] = IF c = b THEN "running" ELSE pc[c]
                           /\ began'[c] = IF c = b THEN raw ELSE began[c]
  BY DEF Begin, IInv, TypeOK
<1>2. ASSUME NEW c \in Builds PROVE ~Active(c)
  <2> SUFFICES ASSUME Active(c) PROVE FALSE
    OBVIOUS
  <2>1. A = {c}
    BY DEF FreshInv
  <2> QED BY <1>1, <2>1, FS_Singleton
<1>3. \A c \in Builds : Active(c)' => c = b
  BY <1>1, <1>2 DEF Active, InFlight
<1>4. \A c \in Builds : began'[c] \subseteq raw
  BY <1>1 DEF EventsInv
<1>5. \A c \in Builds : pc'[c] = "succeeded" => done'[c] = Models
  BY <1>1 DEF FreshInv
<1>6. ASSUME NEW c \in Builds, NEW m \in Marts, began'[c] = raw'
      PROVE  /\ m \in done'[c] => Table(m)' = Fresh(m)'
             /\ InFlight(c, m)' => read'[c][m] = Fresh(m)'
  <2>1. Table(m)' = Table(m) /\ Fresh(m)' = Fresh(m)
    BY <1>1 DEF Table, Fresh, tables, Marts
  <2>2. ~InFlight(c, m)'
    BY <1>1, <1>2 DEF Active, InFlight, Marts
  <2>3. CASE c = b
    BY <1>1, <2>2, <2>3 DEF EventsInv
  <2>4. CASE c # b
    BY <1>1, <1>6, <2>1, <2>2, <2>4 DEF FreshInv
  <2> QED BY <2>3, <2>4
<1> QED BY <1>1, <1>3, <1>4, <1>5, <1>6 DEF FreshInv

\* A model is built from what is upstream of it.
LEMMA FreshStart ==
    ASSUME IInv, EventsInv, FreshInv, NEW b \in Builds, NEW m \in Statements,
           StartModel(b, m)
    PROVE  FreshInv'
<1>1. /\ pc[b] = "running" /\ Upstream(m) \subseteq done[b]
      /\ UNCHANGED <<raw, tables, pc, done, began>>
      /\ \A c \in Builds, n \in Statements :
            read'[c][n] = IF c = b /\ n = m THEN Select(b, m) ELSE read[c][n]
  BY DEF StartModel, IInv, TypeOK
<1>2. Active(b) /\ \A c \in Builds : Active(c)' => Active(c)
  BY <1>1 DEF Active, InFlight
<1>3. m \in Marts /\ began[b] = raw => Select(b, m) = Fresh(m)
  <2>1. m = "fct" /\ began[b] = raw => dim = DimPolicy(raw)
    BY <1>1 DEF Upstream, FreshInv, Table, Fresh, Marts
  <2> QED BY <2>1 DEF Select, Fresh, Marts
<1>4. ASSUME NEW c \in Builds, NEW n \in Marts, began'[c] = raw'
      PROVE  /\ n \in done'[c] => Table(n)' = Fresh(n)'
             /\ InFlight(c, n)' => read'[c][n] = Fresh(n)'
  <2>1. Table(n)' = Table(n) /\ Fresh(n)' = Fresh(n)
    BY <1>1 DEF Table, Fresh, tables, Marts
  <2>2. n \in Statements
    BY DEF Marts
  <2>3. began[c] = raw
    BY <1>1, <1>4
  <2>4. n \in done[c] => Table(n) = Fresh(n)
    BY <2>3 DEF FreshInv
  <2>5. read[c][n] # None => read[c][n] = Fresh(n)
    BY <2>3 DEF FreshInv, InFlight
  <2> QED BY <1>1, <1>3, <2>1, <2>2, <2>3, <2>4, <2>5 DEF InFlight
<1>5. \A c \in Builds : pc'[c] = "succeeded" => done'[c] = Models
  BY <1>1 DEF FreshInv
<1>6. /\ \A c, d \in Builds : Active(c)' /\ Active(d)' => c = d
      /\ \A c, d \in Builds : Active(d)' /\ pc'[c] # "idle" => began'[c] \subseteq began'[d]
  BY <1>1, <1>2 DEF FreshInv
<1> QED BY <1>4, <1>5, <1>6 DEF FreshInv

\* The build that writes a table is the one at work: it began with a RAW that holds
\* what any other build began with.
LEMMA FreshFinish ==
    ASSUME IInv, EventsInv, FreshInv, NEW b \in Builds, NEW m \in Statements,
           FinishModel(b, m)
    PROVE  FreshInv'
<1>1. /\ read[b][m] # None
      /\ UNCHANGED <<raw, began>>
      /\ \A c \in Builds : done'[c] = IF c = b THEN done[c] \cup {m} ELSE done[c]
      /\ \A c \in Builds, n \in Statements :
            read'[c][n] = IF c = b /\ n = m THEN None ELSE read[c][n]
      /\ \A c \in Builds : pc'[c] = pc[c] \/ (c = b /\ pc'[c] = "succeeded" /\ done'[c] = Models)
  BY DEF FinishModel, InFlight, IInv, TypeOK
<1>2. /\ Active(b) /\ pc[b] # "idle"
      /\ \A c \in Builds : Active(c)' => Active(c)
      /\ \A c \in Builds : pc'[c] # "idle" => pc[c] # "idle"
  BY <1>1 DEF Active, InFlight, EventsInv
<1>3. \A n \in Marts : Table(n)' = IF n = m THEN read[b][m] ELSE Table(n)
  BY DEF FinishModel, Table, Marts
<1>4. ASSUME NEW c \in Builds, NEW n \in Marts, began'[c] = raw'
      PROVE  /\ n \in done'[c] => Table(n)' = Fresh(n)'
             /\ InFlight(c, n)' => read'[c][n] = Fresh(n)'
  <2>1. Fresh(n)' = Fresh(n) /\ n \in Statements
    BY <1>1 DEF Fresh, Marts
  <2>2. began[c] = raw
    BY <1>1, <1>4
  <2>3. n \in done[c] => Table(n) = Fresh(n)
    BY <2>2 DEF FreshInv
  <2>4. read[c][n] # None => read[c][n] = Fresh(n)
    BY <2>2 DEF FreshInv, InFlight
  <2>5. n = m /\ n \in done'[c] => read[b][m] = Fresh(n)
    <3> SUFFICES ASSUME n = m, n \in done'[c] PROVE read[b][m] = Fresh(n)
      OBVIOUS
    <3>1. pc[c] # "idle"
      BY <1>1, <1>2 DEF EventsInv
    <3>2. began[c] \subseteq began[b] /\ began[b] \subseteq raw
      BY <1>2, <3>1 DEF FreshInv, EventsInv
    <3>3. began[b] = raw
      BY <2>2, <3>2
    <3> QED BY <1>1, <3>3 DEF FreshInv, InFlight
  <2>6. n \in done'[c] /\ n # m => n \in done[c]
    BY <1>1
  <2> QED BY <1>1, <1>3, <2>1, <2>3, <2>4, <2>5, <2>6 DEF InFlight
<1>5. \A c \in Builds : pc'[c] = "succeeded" => done'[c] = Models
  BY <1>1 DEF FreshInv
<1>6. /\ \A c, d \in Builds : Active(c)' /\ Active(d)' => c = d
      /\ \A c, d \in Builds : Active(d)' /\ pc'[c] # "idle" => began'[c] \subseteq began'[d]
  BY <1>1, <1>2 DEF FreshInv
<1> QED BY <1>4, <1>5, <1>6 DEF FreshInv

\* Tests, failures and cancelled statements touch no table.
LEMMA FreshControl ==
    ASSUME IInv, EventsInv, FreshInv, NEW b \in Builds,
           TestStaging(b) \/ Fail(b) \/ \E m \in Statements : Cancel(b, m)
    PROVE  FreshInv'
<1>1. /\ UNCHANGED <<raw, tables, began>>
      /\ \A c \in Builds, n \in Statements : read'[c][n] = read[c][n] \/ read'[c][n] = None
      /\ \A c \in Builds, n \in Marts : n \in done'[c] <=> n \in done[c]
      /\ \A c \in Builds : \/ pc'[c] = pc[c] /\ (pc[c] = "succeeded" => done'[c] = done[c])
                           \/ pc[c] = "running" /\ pc'[c] = "failed"
                           \/ pc[c] = "running" /\ pc'[c] = "succeeded" /\ done'[c] = Models
  <2>1. CASE TestStaging(b)
    BY <2>1 DEF TestStaging, IInv, TypeOK, Marts
  <2>2. CASE Fail(b)
    BY <2>2 DEF Fail, IInv, TypeOK
  <2>3. ASSUME NEW m \in Statements, Cancel(b, m)
        PROVE  /\ UNCHANGED <<raw, tables, pc, done, began>>
               /\ \A c \in Builds, n \in Statements :
                      read'[c][n] = read[c][n] \/ read'[c][n] = None
    BY <2>3 DEF Cancel, IInv, TypeOK
  <2> QED BY <2>1, <2>2, <2>3
<1>2. /\ \A c \in Builds : Active(c)' => Active(c)
      /\ \A c \in Builds : pc'[c] # "idle" => pc[c] # "idle"
  BY <1>1 DEF Active, InFlight
<1>3. ASSUME NEW c \in Builds, NEW n \in Marts, began'[c] = raw'
      PROVE  /\ n \in done'[c] => Table(n)' = Fresh(n)'
             /\ InFlight(c, n)' => read'[c][n] = Fresh(n)'
  <2>1. Table(n)' = Table(n) /\ Fresh(n)' = Fresh(n) /\ n \in Statements
    BY <1>1 DEF Table, Fresh, tables, Marts
  <2>2. began[c] = raw
    BY <1>1, <1>3
  <2>3. n \in done[c] => Table(n) = Fresh(n)
    BY <2>2 DEF FreshInv
  <2>4. read[c][n] # None => read[c][n] = Fresh(n)
    BY <2>2 DEF FreshInv, InFlight
  <2> QED BY <1>1, <2>1, <2>3, <2>4 DEF InFlight
<1>4. \A c \in Builds : pc'[c] = "succeeded" => done'[c] = Models
  BY <1>1 DEF FreshInv
<1>5. /\ \A c, d \in Builds : Active(c)' /\ Active(d)' => c = d
      /\ \A c, d \in Builds : Active(d)' /\ pc'[c] # "idle" => began'[c] \subseteq began'[d]
  BY <1>1, <1>2 DEF FreshInv
<1> QED BY <1>3, <1>4, <1>5 DEF FreshInv

\* With one active build, what was read or built from RAW as it is stays what RAW gives.
LEMMA FreshStep ==
    ASSUME MaxActive = 1, IInv, EventsInv, FreshInv, [Next]_vars
    PROVE  FreshInv'
<1>1. CASE Append
  BY <1>1, FreshAppend
<1>2. ASSUME NEW b \in Builds, Begin(b) PROVE FreshInv'
  BY <1>2, FreshBegin
<1>3. ASSUME NEW b \in Builds,
             TestStaging(b) \/ Fail(b) \/ \E m \in Statements : Cancel(b, m)
      PROVE  FreshInv'
  BY <1>3, FreshControl
<1>4. ASSUME NEW b \in Builds, NEW m \in Statements, StartModel(b, m) PROVE FreshInv'
  BY <1>4, FreshStart
<1>5. ASSUME NEW b \in Builds, NEW m \in Statements, FinishModel(b, m) PROVE FreshInv'
  BY <1>5, FreshFinish
<1>6. CASE UNCHANGED vars
  BY <1>6 DEF vars, FreshInv, Active, InFlight, Table, Fresh, Marts
<1> QED BY <1>1, <1>2, <1>3, <1>4, <1>5, <1>6 DEF Next

\* The marts of a build that succeeded while RAW stood still.
LEMMA FreshMarts ==
    ASSUME FreshInv, NEW b \in Builds, pc[b] = "succeeded", raw = began[b]
    PROVE  /\ fct = FctClaims(raw, DimPolicy(raw))
           /\ portfolio = PolicyMetrics(raw)
BY DEF FreshInv, Marts, Table, Fresh

\* With one active build, this always holds.
LEMMA FreshAlways ==
    ASSUME MaxActive = 1
    PROVE  Spec => [](IInv /\ FreshInv)
<1>1. Init => CompleteInv
  BY DEF Init, CompleteInv, EventsInv, EventsComplete, InFlight
<1>2. IInv /\ CompleteInv /\ FreshInv /\ [Next]_vars => FreshInv'
  BY FreshStep DEF CompleteInv
<1> QED BY Invariance, EventsStep, FreshInit, <1>1, <1>2, PTL DEF Spec

\* A claim is dropped from fct_claims exactly when its policy, or the customer or
\* the pet of that policy, is not among the live ones.
LEMMA DropsOfFresh ==
    ASSUME NEW k \in LiveKeys(Claims, raw)
    PROVE  (\A j \in FctClaims(raw, DimPolicy(raw)) : j.claim.pk # k) <=>
               \/ PolicyOf[k] \notin LiveKeys(Policies, raw)
               \/ CustomerOf[PolicyOf[k]] \notin LiveKeys(Customers, raw)
               \/ PetOf[PolicyOf[k]] \notin LiveKeys(Pets, raw)
<1>1. ASSUME PolicyOf[k] \in LiveKeys(Policies, raw),
             CustomerOf[PolicyOf[k]] \in LiveKeys(Customers, raw),
             PetOf[PolicyOf[k]] \in LiveKeys(Pets, raw)
      PROVE  \E j \in FctClaims(raw, DimPolicy(raw)) : j.claim.pk = k
  <2>1. PICK r \in Live(Claims, raw) : r.pk = k
    BY DEF LiveKeys
  <2>2. PICK p \in Live(Policies, raw) : p.pk = PolicyOf[k]
    BY <1>1 DEF LiveKeys
  <2>3. p \in DimPolicy(raw)
    BY <1>1, <2>2 DEF DimPolicy
  <2>4. [claim |-> r, policy |-> p] \in FctClaims(raw, DimPolicy(raw))
    BY <2>1, <2>2, <2>3 DEF FctClaims
  <2> QED BY <2>1, <2>4
<1>2. ASSUME NEW j \in FctClaims(raw, DimPolicy(raw)), j.claim.pk = k
      PROVE  /\ PolicyOf[k] \in LiveKeys(Policies, raw)
             /\ CustomerOf[PolicyOf[k]] \in LiveKeys(Customers, raw)
             /\ PetOf[PolicyOf[k]] \in LiveKeys(Pets, raw)
  <2>1. j.policy \in DimPolicy(raw) /\ PolicyOf[k] = j.policy.pk
    BY <1>2 DEF FctClaims
  <2> QED BY <2>1 DEF DimPolicy, LiveKeys
<1> QED BY <1>1, <1>2

\* Every claim of a policy of dim_policy joins it once: the claims of the policy
\* and its rows of fct_claims are as many.
LEMMA ClaimsCounted ==
    ASSUME raw \subseteq Record, IdsUnique(raw), IsFiniteSet(raw), NEW q \in DimPolicy(raw)
    PROVE  Cardinality({j \in FctClaims(raw, DimPolicy(raw)) : j.policy.pk = q.pk}) =
               Cardinality({c \in Live(Claims, raw) : PolicyOf[c.pk] = q.pk})
<1> DEFINE S == {c \in Live(Claims, raw) : PolicyOf[c.pk] = q.pk}
           T == {j \in FctClaims(raw, DimPolicy(raw)) : j.policy.pk = q.pk}
           f == [c \in S |-> [claim |-> c, policy |-> q]]
<1>1. IsFiniteSet(S)
  <2>1. S \in SUBSET raw
    BY DEF Live, Current
  <2> QED BY <2>1, FS_Subset
<1>2. f \in [S -> T]
  BY DEF FctClaims
<1>3. ASSUME NEW j \in T PROVE \E c \in S : f[c] = j
  <2>1. /\ j \in [claim : Live(Claims, raw), policy : DimPolicy(raw)]
        /\ PolicyOf[j.claim.pk] = j.policy.pk /\ j.policy.pk = q.pk
    BY DEF FctClaims
  <2>2. j.policy = q
    BY <2>1, DimSelectUnique DEF OnePerPolicy
  <2>3. j.claim \in S /\ j = [claim |-> j.claim, policy |-> q]
    BY <2>1, <2>2
  <2> QED BY <2>3
<1>4. \A c, d \in S : f[c] = f[d] => c = d
  OBVIOUS
<1>5. f \in Bijection(S, T)
  BY <1>2, <1>3, <1>4 DEF Bijection, Injection, Surjection, IsInjective
<1>6. ExistsBijection(S, T)
  BY <1>5 DEF ExistsBijection
<1> QED BY <1>1, <1>6, FS_Bijection

\* The two ways of counting the claims of a policy agree on one RAW.
LEMMA CountsAgree ==
    ASSUME raw \subseteq Record, IdsUnique(raw), IsFiniteSet(raw), NEW p
    PROVE  LET claims == Cardinality({j \in FctClaims(raw, DimPolicy(raw)) : j.policy.pk = p})
           IN  \/ \E m \in PolicyMetrics(raw) : m.policy.pk = p /\ m.claimCount = claims
               \/ claims = 0 /\ \A m \in PolicyMetrics(raw) : m.policy.pk # p
<1> DEFINE rows == {j \in FctClaims(raw, DimPolicy(raw)) : j.policy.pk = p}
           Count(x) == Cardinality({c \in Live(Claims, raw) : PolicyOf[c.pk] = x.pk})
<1>1. PolicyMetrics(raw) = {[policy |-> x, claimCount |-> Count(x)] : x \in DimPolicy(raw)}
  BY DEF PolicyMetrics, DimPolicy
<1>2. CASE \E q \in DimPolicy(raw) : q.pk = p
  <2>1. PICK q \in DimPolicy(raw) : q.pk = p
    BY <1>2
  <2>2. Cardinality(rows) = Count(q)
    BY <2>1, ClaimsCounted
  <2> HIDE DEF rows, Count
  <2>3. [policy |-> q, claimCount |-> Count(q)] \in PolicyMetrics(raw)
    BY <1>1
  <2>4. \E m \in PolicyMetrics(raw) : m.policy.pk = p /\ m.claimCount = Cardinality(rows)
    BY <2>1, <2>2, <2>3
  <2> QED BY <2>4 DEF rows
<1>3. CASE \A q \in DimPolicy(raw) : q.pk # p
  <2>1. rows = {}
    BY <1>3 DEF FctClaims
  <2>2. Cardinality(rows) = 0
    BY <2>1, FS_EmptySet
  <2>3. \A m \in PolicyMetrics(raw) : m.policy.pk # p
    <3> HIDE DEF Count
    <3> QED BY <1>1, <1>3
  <2> QED BY <2>2, <2>3
<1> QED BY <1>2, <1>3

\* With one build at a time, fct_claims and the portfolio count the same claims for
\* every policy once a build succeeded during which nothing was appended, although
\* one joins a table and the other views (fct_claims.sql,
\* mart_portfolio_performance.sql).
THEOREM MartsAlwaysAgree ==
    ASSUME MaxActive = 1
    PROVE  Spec => []MartsAgree
<1>1. IInv /\ FreshInv => MartsAgree
  <2> SUFFICES ASSUME IInv, FreshInv, NEW b \in Builds,
                      pc[b] = "succeeded", raw = began[b], NEW p \in Policies
               PROVE  LET claims == Cardinality({j \in fct : j.policy.pk = p})
                      IN  \/ \E m \in portfolio : m.policy.pk = p /\ m.claimCount = claims
                          \/ claims = 0 /\ \A m \in portfolio : m.policy.pk # p
    BY DEF MartsAgree
  <2>1. raw \subseteq Record /\ IdsUnique(raw) /\ IsFiniteSet(raw)
    BY DEF IInv, TypeOK, IdsUnique
  <2>2. fct = FctClaims(raw, DimPolicy(raw)) /\ portfolio = PolicyMetrics(raw)
    BY FreshMarts
  <2> QED BY <2>1, <2>2, CountsAgree
<1> QED BY <1>1, FreshAlways, PTL

\* With one build at a time, a claim that is not deleted is missing from fct_claims,
\* once a build succeeded during which nothing was appended, exactly when its
\* policy, or the customer or the pet of that policy, is deleted or has not arrived
\* (the inner joins of dim_policy.sql with live customers and pets, and that of
\* fct_claims.sql with dim_policy).
THEOREM DropsAlwaysExplained ==
    ASSUME MaxActive = 1
    PROVE  Spec => []DropsExplained
<1>1. FreshInv => DropsExplained
  BY FreshMarts, DropsOfFresh DEF DropsExplained
<1> QED BY <1>1, FreshAlways, PTL

-----------------------------------------------------------------------------
(* The history of customers.                                                *)

\* updated_at and then raw_record_id order the records of a key: no two tie.
LEMMA NewerOrder ==
    ASSUME NEW r \in Record, NEW s \in Record, NEW t \in Record
    PROVE  /\ r.rid # s.rid => Newer(r, s) \/ Newer(s, r)
           /\ ~(Newer(r, s) /\ Newer(s, r))
           /\ Newer(r, s) /\ Newer(s, t) => Newer(r, t)
           /\ Newer(r, s) => s.at <= r.at
<1>1. /\ r.at \in Nat /\ r.rid \in Nat
      /\ s.at \in Nat /\ s.rid \in Nat
      /\ t.at \in Nat /\ t.rid \in Nat
  BY RecordFields
<1> QED BY <1>1 DEF Newer

\* What the history is made from: any finite number of records with their own ids.
Sound(rows) == rows \subseteq Record /\ IsFiniteSet(rows) /\ IdsUnique(rows)

\* Records with their own ids have a newest one, by timestamp and then by id.
LEMMA NewestRow ==
    ASSUME NEW rows, Sound(rows), rows # {}
    PROVE  \E r \in rows : \A s \in rows : r = s \/ Newer(r, s)
<1> DEFINE R == {p \in rows \X rows : Newer(p[1], p[2])}
<1>1. \A r, s \in rows : <<r, s>> \in R <=> Newer(r, s)
  OBVIOUS
<1> HIDE DEF R
<1>2. \A r, s \in rows : r = s \/ <<r, s>> \in R \/ <<s, r>> \in R
  BY <1>1, NewerOrder DEF Sound, IdsUnique
<1>3. \A r, s, t \in rows : <<r, s>> \in R /\ <<s, t>> \in R => <<r, t>> \in R
  BY <1>1, NewerOrder DEF Sound
<1>4. IsFiniteSet(rows)
  BY DEF Sound
<1>5. \E r \in rows : \A s \in rows : r = s \/ <<r, s>> \in R
  BY <1>2, <1>3, <1>4, FirstOfFinite
<1> QED BY <1>1, <1>5

\* And an oldest one.
LEMMA OldestRow ==
    ASSUME NEW rows, Sound(rows), rows # {}
    PROVE  \E r \in rows : \A s \in rows : r = s \/ Newer(s, r)
<1> DEFINE R == {p \in rows \X rows : Newer(p[2], p[1])}
<1>1. \A r, s \in rows : <<r, s>> \in R <=> Newer(s, r)
  OBVIOUS
<1> HIDE DEF R
<1>2. \A r, s \in rows : r = s \/ <<r, s>> \in R \/ <<s, r>> \in R
  BY <1>1, NewerOrder DEF Sound, IdsUnique
<1>3. \A r, s, t \in rows : <<r, s>> \in R /\ <<s, t>> \in R => <<r, t>> \in R
  BY <1>1, NewerOrder DEF Sound
<1>4. IsFiniteSet(rows)
  BY DEF Sound
<1>5. \E r \in rows : \A s \in rows : r = s \/ <<r, s>> \in R
  BY <1>2, <1>3, <1>4, FirstOfFinite
<1> QED BY <1>1, <1>5

\* A part of such records is of the same kind.
LEMMA SoundPart ==
    ASSUME NEW rows, Sound(rows), NEW part \in SUBSET rows
    PROVE  Sound(part)
BY FS_Subset DEF Sound, IdsUnique

\* s is the next version of the key of r.
NextVersion(s, r, rows) ==
    s \in Following(r, rows) /\ \A t \in Following(r, rows) : t = s \/ Newer(t, s)

\* lead() finds the next version when there is one.
LEMMA LeadIsNext ==
    ASSUME NEW rows, Sound(rows), NEW r \in rows
    PROVE  /\ \A s : s \in Lead(r, rows) <=> NextVersion(s, r, rows)
           /\ Following(r, rows) # {} => \E s : NextVersion(s, r, rows)
           /\ \A s, t : NextVersion(s, r, rows) /\ NextVersion(t, r, rows) => s = t
<1>1. Following(r, rows) \in SUBSET rows /\ Sound(Following(r, rows))
  BY SoundPart DEF Following
<1>2. \A s \in rows : s \in Record
  BY DEF Sound
<1>3. \A s, t \in Following(r, rows) : s \in Following(t, rows) <=> Newer(s, t)
  BY DEF Following
<1>4. ASSUME NEW s, s \in Following(r, rows)
      PROVE  s \in Lead(r, rows) <=> NextVersion(s, r, rows)
  <2>1. \A t \in Following(r, rows) : ~Newer(s, t) <=> t = s \/ Newer(t, s)
    BY <1>1, <1>2, <1>4, NewerOrder DEF Sound, IdsUnique
  <2> QED BY <1>3, <1>4, <2>1 DEF Lead, NextVersion
<1>5. Following(r, rows) # {} => \E s : NextVersion(s, r, rows)
  BY <1>1, OldestRow DEF NextVersion
<1>6. ASSUME NEW s, NEW t, NextVersion(s, r, rows), NextVersion(t, r, rows) PROVE s = t
  BY <1>1, <1>2, <1>6, NewerOrder DEF NextVersion
<1> QED BY <1>4, <1>5, <1>6 DEF Lead, NextVersion

\* effective_to of a version among the versions of all keys.
EndsAt(r, to, rows) ==
    \/ Following(r, rows) = {} /\ to = None
    \/ \E s : NextVersion(s, r, rows) /\ to = s.at

CustomerRows(rows) == {c \in rows : c.pk \in Customers}

\* Each version of a customer is one row of the history, and each row is one.
LEMMA HistoryRows ==
    ASSUME NEW rows, Sound(rows), NEW p
    PROVE  p \in CustomerVersions(rows) <=>
               \E r \in CustomerRows(rows) : \E to :
                   p = [record |-> r, to |-> to] /\ EndsAt(r, to, CustomerRows(rows))
<1> DEFINE versions == CustomerRows(rows)
           open == {[record |-> r, to |-> None] : r \in {v \in versions : Lead(v, versions) = {}}}
           ended(r) == {[record |-> r, to |-> s.at] : s \in Lead(r, versions)}
<1>1. p \in CustomerVersions(rows) <=> p \in open \/ \E r \in versions : p \in ended(r)
  BY DEF CustomerVersions, CustomerRows
<1>2. Sound(versions)
  BY SoundPart DEF CustomerRows
<1> HIDE DEF versions
<1>3. ASSUME NEW r \in versions PROVE Lead(r, versions) = {} <=> Following(r, versions) = {}
  BY <1>2, LeadIsNext DEF Lead
<1>4. ASSUME NEW r \in versions, NEW s
      PROVE  s \in Lead(r, versions) <=> NextVersion(s, r, versions)
  BY <1>2, LeadIsNext
<1>5. ASSUME p \in CustomerVersions(rows)
      PROVE  \E r \in versions : \E to :
                 p = [record |-> r, to |-> to] /\ EndsAt(r, to, versions)
  <2>1. CASE \E r \in versions : p = [record |-> r, to |-> None] /\ Lead(r, versions) = {}
    BY <1>3, <2>1 DEF EndsAt
  <2>2. CASE \E r \in versions : \E s \in Lead(r, versions) : p = [record |-> r, to |-> s.at]
    <3>1. PICK r \in versions : \E s \in Lead(r, versions) : p = [record |-> r, to |-> s.at]
      BY <2>2
    <3>2. PICK s \in Lead(r, versions) : p = [record |-> r, to |-> s.at]
      BY <3>1
    <3>3. EndsAt(r, s.at, versions)
      BY <1>4 DEF EndsAt
    <3> QED BY <3>2, <3>3
  <2> QED BY <1>1, <1>5, <2>1, <2>2
<1>6. ASSUME NEW r \in versions, NEW to, p = [record |-> r, to |-> to], EndsAt(r, to, versions)
      PROVE  p \in CustomerVersions(rows)
  <2>1. CASE Following(r, versions) = {} /\ to = None
    BY <1>1, <1>3, <1>6, <2>1
  <2>2. ASSUME NEW s, NextVersion(s, r, versions), to = s.at PROVE p \in CustomerVersions(rows)
    <3>1. s \in Lead(r, versions)
      BY <1>4, <2>2
    <3>2. p \in ended(r)
      BY <1>6, <2>2, <3>1
    <3> QED BY <1>1, <3>2
  <2> QED BY <1>6, <2>1, <2>2 DEF EndsAt
<1> QED BY <1>5, <1>6 DEF versions

RowsOf(k, rows) == {c \in rows : c.pk = k}
Periods(k, table) == {p \in table : p.record.pk = k}

\* What the history says of one customer.
LEMMA PeriodsOfKey ==
    ASSUME NEW rows, Sound(rows), NEW k \in Customers
    PROVE  LET mine    == RowsOf(k, rows)
               periods == Periods(k, CustomerVersions(rows))
           IN  /\ \A p \in periods : p.record \in mine
               /\ \A r \in mine : \E p \in periods : p.record = r
               /\ \A p, q \in periods : p.record = q.record => p = q
               /\ \A p \in periods : p.to = None <=> \A s \in mine : ~Newer(s, p.record)
               /\ \A p \in periods : p.to # None =>
                    \E s \in mine :
                        /\ Newer(s, p.record) /\ p.to = s.at
                        /\ \A t \in mine : Newer(t, p.record) => t = s \/ Newer(t, s)
<1> DEFINE versions == CustomerRows(rows)
           mine     == RowsOf(k, rows)
           periods  == Periods(k, CustomerVersions(rows))
<1>1. Sound(versions) /\ mine \subseteq versions /\ Sound(mine)
  BY SoundPart DEF CustomerRows, RowsOf
<1>2. ASSUME NEW r \in mine
      PROVE  \A s : s \in Following(r, versions) <=> s \in mine /\ Newer(s, r)
  BY DEF Following, CustomerRows, RowsOf
<1>3. \A p : p \in CustomerVersions(rows) <=>
          \E r \in versions : \E to : p = [record |-> r, to |-> to] /\ EndsAt(r, to, versions)
  BY HistoryRows
<1>4. ASSUME NEW p \in periods
      PROVE  /\ p = [record |-> p.record, to |-> p.to]
             /\ p.record \in mine /\ EndsAt(p.record, p.to, versions)
  <2>1. p \in CustomerVersions(rows) /\ p.record.pk = k
    BY DEF Periods
  <2>2. PICK r \in versions : \E to : p = [record |-> r, to |-> to] /\ EndsAt(r, to, versions)
    BY <1>3, <2>1
  <2>3. PICK to : p = [record |-> r, to |-> to] /\ EndsAt(r, to, versions)
    BY <2>2
  <2>4. r \in mine
    BY <2>1, <2>3 DEF RowsOf, CustomerRows
  <2> QED BY <2>3, <2>4
<1>5. ASSUME NEW r \in mine PROVE \E p \in periods : p.record = r
  <2>1. \E to : EndsAt(r, to, versions)
    BY <1>1, LeadIsNext DEF EndsAt
  <2>2. PICK to : EndsAt(r, to, versions)
    BY <2>1
  <2>3. [record |-> r, to |-> to] \in CustomerVersions(rows)
    BY <1>1, <1>3, <2>2
  <2> QED BY <2>3 DEF Periods, RowsOf
<1>6. ASSUME NEW p \in periods, NEW q \in periods, p.record = q.record PROVE p = q
  <2>1. p.to = q.to
    <3>1. p.record \in versions
      BY <1>1, <1>4
    <3>2. EndsAt(p.record, p.to, versions) /\ EndsAt(p.record, q.to, versions)
      BY <1>4, <1>6
    <3> QED BY <1>1, <3>1, <3>2, LeadIsNext DEF EndsAt, NextVersion
  <2> QED BY <1>4, <1>6, <2>1
<1>7. ASSUME NEW p \in periods
      PROVE  \/ p.to = None /\ \A s \in mine : ~Newer(s, p.record)
             \/ \E s \in mine : /\ Newer(s, p.record) /\ p.to = s.at
                                /\ \A t \in mine : Newer(t, p.record) => t = s \/ Newer(t, s)
  BY <1>2, <1>4 DEF EndsAt, NextVersion
<1>8. \A s \in mine : s.at # None
  BY <1>1, RecordFields, NoneApart DEF Sound
<1> HIDE DEF mine, periods
<1>9. /\ \A p \in periods : p.to = None <=> \A s \in mine : ~Newer(s, p.record)
      /\ \A p \in periods : p.to # None =>
           \E s \in mine : /\ Newer(s, p.record) /\ p.to = s.at
                           /\ \A t \in mine : Newer(t, p.record) => t = s \/ Newer(t, s)
  BY <1>7, <1>8
<1> QED BY <1>4, <1>5, <1>6, <1>9 DEF mine, periods

\* The history of one customer has one row without an end, the last one, and one
\* row in force whenever a row begins: the row of the newest version by then.
LEMMA TimelineOfKey ==
    ASSUME NEW rows, Sound(rows), NEW k \in Customers,
           Periods(k, CustomerVersions(rows)) # {}
    PROVE  LET periods == Periods(k, CustomerVersions(rows))
           IN  /\ Cardinality({p \in periods : p.to = None}) = 1
               /\ \A p, q \in periods : q.to = None => p.record.at <= q.record.at
               /\ \A p \in periods :
                    Cardinality({q \in periods : /\ q.record.at <= p.record.at
                                                 /\ q.to = None \/ p.record.at < q.to}) = 1
<1> DEFINE mine    == RowsOf(k, rows)
           periods == Periods(k, CustomerVersions(rows))
<1>1. Sound(mine)
  BY SoundPart DEF RowsOf
<1>2. \A r \in mine : r \in Record /\ r.at \in Nat
  BY <1>1, RecordFields DEF Sound
<1>3. /\ \A p \in periods : p.record \in mine
      /\ \A r \in mine : \E p \in periods : p.record = r
      /\ \A p, q \in periods : p.record = q.record => p = q
      /\ \A p \in periods : p.to = None <=> \A s \in mine : ~Newer(s, p.record)
  BY PeriodsOfKey
<1>4. \A p \in periods : p.to # None =>
          \E s \in mine : /\ Newer(s, p.record) /\ p.to = s.at
                          /\ \A t \in mine : Newer(t, p.record) => t = s \/ Newer(t, s)
  BY PeriodsOfKey
<1>5. periods # {}
  OBVIOUS
<1> HIDE DEF mine, periods
<1>6. PICK n \in mine : \A s \in mine : n = s \/ Newer(n, s)
  BY <1>1, <1>3, <1>5, NewestRow
<1>7. PICK last \in periods : last.record = n
  BY <1>3
<1>8. ASSUME NEW q \in periods PROVE q.to = None <=> q = last
  <2>1. n \in Record /\ q.record \in Record /\ q.record \in mine
    BY <1>3, <1>2
  <2>2. q.to = None => q.record = n
    BY <1>3, <1>6, <2>1
  <2>3. last.to = None
    BY <1>3, <1>6, <1>7, <1>2, NewerOrder
  <2> QED BY <1>3, <1>7, <2>2, <2>3
<1>9. Cardinality({p \in periods : p.to = None}) = 1
  <2>1. {p \in periods : p.to = None} = {last}
    BY <1>8
  <2> QED BY <2>1, FS_Singleton
<1>10. \A p, q \in periods : q.to = None => p.record.at <= q.record.at
  BY <1>3, <1>6, <1>7, <1>8, <1>2, NewerOrder
<1>11. ASSUME NEW p \in periods
      PROVE  Cardinality({q \in periods : /\ q.record.at <= p.record.at
                                          /\ q.to = None \/ p.record.at < q.to}) = 1
  <2> DEFINE t == p.record.at
             begun == {r \in mine : r.at <= t}
             inForce == {q \in periods : q.record.at <= t /\ (q.to = None \/ t < q.to)}
  <2>1. t \in Nat /\ p.record \in begun /\ Sound(begun)
    <3>1. begun \in SUBSET mine
      OBVIOUS
    <3>2. Sound(begun)
      BY <1>1, <3>1, SoundPart
    <3> QED BY <1>3, <1>2, <3>2
  <2>2. \A r : r \in begun <=> r \in mine /\ r.at <= t
    OBVIOUS
  <2> HIDE DEF begun
  <2>3. PICK g \in begun : \A s \in begun : g = s \/ Newer(g, s)
    BY <2>1, NewestRow
  <2> HIDE DEF t
  <2>4. PICK now \in periods : now.record = g
    BY <1>3, <2>2
  <2>5. now \in inForce
    <3>1. CASE now.to = None
      BY <2>4, <2>2, <3>1
    <3>2. CASE now.to # None
      <4>1. PICK s \in mine : Newer(s, g) /\ now.to = s.at
        BY <1>4, <2>4, <3>2
      <4>2. s \notin begun
        BY <1>2, <2>3, <2>2, <4>1, NewerOrder
      <4>3. t < s.at
        BY <1>2, <2>1, <2>2, <4>2
      <4> QED BY <2>4, <2>2, <4>1, <4>3
    <3> QED BY <2>4, <2>2, <3>1, <3>2
  <2>6. ASSUME NEW q \in inForce PROVE q = now
    <3>1. q.record \in begun
      BY <1>3, <2>2
    <3>2. CASE q.record = g
      BY <1>3, <2>4, <3>2
    <3>3. CASE Newer(g, q.record)
      <4>1. PICK s \in mine : /\ q.to = s.at
                              /\ \A u \in mine : Newer(u, q.record) => u = s \/ Newer(u, s)
        BY <1>3, <1>4, <2>2, <3>3
      <4>2. g = s \/ Newer(g, s)
        BY <2>2, <3>3, <4>1
      <4>3. s.at <= g.at /\ g.at <= t
        BY <1>2, <2>2, <4>2, NewerOrder
      <4>4. t < s.at
        BY <1>2, <2>1, <4>1, NoneApart
      <4> QED BY <1>2, <2>1, <2>2, <4>3, <4>4
    <3> QED BY <2>3, <3>1, <3>2, <3>3
  <2>7. inForce = {now}
    BY <2>5, <2>6
  <2>8. Cardinality(inForce) = 1
    BY <2>7, FS_Singleton
  <2> QED BY <2>8 DEF t
<1> QED BY <1>9, <1>10, <1>11 DEF periods

\* dim_customer_scd2, and what a statement read for it, is the history of some
\* records that RAW held.
History(table) == \E rows : Sound(rows) /\ table = CustomerVersions(rows)

HistoryInv ==
    /\ History(scd2)
    /\ \A b \in Builds : InFlight(b, "scd2") => History(read[b]["scd2"])

LEMMA HistoryInit == Init => HistoryInv
<1>1. Sound({})
  BY FS_EmptySet DEF Sound, IdsUnique
<1>2. CustomerVersions({}) = {}
  BY DEF CustomerVersions
<1> QED BY <1>1, <1>2 DEF Init, HistoryInv, History, InFlight

\* Every statement leaves in the history table the versions of some records of RAW.
LEMMA HistoryStep ==
    ASSUME IInv, HistoryInv, [Next]_vars
    PROVE  HistoryInv'
<1>0. ASSUME NEW table PROVE History(table)' <=> History(table)
  BY DEF History
<1>1. ASSUME UNCHANGED scd2,
             \A b \in Builds : read'[b]["scd2"] \in {read[b]["scd2"], None}
      PROVE  HistoryInv'
  BY <1>1 DEF HistoryInv, InFlight, History
<1>2. CASE Append
  BY <1>1, <1>2 DEF Append, tables, build
<1>3. ASSUME NEW b \in Builds, Begin(b) \/ TestStaging(b) \/ Fail(b) PROVE HistoryInv'
  BY <1>1, <1>3 DEF Begin, TestStaging, Fail, tables
<1>4. ASSUME NEW b \in Builds, NEW m \in Statements, StartModel(b, m) PROVE HistoryInv'
  <2>1. /\ \A c \in Builds : \/ read'[c]["scd2"] = read[c]["scd2"]
                             \/ read'[c]["scd2"] = CustomerVersions(raw)
        /\ UNCHANGED scd2
    BY <1>4 DEF StartModel, Select, tables, IInv, TypeOK
  <2>2. History(CustomerVersions(raw))
    BY DEF History, Sound, IdsUnique, IInv, TypeOK
  <2> QED BY <2>1, <2>2 DEF HistoryInv, InFlight, History
<1>5. ASSUME NEW b \in Builds, NEW m \in Statements, FinishModel(b, m) PROVE HistoryInv'
  <2>1. /\ \A c \in Builds : read'[c]["scd2"] \in {read[c]["scd2"], None}
        /\ scd2' = IF m = "scd2" THEN read[b]["scd2"] ELSE scd2
    BY <1>5 DEF FinishModel, IInv, TypeOK
  <2>2. m = "scd2" => History(read[b]["scd2"])
    BY <1>5 DEF FinishModel, HistoryInv
  <2> QED BY <2>1, <2>2 DEF HistoryInv, InFlight, History
<1>6. ASSUME NEW b \in Builds, NEW m \in Statements, Cancel(b, m) PROVE HistoryInv'
  BY <1>1, <1>6 DEF Cancel, tables, IInv, TypeOK
<1>7. CASE UNCHANGED vars
  BY <1>1, <1>7 DEF vars
<1> QED BY <1>2, <1>3, <1>4, <1>5, <1>6, <1>7 DEF Next

\* dim_customer_scd2 is a timeline of each customer: one row in force at every
\* instant, and the open one is the last, with records appended in any order, equal
\* timestamps, and builds that overlap and replace one another's table
\* (dim_customer_scd2.sql).
THEOREM Scd2AlwaysTimeline == Spec => []Scd2Timeline
<1>1. HistoryInv => Scd2Timeline
  <2> SUFFICES ASSUME HistoryInv, NEW k \in {p.record.pk : p \in scd2}
               PROVE  LET periods == Periods(k, scd2)
                          InForce(t) == {p \in periods : /\ p.record.at <= t
                                                         /\ p.to = None \/ t < p.to}
                      IN  /\ Cardinality({p \in periods : p.to = None}) = 1
                          /\ \A p, q \in periods : q.to = None => p.record.at <= q.record.at
                          /\ \A p \in periods : Cardinality(InForce(p.record.at)) = 1
    BY DEF Scd2Timeline, Periods
  <2>1. PICK rows : Sound(rows) /\ scd2 = CustomerVersions(rows)
    BY DEF HistoryInv, History
  <2>2. k \in Customers
    <3>1. PICK p \in scd2 : p.record.pk = k
      OBVIOUS
    <3>2. PICK r \in CustomerRows(rows) : \E to : p = [record |-> r, to |-> to]
      BY <2>1, <3>1, HistoryRows
    <3> QED BY <3>1, <3>2 DEF CustomerRows
  <2>3. Periods(k, scd2) # {}
    BY DEF Periods
  <2> QED BY <2>1, <2>2, <2>3, TimelineOfKey
<1> QED BY Invariance, HistoryInit, HistoryStep, <1>1, PTL DEF Spec
=============================================================================
