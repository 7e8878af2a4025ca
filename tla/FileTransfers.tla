----------------------------- MODULE FileTransfers -----------------------------
(***************************************************************************)
(* The two ways in which files carry rows: the seed generator writes one   *)
(* CSV per table, which load_seed copies into PostgreSQL in one            *)
(* transaction, and the GCP backfill exports the claims to a CSV with a    *)
(* manifest, against which the copy in Snowflake is verified.  A process   *)
(* may die anywhere, and a generation may overtake a load that is reading. *)
(*                                                                         *)
(* Rows of a table are numbered as the generator numbers them; a policy    *)
(* has the number of its pet, a payment that of its claim.  The generator  *)
(* is seeded and works customer by customer, so the rows of n customers    *)
(* are the same in every generation of at least n.  A file that was being  *)
(* written when its process died ends early; it is of no use when it has   *)
(* no header or ends inside a row, and is then modelled without rows.      *)
(***************************************************************************)
EXTENDS Integers, Sequences, FiniteSets, FiniteSetsExt

CONSTANTS
    NumCustomers,   \* most customers of a generation
    PetOwner,       \* customer of each pet, as the generator draws them
    ClaimPet,       \* pet of each claim
    Paid,           \* claims with a payment
    Drawn,          \* claim_amount of each claim
    Amounts,        \* claim amounts
    None,
    MaxStarts, MaxChanges       \* bounds: generations and exports; changes

Customers == 1..NumCustomers
Pets      == DOMAIN PetOwner
Claims    == DOMAIN ClaimPet

ASSUME CustomersNat    == NumCustomers \in Nat
ASSUME NumbersNat      == Pets \subseteq Nat /\ Claims \subseteq Nat
ASSUME ClaimsFinite    == IsFiniteSet(Claims)
ASSUME OwnersTyped     == PetOwner \in [Pets -> Customers] /\ ClaimPet \in [Claims -> Pets]
ASSUME PaidAreClaims   == Paid \subseteq Claims
ASSUME AmountsNat      == Amounts \subseteq Nat /\ Drawn \in [Claims -> Amounts]
ASSUME NoneIsNoNumber  == None \notin Nat
ASSUME TransfersBounds == MaxStarts \in Nat /\ MaxChanges \in Nat

\* Mutant of TableOrder: policies before the pets they refer to.
PoliciesFirst == <<"customers", "policies", "pets", "claims", "claim_payments">>

\* TABLE_ORDER, and the order of the generator's datasets.
TableOrder == <<"customers", "pets", "policies", "claims", "claim_payments">>

Tables == {"customers", "pets", "policies", "claims", "claim_payments"}

\* Row numbers of a table.
Numbers(t) ==
    CASE t = "customers" -> Customers
      [] t \in {"pets", "policies"} -> Pets
      [] t = "claims" -> Claims
      [] t = "claim_payments" -> Paid

\* The customer a row belongs to.
CustomerOf(t, r) ==
    CASE t = "customers" -> r
      [] t \in {"pets", "policies"} -> PetOwner[r]
      [] t \in {"claims", "claim_payments"} -> PetOwner[ClaimPet[r]]

\* generate: the rows of a table for n customers.
Rows(t, n) == {r \in Numbers(t) : CustomerOf(t, r) <= n}

\* Foreign keys: the rows a row refers to.
Parents(t, r) ==
    CASE t = "customers" -> {}
      [] t = "pets" -> {<<"customers", PetOwner[r]>>}
      [] t = "policies" -> {<<"customers", PetOwner[r]>>, <<"pets", r>>}
      [] t = "claims" -> {<<"policies", ClaimPet[r]>>, <<"pets", ClaimPet[r]>>}
      [] t = "claim_payments" -> {<<"claims", r>>}

AnyRow == Customers \cup Pets \cup Claims

\* What a table may hold.
TableRows ==
    {held \in [Tables -> SUBSET AnyRow] : \A t \in Tables : held[t] \subseteq Numbers(t)}

Claim == [id : Claims, amount : Amounts]

FileOver(S) == [rows : SUBSET S, usable : BOOLEAN]

Export == [rows : SUBSET Claim, written : BOOLEAN]

ASSUME NoneIsNoRecord ==
    None \notin Export /\ None \notin FileOver(Claim) /\ None \notin FileOver(AnyRow)

Unusable == [rows |-> {}, usable |-> FALSE]

VARIABLES
    files,      \* the seed directory
    gen,        \* the generation under way: its customers, its file
    gens,       \* generations begun
    whole,      \* ghost: customers of the generation that left files complete
    db,         \* PostgreSQL: rows of each table
    amount,     \* claim_amount of each claim
    loader,     \* the load under way: its table, its transaction; ghosts from, at
    export,     \* the export under way: its rows, is the CSV written?
    exports,    \* exports begun
    interrupted,    \* ghost: did the last export die?
    csv, manifest,  \* the exported files; a manifest has its rows for its sums
    loaded,     \* CLAIMS_BACKFILL in Snowflake
    changes     \* changes of amounts

seedVars   == <<files, gen, gens, whole>>
sourceVars == <<db, amount, loader>>
exportVars == <<export, exports, interrupted, csv, manifest>>
vars == <<seedVars, sourceVars, exportVars, loaded, changes>>

TypeOK ==
    /\ files \in [Tables -> FileOver(AnyRow) \cup {None}]
    /\ \A t \in Tables : files[t] # None => files[t].rows \subseteq Numbers(t)
    /\ gen \in [n : 0..NumCustomers, pos : 1..Len(TableOrder)] \cup {None}
    /\ gens \in 0..MaxStarts
    /\ whole \in 0..NumCustomers \cup {None}
    /\ db \in TableRows /\ amount \in [Claims -> Amounts]
    /\ loader \in [pos : 1..Len(TableOrder), tx : TableRows,
                   from : 0..NumCustomers \cup {None}, at : 0..MaxStarts] \cup {None}
    /\ export \in Export \cup {None}
    /\ exports \in 0..MaxStarts /\ interrupted \in BOOLEAN
    /\ csv \in FileOver(Claim) \cup {None} /\ manifest \in FileOver(Claim) \cup {None}
    /\ loaded \in (SUBSET Claim) \cup {None}
    /\ changes \in 0..MaxChanges

Empty == [t \in Tables |-> {}]

Init ==
    /\ files = [t \in Tables |-> None]
    /\ gen = None /\ gens = 0 /\ whole = None
    /\ db = Empty /\ amount = Drawn /\ loader = None
    /\ export = None /\ exports = 0 /\ interrupted = FALSE
    /\ csv = None /\ manifest = None /\ loaded = None
    /\ changes = 0

-----------------------------------------------------------------------------
(* generate_seed.py: all rows are drawn, then written file by file.         *)

\* _write; a table without rows has no field names, and its file no header.
FileOf(t, n) == [rows |-> Rows(t, n), usable |-> Rows(t, n) # {}]

\* What is left of a file whose writing ends early.
TornFiles(t, n) ==
    {Unusable} \cup {[rows |-> {r \in Rows(t, n) : r < next}, usable |-> TRUE] :
                        next \in Rows(t, n)}

BeginGenerate ==
    /\ gen = None /\ gens + exports < MaxStarts
    /\ \E n \in 0..NumCustomers : gen' = [n |-> n, pos |-> 1]
    /\ gens' = gens + 1 /\ whole' = None
    /\ UNCHANGED <<files, sourceVars, exportVars, loaded, changes>>

\* Mutant of IsLast: the loop over the tables ends one too late.
PastLast(pos) == pos > Len(TableOrder)

IsLast(pos) == pos = Len(TableOrder)

WriteFile ==
    /\ gen # None
    /\ LET t == TableOrder[gen.pos]
       IN  files' = [files EXCEPT ![t] = FileOf(t, gen.n)]
    /\ IF IsLast(gen.pos)
       THEN gen' = None /\ whole' = gen.n
       ELSE gen' = [gen EXCEPT !.pos = @ + 1] /\ UNCHANGED whole
    /\ UNCHANGED <<gens, sourceVars, exportVars, loaded, changes>>

\* Before or while the file is written.
GeneratorDies ==
    /\ gen # None
    /\ LET t == TableOrder[gen.pos]
       IN  \E f \in TornFiles(t, gen.n) \cup {files[t]} : files' = [files EXCEPT ![t] = f]
    /\ gen' = None
    /\ UNCHANGED <<gens, whole, sourceVars, exportVars, loaded, changes>>

-----------------------------------------------------------------------------
(* load_seed.py: one transaction over the five files.                       *)

\* The ghosts: the generation the files are of, if the source is still empty.
BeginLoad ==
    /\ loader = None
    /\ loader' = [pos |-> 1, tx |-> db, from |-> IF db = Empty THEN whole ELSE None,
                  at |-> gens]
    /\ UNCHANGED <<seedVars, db, amount, exportVars, loaded, changes>>

\* COPY takes the file of the loader's table.
Copyable ==
    LET t == TableOrder[loader.pos]
        f == files[t]
    IN  /\ f # None /\ f.usable
        /\ f.rows \cap loader.tx[t] = {}
        /\ \A r \in f.rows : \A p \in Parents(t, r) : p[2] \in loader.tx[p[1]]

Copied ==
    LET t == TableOrder[loader.pos]
    IN  [loader.tx EXCEPT ![t] = @ \cup files[t].rows]

CopyTable ==
    /\ loader # None /\ ~IsLast(loader.pos)
    /\ Copyable
    /\ loader' = [loader EXCEPT !.pos = @ + 1, !.tx = Copied]
    /\ UNCHANGED <<seedVars, db, amount, exportVars, loaded, changes>>

\* The last table, and the commit.
LoadCommits ==
    /\ loader # None /\ IsLast(loader.pos)
    /\ Copyable
    /\ db' = Copied
    /\ amount' = [c \in Claims |-> IF c \in db["claims"] THEN amount[c] ELSE Drawn[c]]
    /\ loader' = None
    /\ UNCHANGED <<seedVars, exportVars, loaded, changes>>

\* A missing file, an empty header, a bad row, a duplicate or an orphan.
LoadRaises ==
    /\ loader # None /\ ~Copyable
    /\ loader' = None
    /\ UNCHANGED <<seedVars, db, amount, exportVars, loaded, changes>>

LoaderDies ==
    /\ loader # None
    /\ loader' = None
    /\ UNCHANGED <<seedVars, db, amount, exportVars, loaded, changes>>

\* docker compose down -v: a new, empty source.
ResetSource ==
    /\ loader = None /\ db # Empty
    /\ db' = Empty
    /\ UNCHANGED <<seedVars, amount, loader, exportVars, loaded, changes>>

\* The application changes a claim's amount, which may become zero.
ChangeAmount ==
    /\ changes < MaxChanges
    /\ \E c \in db["claims"], a \in Amounts :
         a # amount[c] /\ amount' = [amount EXCEPT ![c] = a]
    /\ changes' = changes + 1
    /\ UNCHANGED <<seedVars, db, loader, exportVars, loaded>>

-----------------------------------------------------------------------------
(* gcp_backfill_export.py, the copy through the bucket, and                 *)
(* gcp_backfill_verify.py.                                                  *)

ClaimRows == {[id |-> c, amount |-> amount[c]] : c \in db["claims"]}

BeginExport ==
    /\ export = None /\ gens + exports < MaxStarts
    /\ export' = [rows |-> ClaimRows, written |-> FALSE]
    /\ exports' = exports + 1
    /\ UNCHANGED <<seedVars, sourceVars, interrupted, csv, manifest, loaded, changes>>

WriteCsv ==
    /\ export # None /\ ~export.written
    /\ csv' = [rows |-> export.rows, usable |-> TRUE]
    /\ export' = [export EXCEPT !.written = TRUE]
    /\ UNCHANGED <<seedVars, sourceVars, exports, interrupted, manifest, loaded, changes>>

\* Mutant of ManifestRows: the sums are queried when they are needed.
QueriedAgain == ClaimRows

ManifestRows == export.rows

WriteManifest ==
    /\ export # None /\ export.written
    /\ manifest' = [rows |-> ManifestRows, usable |-> TRUE]
    /\ export' = None /\ interrupted' = FALSE
    /\ UNCHANGED <<seedVars, sourceVars, exports, csv, loaded, changes>>

\* Before or while a file is written.
ExportDies ==
    /\ export # None
    /\ export' = None /\ interrupted' = TRUE
    /\ \/ UNCHANGED <<csv, manifest>>
       \/ /\ ~export.written
          /\ csv' \in {Unusable} \cup {[rows |-> {r \in export.rows : r.id < next.id},
                                       usable |-> TRUE] : next \in export.rows}
          /\ UNCHANGED manifest
       \/ export.written /\ manifest' = Unusable /\ UNCHANGED csv
    /\ UNCHANGED <<seedVars, sourceVars, exports, loaded, changes>>

\* Upload, and snowflake_gcs_load.sql: CREATE OR REPLACE, then COPY INTO, which
\* a row that is cut aborts.
CopyInto ==
    /\ csv # None
    /\ loaded' = csv.rows
    /\ UNCHANGED <<seedVars, sourceVars, exportVars, changes>>

Total(rows) == MapThenSumSet(LAMBDA r : r.amount, rows)

\* format(sum(...), "f"): an int when there is no row, and Decimal("0") for an
\* amount that is zero, so the scale of a zero sum is not that of the column.
ManifestSum(rows) ==
    [total |-> Total(rows),
     scale |-> IF rows = {} THEN 6 ELSE IF Total(rows) = 0 THEN 0 ELSE 2]

\* COALESCE(SUM(CLAIM_AMOUNT), 0) of a NUMBER(12,2) column.
SnowflakeSum(rows) == [total |-> Total(rows), scale |-> 2]

Ids(rows) == {r.id : r \in rows}

MinId(rows) == IF rows = {} THEN None ELSE Min(Ids(rows))
MaxId(rows) == IF rows = {} THEN None ELSE Max(Ids(rows))

\* Mutant of Agree: the sums are not compared.
CountAndBoundsAgree(expected, actual) ==
    /\ Cardinality(actual) = Cardinality(expected)
    /\ MinId(actual) = MinId(expected) /\ MaxId(actual) = MaxId(expected)

\* actual == expected; sha256 is not among the keys.
Agree(expected, actual) ==
    /\ Cardinality(actual) = Cardinality(expected)
    /\ SnowflakeSum(actual) = ManifestSum(expected)
    /\ MinId(actual) = MinId(expected)
    /\ MaxId(actual) = MaxId(expected)

\* run of gcp_backfill_verify: raises, or prints PASS.  An unusable manifest is no
\* JSON.
Passes == manifest.usable /\ Agree(manifest.rows, loaded)

Next ==
    \/ BeginGenerate \/ WriteFile \/ GeneratorDies
    \/ BeginLoad \/ CopyTable \/ LoadCommits \/ LoadRaises \/ LoaderDies
    \/ ResetSource \/ ChangeAmount
    \/ BeginExport \/ WriteCsv \/ WriteManifest \/ ExportDies
    \/ CopyInto

Spec == Init /\ [][Next]_vars

-----------------------------------------------------------------------------
(* Properties.                                                              *)

\* The load began on an empty source after a generation that left its files
\* complete, and no generation has begun since.
Undisturbed == loader # None /\ loader.from # None /\ loader.at = gens

\* Such a load leaves exactly the rows of that generation, and raises only when
\* the generation drew no row of some table: TABLE_ORDER suits the foreign keys
\* for every number of customers and whatever else the source went through.
FreshSeedLoads ==
    [][Undisturbed =>
        /\ LoadCommits => db' = [t \in Tables |-> Rows(t, loader.from)]
        /\ LoadRaises => \E t \in Tables : Rows(t, loader.from) = {}]_vars

\* Unless the last export died, the CSV on disk holds the rows the manifest next
\* to it summarises, whatever changed in PostgreSQL while they were written.
ManifestMatchesCsv ==
    export = None /\ ~interrupted => csv = manifest

\* Verification passes exactly when the manifest is readable, the copy has the
\* count, total and id bounds of the manifest's rows, and some amount is not
\* zero: after a transfer that lost nothing it fails when no amount is positive,
\* and it never passes a copy that differs in these numbers, stale manifests of
\* interrupted exports included.
PassesExplained ==
    manifest # None /\ loaded # None =>
        (Passes <=>
            /\ manifest.usable
            /\ Cardinality(manifest.rows) = Cardinality(loaded)
            /\ Total(manifest.rows) = Total(loaded)
            /\ \A c \in Claims :
                 /\ (\E r \in manifest.rows : r.id <= c) <=> (\E r \in loaded : r.id <= c)
                 /\ (\E r \in manifest.rows : r.id >= c) <=> (\E r \in loaded : r.id >= c)
            /\ \E r \in manifest.rows : r.amount # 0)
=============================================================================
