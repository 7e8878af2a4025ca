-------------------------- MODULE FileTransfers_proofs --------------------------
(***************************************************************************)
(* Theorems about FileTransfers, for any number of customers and any rows  *)
(* the generator may draw for them.                                        *)
(***************************************************************************)
EXTENDS FileTransfers, DataInduction

USE CustomersNat, NumbersNat, OwnersTyped, PaidAreClaims, AmountsNat, NoneIsNoNumber,
    NoneIsNoRecord, TransfersBounds

-----------------------------------------------------------------------------
(* Tables and their order.                                                  *)

\* TABLE_ORDER names every table once.
LEMMA OrderFacts ==
    /\ Len(TableOrder) = 5
    /\ TableOrder[1] = "customers" /\ TableOrder[2] = "pets" /\ TableOrder[3] = "policies"
    /\ TableOrder[4] = "claims" /\ TableOrder[5] = "claim_payments"
    /\ \A i \in 1..5 : TableOrder[i] \in Tables
    /\ \A i, j \in 1..5 : TableOrder[i] = TableOrder[j] => i = j
    /\ \A t \in Tables : \E i \in 1..5 : t = TableOrder[i]
BY DEF TableOrder, Tables

\* The rows of a table are numbered by it.
LEMMA RowsTyped ==
    ASSUME NEW t \in Tables, NEW n
    PROVE  Rows(t, n) \subseteq Numbers(t) /\ Numbers(t) \subseteq AnyRow
BY DEF Rows, Numbers, Tables, AnyRow

\* Every parent of a row of n customers is such a row, of a table before it.
LEMMA ParentsEarlier ==
    ASSUME NEW i \in 1..5, NEW n \in 0..NumCustomers, NEW r \in Rows(TableOrder[i], n),
           NEW p \in Parents(TableOrder[i], r)
    PROVE  \E j \in 1..5 : j < i /\ p[1] = TableOrder[j] /\ p[2] \in Rows(TableOrder[j], n)
<1>1. CASE i = 1
    BY <1>1, OrderFacts DEF Parents
<1>2. CASE i = 2
    <2>1. p = <<"customers", PetOwner[r]>> /\ r \in Pets /\ PetOwner[r] <= n
        BY <1>2, OrderFacts DEF Parents, Rows, Numbers, CustomerOf
    <2>2. PetOwner[r] \in Rows("customers", n)
        BY <2>1 DEF Rows, Numbers, CustomerOf
    <2> QED BY <1>2, <2>1, <2>2, OrderFacts
<1>3. CASE i = 3
    <2>1. r \in Pets /\ PetOwner[r] <= n
        BY <1>3, OrderFacts DEF Rows, Numbers, CustomerOf
    <2>2. p = <<"customers", PetOwner[r]>> \/ p = <<"pets", r>>
        BY <1>3, OrderFacts DEF Parents
    <2>3. PetOwner[r] \in Rows("customers", n) /\ r \in Rows("pets", n)
        BY <2>1 DEF Rows, Numbers, CustomerOf
    <2> QED BY <1>3, <2>2, <2>3, OrderFacts
<1>4. CASE i = 4
    <2>1. r \in Claims /\ PetOwner[ClaimPet[r]] <= n
        BY <1>4, OrderFacts DEF Rows, Numbers, CustomerOf
    <2>2. p = <<"policies", ClaimPet[r]>> \/ p = <<"pets", ClaimPet[r]>>
        BY <1>4, OrderFacts DEF Parents
    <2>3. ClaimPet[r] \in Rows("policies", n) /\ ClaimPet[r] \in Rows("pets", n)
        BY <2>1 DEF Rows, Numbers, CustomerOf
    <2> QED BY <1>4, <2>2, <2>3, OrderFacts
<1>5. CASE i = 5
    <2>1. r \in Paid /\ PetOwner[ClaimPet[r]] <= n /\ p = <<"claims", r>>
        BY <1>5, OrderFacts DEF Parents, Rows, Numbers, CustomerOf
    <2>2. r \in Rows("claims", n)
        BY <2>1 DEF Rows, Numbers, CustomerOf
    <2> QED BY <1>5, <2>1, <2>2, OrderFacts
<1> QED BY <1>1, <1>2, <1>3, <1>4, <1>5

-----------------------------------------------------------------------------
(* The invariant.                                                           *)

\* The files' part of TypeOK.
FilesTyped ==
    /\ files \in [Tables -> FileOver(AnyRow) \cup {None}]
    /\ \A t \in Tables : files[t] # None => files[t].rows \subseteq Numbers(t)

\* The files a generation has written are those of its customers.
WholeInv ==
    /\ whole # None => gen = None /\ \A t \in Tables : files[t] = FileOf(t, whole)
    /\ gen # None => \A i \in 1..5 : i < gen.pos =>
                       files[TableOrder[i]] = FileOf(TableOrder[i], gen.n)

\* An undisturbed load has taken the tables before its own, and no other row.
LoaderInv ==
    /\ loader # None => loader.at <= gens
    /\ Undisturbed =>
         /\ whole = loader.from
         /\ \A i \in 1..5 :
              loader.tx[TableOrder[i]] =
                  IF i < loader.pos THEN Rows(TableOrder[i], loader.from) ELSE {}

ExportInv ==
    export # None /\ export.written => csv = [rows |-> export.rows, usable |-> TRUE]

IInv == TypeOK /\ WholeInv /\ LoaderInv /\ ExportInv /\ ManifestMatchesCsv

LEMMA InitIInv == Init => IInv
<1> SUFFICES ASSUME Init PROVE IInv
    OBVIOUS
<1>1. FilesTyped
    BY DEF Init, FilesTyped
<1>2. db \in TableRows
    BY DEF Init, Empty, TableRows
<1>3. amount \in [Claims -> Amounts]
    BY DEF Init
<1>4. gens \in 0..MaxStarts /\ exports \in 0..MaxStarts /\ changes \in 0..MaxChanges
    BY DEF Init
<1>5. TypeOK
    BY <1>1, <1>2, <1>3, <1>4 DEF Init, TypeOK, FilesTyped
<1> QED BY <1>5 DEF Init, IInv, WholeInv, LoaderInv, Undisturbed, ExportInv, ManifestMatchesCsv

\* Whole and torn files have the type of a file.
LEMMA FileTyped ==
    ASSUME NEW t \in Tables, NEW n \in 0..NumCustomers, NEW f \in TornFiles(t, n) \cup {FileOf(t, n)}
    PROVE  f \in FileOver(AnyRow) /\ f # None /\ f.rows \subseteq Numbers(t)
<1>1. Rows(t, n) \subseteq AnyRow /\ Rows(t, n) \subseteq Numbers(t)
    BY RowsTyped
<1>2. f \in FileOver(AnyRow) /\ f.rows \subseteq Numbers(t)
    <2>1. CASE f = FileOf(t, n)
        BY <1>1, <2>1 DEF FileOf, FileOver
    <2>2. CASE f = Unusable
        BY <2>2 DEF Unusable, FileOver
    <2>3. CASE \E next \in Rows(t, n) :
                 f = [rows |-> {r \in Rows(t, n) : r < next}, usable |-> TRUE]
        BY <1>1, <2>3 DEF FileOver
    <2> QED BY <2>1, <2>2, <2>3 DEF TornFiles
<1> QED BY <1>2, NoneIsNoRecord

\* One file replaced by a well-typed one.
LEMMA FilesStayTyped ==
    ASSUME FilesTyped, NEW t \in Tables, NEW n \in 0..NumCustomers,
           NEW f \in TornFiles(t, n) \cup {FileOf(t, n)} \cup {files[t]},
           files' = [files EXCEPT ![t] = f]
    PROVE  FilesTyped'
<1>1. f = files[t] \/ (f \in FileOver(AnyRow) /\ f.rows \subseteq Numbers(t))
    BY FileTyped
<1> QED BY <1>1 DEF FilesTyped

LEMMA GeneratorIInv ==
    ASSUME IInv, BeginGenerate \/ WriteFile \/ GeneratorDies
    PROVE  IInv'
<1> TypeOK /\ WholeInv /\ LoaderInv
    BY DEF IInv
<1>u. UNCHANGED <<db, amount, loader, export, exports, interrupted, csv, manifest, loaded,
                  changes>>
    BY DEF BeginGenerate, WriteFile, GeneratorDies, sourceVars, exportVars
<1>e. ExportInv' /\ ManifestMatchesCsv'
    BY <1>u DEF IInv, ExportInv, ManifestMatchesCsv
<1>g. gen # None => /\ gen.n \in 0..NumCustomers /\ gen.pos \in 1..5
                    /\ TableOrder[gen.pos] \in Tables
    BY OrderFacts DEF TypeOK
<1>1. CASE BeginGenerate
    <2>1. PICK n \in 0..NumCustomers : gen' = [n |-> n, pos |-> 1]
        BY <1>1 DEF BeginGenerate
    <2>2. gens' = gens + 1 /\ whole' = None /\ UNCHANGED files /\ gens' \in 0..MaxStarts
        BY <1>1 DEF BeginGenerate, TypeOK
    <2>3. gen' \in [n : 0..NumCustomers, pos : 1..Len(TableOrder)]
        BY <2>1, OrderFacts
    <2>4. TypeOK'
        BY <1>u, <2>2, <2>3 DEF TypeOK
    <2>5. WholeInv'
        BY <2>1, <2>2 DEF WholeInv
    <2>6. LoaderInv'
        <3>1. loader # None => loader.at \in Nat /\ gens \in Nat
            BY DEF TypeOK
        <3> QED BY <1>u, <2>2, <3>1 DEF LoaderInv, Undisturbed
    <2> QED BY <1>e, <2>4, <2>5, <2>6 DEF IInv
<1>2. CASE WriteFile
    <2> DEFINE t == TableOrder[gen.pos]
    <2>1. gen # None /\ whole = None /\ UNCHANGED gens /\ t \in Tables
        BY <1>2, <1>g DEF WriteFile, WholeInv
    <2>2. files' = [files EXCEPT ![t] = FileOf(t, gen.n)]
        BY <1>2 DEF WriteFile
    <2>3. FilesTyped'
        BY <1>g, <2>1, <2>2, FilesStayTyped DEF TypeOK, FilesTyped
    <2>4. \A i \in 1..5 : i < gen.pos \/ i = gen.pos =>
              files'[TableOrder[i]] = FileOf(TableOrder[i], gen.n)
        BY <1>g, <2>1, <2>2, OrderFacts DEF TypeOK, WholeInv
    <2>5. CASE IsLast(gen.pos)
        <3>1. gen' = None /\ whole' = gen.n /\ gen.pos = 5
            BY <1>2, <2>5, OrderFacts DEF WriteFile, IsLast
        <3>2. TypeOK'
            BY <1>u, <1>g, <2>1, <2>3, <3>1 DEF TypeOK, FilesTyped
        <3>3. WholeInv'
            BY <2>4, <3>1, OrderFacts DEF WholeInv
        <3>4. LoaderInv'
            BY <1>u, <2>1 DEF LoaderInv, Undisturbed
        <3> QED BY <1>e, <3>2, <3>3, <3>4 DEF IInv
    <2>6. CASE ~IsLast(gen.pos)
        <3>1. gen' = [gen EXCEPT !.pos = @ + 1] /\ UNCHANGED whole /\ gen.pos # 5
            BY <1>2, <2>6, OrderFacts DEF WriteFile, IsLast
        <3>2. /\ gen' \in [n : 0..NumCustomers, pos : 1..Len(TableOrder)]
              /\ gen'.n = gen.n /\ gen'.pos = gen.pos + 1
            BY <1>g, <2>1, <3>1, OrderFacts DEF TypeOK
        <3>3. TypeOK'
            BY <1>u, <2>1, <2>3, <3>1, <3>2 DEF TypeOK, FilesTyped
        <3>4. WholeInv'
            BY <1>g, <2>1, <2>4, <3>1, <3>2 DEF WholeInv
        <3>5. LoaderInv'
            BY <1>u, <2>1, <3>1 DEF LoaderInv, Undisturbed
        <3> QED BY <1>e, <3>3, <3>4, <3>5 DEF IInv
    <2> QED BY <2>5, <2>6
<1>3. CASE GeneratorDies
    <2> DEFINE t == TableOrder[gen.pos]
    <2>1. gen # None /\ whole = None /\ UNCHANGED <<gens, whole>> /\ gen' = None /\ t \in Tables
        BY <1>3, <1>g DEF GeneratorDies, WholeInv
    <2>2. PICK f \in TornFiles(t, gen.n) \cup {files[t]} : files' = [files EXCEPT ![t] = f]
        BY <1>3 DEF GeneratorDies
    <2>3. FilesTyped'
        BY <1>g, <2>1, <2>2, FilesStayTyped DEF TypeOK, FilesTyped
    <2>4. TypeOK'
        BY <1>u, <2>1, <2>3 DEF TypeOK, FilesTyped
    <2>5. WholeInv' /\ LoaderInv'
        BY <1>u, <2>1 DEF WholeInv, LoaderInv, Undisturbed
    <2> QED BY <1>e, <2>4, <2>5 DEF IInv
<1> QED BY <1>1, <1>2, <1>3

-----------------------------------------------------------------------------
(* The load.                                                                *)

LEMMA CopyTyped ==
    ASSUME TypeOK, loader # None, Copyable
    PROVE  Copied \in TableRows
<1>1. TableOrder[loader.pos] \in Tables /\ loader.tx \in TableRows
    BY OrderFacts DEF TypeOK
<1>2. files[TableOrder[loader.pos]].rows \subseteq Numbers(TableOrder[loader.pos])
    BY <1>1 DEF TypeOK, Copyable
<1>3. Numbers(TableOrder[loader.pos]) \subseteq AnyRow
    BY <1>1, RowsTyped
<1> QED BY <1>1, <1>2, <1>3 DEF Copied, TableRows

\* What COPY finds in an undisturbed load.
LEMMA UndisturbedFacts ==
    ASSUME IInv, Undisturbed
    PROVE  /\ loader.pos \in 1..5 /\ TableOrder[loader.pos] \in Tables
           /\ loader.from \in 0..NumCustomers
           /\ files[TableOrder[loader.pos]] = FileOf(TableOrder[loader.pos], loader.from)
           /\ loader.tx[TableOrder[loader.pos]] = {}
           /\ loader.tx \in TableRows
<1>1. /\ loader.pos \in 1..5 /\ TableOrder[loader.pos] \in Tables
      /\ loader.from \in 0..NumCustomers /\ loader.tx \in TableRows
    BY OrderFacts DEF IInv, TypeOK, Undisturbed
<1>2. files[TableOrder[loader.pos]] = FileOf(TableOrder[loader.pos], loader.from)
    BY <1>1 DEF IInv, WholeInv, LoaderInv, Undisturbed
<1>3. loader.tx[TableOrder[loader.pos]] = {}
    BY <1>1 DEF IInv, LoaderInv
<1> QED BY <1>1, <1>2, <1>3

\* The transaction of an undisturbed load, with the loader's table copied.
LEMMA UndisturbedCopied ==
    ASSUME IInv, Undisturbed
    PROVE  \A i \in 1..5 :
             Copied[TableOrder[i]] =
                 IF i < loader.pos + 1 THEN Rows(TableOrder[i], loader.from) ELSE {}
<1> SUFFICES ASSUME NEW i \in 1..5
             PROVE  Copied[TableOrder[i]] =
                        IF i < loader.pos + 1 THEN Rows(TableOrder[i], loader.from) ELSE {}
    OBVIOUS
<1>1. /\ loader.pos \in 1..5 /\ TableOrder[loader.pos] \in Tables
      /\ files[TableOrder[loader.pos]] = FileOf(TableOrder[loader.pos], loader.from)
      /\ loader.tx[TableOrder[loader.pos]] = {} /\ loader.tx \in TableRows
    BY UndisturbedFacts
<1>2. loader.tx[TableOrder[i]] =
          IF i < loader.pos THEN Rows(TableOrder[i], loader.from) ELSE {}
    BY DEF IInv, LoaderInv
<1>3. CASE i = loader.pos
    <2>1. Copied[TableOrder[i]] = Rows(TableOrder[i], loader.from)
        BY <1>1, <1>3 DEF Copied, FileOf, TableRows
    <2> QED BY <1>1, <1>3, <2>1
<1>4. CASE i # loader.pos
    <2>1. Copied[TableOrder[i]] = loader.tx[TableOrder[i]]
        BY <1>1, <1>4, OrderFacts DEF Copied, TableRows
    <2> QED BY <1>1, <1>2, <1>4, <2>1
<1> QED BY <1>3, <1>4

LEMMA LoaderIInv ==
    ASSUME IInv, BeginLoad \/ CopyTable \/ LoadCommits \/ LoadRaises \/ LoaderDies
                 \/ ResetSource \/ ChangeAmount
    PROVE  IInv'
<1> TypeOK /\ WholeInv /\ LoaderInv
    BY DEF IInv
<1>u. UNCHANGED <<files, gen, gens, whole, export, exports, interrupted, csv, manifest, loaded>>
    BY DEF BeginLoad, CopyTable, LoadCommits, LoadRaises, LoaderDies, ResetSource,
        ChangeAmount, seedVars, exportVars
<1>e. WholeInv' /\ ExportInv' /\ ManifestMatchesCsv'
    BY <1>u DEF IInv, WholeInv, ExportInv, ManifestMatchesCsv
<1>1. CASE BeginLoad
    <2>1. /\ UNCHANGED <<db, amount, changes>>
          /\ loader' = [pos |-> 1, tx |-> db, from |-> IF db = Empty THEN whole ELSE None,
                         at |-> gens]
        BY <1>1 DEF BeginLoad
    <2>2. loader' \in [pos : 1..Len(TableOrder), tx : TableRows,
                       from : 0..NumCustomers \cup {None}, at : 0..MaxStarts]
        BY <2>1, OrderFacts DEF TypeOK
    <2>3. TypeOK'
        BY <1>u, <2>1, <2>2 DEF TypeOK
    <2>4. loader'.at <= gens'
        BY <1>u, <2>1 DEF TypeOK
    <2>5. ASSUME Undisturbed'
          PROVE  whole' = loader'.from /\ \A i \in 1..5 : loader'.tx[TableOrder[i]] = {}
        <3>1. db = Empty /\ loader'.from = whole /\ loader'.tx = Empty
            BY <2>1, <2>5 DEF Undisturbed
        <3> QED BY <1>u, <3>1, OrderFacts DEF Empty
    <2>6. LoaderInv'
        BY <2>1, <2>4, <2>5 DEF LoaderInv
    <2> QED BY <1>e, <2>3, <2>6 DEF IInv
<1>2. CASE CopyTable
    <2>1. /\ loader # None /\ Copyable /\ loader.pos # 5 /\ UNCHANGED <<db, amount, changes>>
          /\ loader' = [loader EXCEPT !.pos = @ + 1, !.tx = Copied]
        BY <1>2, OrderFacts DEF CopyTable, IsLast
    <2>2. /\ loader'.pos = loader.pos + 1 /\ loader'.tx = Copied
          /\ loader'.from = loader.from /\ loader'.at = loader.at
          /\ loader' = [pos |-> loader'.pos, tx |-> loader'.tx, from |-> loader'.from,
                        at |-> loader'.at]
          /\ loader.pos \in 1..5 /\ loader.from \in 0..NumCustomers \cup {None}
          /\ loader.at \in 0..MaxStarts
        BY <2>1, OrderFacts DEF TypeOK
    <2>a. loader'.pos \in 1..Len(TableOrder) /\ loader'.tx \in TableRows
        BY <2>1, <2>2, CopyTyped, OrderFacts
    <2>b. loader' \in [pos : 1..Len(TableOrder), tx : TableRows,
                       from : 0..NumCustomers \cup {None}, at : 0..MaxStarts]
        BY <2>2, <2>a
    <2>3. TypeOK'
        BY <1>u, <2>1, <2>b DEF TypeOK
    <2>4. ASSUME Undisturbed'
          PROVE  /\ whole' = loader'.from
                 /\ \A i \in 1..5 : loader'.tx[TableOrder[i]] =
                       IF i < loader'.pos THEN Rows(TableOrder[i], loader'.from) ELSE {}
        <3>1. Undisturbed
            BY <1>u, <2>1, <2>2, <2>4 DEF Undisturbed
        <3> QED BY <1>u, <2>2, <3>1, UndisturbedCopied DEF LoaderInv
    <2>5. LoaderInv'
        BY <1>u, <2>1, <2>2, <2>4 DEF LoaderInv
    <2> QED BY <1>e, <2>3, <2>5 DEF IInv
<1>3. CASE LoadCommits
    <2>1. loader # None /\ Copyable /\ loader' = None /\ UNCHANGED changes /\ db' = Copied
        BY <1>3 DEF LoadCommits
    <2>2. amount' \in [Claims -> Amounts]
        <3>1. amount' = [c \in Claims |-> IF c \in db["claims"] THEN amount[c] ELSE Drawn[c]]
            BY <1>3 DEF LoadCommits
        <3>2. \A c \in Claims : amount[c] \in Amounts /\ Drawn[c] \in Amounts
            BY DEF TypeOK
        <3> QED BY <3>1, <3>2
    <2>3. TypeOK' /\ LoaderInv'
        BY <1>u, <2>1, <2>2, CopyTyped DEF TypeOK, LoaderInv, Undisturbed
    <2> QED BY <1>e, <2>3 DEF IInv
<1>4. CASE LoadRaises \/ LoaderDies
    <2>1. TypeOK' /\ LoaderInv'
        BY <1>u, <1>4 DEF LoadRaises, LoaderDies, TypeOK, LoaderInv, Undisturbed
    <2> QED BY <1>e, <2>1 DEF IInv
<1>5. CASE ResetSource
    <2>1. Empty \in TableRows
        BY DEF Empty, TableRows
    <2>2. TypeOK' /\ LoaderInv'
        BY <1>u, <1>5, <2>1 DEF ResetSource, TypeOK, LoaderInv, Undisturbed
    <2> QED BY <1>e, <2>2 DEF IInv
<1>6. CASE ChangeAmount
    <2>1. UNCHANGED <<db, loader>> /\ changes' \in 0..MaxChanges
        BY <1>6 DEF ChangeAmount, TypeOK
    <2>2. PICK c \in db["claims"], a \in Amounts : amount' = [amount EXCEPT ![c] = a]
        BY <1>6 DEF ChangeAmount
    <2>a. amount' \in [Claims -> Amounts]
        BY <2>2 DEF TypeOK
    <2>3. TypeOK' /\ LoaderInv'
        BY <1>u, <2>1, <2>a DEF TypeOK, LoaderInv, Undisturbed
    <2> QED BY <1>e, <2>3 DEF IInv
<1> QED BY <1>1, <1>2, <1>3, <1>4, <1>5, <1>6

-----------------------------------------------------------------------------
(* The export.                                                              *)

LEMMA ExportIInv ==
    ASSUME IInv, BeginExport \/ WriteCsv \/ WriteManifest \/ ExportDies \/ CopyInto
    PROVE  IInv'
<1> TypeOK /\ WholeInv /\ LoaderInv /\ ExportInv /\ ManifestMatchesCsv
    BY DEF IInv
<1>u. UNCHANGED <<files, gen, gens, whole, db, amount, loader, changes>>
    BY DEF BeginExport, WriteCsv, WriteManifest, ExportDies, CopyInto, seedVars, sourceVars
<1>e. WholeInv' /\ LoaderInv'
    BY <1>u DEF WholeInv, LoaderInv, Undisturbed
<1>f. export # None => /\ export.rows \subseteq Claim
                       /\ [rows |-> export.rows, usable |-> TRUE] \in FileOver(Claim)
    <2>1. export # None => export.rows \subseteq Claim
        BY DEF TypeOK, Export
    <2> QED BY <2>1 DEF FileOver
<1>1. CASE BeginExport
    <2>1. /\ export' = [rows |-> ClaimRows, written |-> FALSE]
          /\ UNCHANGED <<interrupted, csv, manifest, loaded>> /\ exports' \in 0..MaxStarts
        BY <1>1 DEF BeginExport, TypeOK
    <2>2. db["claims"] \subseteq Claims
        BY DEF TypeOK, TableRows, Tables, Numbers
    <2>3. ClaimRows \subseteq Claim
        <3>1. ASSUME NEW c \in db["claims"]
              PROVE  [id |-> c, amount |-> amount[c]] \in Claim
            BY <2>2 DEF Claim, TypeOK
        <3> QED BY <3>1 DEF ClaimRows
    <2>4. export' \in Export
        BY <2>1, <2>3 DEF Export
    <2>5. TypeOK'
        BY <1>u, <2>1, <2>4 DEF TypeOK
    <2>6. export' # None
        BY <2>4, NoneIsNoRecord
    <2>7. ExportInv' /\ ManifestMatchesCsv'
        BY <2>1, <2>6 DEF ExportInv, ManifestMatchesCsv
    <2> QED BY <1>e, <2>5, <2>7 DEF IInv
<1>2. CASE WriteCsv
    <2>1. /\ export # None /\ csv' = [rows |-> export.rows, usable |-> TRUE]
          /\ export' = [export EXCEPT !.written = TRUE]
          /\ UNCHANGED <<exports, interrupted, manifest, loaded>>
        BY <1>2 DEF WriteCsv
    <2>2. export' \in Export /\ export'.rows = export.rows
        BY <2>1 DEF TypeOK, Export
    <2>3. TypeOK'
        BY <1>u, <1>f, <2>1, <2>2 DEF TypeOK
    <2>4. ExportInv' /\ ManifestMatchesCsv'
        BY <2>1, <2>2, NoneIsNoRecord DEF ExportInv, ManifestMatchesCsv
    <2> QED BY <1>e, <2>3, <2>4 DEF IInv
<1>3. CASE WriteManifest
    <2>1. /\ export # None /\ export.written
          /\ manifest' = [rows |-> export.rows, usable |-> TRUE]
          /\ export' = None /\ interrupted' = FALSE /\ UNCHANGED <<exports, csv, loaded>>
        BY <1>3 DEF WriteManifest, ManifestRows
    <2>2. TypeOK'
        BY <1>u, <1>f, <2>1 DEF TypeOK
    <2>3. ExportInv' /\ ManifestMatchesCsv'
        BY <2>1 DEF ExportInv, ManifestMatchesCsv
    <2> QED BY <1>e, <2>2, <2>3 DEF IInv
<1>4. CASE ExportDies
    <2>1. /\ export # None /\ export' = None /\ interrupted' = TRUE
          /\ UNCHANGED <<exports, loaded>>
        BY <1>4 DEF ExportDies
    <2>2. csv' \in FileOver(Claim) \cup {None} /\ manifest' \in FileOver(Claim) \cup {None}
        <3>1. Unusable \in FileOver(Claim)
            BY DEF Unusable, FileOver
        <3>2. \A next \in export.rows :
                [rows |-> {r \in export.rows : r.id < next.id}, usable |-> TRUE]
                    \in FileOver(Claim)
            BY <1>f, <2>1 DEF FileOver
        <3> QED BY <1>4, <3>1, <3>2 DEF ExportDies, TypeOK
    <2>3. TypeOK'
        BY <1>u, <2>1, <2>2 DEF TypeOK
    <2>4. ExportInv' /\ ManifestMatchesCsv'
        BY <2>1 DEF ExportInv, ManifestMatchesCsv
    <2> QED BY <1>e, <2>3, <2>4 DEF IInv
<1>5. CASE CopyInto
    <2>1. /\ csv # None /\ loaded' = csv.rows
          /\ UNCHANGED <<export, exports, interrupted, csv, manifest>>
        BY <1>5 DEF CopyInto, exportVars
    <2>2. loaded' \in SUBSET Claim
        BY <2>1 DEF TypeOK, FileOver
    <2>3. TypeOK'
        BY <1>u, <2>1, <2>2 DEF TypeOK
    <2>4. ExportInv' /\ ManifestMatchesCsv'
        BY <2>1 DEF ExportInv, ManifestMatchesCsv
    <2> QED BY <1>e, <2>3, <2>4 DEF IInv
<1> QED BY <1>1, <1>2, <1>3, <1>4, <1>5

-----------------------------------------------------------------------------
(* Every step, and the theorems.                                            *)

LEMMA NextIInv == IInv /\ [Next]_vars => IInv'
<1> SUFFICES ASSUME IInv, [Next]_vars PROVE IInv'
    OBVIOUS
<1>1. CASE UNCHANGED vars
    BY <1>1 DEF vars, seedVars, sourceVars, exportVars, IInv, TypeOK, WholeInv, LoaderInv,
        Undisturbed, ExportInv, ManifestMatchesCsv
<1>2. CASE Next
    BY <1>2, GeneratorIInv, LoaderIInv, ExportIInv DEF Next
<1> QED BY <1>1, <1>2

LEMMA Invariance == Spec => []IInv
BY InitIInv, NextIInv, PTL DEF Spec

\* TypeOK: the generator, the load and the export stay within their files, tables
\* and rows, and a table only ever holds rows of its own.
THEOREM TypeCorrect == Spec => []TypeOK
<1>1. IInv => TypeOK
    BY DEF IInv
<1> QED BY <1>1, Invariance, PTL

\* ManifestMatchesCsv: the manifest that a completed export leaves summarises the
\* CSV next to it, because both are written from the rows of one query.
THEOREM ManifestsMatch == Spec => []ManifestMatchesCsv
<1>1. IInv => ManifestMatchesCsv
    BY DEF IInv
<1> QED BY <1>1, Invariance, PTL

\* FreshSeedLoads: for any number of customers, a load of complete files into an
\* empty source commits exactly the generated rows, and is refused only when a table
\* has none: its file then has no header.
THEOREM FreshSeedsLoad == Spec => FreshSeedLoads
<1>1. ASSUME IInv, Undisturbed, LoadCommits
      PROVE  db' = [t \in Tables |-> Rows(t, loader.from)]
    <2>1. loader.pos = 5 /\ db' = Copied /\ loader # None /\ Copyable
        BY <1>1, OrderFacts DEF LoadCommits, IsLast
    <2>2. Copied \in [Tables -> SUBSET AnyRow]
        BY <1>1, <2>1, CopyTyped DEF IInv, TableRows
    <2>3. ASSUME NEW t \in Tables
          PROVE  Copied[t] = Rows(t, loader.from)
        <3>1. PICK i \in 1..5 : t = TableOrder[i]
            BY OrderFacts
        <3> QED BY <1>1, <2>1, <3>1, UndisturbedCopied
    <2> QED BY <2>1, <2>2, <2>3
<1>2. ASSUME IInv, Undisturbed, LoadRaises, \A t \in Tables : Rows(t, loader.from) # {}
      PROVE  FALSE
    <2> DEFINE t == TableOrder[loader.pos]
    <2> DEFINE n == loader.from
    <2>1. /\ loader.pos \in 1..5 /\ t \in Tables /\ n \in 0..NumCustomers
          /\ files[t] = FileOf(t, n) /\ loader.tx[t] = {}
        BY <1>2, UndisturbedFacts
    <2>2. files[t] # None /\ files[t].usable /\ files[t].rows = Rows(t, n)
        <3>1. FileOf(t, n) # None
            BY <2>1, FileTyped
        <3>2. Rows(t, n) # {}
            BY <1>2, <2>1
        <3>3. FileOf(t, n).usable /\ FileOf(t, n).rows = Rows(t, n)
            BY <3>2 DEF FileOf
        <3> HIDE DEF t, n
        <3> QED BY <2>1, <3>1, <3>3
    <2>3. ASSUME NEW r \in Rows(t, n), NEW p \in Parents(t, r)
          PROVE  p[2] \in loader.tx[p[1]]
        <3>1. PICK j \in 1..5 :
                j < loader.pos /\ p[1] = TableOrder[j] /\ p[2] \in Rows(TableOrder[j], n)
            BY <2>1, <2>3, ParentsEarlier
        <3>2. loader.tx[TableOrder[j]] = Rows(TableOrder[j], n)
            BY <1>2, <3>1 DEF IInv, LoaderInv
        <3> QED BY <3>1, <3>2
    <2>4. Copyable
        BY <2>1, <2>2, <2>3 DEF Copyable
    <2> QED BY <1>2, <2>4 DEF LoadRaises
<1>3. IInv => (Undisturbed =>
                 /\ LoadCommits => db' = [t \in Tables |-> Rows(t, loader.from)]
                 /\ LoadRaises => \E t \in Tables : Rows(t, loader.from) = {})
    BY <1>1, <1>2
<1> QED BY <1>3, Invariance, PTL DEF FreshSeedLoads

-----------------------------------------------------------------------------
(* Totals, and the least and largest ids.                                   *)

ChosenOf(s) == CHOOSE x \in s : TRUE

\* The equation that the function behind Total solves for the subsets of S.
IsSum(g, S) ==
    g = [s \in SUBSET S |->
            IF s = {} THEN 0 ELSE ChosenOf(s).amount + g[s \ {ChosenOf(s)}]]

\* Total is such a function, if there is one, at the whole set.
LEMMA TotalIsSum ==
    ASSUME NEW S
    PROVE  Total(S) = (CHOOSE g : IsSum(g, S))[S]
BY DEF Total, MapThenSumSet, MapThenFoldSet, IsSum, ChosenOf

\* Without the row chosen first, one row less is left.
LEMMA SmallerWithoutChosen ==
    ASSUME NEW S, IsFiniteSet(S), NEW s \in SUBSET S, s # {}
    PROVE  /\ ChosenOf(s) \in s /\ s \ {ChosenOf(s)} \in SUBSET S
           /\ Cardinality(s) \in Nat
           /\ Cardinality(s \ {ChosenOf(s)}) = Cardinality(s) - 1
<1>1. ChosenOf(s) \in s
  BY DEF ChosenOf
<1>2. IsFiniteSet(s) /\ Cardinality(s) \in Nat
  BY FS_Subset, FS_CardinalityType
<1>3. \A x \in s : Cardinality(s \ {x}) = Cardinality(s) - 1
  BY <1>2, FS_RemoveElement
<1> QED BY <1>1, <1>2, <1>3

\* The equation has a solution: one that is right for the sets of at most n
\* elements is extended to those with one more.
LEMMA SumExists ==
    ASSUME NEW S, IsFiniteSet(S)
    PROVE  \E g : IsSum(g, S)
<1> DEFINE Value(g, s) == IF s = {} THEN 0 ELSE ChosenOf(s).amount + g[s \ {ChosenOf(s)}]
           UpTo(n) == \E g : \A s \in SUBSET S : Cardinality(s) <= n => g[s] = Value(g, s)
           Sizes == {n \in Nat : UpTo(n)}
<1>1. \A s \in SUBSET S : /\ Cardinality(s) \in Nat
                          /\ Cardinality(s) = 0 <=> s = {}
                          /\ Cardinality(s) <= Cardinality(S)
  BY FS_Subset, FS_CardinalityType, FS_EmptySet
<1>2. 0 \in Sizes
  <2> DEFINE g == [s \in SUBSET S |-> 0]
  <2>1. \A s \in SUBSET S : Cardinality(s) <= 0 => g[s] = Value(g, s)
    BY <1>1
  <2> HIDE DEF g
  <2> QED BY <2>1
<1>3. ASSUME NEW n \in Sizes PROVE n + 1 \in Sizes
  <2>1. PICK g : \A s \in SUBSET S : Cardinality(s) <= n => g[s] = Value(g, s)
    OBVIOUS
  <2> DEFINE h == [s \in SUBSET S |-> IF Cardinality(s) <= n THEN g[s] ELSE Value(g, s)]
  <2>2. ASSUME NEW s \in SUBSET S, Cardinality(s) <= n + 1 PROVE h[s] = Value(h, s)
    <3>1. CASE s = {}
      BY <1>1, <2>1, <3>1
    <3>2. CASE s # {}
      <4> DEFINE rest == s \ {ChosenOf(s)}
      <4>1. rest \in SUBSET S /\ Cardinality(rest) <= n
        BY <2>2, <3>2, SmallerWithoutChosen
      <4>2. h[rest] = g[rest]
        BY <4>1
      <4>3. h[s] = Value(g, s)
        BY <2>1
      <4> QED BY <3>2, <4>2, <4>3
    <3> QED BY <3>1, <3>2
  <2> HIDE DEF h, Value
  <2>3. n + 1 \in Nat
    OBVIOUS
  <2> QED BY <2>2, <2>3
<1>4. Sizes = Nat
  <2> HIDE DEF UpTo
  <2>1. Sizes \in SUBSET Nat
    OBVIOUS
  <2> HIDE DEF Sizes
  <2> QED BY <1>2, <1>3, <2>1, SetInduction
<1>5. Cardinality(S) \in Sizes
  BY <1>4, FS_CardinalityType
<1>6. PICK g : \A s \in SUBSET S : g[s] = Value(g, s)
  <2>1. UpTo(Cardinality(S))
    BY <1>5
  <2> HIDE DEF Value
  <2> QED BY <1>1, <2>1
<1> DEFINE f == [s \in SUBSET S |-> g[s]]
<1>7. ASSUME NEW s \in SUBSET S PROVE f[s] = Value(f, s)
  <2>1. CASE s = {}
    BY <1>6, <2>1
  <2>2. CASE s # {}
    <3>1. s \ {ChosenOf(s)} \in SUBSET S
      BY <2>2, SmallerWithoutChosen
    <3> QED BY <1>6, <2>2, <3>1
  <2> QED BY <2>1, <2>2
<1>8. f = [s \in SUBSET S |-> Value(f, s)]
  <2>1. f = [s \in SUBSET S |-> f[s]]
    OBVIOUS
  <2> HIDE DEF f, Value
  <2> QED BY <1>7, <2>1
<1> HIDE DEF f
<1> QED BY <1>8 DEF IsSum

\* A total is zero only when every amount is.
LEMMA TotalZero ==
    ASSUME NEW rows \in SUBSET Claim, IsFiniteSet(rows)
    PROVE  /\ Total(rows) \in Nat
           /\ Total(rows) # 0 <=> \E r \in rows : r.amount # 0
<1>1. PICK g : IsSum(g, rows) /\ Total(rows) = g[rows]
  BY TotalIsSum, SumExists
<1>2. \A r \in rows : r.amount \in Nat
  BY DEF Claim
<1> DEFINE F == {s \in SUBSET rows : g[s] \in Nat /\ (g[s] # 0 <=> \E r \in s : r.amount # 0)}
<1>3. \A s \in SUBSET rows : g[s] = IF s = {} THEN 0
                                    ELSE ChosenOf(s).amount + g[s \ {ChosenOf(s)}]
  BY <1>1 DEF IsSum
<1>4. {} \in F /\ F \in SUBSET SUBSET rows
  <2>1. {} \in SUBSET rows
    OBVIOUS
  <2>2. g[{}] = 0
    BY <1>3, <2>1
  <2>3. F \in SUBSET SUBSET rows
    OBVIOUS
  <2>4. g[{}] \in Nat /\ (g[{}] # 0 <=> \E r \in {} : r.amount # 0)
    BY <2>2
  <2> QED BY <2>1, <2>3, <2>4
<1>5. ASSUME NEW s \in SUBSET rows, s # {}, \A x \in s : s \ {x} \in F PROVE s \in F
  <2> DEFINE x == ChosenOf(s)
  <2>1. x \in s
    BY <1>5 DEF ChosenOf
  <2>2. /\ g[s \ {x}] \in Nat
        /\ g[s \ {x}] # 0 <=> \E r \in s \ {x} : r.amount # 0
    BY <1>5, <2>1
  <2>3. g[s] = x.amount + g[s \ {x}]
    BY <1>3, <1>5
  <2> HIDE DEF x
  <2>4. x.amount \in Nat
    BY <1>2, <2>1
  <2>5. (\E r \in s : r.amount # 0) <=> x.amount # 0 \/ \E r \in s \ {x} : r.amount # 0
    BY <2>1
  <2>6. g[s] \in Nat /\ (g[s] # 0 <=> x.amount # 0 \/ g[s \ {x}] # 0)
    BY <2>2, <2>3, <2>4
  <2> QED BY <2>2, <2>5, <2>6
<1> HIDE DEF F
<1>6. F = SUBSET rows
  BY <1>4, <1>5, RemovalInduction
<1>7. rows \in F
  BY <1>6
<1> QED BY <1>1, <1>7 DEF F

\* The least and the largest id are ids of rows and bound all of them.
LEMMA BoundsOf ==
    ASSUME NEW rows \in SUBSET Claim, IsFiniteSet(rows), rows # {}
    PROVE  /\ MinId(rows) \in Claims /\ \E r \in rows : r.id = MinId(rows)
           /\ MaxId(rows) \in Claims /\ \E r \in rows : r.id = MaxId(rows)
           /\ \A r \in rows : MinId(rows) <= r.id /\ r.id <= MaxId(rows)
<1>1. Ids(rows) \in SUBSET Claims /\ Ids(rows) # {} /\ Ids(rows) \in SUBSET Nat
  <2>1. \A r \in rows : r.id \in Claims
    BY DEF Claim
  <2>2. PICK r \in rows : TRUE
    OBVIOUS
  <2>3. r.id \in Ids(rows)
    BY DEF Ids
  <2>4. Ids(rows) \in SUBSET Claims
    BY <2>1 DEF Ids
  <2> HIDE DEF Claims
  <2>5. Claims \in SUBSET Nat
    BY NumbersNat
  <2> QED BY <2>3, <2>4, <2>5
<1>2. IsFiniteSet(Ids(rows))
  BY <1>1, ClaimsFinite, FS_Subset
<1>3. \E x \in Ids(rows) : \A y \in Ids(rows) : x <= y
  BY <1>1, LeastNat
<1>4. \E x \in Ids(rows) : \A y \in Ids(rows) : x >= y
  <2> DEFINE R == {p \in Nat \X Nat : p[1] > p[2]}
  <2>1. \A x, y \in Nat : <<x, y>> \in R <=> x > y
    OBVIOUS
  <2> HIDE DEF R
  <2>n. \A x \in Ids(rows) : x \in Nat
    BY <1>1
  <2>2. \A x, y \in Ids(rows) : x = y \/ <<x, y>> \in R \/ <<y, x>> \in R
    <3> SUFFICES ASSUME NEW x \in Ids(rows), NEW y \in Ids(rows)
                 PROVE  x = y \/ <<x, y>> \in R \/ <<y, x>> \in R
      OBVIOUS
    <3>1. x \in Nat /\ y \in Nat
      BY <2>n
    <3>2. x = y \/ x > y \/ y > x
      BY <3>1
    <3> QED BY <2>1, <3>1, <3>2
  <2>3. \A x, y, z \in Ids(rows) : <<x, y>> \in R /\ <<y, z>> \in R => <<x, z>> \in R
    <3> SUFFICES ASSUME NEW x \in Ids(rows), NEW y \in Ids(rows), NEW z \in Ids(rows),
                        <<x, y>> \in R, <<y, z>> \in R
                 PROVE  <<x, z>> \in R
      OBVIOUS
    <3>1. x \in Nat /\ y \in Nat /\ z \in Nat
      BY <2>n
    <3>2. x > y /\ y > z
      BY <2>1, <3>1
    <3>3. x > z
      BY <3>1, <3>2
    <3> QED BY <2>1, <3>1, <3>3
  <2>4. PICK x \in Ids(rows) : \A y \in Ids(rows) : x = y \/ <<x, y>> \in R
    BY <1>1, <1>2, <2>2, <2>3, FirstOfFinite
  <2>5. ASSUME NEW y \in Ids(rows) PROVE x >= y
    <3>1. x \in Nat /\ y \in Nat
      BY <2>n
    <3>2. x = y \/ x > y
      BY <2>1, <2>4, <3>1
    <3> QED BY <3>1, <3>2
  <2> QED BY <2>5
<1>5. /\ MinId(rows) \in Ids(rows) /\ \A y \in Ids(rows) : MinId(rows) <= y
      /\ MaxId(rows) \in Ids(rows) /\ \A y \in Ids(rows) : MaxId(rows) >= y
  BY <1>3, <1>4 DEF MinId, MaxId, Min, Max
<1> QED BY <1>1, <1>5 DEF Ids

\* Two sets of rows have the same least and largest id when no claim number
\* separates them.
LEMMA BoundsAgree ==
    ASSUME NEW a \in SUBSET Claim, IsFiniteSet(a), a # {},
           NEW b \in SUBSET Claim, IsFiniteSet(b), b # {}
    PROVE  MinId(a) = MinId(b) /\ MaxId(a) = MaxId(b) <=>
               \A c \in Claims : /\ (\E r \in a : r.id <= c) <=> (\E r \in b : r.id <= c)
                                 /\ (\E r \in a : r.id >= c) <=> (\E r \in b : r.id >= c)
<1>1. /\ MinId(a) \in Claims /\ \E r \in a : r.id = MinId(a)
      /\ MaxId(a) \in Claims /\ \E r \in a : r.id = MaxId(a)
      /\ \A r \in a : MinId(a) <= r.id /\ r.id <= MaxId(a)
  BY BoundsOf
<1>2. /\ MinId(b) \in Claims /\ \E r \in b : r.id = MinId(b)
      /\ MaxId(b) \in Claims /\ \E r \in b : r.id = MaxId(b)
      /\ \A r \in b : MinId(b) <= r.id /\ r.id <= MaxId(b)
  BY BoundsOf
<1>3. /\ \A r \in a : r.id \in Nat
      /\ \A r \in b : r.id \in Nat
      /\ \A c \in Claims : c \in Nat
  BY DEF Claim
<1>4. \A c \in Claims : /\ (\E r \in a : r.id <= c) <=> MinId(a) <= c
                        /\ (\E r \in a : r.id >= c) <=> MaxId(a) >= c
  BY <1>1, <1>3
<1>5. \A c \in Claims : /\ (\E r \in b : r.id <= c) <=> MinId(b) <= c
                        /\ (\E r \in b : r.id >= c) <=> MaxId(b) >= c
  BY <1>2, <1>3
<1>6. ASSUME \A c \in Claims : /\ MinId(a) <= c <=> MinId(b) <= c
                               /\ MaxId(a) >= c <=> MaxId(b) >= c
      PROVE  MinId(a) = MinId(b) /\ MaxId(a) = MaxId(b)
  <2>1. MinId(a) <= MinId(b) /\ MinId(b) <= MinId(a)
    BY <1>1, <1>2, <1>3, <1>6
  <2>2. MaxId(a) <= MaxId(b) /\ MaxId(b) <= MaxId(a)
    BY <1>1, <1>2, <1>3, <1>6
  <2> QED BY <1>1, <1>2, <1>3, <2>1, <2>2
<1> QED BY <1>4, <1>5, <1>6

-----------------------------------------------------------------------------
(* The verification.                                                        *)

\* Files and tables hold finitely many rows.
FiniteInv ==
    /\ export # None => IsFiniteSet(export.rows)
    /\ csv # None => IsFiniteSet(csv.rows)
    /\ manifest # None => IsFiniteSet(manifest.rows)
    /\ loaded # None => IsFiniteSet(loaded)

\* No export, copy or crash makes a set of rows infinite.
LEMMA FiniteStep == IInv /\ FiniteInv /\ [Next]_vars => FiniteInv'
<1> SUFFICES ASSUME IInv, FiniteInv, [Next]_vars PROVE FiniteInv'
  OBVIOUS
<1>1. CASE UNCHANGED <<export, csv, manifest, loaded>>
  BY <1>1 DEF FiniteInv
<1>2. CASE BeginExport
  <2>1. export' = [rows |-> ClaimRows, written |-> FALSE] /\ UNCHANGED <<csv, manifest, loaded>>
    BY <1>2 DEF BeginExport
  <2>2. IsFiniteSet(ClaimRows)
    <3> DEFINE f == [c \in db["claims"] |-> [id |-> c, amount |-> amount[c]]]
    <3>1. db["claims"] \in SUBSET Claims
      BY DEF IInv, TypeOK, TableRows, Tables, Numbers
    <3>2. f \in Surjection(db["claims"], ClaimRows)
      BY DEF ClaimRows, Surjection
    <3> QED BY <3>1, <3>2, ClaimsFinite, FS_Subset, FS_Surjection
  <2> QED BY <2>1, <2>2 DEF FiniteInv
<1>3. CASE WriteCsv
  BY <1>3 DEF WriteCsv, FiniteInv, IInv, TypeOK, Export
<1>4. CASE WriteManifest
  BY <1>4 DEF WriteManifest, ManifestRows, FiniteInv
<1>5. CASE ExportDies
  <2>1. export # None /\ export' = None /\ UNCHANGED loaded
    BY <1>5 DEF ExportDies
  <2>2. IsFiniteSet(Unusable.rows)
    BY FS_EmptySet DEF Unusable
  <2>3. \A next : IsFiniteSet({r \in export.rows : r.id < next})
    BY <2>1, FS_Subset DEF FiniteInv
  <2>4. csv' # None => IsFiniteSet(csv'.rows)
    BY <1>5, <2>2, <2>3 DEF ExportDies, FiniteInv
  <2>5. manifest' # None => IsFiniteSet(manifest'.rows)
    BY <1>5, <2>2 DEF ExportDies, FiniteInv
  <2> QED BY <2>1, <2>4, <2>5 DEF FiniteInv
<1>6. CASE CopyInto
  BY <1>6 DEF CopyInto, exportVars, FiniteInv
<1>7. CASE \/ BeginGenerate \/ WriteFile \/ GeneratorDies
           \/ BeginLoad \/ CopyTable \/ LoadCommits \/ LoadRaises \/ LoaderDies
           \/ ResetSource \/ ChangeAmount
  BY <1>1, <1>7 DEF BeginGenerate, WriteFile, GeneratorDies, BeginLoad, CopyTable, LoadCommits,
                    LoadRaises, LoaderDies, ResetSource, ChangeAmount, exportVars
<1>8. CASE UNCHANGED vars
  BY <1>1, <1>8 DEF vars, exportVars
<1> QED BY <1>2, <1>3, <1>4, <1>5, <1>6, <1>7, <1>8 DEF Next

\* Verification of rows against a manifest.
LEMMA AgreeExplained ==
    ASSUME NEW a \in SUBSET Claim, IsFiniteSet(a), NEW b \in SUBSET Claim, IsFiniteSet(b)
    PROVE  Agree(a, b) <=>
               /\ Cardinality(a) = Cardinality(b)
               /\ Total(a) = Total(b)
               /\ \A c \in Claims : /\ (\E r \in a : r.id <= c) <=> (\E r \in b : r.id <= c)
                                    /\ (\E r \in a : r.id >= c) <=> (\E r \in b : r.id >= c)
               /\ \E r \in a : r.amount # 0
<1>1. Cardinality(a) = Cardinality(b) => (a = {} <=> b = {})
  BY FS_EmptySet
<1>2. SnowflakeSum(b) = ManifestSum(a) <=> Total(a) = Total(b) /\ \E r \in a : r.amount # 0
  <2>1. SnowflakeSum(b) = ManifestSum(a) <=>
            Total(b) = Total(a) /\ a # {} /\ Total(a) # 0
    BY DEF SnowflakeSum, ManifestSum
  <2> QED BY <2>1, TotalZero
<1>3. CASE a = {} \/ b = {}
  BY <1>1, <1>2, <1>3 DEF Agree
<1>4. CASE a # {} /\ b # {}
  BY <1>2, <1>4, BoundsAgree DEF Agree
<1> QED BY <1>3, <1>4

\* Verification passes exactly when the manifest is readable, the rows loaded have
\* its count, total and id bounds, and some amount is not zero, for any claims and
\* amounts and whatever was exported, interrupted or loaded before
\* (gcp_backfill_verify.py; the scale of a zero sum makes the difference).
THEOREM PassesAlwaysExplained == Spec => []PassesExplained
<1>1. Init => FiniteInv
  BY DEF Init, FiniteInv
<1>2. IInv /\ FiniteInv => PassesExplained
  <2> SUFFICES ASSUME IInv, FiniteInv, manifest # None, loaded # None
               PROVE  Passes <=>
                        /\ manifest.usable
                        /\ Cardinality(manifest.rows) = Cardinality(loaded)
                        /\ Total(manifest.rows) = Total(loaded)
                        /\ \A c \in Claims :
                             /\ (\E r \in manifest.rows : r.id <= c) <=>
                                    (\E r \in loaded : r.id <= c)
                             /\ (\E r \in manifest.rows : r.id >= c) <=>
                                    (\E r \in loaded : r.id >= c)
                        /\ \E r \in manifest.rows : r.amount # 0
    BY DEF PassesExplained
  <2>1. manifest.rows \in SUBSET Claim /\ IsFiniteSet(manifest.rows)
    BY DEF IInv, TypeOK, FileOver, FiniteInv
  <2>2. loaded \in SUBSET Claim /\ IsFiniteSet(loaded)
    BY DEF IInv, TypeOK, FiniteInv
  <2> QED BY <2>1, <2>2, AgreeExplained DEF Passes
<1> QED BY Invariance, FiniteStep, <1>1, <1>2, PTL DEF Spec
=============================================================================
