------------------------- MODULE SourceScenarios_proofs -------------------------
(***************************************************************************)
(* Theorems about SourceScenarios, for any keys, tables, timestamps and    *)
(* bounds, and any order of scripts, passes and history loads.             *)
(*                                                                         *)
(* Every script is first shown to be a Write: it leaves the rows it does   *)
(* not write alone, and stamps a row it writes past all that the row ever  *)
(* was, or marks it as overtaken.  The invariants are then kept by Write,  *)
(* which has one case where Script has eleven.                             *)
(***************************************************************************)
EXTENDS SourceScenarios, DataInduction

USE TablesTyped, BoundsNat, TimesNat, NoneFresh

-----------------------------------------------------------------------------
(* The invariant.                                                           *)

Keyed == \A k \in Keys : source[k] # None => source[k] \in Version /\ source[k].pk = k

HistoryCovers == Current(source) \subseteq history

\* Only the CDC demo deletes rows.
AbsentIsNew ==
    \A k \in Keys : source[k] = None /\ k # CdcClaim => \A u \in history : u.pk # k

CdcPast == \A u \in history : u.pk = CdcClaim => u.at < now

LateInitial ==
    source[LateExisting] # None /\ source[LateExisting].body = "initial" =>
        source[LateExisting].at = LateExistingAt

NewestIsCurrent ==
    \A k \in Keys : source[k] # None /\ k \notin overtaken =>
        \A u \in history : u.pk = k => u = source[k] \/ u.at < source[k].at

SourceInv ==
    /\ Keyed /\ HistoryCovers /\ AbsentIsNew /\ CdcPast /\ LateInitial
    /\ NewestIsCurrent

CapturedKnown == Captured \subseteq history \cup HistoryVersions

RecordsUnique == \A r, q \in raw : r.ver = q.ver => r = q

\* A reconciliation nothing was written in has captured the tables behind it.
QuietCaptured ==
    quiet /\ pass = "reconcile" =>
        \A v \in Current(source) : TableOf[v.pk] < pos => v \in Captured

SettledCaptured == settled => Current(source) \subseteq Captured

RawInv == CapturedKnown /\ RecordsUnique /\ QuietCaptured /\ SettledCaptured

IInv == TypeOK /\ SourceInv /\ RawInv /\ MissedIsExplained

-----------------------------------------------------------------------------
(* Initial states.                                                          *)

LEMMA InitSource == Init => TypeOK /\ SourceInv
<1> SUFFICES ASSUME Init PROVE TypeOK /\ SourceInv
    OBVIOUS
<1>1. \A k \in Keys : source[k] # None =>
        source[k] \in [pk : {k}, at : Seeded, body : {"initial", "other"}]
    BY DEF Init
<1>2. ASSUME NEW k \in Keys, source[k] # None
      PROVE  source[k] \in Version /\ source[k].pk = k
    BY <1>1, <1>2, ClocksInTime, BodiesKnown DEF Version
<1>3. Keyed
    BY <1>2 DEF Keyed
<1>4. source[CdcClaim] = None /\ source[LateExisting] = None
    BY RowsAreKeys, RowsApart DEF Init
<1>5. history = Current(source) /\ Current(source) \subseteq Version
    <2>1. history = Current(source)
        BY DEF Init
    <2>2. Current(source) \subseteq Version
        BY <1>2 DEF Current
    <2> QED BY <2>1, <2>2
<1>6. \A u \in history : \E k \in Keys : source[k] # None /\ u = source[k] /\ u.pk = k
    BY <1>2, <1>5 DEF Current
<1>7. TypeOK
    <2>1. source \in [Keys -> Version \cup {None}]
        BY <1>2 DEF Init
    <2>2. mark \in [Tables -> Watermark]
        BY DEF Init, Watermark
    <2>3. pos \in Tables /\ now \in 0..(MaxTime + 1)
        <3>1. pos = 1 /\ now \in Clocks
            BY DEF Init
        <3>2. 1 \in Tables
            BY RowsAreKeys, TablesTyped DEF Tables
        <3>3. now \in 0..(MaxTime + 1)
            BY <3>1, ClocksInTime, TimesOrdered, BoundsNat
        <3> QED BY <3>1, <3>2, <3>3
    <2>4. raw \subseteq [ver : Version, rid : Nat] /\ ids \in Nat
        BY DEF Init
    <2>5. history \subseteq Version /\ late \subseteq history /\ jumped \subseteq history
        BY <1>5 DEF Init
    <2>6. /\ loading \in BOOLEAN /\ quiet \in BOOLEAN /\ settled \in BOOLEAN
          /\ pass \in PassKinds
        BY DEF Init, PassKinds
    <2>7. overtaken \subseteq Keys /\ writes \in 0..MaxWrites /\ loads \in 0..MaxLoads
        BY DEF Init
    <2> QED BY <2>1, <2>2, <2>3, <2>4, <2>5, <2>6, <2>7 DEF TypeOK
<1>8. SourceInv
    BY <1>3, <1>4, <1>5, <1>6, RowsAreKeys DEF SourceInv, HistoryCovers, AbsentIsNew, CdcPast,
        LateInitial, NewestIsCurrent
<1> QED BY <1>7, <1>8

LEMMA InitIInv == Init => IInv
<1> SUFFICES ASSUME Init PROVE RawInv /\ MissedIsExplained
    BY InitSource DEF IInv
<1>1. Captured = {}
    BY DEF Init, Captured
<1> QED BY <1>1, TablesTyped DEF Init, RawInv, CapturedKnown, RecordsUnique, QuietCaptured,
        SettledCaptured, MissedIsExplained, Current, Version

-----------------------------------------------------------------------------
(* Scripts write one or two rows.                                           *)

\* A row of a script: its key, its time, and the versions of the key before it.
Written(k) ==
    /\ source'[k] \in Version /\ source'[k].pk = k
    /\ k \in overtaken' \/ \A u \in history : u.pk = k => u.at < source'[k].at
    /\ k = LateExisting /\ source'[k].body = "initial" => source'[k].at = LateExistingAt
    /\ k = CdcClaim => source'[k].at < now'

Kept(k) == source'[k] = source[k] /\ (k \in overtaken => k \in overtaken')

Removed(k) == k = CdcClaim /\ source'[k] = None

Write ==
    /\ Commit(source')
    /\ source' \in [Keys -> Version \cup {None}]
    /\ overtaken' \subseteq Keys
    /\ now' \in 0..(MaxTime + 1) /\ now <= now'
    /\ \A k \in Keys : Kept(k) \/ Removed(k) \/ Written(k)

LEMMA WriteHistory ==
    ASSUME TypeOK, Keyed, Write
    PROVE  /\ Keyed'
           /\ history' = history \cup (Current(source') \ Current(source))
           /\ \A u \in history' \ history :
                 u \in Version /\ source'[u.pk] = u /\ ~Kept(u.pk) /\ Written(u.pk)
<1>1. Keyed'
    BY DEF Keyed, Write, Kept, Removed, Written
<1>2. history' = history \cup (Current(source') \ Current(source))
    BY DEF Write, Commit
<1>3. ASSUME NEW u \in history' \ history
      PROVE  u \in Version /\ source'[u.pk] = u /\ ~Kept(u.pk) /\ Written(u.pk)
    <2>1. PICK k \in Keys : u = source'[k] /\ u # None
        BY <1>2, <1>3 DEF Current
    <2>2. u \notin Current(source)
        BY <1>2, <1>3
    <2>3. ~Kept(k)
        BY <2>1, <2>2 DEF Kept, Current
    <2>4. Written(k)
        BY <2>1, <2>3 DEF Write, Removed
    <2> QED BY <2>1, <2>3, <2>4 DEF Written
<1> QED BY <1>1, <1>2, <1>3

LEMMA WriteType == TypeOK /\ Keyed /\ Write => TypeOK'
<1> SUFFICES ASSUME TypeOK, Keyed, Write PROVE TypeOK'
    OBVIOUS
<1>1. history' \subseteq Version /\ history \subseteq history'
    BY WriteHistory DEF TypeOK
<1>2. late' \subseteq history'
    BY WriteHistory DEF TypeOK, Write, Commit
<1>3. writes' \in 0..MaxWrites
    BY DEF TypeOK, Write, Commit
<1>4. /\ UNCHANGED <<raw, ids, mark, pass, pos, loading, jumped, loads>>
      /\ quiet' = FALSE /\ settled' = FALSE
    BY DEF Write, Commit, passes
<1>5. /\ source' \in [Keys -> Version \cup {None}]
      /\ now' \in 0..(MaxTime + 1) /\ overtaken' \subseteq Keys
    BY DEF Write
<1>6. jumped' \subseteq history'
    BY <1>1, <1>4 DEF TypeOK
<1> QED BY <1>1, <1>2, <1>3, <1>4, <1>5, <1>6 DEF TypeOK

LEMMA WriteSource == TypeOK /\ SourceInv /\ Write => SourceInv'
<1> SUFFICES ASSUME TypeOK, SourceInv, Write PROVE SourceInv'
    OBVIOUS
<1>1. /\ Keyed'
      /\ history' = history \cup (Current(source') \ Current(source))
      /\ \A u \in history' \ history :
            u \in Version /\ source'[u.pk] = u /\ ~Kept(u.pk) /\ Written(u.pk)
    BY WriteHistory DEF SourceInv
<1>2. HistoryCovers'
    BY <1>1 DEF HistoryCovers, SourceInv
<1>3. AbsentIsNew'
    <2> SUFFICES ASSUME NEW k \in Keys, source'[k] = None, k # CdcClaim, NEW u \in history'
                 PROVE  u.pk # k
        BY DEF AbsentIsNew
    <2>1. Kept(k)
        BY DEF Write, Removed, Written
    <2>2. CASE u \in history
        BY <2>1, <2>2 DEF Kept, SourceInv, AbsentIsNew
    <2>3. CASE u \notin history
        BY <1>1, <2>1, <2>3
    <2> QED BY <2>2, <2>3
<1>4. CdcPast'
    <2> SUFFICES ASSUME NEW u \in history', u.pk = CdcClaim PROVE u.at < now'
        BY DEF CdcPast
    <2>1. CASE u \in history
        <3>1. u.at < now /\ u \in Version
            BY <2>1 DEF SourceInv, CdcPast, TypeOK
        <3>2. u.at \in Nat
            BY <3>1 DEF Version
        <3>3. now \in Nat /\ now' \in Nat /\ now <= now'
            BY DEF TypeOK, Write
        <3> QED BY <3>1, <3>2, <3>3
    <2>2. CASE u \notin history
        BY <1>1, <2>2 DEF Written
    <2> QED BY <2>1, <2>2
<1>5. LateInitial'
    <2> SUFFICES ASSUME source'[LateExisting] # None, source'[LateExisting].body = "initial"
                 PROVE  source'[LateExisting].at = LateExistingAt
        BY DEF LateInitial
    <2>1. Kept(LateExisting) \/ Written(LateExisting)
        BY RowsAreKeys, RowsApart DEF Write, Removed
    <2> QED BY <2>1 DEF Kept, Written, SourceInv, LateInitial
<1>6. NewestIsCurrent'
    <2> SUFFICES ASSUME NEW k \in Keys, source'[k] # None, k \notin overtaken',
                        NEW u \in history', u.pk = k
                 PROVE  u = source'[k] \/ u.at < source'[k].at
        BY DEF NewestIsCurrent
    <2>1. CASE u \notin history
        BY <1>1, <2>1
    <2>2. CASE u \in history /\ Kept(k)
        BY <2>2 DEF Kept, SourceInv, NewestIsCurrent
    <2>3. CASE u \in history /\ Written(k)
        BY <2>3 DEF Written
    <2> QED BY <2>1, <2>2, <2>3 DEF Write, Removed
<1> QED BY <1>1, <1>2, <1>3, <1>4, <1>5, <1>6 DEF SourceInv

LEMMA WriteRaw == IInv /\ Write => RawInv' /\ MissedIsExplained'
<1> SUFFICES ASSUME IInv, Write PROVE RawInv' /\ MissedIsExplained'
    OBVIOUS
<1>1. /\ history \subseteq history'
      /\ UNCHANGED <<raw, mark, jumped>> /\ quiet' = FALSE /\ settled' = FALSE
    BY DEF Write, Commit
<1>2. Captured' = Captured
    BY <1>1 DEF Captured
<1>3. RawInv'
    BY <1>1, <1>2 DEF IInv, RawInv, CapturedKnown, RecordsUnique, QuietCaptured,
        SettledCaptured, HistoryVersions
<1>4. MissedIsExplained'
    <2> SUFFICES ASSUME NEW v \in Current(source') \ Captured, mark[TableOf[v.pk]] # None,
                        ~After(PgRank, v, mark[TableOf[v.pk]])
                 PROVE  v \in late' \cup jumped
        BY <1>1, <1>2 DEF MissedIsExplained
    <2>1. CASE v \in Current(source)
        BY <2>1 DEF IInv, MissedIsExplained, Write, Commit
    <2>2. CASE v \notin Current(source)
        BY <2>2 DEF Behind, Write, Commit
    <2> QED BY <2>1, <2>2
<1> QED BY <1>3, <1>4

-----------------------------------------------------------------------------
(* Every script is a Write.                                                 *)

LEMMA CommitSelf ==
    ASSUME NEW new, Commit(new)
    PROVE  source' = new /\ Commit(source')
BY DEF Commit

LEMMA ClockTyped == TypeOK /\ UseClock => /\ now \in Times
                                        /\ now' \in 0..(MaxTime + 1)
                                        /\ now < now' /\ now <= now'
BY TimesOrdered DEF TypeOK, UseClock

LEMMA StillTyped == TypeOK /\ UNCHANGED now => now' \in 0..(MaxTime + 1) /\ now <= now'
BY DEF TypeOK

\* One row is written.
LEMMA RowWritten ==
    ASSUME TypeOK, Keyed, NEW k \in Keys, NEW t \in Times, NEW b \in Bodies,
           Commit(WithRow(k, t, b)), now' \in 0..(MaxTime + 1), now <= now',
           overtaken' \subseteq Keys, \A j \in Keys \ {k} : j \in overtaken => j \in overtaken',
           k \in overtaken' \/ \A u \in history : u.pk = k => u.at < t,
           k = LateExisting /\ b = "initial" => t = LateExistingAt,
           k = CdcClaim => t < now'
    PROVE  Write
<1>1. source' = WithRow(k, t, b) /\ Commit(source')
    BY CommitSelf
<1>2. source'[k] = [pk |-> k, at |-> t, body |-> b] /\ source'[k] \in Version
    BY <1>1 DEF WithRow, TypeOK, Version
<1>3. \A j \in Keys \ {k} : source'[j] = source[j]
    BY <1>1 DEF WithRow, TypeOK
<1>4. source' \in [Keys -> Version \cup {None}]
    BY <1>1, <1>2 DEF WithRow, TypeOK
<1>5. Written(k)
    BY <1>2 DEF Written
<1>6. \A j \in Keys \ {k} : Kept(j)
    BY <1>3 DEF Kept
<1> QED BY <1>1, <1>4, <1>5, <1>6 DEF Write

\* A row that was never there is new, whatever its time.
LEMMA AbsentPast ==
    ASSUME SourceInv, NEW k \in Keys, source[k] = None, k # CdcClaim, NEW t
    PROVE  \A u \in history : u.pk = k => u.at < t
BY DEF SourceInv, AbsentIsNew

\* Touch is past every version of the row.
LEMMA TouchPast ==
    ASSUME TypeOK, SourceInv, NEW k \in Keys, source[k] # None, Touch(k) <= MaxTime,
           now \in Times
    PROVE  /\ Touch(k) \in Times
           /\ k \in overtaken \/ \A u \in history : u.pk = k => u.at < Touch(k)
<1>1. source[k] \in Version /\ source[k].at \in Nat
    BY DEF SourceInv, Keyed, Version
<1>2. Touch(k) \in Nat /\ source[k].at < Touch(k)
    BY <1>1 DEF Touch, TypeOK
<1>3. Touch(k) \in Times
    BY <1>2, TimesOrdered
<1>4. ASSUME k \notin overtaken, NEW u \in history, u.pk = k
      PROVE  u.at < Touch(k)
    <2>1. u = source[k] \/ u.at < source[k].at
        BY <1>4 DEF SourceInv, NewestIsCurrent
    <2>2. u.at \in Nat
        BY DEF TypeOK, Version
    <2> QED BY <1>1, <1>2, <2>1, <2>2
<1> QED BY <1>3, <1>4

\* Stamp keeps track of the rows stamped behind one of their versions.
LEMMA StampTracks ==
    ASSUME TypeOK, NEW k \in Keys, NEW t \in Times, Stamp(k, t)
    PROVE  /\ overtaken' \subseteq Keys
           /\ \A j \in Keys \ {k} : j \in overtaken => j \in overtaken'
           /\ k \in overtaken' \/ \A u \in history : u.pk = k => u.at < t
<1>1. \A u \in history : u.at \in Nat
    BY DEF TypeOK, Version
<1>2. overtaken' = overtaken \cup {k} \/ overtaken' = overtaken \ {k}
    BY DEF Stamp
<1>3. k \in overtaken' \/ \A u \in history : u.pk = k => u.at < t
    <2>1. CASE \E u \in history : u.pk = k /\ u.at >= t
        BY <2>1 DEF Stamp
    <2>2. CASE ~\E u \in history : u.pk = k /\ u.at >= t
        BY <2>2, <1>1
    <2> QED BY <2>1, <2>2
<1> QED BY <1>2, <1>3 DEF TypeOK

LEMMA InsertsWrite ==
    ASSUME IInv,
           \/ InsertLate(LateClaim, LateAt)
           \/ InsertLate(LateExisting, LateExistingAt)
           \/ \E k \in {TxnClaim, CdcClaim} : InsertAtClock(k)
    PROVE  Write
<1> TypeOK /\ SourceInv /\ Keyed
    BY DEF IInv, SourceInv
<1> overtaken \subseteq Keys
    BY DEF TypeOK
<1>1. ASSUME NEW k \in {LateClaim, LateExisting}, NEW t \in {LateAt, LateExistingAt},
             InsertLate(k, t), k = LateExisting => t = LateExistingAt
      PROVE  Write
    <2>1. k \in Keys /\ k # CdcClaim /\ t \in Times /\ "initial" \in Bodies
        BY RowsAreKeys, RowsApart, ConstantTimes, BodiesKnown
    <2>2. source[k] = None /\ Commit(WithRow(k, t, "initial")) /\ UNCHANGED <<now, overtaken>>
        BY <1>1 DEF InsertLate
    <2> QED BY <1>1, <2>1, <2>2, AbsentPast, StillTyped, RowWritten
<1>2. ASSUME NEW k \in {TxnClaim, CdcClaim}, InsertAtClock(k)
      PROVE  Write
    <2>1. k \in Keys /\ k # LateExisting /\ "initial" \in Bodies
        BY RowsAreKeys, RowsApart, BodiesKnown
    <2>2. source[k] = None /\ Commit(WithRow(k, now, "initial")) /\ UNCHANGED overtaken
        BY <1>2 DEF InsertAtClock
    <2>3. now \in Times /\ now' \in 0..(MaxTime + 1) /\ now < now' /\ now <= now'
        BY <1>2, ClockTyped DEF InsertAtClock
    <2>4. \A u \in history : u.pk = k => u.at < now
        BY <2>1, <2>2, AbsentPast DEF SourceInv, CdcPast
    <2> QED BY <2>1, <2>2, <2>3, <2>4, RowWritten
<1> QED BY <1>1, <1>2, RowsApart

LEMMA UpdatesWrite ==
    ASSUME IInv,
           \/ MutateLateExisting \/ SoftDeleteClaim
           \/ InjectInvalidPayment \/ RepairInvalidPayment \/ CdcUpdate
    PROVE  Write
<1> TypeOK /\ SourceInv /\ Keyed
    BY DEF IInv, SourceInv
<1> overtaken \subseteq Keys
    BY DEF TypeOK
<1> {"initial", "changed", "deleted"} \subseteq Bodies
    BY BodiesKnown
<1>1. CASE MutateLateExisting
    <2>1. LateExisting \in Keys /\ LateExisting # CdcClaim /\ RevisedAt \in Times
        BY RowsAreKeys, RowsApart, ConstantTimes
    <2>2. ASSUME LateExisting \notin overtaken, NEW u \in history, u.pk = LateExisting
          PROVE  u.at < RevisedAt
        <3>1. source[LateExisting].at = LateExistingAt
            BY <1>1 DEF MutateLateExisting, SourceInv, LateInitial
        <3>2. u = source[LateExisting] \/ u.at < source[LateExisting].at
            BY <1>1, <2>1, <2>2 DEF MutateLateExisting, SourceInv, NewestIsCurrent
        <3>3. u.at \in Nat /\ LateExistingAt \in Nat /\ RevisedAt \in Nat
            BY ConstantTimes DEF TypeOK, Version
        <3> QED BY <3>1, <3>2, <3>3, TimesOrdered
    <2> QED BY <1>1, <2>1, <2>2, StillTyped, RowWritten DEF MutateLateExisting
<1>2. CASE SoftDeleteClaim
    <2>1. DqClaim \in Keys /\ DqClaim # CdcClaim
        BY RowsAreKeys, RowsApart
    <2> QED BY <1>2, <2>1, ClockTyped, TouchPast, RowWritten DEF SoftDeleteClaim
<1>3. CASE InjectInvalidPayment
    <2>1. DqPayment \in Keys /\ DqPayment # CdcClaim /\ DqPayment # LateExisting
        BY RowsAreKeys, RowsApart
    <2>2. now \in Times /\ now' \in 0..(MaxTime + 1) /\ now <= now' /\ UNCHANGED overtaken
        BY <1>3, ClockTyped DEF InjectInvalidPayment
    <2>3. CASE source[DqPayment] = None
        BY <1>3, <2>1, <2>2, <2>3, AbsentPast, RowWritten DEF InjectInvalidPayment
    <2>4. CASE source[DqPayment] # None
        BY <1>3, <2>1, <2>2, <2>4, TouchPast, RowWritten DEF InjectInvalidPayment
    <2> QED BY <2>3, <2>4
<1>4. CASE RepairInvalidPayment
    <2>1. DqPayment \in Keys /\ DqPayment # CdcClaim
        BY RowsAreKeys, RowsApart
    <2> QED BY <1>4, <2>1, ClockTyped, TouchPast, RowWritten DEF RepairInvalidPayment
<1>5. CASE CdcUpdate
    <2>1. CdcClaim \in Keys /\ CdcClaim # LateExisting
        BY RowsAreKeys, RowsApart
    <2>2. \A u \in history : u.pk = CdcClaim => u.at < now
        BY DEF SourceInv, CdcPast
    <2> QED BY <1>5, <2>1, <2>2, ClockTyped, RowWritten DEF CdcUpdate
<1> QED BY <1>1, <1>2, <1>3, <1>4, <1>5

\* The claim and the payment of the T4 demo.
LEMMA T4Write ==
    ASSUME IInv, ApplyT4
    PROVE  Write
<1> DEFINE pay  == [pk |-> T4Payment, at |-> EventAt, body |-> "initial"]
           paid == [pk |-> T4Claim, at |-> EventAt, body |-> "changed"]
           new  == [source EXCEPT
                      ![T4Claim] = IF source[T4Claim].body = "changed" THEN @ ELSE paid,
                      ![T4Payment] = IF source[T4Payment] = None THEN pay ELSE @]
<1> TypeOK /\ SourceInv /\ Keyed
    BY DEF IInv, SourceInv
<1>1. /\ T4Claim \in Keys /\ T4Payment \in Keys /\ T4Claim # T4Payment
      /\ {T4Claim, T4Payment} \cap {CdcClaim, LateExisting} = {}
    BY RowsAreKeys, RowsApart
<1>2. pay \in Version /\ paid \in Version /\ EventAt \in Times
    BY <1>1, ConstantTimes, BodiesKnown DEF Version
<1>3. source' = new /\ Commit(source') /\ UNCHANGED now
    BY CommitSelf DEF ApplyT4
<1>4. new \in [Keys -> Version \cup {None}]
    BY <1>2 DEF TypeOK
<1>5. \A j \in Keys \ {T4Claim, T4Payment} : source'[j] = source[j]
    BY <1>3 DEF TypeOK
<1>6. source'[T4Claim] = IF source[T4Claim].body = "changed" THEN source[T4Claim] ELSE paid
    BY <1>1, <1>3 DEF TypeOK
<1>7. source'[T4Payment] = IF source[T4Payment] = None THEN pay ELSE source[T4Payment]
    BY <1>1, <1>3 DEF TypeOK
<1>pay. ASSUME T4Payment \in overtaken => T4Payment \in overtaken'
        PROVE  Kept(T4Payment) \/ Written(T4Payment)
    <2>1. CASE source[T4Payment] = None
        <3>1. source'[T4Payment] = pay /\ pay.pk = T4Payment /\ pay.at = EventAt
            BY <1>7, <2>1
        <3>2. \A u \in history : u.pk = T4Payment => u.at < EventAt
            BY <1>1, <2>1, AbsentPast
        <3> QED BY <1>1, <1>2, <3>1, <3>2 DEF Written
    <2>2. CASE source[T4Payment] # None
        BY <1>7, <1>pay, <2>2 DEF Kept
    <2> QED BY <2>1, <2>2
<1>8. CASE source[T4Claim].body = "changed"
    <2>1. UNCHANGED overtaken
        BY <1>8 DEF ApplyT4
    <2>2. Kept(T4Payment) \/ Written(T4Payment)
        BY <1>pay, <2>1
    <2>3. \A k \in Keys : Kept(k) \/ Written(k)
        BY <1>5, <1>6, <1>8, <2>1, <2>2 DEF Kept
    <2>4. overtaken' \subseteq Keys
        BY <2>1 DEF TypeOK
    <2> QED BY <1>3, <1>4, <2>3, <2>4, StillTyped DEF Write
<1>9. CASE source[T4Claim].body # "changed"
    <2>1. Stamp(T4Claim, EventAt)
        BY <1>9 DEF ApplyT4
    <2>2. /\ overtaken' \subseteq Keys
          /\ \A j \in Keys \ {T4Claim} : j \in overtaken => j \in overtaken'
          /\ T4Claim \in overtaken' \/ \A u \in history : u.pk = T4Claim => u.at < EventAt
        BY <1>1, <1>2, <2>1, StampTracks
    <2>3. Kept(T4Payment) \/ Written(T4Payment)
        BY <1>1, <1>pay, <2>2
    <2>4. Written(T4Claim)
        <3>1. source'[T4Claim] = paid /\ paid.pk = T4Claim /\ paid.at = EventAt
            BY <1>6, <1>9
        <3> QED BY <1>1, <1>2, <2>2, <3>1 DEF Written
    <2>5. \A k \in Keys : Kept(k) \/ Written(k)
        BY <1>5, <2>2, <2>3, <2>4 DEF Kept
    <2> QED BY <1>3, <1>4, <2>2, <2>5, StillTyped DEF Write
<1> QED BY <1>8, <1>9

LEMMA DemosWrite ==
    ASSUME IInv,
           \/ ApplyCustomerHistory \/ ApplyT4 \/ CdcDelete
           \/ \E k \in {Customer, T4Claim} : Update(k)
    PROVE  Write
<1> TypeOK /\ SourceInv /\ Keyed
    BY DEF IInv, SourceInv
<1> {"initial", "changed"} \subseteq Bodies
    BY BodiesKnown
<1>1. CASE ApplyCustomerHistory
    <2>1. /\ Customer \in Keys /\ Customer # CdcClaim /\ Customer # LateExisting
          /\ EventAt \in Times
        BY RowsAreKeys, RowsApart, ConstantTimes
    <2> QED BY <1>1, <2>1, StampTracks, StillTyped, RowWritten DEF ApplyCustomerHistory
<1>2. CASE ApplyT4
    BY <1>2, T4Write
<1>3. CASE CdcDelete
    <2>1. CdcClaim \in Keys
        BY RowsAreKeys
    <2>2. source' = [source EXCEPT ![CdcClaim] = None] /\ Commit(source')
        BY <1>3, CommitSelf DEF CdcDelete
    <2>3. UNCHANGED <<now, overtaken>>
        BY <1>3 DEF CdcDelete
    <2>4. source' \in [Keys -> Version \cup {None}] /\ overtaken' \subseteq Keys
        BY <2>1, <2>2, <2>3 DEF TypeOK
    <2>5. \A k \in Keys : Kept(k) \/ Removed(k)
        BY <2>1, <2>2, <2>3 DEF Kept, Removed, TypeOK
    <2> QED BY <2>2, <2>3, <2>4, <2>5, StillTyped DEF Write
<1>4. ASSUME NEW k \in {Customer, T4Claim}, Update(k) PROVE Write
    <2>1. k \in Keys /\ k # CdcClaim /\ k # LateExisting
        BY RowsAreKeys, RowsApart
    <2>2. now \in Times /\ now' \in 0..(MaxTime + 1) /\ now <= now'
        BY <1>4, ClockTyped DEF Update
    <2> QED BY <1>4, <2>1, <2>2, StampTracks, RowWritten DEF Update
<1> QED BY <1>1, <1>2, <1>3, <1>4

-----------------------------------------------------------------------------
(* Passes and the history load.                                             *)

LEMMA HistoryTyped == HistoryVersions \subseteq Version
BY RowsAreKeys, ConstantTimes, BodiesKnown DEF HistoryVersions, Version

LEMMA SelectedCurrent == Selected \subseteq Current(source)
BY DEF Selected, Incremental, Rows

LEMMA TableKnown ==
    ASSUME TypeOK, NEW v \in Current(source)
    PROVE  v \in Version /\ TableOf[v.pk] \in Tables
BY DEF TypeOK, Current, Version

\* The watermark of a batch is the one in place or a selected row's position.
LEMMA NewestTyped ==
    ASSUME NEW rows \in SUBSET Version, NEW m \in Watermark, NEW w \in NewestWatermark(rows, m)
    PROVE  w \in Watermark
<1>1. \A v \in rows : PosOf(v) \in Position
    BY DEF PosOf, Position, Version
<1> QED BY <1>1 DEF NewestWatermark, MaxWatermark, Latest, Watermark

\* Records of versions RAW lacks, all with one id, added to RAW.
LEMMA RecordsAdded ==
    ASSUME TypeOK, CapturedKnown, RecordsUnique,
           NEW new \in SUBSET (history \cup HistoryVersions), new \cap Captured = {},
           raw' = raw \cup {[ver |-> v, rid |-> ids] : v \in new}, UNCHANGED history
    PROVE  /\ raw' \subseteq [ver : Version, rid : Nat]
           /\ Captured' = Captured \cup new
           /\ CapturedKnown' /\ RecordsUnique'
<1>1. new \subseteq Version /\ ids \in Nat
    BY HistoryTyped DEF TypeOK
<1>2. raw' \subseteq [ver : Version, rid : Nat]
    BY <1>1 DEF TypeOK
<1>3. Captured' = Captured \cup new
    <2>1. ASSUME NEW v \in new PROVE v \in Captured'
        <3>1. [ver |-> v, rid |-> ids] \in raw'
            OBVIOUS
        <3>2. [ver |-> v, rid |-> ids].ver = v
            OBVIOUS
        <3> QED BY <3>1, <3>2 DEF Captured
    <2>2. Captured \subseteq Captured'
        BY DEF Captured
    <2>3. ASSUME NEW r \in raw', r \notin raw PROVE r.ver \in new
        BY <2>3
    <2>4. Captured' \subseteq Captured \cup new
        BY <2>3 DEF Captured
    <2> QED BY <2>1, <2>2, <2>4
<1>4. CapturedKnown'
    BY <1>3 DEF CapturedKnown, HistoryVersions
<1>5. RecordsUnique'
    BY DEF RecordsUnique, Captured
<1> QED BY <1>2, <1>3, <1>4, <1>5

LEMMA CaptureIInv == IInv /\ CaptureTable => IInv'
<1> SUFFICES ASSUME IInv, CaptureTable PROVE IInv'
    OBVIOUS
<1> TypeOK /\ SourceInv /\ RawInv
    BY DEF IInv
<1>1. /\ UNCHANGED <<source, now, loading, history, late, jumped, overtaken, writes, loads>>
      /\ raw' = raw \cup {[ver |-> v, rid |-> ids] : v \in Unrepresented}
      /\ pass # "none" /\ pos \in Tables
    BY DEF CaptureTable, TypeOK
<1>2. Selected \subseteq history /\ Unrepresented \cap Captured = {}
    BY SelectedCurrent DEF Unrepresented, SourceInv, HistoryCovers
<1>3. /\ raw' \subseteq [ver : Version, rid : Nat]
      /\ Captured' = Captured \cup Unrepresented
      /\ CapturedKnown' /\ RecordsUnique'
    BY <1>1, <1>2, RecordsAdded DEF RawInv, Unrepresented
<1>4. Selected \subseteq Captured'
    BY <1>3 DEF Unrepresented
<1>5. PICK w \in NewestWatermark(Selected, mark[pos]) : mark' = [mark EXCEPT ![pos] = w]
    BY DEF CaptureTable
<1>6. w \in Watermark
    BY <1>1, <1>2, <1>5, NewestTyped DEF TypeOK
<1>7. TypeOK'
    <2>1. mark' \in [Tables -> Watermark]
        BY <1>5, <1>6 DEF TypeOK
    <2>2. ids' \in Nat
        BY DEF CaptureTable, TypeOK
    <2>3. pos' \in Tables /\ pass' \in PassKinds /\ quiet' \in BOOLEAN /\ settled' \in BOOLEAN
        <3>1. CASE LastTable
            <4>1. pass' = "none" /\ pos' = 1 /\ quiet' = FALSE
                  /\ settled' = (settled \/ (pass = "reconcile" /\ quiet))
                BY <3>1 DEF CaptureTable
            <4>2. settled' \in BOOLEAN
                BY <4>1, Zenon
            <4>3. pos' \in Tables
                BY <1>1, <4>1 DEF Tables
            <4>4. pass' \in PassKinds /\ quiet' \in BOOLEAN
                BY <4>1 DEF PassKinds
            <4> QED BY <4>2, <4>3, <4>4
        <3>2. CASE ~LastTable
            BY <1>1, <3>2 DEF CaptureTable, TypeOK, Tables, LastTable
        <3> QED BY <3>1, <3>2
    <2> QED BY <1>1, <1>3, <2>1, <2>2, <2>3 DEF TypeOK
<1>8. SourceInv'
    BY <1>1 DEF SourceInv, Keyed, HistoryCovers, AbsentIsNew, CdcPast, LateInitial,
        NewestIsCurrent, Current
<1>9. ASSUME quiet, pass = "reconcile", NEW v \in Current(source), TableOf[v.pk] <= pos
      PROVE  v \in Captured'
    <2>1. CASE TableOf[v.pk] = pos
        BY <1>4, <1>9, <2>1 DEF Selected, Rows
    <2>2. CASE TableOf[v.pk] < pos
        BY <1>3, <1>9, <2>2 DEF RawInv, QuietCaptured
    <2> QED BY <1>9, <2>1, <2>2, TableKnown DEF Tables, TypeOK
<1>10. Current(source)' = Current(source)
    BY <1>1 DEF Current
<1>11. QuietCaptured'
    <2> SUFFICES ASSUME quiet', pass' = "reconcile",
                        NEW v \in Current(source), TableOf[v.pk] < pos'
                 PROVE  v \in Captured'
        BY <1>10 DEF QuietCaptured
    <2>1. quiet /\ pass = "reconcile" /\ pos' = pos + 1
        BY DEF CaptureTable
    <2> QED BY <1>9, <2>1, TableKnown DEF Tables, TypeOK
<1>12. SettledCaptured'
    <2> SUFFICES ASSUME settled', NEW v \in Current(source) PROVE v \in Captured'
        BY <1>10 DEF SettledCaptured
    <2>1. CASE settled
        BY <1>3, <2>1 DEF RawInv, SettledCaptured
    <2>2. CASE ~settled
        <3>1. quiet /\ pass = "reconcile" /\ pos = NumTables
            BY <2>2 DEF CaptureTable, LastTable
        <3> QED BY <1>9, <3>1, TableKnown DEF Tables
    <2> QED BY <2>1, <2>2
<1>13. MissedIsExplained'
    <2> SUFFICES ASSUME NEW v \in Current(source) \ Captured', mark'[TableOf[v.pk]] # None,
                        ~After(PgRank, v, mark'[TableOf[v.pk]])
                 PROVE  v \in late \cup jumped
        BY <1>1, <1>10 DEF MissedIsExplained
    <2>1. v \notin Captured /\ v \notin Selected
        BY <1>3, <1>4
    <2>2. TableOf[v.pk] \in Tables
        BY TableKnown
    <2>3. CASE TableOf[v.pk] = pos
        <3>1. v \in Rows(pos)
            BY <2>3 DEF Rows
        <3>2. mark[pos] # None /\ ~After(PgRank, v, mark[pos])
            BY <2>1, <3>1 DEF Selected, Incremental
        <3> QED BY <2>1, <2>3, <3>2 DEF IInv, MissedIsExplained
    <2>4. CASE TableOf[v.pk] # pos
        <3>1. mark'[TableOf[v.pk]] = mark[TableOf[v.pk]]
            BY <1>5, <2>2, <2>4 DEF TypeOK
        <3> QED BY <2>1, <3>1 DEF IInv, MissedIsExplained
    <2> QED BY <2>3, <2>4
<1> QED BY <1>3, <1>7, <1>8, <1>11, <1>12, <1>13 DEF IInv, RawInv

\* Steps that leave the source, RAW and the watermarks as they are.
LEMMA ControlIInv ==
    ASSUME IInv,
           UNCHANGED <<source, now, raw, ids, mark, history, late, jumped, overtaken,
                       settled, writes, loads>>,
           UNCHANGED <<quiet, pass, pos>> \/ (pos' = 1 /\ pass' \in PassKinds),
           quiet' \in BOOLEAN, loading' \in BOOLEAN
    PROVE  IInv'
<1> TypeOK /\ SourceInv /\ RawInv
    BY DEF IInv
<1>1. 1 \in Tables
    BY DEF TypeOK, Tables
<1>2. TypeOK'
    BY <1>1 DEF TypeOK
<1>3. SourceInv' /\ MissedIsExplained' /\ Captured' = Captured
    BY DEF IInv, SourceInv, Keyed, HistoryCovers, AbsentIsNew, CdcPast, LateInitial,
        NewestIsCurrent, Current, MissedIsExplained, Captured
<1>4. Current(source)' = Current(source)
    BY DEF Current
<1>5. CapturedKnown' /\ RecordsUnique' /\ SettledCaptured'
    BY <1>3, <1>4 DEF RawInv, CapturedKnown, RecordsUnique, SettledCaptured, HistoryVersions
<1>6. QuietCaptured'
    <2>1. CASE UNCHANGED <<quiet, pass, pos>>
        BY <1>3, <1>4, <2>1 DEF RawInv, QuietCaptured
    <2>2. CASE pos' = 1
        <3>1. \A v \in Current(source) : ~(TableOf[v.pk] < 1)
            BY TableKnown DEF Tables
        <3> QED BY <1>4, <2>2, <3>1 DEF QuietCaptured
    <2> QED BY <2>1, <2>2
<1> QED BY <1>2, <1>3, <1>5, <1>6 DEF IInv, RawInv

LEMMA LoadRawIInv == IInv /\ LoadRaw => IInv'
<1> SUFFICES ASSUME IInv, LoadRaw PROVE IInv'
    OBVIOUS
<1> TypeOK /\ SourceInv /\ RawInv
    BY DEF IInv
<1>1. /\ UNCHANGED <<source, now, mark, pass, pos, history, late, jumped, overtaken,
                    quiet, settled, writes>>
      /\ raw' = raw \cup {[ver |-> v, rid |-> ids] : v \in HistoryVersions \ Captured}
    BY DEF LoadRaw, passes
<1>2. /\ raw' \subseteq [ver : Version, rid : Nat]
      /\ Captured' = Captured \cup (HistoryVersions \ Captured)
      /\ CapturedKnown' /\ RecordsUnique'
    <2> DEFINE new == HistoryVersions \ Captured
    <2>1. new \in SUBSET (history \cup HistoryVersions) /\ new \cap Captured = {}
        OBVIOUS
    <2>2. raw' = raw \cup {[ver |-> v, rid |-> ids] : v \in new} /\ UNCHANGED history
        BY <1>1
    <2>3. CapturedKnown /\ RecordsUnique
        BY DEF RawInv
    <2> HIDE DEF new
    <2>4. /\ raw' \subseteq [ver : Version, rid : Nat]
          /\ Captured' = Captured \cup new
          /\ CapturedKnown' /\ RecordsUnique'
        BY <2>1, <2>2, <2>3, RecordsAdded
    <2> QED BY <2>4 DEF new
<1>3. Current(source)' = Current(source) /\ Captured \subseteq Captured'
    BY <1>1, <1>2 DEF Current
<1>4. TypeOK'
    <2>1. ids' \in Nat /\ loads' \in 0..MaxLoads /\ loading' \in BOOLEAN
        BY DEF LoadRaw, TypeOK
    <2> QED BY <1>1, <1>2, <2>1 DEF TypeOK
<1>5. SourceInv'
    BY <1>1 DEF SourceInv, Keyed, HistoryCovers, AbsentIsNew, CdcPast, LateInitial,
        NewestIsCurrent, Current
<1>6. QuietCaptured' /\ SettledCaptured'
    BY <1>1, <1>3 DEF RawInv, QuietCaptured, SettledCaptured
<1>7. MissedIsExplained'
    BY <1>1, <1>3 DEF IInv, MissedIsExplained
<1> QED BY <1>2, <1>4, <1>5, <1>6, <1>7 DEF IInv, RawInv

LEMMA LoadMarkIInv == IInv /\ LoadMark => IInv'
<1> SUFFICES ASSUME IInv, LoadMark PROVE IInv'
    OBVIOUS
<1> TypeOK /\ SourceInv /\ RawInv
    BY DEF IInv
<1> DEFINE t == TableOf[T4Claim]
           m == [pk |-> T4Claim, at |-> HistoryAt]
<1>1. /\ UNCHANGED <<source, now, raw, ids, pass, pos, history, late, overtaken,
                    quiet, settled, writes, loads>>
      /\ mark' = [mark EXCEPT ![t] = m] /\ loading' = FALSE
      /\ jumped' = jumped \cup {v \in Rows(t) \ Captured : ~After(PgRank, v, m)}
    BY DEF LoadMark, passes
<1>2. t \in Tables /\ m \in Watermark
    BY RowsAreKeys, ConstantTimes DEF Watermark, Position
<1>3. Current(source)' = Current(source) /\ Captured' = Captured
    BY <1>1 DEF Current, Captured
<1>4. TypeOK'
    <2>1. mark' \in [Tables -> Watermark]
        BY <1>1, <1>2 DEF TypeOK
    <2>2. jumped' \subseteq history
        BY <1>1 DEF TypeOK, Rows, SourceInv, HistoryCovers
    <2> QED BY <1>1, <2>1, <2>2 DEF TypeOK
<1>5. SourceInv'
    BY <1>1 DEF SourceInv, Keyed, HistoryCovers, AbsentIsNew, CdcPast, LateInitial,
        NewestIsCurrent, Current
<1>6. RawInv'
    BY <1>1, <1>3 DEF RawInv, CapturedKnown, RecordsUnique, QuietCaptured, SettledCaptured,
        HistoryVersions
<1>7. MissedIsExplained'
    <2> SUFFICES ASSUME NEW v \in Current(source) \ Captured, mark'[TableOf[v.pk]] # None,
                        ~After(PgRank, v, mark'[TableOf[v.pk]])
                 PROVE  v \in late \cup jumped'
        BY <1>1, <1>3 DEF MissedIsExplained
    <2>1. TableOf[v.pk] \in Tables
        BY TableKnown
    <2>2. CASE TableOf[v.pk] = t
        <3>1. v \in Rows(t) /\ mark'[TableOf[v.pk]] = m
            BY <1>1, <1>2, <2>2 DEF Rows, TypeOK
        <3> QED BY <1>1, <3>1
    <2>3. CASE TableOf[v.pk] # t
        <3>1. mark'[TableOf[v.pk]] = mark[TableOf[v.pk]]
            BY <1>1, <2>1, <2>3 DEF TypeOK
        <3>2. v \in late \cup jumped
            BY <3>1 DEF IInv, MissedIsExplained
        <3> QED BY <1>1, <3>2
    <2> QED BY <2>2, <2>3
<1> QED BY <1>4, <1>5, <1>6, <1>7 DEF IInv

LEMMA Invariance == Spec => []IInv
<1>1. IInv /\ [Next]_vars => IInv'
    <2>1. SUFFICES ASSUME IInv, [Next]_vars PROVE IInv'
        OBVIOUS
    <2>2. ASSUME Write PROVE IInv'
        <3>1. TypeOK /\ SourceInv /\ Keyed
            BY <2>1 DEF IInv, SourceInv
        <3> QED BY <2>1, <2>2, <3>1, WriteType, WriteSource, WriteRaw DEF IInv
    <2>3. CASE Script
        BY <2>1, <2>2, <2>3, InsertsWrite, UpdatesWrite, DemosWrite DEF Script
    <2>4. ASSUME NEW k \in {Customer, T4Claim}, Update(k) PROVE IInv'
        BY <2>1, <2>2, <2>4, DemosWrite
    <2>5. ASSUME NEW kind \in {"ingest", "reconcile"}, BeginPass(kind) PROVE IInv'
        <3>1. loading' \in BOOLEAN /\ pass' \in PassKinds
            BY <2>1, <2>5 DEF BeginPass, IInv, TypeOK, PassKinds
        <3> QED BY <2>1, <2>5, <3>1, ControlIInv DEF BeginPass
    <2>6. CASE CaptureTable
        BY <2>1, <2>6, CaptureIInv
    <2>7. CASE PassFails
        <3>1. loading' \in BOOLEAN /\ pass' \in PassKinds
            BY <2>1, <2>7 DEF PassFails, IInv, TypeOK, PassKinds
        <3> QED BY <2>1, <2>7, <3>1, ControlIInv DEF PassFails
    <2>8. CASE LoadRaw
        BY <2>1, <2>8, LoadRawIInv
    <2>9. CASE LoadMark
        BY <2>1, <2>9, LoadMarkIInv
    <2>10. CASE LoadStops
        <3>1. quiet' \in BOOLEAN /\ UNCHANGED <<quiet, pass, pos>>
            BY <2>1, <2>10 DEF LoadStops, IInv, TypeOK, passes
        <3> QED BY <2>1, <2>10, <3>1, ControlIInv DEF LoadStops
    <2>11. CASE UNCHANGED vars
        <3>1. quiet' \in BOOLEAN /\ loading' \in BOOLEAN
            BY <2>1, <2>11 DEF vars, passes, IInv, TypeOK
        <3> QED BY <2>1, <2>11, <3>1, ControlIInv DEF vars, passes
    <2> QED BY <2>1, <2>3, <2>4, <2>5, <2>6, <2>7, <2>8, <2>9, <2>10, <2>11 DEF Next
<1> QED BY InitIInv, <1>1, PTL DEF Spec

-----------------------------------------------------------------------------
(* Staging.                                                                 *)

\* The newest record of a row that is not shadowed is that of its current version.
LEMMA StagingFollows == IInv => StagingFollowsSource
<1> SUFFICES ASSUME IInv, NEW k \in Keys, source[k] # None, source[k] \in Captured,
                    ~Shadowed(k)
             PROVE  Staged(k) = {source[k]}
    BY DEF StagingFollowsSource
<1>1. PICK c \in raw : c.ver = source[k]
    BY DEF Captured
<1>2. source[k].pk = k /\ source[k].at \in Nat
    BY DEF IInv, SourceInv, Keyed, Version
<1>3. \A r \in raw : r.rid \in Nat /\ r.ver.at \in Nat
    BY DEF IInv, TypeOK, Version
<1>4. ASSUME NEW r \in raw, r.ver.pk = k
      PROVE  r.ver = source[k] \/ r.ver.at < source[k].at
    <2>1. r.ver \in history \cup HistoryVersions
        BY DEF IInv, RawInv, CapturedKnown, Captured
    <2>2. CASE r.ver \in history
        BY <1>4, <2>2 DEF IInv, SourceInv, NewestIsCurrent, Shadowed
    <2>3. CASE r.ver \in HistoryVersions
        BY <1>2, <1>3, <1>4, <2>3 DEF Shadowed
    <2> QED BY <2>1, <2>2, <2>3
<1>5. \A r \in raw : r.ver = source[k] => r = c
    BY <1>1 DEF IInv, RawInv, RecordsUnique
<1>6. source[k] \in Staged(k)
    <2>1. \A u \in raw : u.ver.pk = k =>
            \/ u.ver.at < c.ver.at
            \/ u.ver.at = c.ver.at /\ u.rid <= c.rid
        BY <1>1, <1>3, <1>4, <1>5
    <2> QED BY <1>1, <1>2, <2>1 DEF Staged
<1>7. ASSUME NEW v \in Staged(k) PROVE v = source[k]
    <2>1. PICK s \in raw : /\ v = s.ver /\ s.ver.pk = k
                           /\ c.ver.at < s.ver.at \/ c.ver.at = s.ver.at
        BY <1>1, <1>2 DEF Staged
    <2>2. ~(s.ver.at < c.ver.at)
        BY <1>3, <2>1
    <2> QED BY <1>1, <1>4, <2>1, <2>2
<1> QED BY <1>6, <1>7

-----------------------------------------------------------------------------
(* Theorems.                                                                *)

\* Every variable keeps its type, whatever the order of scripts, passes and loads.
THEOREM TypeCorrect == Spec => []TypeOK
<1>1. IInv => TypeOK
    BY DEF IInv
<1> QED BY Invariance, <1>1, PTL

\* A row that RAW lacks behind the watermark was late or the history load moved
\* the watermark over it (build_incremental_query, newest_watermark and
\* load_verified_claim_history.sql together skip nothing else).
THEOREM MissedAlwaysExplained == Spec => []MissedIsExplained
<1>1. IInv => MissedIsExplained
    BY DEF IInv
<1> QED BY Invariance, <1>1, PTL

\* Once a row's current version is captured, current_raw_records shows it and
\* nothing else, however late its versions were captured, unless a constant
\* timestamp put it behind a version of its own.
THEOREM StagingAlwaysFollows == Spec => []StagingFollowsSource
BY Invariance, StagingFollows, PTL

\* After a complete reconciliation of a source nobody wrote to, no pass inserts a
\* record, wherever the history load has put the watermark.
THEOREM ReplayInsertsNone == Spec => ReplayInsertsNothing
<1>1. IInv /\ [Next]_vars => [settled /\ CaptureTable => raw' = raw]_vars
    <2> SUFFICES ASSUME IInv, settled, CaptureTable PROVE raw' = raw
        OBVIOUS
    <2>1. Unrepresented = {}
        BY SelectedCurrent DEF Unrepresented, IInv, RawInv, SettledCaptured
    <2> QED BY <2>1 DEF CaptureTable
<1> QED BY Invariance, <1>1, PTL DEF Spec, ReplayInsertsNothing

-----------------------------------------------------------------------------
(* What reconciliation leaves in staging.                                   *)

\* Only DqClaim is ever deleted softly, and it is not among the rows that a script
\* stamps behind a version of their own.
DeletedInv ==
    /\ \A u \in history : u.body = "deleted" => u.pk = DqClaim
    /\ overtaken \subseteq {Customer, T4Claim}

\* A commit keeps DeletedInv when the deletions it adds are of the DQ claim.
LEMMA NewVersionsDeleted ==
    ASSUME DeletedInv, NEW new, Commit(new), overtaken' \subseteq {Customer, T4Claim},
           \A v \in Current(new) \ Current(source) : v.body = "deleted" => v.pk = DqClaim
    PROVE  DeletedInv'
<1>1. history' = history \cup (Current(new) \ Current(source))
  BY DEF Commit
<1> QED BY <1>1 DEF DeletedInv

\* A commit of one row adds no other version.
LEMMA RowDeleted ==
    ASSUME TypeOK, DeletedInv, NEW k \in Keys, NEW t, NEW b, Commit(WithRow(k, t, b)),
           b = "deleted" => k = DqClaim, overtaken' \subseteq {Customer, T4Claim}
    PROVE  DeletedInv'
<1>1. ASSUME NEW v \in Current(WithRow(k, t, b)) \ Current(source)
      PROVE  v = [pk |-> k, at |-> t, body |-> b]
  BY DEF Current, WithRow, TypeOK
<1> QED BY <1>1, NewVersionsDeleted

\* The scripts and the application's updates delete nothing but the DQ claim.
LEMMA ScriptDeleted ==
    ASSUME TypeOK, DeletedInv, Script \/ \E k \in {Customer, T4Claim} : Update(k)
    PROVE  DeletedInv'
<1> USE RowsAreKeys
<1>1. overtaken \subseteq {Customer, T4Claim}
  BY DEF DeletedInv
<1>2. ASSUME NEW k \in {Customer, T4Claim}, NEW t, Stamp(k, t)
      PROVE  overtaken' \subseteq {Customer, T4Claim}
  BY <1>1, <1>2 DEF Stamp
<1>3. CASE InsertLate(LateClaim, LateAt) \/ InsertLate(LateExisting, LateExistingAt)
  BY <1>1, <1>3, RowDeleted DEF InsertLate
<1>4. CASE MutateLateExisting
  BY <1>1, <1>4, RowDeleted DEF MutateLateExisting
<1>5. CASE \E k \in {TxnClaim, CdcClaim} : InsertAtClock(k)
  BY <1>1, <1>5, RowDeleted DEF InsertAtClock
<1>6. CASE SoftDeleteClaim
  BY <1>1, <1>6, RowDeleted DEF SoftDeleteClaim
<1>7. CASE InjectInvalidPayment
  BY <1>1, <1>7, RowDeleted DEF InjectInvalidPayment
<1>8. CASE RepairInvalidPayment
  BY <1>1, <1>8, RowDeleted DEF RepairInvalidPayment
<1>9. CASE ApplyCustomerHistory
  BY <1>2, <1>9, RowDeleted DEF ApplyCustomerHistory
<1>10. CASE ApplyT4
  <2> DEFINE pay  == [pk |-> T4Payment, at |-> EventAt, body |-> "initial"]
             paid == [pk |-> T4Claim, at |-> EventAt, body |-> "changed"]
             new  == [source EXCEPT
                        ![T4Claim] = IF source[T4Claim].body = "changed" THEN @ ELSE paid,
                        ![T4Payment] = IF source[T4Payment] = None THEN pay ELSE @]
  <2>1. Commit(new)
    BY <1>10 DEF ApplyT4
  <2>2. \A k \in Keys : new[k] \in {source[k], pay, paid}
    BY DEF TypeOK
  <2>3. \A v \in Current(new) \ Current(source) : v.body # "deleted"
    <3>1. \A v \in Current(new) \ Current(source) : v \in {pay, paid}
      BY <2>2 DEF Current
    <3>2. pay.body = "initial" /\ paid.body = "changed"
      OBVIOUS
    <3> QED BY <3>1, <3>2
  <2>4. overtaken' \subseteq {Customer, T4Claim}
    BY <1>1, <1>2, <1>10 DEF ApplyT4
  <2> QED BY <2>1, <2>3, <2>4, NewVersionsDeleted
<1>11. CASE CdcUpdate
  BY <1>1, <1>11, RowDeleted DEF CdcUpdate
<1>12. CASE CdcDelete
  <2>1. Commit([source EXCEPT ![CdcClaim] = None]) /\ UNCHANGED overtaken
    BY <1>12 DEF CdcDelete
  <2>2. Current([source EXCEPT ![CdcClaim] = None]) \subseteq Current(source)
    BY DEF Current, TypeOK
  <2> QED BY <1>1, <2>1, <2>2, NewVersionsDeleted
<1>13. ASSUME NEW k \in {Customer, T4Claim}, Update(k) PROVE DeletedInv'
  BY <1>2, <1>13, RowDeleted DEF Update
<1> QED BY <1>3, <1>4, <1>5, <1>6, <1>7, <1>8, <1>9, <1>10, <1>11, <1>12, <1>13 DEF Script

\* Deletions are those of the DQ claim, in every run of the scripts.
LEMMA DeletedAlways == Spec => [](IInv /\ DeletedInv)
<1>1. Init => DeletedInv
  <2> SUFFICES ASSUME Init PROVE DeletedInv
    OBVIOUS
  <2>1. \A k \in Keys : source[k] # None => source[k].body \in {"initial", "other"}
    BY DEF Init
  <2> QED BY <2>1 DEF Init, DeletedInv, Current
<1>2. IInv /\ DeletedInv /\ [Next]_vars => DeletedInv'
  <2> SUFFICES ASSUME IInv, DeletedInv, [Next]_vars PROVE DeletedInv'
    OBVIOUS
  <2>1. TypeOK
    BY DEF IInv
  <2>2. CASE Script \/ \E k \in {Customer, T4Claim} : Update(k)
    BY <2>1, <2>2, ScriptDeleted
  <2>3. CASE UNCHANGED <<history, overtaken>>
    BY <2>3 DEF DeletedInv
  <2> QED BY <2>2, <2>3 DEF Next, BeginPass, CaptureTable, PassFails, LoadRaw, LoadMark,
                            LoadStops, vars
<1> QED BY Invariance, <1>1, <1>2, PTL DEF Spec

\* RAW is finite: it has each version once.
LEMMA RawFinite ==
    ASSUME TypeOK, RecordsUnique
    PROVE  IsFiniteSet(raw)
<1> DEFINE Parts == Keys \X (Times \X Bodies)
           f == [r \in raw |-> <<r.ver.pk, <<r.ver.at, r.ver.body>>>>]
<1>1. IsFiniteSet(Times)
  BY TimesOrdered, FS_Interval
<1>2. IsFiniteSet(Bodies)
  <2>1. \A x : IsFiniteSet({x})
    BY FS_Singleton
  <2>2. IsFiniteSet({"initial"} \cup {"changed"})
    BY <2>1, FS_AddElement
  <2>3. IsFiniteSet({"initial"} \cup {"changed"} \cup {"deleted"})
    BY <2>2, FS_AddElement
  <2>4. IsFiniteSet({"initial"} \cup {"changed"} \cup {"deleted"} \cup {"other"})
    BY <2>3, FS_AddElement
  <2>5. IsFiniteSet({"initial"} \cup {"changed"} \cup {"deleted"} \cup {"other"} \cup {"loaded"})
    BY <2>4, FS_AddElement
  <2>6. Bodies = {"initial"} \cup {"changed"} \cup {"deleted"} \cup {"other"} \cup {"loaded"}
    BY BodiesKnown
  <2> QED BY <2>5, <2>6
<1>3. IsFiniteSet(Times \X Bodies)
  BY <1>1, <1>2, FS_Product
<1>4. IsFiniteSet(Parts)
  BY <1>3, KeysFinite, FS_Product
<1>5. \A r \in raw : r.ver \in Version
  BY DEF TypeOK
<1>6. f \in [raw -> Parts]
  BY <1>5 DEF Version
<1>7. ASSUME NEW r \in raw, NEW q \in raw, f[r] = f[q] PROVE r = q
  <2>1. r.ver.pk = q.ver.pk /\ r.ver.at = q.ver.at /\ r.ver.body = q.ver.body
    BY <1>7
  <2>2. r.ver = q.ver
    BY <1>5, <2>1 DEF Version
  <2> QED BY <2>2 DEF RecordsUnique
<1>8. f \in Injection(raw, Parts)
  BY <1>6, <1>7 DEF Injection, IsInjective
<1> QED BY <1>4, <1>8, FS_Injection

\* Staging shows something of every key that RAW has a version of.
LEMMA StagedExists ==
    ASSUME TypeOK, RecordsUnique, NEW v \in Captured
    PROVE  \E u \in Captured : u.pk = v.pk /\ u \in Staged(v.pk)
<1> DEFINE mine == {r \in raw : r.ver.pk = v.pk}
           Ahead(r, q) == r.ver.at > q.ver.at \/ (r.ver.at = q.ver.at /\ r.rid >= q.rid)
           R == {p \in mine \X mine : Ahead(p[1], p[2])}
<1>1. \A r \in raw : r.rid \in Nat /\ r.ver.at \in Nat
  BY DEF TypeOK, Version
<1>2. mine # {}
  BY DEF Captured
<1>3. mine \in SUBSET raw /\ IsFiniteSet(mine)
  BY RawFinite, FS_Subset
<1>4. \A r, q \in mine : <<r, q>> \in R <=> Ahead(r, q)
  OBVIOUS
<1>5. \A r \in mine : r.rid \in Nat /\ r.ver.at \in Nat
  BY <1>1
<1> HIDE DEF mine, R
<1>6. \A r, q \in mine : r = q \/ <<r, q>> \in R \/ <<q, r>> \in R
  <2> SUFFICES ASSUME NEW r \in mine, NEW q \in mine
               PROVE  <<r, q>> \in R \/ <<q, r>> \in R
    OBVIOUS
  <2>1. r.ver.at \in Nat /\ q.ver.at \in Nat /\ r.rid \in Nat /\ q.rid \in Nat
    BY <1>5
  <2>2. Ahead(r, q) \/ Ahead(q, r)
    BY <2>1
  <2> QED BY <1>4, <2>2
<1>7. \A r, q, s \in mine : <<r, q>> \in R /\ <<q, s>> \in R => <<r, s>> \in R
  <2> SUFFICES ASSUME NEW r \in mine, NEW q \in mine, NEW s \in mine,
                      <<r, q>> \in R, <<q, s>> \in R
               PROVE  <<r, s>> \in R
    OBVIOUS
  <2>1. Ahead(r, q) /\ Ahead(q, s)
    BY <1>4
  <2>2. /\ r.ver.at \in Nat /\ q.ver.at \in Nat /\ s.ver.at \in Nat
        /\ r.rid \in Nat /\ q.rid \in Nat /\ s.rid \in Nat
    BY <1>5
  <2>3. Ahead(r, s)
    BY <2>1, <2>2
  <2> QED BY <1>4, <2>3
<1>8. PICK r \in mine : \A q \in mine : r = q \/ <<r, q>> \in R
  BY <1>2, <1>3, <1>6, <1>7, FirstOfFinite
<1>9. ASSUME NEW q \in mine
      PROVE  q.ver.at < r.ver.at \/ (q.ver.at = r.ver.at /\ q.rid <= r.rid)
  <2>1. r = q \/ Ahead(r, q)
    BY <1>4, <1>8
  <2>2. r.ver.at \in Nat /\ q.ver.at \in Nat /\ r.rid \in Nat /\ q.rid \in Nat
    BY <1>5
  <2> QED BY <2>1, <2>2
<1> QED BY <1>3, <1>9 DEF mine, Staged, Captured


\* Of every row, RAW's newest record says what the source says about deletion.
LEMMA MirrorsWhenSettled ==
    ASSUME IInv, DeletedInv, settled
    PROVE  /\ Current(source) \subseteq Captured
           /\ LiveStaged =
                LiveSource \cup {v.pk : v \in {u \in Captured : source[u.pk] = None}}
<1>1. TypeOK /\ SourceInv /\ RecordsUnique /\ StagingFollowsSource
  BY StagingFollows DEF IInv, RawInv
<1>2. Current(source) \subseteq Captured
  BY DEF IInv, RawInv, SettledCaptured
<1>3. ASSUME NEW k \in Keys, source[k] # None
      PROVE  source[k] \in Captured /\ source[k].pk = k /\ source[k] \in history
  BY <1>1, <1>2, <1>3 DEF Current, SourceInv, Keyed, HistoryCovers
<1>4. ASSUME NEW v \in Captured
      PROVE  /\ v.pk \in Keys
             /\ v.body = "deleted" => v.pk = DqClaim /\ v \in history
  <2>1. v \in history \cup HistoryVersions
    BY DEF IInv, RawInv, CapturedKnown
  <2>2. v \in Version
    BY <1>1, <2>1, HistoryTyped DEF TypeOK
  <2>3. v \in HistoryVersions => v.body = "loaded"
    BY DEF HistoryVersions
  <2> QED BY <2>1, <2>2, <2>3 DEF DeletedInv, Version
<1>5. source[DqClaim] # None => Staged(DqClaim) = {source[DqClaim]}
  <2>1. DqClaim \in Keys /\ DqClaim \notin {Customer, T4Claim}
    BY RowsAreKeys, RowsApart
  <2>2. ~Shadowed(DqClaim)
    BY <2>1 DEF Shadowed, DeletedInv, HistoryVersions
  <2> QED BY <1>1, <1>3, <2>1, <2>2 DEF StagingFollowsSource
<1>6. ASSUME NEW k \in Keys, NEW v \in Staged(k) PROVE v \in Captured /\ v.pk = k
  BY DEF Staged, Captured
<1>7. ASSUME NEW k \in LiveStaged, source[k] # None PROVE k \in LiveSource
  <2>1. PICK v \in Staged(k) : v.body # "deleted"
    BY DEF LiveStaged
  <2>2. k \in Keys
    BY DEF LiveStaged
  <2>3. source[k].body = "deleted" => k = DqClaim
    BY <1>3, <1>7, <2>2 DEF DeletedInv
  <2>4. source[k].body # "deleted"
    BY <1>5, <1>7, <2>1, <2>3
  <2> QED BY <1>7, <2>2, <2>4 DEF LiveSource
<1>8. ASSUME NEW k \in LiveStaged, source[k] = None
      PROVE  \E v \in Captured : v.pk = k /\ source[v.pk] = None
  BY <1>6, <1>8 DEF LiveStaged
<1>9. ASSUME NEW v \in Captured, source[v.pk] # None => source[v.pk].body # "deleted"
      PROVE  v.pk \in LiveStaged
  <2>1. PICK u \in Captured : u.pk = v.pk /\ u \in Staged(v.pk)
    BY <1>1, StagedExists
  <2>2. u.body # "deleted"
    <3> SUFFICES ASSUME u.body = "deleted" PROVE FALSE
      OBVIOUS
    <3>1. u.pk = DqClaim /\ u \in history
      BY <1>4
    <3>2. CASE source[DqClaim] = None
      BY <1>1, <3>1, <3>2, RowsAreKeys, RowsApart DEF SourceInv, AbsentIsNew
    <3>3. CASE source[DqClaim] # None
      BY <1>5, <1>9, <2>1, <3>1, <3>3
    <3> QED BY <3>2, <3>3
  <2> QED BY <1>4, <2>1, <2>2 DEF LiveStaged
<1>10. LiveSource \subseteq LiveStaged
  <2> SUFFICES ASSUME NEW k \in LiveSource PROVE k \in LiveStaged
    OBVIOUS
  <2>1. k \in Keys /\ source[k] # None /\ source[k].body # "deleted"
    BY DEF LiveSource
  <2> QED BY <1>3, <1>9, <2>1
<1>11. \A v \in Captured : source[v.pk] = None => v.pk \in LiveStaged
  BY <1>9
<1>12. \A k \in LiveStaged :
          k \in LiveSource \cup {v.pk : v \in {u \in Captured : source[u.pk] = None}}
  BY <1>7, <1>8
<1> QED BY <1>2, <1>10, <1>11, <1>12

\* After a complete reconciliation nothing was written in, staging has the rows the
\* source has, and those that were physically deleted after they had been captured
\* (reconcile_source_state.py and current_raw_records).
THEOREM ReconciliationAlwaysMirrors == Spec => []ReconciliationMirrors
<1>1. IInv /\ DeletedInv => ReconciliationMirrors
  BY MirrorsWhenSettled DEF ReconciliationMirrors
<1> QED BY <1>1, DeletedAlways, PTL

-----------------------------------------------------------------------------
(* Every table by itself implements VersionCapture.                         *)

\* What belongs to one table.
OfTable(t, S) == {v \in S : TableOf[v.pk] = t}
SourceOf(t)   == [k \in Keys |-> IF TableOf[k] = t THEN source[k] ELSE None]

Ingestion(t) == INSTANCE VersionCapture WITH
    source <- SourceOf(t), history <- OfTable(t, history), late <- OfTable(t, late),
    captured <- OfTable(t, Captured), mark <- mark[t]

\* A table that the history load does not touch, if it is run at all.
Unloaded(t) == MaxLoads = 0 \/ t # TableOf[T4Claim]

\* RAW and the watermark of the table stem from its batches.
FromBatches(t) ==
    /\ OfTable(t, Captured) \subseteq history
    /\ OfTable(t, jumped) = {}
    /\ mark[t] # None => \E v \in OfTable(t, Captured) : mark[t] = PosOf(v)
    /\ MaxLoads = 0 => ~loading

\* The operators of VersionOrder are the same in the instance.
LEMMA SameOperators ==
    ASSUME NEW t
    PROVE  /\ \A S : Ingestion(t)!Current(S) = Current(S)
           /\ \A rank, p, q : Ingestion(t)!After(rank, p, q) = After(rank, p, q)
           /\ \A v : Ingestion(t)!PosOf(v) = PosOf(v)
           /\ Ingestion(t)!Version = Version
BY DEF Ingestion!Current, Current, Ingestion!After, After, Ingestion!PosOf, PosOf,
       Ingestion!Version, Version

\* At most one row of the table is written.
OneRowWritten(t) ==
    \E k \in Keys : \A j \in Keys \ {k} : TableOf[j] = t => source'[j] = source[j]

\* A script that writes one row.
LEMMA RowOfTable ==
    ASSUME IInv, NEW t, NEW k \in Keys, NEW at, NEW b, Commit(WithRow(k, at, b))
    PROVE  OneRowWritten(t)
<1>1. source \in [Keys -> Version \cup {None}]
  BY DEF IInv, TypeOK
<1>2. source' = WithRow(k, at, b)
  BY CommitSelf
<1> QED BY <1>1, <1>2 DEF WithRow, OneRowWritten

\* A script or an update writes at most one row of a table.
LEMMA RowPerTable ==
    ASSUME IInv, NEW t, Script \/ \E k \in {Customer, T4Claim} : Update(k)
    PROVE  OneRowWritten(t)
<1> USE RowsAreKeys
<1>0. source \in [Keys -> Version \cup {None}]
  BY DEF IInv, TypeOK
<1>1. ASSUME NEW k \in Keys, NEW at, InsertLate(k, at) PROVE OneRowWritten(t)
  <2>1. Commit(WithRow(k, at, "initial"))
    BY <1>1 DEF InsertLate
  <2> QED BY <2>1, RowOfTable
<1>2. CASE InsertLate(LateClaim, LateAt) \/ InsertLate(LateExisting, LateExistingAt)
  BY <1>1, <1>2
<1>3. ASSUME NEW k \in {TxnClaim, CdcClaim}, InsertAtClock(k) PROVE OneRowWritten(t)
  BY <1>3, RowOfTable DEF InsertAtClock
<1>4. CASE MutateLateExisting
  BY <1>4, RowOfTable DEF MutateLateExisting
<1>5. CASE SoftDeleteClaim
  BY <1>5, RowOfTable DEF SoftDeleteClaim
<1>6. CASE InjectInvalidPayment
  <2>1. \/ Commit(WithRow(DqPayment, now, "initial"))
        \/ Commit(WithRow(DqPayment, Touch(DqPayment), "initial"))
    BY <1>6 DEF InjectInvalidPayment
  <2> QED BY <2>1, RowOfTable
<1>7. CASE RepairInvalidPayment
  BY <1>7, RowOfTable DEF RepairInvalidPayment
<1>8. CASE ApplyCustomerHistory
  BY <1>8, RowOfTable DEF ApplyCustomerHistory
<1>9. CASE ApplyT4
  <2>1. PICK pay, paid : source' = [source EXCEPT ![T4Claim] = paid, ![T4Payment] = pay]
    BY <1>9 DEF ApplyT4, Commit
  <2>2. \A j \in Keys \ {T4Claim, T4Payment} : source'[j] = source[j]
    BY <1>0, <2>1
  <2>3. CASE t = TableOf[T4Claim]
    BY <2>2, <2>3, ClaimsApart DEF OneRowWritten
  <2>4. CASE t # TableOf[T4Claim]
    BY <2>2, <2>4 DEF OneRowWritten
  <2> QED BY <2>3, <2>4
<1>10. CASE CdcUpdate
  BY <1>10, RowOfTable DEF CdcUpdate
<1>11. CASE CdcDelete
  <2>1. source' = [source EXCEPT ![CdcClaim] = None]
    BY <1>11, CommitSelf DEF CdcDelete
  <2> QED BY <1>0, <2>1 DEF OneRowWritten
<1>12. ASSUME NEW k \in {Customer, T4Claim}, Update(k) PROVE OneRowWritten(t)
  BY <1>12, RowOfTable DEF Update
<1> QED
  BY <1>2, <1>3, <1>4, <1>5, <1>6, <1>7, <1>8, <1>9, <1>10, <1>11, <1>12 DEF Script

\* A script is one write of the table, or none.
LEMMA WriteMaps ==
    ASSUME IInv, NEW t \in Tables, FromBatches(t), Write, NEW k \in Keys,
           \A j \in Keys \ {k} : TableOf[j] = t => source'[j] = source[j]
    PROVE  Ingestion(t)!Write \/ UNCHANGED Ingestion(t)!captureVars
<1> DEFINE fresh == Current(source') \ Current(source)
<1>1. /\ history' = history \cup fresh
      /\ late' = late \cup {v \in fresh : Behind(v)}
      /\ UNCHANGED <<raw, mark>>
      /\ source' \in [Keys -> Version \cup {None}]
  BY DEF Write, Commit
<1>2. OfTable(t, Captured)' = OfTable(t, Captured) /\ mark'[t] = mark[t]
  BY <1>1 DEF OfTable, Captured
<1>3. Keyed /\ Keyed'
  BY WriteHistory DEF IInv, SourceInv
<1>4. ASSUME NEW v \in fresh
      PROVE  v.pk \in Keys /\ v = source'[v.pk] /\ v # source[v.pk]
  BY <1>3 DEF Current, Keyed
<1>5. ASSUME NEW v \in OfTable(t, fresh) PROVE v = source'[k] /\ v.pk = k /\ v # source[k]
  <2>1. v \in fresh /\ TableOf[v.pk] = t
    BY DEF OfTable
  <2>2. v.pk \in Keys /\ v = source'[v.pk] /\ v # source[v.pk]
    BY <1>4, <2>1
  <2> QED BY <2>1, <2>2
<1>6. /\ OfTable(t, history)' = OfTable(t, history) \cup OfTable(t, fresh)
      /\ OfTable(t, late)' = OfTable(t, late) \cup {v \in OfTable(t, fresh) : Behind(v)}
  BY <1>1 DEF OfTable
<1>7. SourceOf(t)' = [j \in Keys |-> IF TableOf[j] = t /\ j = k THEN source'[j] ELSE SourceOf(t)[j]]
  BY DEF SourceOf
<1> HIDE DEF fresh
<1>8. CASE TableOf[k] # t \/ source'[k] \in {source[k], None}
  <2>1. OfTable(t, fresh) = {}
    <3> SUFFICES ASSUME NEW v \in OfTable(t, fresh) PROVE FALSE
      OBVIOUS
    <3>1. TableOf[v.pk] = t /\ v = source'[k] /\ v.pk = k /\ v # source[k] /\ v \in fresh
      BY <1>5 DEF OfTable
    <3>2. v # None
      BY <3>1 DEF fresh, Current
    <3> QED BY <1>8, <3>1, <3>2
  <2>2. OfTable(t, history)' = OfTable(t, history) /\ OfTable(t, late)' = OfTable(t, late)
    BY <1>6, <2>1
  <2>3. CASE TableOf[k] # t \/ source'[k] = source[k]
    <3>1. SourceOf(t)' = SourceOf(t)
      BY <1>7, <2>3 DEF SourceOf
    <3> QED BY <1>2, <2>2, <3>1 DEF Ingestion!captureVars
  <2>4. CASE TableOf[k] = t /\ source'[k] = None
    <3>1. SourceOf(t)' = [SourceOf(t) EXCEPT ![k] = None]
      BY <1>7, <2>4 DEF SourceOf
    <3> QED BY <1>2, <2>2, <3>1 DEF Ingestion!Write
  <2> QED BY <1>8, <2>3, <2>4
<1>9. CASE TableOf[k] = t /\ source'[k] # source[k] /\ source'[k] # None
  <2> DEFINE v == source'[k]
  <2>1. v \in Version /\ v.pk = k
    BY <1>1, <1>3, <1>9 DEF Keyed
  <2>2. v \in fresh
    <3>1. v \in Current(source')
      BY <1>9 DEF Current
    <3>2. ASSUME v \in Current(source) PROVE FALSE
      <4>1. PICK j \in Keys : source[j] = v /\ v # None
        BY <3>2 DEF Current
      <4>2. j = k
        BY <1>3, <2>1, <4>1 DEF Keyed
      <4> QED BY <1>9, <4>1, <4>2
    <3> QED BY <3>1, <3>2 DEF fresh
  <2>3. SourceOf(t)' = [SourceOf(t) EXCEPT ![v.pk] = v]
    BY <1>7, <1>9, <2>1 DEF SourceOf
  <2>4. OfTable(t, fresh) = {v}
    <3>1. v \in OfTable(t, fresh)
      BY <1>9, <2>1, <2>2 DEF OfTable
    <3> QED BY <1>5, <3>1
  <2>5. Behind(v) <=> \E u \in OfTable(t, history) : ~After(PgRank, v, u)
    <3>1. TableOf[v.pk] = t
      BY <1>9, <2>1
    <3>2. (\E u \in history : TableOf[u.pk] = t /\ ~After(PgRank, v, u)) <=>
              \E u \in OfTable(t, history) : ~After(PgRank, v, u)
      BY DEF OfTable
    <3>3. mark[t] # None /\ ~After(PgRank, v, mark[t]) =>
              \E u \in OfTable(t, history) : ~After(PgRank, v, u)
      <4> SUFFICES ASSUME mark[t] # None, ~After(PgRank, v, mark[t])
                   PROVE  \E u \in OfTable(t, history) : ~After(PgRank, v, u)
        OBVIOUS
      <4>1. PICK u \in OfTable(t, Captured) : mark[t] = PosOf(u)
        BY DEF FromBatches
      <4>2. u \in OfTable(t, history)
        BY DEF FromBatches, OfTable
      <4>3. ~After(PgRank, v, u)
        BY <4>1 DEF After, PosOf
      <4> QED BY <4>2, <4>3
    <3> HIDE DEF v
    <3> QED BY <3>1, <3>2, <3>3 DEF Behind
  <2> HIDE DEF v
  <2>6. OfTable(t, history)' = OfTable(t, history) \cup {v}
    BY <1>6, <2>4
  <2>7. OfTable(t, late)' = IF \E u \in OfTable(t, history) : ~After(PgRank, v, u)
                            THEN OfTable(t, late) \cup {v} ELSE OfTable(t, late)
    BY <1>6, <2>4, <2>5
  <2>8. v \in Ingestion(t)!Version
    BY <2>1, SameOperators
  <2>9. \A u : Ingestion(t)!After(PgRank, v, u) = After(PgRank, v, u)
    BY SameOperators
  <2> QED BY <1>2, <2>3, <2>6, <2>7, <2>8, <2>9 DEF Ingestion!Write
<1> QED BY <1>8, <1>9

\* A step that lets RAW grow, or stay, and leaves the source alone.
LEMMA CaptureMaps ==
    ASSUME IInv', NEW t \in Tables, FromBatches(t)', UNCHANGED <<source, history, late>>,
           Captured \subseteq Captured', mark'[t] = mark[t] \/ mark'[t] # None
    PROVE  Ingestion(t)!Capture
<1>1. /\ OfTable(t, Captured) \subseteq OfTable(t, Captured)'
      /\ OfTable(t, Captured)' \subseteq OfTable(t, history)
      /\ UNCHANGED <<SourceOf(t), OfTable(t, history), OfTable(t, late)>>
  BY DEF FromBatches, OfTable, SourceOf
<1>2. mark'[t] = mark[t] \/ \E v \in OfTable(t, Captured)' : mark'[t] = PosOf(v)
  BY DEF FromBatches
<1>3. ASSUME NEW v \in Current(SourceOf(t)) \ OfTable(t, late),
             mark'[t] # None, ~After(PgRank, v, mark'[t])
      PROVE  v \in OfTable(t, Captured)'
  <2>1. v \in Current(source) /\ v \in Current(source)' /\ TableOf[v.pk] = t
    <3>1. PICK j \in Keys : v = SourceOf(t)[j] /\ v # None
      BY DEF Current
    <3>2. TableOf[j] = t /\ v = source[j]
      BY <3>1 DEF SourceOf
    <3>3. v.pk = j
      BY <3>1, <3>2 DEF IInv, SourceInv, Keyed
    <3> QED BY <3>1, <3>2, <3>3 DEF Current
  <2>2. v \notin late'
    BY <1>3, <2>1 DEF OfTable
  <2>3. v \notin jumped'
    BY <2>1 DEF FromBatches, OfTable
  <2>4. v \in Captured'
    BY <1>3, <2>1, <2>2, <2>3 DEF IInv, MissedIsExplained
  <2> QED BY <2>1, <2>4 DEF OfTable
<1>4. Ingestion(t)!NoHole(OfTable(t, Captured)', mark'[t])
  BY <1>3, SameOperators DEF Ingestion!NoHole
<1>5. \A v : Ingestion(t)!PosOf(v) = PosOf(v)
  BY SameOperators
<1> QED BY <1>1, <1>2, <1>4, <1>5 DEF Ingestion!Capture

\* A batch takes the watermark in place, or the position of a version it captures.
LEMMA CaptureFromBatches ==
    ASSUME IInv, NEW t \in Tables, FromBatches(t), CaptureTable
    PROVE  FromBatches(t)' /\ Captured \subseteq Captured' /\ (mark'[t] = mark[t] \/ mark'[t] # None)
<1>1. /\ UNCHANGED <<source, history, jumped, loading>>
      /\ raw' = raw \cup {[ver |-> v, rid |-> ids] : v \in Unrepresented}
  BY DEF CaptureTable
<1>2. Selected \subseteq history /\ Unrepresented \cap Captured = {}
  BY SelectedCurrent DEF Unrepresented, IInv, SourceInv, HistoryCovers
<1>3. Captured' = Captured \cup Unrepresented /\ Selected \subseteq Captured'
  <2>1. Unrepresented \in SUBSET (history \cup HistoryVersions)
    BY <1>2 DEF Unrepresented
  <2>2. Captured' = Captured \cup Unrepresented
    BY <1>1, <1>2, <2>1, RecordsAdded DEF IInv, RawInv
  <2> QED BY <2>2 DEF Unrepresented
<1>4. PICK w \in NewestWatermark(Selected, mark[pos]) : mark' = [mark EXCEPT ![pos] = w]
  BY DEF CaptureTable
<1>5. w = mark[pos] \/ \E v \in Selected : w = PosOf(v)
  BY <1>4 DEF NewestWatermark, MaxWatermark, Latest
<1>6. \A v \in Selected : TableOf[v.pk] = pos
  BY DEF Selected, Incremental, Rows
<1>7. mark'[t] = mark[t] \/ \E v \in OfTable(t, Captured)' : mark'[t] = PosOf(v)
  <2>1. CASE t # pos
    BY <1>4, <2>1 DEF IInv, TypeOK
  <2>2. CASE t = pos
    <3>1. mark'[t] = w
      BY <1>4, <2>2 DEF IInv, TypeOK
    <3> QED BY <1>3, <1>5, <1>6, <2>2, <3>1 DEF OfTable
  <2> QED BY <2>1, <2>2
<1>8. \A v : PosOf(v) \in Position => PosOf(v) # None
  BY NoneFresh
<1>9. /\ OfTable(t, Captured)' \subseteq history'
      /\ OfTable(t, jumped)' = {}
      /\ OfTable(t, Captured) \subseteq OfTable(t, Captured)'
  BY <1>1, <1>2, <1>3 DEF FromBatches, OfTable, Unrepresented
<1>10. \A v \in OfTable(t, Captured)' : PosOf(v) \in Position
  <2>1. \A v \in history : PosOf(v) \in Position
    BY DEF IInv, TypeOK, PosOf, Position, Version
  <2> QED BY <1>1, <1>9, <2>1
<1> QED BY <1>1, <1>3, <1>7, <1>8, <1>9, <1>10 DEF FromBatches

\* Every step is a step of VersionCapture for the table, or none.
LEMMA TableStep ==
    ASSUME NEW t \in Tables, Unloaded(t), IInv, IInv', FromBatches(t), [Next]_vars
    PROVE  /\ FromBatches(t)'
           /\ Ingestion(t)!CaptureNext \/ UNCHANGED Ingestion(t)!captureVars
<1>1. CASE Script \/ \E k \in {Customer, T4Claim} : Update(k)
  <2>1. Write
    BY <1>1, InsertsWrite, UpdatesWrite, DemosWrite DEF Script
  <2>2. history \subseteq history' /\ UNCHANGED <<raw, mark, jumped, loading>>
    BY <2>1 DEF Write, Commit
  <2>3. FromBatches(t)'
    BY <2>2 DEF FromBatches, OfTable, Captured
  <2>4. Ingestion(t)!Write \/ UNCHANGED Ingestion(t)!captureVars
    BY <1>1, <2>1, RowPerTable, WriteMaps DEF OneRowWritten
  <2> QED BY <2>3, <2>4 DEF Ingestion!CaptureNext
<1>2. CASE CaptureTable
  <2>1. FromBatches(t)' /\ Captured \subseteq Captured' /\ (mark'[t] = mark[t] \/ mark'[t] # None)
    BY <1>2, CaptureFromBatches
  <2>2. UNCHANGED <<source, history, late>>
    BY <1>2 DEF CaptureTable
  <2>3. Ingestion(t)!Capture
    BY <2>1, <2>2, CaptureMaps
  <2> QED BY <2>1, <2>3 DEF Ingestion!CaptureNext
<1>3. CASE UNCHANGED <<source, history, late, raw, mark, jumped>> /\ (loading' => loading)
  BY <1>3 DEF FromBatches, OfTable, SourceOf, Captured, Ingestion!captureVars
<1>4. CASE LoadRaw
  <2>1. t # TableOf[T4Claim]
    BY <1>4 DEF LoadRaw, Unloaded, IInv, TypeOK
  <2>2. /\ UNCHANGED <<source, history, late, mark, jumped>>
        /\ raw' = raw \cup {[ver |-> v, rid |-> ids] : v \in HistoryVersions \ Captured}
    BY <1>4 DEF LoadRaw
  <2>3. Captured' = Captured \cup (HistoryVersions \ Captured)
    <3> DEFINE new == HistoryVersions \ Captured
    <3>1. new \in SUBSET (history \cup HistoryVersions) /\ new \cap Captured = {}
      OBVIOUS
    <3>2. raw' = raw \cup {[ver |-> v, rid |-> ids] : v \in new} /\ UNCHANGED history
      BY <2>2
    <3> HIDE DEF new
    <3>3. Captured' = Captured \cup new
      BY <3>1, <3>2, RecordsAdded DEF IInv, RawInv
    <3> QED BY <3>3 DEF new
  <2>4. OfTable(t, Captured)' = OfTable(t, Captured)
    BY <2>1, <2>3 DEF OfTable, HistoryVersions
  <2>5. MaxLoads # 0
    BY <1>4 DEF LoadRaw, IInv, TypeOK
  <2> QED BY <2>2, <2>4, <2>5 DEF FromBatches, OfTable, SourceOf, Ingestion!captureVars
<1>5. CASE LoadMark
  <2>1. t # TableOf[T4Claim] /\ MaxLoads # 0
    BY <1>5 DEF LoadMark, Unloaded, FromBatches
  <2>2. /\ UNCHANGED <<source, raw, history, late>>
        /\ mark' = [mark EXCEPT ![TableOf[T4Claim]] = [pk |-> T4Claim, at |-> HistoryAt]]
        /\ \A v \in jumped' \ jumped : v \in Rows(TableOf[T4Claim])
    BY <1>5 DEF LoadMark
  <2>3. mark'[t] = mark[t]
    BY <2>1, <2>2 DEF IInv, TypeOK
  <2>4. OfTable(t, jumped)' = {}
    BY <2>1, <2>2 DEF OfTable, Rows, FromBatches
  <2> QED BY <2>1, <2>2, <2>3, <2>4
      DEF FromBatches, OfTable, SourceOf, Captured, Ingestion!captureVars
<1>6. CASE LoadStops \/ PassFails \/ \E kind \in {"ingest", "reconcile"} : BeginPass(kind)
  BY <1>3, <1>6 DEF LoadStops, PassFails, BeginPass
<1>7. CASE UNCHANGED vars
  BY <1>3, <1>7 DEF vars
<1> QED BY <1>1, <1>2, <1>4, <1>5, <1>6, <1>7 DEF Next

\* Seen through RAW and its watermark, every table keeps the promise that the
\* batches of BatchIngestion keep: captures are atomic and leave no hole, whatever
\* the scripts write between the tables of a pass.  The history load breaks it for
\* the table of claims only.
THEOREM TablesCaptureAtomically ==
    ASSUME NEW t \in Tables, MaxLoads = 0 \/ t # TableOf[T4Claim]
    PROVE  Spec => Ingestion(t)!CaptureSpec
<1>1. Unloaded(t)
  BY DEF Unloaded
<1>2. Init => FromBatches(t) /\ Ingestion(t)!CaptureInit
  <2> SUFFICES ASSUME Init PROVE FromBatches(t) /\ Ingestion(t)!CaptureInit
    OBVIOUS
  <2>1. source \in [Keys -> Version \cup {None}] /\ Keyed
    BY InitSource DEF TypeOK, SourceInv
  <2>2. /\ Captured = {} /\ jumped = {} /\ late = {} /\ mark[t] = None /\ ~loading
        /\ history = Current(source)
    BY DEF Init, Captured
  <2>3. /\ SourceOf(t) \in [Keys -> Version \cup {None}]
        /\ \A k \in Keys : SourceOf(t)[k] # None => SourceOf(t)[k].pk = k
    BY <2>1 DEF SourceOf, Keyed
  <2>4. OfTable(t, history) = Current(SourceOf(t))
    BY <2>1, <2>2 DEF OfTable, Current, SourceOf, Keyed
  <2>5. FromBatches(t)
    BY <2>2 DEF FromBatches, OfTable
  <2>6. /\ OfTable(t, late) = {} /\ OfTable(t, Captured) = {}
        /\ Ingestion(t)!Version = Version
        /\ Ingestion(t)!Current(SourceOf(t)) = Current(SourceOf(t))
    BY <2>2, SameOperators DEF OfTable
  <2> QED BY <2>2, <2>3, <2>4, <2>5, <2>6 DEF Ingestion!CaptureInit
<1>3. IInv /\ IInv' /\ FromBatches(t) /\ [Next]_vars =>
          FromBatches(t)' /\ [Ingestion(t)!CaptureNext]_(Ingestion(t)!captureVars)
  BY <1>1, TableStep
<1> QED BY Invariance, <1>2, <1>3, PTL DEF Spec, Ingestion!CaptureSpec
=============================================================================
