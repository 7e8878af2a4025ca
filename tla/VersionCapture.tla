----------------------------- MODULE VersionCapture -----------------------------
(***************************************************************************)
(* What the ingestion of one table promises, whatever runs there are: the  *)
(* captured versions only grow, with versions the table really held, and   *)
(* the watermark moves only together with them and never over a current    *)
(* version that is not captured.  A version is exempt when it is late,     *)
(* written at or before a position the table had already used: the         *)
(* watermark cannot see it, and a reconciliation has to bring it in.       *)
(*                                                                         *)
(* The state is what a reader of RAW and of the watermark table can        *)
(* observe.  BatchIngestion implements it with overlapping batches of many *)
(* statements, SourceScenarios once for every table of its passes.         *)
(***************************************************************************)
EXTENDS VersionOrder

VARIABLES
    source,     \* current version of each key
    history,    \* every version the table ever held
    late,       \* versions written behind a used position
    captured,   \* versions in RAW
    mark        \* committed watermark

captureVars == <<source, history, late, captured, mark>>

\* The table may hold rows before anything is captured.
CaptureInit ==
    /\ source \in [Keys -> Version \cup {None}]
    /\ \A k \in Keys : source[k] # None => source[k].pk = k
    /\ history = Current(source) /\ late = {}
    /\ captured = {}
    /\ mark = None

\* The source is written freely; RAW and the watermark do not follow by itself.
Write ==
    /\ \/ \E v \in Version :
             /\ source' = [source EXCEPT ![v.pk] = v]
             /\ history' = history \cup {v}
             /\ late' = IF \E u \in history : ~After(PgRank, v, u)
                        THEN late \cup {v} ELSE late
       \/ \E k \in Keys :
             /\ source' = [source EXCEPT ![k] = None]
             /\ UNCHANGED <<history, late>>
    /\ UNCHANGED <<captured, mark>>

\* No current in-order version at or before position m is missing from S.
NoHole(S, m) ==
    \A v \in Current(source) \ late :
        m # None /\ ~After(PgRank, v, m) => v \in S

\* One atomic capture.  The new watermark is where a captured version stands,
\* and need not be past the old one.
Capture ==
    /\ captured \subseteq captured'
    /\ captured' \subseteq history
    /\ \/ mark' = mark
       \/ \E v \in captured' : mark' = PosOf(v)
    /\ NoHole(captured', mark')
    /\ UNCHANGED <<source, history, late>>

CaptureNext == Write \/ Capture

CaptureSpec == CaptureInit /\ [][CaptureNext]_captureVars
=============================================================================
