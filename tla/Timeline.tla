------------------------------ MODULE Timeline ------------------------------
(***************************************************************************)
(* The timeline of one session: the tailer and the log it appends to, as    *)
(* getOrCreateSessionLog puts them together.  The two meet in sl.append,    *)
(* which waits for sl.mu; else each goes its own way.                       *)
(***************************************************************************)
EXTENDS GamelogTailer, SessionLog

timelineVars == <<tailVars, vars>>

TimelineInit == TailInit /\ Init

AppendLine == EmitLine /\ AppendEvent
TailerAlone == (Container \/ Polling) /\ UNCHANGED vars
LogAlone == (Close \/ \E c \in Clients : Handler(c)) /\ UNCHANGED tailVars

TimelineNext == AppendLine \/ TailerAlone \/ LogAlone

TimelineSpec == TimelineInit /\ [][TimelineNext]_timelineVars

-----------------------------------------------------------------------------
(* The line that the i-th event sent to client c carries, and its number.    *)
Sent(c, i) == emitted[got[c][i]]
Number(line) == line[1][1]

(* What a connected client was sent are lines of the game, whole unless a    *)
(* long one was written, in the order they were written and none twice,      *)
(* wherever it connected, whatever it missed, and however the file was cut   *)
(* or reset on the way (gamelog.go:80-110 and 161-205).                      *)
ClientsGetLines ==
  \A c \in subs :
    /\ \A i \in DOMAIN got[c] :
         /\ got[c][i] \in DOMAIN emitted
         /\ long \/ Sent(c, i) = Line(Number(Sent(c, i)), Sent(c, i)[1][3])
    /\ \A i, j \in DOMAIN got[c] : i < j => Number(Sent(c, i)) < Number(Sent(c, j))
=============================================================================
