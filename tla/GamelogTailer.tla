---------------------------- MODULE GamelogTailer ----------------------------
(***************************************************************************)
(* startGamelogTailer: the goroutine that polls the gamelog.txt of a user's *)
(* running game and hands every complete line to the session log.  The      *)
(* other side of the file is the container: link-gamelog.sh truncates it    *)
(* before the game starts, the game appends to it and may reset it.         *)
(*                                                                         *)
(* A file is a sequence of pieces; a line n of length l is the pieces       *)
(* <<n, 1, l>> ... <<n, l, l>>, the last of which carries the newline.  One *)
(* poll is two system calls, Stat and Read, and the game can write or reset *)
(* the file between them; what was read is then handed over line by line.   *)
(***************************************************************************)
EXTENDS Naturals, SequencesExt

CONSTANTS
  Absent,      \* the file does not exist
  Lengths,     \* the lengths of a line
  ReadSize,    \* len(tmp), 4096 bytes in the code
  BufCap,      \* the largest buffer kept, 65536 bytes in the code
  MaxLines,    \* bound on the lines the game writes
  MaxResets,   \* bound on the resets of the file while the game runs
  SlowGame     \* no game writes what the tailer had read within one poll

ASSUME LengthsAssumption == Lengths # {} /\ Lengths \subseteq Nat \ {0}
ASSUME ReadAssumption == ReadSize \in Nat \ {0} /\ BufCap \in Nat
ASSUME ResetsAssumption == MaxLines \in Nat /\ MaxResets \in Nat
ASSUME SlowGameAssumption == SlowGame \in BOOLEAN
ASSUME AbsentAssumption == Absent \notin Seq(Nat \X Nat \X Nat)

VARIABLES
  file,      \* the content of gamelog.txt, or Absent
  lines,     \* the lines begun so far, earlier sessions included
  first,     \* the first line of this session, 0 until link-gamelog.sh ran
  resets,    \* resets of the file since then
  long,      \* history: a line was begun that may not fit the buffer
  unnoticed, \* the file was reset below pos and no Stat followed yet
  tailer,    \* where the goroutine is
  pos,       \* its read offset
  buf,       \* the bytes read and not yet part of a complete line
  emitted    \* the lines given to sl.append

game == <<file, lines, first, resets, long>>
tailVars == <<game, unnoticed, tailer, pos, buf, emitted>>

Line(n, l) == [k \in 1..l |-> <<n, k, l>>]
Completes(piece) == piece[2] = piece[3]
Ends(s) == {i \in DOMAIN s : Completes(s[i])}
(* A line of length l never fills the buffer, nor does the read that         *)
(* completes it.                                                             *)
Fits(l) == l - 1 + ReadSize <= BufCap
Size == IF file = Absent THEN 0 ELSE Len(file)

(* The file of an earlier session may still be there.                        *)
TailInit ==
  /\ \/ file = Absent /\ lines = 0 /\ long = FALSE
     \/ lines = 1 /\ \E l \in Lengths : file = Line(1, l) /\ long = ~Fits(l)
  /\ first = 0 /\ resets = 0 /\ unnoticed = FALSE
  /\ tailer = "open" /\ pos = 0 /\ buf = <<>> /\ emitted = <<>>

-----------------------------------------------------------------------------
(* The container.                                                            *)

Truncate ==
  /\ file' = <<>>
  /\ unnoticed' = (unnoticed \/ pos > 0)
  /\ UNCHANGED <<lines, long, tailer, pos, buf, emitted>>

LinkGamelog ==
  /\ first = 0
  /\ first' = lines + 1
  /\ Truncate
  /\ UNCHANGED resets

GameResets ==
  /\ first # 0 /\ resets < MaxResets
  /\ resets' = resets + 1
  /\ Truncate
  /\ UNCHANGED first

(* The next piece of the line in progress, or the first one of a new line.   *)
NextPieces ==
  IF file # <<>> /\ ~Completes(Last(file))
  THEN {<<Last(file)[1], Last(file)[2] + 1, Last(file)[3]>>}
  ELSE {<<lines + 1, 1, l>> : l \in Lengths}

GameWrites ==
  /\ first # 0
  /\ SlowGame /\ unnoticed => Size + 1 < pos
  /\ \E piece \in NextPieces :
       /\ piece[1] <= MaxLines
       /\ file' = Append(file, piece)
       /\ lines' = piece[1]
       /\ long' = (long \/ ~Fits(piece[3]))
  /\ UNCHANGED <<first, resets, unnoticed, tailer, pos, buf, emitted>>

-----------------------------------------------------------------------------
(* The goroutine.  It retries os.Open until the file is there, 30 s at most. *)

Open ==
  /\ tailer = "open" /\ file # Absent
  /\ tailer' = "poll"
  /\ UNCHANGED <<game, unnoticed, pos, buf, emitted>>

GiveUp ==
  /\ tailer = "open" /\ file = Absent
  /\ tailer' = "gone"
  /\ UNCHANGED <<game, unnoticed, pos, buf, emitted>>

(* sl.done is closed; the goroutine only looks while it waits for a poll.    *)
Stopped ==
  /\ tailer = "poll"
  /\ tailer' = "gone"
  /\ UNCHANGED <<game, unnoticed, pos, buf, emitted>>

Shrank == Size < pos

(* Mistake: the buffer dropped, but no Seek.                                 *)
DropOnly == buf' = <<>> /\ UNCHANGED pos
Rewind == pos' = 0 /\ buf' = <<>>

Stat ==
  /\ tailer = "poll"
  /\ tailer' = "read"
  /\ unnoticed' = FALSE
  /\ IF Shrank THEN Rewind ELSE UNCHANGED <<pos, buf>>
  /\ UNCHANGED <<game, emitted>>

ReadTo == IF Size < pos + ReadSize THEN Size ELSE pos + ReadSize
Chunk == SubSeq(file, pos + 1, ReadTo)

(* Mistake: an oversized buffer keeps its head and drops what was just read. *)
KeepHead == IF Len(buf \o Chunk) > BufCap THEN buf ELSE buf \o Chunk
(* An oversized buffer is dropped, with the complete lines in it.            *)
Gathered == IF Len(buf \o Chunk) > BufCap THEN <<>> ELSE buf \o Chunk

(* What is left in the buffer, and whether there is a line in it.            *)
Keep(b) == buf' = b /\ tailer' = IF Ends(b) = {} THEN "poll" ELSE "split"

Read ==
  /\ tailer = "read"
  /\ pos' = pos + Len(Chunk)
  /\ Keep(Gathered)
  /\ UNCHANGED <<game, unnoticed, emitted>>

FirstEnd == CHOOSE i \in Ends(buf) : \A j \in Ends(buf) : i <= j

(* sl.append, which may wait for sl.mu.                                      *)
EmitLine ==
  /\ tailer = "split"
  /\ emitted' = Append(emitted, SubSeq(buf, 1, FirstEnd))
  /\ Keep(SubSeq(buf, FirstEnd + 1, Len(buf)))
  /\ UNCHANGED <<game, unnoticed, pos>>

ReadFails ==
  /\ tailer = "read"
  /\ tailer' = "gone"
  /\ UNCHANGED <<game, unnoticed, pos, buf, emitted>>

-----------------------------------------------------------------------------
Container == LinkGamelog \/ GameResets \/ GameWrites

Polling == Open \/ GiveUp \/ Stopped \/ Stat \/ Read \/ ReadFails

TailNext == Container \/ Polling \/ EmitLine

TailSpec == TailInit /\ [][TailNext]_tailVars

(* The timers fire and the system calls return; the container owes nothing.  *)
FairTail ==
  /\ TailSpec
  /\ WF_tailVars(Open) /\ WF_tailVars(Stat) /\ WF_tailVars(Read) /\ WF_tailVars(EmitLine)

-----------------------------------------------------------------------------

Emits(n) == \E i \in DOMAIN emitted : emitted[i][1][1] = n
InFile(n) == file # Absent /\ \E i \in Ends(file) : file[i][1] = n

(* What the log receives is never pasted together from two lines, comes once *)
(* and in the order it was written, though polls cut lines in two, the file  *)
(* is reset under the tailer and an oversized buffer is dropped half way: it *)
(* is a line, or the tail of one once a long line was written                *)
(* (gamelog.go:161-205).                                                     *)
LinesWholeInOrder ==
  \A i \in DOMAIN emitted :
    LET e == emitted[i]
        line == Line(e[1][1], e[1][3])
    IN /\ \E from \in DOMAIN line : e = SubSeq(line, from, Len(line))
       /\ long \/ e = line
       /\ \A j \in 1..(i - 1) : emitted[j][1][1] < e[1][1]

(* A line that stays in the file reaches the log, however far the tailer is  *)
(* behind and whatever was reset before it was written: "seek back to the    *)
(* start so we pick up new writes instead of waiting forever past the new    *)
(* EOF" (gamelog.go:170-180).                                                *)
LinesArrive ==
  \A n \in 1..MaxLines :
    InFile(n) ~> Emits(n) \/ ~InFile(n) \/ long \/ tailer = "gone"
=============================================================================
