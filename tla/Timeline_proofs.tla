--------------------------- MODULE Timeline_proofs ---------------------------
(***************************************************************************)
(* For any game, any number of clients and any sizes: the tailer hands over  *)
(* whole lines in order; the log counts every event a connected client       *)
(* misses and sends the others in order, none twice; so what a client gets   *)
(* are whole lines in the order the game wrote them.                         *)
(***************************************************************************)
EXTENDS Timeline, WellFoundedInduction, TLAPS

-----------------------------------------------------------------------------
(* The tailer.                                                               *)

Piece == Nat \X Nat \X Nat
Text == IF file = Absent THEN <<>> ELSE file

(* Pieces of lines up to the n-th.                                           *)
Pieces(s, n) ==
  \A j \in DOMAIN s :
    s[j][1] \in 1..n /\ s[j][3] \in Lengths /\ s[j][2] \in 1..s[j][3]

(* Up to the next newline the pieces are those of one line; a newline is     *)
(* followed by the start of a later line.                                    *)
Runs(s) ==
  \A j, k \in DOMAIN s :
    j <= k /\ (\A i \in j..(k - 1) : ~Completes(s[i])) =>
      s[k][1] = s[j][1] /\ s[k][2] = s[j][2] + (k - j) /\ s[k][3] = s[j][3]
Climbs(s) ==
  \A j, k \in DOMAIN s : Completes(s[j]) /\ j < k => s[j][1] < s[k][1]
Starts(s) ==
  \A j \in DOMAIN s : j > 1 /\ Completes(s[j - 1]) => s[j][2] = 1

Formed(s, n) == Pieces(s, n) /\ Runs(s) /\ Climbs(s) /\ Starts(s)
Whole(s) == s # <<>> => s[1][2] = 1
AllFit(s) == \A j \in DOMAIN s : Fits(s[j][3])

TailTyped ==
  /\ file \in Seq(Piece) \cup {Absent} /\ buf \in Seq(Piece)
  /\ lines \in Nat /\ first \in Nat /\ resets \in Nat /\ pos \in Nat
  /\ long \in BOOLEAN /\ unnoticed \in BOOLEAN
  /\ tailer \in {"open", "poll", "read", "split", "gone"}
  /\ emitted \in Seq(Seq(Piece))
  /\ file = Absent => tailer \in {"open", "gone"} /\ first = 0

FileFormed ==
  /\ Formed(Text, lines) /\ Whole(Text)
  /\ Text # <<>> => Text[Len(Text)][1] = lines
  /\ ~long => AllFit(Text)

BufFormed ==
  /\ Formed(buf, lines) /\ (~long => AllFit(buf) /\ Whole(buf))
  /\ tailer \in {"open", "poll", "read"} => Ends(buf) = {}
  /\ tailer = "split" => Ends(buf) # {}

(* The buffer is what stands in the file before pos, unless the file was     *)
(* reset; then nothing is there to be read before the next Stat.             *)
Linked ==
  /\ unnoticed => Len(Text) < pos
  /\ ~unnoticed =>
       /\ pos <= Len(Text) /\ Len(buf) <= pos
       /\ \A j \in DOMAIN buf : buf[j] = Text[pos - Len(buf) + j]
       /\ ~long => pos = Len(buf) \/ Completes(Text[pos - Len(buf)])

(* A line that was handed over comes before all that is still to come.       *)
Behind(n) ==
  /\ n <= lines
  /\ \A j \in DOMAIN buf : n < buf[j][1]
  /\ \A j \in DOMAIN Text :
       unnoticed \/ (\A i \in j..pos : ~Completes(Text[i])) => n < Text[j][1]
Ahead ==
  /\ \A i \in DOMAIN emitted : emitted[i] # <<>> /\ Behind(emitted[i][1][1])
  /\ unnoticed => \A i \in DOMAIN buf, j \in DOMAIN Text : buf[i][1] < Text[j][1]

TailInv == TailTyped /\ FileFormed /\ BufFormed /\ Linked /\ Ahead /\ LinesWholeInOrder

-----------------------------------------------------------------------------
(* The parts of a piece.                                                     *)
LEMMA PieceIs ==
  ASSUME NEW p \in Piece
  PROVE  /\ p[1] \in Nat /\ p[2] \in Nat /\ p[3] \in Nat
         /\ p = <<p[1], p[2], p[3]>>
BY DEF Piece

(* Up to the next newline a piece is so many after another.                  *)
LEMMA RunIs ==
  ASSUME NEW s, Runs(s), NEW j \in DOMAIN s, NEW k \in DOMAIN s, j <= k,
         \A i \in j..(k - 1) : ~Completes(s[i])
  PROVE  s[k][1] = s[j][1] /\ s[k][2] = s[j][2] + (k - j) /\ s[k][3] = s[j][3]
BY Zenon DEF Runs

(* The game writes the next piece of the last line, or begins a later one.   *)
LEMMA FormedGrows ==
  ASSUME NEW s \in Seq(Piece), NEW n \in Nat, NEW m \in Nat, n <= m, Formed(s, n),
         NEW p \in Piece, p[1] \in 1..m, p[3] \in Lengths, p[2] \in 1..p[3],
         \/ p[1] > n /\ p[2] = 1 /\ (s = <<>> \/ Completes(s[Len(s)]))
         \/ /\ s # <<>> /\ ~Completes(s[Len(s)])
            /\ p[1] = s[Len(s)][1] /\ p[2] = s[Len(s)][2] + 1 /\ p[3] = s[Len(s)][3]
  PROVE  Formed(Append(s, p), m)
<1> DEFINE t == Append(s, p)
           L == Len(s)
<1>1. /\ L \in Nat /\ DOMAIN s = 1..L /\ DOMAIN t = 1..(L + 1) /\ t[L + 1] = p
      /\ \A j \in 1..L : t[j] = s[j] /\ s[j] \in Piece
  OBVIOUS
<1>2. \A j \in 1..L : s[j][1] \in Nat /\ s[j][2] \in Nat /\ s[j][3] \in Nat
  BY <1>1, PieceIs
<1>p. p[1] \in Nat /\ p[2] \in Nat /\ p[3] \in Nat
  BY PieceIs
<1>q. L > 0 /\ ~Completes(s[L]) =>
        p[1] = s[L][1] /\ p[2] = s[L][2] + 1 /\ p[3] = s[L][3]
  BY <1>1
<1>r. L > 0 /\ Completes(s[L]) => p[1] > n /\ p[2] = 1
  BY <1>1
<1> HIDE DEF t, L
<1>3. Pieces(t, m)
  BY SMTT(30), <1>1, <1>2 DEF Formed, Pieces
<1>d. DOMAIN t = 1..(L + 1)
  BY <1>1
<1>4. Runs(t)
  <2> SUFFICES ASSUME NEW j \in 1..(L + 1), NEW k \in 1..(L + 1), j <= k,
                      \A i \in j..(k - 1) : ~Completes(t[i])
               PROVE  t[k][1] = t[j][1] /\ t[k][2] = t[j][2] + (k - j) /\ t[k][3] = t[j][3]
    BY Zenon, <1>d DEF Runs
  <2>1. CASE k <= L
    <3>1. \A i \in j..(k - 1) : ~Completes(s[i])
      BY <2>1, <1>1
    <3>2. j \in DOMAIN s /\ k \in DOMAIN s /\ t[j] = s[j] /\ t[k] = s[k]
      BY <2>1, <1>1
    <3>3. Runs(s)
      BY DEF Formed
    <3> QED BY SMTT(30), <3>1, <3>2, <3>3, RunIs
  <2>2. CASE k = L + 1 /\ j = L + 1
    BY <2>2, <1>1, <1>p
  <2>3. CASE k = L + 1 /\ j <= L
    <3>1. \A i \in j..L : ~Completes(s[i])
      BY <2>3, <1>1
    <3>2. L \in 1..L /\ L \in j..L /\ j \in 1..L
      BY <2>3, <1>1
    <3>3. p[1] = s[L][1] /\ p[2] = s[L][2] + 1 /\ p[3] = s[L][3]
      BY <3>1, <3>2, <1>1, <1>q
    <3>4. s[L][1] = s[j][1] /\ s[L][2] = s[j][2] + (L - j) /\ s[L][3] = s[j][3]
      <4>1. j \in DOMAIN s /\ L \in DOMAIN s /\ j <= L /\ Runs(s)
        BY <3>2, <1>1 DEF Formed
      <4>2. \A i \in j..(L - 1) : ~Completes(s[i])
        BY <3>1, <1>1
      <4> QED BY <4>1, <4>2, RunIs
    <3>5. t[k] = p /\ t[j] = s[j]
      BY <2>3, <1>1
    <3> QED BY SMTT(30), <3>2, <3>3, <3>4, <3>5, <1>1, <1>2, <2>3
  <2> QED BY <2>1, <2>2, <2>3, <1>1
<1>5. Climbs(t)
  <2> SUFFICES ASSUME NEW j \in 1..(L + 1), NEW k \in 1..(L + 1), j < k, Completes(t[j])
               PROVE  t[j][1] < t[k][1]
    BY Zenon, <1>d DEF Climbs
  <2>1. j \in 1..L /\ t[j] = s[j] /\ Completes(s[j])
    BY <1>1
  <2>2. CASE k <= L
    BY SMTT(30), <2>1, <2>2, <1>1 DEF Formed, Climbs
  <2>3. CASE k = L + 1 /\ Completes(s[L])
    <3>1. s[j][1] \in 1..n
      BY <2>1, <1>1 DEF Formed, Pieces
    <3>2. L > 0 /\ t[k] = p
      BY <2>1, <2>3, <1>1
    <3> QED BY <2>1, <2>3, <3>1, <3>2, <1>r, <1>p
  <2>4. CASE k = L + 1 /\ ~Completes(s[L])
    <3>1. j < L /\ L \in 1..L
      BY <2>1, <2>4, <1>1
    <3>2. s[j][1] < s[L][1]
      BY <2>1, <3>1, <1>1 DEF Formed, Climbs
    <3> QED BY <2>1, <2>4, <3>1, <3>2, <1>1, <1>q
  <2> QED BY <2>2, <2>3, <2>4, <1>1
<1>6. Starts(t)
  <2> SUFFICES ASSUME NEW j \in 1..(L + 1), j > 1, Completes(t[j - 1])
               PROVE  t[j][2] = 1
    BY <1>1 DEF Starts
  <2>1. j - 1 \in 1..L /\ t[j - 1] = s[j - 1]
    BY <1>1
  <2>2. CASE j = L + 1
    <3>1. t[j] = p /\ L > 0 /\ Completes(s[L])
      BY <1>1, <2>1, <2>2
    <3> QED BY <1>r, <3>1
  <2>3. CASE j \in 1..L
    <3>1. j \in DOMAIN s /\ j > 1 /\ Completes(s[j - 1]) /\ t[j] = s[j]
      BY <1>1, <2>1, <2>3
    <3> QED BY <3>1 DEF Formed, Starts
  <2> QED BY <1>1, <2>2, <2>3
<1> QED BY <1>3, <1>4, <1>5, <1>6 DEF Formed, t

(* A stretch of what is well formed is well formed.                          *)
LEMMA FormedCuts ==
  ASSUME NEW s \in Seq(Piece), NEW t \in Seq(Piece), NEW n \in Nat, NEW a \in Nat,
         Formed(s, n), \A j \in DOMAIN t : a + j \in DOMAIN s /\ t[j] = s[a + j]
  PROVE  Formed(t, n)
<1>1. DOMAIN t = 1..Len(t) /\ Len(t) \in Nat /\ DOMAIN s = 1..Len(s) /\ Len(s) \in Nat
  OBVIOUS
<1>2. Pieces(t, n)
  BY DEF Formed, Pieces
<1>3. Runs(t)
  <2> SUFFICES ASSUME NEW j \in DOMAIN t, NEW k \in DOMAIN t, j <= k,
                      \A i \in j..(k - 1) : ~Completes(t[i])
               PROVE  t[k][1] = t[j][1] /\ t[k][2] = t[j][2] + (k - j) /\ t[k][3] = t[j][3]
    BY DEF Runs
  <2>1. \A i \in (a + j)..(a + k - 1) : ~Completes(s[i])
    <3> SUFFICES ASSUME NEW i \in (a + j)..(a + k - 1) PROVE ~Completes(s[i])
      OBVIOUS
    <3>1. i - a \in j..(k - 1) /\ i - a \in DOMAIN t /\ a + (i - a) = i
      BY <1>1
    <3> QED BY <3>1
  <2>2. a + j \in DOMAIN s /\ a + k \in DOMAIN s /\ a + j <= a + k
        /\ (a + k) - (a + j) = k - j /\ (a + k) - 1 = a + k - 1
    BY <1>1
  <2>3. \A i \in (a + j)..((a + k) - 1) : ~Completes(s[i])
    BY <2>1, <2>2
  <2>4. Runs(s)
    BY DEF Formed
  <2>5. /\ s[a + k][1] = s[a + j][1] /\ s[a + k][2] = s[a + j][2] + ((a + k) - (a + j))
        /\ s[a + k][3] = s[a + j][3]
    BY <2>2, <2>3, <2>4, RunIs
  <2>6. t[j] = s[a + j] /\ t[k] = s[a + k]
    OBVIOUS
  <2> QED BY <2>2, <2>5, <2>6
<1>4. Climbs(t)
  <2> SUFFICES ASSUME NEW j \in DOMAIN t, NEW k \in DOMAIN t, j < k, Completes(t[j])
               PROVE  t[j][1] < t[k][1]
    BY DEF Climbs
  <2>1. a + j \in DOMAIN s /\ a + k \in DOMAIN s /\ a + j < a + k
    BY <1>1
  <2> QED BY <2>1 DEF Formed, Climbs
<1>5. Starts(t)
  <2> SUFFICES ASSUME NEW j \in DOMAIN t, j > 1, Completes(t[j - 1])
               PROVE  t[j][2] = 1
    BY DEF Starts
  <2>1. j - 1 \in DOMAIN t /\ a + j \in DOMAIN s /\ a + j > 1 /\ a + (j - 1) = (a + j) - 1
    <3>1. a + j \in DOMAIN s
      OBVIOUS
    <3>2. j \in 1..Len(t)
      BY <1>1
    <3>3. j \in Nat /\ j <= Len(t)
      BY <1>1, <3>2
    <3>4. j - 1 \in 1..Len(t)
      BY <1>1, <3>3
    <3> QED BY <1>1, <3>1, <3>3, <3>4
  <2>2. Completes(s[(a + j) - 1]) /\ t[j] = s[a + j]
    BY <2>1
  <2> QED BY <2>1, <2>2 DEF Formed, Starts
<1> QED BY <1>2, <1>3, <1>4, <1>5 DEF Formed

(* It stays so when there are more lines.                                    *)
LEMMA FormedLater ==
  ASSUME NEW s, NEW n \in Nat, NEW m \in Nat, n <= m, Formed(s, n)
  PROVE  Formed(s, m)
BY DEF Formed, Pieces

(* Nothing is well formed.                                                   *)
LEMMA EmptyFormed ==
  ASSUME NEW n \in Nat
  PROVE  Formed(<<>>, n) /\ Whole(<<>>) /\ AllFit(<<>>) /\ Ends(<<>>) = {}
<1>1. DOMAIN <<>> = {}
  OBVIOUS
<1>2. Pieces(<<>>, n) /\ Runs(<<>>) /\ Climbs(<<>>) /\ Starts(<<>>)
  BY <1>1 DEF Pieces, Runs, Climbs, Starts
<1>3. Whole(<<>>) /\ AllFit(<<>>) /\ Ends(<<>>) = {}
  BY <1>1 DEF Whole, AllFit, Ends
<1> QED BY <1>2, <1>3 DEF Formed

-----------------------------------------------------------------------------
(* The steps of the tailer and of the container.                             *)

(* The types of what the proofs count.                                       *)
LEMMA TextIs ==
  ASSUME TailTyped
  PROVE  /\ Text \in Seq(Piece) /\ Len(Text) \in Nat /\ Size = Len(Text)
         /\ buf \in Seq(Piece) /\ Len(buf) \in Nat /\ lines \in Nat /\ pos \in Nat
BY DEF TailTyped, Text, Size

(* The file of an earlier session, or none.                                  *)
LEMMA TailStarts == TailInit => TailInv
<1> SUFFICES ASSUME TailInit PROVE TailInv
  OBVIOUS
<1>1. Len(<<>>) = 0 /\ DOMAIN <<>> = {} /\ <<>> \in Seq(Piece) /\ <<>> \in Seq(Seq(Piece))
  OBVIOUS
<1>2. /\ first = 0 /\ resets = 0 /\ unnoticed = FALSE /\ tailer = "open"
      /\ pos = 0 /\ buf = <<>> /\ emitted = <<>>
  BY DEF TailInit
<1>3. CASE file = Absent /\ lines = 0 /\ long = FALSE
  <2>1. Text = <<>>
    BY <1>3 DEF Text
  <2>2. TailTyped
    BY <1>1, <1>2, <1>3 DEF TailTyped
  <2>3. FileFormed /\ BufFormed
    BY <1>2, <1>3, <2>1, EmptyFormed DEF FileFormed, BufFormed
  <2>4. Linked /\ Ahead
    BY <1>1, <1>2, <2>1 DEF Linked, Ahead
  <2>5. LinesWholeInOrder
    BY <1>1, <1>2 DEF LinesWholeInOrder
  <2> QED BY <2>2, <2>3, <2>4, <2>5 DEF TailInv
<1>4. CASE lines = 1 /\ \E l \in Lengths : file = Line(1, l) /\ long = ~Fits(l)
  <2>1. PICK l \in Lengths : file = Line(1, l) /\ long = ~Fits(l)
    BY <1>4
  <2>2. l \in Nat /\ l > 0
    BY LengthsAssumption
  <2>3. /\ file \in Seq(Piece) /\ Len(file) = l /\ file # <<>>
        /\ \A j \in 1..l : file[j] = <<1, j, l>>
    <3>1. file = [k \in 1..l |-> <<1, k, l>>]
      BY <2>1 DEF Line
    <3>2. \A k \in 1..l : <<1, k, l>> \in Piece
      BY <2>2 DEF Piece
    <3>3. file \in [1..l -> Piece]
      BY <3>1, <3>2
    <3>4. file \in Seq(Piece) /\ Len(file) = l
      BY <2>2, <3>1, <3>3
    <3>5. \A j \in 1..l : file[j] = <<1, j, l>>
      BY <3>1
    <3>6. file # <<>>
      BY <2>2, <3>4
    <3> QED BY <3>4, <3>5, <3>6
  <2>4. file # Absent
    BY <2>3, AbsentAssumption DEF Piece
  <2>5. Text = file /\ DOMAIN file = 1..l
    BY <2>3, <2>4 DEF Text
  <2>6. Formed(Text, 1)
    <3>1. \A j \in 1..l : /\ Text[j][1] = 1 /\ Text[j][2] = j /\ Text[j][3] = l
                          /\ Completes(Text[j]) <=> j = l
      BY <2>3, <2>5 DEF Completes
    <3>2. Pieces(Text, 1)
      BY <2>2, <2>5, <3>1 DEF Pieces
    <3>3. Runs(Text)
      BY <2>2, <2>5, <3>1 DEF Runs
    <3>4. Climbs(Text)
      BY <2>2, <2>5, <3>1 DEF Climbs
    <3>5. Starts(Text)
      BY <2>2, <2>5, <3>1 DEF Starts
    <3> QED BY <3>2, <3>3, <3>4, <3>5 DEF Formed
  <2>7. FileFormed
    <3>1. Text[1][2] = 1 /\ Text[l][1] = 1
      BY <2>2, <2>3, <2>5
    <3>2. ~long => \A j \in 1..l : Fits(Text[j][3])
      <4>1. \A j \in 1..l : Text[j][3] = l
        BY <2>3, <2>5
      <4>2. ~long => Fits(l)
        BY <2>1
      <4> QED BY <4>1, <4>2
    <3> QED BY <1>4, <2>3, <2>5, <2>6, <3>1, <3>2 DEF FileFormed, Whole, AllFit
  <2>8. TailTyped
    BY <1>1, <1>2, <1>4, <2>1, <2>3, <2>4 DEF TailTyped
  <2>9. BufFormed /\ Linked /\ Ahead /\ LinesWholeInOrder
    BY <1>1, <1>2, <1>4, <2>3, <2>5, EmptyFormed
    DEF BufFormed, Linked, Ahead, LinesWholeInOrder
  <2> QED BY <2>7, <2>8, <2>9 DEF TailInv
<1> QED BY <1>3, <1>4 DEF TailInit

(* What was handed over stays as it is.                                      *)
LEMMA LinesStay ==
  ASSUME LinesWholeInOrder, emitted' = emitted, long => long'
  PROVE  LinesWholeInOrder'
BY ZenonT(30) DEF LinesWholeInOrder, Line

(* A reset of the file.                                                      *)
LEMMA TruncateStep ==
  ASSUME TailInv, Truncate, first' \in Nat, resets' \in Nat
  PROVE  TailInv'
<1>1. /\ file' = <<>> /\ unnoticed' = (unnoticed \/ pos > 0)
      /\ lines' = lines /\ long' = long /\ tailer' = tailer /\ pos' = pos
      /\ buf' = buf /\ emitted' = emitted
  BY DEF Truncate
<1>2. Len(<<>>) = 0 /\ DOMAIN <<>> = {} /\ <<>> \in Seq(Piece) /\ <<>> # Absent
  <2>1. <<>> \in Seq(Nat \X Nat \X Nat)
    OBVIOUS
  <2>2. Len(<<>>) = 0 /\ DOMAIN <<>> = {} /\ <<>> \in Seq(Piece)
    OBVIOUS
  <2> QED BY <2>1, <2>2, AbsentAssumption
<1>3. Text' = <<>>
  BY <1>1, <1>2 DEF Text
<1>4. TailTyped'
  BY <1>1, <1>2 DEF TailInv, TailTyped
<1>5. FileFormed'
  BY <1>1, <1>2, <1>3, EmptyFormed DEF TailInv, TailTyped, FileFormed
<1>6. BufFormed'
  BY <1>1 DEF TailInv, BufFormed
<1>7. pos \in Nat /\ Len(buf) \in Nat /\ Len(Text) \in Nat /\ DOMAIN buf = 1..Len(buf)
  BY TextIs DEF TailInv
<1>8. Linked'
  <2>1. unnoticed => pos > 0
    BY <1>7 DEF TailInv, Linked
  <2>2. ~unnoticed' => pos = 0 /\ Len(buf) = 0 /\ DOMAIN buf = {}
    <3> SUFFICES ASSUME ~unnoticed' PROVE pos = 0 /\ Len(buf) = 0 /\ DOMAIN buf = {}
      OBVIOUS
    <3>0. ~unnoticed /\ ~(pos > 0)
      BY <1>1, Zenon
    <3>1. ~unnoticed /\ pos = 0
      BY <1>7, <3>0
    <3>2. Len(buf) <= pos
      BY <3>1 DEF TailInv, Linked
    <3> QED BY <1>7, <3>1, <3>2
  <2>3. unnoticed' => Len(Text') < pos'
    BY <1>1, <1>2, <1>3, <1>7, <2>1
  <2>4. ~unnoticed' =>
          /\ pos' <= Len(Text') /\ Len(buf') <= pos' /\ DOMAIN buf' = {}
          /\ pos' = Len(buf')
    BY <1>1, <1>2, <1>3, <2>2
  <2> QED BY <2>3, <2>4 DEF Linked
<1>9. Ahead'
  BY <1>1, <1>2, <1>3 DEF TailInv, Ahead, Behind
<1>10. LinesWholeInOrder'
  BY <1>1, LinesStay DEF TailInv
<1> QED BY <1>4, <1>5, <1>6, <1>8, <1>9, <1>10 DEF TailInv

(* The game writes a piece; what was handed over stays behind it, because a  *)
(* reset is noticed before the file has grown back to pos.                   *)
LEMMA GameWritesStep ==
  ASSUME SlowGame, TailInv, GameWrites
  PROVE  TailInv'
<1>1. PICK piece \in NextPieces :
        /\ file' = Append(file, piece) /\ lines' = piece[1]
        /\ long' = (long \/ ~Fits(piece[3]))
  BY DEF GameWrites
<1>2. /\ first' = first /\ resets' = resets /\ unnoticed' = unnoticed
      /\ tailer' = tailer /\ pos' = pos /\ buf' = buf /\ emitted' = emitted
      /\ unnoticed => Size + 1 < pos
  BY DEF GameWrites
<1>t. TailTyped /\ file \in Seq(Piece) /\ file # Absent /\ Text = file
  BY DEF GameWrites, TailInv, TailTyped, Text
<1> DEFINE L == Len(file)
<1>0. /\ L \in Nat /\ DOMAIN file = 1..L /\ lines \in Nat /\ pos \in Nat
      /\ \A j \in 1..L : file[j] \in Piece
      /\ Len(buf) \in Nat /\ DOMAIN buf = 1..Len(buf)
  BY <1>t DEF TailTyped
<1>f. /\ Formed(file, lines) /\ Whole(file) /\ (file # <<>> => file[L][1] = lines)
      /\ (~long => AllFit(file))
  BY <1>t DEF TailInv, FileFormed
(* A new line, or the next piece of the last one.                            *)
<1> DEFINE New == piece[1] > lines /\ piece[2] = 1 /\ (file = <<>> \/ Completes(file[L]))
           More == /\ file # <<>> /\ ~Completes(file[L])
                   /\ piece[1] = file[L][1] /\ piece[2] = file[L][2] + 1
                   /\ piece[3] = file[L][3]
<1>3. /\ piece \in Piece /\ piece[1] \in 1..piece[1] /\ lines <= piece[1]
      /\ piece[3] \in Lengths /\ piece[2] \in 1..piece[3] /\ (New \/ More)
  <2>1. CASE file # <<>> /\ ~Completes(file[L])
    <3>1. piece = <<file[L][1], file[L][2] + 1, file[L][3]>>
      BY <1>1, <2>1 DEF NextPieces, Last
    <3>2. L \in 1..L /\ file[L] \in Piece
      BY <1>0, <2>1
    <3>3. /\ file[L][1] \in Nat /\ file[L][2] \in Nat /\ file[L][3] \in Nat
      BY <3>2, PieceIs
    <3>4. file[L][1] \in 1..lines /\ file[L][3] \in Lengths /\ file[L][2] \in 1..file[L][3]
      BY <1>0, <1>f, <3>2 DEF Formed, Pieces
    <3>5. file[L][2] # file[L][3] /\ file[L][1] = lines
      BY <1>f, <2>1 DEF Completes
    <3>6. piece[1] = file[L][1] /\ piece[2] = file[L][2] + 1 /\ piece[3] = file[L][3]
      BY <3>1
    <3>7. piece \in Piece
      BY <3>1, <3>3 DEF Piece
    <3> QED BY <1>0, <2>1, <3>3, <3>4, <3>5, <3>6, <3>7
  <2>2. CASE file = <<>> \/ Completes(file[L])
    <3>1. PICK l \in Lengths : piece = <<lines + 1, 1, l>>
      BY <1>1, <2>2 DEF NextPieces, Last
    <3>2. l \in Nat /\ l > 0
      BY LengthsAssumption
    <3>3. piece[1] = lines + 1 /\ piece[2] = 1 /\ piece[3] = l
      BY <3>1
    <3>4. piece \in Piece
      BY <3>1, <3>2, <1>0 DEF Piece
    <3> QED BY <1>0, <2>2, <3>2, <3>3, <3>4
  <2> QED BY <2>1, <2>2
<1>n. piece[1] \in Nat
  BY <1>3, PieceIs
<1>4. /\ file' \in Seq(Piece) /\ file' # Absent /\ Text' = file' /\ file' # <<>>
      /\ Len(file') = L + 1 /\ DOMAIN file' = 1..(L + 1)
      /\ file'[L + 1] = piece /\ \A j \in 1..L : file'[j] = file[j]
  <2>1. /\ file' \in Seq(Piece) /\ file' # <<>> /\ Len(file') = L + 1
        /\ DOMAIN file' = 1..(L + 1)
        /\ file'[L + 1] = piece /\ \A j \in 1..L : file'[j] = file[j]
    BY <1>1, <1>3, <1>t
  <2>2. file' # Absent
    BY <2>1, AbsentAssumption DEF Piece
  <2> QED BY <2>1, <2>2 DEF Text
<1>5. TailTyped'
  BY <1>1, <1>2, <1>4, <1>n, <1>t DEF TailTyped
<1>6. FileFormed'
  <2>1. Formed(file', lines')
    <3>1. /\ lines \in Nat /\ lines' \in Nat /\ lines <= lines' /\ piece[1] \in 1..lines'
          /\ file' = Append(file, piece)
      BY <1>0, <1>1, <1>3, <1>n
    <3> QED BY <1>3, <1>f, <1>t, <3>1, FormedGrows
  <2>2. Whole(file')
    <3>1. CASE file = <<>>
      BY <3>1, <1>3, <1>4 DEF Whole
    <3>2. CASE file # <<>>
      BY <3>2, <1>0, <1>4, <1>f DEF Whole
    <3> QED BY <3>1, <3>2
  <2>3. ~long' => AllFit(file')
    <3> SUFFICES ASSUME ~long', NEW j \in 1..(L + 1) PROVE Fits(file'[j][3])
      BY <1>4 DEF AllFit
    <3>1. ~long /\ Fits(piece[3])
      BY <1>1
    <3>2. CASE j = L + 1
      BY <3>1, <3>2, <1>4
    <3>3. CASE j \in 1..L
      BY <3>1, <3>3, <1>0, <1>4, <1>f DEF AllFit
    <3> QED BY <1>0, <3>2, <3>3
  <2> QED BY <1>1, <1>4, <2>1, <2>2, <2>3 DEF FileFormed
<1>7. BufFormed'
  <2>1. Formed(buf, lines')
    BY <1>0, <1>1, <1>3, <1>n, FormedLater DEF TailInv, BufFormed
  <2>2. ~long' => ~long
    BY <1>1
  <2> QED BY <1>2, <2>1, <2>2 DEF TailInv, BufFormed
<1>8. Linked'
  <2>1. unnoticed' => Len(Text') < pos'
    BY <1>0, <1>2, <1>4, <1>t DEF Size
  <2>2. ASSUME ~unnoticed'
        PROVE  /\ pos' <= Len(Text') /\ Len(buf') <= pos'
               /\ \A j \in DOMAIN buf' : buf'[j] = Text'[pos' - Len(buf') + j]
               /\ ~long' => pos' = Len(buf') \/ Completes(Text'[pos' - Len(buf')])
    <3>1. /\ pos <= L /\ Len(buf) <= pos
          /\ \A j \in DOMAIN buf : buf[j] = file[pos - Len(buf) + j]
          /\ ~long => pos = Len(buf) \/ Completes(file[pos - Len(buf)])
      BY <1>2, <1>t, <2>2 DEF TailInv, Linked
    <3>a. pos <= L /\ Len(buf) <= pos /\ L \in Nat /\ pos \in Nat /\ Len(buf) \in Nat
      BY <1>0, <3>1
    <3>2. \A j \in 1..Len(buf) : pos - Len(buf) + j \in 1..L
      BY ONLY <3>a
    <3>3. pos # Len(buf) => pos - Len(buf) \in 1..L
      BY ONLY <3>a
    <3>4. /\ pos' = pos /\ buf' = buf /\ Text' = file' /\ Len(Text') = L + 1
          /\ long' = FALSE => ~long
      BY <1>1, <1>2, <1>4
    <3>5. \A j \in DOMAIN buf : buf[j] = file'[pos - Len(buf) + j]
      BY <1>0, <1>4, <3>1, <3>2
    <3>6. ~long' => pos = Len(buf) \/ Completes(file'[pos - Len(buf)])
      BY <1>1, <1>4, <3>1, <3>3
    <3> QED BY <3>a, <3>4, <3>5, <3>6
  <2> QED BY <2>1, <2>2 DEF Linked
<1>9. Ahead'
  <2>1. ASSUME NEW i \in DOMAIN emitted PROVE Behind(emitted[i][1][1])'
    <3> DEFINE n == emitted[i][1][1]
    <3>1. /\ n <= lines /\ \A j \in DOMAIN buf : n < buf[j][1]
          /\ \A j \in 1..L : unnoticed \/ (\A k \in j..pos : ~Completes(file[k])) => n < file[j][1]
      BY <1>t, <1>0 DEF TailInv, Ahead, Behind
    <3>2. n \in Nat
      <4>1. emitted[i] \in Seq(Piece) /\ emitted[i] # <<>>
        BY <1>t DEF TailInv, TailTyped, Ahead
      <4>2. emitted[i][1] \in Piece
        BY <4>1
      <4> QED BY <4>2, PieceIs
    <3> HIDE DEF n
    <3>3. n <= lines'
      BY <1>0, <1>1, <1>3, <1>n, <3>1, <3>2
    <3>4. ASSUME NEW j \in 1..(L + 1), unnoticed \/ (\A k \in j..pos : ~Completes(file'[k]))
          PROVE  n < file'[j][1]
      <4>1. CASE j \in 1..L
        <5>1. unnoticed \/ (\A k \in j..pos : ~Completes(file[k]))
          <6>1. CASE ~unnoticed
            <7>1. pos <= L
              BY <6>1, <1>t DEF TailInv, Linked
            <7>2. \A k \in j..pos : k \in 1..L
              BY <7>1, <1>0
            <7> QED BY <3>4, <1>4, <7>2
          <6> QED BY <6>1
        <5> QED BY <3>1, <4>1, <5>1, <1>4
      <4>2. CASE j = L + 1 /\ New
        BY <4>2, <1>0, <1>4, <1>n, <3>1, <3>2
      <4>3. CASE j = L + 1 /\ More
        <5>1. L \in 1..L
          BY <4>3, <1>0
        <5>2. unnoticed \/ pos <= L
          BY <1>t DEF TailInv, Linked
        <5>3. unnoticed \/ (\A k \in L..pos : ~Completes(file[k]))
          BY <4>3, <5>2, <1>0
        <5> QED BY <3>1, <4>3, <5>1, <5>3, <1>4
      <4> QED BY <4>1, <4>2, <4>3, <1>0, <1>3
    <3>5. \A j \in DOMAIN Text' :
            unnoticed' \/ (\A k \in j..pos' : ~Completes(Text'[k])) => n < Text'[j][1]
      BY <1>2, <1>4, <3>4
    <3>6. n' = n
      BY <1>2 DEF n
    <3> QED BY <1>2, <3>1, <3>3, <3>5, <3>6 DEF Behind, n
  <2>2. ASSUME unnoticed', NEW i \in DOMAIN buf, NEW j \in 1..(L + 1)
        PROVE  buf[i][1] < file'[j][1]
    <3>1. \A k \in 1..L : buf[i][1] < file[k][1]
      BY <2>2, <1>2, <1>0, <1>t DEF TailInv, Ahead
    <3>2. buf[i][1] \in 1..lines
      BY DEF TailInv, BufFormed, Formed, Pieces
    <3>3. CASE j \in 1..L
      BY <3>1, <3>3, <1>4
    <3>4. CASE j = L + 1 /\ New
      BY <3>2, <3>4, <1>0, <1>4, <1>n
    <3>5. CASE j = L + 1 /\ More
      <4>1. L \in 1..L
        BY <3>5, <1>0
      <4> QED BY <3>1, <3>5, <4>1, <1>4
    <3> QED BY <1>0, <1>3, <3>3, <3>4, <3>5
  <2> QED BY <1>2, <1>4, <2>1, <2>2 DEF TailInv, Ahead
<1>10. LinesWholeInOrder'
  BY <1>1, <1>2, LinesStay DEF TailInv
<1> QED BY <1>5, <1>6, <1>7, <1>8, <1>9, <1>10 DEF TailInv

(* The goroutine waits, looks or goes, and nothing has changed.              *)
LEMMA TailerMoves ==
  ASSUME TailInv, UNCHANGED <<game, unnoticed, pos, buf, emitted>>,
         \/ tailer' = "gone"
         \/ tailer = "open" /\ tailer' = "poll" /\ file # Absent
         \/ tailer' = tailer
         \/ tailer = "poll" /\ tailer' = "read"
  PROVE  TailInv'
<1>1. /\ file' = file /\ lines' = lines /\ first' = first /\ resets' = resets
      /\ long' = long /\ unnoticed' = unnoticed /\ pos' = pos /\ buf' = buf
      /\ emitted' = emitted /\ Text' = Text
  BY DEF game, Text
<1>2. TailTyped'
  BY <1>1 DEF TailInv, TailTyped
<1>3. FileFormed' /\ Linked' /\ Ahead'
  BY <1>1 DEF TailInv, FileFormed, Linked, Ahead, Behind
<1>4. BufFormed'
  BY <1>1 DEF TailInv, BufFormed
<1>5. LinesWholeInOrder'
  BY <1>1, LinesStay DEF TailInv
<1> QED BY <1>2, <1>3, <1>4, <1>5 DEF TailInv

(* A poll looks at the size: it rewinds exactly after a reset.               *)
LEMMA StatStep ==
  ASSUME TailInv, Stat
  PROVE  TailInv'
<1>1. /\ file' = file /\ lines' = lines /\ first' = first /\ resets' = resets
      /\ long' = long /\ emitted' = emitted /\ Text' = Text
      /\ tailer = "poll" /\ tailer' = "read" /\ unnoticed' = FALSE
  BY DEF Stat, game, Text
<1>2. /\ Text \in Seq(Piece) /\ Len(Text) \in Nat /\ Size = Len(Text)
      /\ Len(buf) \in Nat /\ pos \in Nat /\ DOMAIN Text = 1..Len(Text)
  BY TextIs DEF TailInv
<1>e. Len(<<>>) = 0 /\ DOMAIN <<>> = {} /\ <<>> \in Seq(Piece)
  OBVIOUS
<1>3. CASE Shrank
  <2>1. pos' = 0 /\ buf' = <<>>
    BY <1>3 DEF Stat, Rewind
  <2>2. unnoticed
    BY <1>2, <1>3 DEF Shrank, TailInv, Linked
  <2>3. TailTyped'
    BY <1>1, <1>e, <2>1 DEF TailInv, TailTyped
  <2>4. FileFormed'
    BY <1>1 DEF TailInv, FileFormed
  <2>5. BufFormed'
    <3>1. lines' \in Nat
      BY <2>3 DEF TailTyped
    <3> QED BY <1>1, <2>1, <3>1, EmptyFormed DEF BufFormed
  <2>6. Linked'
    BY <1>1, <1>2, <1>e, <2>1 DEF Linked
  <2>7. Ahead'
    BY <1>1, <1>e, <2>1, <2>2 DEF TailInv, Ahead, Behind
  <2>8. LinesWholeInOrder'
    BY <1>1, LinesStay DEF TailInv
  <2> QED BY <2>3, <2>4, <2>5, <2>6, <2>7, <2>8 DEF TailInv
<1>4. CASE ~Shrank
  <2>1. pos' = pos /\ buf' = buf
    BY <1>4 DEF Stat
  <2>2. ~unnoticed /\ unnoticed' = unnoticed
    <3>1. ~(Len(Text) < pos)
      BY <1>2, <1>4 DEF Shrank
    <3> QED BY <1>1, <3>1 DEF TailInv, Linked, TailTyped
  <2> QED BY <1>1, <2>1, <2>2, TailerMoves DEF game
<1> QED BY <1>3, <1>4

-----------------------------------------------------------------------------
(* What a Read adds to the buffer continues it.                              *)
LEMMA ChunkIs ==
  ASSUME TailInv, tailer = "read"
  PROVE  /\ Chunk \in Seq(Piece) /\ Len(Chunk) \in Nat /\ Len(Chunk) <= ReadSize
         /\ unnoticed => Chunk = <<>>
         /\ ~unnoticed => /\ pos + Len(Chunk) <= Len(Text)
                          /\ \A j \in 1..Len(Chunk) : Chunk[j] = Text[pos + j]
<1>1. /\ file # Absent /\ Text = file /\ Text \in Seq(Piece) /\ Len(Text) \in Nat
      /\ Size = Len(Text) /\ pos \in Nat /\ ReadSize \in Nat /\ ReadSize > 0
  BY TextIs, ReadAssumption DEF TailInv, TailTyped, Text
<1>2. CASE unnoticed
  <2>1. Len(Text) < pos
    BY <1>2 DEF TailInv, Linked
  <2>2. ReadTo = Len(Text)
    BY <1>1, <2>1 DEF ReadTo
  <2>3. Chunk = SubSeq(Text, pos + 1, Len(Text))
    BY <1>1, <2>2 DEF Chunk
  <2>4. Chunk = <<>>
    BY <1>1, <2>1, <2>3
  <2> QED BY <1>1, <1>2, <2>4
<1>3. CASE ~unnoticed
  <2>1. pos <= Len(Text)
    BY <1>3 DEF TailInv, Linked
  <2>2. ReadTo \in Nat /\ pos <= ReadTo /\ ReadTo <= Len(Text) /\ ReadTo <= pos + ReadSize
    BY <1>1, <2>1 DEF ReadTo
  <2>3. Chunk = SubSeq(Text, pos + 1, ReadTo)
    BY <1>1 DEF Chunk
  <2>4. /\ Chunk \in Seq(Piece) /\ Len(Chunk) = ReadTo - pos
        /\ \A j \in 1..Len(Chunk) : Chunk[j] = Text[pos + j]
    BY <1>1, <2>2, <2>3
  <2> QED BY <1>1, <1>3, <2>2, <2>4
<1> QED BY <1>2, <1>3

(* A poll reads; an oversized buffer is dropped only if a line is long.      *)
LEMMA ReadStep ==
  ASSUME TailInv, Read
  PROVE  TailInv'
<1>1. /\ file' = file /\ lines' = lines /\ first' = first /\ resets' = resets
      /\ long' = long /\ emitted' = emitted /\ Text' = Text
      /\ tailer = "read" /\ unnoticed' = unnoticed /\ pos' = pos + Len(Chunk)
      /\ buf' = Gathered /\ tailer' = IF Ends(Gathered) = {} THEN "poll" ELSE "split"
  BY DEF Read, Keep, game, Text
<1>2. /\ Text \in Seq(Piece) /\ Len(Text) \in Nat /\ DOMAIN Text = 1..Len(Text)
      /\ buf \in Seq(Piece) /\ Len(buf) \in Nat /\ DOMAIN buf = 1..Len(buf)
      /\ pos \in Nat /\ lines \in Nat
  BY TextIs DEF TailInv
<1>3. /\ Chunk \in Seq(Piece) /\ Len(Chunk) \in Nat /\ Len(Chunk) <= ReadSize
      /\ unnoticed => Chunk = <<>>
      /\ ~unnoticed => /\ pos + Len(Chunk) <= Len(Text)
                       /\ \A j \in 1..Len(Chunk) : Chunk[j] = Text[pos + j]
  BY <1>1, ChunkIs
<1> DEFINE b == buf \o Chunk
<1>4. /\ b \in Seq(Piece) /\ Len(b) = Len(buf) + Len(Chunk) /\ DOMAIN b = 1..Len(b)
      /\ \A j \in 1..Len(buf) : b[j] = buf[j]
      /\ \A j \in 1..Len(Chunk) : b[Len(buf) + j] = Chunk[j]
  BY <1>2, <1>3
<1>g. Gathered = IF Len(b) > BufCap THEN <<>> ELSE b
  BY DEF Gathered
<1> HIDE DEF b
<1>e. Len(<<>>) = 0 /\ DOMAIN <<>> = {} /\ <<>> \in Seq(Piece)
  OBVIOUS
<1>5. Gathered \in Seq(Piece)
  BY <1>4, <1>e, <1>g
<1>n. /\ pos \in Nat /\ Len(buf) \in Nat /\ Len(Chunk) \in Nat /\ Len(b) \in Nat
      /\ Len(b) = Len(buf) + Len(Chunk) /\ Len(Chunk) <= ReadSize
  BY <1>2, <1>3, <1>4
<1>6. TailTyped'
  <2>1. pos' \in Nat
    BY <1>1, <1>2, <1>3
  <2> QED BY <1>1, <1>5, <2>1 DEF TailInv, TailTyped
<1>7. FileFormed'
  BY <1>1 DEF TailInv, FileFormed
<1>8. LinesWholeInOrder'
  BY <1>1, LinesStay DEF TailInv
(* After a reset that is still unnoticed nothing is read.                    *)
<1>9. CASE unnoticed
  <2>1. Chunk = <<>> /\ b = buf /\ Len(Chunk) = 0
    BY <1>2, <1>3, <1>9 DEF b
  <2>2. Ends(buf) = {}
    BY <1>1 DEF TailInv, BufFormed
  <2>3. Ends(Gathered) = {} /\ tailer' = "poll"
    BY <1>1, <1>2, <1>g, <2>1, <2>2, EmptyFormed
  <2>4. Gathered = buf \/ Gathered = <<>>
    BY <1>g, <2>1
  <2>5. BufFormed'
    BY <1>1, <1>2, <2>3, <2>4, EmptyFormed DEF TailInv, BufFormed
  <2>6. Linked'
    BY <1>1, <1>2, <1>9, <2>1 DEF TailInv, Linked
  <2>7. Ahead'
    BY <1>1, <1>9, <1>e, <2>4 DEF TailInv, Ahead, Behind
  <2> QED BY <1>6, <1>7, <1>8, <2>5, <2>6, <2>7 DEF TailInv
(* Else the buffer and what was read stand one after the other in the file.  *)
<1>10. CASE ~unnoticed
  <2> DEFINE a == pos - Len(buf)
  <2>1. /\ pos <= Len(Text) /\ Len(buf) <= pos
        /\ \A j \in 1..Len(buf) : buf[j] = Text[a + j]
        /\ ~long => a = 0 \/ Completes(Text[a])
        /\ pos + Len(Chunk) <= Len(Text)
        /\ \A j \in 1..Len(Chunk) : Chunk[j] = Text[pos + j]
    <3>1. ~long => pos = Len(buf) \/ Completes(Text[pos - Len(buf)])
      BY <1>10 DEF TailInv, Linked
    <3> QED BY <1>2, <1>3, <1>10, <3>1 DEF TailInv, Linked
  <2>2. a \in Nat /\ a + Len(b) = pos + Len(Chunk) /\ a + Len(buf) = pos
    <3>1. Len(buf) <= pos
      BY <2>1
    <3> QED BY ONLY <1>n, <3>1
  <2> HIDE DEF a
  <2>3. \A j \in 1..Len(b) : a + j \in 1..Len(Text) /\ b[j] = Text[a + j]
    <3> SUFFICES ASSUME NEW j \in 1..Len(b)
                 PROVE  a + j \in 1..Len(Text) /\ b[j] = Text[a + j]
      OBVIOUS
    <3>1. a + j \in 1..Len(Text)
      BY <1>2, <1>3, <1>4, <2>1, <2>2
    <3>2. CASE j <= Len(buf)
      BY <1>2, <1>4, <2>1, <3>1, <3>2
    <3>3. CASE j > Len(buf)
      <4>1. j - Len(buf) \in 1..Len(Chunk) /\ Len(buf) + (j - Len(buf)) = j
            /\ pos + (j - Len(buf)) = a + j
        BY ONLY <1>n, <2>2, <3>3, j \in 1..Len(b)
      <4>2. b[j] = Chunk[j - Len(buf)]
        BY <1>4, <4>1
      <4>3. Chunk[j - Len(buf)] = Text[a + j]
        BY <2>1, <4>1
      <4> QED BY <3>1, <4>2, <4>3
    <3> QED BY <1>2, <3>2, <3>3
  <2>4. Formed(b, lines)
    <3>1. Formed(Text, lines)
      BY DEF TailInv, FileFormed
    <3>2. \A j \in DOMAIN b : a + j \in DOMAIN Text /\ b[j] = Text[a + j]
      BY <1>2, <1>4, <2>3
    <3>3. b \in Seq(Piece) /\ Text \in Seq(Piece) /\ lines \in Nat /\ a \in Nat
      BY <1>2, <1>4, <2>2
    <3> QED BY ONLY <3>1, <3>2, <3>3, FormedCuts
  <2>5. ~long => AllFit(b) /\ Whole(b)
    <3> SUFFICES ASSUME ~long PROVE AllFit(b) /\ Whole(b)
      OBVIOUS
    <3>1. AllFit(b)
      BY <1>2, <1>4, <2>3 DEF AllFit, TailInv, FileFormed
    <3>2. ASSUME b # <<>> PROVE b[1][2] = 1
      <4>1. 1 \in 1..Len(b) /\ a + 1 \in 1..Len(Text) /\ b[1] = Text[a + 1]
        BY <1>4, <2>3, <3>2
      <4>2. CASE a = 0
        BY <4>1, <4>2 DEF TailInv, FileFormed, Whole
      <4>3. CASE a # 0
        <5>1. Completes(Text[(a + 1) - 1]) /\ a + 1 > 1
          BY <2>1, <2>2, <4>3
        <5> QED BY <1>2, <4>1, <5>1 DEF TailInv, FileFormed, Formed, Starts
      <4> QED BY <4>2, <4>3
    <3> QED BY <3>1, <3>2 DEF Whole
(* A buffer is only too large when a line is long.                           *)
  <2>6. Len(b) > BufCap => long
    <3> SUFFICES ASSUME ~long, Len(b) > BufCap PROVE FALSE
      OBVIOUS
    <3>0. BufCap \in Nat /\ ReadSize \in Nat /\ Len(b) \in Nat
      BY <1>4, ReadAssumption
    <3>1. 1 \in 1..Len(b) /\ b[1] \in Piece
      BY <1>4, <3>0
    <3>2. b[1][1] \in Nat /\ b[1][2] \in Nat /\ b[1][3] \in Nat
      BY <3>1, PieceIs
    <3>3. b[1][3] - 1 + ReadSize <= BufCap /\ b[1][2] \in 1..b[1][3]
      BY <1>4, <2>4, <2>5, <3>1 DEF AllFit, Fits, Formed, Pieces
    <3>4. CASE Len(buf) = 0
      BY <1>3, <1>4, <3>0, <3>2, <3>3, <3>4
    <3>5. CASE Len(buf) # 0
      <4> DEFINE m == Len(buf)
      <4>1. m \in 1..Len(buf) /\ 1 \in 1..Len(buf) /\ m \in Nat /\ 1 <= m
        BY <1>2, <3>5
      <4>2. \A i \in 1..m : ~Completes(buf[i])
        BY <1>1, <1>2 DEF TailInv, BufFormed, Ends
      <4>3. buf[m][2] = buf[1][2] + (m - 1) /\ buf[m][3] = buf[1][3]
        <5>1. Runs(buf) /\ 1 \in DOMAIN buf /\ m \in DOMAIN buf
          BY <1>2, <4>1 DEF TailInv, BufFormed, Formed
        <5>2. \A i \in 1..(m - 1) : ~Completes(buf[i])
          BY <4>1, <4>2
        <5> QED BY <4>1, <5>1, <5>2, RunIs
      <4>4. buf[m][2] # buf[m][3] /\ buf[m][2] \in 1..buf[m][3]
        BY <1>2, <4>1, <4>2 DEF Completes, TailInv, BufFormed, Formed, Pieces
      <4>5. b[1] = buf[1]
        BY <1>4, <4>1
      <4>6. /\ b[1][3] \in Nat /\ b[1][2] \in 1..b[1][3]
            /\ b[1][3] - 1 + ReadSize <= BufCap
            /\ buf[m][2] = b[1][2] + (m - 1) /\ buf[m][2] \in 1..b[1][3]
            /\ buf[m][2] # b[1][3]
        BY <3>2, <3>3, <4>3, <4>4, <4>5
      <4>7. Len(buf) < b[1][3]
        BY ONLY <1>n, <4>1, <4>6
      <4>8. Len(b) > BufCap
        OBVIOUS
      <4> QED BY ONLY <1>n, <3>0, <4>6, <4>7, <4>8
    <3> QED BY <3>4, <3>5
  <2>7. BufFormed'
    <3>1. CASE Len(b) > BufCap
      BY <1>1, <1>2, <1>g, <3>1, EmptyFormed DEF BufFormed
    <3>2. CASE ~(Len(b) > BufCap)
      BY <1>1, <1>g, <2>4, <2>5, <3>2 DEF BufFormed
    <3> QED BY <3>1, <3>2
  <2>8. Linked'
    <3>1. CASE Len(b) > BufCap
      <4>1. buf' = <<>> /\ long' /\ pos' <= Len(Text') /\ pos' \in Nat
        BY <1>1, <1>2, <1>3, <1>g, <2>1, <2>6, <3>1
      <4> QED BY <1>1, <1>10, <1>e, <4>1 DEF Linked
    <3>2. CASE ~(Len(b) > BufCap)
      <4>1. buf' = b /\ pos' - Len(b) = a /\ pos' <= Len(Text') /\ Len(b) <= pos'
        BY <1>1, <1>2, <1>3, <1>4, <1>g, <2>1, <2>2, <3>2
      <4>2. pos' = Len(b) <=> a = 0
        <5>1. pos' = pos + Len(Chunk)
          BY <1>1
        <5> QED BY ONLY <1>n, <2>2, <5>1
      <4> QED BY <1>1, <1>4, <1>10, <2>1, <2>3, <4>1, <4>2 DEF Linked
    <3> QED BY <3>1, <3>2
  <2>9. Ahead'
    <3>1. ASSUME NEW i \in DOMAIN emitted PROVE Behind(emitted[i][1][1])'
      <4> DEFINE n == emitted[i][1][1]
      <4>1. /\ n <= lines /\ \A j \in 1..Len(buf) : n < buf[j][1]
            /\ \A j \in 1..Len(Text) : (\A k \in j..pos : ~Completes(Text[k])) => n < Text[j][1]
        BY <1>2 DEF TailInv, Ahead, Behind
      <4>2. n' = n
        BY <1>1 DEF n
      <4> HIDE DEF n
      <4>3. \A j \in 1..Len(Chunk) : n < Chunk[j][1]
        <5> SUFFICES ASSUME NEW j \in 1..Len(Chunk) PROVE n < Chunk[j][1]
          OBVIOUS
        <5>1. pos + j \in 1..Len(Text) /\ (pos + j)..pos = {}
          BY <1>2, <1>3, <2>1
        <5>2. n < Text[pos + j][1]
          BY <4>1, <5>1
        <5> QED BY <2>1, <5>2
      <4>4. \A j \in 1..Len(b) : n < b[j][1]
        <5> SUFFICES ASSUME NEW j \in 1..Len(b) PROVE n < b[j][1]
          OBVIOUS
        <5>1. CASE j <= Len(buf)
          BY <1>2, <1>4, <4>1, <5>1
        <5>2. CASE j > Len(buf)
          <6>1. j - Len(buf) \in 1..Len(Chunk) /\ Len(buf) + (j - Len(buf)) = j
            BY <1>2, <1>3, <1>4, <5>2
          <6> QED BY <1>4, <4>3, <6>1
        <5> QED BY <1>2, <5>1, <5>2
      <4>5. \A j \in DOMAIN buf' : n < buf'[j][1]
        BY <1>1, <1>4, <1>e, <1>g, <4>4
      <4>6. ASSUME NEW j \in 1..Len(Text), \A k \in j..(pos + Len(Chunk)) : ~Completes(Text[k])
            PROVE  n < Text[j][1]
        <5>1. \A k \in j..pos : k \in j..(pos + Len(Chunk))
          BY <1>2, <1>3
        <5> QED BY <4>1, <4>6, <5>1
      <4> QED BY <1>1, <1>2, <1>10, <4>1, <4>2, <4>5, <4>6 DEF Behind, n
    <3> QED BY <1>1, <1>10, <3>1 DEF TailInv, Ahead
  <2> QED BY <1>6, <1>7, <1>8, <2>7, <2>8, <2>9 DEF TailInv
<1> QED BY <1>9, <1>10

-----------------------------------------------------------------------------
NatOrder == OpToRel(<, Nat)

(* The order of the numbers as a relation.                                  *)
LEMMA NatOrderIs == \A i, j \in Nat : <<i, j>> \in NatOrder <=> i < j
BY DEF NatOrder, OpToRel

(* The first newline of a buffer that has one.                               *)
LEMMA FirstEndIs ==
  ASSUME buf \in Seq(Piece), Ends(buf) # {}
  PROVE  /\ FirstEnd \in 1..Len(buf) /\ Completes(buf[FirstEnd])
         /\ \A i \in 1..(FirstEnd - 1) : ~Completes(buf[i])
<1>1. Len(buf) \in Nat /\ DOMAIN buf = 1..Len(buf)
  OBVIOUS
<1>2. Ends(buf) \in SUBSET Nat /\ Ends(buf) \subseteq 1..Len(buf)
  BY <1>1 DEF Ends
<1>3. IsWellFoundedOn(NatOrder, Nat)
  BY NatLessThanWellFounded DEF NatOrder
<1>4. PICK e \in Ends(buf) : \A m \in Ends(buf) : <<m, e>> \notin NatOrder
  BY <1>2, <1>3, WFMin
<1>5. \A m \in Ends(buf) : e <= m
  <2> SUFFICES ASSUME NEW m \in Ends(buf) PROVE e <= m
    OBVIOUS
  <2>1. m \in Nat /\ e \in Nat
    BY <1>2
  <2>2. ~(m < e)
    BY <1>4, <2>1, NatOrderIs
  <2> QED BY <2>1, <2>2
<1>6. FirstEnd \in Ends(buf) /\ \A m \in Ends(buf) : FirstEnd <= m
  BY <1>4, <1>5 DEF FirstEnd
<1>7. FirstEnd \in 1..Len(buf) /\ Completes(buf[FirstEnd])
  BY <1>2, <1>6 DEF Ends
<1>8. ASSUME NEW i \in 1..(FirstEnd - 1) PROVE ~Completes(buf[i])
  <2>1. i \in 1..Len(buf) /\ ~(FirstEnd <= i)
    BY <1>1, <1>7
  <2> QED BY <1>1, <1>6, <2>1 DEF Ends
<1> QED BY <1>7, <1>8

(* Pieces that count up to the end of a line are its tail.                   *)
LEMMA LineTail ==
  ASSUME NEW n \in Nat, NEW l \in Nat, NEW from \in 1..l, NEW s \in Seq(Piece),
         Len(s) = l - from + 1, \A k \in 1..Len(s) : s[k] = <<n, from + (k - 1), l>>
  PROVE  /\ from \in DOMAIN Line(n, l) /\ s = SubSeq(Line(n, l), from, Len(Line(n, l)))
         /\ from = 1 => s = Line(n, l)
<1> DEFINE line == Line(n, l)
<1>1. line = [k \in 1..l |-> <<n, k, l>>]
  BY DEF Line
<1>2. \A k \in 1..l : <<n, k, l>> \in Piece
  BY DEF Piece
<1>3. line \in [1..l -> Piece]
  BY <1>1, <1>2
<1> HIDE DEF line
<1>4. line \in Seq(Piece) /\ Len(line) = l /\ DOMAIN line = 1..l
  BY SMTT(30), <1>3
<1>5. \A k \in 1..l : line[k] = <<n, k, l>>
  BY <1>1
<1> DEFINE t == SubSeq(line, from, l)
<1>6. t \in Seq(Piece) /\ Len(t) = l - from + 1 /\ \A k \in 1..Len(t) : t[k] = line[from + k - 1]
  BY <1>4
<1>7. \A k \in 1..Len(t) : t[k] = s[k]
  <2> SUFFICES ASSUME NEW k \in 1..Len(t) PROVE t[k] = s[k]
    OBVIOUS
  <2>1. from + k - 1 \in 1..l /\ from + k - 1 = from + (k - 1)
    BY <1>6
  <2>2. t[k] = <<n, from + (k - 1), l>>
    BY <1>5, <1>6, <2>1
  <2>3. s[k] = <<n, from + (k - 1), l>>
    BY <1>6
  <2> QED BY <2>2, <2>3
<1> HIDE DEF t
<1>8. s = t
  BY SMTT(30), <1>6, <1>7
<1>9. ASSUME from = 1 PROVE s = line
  <2>1. Len(s) = l /\ \A k \in 1..l : s[k] = line[k]
    <3>1. Len(s) = l
      BY <1>9
    <3>2. \A k \in 1..l : s[k] = <<n, k, l>>
      BY <1>9, <3>1
    <3> QED BY <1>5, <3>1, <3>2
  <2>2. Len(s) = Len(line) /\ \A k \in 1..Len(s) : s[k] = line[k]
    BY <1>4, <2>1
  <2>3. s \in Seq(Piece) /\ line \in Seq(Piece)
    BY <1>4
  <2> QED BY ONLY <2>2, <2>3
<1> QED BY <1>4, <1>8, <1>9 DEF line, t

(* A line is handed over: it is the tail of a line, and all that is to come  *)
(* is of later ones.                                                         *)
LEMMA EmitStep ==
  ASSUME TailInv, EmitLine
  PROVE  TailInv'
<1> DEFINE e == FirstEnd
           line == SubSeq(buf, 1, e)
           b == SubSeq(buf, e + 1, Len(buf))
           p == buf[1]
           L == Len(buf)
<1>1. /\ file' = file /\ lines' = lines /\ first' = first /\ resets' = resets
      /\ long' = long /\ Text' = Text /\ unnoticed' = unnoticed /\ pos' = pos
      /\ emitted' = Append(emitted, line)
      /\ tailer = "split" /\ buf' = b /\ tailer' = IF Ends(b) = {} THEN "poll" ELSE "split"
  BY DEF EmitLine, Keep, game, Text
<1>2. /\ Text \in Seq(Piece) /\ Len(Text) \in Nat /\ DOMAIN Text = 1..Len(Text)
      /\ buf \in Seq(Piece) /\ L \in Nat /\ DOMAIN buf = 1..L
      /\ pos \in Nat /\ lines \in Nat
  BY TextIs DEF TailInv
<1>3. e \in 1..L /\ Completes(buf[e]) /\ \A i \in 1..(e - 1) : ~Completes(buf[i])
  BY <1>1, <1>2, FirstEndIs DEF TailInv, BufFormed
<1> HIDE DEF e
<1>4. /\ line \in Seq(Piece) /\ Len(line) = e /\ \A j \in 1..e : line[j] = buf[j]
      /\ line # <<>>
  BY <1>2, <1>3
<1>5. b \in Seq(Piece) /\ Len(b) = L - e /\ DOMAIN b = 1..(L - e)
  <2>1. e \in Nat /\ e + 1 \in Nat /\ e + 1 <= L + 1 /\ e >= 1 /\ buf \in Seq(Piece)
        /\ L \in Nat
    BY <1>2, <1>3
  <2>2. b \in Seq(Piece) /\ Len(b) = L - (e + 1) + 1 /\ DOMAIN b = 1..Len(b)
    BY ONLY <2>1
  <2>3. L - (e + 1) + 1 = L - e
    BY <2>1
  <2> QED BY <2>2, <2>3
<1>6. \A j \in 1..(L - e) : b[j] = buf[e + j] /\ e + j \in 1..L
  <2>1. \A j \in 1..Len(b) : b[j] = buf[e + 1 + j - 1]
    BY <1>2, <1>3
  <2>2. \A j \in 1..(L - e) : e + 1 + j - 1 = e + j /\ e + j \in 1..L
    BY <1>2, <1>3
  <2> QED BY <1>5, <2>1, <2>2
<1>7. Formed(buf, lines) /\ Formed(Text, lines) /\ (~long => AllFit(buf) /\ Whole(buf))
  BY DEF TailInv, BufFormed, FileFormed
<1> HIDE DEF line, b
(* The line.                                                                 *)
<1>8. 1 \in 1..L /\ p \in Piece /\ p[1] \in 1..lines /\ p[2] \in 1..p[3] /\ p[3] \in Nat
  <2>1. 1 \in 1..L /\ p \in Piece
    BY <1>2, <1>3
  <2>2. p[1] \in 1..lines /\ p[2] \in 1..p[3]
    BY <1>2, <1>7, <2>1 DEF Formed, Pieces
  <2> QED BY <2>1, <2>2, PieceIs
<1>9. \A k \in 1..e : buf[k] = <<p[1], p[2] + (k - 1), p[3]>>
  <2> SUFFICES ASSUME NEW k \in 1..e PROVE buf[k] = <<p[1], p[2] + (k - 1), p[3]>>
    OBVIOUS
  <2>1. k \in DOMAIN buf /\ 1 \in DOMAIN buf /\ 1 <= k /\ \A i \in 1..(k - 1) : i \in 1..(e - 1)
    BY <1>2, <1>3
  <2>2. \A i \in 1..(k - 1) : ~Completes(buf[i])
    BY <1>3, <2>1
  <2>3. buf[k][1] = p[1] /\ buf[k][2] = p[2] + (k - 1) /\ buf[k][3] = p[3]
    BY <1>7, <2>1, <2>2, RunIs DEF Formed
  <2>4. buf[k] \in Piece
    BY <1>2, <2>1
  <2> QED BY <2>3, <2>4, PieceIs
<1>10. e = p[3] - p[2] + 1
  <2>1. e \in 1..e /\ e \in Nat
    BY <1>3
  <2>2. buf[e][2] = p[2] + (e - 1) /\ buf[e][3] = p[3]
    BY <1>9, <2>1
  <2>3. p[2] + (e - 1) = p[3]
    BY <1>3, <2>2 DEF Completes
  <2>4. p[2] \in Nat /\ p[3] \in Nat
    BY <1>8
  <2> QED BY ONLY <2>1, <2>3, <2>4
<1> HIDE DEF p
<1>11. /\ line[1] = p /\ p[2] \in DOMAIN Line(p[1], p[3])
       /\ line = SubSeq(Line(p[1], p[3]), p[2], Len(Line(p[1], p[3])))
       /\ long \/ line = Line(p[1], p[3])
  <2>1. p[1] \in Nat /\ p[2] \in 1..p[3] /\ p[3] \in Nat
    BY <1>2, <1>8
  <2>2. Len(line) = p[3] - p[2] + 1
    BY <1>4, <1>10
  <2>3. \A k \in 1..Len(line) : line[k] = <<p[1], p[2] + (k - 1), p[3]>>
    BY <1>4, <1>9
  <2>4. line[1] = p
    BY <1>3, <1>4 DEF p
  <2>5. ~long => p[2] = 1
    BY <1>2, <1>7, <1>8 DEF Whole, p
  <2>6. line \in Seq(Piece)
    BY <1>4
  <2>7. /\ p[2] \in DOMAIN Line(p[1], p[3])
        /\ line = SubSeq(Line(p[1], p[3]), p[2], Len(Line(p[1], p[3])))
        /\ p[2] = 1 => line = Line(p[1], p[3])
    <3> DEFINE n == p[1]
               from == p[2]
               l == p[3]
    <3>1. /\ n \in Nat /\ l \in Nat /\ from \in 1..l /\ Len(line) = l - from + 1
          /\ \A k \in 1..Len(line) : line[k] = <<n, from + (k - 1), l>>
      BY <2>1, <2>2, <2>3
    <3> HIDE DEF n, from, l
    <3>2. /\ from \in DOMAIN Line(n, l) /\ line = SubSeq(Line(n, l), from, Len(Line(n, l)))
          /\ from = 1 => line = Line(n, l)
      BY ONLY <2>6, <3>1, LineTail
    <3> QED BY <3>2 DEF n, from, l
  <2> QED BY <2>4, <2>5, <2>7
<1>12. emitted \in Seq(Seq(Piece)) /\ DOMAIN emitted = 1..Len(emitted) /\ Len(emitted) \in Nat
  BY DEF TailInv, TailTyped
<1>13. /\ emitted' \in Seq(Seq(Piece)) /\ DOMAIN emitted' = 1..(Len(emitted) + 1)
       /\ emitted'[Len(emitted) + 1] = line
       /\ \A i \in 1..Len(emitted) : emitted'[i] = emitted[i]
  BY <1>1, <1>4, <1>12
<1>14. \A i \in 1..Len(emitted) : emitted[i][1][1] < p[1]
  BY <1>2, <1>8, <1>12 DEF TailInv, Ahead, Behind, p
<1>15. LinesWholeInOrder'
  <2> SUFFICES ASSUME NEW i \in 1..(Len(emitted) + 1)
               PROVE  LET w == emitted'[i]
                          whole == Line(w[1][1], w[1][3])
                      IN /\ \E from \in DOMAIN whole : w = SubSeq(whole, from, Len(whole))
                         /\ long' \/ w = whole
                         /\ \A j \in 1..(i - 1) : emitted'[j][1][1] < w[1][1]
    BY Zenon, <1>13 DEF LinesWholeInOrder, Line
  <2>1. CASE i \in 1..Len(emitted)
    <3>1. emitted'[i] = emitted[i] /\ \A j \in 1..(i - 1) : emitted'[j] = emitted[j]
      BY <1>12, <1>13, <2>1
    <3>2. LET w == emitted[i]
              whole == Line(w[1][1], w[1][3])
          IN /\ \E from \in DOMAIN whole : w = SubSeq(whole, from, Len(whole))
             /\ long \/ w = whole
             /\ \A j \in 1..(i - 1) : emitted[j][1][1] < w[1][1]
      BY <1>12, <2>1, Zenon DEF TailInv, LinesWholeInOrder
    <3> QED BY <1>1, <3>1, <3>2
  <2>2. CASE i = Len(emitted) + 1
    <3>1. emitted'[i] = line
      BY <1>13, <2>2
    <3>2. \A j \in 1..(i - 1) : emitted'[j][1][1] < line[1][1]
      BY SMTT(30), <1>11, <1>12, <1>13, <1>14, <2>2
    <3> QED BY <1>1, <1>11, <3>1, <3>2
  <2> QED BY <1>12, <2>1, <2>2
<1>16. TailTyped'
  BY <1>1, <1>5, <1>13 DEF TailInv, TailTyped
<1>17. FileFormed'
  BY <1>1 DEF TailInv, FileFormed
<1>18. BufFormed'
  <2>1. Formed(b, lines)
    <3>1. \A j \in DOMAIN b : e + j \in DOMAIN buf /\ b[j] = buf[e + j]
      BY <1>2, <1>5, <1>6
    <3>2. e \in Nat
      BY <1>3
    <3> QED BY ONLY <1>2, <1>5, <1>7, <3>1, <3>2, FormedCuts
  <2>2. ~long => AllFit(b)
    BY <1>2, <1>5, <1>6, <1>7 DEF AllFit
  <2>3. Whole(b)
    <3> SUFFICES ASSUME b # <<>> PROVE b[1][2] = 1
      BY DEF Whole
    <3>1. 1 \in 1..(L - e)
      BY <1>2, <1>3, <1>5
    <3>2. b[1] = buf[e + 1] /\ e + 1 \in 1..L /\ e + 1 > 1 /\ (e + 1) - 1 = e
      BY <1>3, <1>6, <3>1
    <3> QED BY <1>2, <1>3, <1>7, <3>2 DEF Formed, Starts
  <2> QED BY <1>1, <2>1, <2>2, <2>3 DEF BufFormed
<1>19. Linked'
  <2>1. CASE unnoticed
    BY <1>1, <2>1 DEF TailInv, Linked
  <2>2. CASE ~unnoticed
    <3>1. /\ pos <= Len(Text) /\ L <= pos
          /\ \A j \in 1..L : buf[j] = Text[pos - L + j]
      BY <1>2, <2>2 DEF TailInv, Linked
    <3>2. pos - Len(b) = pos - L + e /\ Len(b) <= pos /\ e \in 1..L
      BY <1>2, <1>3, <1>5, <3>1
    <3>3. Completes(Text[pos - Len(b)])
      BY <1>3, <3>1, <3>2
    <3>4. \A j \in 1..(L - e) : b[j] = Text[pos - Len(b) + j]
      <4> SUFFICES ASSUME NEW j \in 1..(L - e) PROVE b[j] = Text[pos - Len(b) + j]
        OBVIOUS
      <4>1. b[j] = Text[pos - L + (e + j)]
        BY <1>6, <3>1
      <4>2. pos - L + (e + j) = pos - Len(b) + j
        BY <1>2, <1>3, <1>5
      <4> QED BY <4>1, <4>2
    <3> QED BY <1>1, <1>5, <2>2, <3>1, <3>2, <3>3, <3>4 DEF Linked
  <2> QED BY <2>1, <2>2
<1>20. Ahead'
  <2> DEFINE Later(n) ==
               /\ n <= lines
               /\ \A j \in DOMAIN b : n < b[j][1]
               /\ \A j \in DOMAIN Text :
                    unnoticed \/ (\A k \in j..pos : ~Completes(Text[k])) => n < Text[j][1]
  <2>1. ASSUME NEW i \in 1..Len(emitted)
        PROVE  emitted[i] # <<>> /\ Later(emitted[i][1][1])
    <3> DEFINE n == emitted[i][1][1]
    <3>1. /\ emitted[i] # <<>> /\ n <= lines /\ \A j \in 1..L : n < buf[j][1]
          /\ \A j \in DOMAIN Text :
               unnoticed \/ (\A k \in j..pos : ~Completes(Text[k])) => n < Text[j][1]
      BY <1>2, <1>12 DEF TailInv, Ahead, Behind
    <3> HIDE DEF n
    <3>2. \A j \in DOMAIN b : n < b[j][1]
      BY <1>5, <1>6, <3>1
    <3> QED BY <3>1, <3>2 DEF n
  <2>2. Later(p[1])
    <3>1. p[1] = buf[e][1] /\ p[1] <= lines
      <4>1. e \in 1..e
        BY <1>3
      <4>2. buf[e][1] = p[1]
        BY <1>9, <4>1
      <4> QED BY <1>2, <1>8, <4>2
    <3>2. \A j \in DOMAIN b : p[1] < b[j][1]
      <4> SUFFICES ASSUME NEW j \in 1..(L - e) PROVE p[1] < b[j][1]
        BY <1>5
      <4>1. e \in DOMAIN buf /\ e + j \in DOMAIN buf /\ e < e + j
        BY <1>2, <1>3, <1>6
      <4> QED BY <1>3, <1>6, <1>7, <3>1, <4>1 DEF Formed, Climbs
    <3>3. ASSUME NEW j \in 1..Len(Text), unnoticed \/ \A k \in j..pos : ~Completes(Text[k])
          PROVE  p[1] < Text[j][1]
      <4>1. CASE unnoticed
        BY <1>2, <1>8, <4>1 DEF TailInv, Ahead, p
      <4>2. CASE ~unnoticed
        <5> DEFINE q == pos - L + e
        <5>1. pos <= Len(Text) /\ L <= pos /\ buf[e] = Text[q]
          BY <1>2, <1>3, <4>2 DEF TailInv, Linked
        <5>2. q \in 1..Len(Text) /\ q <= pos /\ q \in Nat
          BY <1>2, <1>3, <5>1
        <5> HIDE DEF q
        <5>3. ~(q \in j..pos)
          BY <1>3, <3>3, <4>2, <5>1
        <5>4. q < j
          BY <1>2, <5>2, <5>3
        <5> QED BY <1>2, <1>3, <1>7, <3>1, <5>1, <5>2, <5>4 DEF Formed, Climbs
      <4> QED BY <4>1, <4>2
    <3> QED BY <1>2, <3>1, <3>2, <3>3
  <2>3. ASSUME unnoticed, NEW i \in DOMAIN b, NEW j \in DOMAIN Text PROVE b[i][1] < Text[j][1]
    BY <1>2, <1>5, <1>6, <2>3 DEF TailInv, Ahead
  <2> HIDE DEF Later
  <2>4. ASSUME NEW i \in DOMAIN emitted'
        PROVE  emitted'[i] # <<>> /\ Later(emitted'[i][1][1])
    <3>1. CASE i \in 1..Len(emitted)
      BY <1>13, <2>1, <3>1
    <3>2. CASE i = Len(emitted) + 1
      BY <1>4, <1>11, <1>13, <2>2, <3>2
    <3> QED BY <1>12, <1>13, <3>1, <3>2
  <2> QED BY <1>1, <2>3, <2>4 DEF Ahead, Behind, Later
<1> QED BY <1>15, <1>16, <1>17, <1>18, <1>19, <1>20 DEF TailInv

(* The invariant is inductive.                                               *)
LEMMA TailSteps ==
  ASSUME SlowGame, TailInv, TailNext
  PROVE  TailInv'
<1>0. TailTyped
  BY DEF TailInv
<1>1. CASE LinkGamelog
  <2>1. lines + 1 \in Nat /\ resets \in Nat
    BY <1>0 DEF TailTyped
  <2> QED BY <1>1, <2>1, TruncateStep DEF LinkGamelog
<1>2. CASE GameResets
  <2>1. first \in Nat /\ resets + 1 \in Nat
    BY <1>0 DEF TailTyped
  <2> QED BY <1>2, <2>1, TruncateStep DEF GameResets
<1>3. CASE GameWrites
  BY <1>3, GameWritesStep
<1>4. CASE Open
  BY <1>4, TailerMoves DEF Open
<1>5. CASE GiveUp \/ Stopped \/ ReadFails
  BY <1>5, TailerMoves DEF GiveUp, Stopped, ReadFails
<1>6. CASE Stat
  BY <1>6, StatStep
<1>7. CASE Read
  BY <1>7, ReadStep
<1>8. CASE EmitLine
  BY <1>8, EmitStep
<1> QED BY <1>1, <1>2, <1>3, <1>4, <1>5, <1>6, <1>7, <1>8
        DEF TailNext, Container, Polling

(* It holds of every run.                                                    *)
LEMMA TailInvHolds ==
  ASSUME SlowGame
  PROVE  TailSpec => []TailInv
<1>1. TailInv /\ [TailNext]_tailVars => TailInv'
  <2>1. CASE TailNext
    BY <2>1, TailSteps
  <2>2. CASE UNCHANGED tailVars
    BY <2>2, TailerMoves DEF tailVars, game
  <2> QED BY <2>1, <2>2
<1> QED BY TailStarts, <1>1, PTL DEF TailSpec

(* Whatever the lengths of the lines, the sizes of a read and of the buffer  *)
(* and the resets: what the log is given is a line or, once a long one was   *)
(* written, the tail of one, in the order written and none twice.            *)
THEOREM LinesComeWhole ==
  ASSUME SlowGame
  PROVE  TailSpec => []LinesWholeInOrder
<1>1. TailInv => LinesWholeInOrder
  BY DEF TailInv
<1> QED BY TailInvHolds, <1>1, PTL

-----------------------------------------------------------------------------
(* The log.                                                                  *)

(* A client is subscribed while its handler streams, and one that is still   *)
(* being subscribed holds the lock.                                          *)
Placed ==
  \A c \in Clients :
    /\ c \in subs <=> pc[c] \in {"stream", "drops", "leave"}
    /\ pc[c] = "replay" => mu = c

(* What a new subscriber was given and is still to be given is all there is  *)
(* since its replay began.                                                   *)
ReplayCounted ==
  \A c \in Clients : pc[c] = "replay" =>
    /\ got[c] = <<>> /\ drops[c] = 0 /\ told[c] = 0
    /\ appended - before[c] = Len(ch[c]) + Len(todo[c])

Typed == TypeOK /\ Len(events) <= appended

Inv == Typed /\ Placed /\ ReplayCounted /\ EventsCounted

-----------------------------------------------------------------------------
(* The newest n elements of a sequence are a sequence of at most n of its    *)
(* elements.                                                                 *)
LEMMA NewestIsShort ==
  ASSUME NEW S, NEW s \in Seq(S), NEW n \in Nat
  PROVE  /\ Newest(n, s) \in Seq(S)
         /\ Len(Newest(n, s)) <= n
         /\ Len(Newest(n, s)) <= Len(s)
  BY DEF Newest

(* The types of one client's variables.                                      *)
LEMMA ClientTypes ==
  ASSUME TypeOK, NEW c \in Clients
  PROVE  /\ ch[c] \in Seq(Events) /\ Len(ch[c]) \in Nat /\ Len(ch[c]) <= Cap
         /\ todo[c] \in Seq(Events) /\ Len(todo[c]) \in Nat
         /\ got[c] \in Seq(Events) /\ Len(got[c]) \in Nat
         /\ drops[c] \in Nat /\ told[c] \in Nat /\ before[c] \in Int
         /\ appended \in Int
<1>1. ch[c] \in Seq(Events) /\ todo[c] \in Seq(Events) /\ got[c] \in Seq(Events)
  BY DEF TypeOK
<1>2. drops[c] \in Nat /\ told[c] \in Nat /\ before[c] \in 0..MaxAppends
  BY DEF TypeOK
<1>3. Len(ch[c]) <= Cap /\ appended \in 0..MaxAppends
  BY DEF TypeOK
<1> QED BY <1>1, <1>2, <1>3, BoundsAssumption

(* The invariant holds at the start.                                         *)
LEMMA InitHolds == Init => Inv
<1> SUFFICES ASSUME Init PROVE Inv
  OBVIOUS
<1>1. Len(<<>>) = 0 /\ <<>> \in Seq(Events)
  OBVIOUS
<1>2. /\ ch \in [Clients -> Seq(Events)] /\ todo \in [Clients -> Seq(Events)]
      /\ got \in [Clients -> Seq(Events)]
  BY <1>1 DEF Init
<1>4. /\ drops \in [Clients -> Nat] /\ told \in [Clients -> Nat]
      /\ before \in [Clients -> 0..MaxAppends] /\ connects \in [Clients -> 0..MaxConnects]
      /\ pc \in [Clients -> {"off", "replay", "stream", "drops", "leave"}]
  BY BoundsAssumption DEF Init
<1>5. \A c \in Clients : Len(ch[c]) <= Cap
  BY <1>1, SizesAssumption DEF Init
<1>6. Typed
  <2>1. appended \in 0..MaxAppends /\ mu \in Clients \cup {None} /\ subs \subseteq Clients
    BY BoundsAssumption DEF Init
  <2>3. closed \in BOOLEAN
    BY DEF Init
  <2>2. events \in Seq(Events) /\ Len(events) <= Ring /\ Len(events) <= appended
    BY <1>1, SizesAssumption DEF Init
  <2> QED BY <1>2, <1>4, <1>5, <2>1, <2>2, <2>3 DEF Typed, TypeOK
<1>3. Placed /\ ReplayCounted /\ EventsCounted
  BY DEF Init, Placed, ReplayCounted, EventsCounted
<1> QED BY <1>3, <1>6 DEF Inv

(* Each action preserves the types.                                          *)
LEMMA TypedStep == Inv /\ [Next]_vars => Typed'
<1> SUFFICES ASSUME Inv, [Next]_vars PROVE Typed'
  OBVIOUS
<1> USE BoundsAssumption, SizesAssumption, ClientsAssumption DEF Inv, Typed, TypeOK
<1>1. CASE AppendEvent
  <2>1. appended' \in Events /\ appended' = appended + 1 /\ appended' \in 0..MaxAppends
    BY <1>1 DEF AppendEvent, Events
  <2>2. events' \in Seq(Events) /\ Len(events') <= Ring /\ Len(events') <= Len(events) + 1
    <3> DEFINE longer == Append(events, appended')
    <3>1. longer \in Seq(Events) /\ Len(longer) = Len(events) + 1
      BY <2>1
    <3>2. events' = Newest(Ring, longer)
      BY <1>1 DEF AppendEvent, Trimmed
    <3> HIDE DEF longer
    <3> QED BY <3>1, <3>2, NewestIsShort
  <2>3. ch' \in [Clients -> Seq(Events)]
    <3>1. \A c \in Clients : ch[c] \in Seq(Events) /\ Append(ch[c], appended') \in Seq(Events)
      BY <2>1
    <3> QED BY <1>1, <3>1 DEF AppendEvent
  <2>4. \A c \in Clients : Len(ch'[c]) <= Cap
    BY <1>1, <2>1 DEF AppendEvent, Full
  <2>5. drops' \in [Clients -> Nat]
    <3>0. drops \in [Clients -> Nat]
      OBVIOUS
    <3>1. \A c \in Clients : drops[c] \in Nat /\ drops[c] + 1 \in Nat
      BY ONLY <3>0
    <3>2. \A c \in Clients : CountDrop(c) \in Nat
      BY ONLY <3>1 DEF CountDrop
    <3> HIDE DEF Inv, Typed, TypeOK
    <3> QED BY <1>1, <3>2 DEF AppendEvent
  <2>6. UNCHANGED <<mu, closed, subs, todo, pc, connects, before, got, told>>
    BY <1>1 DEF AppendEvent, history
  <2>7. Len(events') \in Nat /\ Len(events) \in Nat /\ Len(events) <= appended
    BY <2>2
  <2>8. Len(events') <= appended'
    BY <2>1, <2>2, <2>7
  <2> QED BY <2>1, <2>2, <2>3, <2>4, <2>5, <2>6, <2>8
<1>2. CASE Close
  BY <1>2 DEF Close, history
<1>3. ASSUME NEW c \in Clients, Subscribe(c) PROVE Typed'
  <2>1. Replayed \in Seq(Events) /\ Len(Replayed) <= Len(events)
    BY NewestIsShort DEF Replayed
  <2>2. appended - Len(Replayed) \in 0..MaxAppends
    <3>1. events \in Seq(Events) /\ appended \in 0..MaxAppends /\ Len(events) <= appended
      OBVIOUS
    <3>2. Len(Replayed) \in Nat /\ Len(events) \in Nat
      BY ONLY <2>1, <3>1
    <3> QED BY ONLY <2>1, <3>1, <3>2, BoundsAssumption
  <2>3. connects[c] + 1 \in 0..MaxConnects
    <3>1. connects[c] \in 0..MaxConnects /\ connects[c] < MaxConnects
      BY <1>3 DEF Subscribe
    <3> QED BY ONLY <3>1, BoundsAssumption
  <2>4. <<>> \in Seq(Events) /\ Len(<<>>) = 0
    OBVIOUS
  <2>5. /\ ch' = [ch EXCEPT ![c] = <<>>] /\ got' = [got EXCEPT ![c] = <<>>]
        /\ todo' = [todo EXCEPT ![c] = Replayed]
        /\ drops' = [drops EXCEPT ![c] = 0] /\ told' = [told EXCEPT ![c] = 0]
        /\ before' = [before EXCEPT ![c] = appended - Len(Replayed)]
        /\ connects' = [connects EXCEPT ![c] = @ + 1]
        /\ pc' = [pc EXCEPT ![c] = "replay"]
        /\ mu' = c /\ UNCHANGED <<appended, events, closed, subs>>
    BY <1>3 DEF Subscribe
  <2>6. /\ ch' \in [Clients -> Seq(Events)] /\ got' \in [Clients -> Seq(Events)]
        /\ todo' \in [Clients -> Seq(Events)]
    BY <2>1, <2>4, <2>5
  <2>7. /\ drops' \in [Clients -> Nat] /\ told' \in [Clients -> Nat]
        /\ before' \in [Clients -> 0..MaxAppends]
        /\ connects' \in [Clients -> 0..MaxConnects]
        /\ pc' \in [Clients -> {"off", "replay", "stream", "drops", "leave"}]
    BY <2>2, <2>3, <2>5
  <2>8. \A d \in Clients : Len(ch'[d]) <= Cap
    BY <2>4, <2>5
  <2> QED BY <2>5, <2>6, <2>7, <2>8
<1>4. ASSUME NEW c \in Clients, ReplayOne(c) PROVE Typed'
  <2>1. todo[c] \in Seq(Events) /\ todo[c] # <<>>
    BY <1>4 DEF ReplayOne
  <2>2. Head(todo[c]) \in Events /\ Tail(todo[c]) \in Seq(Events)
    BY ONLY <2>1
  <2>3. Append(ch[c], Head(todo[c])) \in Seq(Events) /\ Len(Append(ch[c], Head(todo[c]))) <= Cap
    BY <1>4, <2>2 DEF ReplayOne, Full
  <2> QED BY <1>4, <2>2, <2>3 DEF ReplayOne, history
<1>5. ASSUME NEW c \in Clients, Join(c) PROVE Typed'
  BY <1>5 DEF Join, history
<1>6. ASSUME NEW c \in Clients, Deliver(c) PROVE Typed'
  <2>1. ch[c] \in Seq(Events) /\ ch[c] # <<>> /\ Len(ch[c]) <= Cap
    BY <1>6 DEF Deliver
  <2>2. Head(ch[c]) \in Events /\ Tail(ch[c]) \in Seq(Events) /\ Len(Tail(ch[c])) <= Cap
    BY ONLY <2>1, SizesAssumption
  <2>3. Append(got[c], Head(ch[c])) \in Seq(Events)
    BY <2>2
  <2> QED BY <1>6, <2>2, <2>3 DEF Deliver, Goto
<1>7. ASSUME NEW c \in Clients, KeepAlive(c) PROVE Typed'
  BY <1>7 DEF KeepAlive, Goto, history
<1>8. ASSUME NEW c \in Clients, EmitDrops(c) PROVE Typed'
  <2>1. told[c] \in Nat /\ drops[c] \in Nat
    OBVIOUS
  <2>2. told[c] + drops[c] \in Nat /\ drops[c] - drops[c] \in Nat
    BY ONLY <2>1
  <2> QED BY <1>8, <2>2 DEF EmitDrops, TakeDrops, Goto
<1>9. ASSUME NEW c \in Clients, SessionEnded(c) PROVE Typed'
  BY <1>9 DEF SessionEnded, ObserveDone, Goto, history
<1>10. ASSUME NEW c \in Clients, Disconnect(c) PROVE Typed'
  BY <1>10 DEF Disconnect, Goto, history
<1>11. ASSUME NEW c \in Clients, Unsubscribe(c) PROVE Typed'
  BY <1>11 DEF Unsubscribe, Goto, history
<1>12. CASE UNCHANGED vars
  BY <1>12 DEF vars, history
<1> QED
  BY <1>1, <1>2, <1>3, <1>4, <1>5, <1>6, <1>7, <1>8, <1>9, <1>10, <1>11, <1>12 DEF Next, Handler

(* Each action keeps the handlers where the lock and sl.subs say.            *)
LEMMA PlacedStep == Inv /\ [Next]_vars => Placed'
<1> SUFFICES ASSUME Inv, [Next]_vars, NEW d \in Clients
             PROVE  /\ d \in subs' <=> pc'[d] \in {"stream", "drops", "leave"}
                    /\ pc'[d] = "replay" => mu' = d
  BY DEF Placed
<1> USE ClientsAssumption DEF Inv, Typed, TypeOK, Placed, Goto, history
<1>1. CASE AppendEvent
  BY <1>1 DEF AppendEvent
<1>2. CASE Close
  BY <1>2 DEF Close
<1>3. ASSUME NEW c \in Clients, Handler(c)
      PROVE  /\ d \in subs' <=> pc'[d] \in {"stream", "drops", "leave"}
             /\ pc'[d] = "replay" => mu' = d
  <2>1. CASE Subscribe(c)
    BY <2>1 DEF Subscribe, Unlocked
  <2>2. CASE ReplayOne(c)
    BY <2>2 DEF ReplayOne
  <2>3. CASE Join(c)
    BY <2>3 DEF Join
  <2>4. CASE Deliver(c) \/ KeepAlive(c) \/ EmitDrops(c)
    BY <2>4 DEF Deliver, KeepAlive, EmitDrops
  <2>5. CASE SessionEnded(c) \/ Disconnect(c) \/ Unsubscribe(c)
    BY <2>5 DEF SessionEnded, Disconnect, Unsubscribe
  <2> QED BY <1>3, <2>1, <2>2, <2>3, <2>4, <2>5 DEF Handler
<1>4. CASE UNCHANGED vars
  BY <1>4 DEF vars
<1> QED BY <1>1, <1>2, <1>3, <1>4 DEF Next

(* What each action does to the account of one client.                       *)
LEMMA CountedStep == Inv /\ [Next]_vars => ReplayCounted' /\ EventsCounted'
<1> SUFFICES ASSUME Inv, [Next]_vars PROVE ReplayCounted' /\ EventsCounted'
  OBVIOUS
<1>0. subs' \subseteq Clients
  <2>1. Typed'
    BY TypedStep
  <2> QED BY <2>1 DEF Typed, TypeOK
<1> SUFFICES ASSUME NEW d \in Clients
             PROVE  /\ pc'[d] = "replay" =>
                         /\ got'[d] = <<>> /\ drops'[d] = 0 /\ told'[d] = 0
                         /\ appended' - before'[d] = Len(ch'[d]) + Len(todo'[d])
                    /\ d \in subs' =>
                         appended' - before'[d]
                           = Len(got'[d]) + Len(ch'[d]) + drops'[d] + told'[d]
  BY <1>0 DEF ReplayCounted, EventsCounted
<1> DEFINE Counted ==
      /\ pc'[d] = "replay" =>
           /\ got'[d] = <<>> /\ drops'[d] = 0 /\ told'[d] = 0
           /\ appended' - before'[d] = Len(ch'[d]) + Len(todo'[d])
      /\ d \in subs' =>
           appended' - before'[d] = Len(got'[d]) + Len(ch'[d]) + drops'[d] + told'[d]
<1> SUFFICES Counted
  OBVIOUS
<1>a. TypeOK /\ Placed /\ ReplayCounted /\ EventsCounted /\ None \notin Clients
  BY ClientsAssumption DEF Inv, Typed
<1>b. /\ ch[d] \in Seq(Events) /\ Len(ch[d]) \in Nat
      /\ Len(todo[d]) \in Nat /\ Len(got[d]) \in Nat
      /\ drops[d] \in Nat /\ told[d] \in Nat /\ before[d] \in Int /\ appended \in Int
  BY <1>a, ClientTypes
<1>c. /\ d \in subs <=> pc[d] \in {"stream", "drops", "leave"}
      /\ pc[d] = "replay" => mu = d
      /\ pc[d] = "replay" =>
           /\ got[d] = <<>> /\ drops[d] = 0 /\ told[d] = 0
           /\ appended - before[d] = Len(ch[d]) + Len(todo[d])
      /\ d \in subs => appended - before[d] = Len(got[d]) + Len(ch[d]) + drops[d] + told[d]
  BY <1>a DEF Placed, ReplayCounted, EventsCounted
<1>d. /\ DOMAIN pc = Clients /\ DOMAIN ch = Clients /\ DOMAIN todo = Clients
      /\ DOMAIN got = Clients /\ DOMAIN drops = Clients /\ DOMAIN told = Clients
      /\ DOMAIN before = Clients
  BY <1>a DEF TypeOK
<1> USE <1>b, <1>c, <1>d DEF Goto, history
<1>1. CASE AppendEvent
  <2>1. pc'[d] # "replay"
    BY <1>1, <1>a DEF AppendEvent, Unlocked
  <2>2. ASSUME d \in subs
        PROVE  Len(ch'[d]) + drops'[d] = Len(ch[d]) + drops[d] + 1
    <3>1. CASE Full(d)
      BY <1>1, <2>2, <3>1 DEF AppendEvent, CountDrop
    <3>2. CASE ~Full(d)
      <4>1. ch'[d] = Append(ch[d], appended') /\ drops'[d] = drops[d]
        BY <1>1, <2>2, <3>2 DEF AppendEvent, CountDrop
      <4>2. Len(Append(ch[d], appended')) = Len(ch[d]) + 1
        OBVIOUS
      <4> QED BY <4>1, <4>2
    <3> QED BY <3>1, <3>2
  <2>3. /\ appended' = appended + 1 /\ before'[d] = before[d] /\ got'[d] = got[d]
        /\ told'[d] = told[d] /\ subs' = subs
    BY <1>1 DEF AppendEvent
  <2>4. Len(ch'[d]) \in Int /\ drops'[d] \in Int
    <3>1. Typed'
      BY TypedStep
    <3>2. ch'[d] \in Seq(Events) /\ drops'[d] \in Nat
      BY <3>1 DEF Typed, TypeOK
    <3> QED BY <3>2
  <2>5. ASSUME d \in subs
        PROVE  appended' - before'[d] = Len(got'[d]) + Len(ch'[d]) + drops'[d] + told'[d]
    <3>1. appended - before[d] = Len(got[d]) + Len(ch[d]) + drops[d] + told[d]
      BY <2>5
    <3>2. Len(ch'[d]) + drops'[d] = Len(ch[d]) + drops[d] + 1
      BY <2>2, <2>5
    <3>3. (appended + 1) - before[d] = Len(got[d]) + Len(ch'[d]) + drops'[d] + told[d]
      <4>a. /\ appended \in Int /\ before[d] \in Int /\ Len(got[d]) \in Int
            /\ Len(ch[d]) \in Int /\ drops[d] \in Int /\ told[d] \in Int
        BY <1>a, ClientTypes
      <4>1. PICK a \in Int, b \in Int, g \in Int, h \in Int, n \in Int, t \in Int :
              /\ a = appended /\ b = before[d] /\ g = Len(got[d]) /\ h = Len(ch[d])
              /\ n = drops[d] /\ t = told[d]
        BY ONLY <4>a
      <4>0. PICK h2 \in Int, n2 \in Int : h2 = Len(ch'[d]) /\ n2 = drops'[d]
        BY <2>4
      <4>2. a - b = g + h + n + t
        BY <3>1, <4>1
      <4>3. h2 + n2 = h + n + 1
        BY <3>2, <4>1, <4>0
      <4>4. (a + 1) - b = g + h2 + n2 + t
        BY ONLY <4>2, <4>3
      <4> QED BY <4>1, <4>0, <4>4
    <3> QED BY <3>3, <2>3
  <2> QED BY <2>1, <2>3, <2>5
<1>2. CASE Close
  BY <1>2 DEF Close
<1>3. ASSUME NEW c \in Clients, Subscribe(c) PROVE Counted
  <2>1. Replayed \in Seq(Events) /\ Len(Replayed) <= Len(events)
    BY <1>a, SizesAssumption, NewestIsShort DEF Replayed, TypeOK
  <2>2. Len(<<>>) = 0 /\ Len(Replayed) \in Nat
    BY <2>1
  <2>3. CASE d = c
    <3>1. pc'[c] = "replay" /\ c \notin subs'
      BY <1>3, <2>3 DEF Subscribe
    <3>2. got'[c] = <<>> /\ drops'[c] = 0 /\ told'[c] = 0 /\ ch'[c] = <<>> /\ todo'[c] = Replayed
      BY <1>3 DEF Subscribe
    <3>3. appended' = appended /\ before'[c] = appended - Len(Replayed)
      BY <1>3 DEF Subscribe
    <3> QED BY <2>2, <2>3, <3>1, <3>2, <3>3
  <2>4. CASE d # c
    BY <1>3, <2>4 DEF Subscribe
  <2> QED BY <2>3, <2>4
<1>4. ASSUME NEW c \in Clients, ReplayOne(c) PROVE Counted
  <2>0. ch[c] \in Seq(Events) /\ todo[c] \in Seq(Events) /\ todo[c] # <<>>
    BY <1>4, <1>a, ClientTypes DEF ReplayOne
  <2>1. Len(Append(ch[c], Head(todo[c]))) = Len(ch[c]) + 1 /\ Len(Tail(todo[c])) = Len(todo[c]) - 1
    BY ONLY <2>0
  <2>2. Len(ch'[c]) + Len(todo'[c]) = Len(ch[c]) + Len(todo[c])
    BY <1>4, <2>1 DEF ReplayOne
  <2> QED BY <1>4, <2>2 DEF ReplayOne
<1>5. ASSUME NEW c \in Clients, Join(c) PROVE Counted
  BY <1>5 DEF Join
<1>6. ASSUME NEW c \in Clients, Deliver(c) PROVE Counted
  <2>0. ch[c] \in Seq(Events) /\ got[c] \in Seq(Events) /\ ch[c] # <<>>
    BY <1>6, <1>a, ClientTypes DEF Deliver
  <2>a. Len(Append(got[c], Head(ch[c]))) = Len(got[c]) + 1 /\ Len(Tail(ch[c])) = Len(ch[c]) - 1
    BY ONLY <2>0
  <2>1. Len(got'[c]) = Len(got[c]) + 1 /\ Len(ch'[c]) = Len(ch[c]) - 1
    BY <1>6, <2>a DEF Deliver
  <2>2. CASE d = c
    <3>1. d \in subs /\ d \in subs' /\ pc'[d] = "drops"
      BY <1>6, <2>2 DEF Deliver
    <3>2. /\ appended' = appended /\ before'[d] = before[d]
          /\ drops'[d] = drops[d] /\ told'[d] = told[d]
      BY <1>6 DEF Deliver
    <3>3. appended - before[d] = Len(got[d]) + Len(ch[d]) + drops[d] + told[d]
      BY <3>1
    <3>4. appended - before[d] = (Len(got[d]) + 1) + (Len(ch[d]) - 1) + drops[d] + told[d]
      <4>a. /\ appended \in Int /\ before[d] \in Int /\ Len(got[d]) \in Int
            /\ Len(ch[d]) \in Int /\ drops[d] \in Int /\ told[d] \in Int
        BY <1>a, ClientTypes
      <4>1. PICK a \in Int, b \in Int, g \in Int, h \in Int, n \in Int, t \in Int :
              /\ a = appended /\ b = before[d] /\ g = Len(got[d]) /\ h = Len(ch[d])
              /\ n = drops[d] /\ t = told[d]
        BY ONLY <4>a
      <4>2. a - b = g + h + n + t
        BY <3>3, <4>1
      <4>3. a - b = (g + 1) + (h - 1) + n + t
        BY ONLY <4>2
      <4> QED BY <4>1, <4>3
    <3> QED BY <2>1, <2>2, <3>1, <3>2, <3>4
  <2>3. CASE d # c
    BY <1>6, <2>3 DEF Deliver
  <2> QED BY <2>2, <2>3
<1>7. ASSUME NEW c \in Clients, KeepAlive(c) PROVE Counted
  BY <1>7 DEF KeepAlive
<1>8. ASSUME NEW c \in Clients, EmitDrops(c) PROVE Counted
  <2>2. CASE d = c
    <3>1. d \in subs /\ pc'[d] = "stream" /\ subs' = subs
      BY <1>8, <2>2 DEF EmitDrops
    <3>2. told'[d] = told[d] + drops[d] /\ drops'[d] = drops[d] - drops[d]
      BY <1>8, <2>2 DEF EmitDrops, TakeDrops
    <3>3. appended' = appended /\ before'[d] = before[d] /\ got'[d] = got[d] /\ ch'[d] = ch[d]
      BY <1>8 DEF EmitDrops
    <3> QED BY <3>1, <3>2, <3>3
  <2>3. CASE d # c
    BY <1>8, <2>3 DEF EmitDrops
  <2> QED BY <2>2, <2>3
<1>9. ASSUME NEW c \in Clients, SessionEnded(c) \/ Disconnect(c) \/ Unsubscribe(c) PROVE Counted
  BY <1>9 DEF SessionEnded, ObserveDone, Disconnect, Unsubscribe
<1>10. CASE UNCHANGED vars
  BY <1>10 DEF vars
<1> HIDE DEF Counted
<1> QED
  BY <1>1, <1>2, <1>3, <1>4, <1>5, <1>6, <1>7, <1>8, <1>9, <1>10 DEF Next, Handler

-----------------------------------------------------------------------------
(* The invariant is inductive.                                               *)
LEMMA InvHolds == Spec => []Inv
<1>1. Inv /\ [Next]_vars => Inv'
  BY TypedStep, PlacedStep, CountedStep DEF Inv
<1> QED BY InitHolds, <1>1, PTL DEF Spec

(* Every variable keeps its type, the ring and the channels their sizes.     *)
THEOREM LogTypeCorrect == Spec => []TypeOK
<1>1. Inv => TypeOK
  BY DEF Inv, Typed
<1> QED BY InvHolds, <1>1, PTL

(* A slow client loses events, but never one that is not counted.            *)
THEOREM NothingLostSilently == Spec => []EventsCounted
<1>1. Inv => EventsCounted
  BY DEF Inv
<1> QED BY InvHolds, <1>1, PTL

-----------------------------------------------------------------------------
(* The events a client has, g, and those on its channel, h, run on from b    *)
(* and end by n.                                                             *)
RunsOn(b, g, h, n) ==
  /\ Increasing(g) /\ Increasing(h)
  /\ \A i \in DOMAIN g : b < g[i] /\ g[i] <= n
  /\ \A j \in DOMAIN h : b < h[j] /\ h[j] <= n
  /\ \A i \in DOMAIN g, j \in DOMAIN h : g[i] < h[j]

(* A sequence that counts up by one and ends at n.                           *)
CountsUpTo(s, n) == \A i \in DOMAIN s : s[i] = n - Len(s) + i

(* The ring ends with the newest event; what a replaying client was sent and *)
(* what it will be sent are one run from its mark up to the newest event.     *)
RingInOrder == CountsUpTo(events, appended)
ReplayInOrder ==
  \A c \in Clients : pc[c] = "replay" =>
    /\ CountsUpTo(todo[c], appended)
    /\ CountsUpTo(ch[c], appended - Len(todo[c]))
StreamInOrder == \A c \in subs : RunsOn(before[c], got[c], ch[c], appended)

InOrder == RingInOrder /\ ReplayInOrder /\ StreamInOrder

(* Event numbers are integers.                                               *)
LEMMA EventSeqs ==
  ASSUME NEW s \in Seq(Events)
  PROVE  s \in Seq(Int)
<1>0. \A i \in 1..Len(s) : s[i] \in Events
  OBVIOUS
<1>1. \A i \in 1..Len(s) : s[i] \in Int
  BY ONLY <1>0 DEF Events
<1>2. s = [i \in 1..Len(s) |-> s[i]] /\ Len(s) \in Nat
  OBVIOUS
<1> QED BY <1>1, <1>2

(* The newest part of a run is a run.                                        *)
LEMMA NewestCountsUp ==
  ASSUME NEW s \in Seq(Int), NEW k \in Nat, NEW n \in Int, CountsUpTo(s, n)
  PROVE  CountsUpTo(Newest(k, s), n)
<1>1. CASE Len(s) > k
  <2>1. Newest(k, s) = SubSeq(s, Len(s) - k + 1, Len(s)) /\ Len(s) \in Nat
    BY <1>1 DEF Newest
  <2>2. /\ Len(Newest(k, s)) = k /\ DOMAIN Newest(k, s) = 1..k
        /\ \A i \in 1..k : Newest(k, s)[i] = s[i + Len(s) - k]
    BY <1>1, <2>1
  <2>3. \A i \in 1..k : i + Len(s) - k \in DOMAIN s
    BY <1>1, <2>1
  <2>4. \A i \in 1..k : s[i + Len(s) - k] = n - k + i
    BY <2>1, <2>3 DEF CountsUpTo
  <2>5. \A i \in DOMAIN Newest(k, s) : Newest(k, s)[i] = n - Len(Newest(k, s)) + i
    BY ONLY <2>2, <2>4
  <2> QED BY ONLY <2>5 DEF CountsUpTo
<1>2. CASE ~(Len(s) > k)
  BY <1>2 DEF Newest, CountsUpTo
<1> QED BY <1>1, <1>2

(* So is a run with the next number.                                         *)
LEMMA AppendCountsUp ==
  ASSUME NEW s \in Seq(Int), NEW n \in Int, CountsUpTo(s, n)
  PROVE  CountsUpTo(Append(s, n + 1), n + 1)
<1>1. /\ DOMAIN Append(s, n + 1) = 1..Len(s) + 1 /\ DOMAIN s = 1..Len(s) /\ Len(s) \in Nat
      /\ Len(Append(s, n + 1)) = Len(s) + 1
      /\ Append(s, n + 1)[Len(s) + 1] = n + 1
      /\ \A i \in DOMAIN s : Append(s, n + 1)[i] = s[i]
  OBVIOUS
<1> QED BY <1>1 DEF CountsUpTo

(* What is left of a run without its first number is a run.                  *)
LEMMA TailCountsUp ==
  ASSUME NEW s \in Seq(Int), s # <<>>, NEW n \in Int, CountsUpTo(s, n)
  PROVE  CountsUpTo(Tail(s), n) /\ Head(s) = n - Len(s) + 1
<1>1. /\ DOMAIN s = 1..Len(s) /\ Len(s) \in Nat /\ Len(s) > 0
      /\ Len(Tail(s)) = Len(s) - 1 /\ DOMAIN Tail(s) = 1..Len(s) - 1
      /\ \A i \in 1..Len(s) - 1 : Tail(s)[i] = s[i + 1]
      /\ Head(s) = s[1]
  OBVIOUS
<1> QED BY <1>1 DEF CountsUpTo

(* A run is in order.                                                        *)
LEMMA CountedRunsOn ==
  ASSUME NEW s \in Seq(Int), NEW n \in Int, NEW b \in Int, CountsUpTo(s, n), n - b = Len(s)
  PROVE  RunsOn(b, <<>>, s, n)
<1>1. DOMAIN s = 1..Len(s) /\ Len(s) \in Nat /\ DOMAIN <<>> = {}
  OBVIOUS
<1>2. \A i \in DOMAIN s : s[i] = b + i
  BY <1>1 DEF CountsUpTo
<1> QED BY <1>1, <1>2 DEF RunsOn, Increasing

(* A new event goes to the end of the channel, or is dropped.                *)
LEMMA AppendRunsOn ==
  ASSUME NEW g \in Seq(Int), NEW h \in Seq(Int), NEW b \in Int, NEW n \in Int,
         RunsOn(b, g, h, n), b <= n
  PROVE  RunsOn(b, g, Append(h, n + 1), n + 1) /\ RunsOn(b, g, h, n + 1)
<1>1. /\ DOMAIN Append(h, n + 1) = 1..Len(h) + 1 /\ DOMAIN h = 1..Len(h) /\ Len(h) \in Nat
      /\ Append(h, n + 1)[Len(h) + 1] = n + 1
      /\ \A i \in DOMAIN h : Append(h, n + 1)[i] = h[i] /\ h[i] \in Int
      /\ \A i \in DOMAIN g : g[i] \in Int
  OBVIOUS
<1>2. Increasing(Append(h, n + 1))
  BY <1>1 DEF RunsOn, Increasing
<1> QED BY <1>1, <1>2 DEF RunsOn

(* The client is sent the next event of its channel.                         *)
LEMMA MoveRunsOn ==
  ASSUME NEW g \in Seq(Int), NEW h \in Seq(Int), h # <<>>, NEW b \in Int, NEW n \in Int,
         RunsOn(b, g, h, n)
  PROVE  RunsOn(b, Append(g, Head(h)), Tail(h), n)
<1>1. /\ DOMAIN h = 1..Len(h) /\ Len(h) \in Nat /\ Len(h) > 0
      /\ DOMAIN Tail(h) = 1..Len(h) - 1
      /\ \A i \in 1..Len(h) - 1 : Tail(h)[i] = h[i + 1]
      /\ Head(h) = h[1] /\ \A i \in DOMAIN h : h[i] \in Int
  OBVIOUS
<1>2. /\ DOMAIN g = 1..Len(g) /\ Len(g) \in Nat
      /\ DOMAIN Append(g, Head(h)) = 1..Len(g) + 1
      /\ Append(g, Head(h))[Len(g) + 1] = Head(h)
      /\ \A i \in DOMAIN g : Append(g, Head(h))[i] = g[i] /\ g[i] \in Int
  BY <1>1
<1> DEFINE G == Append(g, Head(h))
           T == Tail(h)
<1> HIDE DEF G, T
<1>3. Increasing(T)
  <2> SUFFICES ASSUME NEW i \in DOMAIN T, NEW j \in DOMAIN T, i < j PROVE T[i] < T[j]
    BY DEF Increasing
  <2>1. i \in 1..Len(h) - 1 /\ j \in 1..Len(h) - 1 /\ Len(h) \in Nat
    BY <1>1 DEF T
  <2>2. i + 1 \in 1..Len(h) /\ j + 1 \in 1..Len(h) /\ i + 1 < j + 1
    BY ONLY SMTT(30), <2>1, i < j
  <2>3. T[i] = h[i + 1] /\ T[j] = h[j + 1]
    BY <1>1, <2>1 DEF T
  <2> QED BY <1>1, <2>2, <2>3 DEF RunsOn, Increasing
<1>4. Increasing(G)
  BY SMTT(30), <1>1, <1>2 DEF RunsOn, Increasing, G
<1>5. \A i \in DOMAIN G : b < G[i] /\ G[i] <= n
  BY <1>1, <1>2 DEF RunsOn, G
<1>6. \A j \in DOMAIN T : b < T[j] /\ T[j] <= n
  BY <1>1 DEF RunsOn, T
<1>7. \A i \in DOMAIN G, j \in DOMAIN T : G[i] < T[j]
  <2> TAKE i \in DOMAIN G, j \in DOMAIN T
  <2>1. T[j] = h[j + 1] /\ j + 1 \in DOMAIN h /\ 1 \in DOMAIN h /\ 1 < j + 1
    BY <1>1 DEF T
  <2>2. h[1] < h[j + 1]
    BY <2>1 DEF RunsOn, Increasing
  <2>3. CASE i \in DOMAIN g
    BY <2>1, <2>3, <1>2 DEF RunsOn, G
  <2>4. CASE i = Len(g) + 1
    BY <2>1, <2>2, <2>4, <1>1, <1>2 DEF G
  <2> QED BY <1>2, <2>3, <2>4 DEF G
<1>8. RunsOn(b, G, T, n)
  BY <1>3, <1>4, <1>5, <1>6, <1>7 DEF RunsOn
<1> QED BY <1>8 DEF G, T

(* Then the whole of it is in order.                                         *)
LEMMA RunIsIncreasing ==
  ASSUME NEW g \in Seq(Int), NEW h \in Seq(Int), NEW b \in Int, NEW n \in Int,
         RunsOn(b, g, h, n)
  PROVE  Increasing(<<b>> \o g \o h)
<1> DEFINE line == <<b>> \o g \o h
<1>1. /\ Len(g) \in Nat /\ Len(h) \in Nat /\ DOMAIN g = 1..Len(g) /\ DOMAIN h = 1..Len(h)
      /\ \A i \in DOMAIN g : g[i] \in Int
      /\ \A i \in DOMAIN h : h[i] \in Int
  OBVIOUS
<1>2. DOMAIN line = 1..(1 + Len(g) + Len(h))
  OBVIOUS
<1>3. line[1] = b
  OBVIOUS
<1>4. \A i \in 2..(1 + Len(g)) : line[i] = g[i - 1] /\ i - 1 \in DOMAIN g
  OBVIOUS
<1>5. \A i \in (2 + Len(g))..(1 + Len(g) + Len(h)) :
        line[i] = h[i - 1 - Len(g)] /\ i - 1 - Len(g) \in DOMAIN h
  OBVIOUS
<1> HIDE DEF line
<1> SUFFICES ASSUME NEW i \in DOMAIN line, NEW j \in DOMAIN line, i < j
             PROVE  line[i] < line[j]
  BY DEF Increasing, line
<1>6. \/ i = 1 \/ i \in 2..(1 + Len(g)) \/ i \in (2 + Len(g))..(1 + Len(g) + Len(h))
  BY <1>1, <1>2
<1>7. \/ j \in 2..(1 + Len(g)) \/ j \in (2 + Len(g))..(1 + Len(g) + Len(h))
  BY <1>1, <1>2
<1>8. CASE i = 1
  BY <1>8, <1>7, <1>3, <1>4, <1>5 DEF RunsOn
<1>9. CASE i \in 2..(1 + Len(g)) /\ j \in 2..(1 + Len(g))
  <2>1. i - 1 < j - 1
    BY <1>9, <1>1
  <2> QED BY <1>9, <1>4, <2>1 DEF RunsOn, Increasing
<1>10. CASE i \in 2..(1 + Len(g)) /\ j \in (2 + Len(g))..(1 + Len(g) + Len(h))
  BY <1>10, <1>4, <1>5 DEF RunsOn
<1>11. CASE i \in (2 + Len(g))..(1 + Len(g) + Len(h))
  <2>1. j \in (2 + Len(g))..(1 + Len(g) + Len(h)) /\ i - 1 - Len(g) < j - 1 - Len(g)
    BY <1>11, <1>1, <1>2
  <2> QED BY <1>11, <1>5, <2>1 DEF RunsOn, Increasing
<1> QED BY <1>6, <1>7, <1>8, <1>9, <1>10, <1>11

-----------------------------------------------------------------------------
(* The invariant with the order of the events.                               *)
LEMMA InOrderInit == Init => InOrder
<1> SUFFICES ASSUME Init PROVE InOrder
  OBVIOUS
<1>1. RingInOrder
  BY DEF Init, RingInOrder, CountsUpTo
<1>2. ReplayInOrder /\ StreamInOrder
  BY DEF Init, ReplayInOrder, StreamInOrder
<1> QED BY <1>1, <1>2 DEF InOrder

(* The order survives every step.                                            *)
LEMMA InOrderStep == Inv /\ InOrder /\ [Next]_vars => InOrder'
<1> SUFFICES ASSUME Inv, InOrder, [Next]_vars PROVE InOrder'
  OBVIOUS
<1>a. /\ TypeOK /\ Placed /\ ReplayCounted /\ EventsCounted /\ None \notin Clients
      /\ RingInOrder /\ ReplayInOrder /\ StreamInOrder
  BY ClientsAssumption DEF Inv, Typed, InOrder
<1>b. subs' \subseteq Clients /\ subs \subseteq Clients
  <2>1. Typed'
    BY TypedStep
  <2> QED BY <2>1, <1>a DEF Typed, TypeOK
<1>c. appended \in Int /\ events \in Seq(Int)
  BY <1>a, BoundsAssumption DEF TypeOK, Events
<1>e. /\ DOMAIN pc = Clients /\ DOMAIN ch = Clients /\ DOMAIN todo = Clients
      /\ DOMAIN got = Clients /\ DOMAIN before = Clients
  BY <1>a DEF TypeOK
<1>f. ASSUME NEW d \in Clients
      PROVE  /\ ch[d] \in Seq(Int) /\ todo[d] \in Seq(Int) /\ got[d] \in Seq(Int)
             /\ before[d] \in Int /\ Len(ch[d]) \in Int /\ Len(todo[d]) \in Int
  <2>1. ch[d] \in Seq(Events) /\ todo[d] \in Seq(Events) /\ got[d] \in Seq(Events)
    BY <1>a, ClientTypes
  <2>2. ch[d] \in Seq(Int) /\ todo[d] \in Seq(Int) /\ got[d] \in Seq(Int)
    BY ONLY <2>1, EventSeqs
  <2> QED BY <2>2, <1>a, ClientTypes
<1>r. RingInOrder'
  <2>1. CASE AppendEvent
    <3>1. CountsUpTo(Append(events, appended + 1), appended + 1)
      BY <1>a, <1>c, AppendCountsUp DEF RingInOrder
    <3>2. Append(events, appended + 1) \in Seq(Int) /\ appended + 1 \in Int
      BY <1>c
    <3>3. CountsUpTo(Newest(Ring, Append(events, appended + 1)), appended + 1)
      BY <3>1, <3>2, NewestCountsUp, SizesAssumption
    <3>4. events' = Newest(Ring, Append(events, appended + 1)) /\ appended' = appended + 1
      BY <2>1 DEF AppendEvent, Trimmed
    <3> QED BY ONLY <3>3, <3>4 DEF RingInOrder
  <2>2. CASE ~AppendEvent
    <3>1. events' = events /\ appended' = appended
      BY <2>2 DEF Next, Handler, Close, Subscribe, ReplayOne, Join, Deliver, KeepAlive, EmitDrops,
                  SessionEnded, Disconnect, Unsubscribe, vars
    <3> QED BY <3>1, <1>a DEF RingInOrder, CountsUpTo
  <2> QED BY <2>1, <2>2
<1> DEFINE Replaying(d) == pc'[d] = "replay" =>
                             /\ CountsUpTo(todo'[d], appended')
                             /\ CountsUpTo(ch'[d], appended' - Len(todo'[d]))
           Streaming(d) == d \in subs' => RunsOn(before'[d], got'[d], ch'[d], appended')
<1> SUFFICES ASSUME NEW d \in Clients PROVE Replaying(d) /\ Streaming(d)
  BY <1>r, <1>b DEF InOrder, ReplayInOrder, StreamInOrder
<1>g. /\ pc[d] = "replay" => /\ CountsUpTo(todo[d], appended)
                             /\ CountsUpTo(ch[d], appended - Len(todo[d]))
      /\ d \in subs => RunsOn(before[d], got[d], ch[d], appended)
      /\ d \in subs <=> pc[d] \in {"stream", "drops", "leave"}
      /\ pc[d] = "replay" => mu = d
  BY <1>a DEF ReplayInOrder, StreamInOrder, Placed
<1>1. CASE AppendEvent
  <2>1. pc'[d] = pc[d] /\ pc[d] # "replay"
    BY <1>1, <1>a, <1>g DEF AppendEvent, Unlocked
  <2>2. ASSUME d \in subs PROVE before[d] <= appended
    <3>1. appended - before[d] = Len(got[d]) + Len(ch[d]) + drops[d] + told[d]
      BY <2>2, <1>a DEF EventsCounted
    <3>2. /\ Len(got[d]) \in Nat /\ Len(ch[d]) \in Nat /\ drops[d] \in Nat /\ told[d] \in Nat
      BY <1>a, ClientTypes
    <3>3. appended \in Int /\ before[d] \in Int
      BY <1>c, <1>f
    <3>4. \A g, h, n, t \in Nat, a, b \in Int : a - b = g + h + n + t => b <= a
      OBVIOUS
    <3> QED BY ONLY <3>1, <3>2, <3>3, <3>4
  <2>3. ASSUME d \in subs
        PROVE  /\ RunsOn(before[d], got[d], Append(ch[d], appended + 1), appended + 1)
               /\ RunsOn(before[d], got[d], ch[d], appended + 1)
    BY <2>2, <2>3, <1>c, <1>f, <1>g, AppendRunsOn
  <2>4. ch'[d] = Append(ch[d], appended + 1) \/ ch'[d] = ch[d]
    BY <1>1 DEF AppendEvent
  <2>5. subs' = subs /\ got'[d] = got[d] /\ before'[d] = before[d] /\ appended' = appended + 1
    BY <1>1 DEF AppendEvent, history
  <2> QED BY <2>1, <2>3, <2>4, <2>5
<1>2. CASE Close
  BY <1>2, <1>g DEF Close, history
<1>3. ASSUME NEW c \in Clients, Subscribe(c) PROVE Replaying(d) /\ Streaming(d)
  <2>1. CASE d = c
    <3>1. pc'[d] = "replay" /\ d \notin subs'
      BY <1>3, <1>e, <1>g, <2>1 DEF Subscribe
    <3>2. todo'[d] = Newest(Replay, events) /\ ch'[d] = <<>> /\ appended' = appended
      BY <1>3, <1>e, <2>1 DEF Subscribe, Replayed
    <3>3. CountsUpTo(Newest(Replay, events), appended)
      BY <1>a, <1>c, NewestCountsUp, SizesAssumption DEF RingInOrder
    <3>4. \A n : CountsUpTo(<<>>, n)
      BY DEF CountsUpTo
    <3> QED BY <3>1, <3>2, <3>3, <3>4
  <2>2. CASE d # c
    BY <1>3, <1>g, <2>2, <1>e DEF Subscribe
  <2> QED BY <2>1, <2>2
<1>4. ASSUME NEW c \in Clients, ReplayOne(c) PROVE Replaying(d) /\ Streaming(d)
  <2>1. CASE d = c
    <3>1. pc[d] = "replay" /\ d \notin subs /\ subs' = subs /\ todo[d] # <<>> /\ appended' = appended
      BY <1>4, <1>g, <2>1 DEF ReplayOne
    <3>2. ch'[d] = Append(ch[d], Head(todo[d])) /\ todo'[d] = Tail(todo[d])
      BY <1>4, <1>e, <2>1 DEF ReplayOne
    <3>3. /\ CountsUpTo(Tail(todo[d]), appended)
          /\ Head(todo[d]) = appended - Len(todo[d]) + 1
      BY <3>1, <1>c, <1>f, <1>g, TailCountsUp
    <3>4. /\ appended - Len(todo[d]) \in Int
          /\ appended - Len(todo[d]) + 1 = appended - Len(Tail(todo[d]))
      <4>1. Len(Tail(todo[d])) = Len(todo[d]) - 1
        BY <3>1, <1>f
      <4>2. appended \in Int /\ Len(todo[d]) \in Int
        BY <1>c, <1>f
      <4>3. \A a, n \in Int : a - n \in Int /\ a - n + 1 = a - (n - 1)
        OBVIOUS
      <4> QED BY ONLY <4>1, <4>2, <4>3
    <3>5. CountsUpTo(Append(ch[d], appended - Len(todo[d]) + 1), appended - Len(todo[d]) + 1)
      BY <3>1, <3>4, <1>f, <1>g, AppendCountsUp
    <3> QED BY <3>1, <3>2, <3>3, <3>4, <3>5
  <2>2. CASE d # c
    BY <1>4, <1>g, <2>2, <1>e DEF ReplayOne, history
  <2> QED BY <2>1, <2>2
<1>5. ASSUME NEW c \in Clients, Join(c) PROVE Replaying(d) /\ Streaming(d)
  <2>1. CASE d = c
    <3>1. pc[d] = "replay" /\ pc'[d] = "stream" /\ todo[d] = <<>>
      BY <1>5, <1>e, <2>1 DEF Join
    <3>2. UNCHANGED <<appended, before, got, ch>>
      BY <1>5 DEF Join, history
    <3>3. Len(todo[d]) = 0 /\ appended - 0 = appended
      BY <3>1, <1>c
    <3>4. CountsUpTo(ch[d], appended)
      BY <3>1, <3>3, <1>g
    <3>5. got[d] = <<>> /\ appended - before[d] = Len(ch[d])
      <4>1. got[d] = <<>> /\ appended - before[d] = Len(ch[d]) + Len(todo[d])
        BY <3>1, <1>a DEF ReplayCounted
      <4>2. Len(ch[d]) \in Int
        BY <1>f
      <4>3. Len(ch[d]) + 0 = Len(ch[d])
        BY ONLY <4>2
      <4> QED BY ONLY <4>1, <4>3, <3>3
    <3>6. RunsOn(before[d], <<>>, ch[d], appended)
      BY <3>4, <3>5, <1>c, <1>f, CountedRunsOn
    <3> QED BY <3>1, <3>2, <3>5, <3>6
  <2>2. CASE d # c
    BY <1>5, <1>g, <2>2, <1>e DEF Join, history
  <2> QED BY <2>1, <2>2
<1>6. ASSUME NEW c \in Clients, Deliver(c) PROVE Replaying(d) /\ Streaming(d)
  <2>1. CASE d = c
    <3>1. d \in subs /\ ch[d] # <<>> /\ pc'[d] = "drops"
      BY <1>6, <1>e, <1>g, <2>1 DEF Deliver, Goto
    <3>2. /\ got'[d] = Append(got[d], Head(ch[d])) /\ ch'[d] = Tail(ch[d])
          /\ appended' = appended /\ before'[d] = before[d]
      BY <1>6, <1>e, <2>1 DEF Deliver
    <3>3. RunsOn(before[d], Append(got[d], Head(ch[d])), Tail(ch[d]), appended)
      BY <3>1, <1>c, <1>f, <1>g, MoveRunsOn
    <3> QED BY <3>1, <3>2, <3>3
  <2>2. CASE d # c
    BY <1>6, <1>g, <2>2, <1>e DEF Deliver, Goto
  <2> QED BY <2>1, <2>2
<1>7. ASSUME NEW c \in Clients, KeepAlive(c) \/ EmitDrops(c) \/ SessionEnded(c)
      PROVE  Replaying(d) /\ Streaming(d)
  BY <1>7, <1>g, <1>e DEF KeepAlive, EmitDrops, SessionEnded, ObserveDone, Goto, history
<1>8. ASSUME NEW c \in Clients, Disconnect(c) \/ Unsubscribe(c)
      PROVE  Replaying(d) /\ Streaming(d)
  BY <1>8, <1>g, <1>e DEF Disconnect, Unsubscribe, Goto, history
<1>9. CASE UNCHANGED vars
  BY <1>9, <1>g DEF vars
<1> HIDE DEF Replaying, Streaming
<1> QED BY <1>1, <1>2, <1>3, <1>4, <1>5, <1>6, <1>7, <1>8, <1>9 DEF Next, Handler

(* So is the order.                                                          *)
LEMMA InOrderHolds == Spec => [](Inv /\ InOrder)
<1>1. Inv /\ InOrder /\ [Next]_vars => InOrder'
  BY InOrderStep
<1> QED BY InvHolds, InOrderInit, <1>1, PTL DEF Spec

(* What a connected client gets is in order and never repeats an event: the  *)
(* replay runs on from where it began, and the live events follow it.        *)
THEOREM ReplayThenLive == Spec => []EventsInOrder
<1>1. Inv /\ InOrder => EventsInOrder
  <2> SUFFICES ASSUME Inv, InOrder, NEW c \in subs
               PROVE  Increasing(<<before[c]>> \o got[c] \o ch[c])
    BY DEF EventsInOrder
  <2>1. TypeOK /\ c \in Clients
    BY DEF Inv, Typed, TypeOK
  <2>2. got[c] \in Seq(Events) /\ ch[c] \in Seq(Events) /\ before[c] \in Int /\ appended \in Int
    BY <2>1, ClientTypes
  <2>3. got[c] \in Seq(Int) /\ ch[c] \in Seq(Int)
    BY <2>2, EventSeqs
  <2>4. RunsOn(before[c], got[c], ch[c], appended)
    BY DEF InOrder, StreamInOrder
  <2> QED BY <2>2, <2>3, <2>4, RunIsIncreasing
<1> QED BY InOrderHolds, <1>1, PTL

-----------------------------------------------------------------------------
(* The two together.                                                         *)

(* Every event carries the line that was handed over with it.                *)
OnePerLine == appended = Len(emitted)

(* The tailer and the log are what they are alone.                           *)
LEMMA PartsHold == TimelineSpec => TailSpec /\ Spec
<1>1. TimelineInit => TailInit /\ Init
  BY DEF TimelineInit
<1>2. [TimelineNext]_timelineVars => [TailNext]_tailVars
  BY DEF TimelineNext, AppendLine, TailerAlone, LogAlone, TailNext, timelineVars
<1>3. [TimelineNext]_timelineVars => [Next]_vars
  BY DEF TimelineNext, AppendLine, TailerAlone, LogAlone, Next, timelineVars
<1> QED BY <1>1, <1>2, <1>3, PTL DEF TimelineSpec, TailSpec, Spec

(* As many lines were handed over as events appended.                        *)
LEMMA LinesAreEvents ==
  ASSUME SlowGame
  PROVE  TimelineSpec => [](TailTyped /\ OnePerLine)
<1>1. TailInv => TailTyped
  BY DEF TailInv
<1>2. TimelineInit => OnePerLine
  BY DEF TimelineInit, TailInit, Init, OnePerLine
<1>3. TailTyped /\ OnePerLine /\ [TimelineNext]_timelineVars => OnePerLine'
  <2> SUFFICES ASSUME TailTyped, appended = Len(emitted), [TimelineNext]_timelineVars
               PROVE  appended' = Len(emitted')
    BY DEF OnePerLine
  <2>1. CASE AppendLine
    <3>1. /\ emitted' = Append(emitted, SubSeq(buf, 1, FirstEnd))
          /\ appended' = appended + 1
      BY <2>1 DEF AppendLine, EmitLine, AppendEvent
    <3>2. emitted \in Seq(Seq(Piece))
      BY DEF TailTyped
    <3> HIDE DEF FirstEnd
    <3> QED BY <3>1, <3>2
  <2>2. CASE TailerAlone
    <3>1. appended' = appended /\ emitted' = emitted
      BY <2>2 DEF TailerAlone, Container, Polling, LinkGamelog, GameResets, Truncate,
                  GameWrites, Open, GiveUp, Stopped, Stat, Read, ReadFails, vars
    <3> QED BY <3>1
  <2>3. CASE LogAlone
    <3>1. emitted' = emitted
      BY <2>3 DEF LogAlone, tailVars
    <3>2. CASE Close
      BY <3>1, <3>2 DEF Close
    <3>3. CASE \E c \in Clients : Handler(c)
      <4>1. appended' = appended
        BY <3>3 DEF Handler, Subscribe, ReplayOne, Join, Deliver, KeepAlive, EmitDrops,
                    SessionEnded, Disconnect, Unsubscribe
      <4> QED BY <3>1, <4>1
    <3> QED BY <2>3, <3>2, <3>3 DEF LogAlone
  <2>4. CASE UNCHANGED timelineVars
    BY <2>4 DEF timelineVars, tailVars, vars
  <2> QED BY <2>1, <2>2, <2>3, <2>4 DEF TimelineNext
<1> QED BY TailInvHolds, PartsHold, <1>1, <1>2, <1>3, PTL DEF TimelineSpec

(* What a connected client was sent are lines of the game, whole unless a    *)
(* long one was written, in the order written and none twice, for any        *)
(* clients, sizes, lengths and resets.                                       *)
THEOREM StreamsCarryLines ==
  ASSUME SlowGame
  PROVE  TimelineSpec => []ClientsGetLines
<1>1. TailTyped /\ OnePerLine /\ LinesWholeInOrder /\ Inv /\ InOrder => ClientsGetLines
  <2> SUFFICES ASSUME TailTyped, OnePerLine, LinesWholeInOrder, Inv, InOrder, NEW c \in subs
               PROVE  /\ \A i \in DOMAIN got[c] :
                           /\ got[c][i] \in DOMAIN emitted
                           /\ long \/ Sent(c, i) = Line(Number(Sent(c, i)), Sent(c, i)[1][3])
                      /\ \A i, j \in DOMAIN got[c] :
                           i < j => Number(Sent(c, i)) < Number(Sent(c, j))
    BY DEF ClientsGetLines
  <2>1. TypeOK /\ c \in Clients
    BY DEF Inv, Typed, TypeOK
  <2>2. got[c] \in Seq(Events) /\ before[c] \in 0..MaxAppends /\ MaxAppends \in Nat
    BY <2>1, BoundsAssumption DEF TypeOK
  <2>3. RunsOn(before[c], got[c], ch[c], appended)
    BY DEF InOrder, StreamInOrder
  <2>4. appended = Len(emitted) /\ Len(emitted) \in Nat /\ DOMAIN emitted = 1..Len(emitted)
    BY DEF OnePerLine, TailTyped
  <2>5. \A i \in DOMAIN got[c] : got[c][i] \in DOMAIN emitted
    <3>1. \A i \in DOMAIN got[c] : got[c][i] \in Int
      BY <2>2 DEF Events
    <3> QED BY <2>2, <2>3, <2>4, <3>1 DEF RunsOn
  <2>6. \A i \in DOMAIN got[c] :
          long \/ Sent(c, i) = Line(Number(Sent(c, i)), Sent(c, i)[1][3])
    BY <2>5, Zenon DEF LinesWholeInOrder, Sent, Number, Line
  <2>7. ASSUME NEW i \in DOMAIN got[c], NEW j \in DOMAIN got[c], i < j
        PROVE  Number(Sent(c, i)) < Number(Sent(c, j))
    <3>1. got[c][i] < got[c][j]
      BY <2>3, <2>7 DEF RunsOn, Increasing
    <3>2. got[c][i] \in 1..(got[c][j] - 1)
      BY <2>4, <2>5, <3>1
    <3> QED BY <2>5, <3>2, Zenon DEF LinesWholeInOrder, Sent, Number, Line
  <2> QED BY <2>5, <2>6, <2>7
<1> QED BY LinesComeWhole, InOrderHolds, PartsHold, LinesAreEvents, <1>1, PTL
=============================================================================
