--------------------------- MODULE Snapshot_proofs ---------------------------
(***************************************************************************)
(* For any number of files, sizes and changes: what the trailer of a live    *)
(* snapshot says is so, and nothing is missing from the archive of a game    *)
(* that leaves its files alone.                                              *)
(***************************************************************************)
EXTENDS Snapshot, WellFoundedInduction, TLAPS

-----------------------------------------------------------------------------
(* Numbers.                                                                  *)

NatOrder == OpToRel(<, Nat)

(* The order of the numbers as a relation.                                  *)
LEMMA NatOrderIs == \A i, j \in Nat : <<i, j>> \in NatOrder <=> i < j
BY DEF NatOrder, OpToRel

(* A set of numbers that is not empty has a least one.                      *)
LEMMA LeastNat == \A S \in SUBSET Nat : S # {} => \E n \in S : \A m \in S : n <= m
<1> SUFFICES ASSUME NEW S \in SUBSET Nat, S # {}
             PROVE  \E n \in S : \A m \in S : n <= m
  OBVIOUS
<1>1. IsWellFoundedOn(NatOrder, Nat)
  BY NatLessThanWellFounded DEF NatOrder
<1>2. PICK n \in S : \A m \in S : <<m, n>> \notin NatOrder
  BY <1>1, WFMin
<1>3. \A m \in S : n <= m
  <2> SUFFICES ASSUME NEW m \in S PROVE n <= m
    OBVIOUS
  <2>1. m \in Nat /\ n \in Nat
    OBVIOUS
  <2>2. ~ (m < n)
    BY <1>2, <2>1, NatOrderIs
  <2> QED BY <2>1, <2>2
<1> QED BY <1>3

-----------------------------------------------------------------------------
(* What is inductive.                                                        *)

AFile == [mtime : Nat, size : Sizes]
Disks == [Paths -> AFile \cup {None}]
Ops == {"write", "create", "remove", "rename"}

Typed ==
  /\ disk \in Disks /\ first \in Disks /\ archive \in Disks
  /\ changes \in 0..MaxChanges /\ since \in 0..changes /\ kinds \in SUBSET Ops
  /\ pc \in {"start", "check", "list", "visit", "copy", "sign", "done"}
  /\ root \in 1..3 /\ listed \in SUBSET Paths /\ torn \in BOOLEAN
  /\ pc \in {"visit", "copy"} => root # 3
  /\ pc = "copy" => listed # {} /\ header \in AFile
  /\ failed \in SUBSET Paths /\ blind \in BOOLEAN

(* A time is that of a change so far, or of before; no two files share it.   *)
Aged(d, n) ==
  /\ \A f \in There(d) : d[f].mtime < n \/ d[f].mtime > MaxChanges
  /\ \A f, g \in There(d) : d[f].mtime = d[g].mtime => f = g

(* What the sums are compared with, and that they tell of the changes since. *)
Told ==
  /\ pc # "start" /\ ~blind => before = Signature(first)
  /\ changes > since /\ kinds \subseteq {"write", "create"} =>
       \E f \in There(disk) : disk[f].mtime \in since..(changes - 1)
  /\ changes > since /\ kinds \subseteq {"write", "remove"} =>
       \E f \in There(first) : first[f].mtime \notin Times(disk)

(* The files the walk has behind it.                                         *)
Behind ==
  {f \in Paths : \/ root = 3
                 \/ root = 2 /\ f \in Roots[1]
                 \/ pc \in {"visit", "copy"} /\ f \in Roots[root] \ listed}

AtStart == pc = "start" => root = 1 /\ ~torn /\ archive = Empty /\ failed = {}

(* A file is archived as it is, or lost to a call that failed.               *)
Right(f) == archive[f] = disk[f] \/ (archive[f] = None /\ Lost(f))

(* As long as nothing changes, what is behind is archived or lost.           *)
Quiet ==
  /\ disk = first
  /\ torn => \E g \in failed : \A f \in Paths \ Behind : g <= f
  /\ pc = "check" => root = 1 /\ archive = Empty /\ ~torn /\ failed = {}
  /\ pc \in {"list", "visit", "copy"} =>
       /\ \A f \in Behind : Right(f)
       /\ \A f \in Paths \ Behind : archive[f] = None
  /\ pc \in {"visit", "copy"} =>
       listed \subseteq Roots[root] \cap There(disk)
  /\ pc = "copy" => header = disk[Visited] /\ ~torn
  /\ pc \in {"sign", "done"} => \A f \in Paths : Right(f)
  /\ pc = "done" /\ ~blind => answer = TRUE

Inv ==
  /\ Typed /\ Aged(disk, changes) /\ Aged(first, since) /\ Told /\ AtStart
  /\ changes = since => Quiet
  /\ TrueIsFaithful

(* data/ and config/ are the paths, one after the other.                    *)
LEMMA PathsAre ==
  /\ Roots[1] \subseteq Paths /\ Roots[2] \subseteq Paths
  /\ Roots[1] = 1..Data /\ Roots[2] = (Data + 1)..Files /\ Len(Roots) = 2
  /\ Roots[1] \cup Roots[2] = Paths /\ Paths \subseteq Nat
BY PathsAssumption DEF Roots, Paths

(* The invariant holds at the start.                                        *)
LEMMA InitHolds == Init => Inv
<1> SUFFICES ASSUME Init PROVE Inv
  OBVIOUS
<1>1. PICK s \in Sizes, there \in SUBSET Paths :
        disk = [f \in Paths |-> IF f \in there THEN File(MaxChanges + f, s) ELSE None]
  BY DEF Init
<1>2. disk \in Disks
  <2>1. \A f \in Paths : File(MaxChanges + f, s) \in AFile
    BY BoundAssumption, PathsAre DEF File, AFile
  <2> QED BY <1>1, <2>1 DEF Disks
<1>3. Typed
  <2>1. first = disk /\ archive = Empty /\ Empty \in Disks
    BY DEF Init, Empty, Disks
  <2>2. /\ changes \in 0..MaxChanges /\ since \in 0..changes /\ kinds = {}
        /\ pc = "start" /\ root = 1 /\ listed = {} /\ torn = FALSE
        /\ failed = {} /\ blind = FALSE
    BY BoundAssumption DEF Init
  <2>3. /\ disk \in Disks /\ first \in Disks /\ archive \in Disks
    BY <1>2, <2>1
  <2>4. /\ kinds \in SUBSET Ops /\ root \in 1..3 /\ root # 3 /\ listed \in SUBSET Paths
    BY <2>2
  <2>5. /\ pc # "copy" /\ torn \in BOOLEAN
        /\ pc \in {"start", "check", "list", "visit", "copy", "sign", "done"}
    BY <2>2
  <2> QED BY <2>2, <2>3, <2>4, <2>5 DEF Typed
<1>4. Aged(disk, 0)
  <2>1. \A f \in There(disk) : disk[f].mtime = MaxChanges + f /\ f \in Nat
    BY <1>1, PathsAre DEF There, File
  <2>2. \A f \in There(disk) : f > 0
    BY PathsAssumption DEF There, Paths
  <2>3. \A f \in There(disk) : disk[f].mtime > MaxChanges
    BY <2>1, <2>2, BoundAssumption
  <2>4. \A f, g \in There(disk) : disk[f].mtime = disk[g].mtime => f = g
    BY <2>1, BoundAssumption
  <2> QED BY <2>3, <2>4 DEF Aged
<1>5. Told /\ AtStart /\ Quiet /\ TrueIsFaithful
  BY DEF Init, Told, AtStart, Quiet, TrueIsFaithful
<1> QED BY <1>3, <1>4, <1>5 DEF Init, Inv

-----------------------------------------------------------------------------
(* The game.                                                                 *)

(* No file is not a file.                                                   *)
LEMMA NoneIsNoFile == None \notin AFile
BY NoneAssumption DEF AFile

(* What the game writes is a file of its time.                              *)
LEMMA NewIsAFile ==
  ASSUME Typed, NEW s \in Sizes
  PROVE  Now(s) \in AFile /\ Now(s).mtime = changes /\ Now(s) # None
BY NoneIsNoFile DEF Typed, Now, File, AFile

(* A file that is written or made has a time no file had.                    *)
LEMMA ChangeIsNew ==
  ASSUME Typed, Aged(disk, changes), changes < MaxChanges,
         NEW f \in Paths, NEW s \in Sizes, disk' = [disk EXCEPT ![f] = Now(s)]
  PROVE  /\ disk' \in Disks /\ Aged(disk', changes + 1)
         /\ f \in There(disk') /\ disk'[f].mtime = changes
         /\ \A g \in There(disk') : g = f \/ (g \in There(disk) /\ disk'[g] = disk[g])
<1>1. Now(s) \in AFile /\ Now(s).mtime = changes /\ Now(s) # None /\ changes \in Nat
  BY NewIsAFile DEF Typed
<1>2. /\ disk' \in Disks /\ disk'[f] = Now(s)
      /\ \A g \in Paths \ {f} : disk'[g] = disk[g]
  BY <1>1 DEF Typed, Disks
<1>3. f \in There(disk') /\ disk'[f].mtime = changes
  BY <1>1, <1>2 DEF There
<1>4. \A g \in There(disk') : g = f \/ (g \in There(disk) /\ disk'[g] = disk[g])
  <2> SUFFICES ASSUME NEW g \in There(disk'), g # f
               PROVE  g \in There(disk) /\ disk'[g] = disk[g]
    OBVIOUS
  <2>1. g \in Paths /\ disk'[g] # None /\ disk'[g] = disk[g]
    BY <1>2 DEF There
  <2> QED BY <2>1 DEF There
<1>5. \A g \in There(disk) : disk[g].mtime \in Nat
  BY DEF There, Typed, Disks, AFile
<1>6. Aged(disk', changes + 1)
  <2>1. \A g \in There(disk') : disk'[g].mtime < changes + 1 \/ disk'[g].mtime > MaxChanges
    <3> SUFFICES ASSUME NEW g \in There(disk')
                 PROVE  disk'[g].mtime < changes + 1 \/ disk'[g].mtime > MaxChanges
      OBVIOUS
    <3>1. CASE g = f
      BY <1>1, <1>3, <3>1
    <3>2. CASE g \in There(disk) /\ disk'[g] = disk[g]
      <4>1. disk[g].mtime < changes \/ disk[g].mtime > MaxChanges
        BY <3>2 DEF Aged
      <4>2. disk[g].mtime \in Nat
        BY <1>5, <3>2
      <4> QED BY <1>1, <3>2, <4>1, <4>2
    <3> QED BY <1>4, <3>1, <3>2
  <2>2. ASSUME NEW g \in There(disk'), NEW h \in There(disk'),
               disk'[g].mtime = disk'[h].mtime
        PROVE  g = h
    <3>1. ASSUME NEW i \in There(disk), disk[i].mtime = changes PROVE FALSE
      BY <1>1, <3>1, BoundAssumption DEF Aged
    <3> QED BY <1>3, <1>4, <2>2, <3>1 DEF Aged
  <2> QED BY <2>1, <2>2 DEF Aged
<1> QED BY <1>2, <1>3, <1>4, <1>6

(* What a change by the game leaves to be shown.                             *)
LEMMA ChangeHolds ==
  ASSUME Inv, NEW op \in Ops, GameDoes(op), UNCHANGED handler,
         disk' \in Disks, Aged(disk', changes + 1), Told'
  PROVE  Inv'
<1>1. Typed'
  BY BoundAssumption DEF Inv, Typed, GameDoes, handler
<1>2. changes' # since' /\ changes' = changes + 1
  BY DEF Inv, Typed, GameDoes, handler
<1>3. Aged(first, since)' /\ AtStart' /\ TrueIsFaithful'
  BY DEF Inv, Aged, There, AtStart, TrueIsFaithful, GameDoes, handler
<1> QED BY <1>1, <1>2, <1>3 DEF Inv

(* The first change makes a time go, if it is no new file, and a later one   *)
(* does not bring it back.                                                   *)
LEMMA OldTimesStayGone ==
  ASSUME Inv, GameDoes("write") \/ GameDoes("remove"), UNCHANGED handler,
         kinds' \subseteq {"write", "remove"},
         NEW f \in There(disk), NEW T, T = Times(disk'),
         \A t \in T : t = changes \/ \E g \in There(disk) \ {f} : t = disk[g].mtime
  PROVE  \E g \in There(first) : first[g].mtime \notin T
<1>1. /\ changes \in Nat /\ since \in Nat /\ since <= changes /\ changes < MaxChanges
      /\ \A g \in There(first) : first[g].mtime \in Nat
      /\ kinds \subseteq {"write", "remove"}
  <2>1. \A g \in There(first) : first[g] \in AFile
    BY DEF Inv, Typed, There, Disks
  <2>2. changes < MaxChanges /\ kinds \subseteq {"write", "remove"}
    BY DEF GameDoes
  <2> QED BY <2>1, <2>2 DEF Inv, Typed, AFile
<1>2. \A g \in There(first) : first[g].mtime # changes
  BY <1>1, BoundAssumption DEF Inv, Aged
<1>3. CASE changes = since
  <2>1. disk = first
    BY <1>3 DEF Inv, Quiet
  <2>2. first[f].mtime \notin T
    BY <1>2, <2>1 DEF Inv, Aged
  <2> QED BY <2>1, <2>2
<1>4. CASE changes > since
  <2>1. PICK g \in There(first) : first[g].mtime \notin Times(disk)
    BY <1>1, <1>4 DEF Inv, Told
  <2>2. first[g].mtime \notin T
    BY <1>2, <2>1 DEF Times
  <2> QED BY <2>2
<1> QED BY <1>1, <1>3, <1>4

(* The game writes a file or makes one.                                     *)
LEMMA WriteHolds ==
  ASSUME Inv, NEW op \in {"write", "create"}, GameDoes(op), UNCHANGED handler,
         NEW f \in Paths, NEW s \in Sizes, disk' = [disk EXCEPT ![f] = Now(s)],
         op = "write" => Present(f)
  PROVE  Inv'
<1>1. /\ disk' \in Disks /\ Aged(disk', changes + 1)
      /\ f \in There(disk') /\ disk'[f].mtime = changes
      /\ \A g \in There(disk') : g = f \/ (g \in There(disk) /\ disk'[g] = disk[g])
  BY ChangeIsNew DEF Inv, GameDoes
<1>2. changes' = changes + 1 /\ since' = since /\ first' = first /\ since <= changes
      /\ changes \in Nat /\ since \in Nat
  BY DEF Inv, Typed, GameDoes, handler
<1>3. \E g \in There(disk)' : disk'[g].mtime \in (since' + 1 - 1)..(changes' - 1)
  BY <1>1, <1>2 DEF There
<1>4. ASSUME kinds' \subseteq {"write", "remove"}
      PROVE  \E g \in There(first) : first[g].mtime \notin Times(disk')
  <2>1. op = "write" /\ f \in There(disk)
    BY <1>4 DEF GameDoes, Present
  <2>2. \A t \in Times(disk') : t = changes \/ \E g \in There(disk) \ {f} : t = disk[g].mtime
    BY <1>1 DEF Times
  <2> QED BY <1>4, <2>1, <2>2, OldTimesStayGone
<1>5. Told'
  <2>1. (pc # "start" /\ ~blind => before = Signature(first))'
    BY DEF Inv, Told, handler, Signature
  <2>2. (since' + 1 - 1) = since'
    BY <1>2
  <2> QED BY <1>2, <1>3, <1>4, <2>1, <2>2 DEF Told
<1> QED BY <1>1, <1>5, ChangeHolds DEF Ops

(* It removes one.                                                          *)
LEMMA RemoveHolds == Inv /\ GameRemoves => Inv'
<1> SUFFICES ASSUME Inv, GameRemoves PROVE Inv'
  OBVIOUS
<1>1. PICK f \in Paths : Present(f) /\ disk' = [disk EXCEPT ![f] = None]
  BY DEF GameRemoves
<1>2. GameDoes("remove") /\ UNCHANGED handler
  BY DEF GameRemoves
<1>3. disk' \in Disks /\ There(disk') = There(disk) \ {f}
      /\ \A g \in There(disk') : disk'[g] = disk[g]
  BY <1>1 DEF Inv, Typed, Disks, There
<1>4. Aged(disk', changes + 1)
  <2>1. \A g \in There(disk) : disk[g].mtime \in Nat
    BY DEF Inv, There, Typed, Disks, AFile
  <2>2. \A g \in There(disk') : disk'[g].mtime < changes + 1 \/ disk'[g].mtime > MaxChanges
    BY <1>3, <2>1, BoundAssumption DEF Inv, Typed, Aged
  <2> QED BY <1>3, <2>2 DEF Inv, Aged
<1>5. ASSUME kinds' \subseteq {"write", "remove"}
      PROVE  \E g \in There(first) : first[g].mtime \notin Times(disk')
  <2>1. \A t \in Times(disk') : t = changes \/ \E g \in There(disk) \ {f} : t = disk[g].mtime
    BY <1>3 DEF Times
  <2> QED BY <1>1, <1>2, <1>5, <2>1, OldTimesStayGone DEF Present
<1>6. Told'
  <2>1. (pc # "start" /\ ~blind => before = Signature(first))'
    BY <1>2 DEF Inv, Told, handler, Signature
  <2>2. ~ (kinds' \subseteq {"write", "create"}) /\ first' = first
    BY <1>2 DEF GameDoes, handler
  <2> QED BY <1>5, <2>1, <2>2 DEF Told
<1> QED BY <1>2, <1>3, <1>4, <1>6, ChangeHolds DEF Ops

(* It renames one, over another or not.                                     *)
LEMMA RenameHolds == Inv /\ GameRenames => Inv'
<1> SUFFICES ASSUME Inv, GameRenames PROVE Inv'
  OBVIOUS
<1>1. PICK f \in Paths, g \in Paths :
        f # g /\ Present(f) /\ disk' = [disk EXCEPT ![f] = None, ![g] = disk[f]]
  BY DEF GameRenames
<1>2. GameDoes("rename") /\ UNCHANGED handler
  BY DEF GameRenames
<1>3. /\ disk' \in Disks /\ disk'[g] = disk[f] /\ disk'[f] = None
      /\ \A h \in Paths \ {f, g} : disk'[h] = disk[h]
  BY <1>1 DEF Inv, Typed, Disks
<1>4. \A h \in There(disk') :
        \/ h = g /\ disk'[h] = disk[f] /\ f \in There(disk)
        \/ h # g /\ h # f /\ h \in There(disk) /\ disk'[h] = disk[h]
  BY <1>1, <1>3 DEF There, Present
<1>5. Aged(disk', changes + 1)
  <2>1. \A h \in There(disk) : disk[h].mtime \in Nat
    BY DEF Inv, There, Typed, Disks, AFile
  <2>2. \A h \in There(disk') : disk'[h].mtime < changes + 1 \/ disk'[h].mtime > MaxChanges
    BY <1>4, <2>1, BoundAssumption DEF Inv, Typed, Aged
  <2> QED BY <1>4, <2>2 DEF Inv, Aged
<1>6. Told'
  <2>1. (pc # "start" /\ ~blind => before = Signature(first))'
    BY <1>2 DEF Inv, Told, handler, Signature
  <2>2. ~ (kinds' \subseteq {"write", "create"}) /\ ~ (kinds' \subseteq {"write", "remove"})
    BY <1>2 DEF GameDoes
  <2> QED BY <2>1, <2>2 DEF Told
<1> QED BY <1>2, <1>3, <1>5, <1>6, ChangeHolds DEF Ops

-----------------------------------------------------------------------------
(* The handler.                                                              *)

(* What a step of the handler that is not the first or the last leaves.      *)
LEMMA HandlerHolds ==
  ASSUME Inv, UNCHANGED <<disk, changes, before, answer, begun, blind>>,
         pc # "start", pc' \notin {"start", "done"}, Typed', changes = since => Quiet'
  PROVE  Inv'
<1>1. Aged(disk, changes)' /\ Aged(first, since)'
  BY DEF Inv, Aged, There, begun
<1>2. Told' /\ AtStart' /\ TrueIsFaithful'
  BY DEF Inv, Told, Signature, AtStart, TrueIsFaithful, begun
<1> QED BY <1>1, <1>2 DEF Inv, begun

(* The first signature.                                                     *)
LEMMA SignBeforeHolds == Inv /\ SignBefore => Inv'
<1> SUFFICES ASSUME Inv, SignBefore PROVE Inv'
  OBVIOUS
<1>1. Typed'
  BY DEF Inv, Typed, SignBefore
<1>2. Aged(disk, changes)' /\ Aged(first, since)'
  BY DEF Inv, Aged, There, SignBefore
<1>3. Told'
  <2>1. pc' = "check" /\ first' = disk /\ disk' = disk
        /\ changes' = since' /\ since' \in Nat
    BY DEF Inv, Typed, SignBefore
  <2>2. ~blind' => before' = Signature(disk)
    BY DEF SignBefore
  <2> QED BY <2>1, <2>2 DEF Told, Signature
<1>4. AtStart' /\ Quiet' /\ TrueIsFaithful'
  BY DEF Inv, AtStart, Quiet, TrueIsFaithful, SignBefore
<1> QED BY <1>1, <1>2, <1>3, <1>4 DEF Inv

(* Before the walk nothing is archived.                                     *)
LEMMA EmptyIs == \A f \in Paths : Empty[f] = None
BY DEF Empty

(* The two directories have no file in common, and data/ comes first.        *)
LEMMA RootsApart ==
  /\ \A f \in Roots[1], g \in Roots[2] : f <= g
  /\ \A f \in Paths : f \in Roots[1] <=> f \notin Roots[2]
  /\ \A q \in 1..2 : Roots[q] \subseteq Paths
  /\ \A q \in 1..2 : \A f, g \in Roots[q] : SameRoot(f, g)
  /\ \A f \in Paths : SameRoot(f, f) /\ f <= f
<1>1. Data \in Nat /\ Files \in Nat
  BY PathsAssumption
<1>2. \A f \in Roots[1], g \in Roots[2] : f <= g
  BY <1>1, PathsAre
<1>3. \A f \in Paths : f \in Roots[1] <=> f \notin Roots[2]
  BY <1>1, PathsAre DEF Paths
<1>4. DOMAIN Roots = 1..2 /\ \A q \in 1..2 : q = 1 \/ q = 2
  BY DEF Roots
<1>5. \A q \in 1..2 : Roots[q] \subseteq Paths
  BY <1>4, PathsAre
<1>6. \A q \in 1..2 : \A f, g \in Roots[q] : SameRoot(f, g)
  BY <1>4 DEF SameRoot
<1>7. \A f \in Paths : \E q \in 1..2 : f \in Roots[q]
  <2>1. 1 \in 1..2 /\ 2 \in 1..2
    OBVIOUS
  <2>2. \A f \in Paths : f \in Roots[1] \/ f \in Roots[2]
    BY PathsAre
  <2> QED BY <2>1, <2>2
<1>8. \A f \in Paths : f <= f
  BY PathsAre
<1> QED BY <1>2, <1>3, <1>5, <1>6, <1>7, <1>8

(* Whether there is anything to archive.                                    *)
LEMMA CheckContentHolds == Inv /\ CheckContent => Inv'
<1> SUFFICES ASSUME Inv, CheckContent PROVE Inv'
  OBVIOUS
<1>1. /\ pc = "check" /\ UNCHANGED <<disk, changes, root, listed, header, torn, archive, before, answer, begun, blind>>
      /\ pc' \in {"sign", "list"}
  BY DEF CheckContent
<1>2. Typed'
  BY <1>1 DEF CheckContent, Inv, Typed, begun, There
<1>3. ASSUME changes = since PROVE Quiet'
  <2>1. disk = first /\ ~torn /\ root = 1 /\ archive = Empty /\ failed = {}
    BY <1>1, <1>3 DEF Inv, Quiet
  <2>2. CASE disk = Empty /\ pc' = "sign"
    BY <1>1, <2>1, <2>2 DEF Quiet, Right, begun
  <2>3. CASE pc' = "list"
    <3>1. Behind' = {}
      BY <1>1, <2>1, <2>3 DEF Behind
    <3> QED BY <1>1, <2>1, <2>3, <3>1, EmptyIs DEF Quiet, begun
  <2>4. CASE pc' = "sign" /\ failed' = There(disk)
    <3>1. ASSUME NEW f \in Paths PROVE Right(f)'
      <4>1. archive'[f] = None /\ disk' = disk
        BY <1>1, <2>1, EmptyIs
      <4>2. CASE f \in There(disk)
        <5>1. SameRoot(f, f) /\ f <= f
          BY RootsApart
        <5> QED BY <2>4, <4>1, <4>2, <5>1 DEF Right, Lost
      <4>3. CASE f \notin There(disk)
        BY <4>1, <4>3 DEF Right, There
      <4> QED BY <4>2, <4>3
    <3> QED BY <1>1, <2>1, <2>4, <3>1 DEF Quiet, begun
  <2> QED BY <2>2, <2>3, <2>4 DEF CheckContent
<1> QED BY <1>1, <1>2, <1>3, HandlerHolds

(* What is right stays right while the archive and the failures do.          *)
LEMMA RightStays ==
  ASSUME NEW f, Right(f), archive'[f] = archive[f], disk' = disk,
         failed \subseteq failed', torn => torn'
  PROVE  Right(f)'
<1>1. CASE archive[f] = disk[f]
  BY <1>1 DEF Right
<1>2. CASE archive[f] = None /\ Lost(f)
  BY <1>2 DEF Right, Lost, SameRoot
<1> QED BY <1>1, <1>2 DEF Right

(* The next directory is read, or there is none.                            *)
LEMMA ListHolds == Inv /\ List => Inv'
<1> SUFFICES ASSUME Inv, List PROVE Inv'
  OBVIOUS
<1>1. /\ pc = "list" /\ UNCHANGED <<disk, changes, root, header, torn, archive, before, answer, history>>
      /\ root \in 1..3 /\ UNCHANGED <<begun, failed, blind>>
  BY DEF List, Inv, Typed, history
<1>2. CASE root > Len(Roots)
  <2>1. pc' = "sign" /\ UNCHANGED listed /\ root = 3
    BY <1>1, <1>2, PathsAre DEF List
  <2>2. Typed'
    BY <1>1, <2>1 DEF Inv, Typed, begun
  <2>3. ASSUME changes = since PROVE Quiet'
    <3>1. Behind = Paths /\ Behind' = Paths
      BY <1>1, <2>1 DEF Behind
    <3>2. \A f \in Paths : Right(f)'
      BY <1>1, <2>3, <3>1, RightStays DEF Inv, Quiet
    <3> QED BY <1>1, <2>1, <2>3, <3>1, <3>2 DEF Inv, Quiet, begun
  <2> QED BY <1>1, <2>1, <2>2, <2>3, HandlerHolds
<1>3. CASE ~ (root > Len(Roots))
  <2>1. pc' = "visit" /\ listed' = Listed /\ root \in 1..2
    BY <1>1, <1>3, PathsAre DEF List
  <2>2. Listed \subseteq Roots[root] \cap There(disk) /\ Listed \in SUBSET Paths
    <3>1. root = 1 \/ root = 2
      BY <2>1
    <3>2. Roots[root] \subseteq Paths
      BY <3>1, PathsAre
    <3> QED BY <3>2 DEF Listed, Present
  <2>3. Typed'
    BY <1>1, <2>1, <2>2 DEF Inv, Typed, begun
  <2>4. ASSUME changes = since PROVE Quiet'
    <3>1. ASSUME NEW f \in Paths
          PROVE  /\ f \in Behind => f \in Behind'
                 /\ f \in Behind' => f \in Behind \/ disk[f] = None
      <4>1. f \in Behind <=> root = 2 /\ f \in Roots[1]
        BY <1>1, <2>1 DEF Behind
      <4>2. f \in Behind' <=> (root = 2 /\ f \in Roots[1]) \/ f \in Roots[root] \ Listed
        BY <1>1, <2>1 DEF Behind
      <4>3. f \in Roots[root] \ Listed => disk[f] = None
        BY DEF Listed, Present, There
      <4> QED BY <4>1, <4>2, <4>3
    <3>2. ASSUME NEW f \in Behind' PROVE Right(f)'
      <4>0. f \in Paths
        BY DEF Behind
      <4>1. CASE f \in Behind
        BY <1>1, <2>4, <4>1, RightStays DEF Inv, Quiet
      <4>2. CASE f \notin Behind /\ disk[f] = None
        <5>1. archive[f] = None
          BY <1>1, <2>4, <4>0, <4>2 DEF Inv, Quiet
        <5> QED BY <1>1, <4>2, <5>1 DEF Right
      <4> QED BY <3>1, <4>0, <4>1, <4>2
    <3>3. \A f \in Paths \ Behind' : archive[f] = None
      BY <1>1, <2>4, <3>1 DEF Inv, Quiet
    <3>4. torn => \E g \in failed : \A f \in Paths \ Behind' : g <= f
      BY <2>4, <3>1 DEF Inv, Quiet
    <3>5. disk = first /\ disk' = disk /\ first' = first
      BY <1>1, <2>4 DEF Inv, Quiet, begun
    <3> QED BY <1>1, <2>1, <2>2, <3>2, <3>3, <3>4, <3>5 DEF Quiet
  <2> QED BY <1>1, <2>1, <2>3, <2>4, HandlerHolds
<1> QED BY <1>2, <1>3

(* A walk that ends leaves the files of its directory behind.                *)
LEMMA WalkEnds ==
  ASSUME Typed, pc \in {"list", "visit", "copy"}, root # 3, pc' = "list", root' = root + 1
  PROVE  /\ root \in 1..2 /\ root' \in 2..3
         /\ \A f \in Paths : f \in Behind => f \in Behind'
         /\ \A f \in Paths : f \in Behind' <=> f \in Behind \/ f \in Roots[root]
<1>1. root \in 1..2
  BY DEF Typed
<1>2. CASE root = 1
  BY <1>2 DEF Behind
<1>3. CASE root = 2
  <2>1. \A f \in Paths : f \in Behind \/ f \in Roots[root]
    BY <1>3, PathsAre DEF Behind
  <2>2. \A f \in Paths : f \in Behind'
    BY <1>3 DEF Behind
  <2> QED BY <1>3, <2>1, <2>2
<1> QED BY <1>1, <1>2, <1>3

(* When a walk ends early on a quiet disk, what it had listed is lost.       *)
LEMMA EarlyEnd ==
  ASSUME Inv, changes = since, pc \in {"list", "visit", "copy"}, root # 3, EndWalk,
         UNCHANGED <<disk, changes, before, answer, begun, blind>>,
         failed \subseteq failed', torn => torn',
         \A f \in Behind : archive'[f] = archive[f],
         \A f \in Paths \ (Behind \cup Roots[root]) : archive'[f] = None,
         torn' => \E g \in failed' : \A f \in Paths \ Behind : g <= f,
         \A f \in Roots[root] \ Behind : Right(f)'
  PROVE  Quiet'
<1>1. pc' = "list" /\ root' = root + 1 /\ disk = first /\ disk' = disk /\ first' = first
  BY DEF EndWalk, Inv, Quiet, begun
<1>2. /\ root \in 1..2 /\ root' \in 2..3
      /\ \A f \in Paths : f \in Behind => f \in Behind'
      /\ \A f \in Paths : f \in Behind' <=> f \in Behind \/ f \in Roots[root]
  BY <1>1, WalkEnds DEF Inv
<1>3. ASSUME NEW f \in Behind' PROVE Right(f)'
  <2>1. f \in Paths
    BY DEF Behind
  <2>2. CASE f \in Behind
    <3>1. Right(f)
      BY <2>2 DEF Inv, Quiet
    <3> QED BY <1>1, <2>2, <3>1, RightStays
  <2>3. CASE f \notin Behind
    BY <1>2, <2>1, <2>3
  <2> QED BY <2>2, <2>3
<1>4. \A f \in Paths \ Behind' : archive'[f] = None
  BY <1>2
<1>5. torn' => \E g \in failed' : \A f \in Paths \ Behind' : g <= f
  BY <1>2
<1> QED BY <1>1, <1>3, <1>4, <1>5 DEF Quiet

(* The walk of a directory is over.                                         *)
LEMMA VisitDoneHolds == Inv /\ VisitDone => Inv'
<1> SUFFICES ASSUME Inv, VisitDone PROVE Inv'
  OBVIOUS
<1>1. /\ pc = "visit" /\ listed = {} /\ EndWalk /\ root # 3
      /\ UNCHANGED <<disk, changes, listed, header, torn, archive, before, answer, begun, failed, blind>>
  BY DEF VisitDone, history, Inv, Typed
<1>2. pc' = "list" /\ root' \in 2..3 /\ root \in 1..2
  BY <1>1, WalkEnds DEF EndWalk, Inv
<1>3. Typed'
  BY <1>1, <1>2 DEF Inv, Typed, begun
<1>4. ASSUME changes = since PROVE Quiet'
  <2>1. \A f \in Roots[root] : f \in Behind
    <3>1. Roots[root] \subseteq Paths
      BY <1>2, RootsApart
    <3> QED BY <1>1, <3>1 DEF Behind
  <2>2. torn => \E g \in failed : \A f \in Paths \ Behind : g <= f
    BY <1>4 DEF Inv, Quiet
  <2>3. \A f \in Paths \ Behind : archive[f] = None
    BY <1>1, <1>4 DEF Inv, Quiet
  <2> QED BY <1>1, <1>4, <2>1, <2>2, <2>3, EarlyEnd
<1> QED BY <1>1, <1>2, <1>3, <1>4, HandlerHolds

(* The file that is visited is the first of those listed.                    *)
LEMMA VisitedIs ==
  ASSUME Typed, listed # {}
  PROVE  Visited \in listed /\ Visited \in Paths /\ \A f \in listed : Visited <= f
<1>1. listed \in SUBSET Nat
  BY PathsAre DEF Typed
<1>2. \E f \in listed : \A g \in listed : f <= g
  BY <1>1, LeastNat
<1> QED BY <1>2 DEF Visited, Typed

(* It comes before everything that is not behind.                            *)
LEMMA VisitedIsFirst ==
  ASSUME Inv, changes = since, pc \in {"visit", "copy"}, listed # {}
  PROVE  /\ \A f \in Paths \ Behind : Visited <= f
         /\ \A f \in Roots[root] \ Behind : f \in listed /\ f \in Paths /\ SameRoot(f, Visited)
         /\ Visited \in Paths \ Behind
<1>1. /\ Visited \in listed /\ Visited \in Paths /\ \A f \in listed : Visited <= f
      /\ root \in 1..2 /\ listed \subseteq Roots[root]
  BY VisitedIs DEF Inv, Typed, Quiet
<1>2. Roots[root] \subseteq Paths
  BY <1>1, RootsApart
<1>3. \A f \in Roots[root] \ Behind : f \in listed /\ f \in Paths
  BY <1>2 DEF Behind
<1>4. \A f \in Paths \ Behind : f \in listed \/ (root = 1 /\ f \in Roots[2])
  <2>1. CASE root = 1
    BY <2>1, <1>3, PathsAre
  <2>2. CASE root = 2
    <3>1. \A f \in Paths \ Behind : f \notin Roots[1]
      BY <2>2 DEF Behind
    <3> QED BY <2>2, <3>1, <1>3, PathsAre
  <2> QED BY <1>1, <2>1, <2>2
<1>5. \A f \in Paths \ Behind : Visited <= f
  BY <1>1, <1>4, RootsApart
<1>6. Visited \notin Behind
  <2>1. CASE root = 1
    BY <1>1, <2>1 DEF Behind
  <2>2. CASE root = 2
    BY <1>1, <2>2, RootsApart DEF Behind
  <2> QED BY <1>1, <2>1, <2>2
<1>7. \A f \in Roots[root] \ Behind : SameRoot(f, Visited)
  BY <1>1, RootsApart
<1> QED BY <1>1, <1>3, <1>5, <1>6, <1>7

(* A call fails for the file that is visited, whose content is not archived: *)
(* it and what comes after it is lost.                                       *)
LEMMA FailureHolds ==
  ASSUME Inv, pc \in {"visit", "copy"}, listed # {}, FailsAt({Visited}),
         UNCHANGED <<disk, changes, listed, header, before, answer, begun, blind>>,
         torn' \in BOOLEAN, torn => torn', archive' \in Disks,
         \A f \in Paths \ {Visited} : archive'[f] = archive[f],
         \/ archive'[Visited] = archive[Visited]
         \/ changes = since => archive'[Visited] = disk[Visited]
  PROVE  Inv'
<1>1. /\ EndWalk /\ failed' = failed \cup {Visited} /\ root # 3
      /\ Visited \in Paths
  BY VisitedIs DEF FailsAt, Inv, Typed
<1>2. pc' = "list" /\ root' \in 2..3
  BY <1>1, WalkEnds DEF EndWalk, Inv
<1>3. Typed'
  BY <1>1, <1>2 DEF Inv, Typed, begun
<1>4. ASSUME changes = since PROVE Quiet'
  <2>1. /\ \A f \in Paths \ Behind : Visited <= f
        /\ \A f \in Roots[root] \ Behind : f \in listed /\ f \in Paths /\ SameRoot(f, Visited)
        /\ Visited \in Paths \ Behind
    BY <1>4, VisitedIsFirst
  <2>2. \A f \in Paths \ Behind : archive[f] = None
    BY <1>4 DEF Inv, Quiet
  <2>3. ASSUME NEW f \in Roots[root] \ Behind PROVE Right(f)'
    <3>1. Lost(f)'
      <4>1. Visited \in failed' /\ Visited <= f /\ SameRoot(f, Visited)
        BY <1>1, <2>1
      <4> QED BY <4>1 DEF Lost, SameRoot
    <3>2. archive'[f] = None \/ archive'[f] = disk'[f]
      BY <1>4, <2>1, <2>2
    <3> QED BY <3>1, <3>2 DEF Right
  <2>4. Visited \in Roots[root]
    BY <1>4, VisitedIs DEF Inv, Typed, Quiet
  <2>5. \A f \in Paths \ (Behind \cup Roots[root]) : archive'[f] = None
    BY <2>2, <2>4
  <2>6. \A f \in Behind : archive'[f] = archive[f]
    BY <2>1 DEF Behind
  <2>7. torn' => \E g \in failed' : \A f \in Paths \ Behind : g <= f
    BY <1>1, <2>1
  <2> QED BY <1>1, <1>4, <2>3, <2>5, <2>6, <2>7, EarlyEnd
<1> QED BY <1>1, <1>2, <1>3, <1>4, HandlerHolds

(* A directory that cannot be read is lost.                                 *)
LEMMA ListFailsHolds == Inv /\ ListFails => Inv'
<1> SUFFICES ASSUME Inv, ListFails PROVE Inv'
  OBVIOUS
<1>1. /\ pc = "list" /\ EndWalk /\ failed' = failed \cup Listed
      /\ UNCHANGED <<disk, changes, listed, header, torn, archive, before, answer, begun, blind>>
      /\ root \in 1..2
  BY PathsAre DEF ListFails, FailsAt, Inv, Typed
<1>2. pc' = "list" /\ root' \in 2..3 /\ Roots[root] \subseteq Paths
  BY <1>1, RootsApart DEF EndWalk
<1>3. Typed'
  BY <1>1, <1>2 DEF Inv, Typed, begun, Listed
<1>4. ASSUME changes = since PROVE Quiet'
  <2>1. \A f \in Paths \ Behind : archive[f] = None
    BY <1>1, <1>4 DEF Inv, Quiet
  <2>2. ASSUME NEW f \in Roots[root] \ Behind PROVE Right(f)'
    <3>1. f \in Paths /\ archive'[f] = None /\ disk' = disk
      BY <1>1, <1>2, <2>1
    <3>2. CASE Present(f)
      <4>1. f \in failed' /\ f <= f /\ SameRoot(f, f)
        BY <1>1, <1>2, <3>1, <3>2, RootsApart, PathsAre DEF Listed
      <4>2. Lost(f)'
        BY <4>1 DEF Lost, SameRoot
      <4> QED BY <3>1, <4>2 DEF Right
    <3>3. CASE ~Present(f)
      BY <3>1, <3>3 DEF Present, There, Right
    <3> QED BY <3>2, <3>3
  <2>3. torn' => \E g \in failed' : \A f \in Paths \ Behind : g <= f
    BY <1>1, <1>4 DEF Inv, Quiet
  <2> QED BY <1>1, <1>4, <2>1, <2>2, <2>3, EarlyEnd
<1> QED BY <1>1, <1>2, <1>3, <1>4, HandlerHolds

(* The header of a file.                                                    *)
LEMMA WriteHeaderHolds == Inv /\ WriteHeader => Inv'
<1> SUFFICES ASSUME Inv, WriteHeader PROVE Inv'
  OBVIOUS
<1>1. /\ pc = "visit" /\ listed # {}
      /\ UNCHANGED <<disk, changes, listed, torn, archive, before, answer, begun, failed, blind>>
  BY DEF WriteHeader, history
<1>2. Visited \in listed /\ Visited \in Paths /\ Typed /\ root \in 1..2
  BY <1>1, VisitedIs DEF Inv, Typed
<1>3. CASE ~Present(Visited) \/ torn
  <2>1. EndWalk /\ UNCHANGED header /\ root # 3
    BY <1>2, <1>3 DEF WriteHeader
  <2>2. pc' = "list" /\ root' \in 2..3
    BY <1>1, <2>1, WalkEnds DEF EndWalk, Inv
  <2>3. Typed'
    BY <1>1, <1>2, <2>1, <2>2 DEF Typed, begun
  <2>4. ASSUME changes = since PROVE Quiet'
    <3>1. torn /\ \A f \in Paths \ Behind : archive[f] = None
      BY <1>1, <1>2, <1>3, <2>4 DEF Inv, Quiet, Present
    <3>2. PICK g \in failed : \A f \in Paths \ Behind : g <= f
      BY <2>4, <3>1 DEF Inv, Quiet
    <3>3. ASSUME NEW f \in Roots[root] \ Behind PROVE Right(f)'
      <4>1. f \in Paths /\ g <= f
        BY <1>2, <3>2, RootsApart
      <4>2. archive'[f] = None /\ g \in failed' /\ torn'
        BY <1>1, <3>1, <4>1
      <4>3. Lost(f)'
        BY <4>1, <4>2 DEF Lost
      <4> QED BY <4>2, <4>3 DEF Right
    <3> QED BY <1>1, <2>1, <2>4, <3>1, <3>2, <3>3, EarlyEnd
  <2> QED BY <1>1, <2>2, <2>3, <2>4, HandlerHolds
<1>4. CASE ~ (~Present(Visited) \/ torn)
  <2>1. pc' = "copy" /\ header' = disk[Visited] /\ root' = root
    BY <1>4 DEF WriteHeader
  <2>2. disk[Visited] \in AFile
    BY <1>2, <1>4 DEF Typed, Disks, Present, There
  <2>3. Typed'
    BY <1>1, <1>2, <2>1, <2>2 DEF Typed, begun
  <2>4. Behind' = Behind /\ Visited' = Visited
    BY <1>1, <2>1 DEF Behind, Visited
  <2>5. ASSUME changes = since PROVE Quiet'
    <3>1. \A f \in Behind' : Right(f)'
      BY <1>1, <2>4, <2>5, RightStays DEF Inv, Quiet
    <3> QED BY <1>1, <1>4, <2>1, <2>4, <2>5, <3>1 DEF Inv, Quiet, begun
  <2> QED BY <1>1, <2>1, <2>3, <2>5, HandlerHolds
<1> QED BY <1>3, <1>4

(* A header that cannot be made.                                            *)
LEMMA HeaderFailsHolds == Inv /\ HeaderFails => Inv'
<1> SUFFICES ASSUME Inv, HeaderFails PROVE Inv'
  OBVIOUS
<1>1. torn \in BOOLEAN /\ archive \in Disks
  BY DEF Inv, Typed
<1> QED BY <1>1, FailureHolds DEF HeaderFails

(* What is copied is a file; of a quiet disk, the one that is there.         *)
LEMMA CopiedIs ==
  ASSUME Inv, pc = "copy", ~Short(Visited)
  PROVE  /\ Copied(Visited) \in AFile
         /\ changes = since => Copied(Visited) = disk[Visited]
<1>1. Visited \in Paths /\ header \in AFile
  BY VisitedIs DEF Inv, Typed
<1>2. disk[Visited] \in AFile
  BY <1>1 DEF Short, Present, There, Inv, Typed, Disks
<1>3. changes = since => header = disk[Visited]
  BY DEF Inv, Quiet
<1> QED BY <1>1, <1>2, <1>3 DEF Copied, AFile

(* Its content, or the lack of it.                                          *)
LEMMA CopyFailsHolds == Inv /\ CopyFails => Inv'
<1> SUFFICES ASSUME Inv, CopyFails PROVE Inv'
  OBVIOUS
<1>1. /\ pc = "copy" /\ listed # {} /\ FailsAt({Visited}) /\ Visited \in Paths
      /\ UNCHANGED <<disk, changes, listed, header, before, answer, begun, blind>>
      /\ archive \in Disks /\ torn \in BOOLEAN
  BY VisitedIs DEF CopyFails, Inv, Typed
<1>2. CASE torn' = TRUE /\ UNCHANGED archive
  BY <1>1, <1>2, FailureHolds
<1>3. CASE /\ ~Short(Visited) /\ UNCHANGED torn
           /\ archive' = [archive EXCEPT ![Visited] = Copied(Visited)]
  <2>1. /\ Copied(Visited) \in AFile
        /\ changes = since => Copied(Visited) = disk[Visited]
    BY <1>1, <1>3, CopiedIs
  <2>2. /\ archive' \in Disks /\ archive'[Visited] = Copied(Visited)
        /\ \A f \in Paths \ {Visited} : archive'[f] = archive[f]
    BY <1>1, <1>3, <2>1 DEF Disks
  <2> QED BY <1>1, <1>3, <2>1, <2>2, FailureHolds
<1> QED BY <1>2, <1>3 DEF CopyFails

(* Its content.                                                             *)
LEMMA CopyHolds == Inv /\ Copy => Inv'
<1> SUFFICES ASSUME Inv, Copy PROVE Inv'
  OBVIOUS
<1> DEFINE f == Visited
           fits == Present(f) /\ disk[f].size = header.size
<1>1. /\ pc = "copy" /\ UNCHANGED <<disk, changes, header, before, answer, begun, failed, blind>>
      /\ torn' = Short(f)
      /\ archive' = [archive EXCEPT ![f] = IF Short(f) THEN None ELSE Copied(f)]
      /\ IF fits THEN pc' = "visit" /\ UNCHANGED root ELSE EndWalk
      /\ listed' = IF fits THEN listed \ {f} ELSE listed
  BY DEF Copy, history
<1>2. /\ f \in listed /\ f \in Paths /\ Typed /\ root \in 1..2 /\ listed # {}
      /\ header \in AFile /\ torn' \in BOOLEAN
  BY <1>1, VisitedIs DEF Inv, Typed, Short
<1>3. archive' \in Disks
  <2>1. (IF Short(f) THEN None ELSE Copied(f)) \in AFile \cup {None}
    BY <1>1, CopiedIs
  <2> HIDE DEF f
  <2> QED BY <1>1, <1>2, <2>1 DEF Typed, Disks
<1>4. pc' \in {"list", "visit"} /\ root' \in 1..3 /\ (pc' = "visit" => root' # 3)
      /\ listed' \in SUBSET Paths
  BY <1>1, <1>2 DEF EndWalk, Typed
<1>5. Typed'
  BY <1>1, <1>2, <1>3, <1>4 DEF Typed, begun
<1>6. ASSUME changes = since PROVE Quiet'
  <2>1. /\ disk = first /\ listed \subseteq Roots[root] \cap There(disk)
        /\ header = disk[f] /\ ~torn
    BY <1>1, <1>6 DEF Inv, Quiet
  <2>2. Present(f) /\ disk[f] \in AFile
    BY <1>2, <2>1 DEF Present, There, Typed, Disks
  <2>3. fits
    BY <2>1, <2>2
  <2>4. ~Short(f)
    <3>1. disk[f].size \in Nat
      BY <2>2, SizesAssumption DEF AFile
    <3>2. ~ (disk[f].size < header.size)
      BY <2>1, <3>1
    <3> QED BY <2>2, <3>2 DEF Short
  <2>5. Copied(f) = disk[f]
    BY <1>1, <1>6, <2>4, CopiedIs
  <2>6. pc' = "visit" /\ root' = root /\ listed' = listed \ {f}
    BY <1>1, <2>3
  <2>7. \A g \in Paths : g \in Behind' <=> g \in Behind \/ g = f
    BY <1>1, <1>2, <2>1, <2>6 DEF Behind
  <2>8. /\ archive'[f] = disk[f]
        /\ \A g \in Paths \ {f} : archive'[g] = archive[g]
    <3>1. archive' = [archive EXCEPT ![f] = disk[f]]
      BY <1>1, <2>4, <2>5
    <3> HIDE DEF f
    <3> QED BY <1>2, <3>1 DEF Typed, Disks
  <2> HIDE DEF f, fits
  <2>9. ASSUME NEW g \in Behind' PROVE Right(g)'
    <3>0. g \in Paths
      BY DEF Behind
    <3>1. CASE g = f
      BY <1>1, <2>8, <3>1 DEF Right
    <3>2. CASE g # f
      <4>1. Right(g)
        BY <1>1, <1>6, <2>7, <3>0, <3>2 DEF Inv, Quiet
      <4>2. torn => torn'
        BY <2>1
      <4> QED BY <1>1, <2>8, <3>0, <3>2, <4>1, <4>2, RightStays
    <3> QED BY <3>1, <3>2
  <2>10. \A g \in Paths \ Behind' : archive'[g] = None
    BY <1>1, <1>6, <2>7, <2>8 DEF Inv, Quiet
  <2> QED BY <1>1, <2>1, <2>4, <2>6, <2>9, <2>10 DEF Quiet, begun
<1> QED BY <1>1, <1>4, <1>5, <1>6, HandlerHolds

(* A trailer that says true, where the changes are of kinds the sums tell    *)
(* and the signatures saw every file: there was none.                        *)
LEMMA TrueIsQuiet ==
  ASSUME Inv, pc # "start", before = Signature(disk), ~blind,
         \E t \in Telling : kinds \subseteq t
  PROVE  changes = since
<1> SUFFICES ASSUME changes > since PROVE FALSE
  BY DEF Inv, Typed
<1>1. Times(disk) = Times(first)
  BY DEF Inv, Told, Signature
<1>2. CASE kinds \subseteq {"write", "create"}
  <2>1. PICK f \in There(disk) : disk[f].mtime \in since..(changes - 1)
    BY <1>2 DEF Inv, Told
  <2>2. PICK g \in There(first) : disk[f].mtime = first[g].mtime
    BY <1>1 DEF Times
  <2> QED BY <2>1, <2>2, BoundAssumption DEF Inv, Typed, Aged
<1>3. CASE kinds \subseteq {"write", "remove"}
  BY <1>1, <1>3 DEF Inv, Told, Times
<1> QED BY <1>2, <1>3 DEF Telling

(* If no call failed, nothing is lost.                                      *)
LEMMA NothingLost ==
  ASSUME Typed, failed = {}, \A f \in Paths : Right(f)
  PROVE  archive = disk
<1>1. \A f \in Paths : archive[f] = disk[f]
  BY DEF Right, Lost
<1> QED BY <1>1 DEF Typed, Disks

(* The second signature and the trailer.                                    *)
LEMMA SignAfterHolds == Inv /\ SignAfter => Inv'
<1> SUFFICES ASSUME Inv, SignAfter PROVE Inv'
  OBVIOUS
<1>1. /\ pc = "sign" /\ pc' = "done"
      /\ UNCHANGED <<disk, changes, root, listed, header, torn, archive, before, begun, failed>>
  BY DEF SignAfter
<1>2. /\ answer' \in BOOLEAN /\ blind' \in BOOLEAN
      /\ ~blind' => ~blind /\ answer' = (before = Signature(disk))
  BY DEF SignAfter, Inv, Typed
<1>3. Typed'
  BY <1>1, <1>2 DEF Inv, Typed, begun
<1>4. Aged(disk, changes)' /\ Aged(first, since)' /\ AtStart'
  BY <1>1 DEF Inv, Aged, There, AtStart, begun
<1>5. Told'
  BY <1>1, <1>2 DEF Inv, Told, Signature, begun
<1>6. ASSUME changes = since
      PROVE  disk = first /\ \A f \in Paths : Right(f)
  BY <1>1, <1>6 DEF Inv, Quiet
<1>7. ASSUME changes = since PROVE Quiet'
  <2>1. \A f \in Paths : Right(f)'
    BY <1>1, <1>6, <1>7 DEF Right, Lost, SameRoot
  <2>2. ~blind' => answer' = TRUE
    BY <1>1, <1>2, <1>6, <1>7 DEF Inv, Told
  <2>3. torn' => \E g \in failed' : \A f \in Paths \ Behind' : g <= f
    BY <1>1, <1>7 DEF Inv, Quiet, Behind
  <2> QED BY <1>1, <1>6, <1>7, <2>1, <2>2, <2>3 DEF Quiet, begun
<1>8. TrueIsFaithful'
  <2> SUFFICES ASSUME answer' = TRUE, failed = {}, ~blind', \E t \in Telling : kinds \subseteq t
               PROVE  archive = first
    BY <1>1 DEF TrueIsFaithful, begun
  <2>1. before = Signature(disk) /\ ~blind
    BY <1>2
  <2>2. changes = since
    BY <1>1, <2>1, TrueIsQuiet
  <2> QED BY <1>6, <2>2, NothingLost DEF Inv
<1> QED BY <1>1, <1>3, <1>4, <1>5, <1>7, <1>8 DEF Inv, begun

(* Every step preserves the invariant.                                      *)
LEMMA NextHolds == Inv /\ [Next]_vars => Inv'
<1> SUFFICES ASSUME Inv, [Next]_vars PROVE Inv'
  OBVIOUS
<1>1. CASE GameWrites
  BY <1>1, WriteHolds DEF GameWrites
<1>2. CASE GameCreates
  BY <1>2, WriteHolds DEF GameCreates
<1>3. CASE UNCHANGED vars
  BY <1>3 DEF vars, handler, Inv, Typed, Aged, There, Told, AtStart, Quiet, Behind,
     Right, Lost, Visited, TrueIsFaithful, begun, history
<1> QED BY <1>1, <1>2, <1>3, RemoveHolds, RenameHolds, SignBeforeHolds,
    CheckContentHolds, ListHolds, ListFailsHolds, VisitDoneHolds, WriteHeaderHolds,
    HeaderFailsHolds, CopyHolds, CopyFailsHolds, SignAfterHolds DEF Next

-----------------------------------------------------------------------------
(* If the trailer says "true" the archive holds the files as they were when  *)
(* the snapshot began, whatever the game did of the kinds the sums can tell  *)
(* and whenever, for any number of files and changes, as long as no call     *)
(* fails for a file that is there (manager.go:457-488).                      *)
THEOREM TrailerIsTrue == Spec => []TrueIsFaithful
<1>1. Inv => TrueIsFaithful
  BY DEF Inv
<1> QED BY <1>1, InitHolds, NextHolds, PTL DEF Spec

(* While the game leaves its files alone nothing is missing from the archive *)
(* but what a failing call costs, the rest of its directory and of config/   *)
(* if the tar writer is stuck, and the trailer says "true"                   *)
(* (manager.go:336-389, 475-488).                                            *)
THEOREM QuietArchiveIsComplete == Spec => []QuietIsFaithful
<1>1. Inv => QuietIsFaithful
  BY DEF Inv, Quiet, Right, QuietIsFaithful
<1> QED BY <1>1, InitHolds, NextHolds, PTL DEF Spec
=============================================================================
