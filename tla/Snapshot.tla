------------------------------ MODULE Snapshot ------------------------------
(***************************************************************************)
(* handleAccountSnapshot: an archive of a user's data/ and config/ taken    *)
(* while the game runs and changes them, and the trailer that tells whether *)
(* it did.  The export sends the same archive once the game is down.        *)
(*                                                                         *)
(* The files have the paths 1..Data (data/) and Data+1..Files (config/), in *)
(* the order filepath.WalkDir visits them.  A file is the time it was       *)
(* written and its size; no two files were written at the same time.        *)
(***************************************************************************)
EXTENDS Integers, Sequences, FiniteSetsExt

CONSTANTS
  None,       \* no file
  Data,       \* the number of paths in data/
  Files,      \* the number of paths
  Sizes,      \* the sizes of files
  GameOps,    \* what the game does to its files
  Faults,     \* the calls that may fail for a file that is there
  MaxChanges  \* bound on how often

ASSUME PathsAssumption == Data \in 1..Files /\ Files \in Nat
ASSUME SizesAssumption == Sizes \subseteq Nat \ {0}
ASSUME GameAssumption ==
  GameOps \subseteq {"write", "create", "remove", "rename"}
ASSUME FaultsAssumption == Faults \subseteq {"sign", "list", "header", "copy"}
ASSUME BoundAssumption == MaxChanges \in Nat
ASSUME NoneAssumption == None \notin [mtime : Nat, size : Sizes]

VARIABLES
  disk,      \* the file at each path
  changes,   \* the number of changes by the game
  pc,        \* where the handler is
  root,      \* the directory it walks
  listed,    \* the paths WalkDir has still to visit
  header,    \* the file whose header was written last
  torn,      \* that header's bytes are missing: the tar writer is stuck
  archive,   \* the files archived so far, by path
  before,    \* beforeSig
  answer,    \* X-Snapshot-Consistent
  first,     \* history: the disk when beforeSig was taken
  since,     \* history: the changes made until then
  kinds,     \* history: the kinds of changes made since
  failed,    \* history: the files there that the walk failed at
  blind      \* history: a signature missed a file that was there

handler == <<pc, root, listed, header, torn, archive, before, answer, first,
             since, failed, blind>>
vars == <<disk, changes, handler, kinds>>
begun == <<first, since, kinds>>
history == <<begun, failed, blind>>

Paths == 1..Files
(* Mistake: config/ is forgotten.                                            *)
DataOnly == <<1..Data, {}>>
Roots == <<1..Data, (Data + 1)..Files>>
(* A change that comes after n others happens at time n.                     *)
File(n, size) == [mtime |-> n, size |-> size]
Empty == [f \in Paths |-> None]
There(d) == {f \in Paths : d[f] # None}
Present(f) == f \in There(disk)

Init ==
  /\ \E s \in Sizes, there \in SUBSET Paths :
       disk = [f \in Paths |->
                 IF f \in there THEN File(MaxChanges + f, s) ELSE None]
  /\ changes = 0 /\ pc = "start" /\ root = 1 /\ listed = {} /\ header = None
  /\ torn = FALSE /\ archive = Empty /\ before = None /\ answer = None
  /\ first = disk /\ since = 0 /\ kinds = {} /\ failed = {} /\ blind = FALSE

-----------------------------------------------------------------------------
(* The game.                                                                 *)

GameDoes(op) ==
  /\ op \in GameOps /\ changes < MaxChanges
  /\ changes' = changes + 1 /\ kinds' = kinds \cup {op}
Now(size) == File(changes, size)

GameWrites ==
  /\ GameDoes("write") /\ UNCHANGED handler
  /\ \E f \in Paths, s \in Sizes :
       Present(f) /\ disk' = [disk EXCEPT ![f] = Now(s)]

GameCreates ==
  /\ GameDoes("create") /\ UNCHANGED handler
  /\ \E f \in Paths, s \in Sizes :
       ~Present(f) /\ disk' = [disk EXCEPT ![f] = Now(s)]

GameRemoves ==
  /\ GameDoes("remove") /\ UNCHANGED handler
  /\ \E f \in Paths : Present(f) /\ disk' = [disk EXCEPT ![f] = None]

(* "temp dir + rename"                                                       *)
GameRenames ==
  /\ GameDoes("rename") /\ UNCHANGED handler
  /\ \E f, g \in Paths :
       /\ f # g /\ Present(f)
       /\ disk' = [disk EXCEPT ![f] = None, ![g] = disk[f]]

-----------------------------------------------------------------------------
(* The handler.                                                              *)

Times(d) == {d[f].mtime : f \in There(d)}
Bytes(d) == MapThenSumSet(LAMBDA f : d[f].size, There(d))

(* Mistake: the times are left out.                                          *)
SizesOnly(seen) == <<{}, Bytes(seen)>>
(* saveDirSignature, which visits the files one by one: what it sees of a    *)
(* change made meanwhile is what it would see before or after it.  The sum   *)
(* of the times is here the set of them: sums of nanoseconds tell sets of    *)
(* times apart but for odd accidents.                                        *)
Signature(seen) == <<Times(seen), Bytes(seen)>>

(* What the signature's walk sees of the disk: an error skips the file.      *)
Sights ==
  {disk} \cup {[f \in Paths |-> IF f \in seen THEN disk[f] ELSE None] :
                 seen \in (IF "sign" \in Faults THEN SUBSET Paths ELSE {})}

SignBefore ==
  /\ pc = "start"
  /\ \E seen \in Sights : before' = Signature(seen) /\ blind' = (seen # disk)
  /\ first' = disk /\ since' = changes /\ kinds' = {}
  /\ pc' = "check"
  /\ UNCHANGED <<disk, changes, root, listed, header, torn, archive, answer,
                 failed>>

(* hasAnyContent, which takes a directory it cannot read for an empty one.   *)
CheckContent ==
  /\ pc = "check"
  /\ \/ pc' = (IF disk = Empty THEN "sign" ELSE "list") /\ UNCHANGED failed
     \/ "list" \in Faults /\ pc' = "sign" /\ failed' = There(disk)
  /\ UNCHANGED <<disk, changes, root, listed, header, torn, archive, before,
                 answer, begun, blind>>

(* WalkDir reads a directory before it visits its files, in their order.     *)
Listed == {f \in Roots[root] : Present(f)}
Visited == CHOOSE f \in listed : \A g \in listed : f <= g

List ==
  /\ pc = "list"
  /\ IF root > Len(Roots) THEN pc' = "sign" /\ UNCHANGED listed
     ELSE pc' = "visit" /\ listed' = Listed
  /\ UNCHANGED <<disk, changes, root, header, torn, archive, before, answer,
                 history>>

(* An error of the walk is logged, and the next directory follows.           *)
EndWalk == pc' = "list" /\ root' = root + 1
FailsAt(lost) == EndWalk /\ failed' = failed \cup lost

(* The directory is there and cannot be read.                                *)
ListFails ==
  /\ pc = "list" /\ root <= Len(Roots) /\ "list" \in Faults
  /\ FailsAt(Listed)
  /\ UNCHANGED <<disk, changes, listed, header, torn, archive, before, answer,
                 begun, blind>>

VisitDone ==
  /\ pc = "visit" /\ listed = {}
  /\ EndWalk
  /\ UNCHANGED <<disk, changes, listed, header, torn, archive, before, answer,
                 history>>

(* d.Info, FileInfoHeader and tw.WriteHeader, which fails for good once the  *)
(* bytes of a header are missing.                                            *)
WriteHeader ==
  /\ pc = "visit" /\ listed # {}
  /\ IF ~Present(Visited) \/ torn THEN EndWalk /\ UNCHANGED header
     ELSE pc' = "copy" /\ header' = disk[Visited] /\ UNCHANGED root
  /\ UNCHANGED <<disk, changes, listed, torn, archive, before, answer,
                 history>>

(* Of a file that is there: a socket has no header, for one.                 *)
HeaderFails ==
  /\ pc = "visit" /\ listed # {} /\ "header" \in Faults
  /\ Present(Visited) /\ FailsAt({Visited})
  /\ UNCHANGED <<disk, changes, listed, header, torn, archive, before, answer,
                 begun, blind>>

(* os.Open and io.Copy: a file that went away or shrank leaves the archive   *)
(* short, one that grew is cut at the size in its header.                    *)
Short(f) == ~Present(f) \/ disk[f].size < header.size
Copied(f) == [mtime |-> disk[f].mtime, size |-> header.size]

Copy ==
  /\ pc = "copy"
  /\ LET f == Visited
         fits == Present(f) /\ disk[f].size = header.size
     IN /\ torn' = Short(f)
        /\ archive' = [archive EXCEPT ![f] = IF Short(f) THEN None ELSE Copied(f)]
        /\ IF fits THEN pc' = "visit" /\ UNCHANGED root ELSE EndWalk
        /\ listed' = IF fits THEN listed \ {f} ELSE listed
  /\ UNCHANGED <<disk, changes, header, before, answer, history>>

(* A file that is there cannot be opened, or a read fails before or after    *)
(* its last byte.                                                            *)
CopyFails ==
  /\ pc = "copy" /\ "copy" \in Faults
  /\ Present(Visited) /\ FailsAt({Visited})
  /\ \/ torn' = TRUE /\ UNCHANGED archive
     \/ /\ ~Short(Visited) /\ UNCHANGED torn
        /\ archive' = [archive EXCEPT ![Visited] = Copied(Visited)]
  /\ UNCHANGED <<disk, changes, listed, header, before, answer, begun, blind>>

SignAfter ==
  /\ pc = "sign"
  /\ \E seen \in Sights :
       answer' = (before = Signature(seen)) /\ blind' = (blind \/ seen # disk)
  /\ pc' = "done"
  /\ UNCHANGED <<disk, changes, root, listed, header, torn, archive, before,
                 begun, failed>>

Next == \/ GameWrites \/ GameCreates \/ GameRemoves \/ GameRenames
        \/ SignBefore \/ CheckContent \/ List \/ ListFails \/ VisitDone
        \/ WriteHeader \/ HeaderFails \/ Copy \/ CopyFails \/ SignAfter

Spec == Init /\ [][Next]_vars

-----------------------------------------------------------------------------

(* Changes that the two sums cannot balance: no rename, and not both a file  *)
(* made and a file removed.                                                  *)
Telling == {{"write", "create"}, {"write", "remove"}}

(* If the trailer says "true" the archive holds the files as they were when  *)
(* the snapshot began, all of them, as long as the game's changes are of the *)
(* kinds that the sums can tell and no call fails for a file that is there,  *)
(* which the sums do not tell either (manager.go:457-460, 475-488).          *)
TrueIsFaithful ==
  /\ pc = "done" /\ answer = TRUE
  /\ failed = {} /\ ~blind
  /\ \E t \in Telling : kinds \subseteq t
  => archive = first

(* What a failing call may cost: what comes after it in its directory, and   *)
(* config/ after data/ if the tar writer is stuck.                           *)
SameRoot(f, g) == \E r \in DOMAIN Roots : {f, g} \subseteq Roots[r]
Lost(f) == \E g \in failed : g <= f /\ (torn \/ SameRoot(f, g))

(* While the game leaves its files alone, whatever it did before, the        *)
(* archive holds every file as it is, but for those that a failing call      *)
(* cost, and the trailer says "true", of these too: what the export relies   *)
(* on, and no false alarm (manager.go:336-389, 475-488).                     *)
QuietIsFaithful ==
  pc = "done" /\ changes = since =>
    /\ ~blind => answer = TRUE
    /\ \A f \in Paths : \/ archive[f] = first[f]
                        \/ archive[f] = None /\ Lost(f)

=============================================================================
