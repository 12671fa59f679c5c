----------------------------- MODULE SaveImport -----------------------------
(***************************************************************************)
(* handleAccountImport after its gate: concurrent imports of save archives  *)
(* into the save directory of one user.  Nothing locks that directory; a    *)
(* step here is one operation on the file system, and the steps of two      *)
(* requests interleave.                                                     *)
(*                                                                         *)
(* A save directory has a slot for each region and one for each save that   *)
(* keeps its own name (current, autosave 1, ...).  A save is its origin, its *)
(* number in the archive, whether it was handed over to the game's uid, and  *)
(* whether all of it is there.                                              *)
(***************************************************************************)
EXTENDS ArchiveUnpack

CONSTANTS
  Imports,    \* the requests
  Player,     \* the origin of the saves that were there before
  None,       \* no save, no answer
  Slots,      \* the highest region number, 9999 in the code
  Faults,     \* the operations that may fail
  MaxCrashes  \* bound on the crashes of the session manager

Fallible == {"upload", "list", "clear", "rename", "chown", "rollback"}

ASSUME OriginsAssumption == Player \notin Imports
ASSUME SlotsAssumption == Slots \in Nat
ASSUME FaultsAssumption == Faults \subseteq Fallible
ASSUME MaxCrashesAssumption == MaxCrashes \in Nat

VARIABLES
  saves,      \* the user's save directory
  staged,     \* the saves left in each staging directory
  pc,         \* where each request is
  archive,    \* the save folders of its archive
  next,       \* the one it installs
  target,     \* the slot it installs it in
  installed,  \* the slots it has filled, in the order of the archive
  answer,     \* what it answered
  crashes,    \* how often the session manager crashed
  mine        \* history: the regions the player had at the start

vars == <<saves, staged, pc, archive, next, target, installed, answer,
          crashes, mine>>

Regions == [region : {TRUE}, nr : 1..Slots]
Named == (UNION {{a[n] : n \in DOMAIN a} : a \in Readings}) \ {AnyRegion}
Places == Regions \cup Named
Own == [of |-> Player, nr |-> 0, owned |-> TRUE, whole |-> TRUE]
New(p, k, owned) == [of |-> p, nr |-> k, owned |-> owned, whole |-> TRUE]
Save ==
  [of : Imports \cup {Player}, nr : Nat, owned : BOOLEAN, whole : BOOLEAN]

ASSUME NoneAssumption == None \notin Save \cup {"ok", "failed", "stuck"}

Init ==
  /\ mine \in SUBSET Regions
  /\ \E named \in SUBSET Named :
       saves = [t \in Places |-> IF t \in mine \cup named THEN Own ELSE None]
  /\ staged = [p \in Imports |-> {}]
  /\ pc = [p \in Imports |-> "start"]
  /\ archive = [p \in Imports |-> <<>>]
  /\ next = [p \in Imports |-> 1]
  /\ target = [p \in Imports |-> AnyRegion]
  /\ installed = [p \in Imports |-> <<>>]
  /\ answer = [p \in Imports |-> None]
  /\ crashes = 0

(* Mistake: one staging directory for all the requests of a user.            *)
SharedStaging(p) == CHOOSE q \in Imports : TRUE
(* os.MkdirTemp(userRoot, ".import-")                                        *)
StagingOf(p) == p

Goto(p, l) == pc' = [pc EXCEPT ![p] = l]
FailAs(p, a) == Goto(p, "cleanup") /\ answer' = [answer EXCEPT ![p] = a]
Fail(p) == FailAs(p, "failed")
Fails(op) == op \in Faults

-----------------------------------------------------------------------------
(* The upload is stored, unpacked and searched for saves in its own staging  *)
(* directory, and the user's directories are made.  An archive that is       *)
(* refused or has no saves ends the import, and any operation may fail.      *)

Stage(p) ==
  /\ pc[p] = "start"
  /\ \E a \in Readings \ {<<>>} :
       /\ archive' = [archive EXCEPT ![p] = a]
       /\ staged' = [staged EXCEPT ![StagingOf(p)] = DOMAIN a]
  /\ Goto(p, "pick")
  /\ UNCHANGED <<saves, next, target, installed, answer, crashes, mine>>

StageFails(p) ==
  /\ pc[p] = "start" /\ (Fails("upload") \/ <<>> \in Readings)
  /\ staged' = [staged EXCEPT ![StagingOf(p)] = {}]
  /\ Fail(p)
  /\ UNCHANGED <<saves, archive, next, target, installed, crashes, mine>>

-----------------------------------------------------------------------------
(* The loop over the save folders of the archive.                            *)

Free == {t \in Regions : saves[t] = None}

(* Mistake: the regions counted instead of looking for a gap.                *)
NextByCount == {t \in Regions : t.nr = Cardinality(Regions \ Free) + 1}
(* nextFreeRegion: the lowest number not in use, if there is one.            *)
NextFree == {t \in Free : \A s \in Free : t.nr <= s.nr}

More(p) == next[p] <= Len(archive[p])

PickRegion(p) ==
  /\ pc[p] = "pick" /\ More(p) /\ archive[p][next[p]] = AnyRegion
  /\ \E t \in NextFree : target' = [target EXCEPT ![p] = t]
  /\ Goto(p, "clear")
  /\ UNCHANGED <<saves, staged, archive, next, installed, answer, crashes, mine>>

NoFreeRegion(p) ==
  /\ pc[p] = "pick" /\ More(p) /\ archive[p][next[p]] = AnyRegion
  /\ Fails("list") \/ NextFree = {}
  /\ Fail(p)
  /\ UNCHANGED <<saves, staged, archive, next, target, installed, crashes, mine>>

KeepName(p) ==
  /\ pc[p] = "pick" /\ More(p) /\ archive[p][next[p]] # AnyRegion
  /\ target' = [target EXCEPT ![p] = archive[p][next[p]]]
  /\ Goto(p, "clear")
  /\ UNCHANGED <<saves, staged, archive, next, installed, answer, crashes, mine>>

(* os.RemoveAll(targetPath) takes away a save bit by bit, here and in the    *)
(* rollback, and may stop there.                                             *)
Removes(p) ==
  /\ pc[p] \in {"clear", "rollback"}
  /\ saves[target[p]] # None /\ saves[target[p]].whole
  /\ saves' = [saves EXCEPT ![target[p]].whole = FALSE]
  /\ UNCHANGED <<staged, pc, archive, next, target, installed, answer, crashes,
                 mine>>

Clear(p) ==
  /\ pc[p] = "clear"
  /\ saves' = [saves EXCEPT ![target[p]] = None]
  /\ Goto(p, "rename")
  /\ UNCHANGED <<staged, archive, next, target, installed, answer, crashes, mine>>

ClearFails(p) ==
  /\ pc[p] = "clear" /\ Fails("clear")
  /\ Fail(p)
  /\ UNCHANGED <<saves, staged, archive, next, target, installed, crashes, mine>>

(* os.Rename wants a source, and nothing in its way.                         *)
CanRename(p) == next[p] \in staged[StagingOf(p)] /\ saves[target[p]] = None

Rename(p) ==
  /\ pc[p] = "rename" /\ CanRename(p)
  /\ saves' = [saves EXCEPT ![target[p]] = New(p, next[p], FALSE)]
  /\ staged' = [staged EXCEPT ![StagingOf(p)] = @ \ {next[p]}]
  /\ Goto(p, "chown")
  /\ UNCHANGED <<archive, next, target, installed, answer, crashes, mine>>

RenameFails(p) ==
  /\ pc[p] = "rename" /\ (Fails("rename") \/ ~CanRename(p))
  /\ Fail(p)
  /\ UNCHANGED <<saves, staged, archive, next, target, installed, crashes, mine>>

Intact(p) == saves[target[p]] # None /\ saves[target[p]].whole

(* chownTree walks whatever has the target's name by now; it fails when that *)
(* is being taken away.                                                      *)
Chown(p) ==
  /\ pc[p] = "chown" /\ saves[target[p]] # None
  /\ saves' = [saves EXCEPT ![target[p]].owned = TRUE]
  /\ installed' = [installed EXCEPT ![p] = Append(@, target[p])]
  /\ next' = [next EXCEPT ![p] = @ + 1]
  /\ Goto(p, "pick")
  /\ UNCHANGED <<staged, archive, target, answer, crashes, mine>>

(* Mistake: the save stays where it is when it could not be handed over.     *)
NoRollback(p) == Fail(p) /\ UNCHANGED saves
OnChownError(p) == Goto(p, "rollback") /\ UNCHANGED <<saves, answer>>

ChownFails(p) ==
  /\ pc[p] = "chown" /\ (Fails("chown") \/ ~Intact(p))
  /\ OnChownError(p)
  /\ UNCHANGED <<staged, archive, next, target, installed, crashes, mine>>

(* The client is not told when the rollback fails, too; "stuck" records it.  *)
Rollback(p) ==
  /\ pc[p] = "rollback"
  /\ \/ saves' = [saves EXCEPT ![target[p]] = None] /\ Fail(p)
     \/ Fails("rollback") /\ UNCHANGED saves /\ FailAs(p, "stuck")
  /\ UNCHANGED <<staged, archive, next, target, installed, crashes, mine>>

Succeed(p) ==
  /\ pc[p] = "pick" /\ ~More(p)
  /\ answer' = [answer EXCEPT ![p] = "ok"]
  /\ Goto(p, "cleanup")
  /\ UNCHANGED <<saves, staged, archive, next, target, installed, crashes, mine>>

(* defer os.RemoveAll(stagingDir)                                            *)
Cleanup(p) ==
  /\ pc[p] = "cleanup"
  /\ staged' = [staged EXCEPT ![StagingOf(p)] = {}]
  /\ Goto(p, "done")
  /\ UNCHANGED <<saves, archive, next, target, installed, answer, crashes, mine>>

-----------------------------------------------------------------------------
(* The session manager dies: the requests are gone, the files stay.          *)
Crash ==
  /\ crashes < MaxCrashes
  /\ crashes' = crashes + 1
  /\ pc' = [p \in Imports |-> IF pc[p] = "start" THEN "start" ELSE "done"]
  /\ UNCHANGED <<saves, staged, archive, next, target, installed, answer, mine>>

Step(p) == \/ Stage(p) \/ StageFails(p) \/ PickRegion(p) \/ NoFreeRegion(p)
           \/ KeepName(p) \/ Removes(p) \/ Clear(p) \/ ClearFails(p)
           \/ Rename(p) \/ RenameFails(p) \/ Chown(p) \/ ChownFails(p)
           \/ Rollback(p) \/ Succeed(p) \/ Cleanup(p)

Next == Crash \/ \E p \in Imports : Step(p)

Spec == Init /\ [][Next]_vars

-----------------------------------------------------------------------------
(* Every variable has its type.                                              *)
TypeOK ==
  /\ saves \in [Places -> Save \cup {None}]
  /\ staged \in [Imports -> SUBSET Nat]
  /\ pc \in [Imports -> {"start", "pick", "clear", "rename", "chown",
                         "rollback", "cleanup", "done"}]
  /\ archive \in [Imports -> Readings \cup {<<>>}]
  /\ next \in [Imports -> Nat] /\ target \in [Imports -> Places \cup {AnyRegion}]
  /\ installed \in [Imports -> Seq(Places \cup {AnyRegion})]
  /\ answer \in [Imports -> {None, "ok", "failed", "stuck"}]
  /\ crashes \in 0..MaxCrashes /\ mine \in SUBSET Regions

(* Whatever archive an import has read, it was unpacked as it was packed or  *)
(* refused for a cause, and its saves are the first ones in it               *)
(* (saves_import.go:286-306, 375-523).                                       *)
AllReadRightly == \A u \in Uploads : ReadRightly(u)
UploadsReadRightly == \A p \in Imports : pc[p] # "start" => AllReadRightly

(* No import ever removes or replaces a region the player had: it takes free *)
(* slots only, and cleaning up after a failure stays inside them             *)
(* (saves_import.go:235-268).                                                *)
PlayerRegionsKept == \A t \in mine : saves[t] = Own

(* While an import has saves to install, they are in its staging directory:  *)
(* no other request's cleanup takes them away (saves_import.go:93-109).      *)
SourcesStayStaged ==
  \A p \in Imports : pc[p] \in {"pick", "clear", "rename"} =>
    next[p]..Len(archive[p]) \subseteq staged[StagingOf(p)]

(* A save the game cannot write to, because it was not handed over, is one   *)
(* that an import still works on, unless its rollback failed as well or the  *)
(* manager crashed (saves_import.go:262-269).                                *)
InstalledAreOwned ==
  crashes = 0 =>
    \A t \in Places : saves[t] # None /\ ~saves[t].owned =>
      \E p \in Imports :
        target[p] = t /\ (pc[p] \in {"chown", "rollback"} \/ answer[p] = "stuck")

(* An import that answers "ok" while no other has begun has put each of its  *)
(* saves into the slot it names, and nothing else is there                   *)
(* (saves_import.go:270-279).                                                *)
AnswerIsTrue ==
  [][\A p \in Imports :
       Succeed(p) /\ (\A q \in Imports \ {p} : pc[q] = "start") =>
         \A k \in DOMAIN archive[p] :
           saves[installed[p][k]] = New(p, k, TRUE)]_vars
=============================================================================
