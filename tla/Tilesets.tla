------------------------------ MODULE Tilesets ------------------------------
(***************************************************************************)
(* The tilesets of one user: the files in its tileset directory, the        *)
(* selection in its row of the users table, and what a game makes of both   *)
(* when its container starts (df-image-sdl/apply-tilesets.sh).              *)
(*                                                                         *)
(* The handlers of tilesets.go take no lock: each call to the file system   *)
(* or the store is one step, and the steps of two requests interleave.      *)
(***************************************************************************)
EXTENDS Integers, FiniteSets

CONSTANTS
  Names,        \* the file names that tilesetNameRe accepts
  Lower,        \* those that end in .png, not .PNG
  None,         \* no tileset: "" in the code
  Default,      \* the font baked into the image
  Requests,     \* the requests that can be in flight together
  Ops,          \* what they ask for
  MaxCount,     \* maxTilesetCount, 20 in the code
  Faults,       \* the operations that may fail
  MaxServed,    \* bound on the requests served
  MaxCrashes    \* bound on the crashes of the session manager

AllOps == {"upload", "set", "clear", "delete"}
Fallible == {"stat", "list", "write", "rename", "remove", "store", "copy",
             "sed"}

ASSUME NamesAssumption ==
  /\ None \notin Names /\ Default \notin Names /\ None # Default
  /\ Lower \subseteq Names
ASSUME OpsAssumption == Ops \subseteq AllOps /\ Faults \subseteq Fallible
ASSUME RequestsAssumption == IsFiniteSet(Requests) /\ Requests # {}
ASSUME BoundsAssumption ==
  MaxCount \in Nat /\ MaxServed \in Nat /\ MaxCrashes \in Nat

VARIABLES
  files,    \* the tilesets in the directory
  temps,    \* the .upload-* files in the directory
  active,   \* active_tileset in the row
  init,     \* the font in the player's init.txt, None before the first game
  game,     \* the container: off, starting or on
  asked,    \* its DF_ACTIVE_TILESET
  art,      \* the player's tilesets in its data/art
  font,     \* the font the game looks for
  pc,       \* where each request is
  name,     \* the tileset it is about
  tmpPath,  \* the number of its temporary file, 0 while it has none
  served,   \* how many requests were begun
  crashes,  \* how often the session manager crashed
  deleted,  \* history: the tilesets deleted and not uploaded again
  stray,    \* history: the temps that a crash or a failing removal left
  unchecked,\* history: the uploads let pass without a count
  calm      \* history: no selection beside a delete of the same tileset, no
            \* crash, no failing store

disk == <<files, temps>>
container == <<init, game, asked, art, font>>
history == <<deleted, stray, unchecked, calm>>
vars == <<disk, active, container, pc, name, tmpPath, served, crashes, history>>

Init ==
  /\ files = {} /\ temps = {} /\ active = None
  /\ init = None /\ game = "off" /\ asked = None /\ art = {} /\ font = Default
  /\ pc = [p \in Requests |-> "idle"]
  /\ name = [p \in Requests |-> None]
  /\ tmpPath = [p \in Requests |-> 0]
  /\ served = 0 /\ crashes = 0
  /\ deleted = {} /\ stray = {} /\ unchecked = 0 /\ calm = TRUE

Fails(op) == op \in Faults
Goto(p, l) == pc' = [pc EXCEPT ![p] = l]
(* A step of a request: it only tells the ones named from the rest.          *)
From(p, l) == pc[p] = l /\ UNCHANGED <<container, name, served, crashes>>
NoTemp == UNCHANGED <<temps, tmpPath, stray>>

FirstStep(op) == CASE op = "upload" -> "stat" [] op = "set" -> "find"
                   [] op = "clear" -> "store" [] op = "delete" -> "remove"

(* The requests that select a tileset, and those that delete one.            *)
Selecting == {p \in Requests : pc[p] \in {"find", "store"}}
Deleting == {p \in Requests : pc[p] \in {"remove", "lookup", "unselect"}}

Begin(p) ==
  /\ pc[p] = "idle" /\ served < MaxServed
  /\ \E op \in Ops, n \in Names :
       /\ Goto(p, FirstStep(op))
       /\ name' = [name EXCEPT ![p] = IF op = "clear" THEN None ELSE n]
       /\ calm' = (/\ calm
                   /\ op = "set" => \A q \in Deleting : name[q] # n
                   /\ op = "delete" => \A q \in Selecting : name[q] # n)
  /\ served' = served + 1
  /\ UNCHANGED <<disk, active, container, tmpPath, crashes, deleted, stray,
                 unchecked>>

-----------------------------------------------------------------------------
(* handleTilesetUpload                                                       *)

(* Mistake: the file is not looked for.                                      *)
FoundAny(n) == TRUE
Found(n) == n \in files

(* Mistake: one too many.                                                    *)
PastCount == Cardinality(files) > MaxCount
AtCount == Cardinality(files) >= MaxCount

(* An upload that overwrites a tileset is not counted, and neither is one    *)
(* whose target cannot be looked at.                                         *)
StatTarget(p) ==
  /\ From(p, "stat") /\ NoTemp
  /\ \/ /\ Goto(p, IF Found(name[p]) THEN "create" ELSE "count")
        /\ UNCHANGED unchecked
     \/ Fails("stat") /\ Goto(p, "create") /\ unchecked' = unchecked + 1
  /\ UNCHANGED <<files, active, deleted, calm>>

CountTilesets(p) ==
  /\ From(p, "count") /\ NoTemp
  /\ Goto(p, IF AtCount THEN "idle" ELSE "create")
  /\ UNCHANGED <<files, active, deleted, unchecked, calm>>

(* A listing that fails, or misses a file, lets the upload pass.             *)
CountFails(p) ==
  /\ From(p, "count") /\ Fails("list") /\ NoTemp
  /\ unchecked' = unchecked + 1
  /\ Goto(p, "create") /\ UNCHANGED <<files, active, deleted, calm>>

(* No PNG, or no temporary file can be made.                                 *)
NotPNG(p) ==
  /\ From(p, "create") /\ NoTemp
  /\ Goto(p, "idle") /\ UNCHANGED <<files, active, deleted, unchecked, calm>>

(* os.CreateTemp finds a name of its own.                                    *)
Temp(p) == <<p, tmpPath[p]>>

CreateTemp(p) ==
  /\ From(p, "create")
  /\ tmpPath' = [tmpPath EXCEPT ![p] = served]
  /\ temps' = temps \cup {<<p, served>>}
  /\ Goto(p, "write")
  /\ UNCHANGED <<files, active, deleted, stray, unchecked, calm>>

(* The request ends, and with it what it knows of its temporary file.        *)
Ends(p) == Goto(p, "idle") /\ tmpPath' = [tmpPath EXCEPT ![p] = 0]

(* Mistake: the temporary file stays when the upload fails.                  *)
LeftBehind(p) == UNCHANGED <<temps, stray>>
(* cleanup, whose error is dropped.                                          *)
CleanedUp(p) ==
  \/ temps' = temps \ {Temp(p)} /\ UNCHANGED stray
  \/ Fails("remove") /\ UNCHANGED temps /\ stray' = stray \cup {Temp(p)}

WriteTemp(p) ==
  /\ From(p, "write")
  /\ \/ Goto(p, "rename") /\ NoTemp
     \/ Fails("write") /\ Ends(p) /\ CleanedUp(p)
  /\ UNCHANGED <<files, active, deleted, unchecked, calm>>

RenameTemp(p) ==
  /\ From(p, "rename")
  /\ files' = files \cup {name[p]} /\ temps' = temps \ {Temp(p)}
  /\ deleted' = deleted \ {name[p]}
  /\ Ends(p) /\ UNCHANGED <<active, stray, unchecked, calm>>

RenameFails(p) ==
  /\ From(p, "rename") /\ Fails("rename")
  /\ Ends(p) /\ CleanedUp(p)
  /\ UNCHANGED <<files, active, deleted, unchecked, calm>>

-----------------------------------------------------------------------------
(* handleTilesetSetActive; clearing starts at Store with no name.            *)

StoreFails == Fails("store") /\ calm' = FALSE /\ UNCHANGED active

FindTileset(p) ==
  /\ From(p, "find") /\ NoTemp
  /\ \/ Goto(p, IF Found(name[p]) THEN "store" ELSE "idle")
     \/ Fails("stat") /\ Goto(p, "idle")
  /\ UNCHANGED <<files, active, deleted, unchecked, calm>>

Store(p) ==
  /\ From(p, "store") /\ NoTemp
  /\ \/ active' = name[p] /\ UNCHANGED calm
     \/ StoreFails
  /\ Goto(p, "idle") /\ UNCHANGED <<files, deleted, unchecked>>

-----------------------------------------------------------------------------
(* handleTilesetDelete                                                       *)

RemoveTileset(p) ==
  /\ From(p, "remove") /\ NoTemp
  /\ files' = files \ {name[p]}
  /\ deleted' = deleted \cup (files \cap {name[p]})
  /\ Goto(p, IF Found(name[p]) THEN "lookup" ELSE "idle")
  /\ UNCHANGED <<active, unchecked, calm>>

RemoveFails(p) ==
  /\ From(p, "remove") /\ Fails("remove") /\ NoTemp
  /\ Goto(p, "idle") /\ UNCHANGED <<files, active, deleted, unchecked, calm>>

(* Mistake: the selection is cleared when it is another one.                 *)
SelectsOther(n) == active # n
Selects(n) == active = n

(* A user whose row cannot be read selects nothing.                          *)
LookUp(p) ==
  /\ From(p, "lookup") /\ NoTemp
  /\ \/ /\ Goto(p, IF Selects(name[p]) THEN "unselect" ELSE "idle")
        /\ UNCHANGED calm
     \/ Fails("store") /\ Goto(p, "idle") /\ calm' = FALSE
  /\ UNCHANGED <<files, active, deleted, unchecked>>

Unselect(p) ==
  /\ From(p, "unselect") /\ NoTemp
  /\ \/ active' = None /\ UNCHANGED calm
     \/ StoreFails
  /\ Goto(p, "idle") /\ UNCHANGED <<files, deleted, unchecked>>

-----------------------------------------------------------------------------
(* The container.  ensureContainer reads the selection, and a moment later   *)
(* the container copies the tilesets and writes the selection into init.txt. *)

manager == <<disk, active, pc, name, tmpPath, served, crashes, history>>

Spawn ==
  /\ game = "off"
  /\ game' = "starting"
  /\ asked' = active \/ (Fails("store") /\ asked' = None)
  /\ UNCHANGED <<manager, init, art, font>>

(* Without a selection init.txt stays as it is; the first game writes it     *)
(* from the image's template, which was patched in its place.                *)
OldFont == IF init # None THEN init ELSE Default
PatchedFont == IF asked # None THEN asked ELSE OldFont

(* cp finds the names its pattern *.png matches.  init stands for any one of *)
(* the four tokens, each of which has a sed of its own.                      *)
ApplyTilesets ==
  /\ game = "starting"
  /\ game' = "on"
  /\ \E copied \in SUBSET (files \cap Lower) :
       /\ copied = files \cap Lower \/ Fails("copy")
       /\ art' = copied
  /\ init' = PatchedFont \/ (Fails("sed") /\ init' = OldFont)
  /\ font' = init'
  /\ UNCHANGED <<manager, asked>>

GameEnds ==
  /\ game # "off"
  /\ game' = "off" /\ asked' = None /\ art' = {} /\ font' = Default
  /\ UNCHANGED <<manager, init>>

Crash ==
  /\ crashes < MaxCrashes
  /\ crashes' = crashes + 1 /\ calm' = FALSE /\ stray' = temps
  /\ pc' = [p \in Requests |-> "idle"] /\ name' = [p \in Requests |-> None]
  /\ tmpPath' = [p \in Requests |-> 0]
  /\ UNCHANGED <<disk, active, container, served, deleted, unchecked>>

Step(p) == \/ Begin(p) \/ StatTarget(p) \/ CountTilesets(p) \/ CountFails(p)
           \/ NotPNG(p) \/ CreateTemp(p) \/ WriteTemp(p) \/ RenameTemp(p)
           \/ RenameFails(p) \/ FindTileset(p) \/ Store(p) \/ RemoveTileset(p)
           \/ RemoveFails(p) \/ LookUp(p) \/ Unselect(p)

Next == \/ Spawn \/ ApplyTilesets \/ GameEnds \/ Crash
        \/ \E p \in Requests : Step(p)

Spec == Init /\ [][Next]_vars

-----------------------------------------------------------------------------
Uploading == {"create", "write", "rename"}
Labels == {"idle", "stat", "count", "find", "store", "remove", "lookup",
           "unselect"} \cup Uploading

(* Every variable has its type.                                              *)
TypeOK ==
  /\ files \in SUBSET Names /\ temps \in SUBSET (Requests \X (0..MaxServed))
  /\ active \in Names \cup {None}
  /\ init \in Names \cup {None, Default} /\ game \in {"off", "starting", "on"}
  /\ asked \in Names \cup {None} /\ art \in SUBSET Names
  /\ font \in Names \cup {Default}
  /\ pc \in [Requests -> Labels] /\ name \in [Requests -> Names \cup {None}]
  /\ tmpPath \in [Requests -> 0..MaxServed]
  /\ served \in 0..MaxServed /\ crashes \in 0..MaxCrashes
  /\ deleted \in SUBSET Names /\ stray \in SUBSET temps
  /\ unchecked \in Nat /\ calm \in BOOLEAN

(* Uploads that passed the check together, or that found a tileset to        *)
(* overwrite which was then deleted, can exceed the limit by one each at     *)
(* most, and later uploads never add to the excess but when the target or    *)
(* the directory cannot be read (tilesets.go:128-137).                       *)
ExcessBounded ==
  Cardinality(files) <= MaxCount + Cardinality(Requests) - 1 + unchecked

(* The temporary files are those of uploads in progress, whatever fails, and *)
(* those that a crash left or that could not be removed                      *)
(* (tilesets.go:151-182).                                                    *)
TempsAreInUse ==
  temps = stray \cup {Temp(p) : p \in {q \in Requests : pc[q] \in {"write", "rename"}}}

(* The selected tileset is in the directory, or its delete is about to clear *)
(* the selection, whatever runs beside it, as long as no tileset is selected *)
(* and deleted at the same time, the store works and the manager stays up    *)
(* (tilesets.go:238-242, 268-273).                                           *)
ActiveExists ==
  calm => active \in files \cup {None} \/
            \E p \in Requests :
              pc[p] \in {"lookup", "unselect"} /\ name[p] = active

(* The font a game looks for is one it has, as long as it was not deleted    *)
(* without another upload and its name is one that the script copies and     *)
(* copying works: a tileset was there when it was selected, uploads replace  *)
(* it in one rename, and what init.txt names was selected once               *)
(* (apply-tilesets.sh:15-36).                                                *)
FontPresent ==
  [][/\ game = "starting" /\ game' = "on"
     /\ files \cap Lower \subseteq art' /\ font' \in Lower \cup {Default}
     => font' \in art' \cup {Default} \cup deleted]_vars

=============================================================================
