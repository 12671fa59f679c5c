-------------------------- MODULE Tilesets_proofs ---------------------------
(***************************************************************************)
(* For any tilesets, any limit and any number of requests at once, whatever *)
(* fails or crashes: Tilesets is type correct, the excess over the limit is *)
(* bounded, no temporary file leaks unnoticed, the selection is there if no  *)
(* tileset is selected and deleted at once, and a game has the font it looks *)
(* for unless that was deleted or could not be copied.                       *)
(***************************************************************************)
EXTENDS Tilesets, FiniteSetTheorems, TLAPS

(* A request that is about a file names one.                                 *)
Named == \A p \in Requests : pc[p] \notin {"idle", "store"} => name[p] \in Names

(* A temporary file in progress is there, is none of those left behind, and  *)
(* an upload that has none yet will get a number of its own.                 *)
TempsAreOwn ==
  \A p \in Requests :
    /\ pc[p] \in {"write", "rename"} => Temp(p) \in temps \ stray
    /\ pc[p] \in {"stat", "count", "create"} =>
         \A t \in temps : t[1] = p => t[2] < served

-----------------------------------------------------------------------------
(* Types.                                                                    *)

LEMMA InitType == Init => TypeOK
BY NamesAssumption, BoundsAssumption DEF Init, TypeOK, Labels

(* The container and the crash keep the types.                               *)
LEMMA ContainerType ==
  ASSUME TypeOK, Spawn \/ ApplyTilesets \/ GameEnds \/ Crash
  PROVE  TypeOK'
<1> USE DEF TypeOK, disk, container, history, manager
<1>1. CASE Spawn
  BY <1>1 DEF Spawn
<1>2. CASE ApplyTilesets
  <2>1. /\ PatchedFont \in Names \cup {Default} /\ OldFont \in Names \cup {Default}
        /\ art' \in SUBSET Names
    BY <1>2 DEF PatchedFont, OldFont, ApplyTilesets
  <2> QED BY <1>2, <2>1 DEF ApplyTilesets
<1>3. CASE GameEnds
  BY <1>3 DEF GameEnds
<1>4. CASE Crash
  <2>1. crashes' \in 0..MaxCrashes /\ 0 \in 0..MaxServed
    BY <1>4, BoundsAssumption DEF Crash
  <2> QED BY <1>4, <2>1 DEF Crash, Labels
<1> QED BY <1>1, <1>2, <1>3, <1>4

(* The types of what a step of a request leaves alone.                       *)
LEMMA StepType ==
  ASSUME TypeOK, Named, TempsAreOwn, NEW p \in Requests, Step(p)
  PROVE  TypeOK'
<1>1. CASE Begin(p)
  <2>1. PICK op \in Ops, n \in Names :
          /\ pc' = [pc EXCEPT ![p] = FirstStep(op)]
          /\ name' = [name EXCEPT ![p] = IF op = "clear" THEN None ELSE n]
    BY <1>1 DEF Begin, Goto
  <2>2. FirstStep(op) \in Labels
    BY OpsAssumption DEF FirstStep, AllOps, Labels
  <2>3. served' \in 0..MaxServed /\ calm' \in BOOLEAN
    BY <1>1, BoundsAssumption DEF Begin, TypeOK
  <2>4. pc' \in [Requests -> Labels] /\ name' \in [Requests -> Names \cup {None}]
    BY <2>1, <2>2 DEF TypeOK
  <2> QED BY <1>1, <2>3, <2>4 DEF Begin, TypeOK, disk, container
<1>2. ASSUME NEW l \in Labels, Goto(p, l)
      PROVE  pc' \in [Requests -> Labels]
  BY <1>2 DEF Goto, TypeOK
<1>3. {"idle", "create", "count", "write", "rename", "store", "lookup",
       "unselect"} \subseteq Labels
  BY DEF Labels, Uploading
<1>4. ASSUME Ends(p)
      PROVE  pc' \in [Requests -> Labels] /\ tmpPath' \in [Requests -> 0..MaxServed]
  BY <1>2, <1>3, <1>4, BoundsAssumption DEF Ends, TypeOK
<1> USE DEF From, TypeOK, disk, container, history, NoTemp
<1>5. CASE StatTarget(p) \/ CountTilesets(p) \/ CountFails(p) \/ NotPNG(p)
           \/ FindTileset(p) \/ RemoveFails(p) \/ LookUp(p)
  <2>0. /\ UNCHANGED <<files, active, deleted, temps, tmpPath, stray, container, name,
                      served, crashes>>
    BY <1>5
    DEF StatTarget, CountTilesets, CountFails, NotPNG, FindTileset, RemoveFails, LookUp
  <2>4. unchecked' = unchecked \/ unchecked' = unchecked + 1
    BY <1>5
    DEF StatTarget, CountTilesets, CountFails, NotPNG, FindTileset, RemoveFails, LookUp
  <2>5. calm' = calm \/ calm' = FALSE
    BY <1>5
    DEF StatTarget, CountTilesets, CountFails, NotPNG, FindTileset, RemoveFails, LookUp
  <2>1. unchecked' \in Nat /\ calm' \in BOOLEAN
    <3>1. calm' \in BOOLEAN
      BY ZenonT(30), <2>5 DEF TypeOK
    <3> QED BY <2>4, <3>1 DEF TypeOK
  <2>2. pc' \in [Requests -> Labels]
    BY <1>2, <1>3, <1>5
    DEF StatTarget, CountTilesets, CountFails, NotPNG, FindTileset, RemoveFails, LookUp
  <2> QED BY <2>0, <2>1, <2>2
<1>6. CASE CreateTemp(p)
  <2>1. temps' \in SUBSET (Requests \X (0..MaxServed)) /\ temps \subseteq temps'
    BY <1>6 DEF CreateTemp
  <2>2. tmpPath' \in [Requests -> 0..MaxServed]
    BY <1>6 DEF CreateTemp
  <2> QED BY <1>2, <1>3, <1>6, <2>1, <2>2 DEF CreateTemp
<1>7. ASSUME CleanedUp(p), Temp(p) \in temps, Temp(p) \notin stray
      PROVE  temps' \subseteq temps /\ stray' \subseteq temps'
  BY <1>7 DEF CleanedUp
<1>8. CASE WriteTemp(p) \/ RenameFails(p)
  <2>1. CASE CleanedUp(p) /\ Ends(p)
    <3>1. Temp(p) \in temps /\ Temp(p) \notin stray
      BY <1>8 DEF WriteTemp, RenameFails, TempsAreOwn
    <3> QED BY <1>4, <1>7, <1>8, <2>1, <3>1 DEF WriteTemp, RenameFails
  <2>2. CASE Goto(p, "rename") /\ NoTemp
    BY <1>2, <1>3, <1>8, <2>2 DEF WriteTemp, RenameFails
  <2> QED BY <1>8, <2>1, <2>2 DEF WriteTemp, RenameFails
<1>9. CASE RenameTemp(p)
  <2>1. name[p] \in Names /\ Temp(p) \notin stray
    BY <1>9 DEF RenameTemp, Named, TempsAreOwn
  <2>2. temps' \subseteq temps /\ stray' \subseteq temps'
    BY <1>9, <2>1 DEF RenameTemp
  <2> QED BY <1>4, <1>9, <2>1, <2>2 DEF RenameTemp
<1>10. CASE Store(p) \/ Unselect(p)
  BY <1>2, <1>3, <1>10 DEF Store, Unselect, StoreFails
<1>11. CASE RemoveTileset(p)
  BY <1>2, <1>3, <1>11 DEF RemoveTileset
<1> QED BY <1>1, <1>5, <1>6, <1>8, <1>9, <1>10, <1>11 DEF Step

-----------------------------------------------------------------------------
(* How the requests move.                                                    *)

(* A step of a request that has begun moves it alone, and it stays about the *)
(* same file.                                                                *)
LEMMA Moves ==
  ASSUME TypeOK, NEW p \in Requests, Step(p), ~Begin(p)
  PROVE  /\ UNCHANGED <<container, name, served, crashes>> /\ pc[p] # "idle"
         /\ \A q \in Requests \ {p} : pc'[q] = pc[q]
         /\ pc[p] = "store" => pc'[p] = "idle"
         /\ pc'[p] = "store" => pc[p] = "find"
<1> USE DEF TypeOK, From, Goto, Ends
<1>1. CASE \/ StatTarget(p) \/ CountTilesets(p) \/ CountFails(p) \/ NotPNG(p)
           \/ CreateTemp(p) \/ WriteTemp(p)
  BY <1>1 DEF StatTarget, CountTilesets, CountFails, NotPNG, CreateTemp, WriteTemp
<1>2. CASE RenameTemp(p) \/ RenameFails(p) \/ FindTileset(p) \/ Store(p)
  BY <1>2 DEF RenameTemp, RenameFails, FindTileset, Store
<1>3. CASE RemoveTileset(p) \/ RemoveFails(p) \/ LookUp(p) \/ Unselect(p)
  BY <1>3 DEF RemoveTileset, RemoveFails, LookUp, Unselect
<1> QED BY <1>1, <1>2, <1>3 DEF Step

(* A request begins: it names a file, or clears the selection.               *)
LEMMA Begins ==
  ASSUME TypeOK, NEW p \in Requests, Begin(p)
  PROVE  /\ UNCHANGED <<disk, active, container, tmpPath, crashes, deleted, stray,
                       unchecked>>
         /\ pc[p] = "idle" /\ pc'[p] \in {"stat", "find", "store", "remove"}
         /\ name'[p] \in Names \/ (pc'[p] = "store" /\ name'[p] = None)
         /\ pc'[p] = "store" => name'[p] = None
         /\ \A q \in Requests \ {p} : pc'[q] = pc[q] /\ name'[q] = name[q]
         /\ calm' => calm
         /\ calm' /\ pc'[p] = "find" => \A q \in Deleting : name[q] # name'[p]
         /\ calm' /\ pc'[p] = "remove" => \A q \in Selecting : name[q] # name'[p]
<1>1. PICK op \in Ops, n \in Names :
        /\ pc' = [pc EXCEPT ![p] = FirstStep(op)]
        /\ name' = [name EXCEPT ![p] = IF op = "clear" THEN None ELSE n]
        /\ calm' = (/\ calm
                    /\ op = "set" => \A q \in Deleting : name[q] # n
                    /\ op = "delete" => \A q \in Selecting : name[q] # n)
  BY DEF Begin, Goto
<1>2. /\ FirstStep(op) \in {"stat", "find", "store", "remove"}
      /\ FirstStep(op) = "store" <=> op = "clear"
      /\ FirstStep(op) = "find" <=> op = "set"
      /\ FirstStep(op) = "remove" <=> op = "delete"
  BY OpsAssumption DEF FirstStep, AllOps
<1>3. /\ pc'[p] = FirstStep(op) /\ name'[p] = IF op = "clear" THEN None ELSE n
      /\ \A q \in Requests \ {p} : pc'[q] = pc[q] /\ name'[q] = name[q]
  BY <1>1 DEF TypeOK
<1>4. UNCHANGED <<disk, active, container, tmpPath, crashes, deleted, stray, unchecked>>
      /\ pc[p] = "idle"
  BY DEF Begin
<1>5. calm' => calm
  BY <1>1
<1>6. calm' /\ op = "set" => \A q \in Deleting : name[q] # n
  BY <1>1
<1>7. calm' /\ op = "delete" => \A q \in Selecting : name[q] # n
  BY <1>1
<1> QED BY <1>2, <1>3, <1>4, <1>5, <1>6, <1>7

LEMMA NamedStep == TypeOK /\ Named /\ [Next]_vars => Named'
<1> SUFFICES ASSUME TypeOK, Named, [Next]_vars PROVE Named'
  OBVIOUS
<1>1. CASE UNCHANGED <<pc, name>>
  BY <1>1 DEF Named
<1>2. CASE Spawn \/ ApplyTilesets \/ GameEnds \/ UNCHANGED vars
  BY <1>1, <1>2 DEF Spawn, ApplyTilesets, GameEnds, vars, manager
<1>3. CASE Crash
  BY <1>3 DEF Crash, Named
<1>4. ASSUME NEW p \in Requests, Step(p) PROVE Named'
  <2>1. CASE Begin(p)
    BY <2>1, Begins DEF Named
  <2>2. CASE ~Begin(p)
    BY <1>4, <2>2, Moves DEF Named, TypeOK
  <2> QED BY <2>1, <2>2
<1> QED BY <1>2, <1>3, <1>4 DEF Next

LEMMA TypeStep == TypeOK /\ Named /\ TempsAreOwn /\ [Next]_vars => TypeOK'
<1> SUFFICES ASSUME TypeOK, Named, TempsAreOwn, [Next]_vars PROVE TypeOK'
  OBVIOUS
<1>1. CASE UNCHANGED vars
  BY <1>1 DEF vars, TypeOK, disk, container, history
<1> QED BY <1>1, ContainerType, StepType DEF Next

-----------------------------------------------------------------------------
(* Temporary files.                                                          *)

Writes(p) == pc[p] \in {"write", "rename"}
TempsInv ==
  /\ TempsAreOwn /\ TempsAreInUse
  /\ \A t \in temps : t \in Requests \X (0..MaxServed) /\ t[2] <= served

(* What a step does to the temporary files that leaves the others alone.     *)
LEMMA TempsSame ==
  ASSUME TypeOK, TempsInv, UNCHANGED <<temps, stray, tmpPath>>, served <= served',
         served' \in Nat,
         \A q \in Requests : Writes(q)' <=> Writes(q),
         \A q \in Requests : pc'[q] \in {"stat", "count", "create"} =>
           \/ pc[q] \in {"stat", "count", "create"} \/ served < served'
  PROVE  TempsInv'
<1>1. \A q \in Requests : Temp(q)' = Temp(q)
  BY DEF Temp
<1>2. {q \in Requests : pc'[q] \in {"write", "rename"}}
        = {q \in Requests : pc[q] \in {"write", "rename"}}
  BY DEF Writes
<1>3. TempsAreInUse'
  BY <1>1, <1>2 DEF TempsInv, TempsAreInUse
<1>4. \A t \in temps : t[2] \in Nat
  BY DEF TempsInv
<1>5. TempsAreOwn'
  <2> SUFFICES ASSUME NEW q \in Requests
               PROVE  /\ Writes(q)' => Temp(q) \in temps \ stray
                      /\ pc'[q] \in {"stat", "count", "create"} =>
                           \A t \in temps : t[1] = q => t[2] < served'
    BY <1>1 DEF TempsAreOwn, Writes
  <2>1. Writes(q)' => Temp(q) \in temps \ stray
    BY DEF TempsInv, TempsAreOwn, Writes
  <2>2. ASSUME pc'[q] \in {"stat", "count", "create"}, NEW t \in temps, t[1] = q
        PROVE  t[2] < served'
    <3>1. t[2] \in Nat /\ t[2] <= served /\ served \in Nat
      BY <1>4 DEF TempsInv, TypeOK
    <3>2. CASE pc[q] \in {"stat", "count", "create"}
      <4>1. t[2] < served
        BY <2>2, <3>2 DEF TempsInv, TempsAreOwn
      <4> QED BY <3>1, <4>1
    <3>3. CASE served < served'
      BY <3>1, <3>3
    <3> QED BY <2>2, <3>2, <3>3
  <2> QED BY <2>1, <2>2
<1>6. \A t \in temps' : t \in Requests \X (0..MaxServed) /\ t[2] <= served'
  BY <1>4 DEF TempsInv, TypeOK
<1> QED BY <1>3, <1>5, <1>6 DEF TempsInv

(* The temporary file of an upload is nobody else's.                         *)
LEMMA TempIsOwn ==
  ASSUME NEW p, NEW q, p # q
  PROVE  Temp(p) # Temp(q)
BY DEF Temp

(* An upload makes its temporary file.                                       *)
LEMMA TempMade ==
  ASSUME TypeOK, TempsInv, NEW p \in Requests, CreateTemp(p)
  PROVE  TempsInv'
<1>1. /\ tmpPath' = [tmpPath EXCEPT ![p] = served] /\ temps' = temps \cup {<<p, served>>}
      /\ stray' = stray /\ served' = served /\ pc[p] = "create"
      /\ pc'[p] = "write" /\ \A q \in Requests \ {p} : pc'[q] = pc[q]
      /\ served \in 0..MaxServed
  BY DEF CreateTemp, From, Goto, TypeOK
<1>2. Temp(p)' = <<p, served>> /\ \A q \in Requests \ {p} : Temp(q)' = Temp(q)
  BY <1>1 DEF Temp, TypeOK
<1>3. <<p, served>> \notin temps /\ stray \subseteq temps
  BY <1>1 DEF TempsInv, TempsAreOwn, TypeOK
<1>4. \A q \in Requests : Writes(q)' <=> Writes(q) \/ q = p
  BY <1>1 DEF Writes
<1>5. TempsAreInUse'
  <2>1. temps = stray \cup {Temp(q) : q \in {r \in Requests : Writes(r)}}
    BY DEF TempsInv, TempsAreInUse, Writes
  <2>2. temps' = stray' \cup {Temp(q)' : q \in {r \in Requests : Writes(r)'}}
    <3>1. ASSUME NEW t \in temps' PROVE t \in stray' \/ \E q \in Requests : Writes(q)' /\ t = Temp(q)'
      <4>1. CASE t = <<p, served>>
        BY <1>2, <1>4, <4>1
      <4>2. CASE t \in stray
        BY <1>1, <4>2
      <4>3. ASSUME NEW q \in Requests, Writes(q), t = Temp(q)
            PROVE  Writes(q)' /\ t = Temp(q)'
        BY <1>1, <1>2, <1>4, <4>3 DEF Writes
      <4> QED BY <1>1, <2>1, <4>1, <4>2, <4>3
    <3>2. ASSUME NEW q \in Requests, Writes(q)' PROVE Temp(q)' \in temps'
      BY <1>1, <1>2, <1>4, <2>1, <3>2
    <3>3. stray' \subseteq temps'
      BY <1>1, <1>3
    <3> QED BY <3>1, <3>2, <3>3
  <2> QED BY <2>2 DEF TempsAreInUse, Writes
<1>6. TempsAreOwn'
  <2> SUFFICES ASSUME NEW q \in Requests
               PROVE  /\ Writes(q)' => Temp(q)' \in temps' \ stray'
                      /\ pc'[q] \in {"stat", "count", "create"} =>
                           \A t \in temps' : t[1] = q => t[2] < served'
    BY DEF TempsAreOwn, Writes
  <2>1. CASE q = p
    BY <1>1, <1>2, <1>3, <2>1 DEF Writes
  <2>2. CASE q # p
    BY <1>1, <1>2, <1>4, <2>2 DEF TempsInv, TempsAreOwn, Writes
  <2> QED BY <2>1, <2>2
<1>7. \A t \in temps' : t \in Requests \X (0..MaxServed) /\ t[2] <= served'
  BY <1>1 DEF TempsInv
<1> QED BY <1>5, <1>6, <1>7 DEF TempsInv

(* An upload is over, and its temporary file renamed, removed or left.       *)
LEMMA TempGone ==
  ASSUME TypeOK, TempsInv, NEW p \in Requests, Writes(p), Ends(p), served' = served,
         \/ temps' = temps \ {Temp(p)} /\ stray' = stray
         \/ temps' = temps /\ stray' = stray \cup {Temp(p)}
  PROVE  TempsInv'
<1>1. /\ pc'[p] = "idle" /\ \A q \in Requests \ {p} : pc'[q] = pc[q] /\ tmpPath'[q] = tmpPath[q]
  BY DEF Ends, Goto, TypeOK
<1>2. \A q \in Requests \ {p} : Temp(q)' = Temp(q) /\ Temp(q) # Temp(p)
  BY <1>1, TempIsOwn DEF Temp
<1>3. Temp(p) \in temps /\ Temp(p) \notin stray /\ stray \subseteq temps
  BY DEF TempsInv, TempsAreOwn, Writes, TypeOK
<1>4. \A q \in Requests : Writes(q)' <=> Writes(q) /\ q # p
  BY <1>1 DEF Writes
<1>5. TempsAreInUse'
  <2>1. temps = stray \cup {Temp(q) : q \in {r \in Requests : Writes(r)}}
    BY DEF TempsInv, TempsAreInUse, Writes
  <2>2. ASSUME NEW t \in temps' PROVE t \in stray' \/ \E q \in Requests : Writes(q)' /\ t = Temp(q)'
    <3>1. t \in temps
      OBVIOUS
    <3>2. CASE t \in stray
      BY <3>2
    <3>3. ASSUME NEW q \in Requests, Writes(q), t = Temp(q), q # p
          PROVE  Writes(q)' /\ t = Temp(q)'
      BY <1>2, <1>4, <3>3
    <3>4. CASE t = Temp(p)
      BY <3>4
    <3> QED BY <2>1, <3>1, <3>2, <3>3, <3>4
  <2>3. ASSUME NEW q \in Requests, Writes(q)' PROVE Temp(q)' \in temps'
    BY <1>2, <1>4, <2>1, <2>3
  <2>4. stray' \subseteq temps'
    BY <1>3
  <2>5. temps' = stray' \cup {Temp(q)' : q \in {r \in Requests : Writes(r)'}}
    BY <2>2, <2>3, <2>4
  <2> QED BY <2>5 DEF TempsAreInUse, Writes
<1>6. TempsAreOwn'
  <2> SUFFICES ASSUME NEW q \in Requests
               PROVE  /\ Writes(q)' => Temp(q)' \in temps' \ stray'
                      /\ pc'[q] \in {"stat", "count", "create"} =>
                           \A t \in temps' : t[1] = q => t[2] < served'
    BY DEF TempsAreOwn, Writes
  <2>1. CASE q = p
    BY <1>1, <2>1 DEF Writes
  <2>2. CASE q # p
    <3>1. Writes(q)' => Temp(q)' \in temps' \ stray'
      BY <1>2, <1>4, <2>2 DEF TempsInv, TempsAreOwn, Writes
    <3>2. pc'[q] = pc[q] /\ temps' \subseteq temps
      BY <1>1, <2>2
    <3> QED BY <3>1, <3>2 DEF TempsInv, TempsAreOwn
  <2> QED BY <2>1, <2>2
<1>7. \A t \in temps' : t \in Requests \X (0..MaxServed) /\ t[2] <= served'
  BY DEF TempsInv
<1> QED BY <1>5, <1>6, <1>7 DEF TempsInv

LEMMA TempsStep ==
  ASSUME TypeOK, TempsInv, [Next]_vars
  PROVE  TempsInv'
<1>0. served \in Nat
  BY DEF TypeOK
<1>1. CASE Spawn \/ ApplyTilesets \/ GameEnds \/ UNCHANGED vars
  <2>1. UNCHANGED <<temps, stray, tmpPath, pc, served>>
    BY <1>1 DEF Spawn, ApplyTilesets, GameEnds, vars, manager, disk, history
  <2> QED BY <1>0, <2>1, TempsSame DEF Writes
<1>2. CASE Crash
  <2>1. stray' = temps /\ temps' = temps /\ served' = served
        /\ \A q \in Requests : pc'[q] = "idle"
    BY <1>2 DEF Crash, disk
  <2> QED BY <2>1 DEF TempsInv, TempsAreInUse, TempsAreOwn
<1>3. ASSUME NEW p \in Requests, Step(p) PROVE TempsInv'
  <2>1. CASE Begin(p)
    <3>1. served' = served + 1
      BY <2>1 DEF Begin
    <3> QED BY <1>0, <2>1, <3>1, Begins, TempsSame DEF disk, Writes
  <2> SUFFICES ASSUME ~Begin(p) PROVE TempsInv'
    BY <2>1
  <2>2. served' = served /\ \A q \in Requests \ {p} : pc'[q] = pc[q]
    BY <1>3, Moves
  <2>3. ASSUME NoTemp, Writes(p)' <=> Writes(p),
               pc'[p] \in {"stat", "count", "create"} => pc[p] \in {"stat", "count", "create"}
        PROVE  TempsInv'
    BY <1>0, <2>2, <2>3, TempsSame DEF NoTemp, Writes
  <2> USE DEF From, Goto, TypeOK, Writes
  <2>4. CASE StatTarget(p) \/ CountTilesets(p) \/ CountFails(p) \/ NotPNG(p)
    BY <2>3, <2>4 DEF StatTarget, CountTilesets, CountFails, NotPNG
  <2>5. CASE FindTileset(p) \/ RemoveFails(p) \/ LookUp(p)
    BY <2>3, <2>5 DEF FindTileset, RemoveFails, LookUp
  <2>6. CASE Store(p) \/ Unselect(p) \/ RemoveTileset(p)
    BY <2>3, <2>6 DEF Store, Unselect, RemoveTileset
  <2>7. CASE CreateTemp(p)
    BY <2>7, TempMade
  <2>8. CASE WriteTemp(p) /\ Goto(p, "rename") /\ NoTemp
    BY <2>3, <2>8 DEF WriteTemp
  <2>9. ASSUME Writes(p), Ends(p), CleanedUp(p) PROVE TempsInv'
    BY <2>2, <2>9, TempGone DEF CleanedUp
  <2>10. CASE WriteTemp(p) /\ Ends(p) /\ CleanedUp(p)
    BY <2>9, <2>10 DEF WriteTemp
  <2>11. CASE RenameTemp(p)
    <3>1. Writes(p) /\ Ends(p) /\ temps' = temps \ {Temp(p)} /\ stray' = stray
      BY <2>11 DEF RenameTemp
    <3> QED BY <2>2, <3>1, TempGone
  <2>12. CASE RenameFails(p)
    BY <2>9, <2>12 DEF RenameFails
  <2> QED BY <1>3, <2>4, <2>5, <2>6, <2>7, <2>8, <2>10, <2>11, <2>12 DEF Step, WriteTemp
<1> QED BY <1>1, <1>2, <1>3 DEF Next

-----------------------------------------------------------------------------
(* The font.                                                                 *)

(* What is or was selected is in the directory, or was deleted.              *)
Seen == files \cup deleted \cup {None}
Remembered ==
  /\ active \in Seen /\ asked \in Seen /\ init \in Seen \cup {Default}
  /\ \A p \in Requests : pc[p] = "store" => name[p] \in Seen

(* Nothing that was seen is forgotten.                                       *)
LEMMA SeenStays ==
  ASSUME TypeOK, NEW p \in Requests, Step(p), ~Begin(p)
  PROVE  Seen \subseteq Seen'
<1>1. \/ UNCHANGED <<files, deleted>>
      \/ files' = files \cup {name[p]} /\ deleted' = deleted \ {name[p]}
      \/ files' = files \ {name[p]} /\ deleted' = deleted \cup (files \cap {name[p]})
  BY DEF Step, StatTarget, CountTilesets, CountFails, NotPNG, CreateTemp,
         WriteTemp, RenameTemp, RenameFails, FindTileset, Store,
         RemoveTileset, RemoveFails, LookUp, Unselect
<1> QED BY <1>1 DEF Seen

LEMMA RememberedStep ==
  ASSUME TypeOK, Named, Remembered, [Next]_vars
  PROVE  Remembered'
<1>1. ASSUME Seen \subseteq Seen', active' \in Seen', UNCHANGED <<asked, init>>,
             \A q \in Requests : pc'[q] = "store" => name'[q] \in Seen'
      PROVE  Remembered'
  BY <1>1 DEF Remembered
<1>2. CASE UNCHANGED vars
  BY <1>2 DEF vars, disk, container, history, Remembered, Seen
<1>3. CASE Spawn
  BY <1>3 DEF Spawn, manager, disk, history, Remembered, Seen
<1>4. CASE ApplyTilesets
  <2>1. init' \in files \cup deleted \cup {Default}
    BY <1>4 DEF ApplyTilesets, PatchedFont, OldFont, Remembered, Seen
  <2> QED BY <1>4, <2>1 DEF ApplyTilesets, manager, disk, history, Remembered, Seen
<1>5. CASE GameEnds
  <2>1. None \in Seen
    BY DEF Seen
  <2> QED BY <1>5, <2>1 DEF GameEnds, manager, disk, history, Remembered, Seen
<1>6. CASE Crash
  BY <1>6 DEF Crash, disk, container, Remembered, Seen
<1>7. ASSUME NEW p \in Requests, Begin(p) PROVE Remembered'
  <2>1. UNCHANGED <<files, deleted, active, asked, init>>
    BY <1>7, Begins DEF disk, container
  <2>2. Seen' = Seen /\ None \in Seen
    BY <2>1 DEF Seen
  <2>3. \A q \in Requests : pc'[q] = "store" => name'[q] \in Seen
    BY <1>7, <2>2, Begins DEF Remembered
  <2> QED BY <1>1, <2>1, <2>2, <2>3 DEF Remembered
<1>8. ASSUME NEW p \in Requests, Step(p), ~Begin(p)
      PROVE  Remembered'
  <2>1. /\ UNCHANGED <<asked, init, name>>
        /\ \A q \in Requests \ {p} : pc'[q] = pc[q]
        /\ pc'[p] = "store" => pc[p] = "find"
    BY <1>8, Moves DEF container
  <2>2. Seen \subseteq Seen'
    BY <1>8, SeenStays
  <2>3. active' \in Seen'
    <3>1. UNCHANGED active \/ (pc[p] = "store" /\ active' = name[p]) \/ active' = None
      BY <1>8 DEF Step, StatTarget, CountTilesets, CountFails, NotPNG, CreateTemp,
                  WriteTemp, RenameTemp, RenameFails, FindTileset, Store, From,
                  RemoveTileset, RemoveFails, LookUp, Unselect, StoreFails
    <3> QED BY <2>2, <3>1 DEF Remembered, Seen
  <2>4. \A q \in Requests : pc'[q] = "store" => name'[q] \in Seen'
    <3>1. CASE pc[p] = "find"
      <4>1. FindTileset(p)
        BY <1>8, <3>1 DEF Step, StatTarget, CountTilesets, CountFails, NotPNG,
                  CreateTemp, WriteTemp, RenameTemp, RenameFails, Store,
                  RemoveTileset, RemoveFails, LookUp, Unselect, From
      <4>2. pc'[p] = "store" => name[p] \in Seen
        BY <4>1 DEF FindTileset, Found, Goto, Seen, TypeOK
      <4> QED BY <2>1, <2>2, <4>2 DEF Remembered
    <3>2. CASE pc[p] # "find"
      BY <2>1, <2>2, <3>2 DEF Remembered
    <3> QED BY <3>1, <3>2
  <2> QED BY <1>1, <2>1, <2>2, <2>3, <2>4
<1> QED BY <1>2, <1>3, <1>4, <1>5, <1>6, <1>7, <1>8 DEF Next

(* What a game is started with is there, or was deleted.                     *)
LEMMA FontStep ==
  ASSUME TypeOK, Remembered, [Next]_vars, game = "starting", game' = "on",
         files \cap Lower \subseteq art', font' \in Lower \cup {Default}
  PROVE  font' \in art' \cup {Default} \cup deleted
<1>1. ApplyTilesets
  <2>1. CASE Spawn \/ GameEnds \/ Crash \/ UNCHANGED vars
    BY <2>1 DEF Spawn, GameEnds, Crash, vars, container
  <2>2. ASSUME NEW p \in Requests, Step(p) PROVE FALSE
    <3>1. game' = game
      BY <2>2, Moves, Begins DEF container
    <3> QED BY <3>1
  <2> QED BY <2>1, <2>2 DEF Next
<1>2. font' \in files \cup deleted \cup {Default}
  BY <1>1 DEF ApplyTilesets, PatchedFont, OldFont, Remembered, Seen
<1> QED BY <1>2

-----------------------------------------------------------------------------
(* The limit.                                                                *)

(* The tilesets there will be once the uploads that passed the check are     *)
(* through: an upload that overwrites adds none, and one that was counted    *)
(* saw fewer than the limit, with at most the other requests under way.      *)
Uploaders == {p \in Requests : pc[p] \in Uploading}
Cover == files \cup {name[p] : p \in Uploaders}
CoverBounded ==
  /\ IsFiniteSet(Cover)
  /\ Cardinality(Cover) <= MaxCount + Cardinality(Requests) - 1 + unchecked

(* The requests name no more files than they are.                            *)
LEMMA NamesOfRequests ==
  ASSUME NEW S \in SUBSET Requests
  PROVE  /\ IsFiniteSet({name[p] : p \in S})
         /\ Cardinality({name[p] : p \in S}) <= Cardinality(Requests)
<1> DEFINE f == [p \in S |-> name[p]]
           T == {name[p] : p \in S}
<1>1. IsFiniteSet(S) /\ Cardinality(S) <= Cardinality(Requests)
  BY FS_Subset, RequestsAssumption
<1>2. f \in Surjection(S, T)
  BY DEF Surjection
<1>3. IsFiniteSet(T) /\ Cardinality(T) <= Cardinality(S)
  BY <1>1, <1>2, FS_Surjection
<1>4. Cardinality(T) \in Nat /\ Cardinality(S) \in Nat /\ Cardinality(Requests) \in Nat
  BY <1>1, <1>3, FS_CardinalityType, RequestsAssumption
<1> QED BY <1>1, <1>3, <1>4

(* A step that takes nothing in keeps the bound.                             *)
LEMMA CoverShrinks ==
  ASSUME TypeOK, CoverBounded, Cover' \subseteq Cover, unchecked' = unchecked
  PROVE  CoverBounded'
<1>1. IsFiniteSet(Cover') /\ Cardinality(Cover') <= Cardinality(Cover)
  BY FS_Subset DEF CoverBounded
<1>2. /\ Cardinality(Cover') \in Nat /\ Cardinality(Cover) \in Nat
      /\ Cardinality(Requests) \in Nat
  BY <1>1, FS_CardinalityType, RequestsAssumption DEF CoverBounded
<1> QED BY <1>1, <1>2, BoundsAssumption DEF CoverBounded, TypeOK

(* One element more.                                                         *)
LEMMA OneMore ==
  ASSUME NEW S, IsFiniteSet(S), NEW e
  PROVE  IsFiniteSet(S \cup {e}) /\ Cardinality(S \cup {e}) <= Cardinality(S) + 1
<1>1. Cardinality(S) \in Nat
  BY FS_CardinalityType
<1> QED BY <1>1, FS_AddElement

LEMMA CoverStep ==
  ASSUME TypeOK, CoverBounded, [Next]_vars
  PROVE  CoverBounded'
<1>1. CASE UNCHANGED <<files, pc, name, unchecked>>
  BY <1>1, CoverShrinks DEF Cover, Uploaders
<1>2. CASE Spawn \/ ApplyTilesets \/ GameEnds \/ UNCHANGED vars
  BY <1>1, <1>2 DEF Spawn, ApplyTilesets, GameEnds, vars, manager, disk, history
<1>3. CASE Crash
  <2>1. Cover' \subseteq Cover /\ unchecked' = unchecked
    BY <1>3 DEF Crash, disk, Cover, Uploaders, Uploading
  <2> QED BY <2>1, CoverShrinks
<1>4. ASSUME NEW p \in Requests, Begin(p) PROVE CoverBounded'
  <2>1. \A q \in Requests : pc'[q] \in Uploading =>
          q # p /\ pc[q] \in Uploading /\ name'[q] = name[q]
    BY <1>4, Begins DEF Uploading
  <2>2. Cover' \subseteq Cover /\ unchecked' = unchecked
    BY <1>4, <2>1, Begins DEF Cover, Uploaders, disk
  <2> QED BY <2>2, CoverShrinks
<1>5. ASSUME NEW p \in Requests, Step(p), ~Begin(p)
      PROVE  CoverBounded'
  <2>1. name' = name /\ \A q \in Requests \ {p} : pc'[q] = pc[q]
    BY <1>5, Moves
  <2>2. ASSUME files' \subseteq Cover, unchecked' = unchecked,
               pc'[p] \in Uploading => pc[p] \in Uploading \/ name[p] \in files
        PROVE  CoverBounded'
    <3>1. Cover' \subseteq Cover
      BY <2>1, <2>2 DEF Cover, Uploaders
    <3> QED BY <2>2, <3>1, CoverShrinks
  <2>3. Cardinality(Requests) \in Nat /\ unchecked \in Nat /\ MaxCount \in Nat
    BY FS_CardinalityType, RequestsAssumption, BoundsAssumption DEF TypeOK
  <2> USE DEF From, Goto, Ends, TypeOK, disk, history, Uploading
  <2>20. ASSUME files' = files, unchecked' = unchecked + 1
         PROVE  CoverBounded'
    <3>2. Cover' \subseteq Cover \cup {name[p]}
      BY <2>1, <2>20 DEF Cover, Uploaders
    <3>3. IsFiniteSet(Cover) /\ Cardinality(Cover) \in Nat
      BY FS_CardinalityType DEF CoverBounded
    <3>4. /\ IsFiniteSet(Cover \cup {name[p]})
          /\ Cardinality(Cover \cup {name[p]}) <= Cardinality(Cover) + 1
      BY <3>3, OneMore
    <3>5. /\ IsFiniteSet(Cover')
          /\ Cardinality(Cover') <= Cardinality(Cover \cup {name[p]})
      BY <3>2, <3>4, FS_Subset
    <3>6. Cardinality(Cover') \in Nat /\ Cardinality(Cover \cup {name[p]}) \in Nat
      BY <3>4, <3>5, FS_CardinalityType
    <3> QED BY <2>3, <2>20, <3>3, <3>4, <3>5, <3>6 DEF CoverBounded
  <2>4. CASE StatTarget(p)
    <3>1. CASE unchecked' = unchecked
      BY <2>2, <2>4, <3>1 DEF StatTarget, Found, Cover
    <3>2. CASE unchecked' = unchecked + 1
      BY <2>4, <2>20, <3>2 DEF StatTarget
    <3> QED BY <2>4, <3>1, <3>2 DEF StatTarget
  <2>5. CASE CountTilesets(p)
    <3>1. CASE AtCount
      BY <2>2, <2>5, <3>1 DEF CountTilesets, Cover
    <3>2. CASE ~AtCount
      <4>1. files' = files /\ unchecked' = unchecked
        BY <2>5 DEF CountTilesets
      <4> DEFINE T == {name[q] : q \in Uploaders'}
      <4>2. Uploaders' \in SUBSET Requests /\ Cover' = files \cup T
        BY <2>1, <4>1 DEF Cover, Uploaders
      <4>3. IsFiniteSet(T) /\ Cardinality(T) <= Cardinality(Requests)
        BY <4>2, NamesOfRequests
      <4>4. IsFiniteSet(files)
        BY FS_Subset DEF CoverBounded, Cover
      <4>5. IsFiniteSet(files \cap T)
        BY <4>4, FS_Intersection
      <4>6. /\ Cardinality(files) \in Nat /\ Cardinality(T) \in Nat
            /\ Cardinality(files \cap T) \in Nat
        BY <4>3, <4>4, <4>5, FS_CardinalityType
      <4>7. /\ IsFiniteSet(files \cup T)
            /\ Cardinality(files \cup T) =
                 Cardinality(files) + Cardinality(T) - Cardinality(files \cap T)
        BY <4>3, <4>4, FS_Union
      <4>8. Cardinality(files) < MaxCount
        BY <2>3, <3>2, <4>6 DEF AtCount
      <4> HIDE DEF T
      <4> QED BY <2>3, <4>1, <4>2, <4>3, <4>6, <4>7, <4>8 DEF CoverBounded
    <3> QED BY <3>1, <3>2
  <2>6. CASE CountFails(p)
    BY <2>6, <2>20 DEF CountFails
  <2>7. CASE NotPNG(p) \/ CreateTemp(p) \/ WriteTemp(p) \/ RenameFails(p)
    BY <2>2, <2>7 DEF NotPNG, CreateTemp, WriteTemp, RenameFails, Cover
  <2>8. CASE RenameTemp(p)
    <3>1. name[p] \in Cover
      BY <2>8 DEF RenameTemp, Cover, Uploaders
    <3> QED BY <2>2, <2>8, <3>1 DEF RenameTemp, Cover
  <2>9. CASE FindTileset(p) \/ Store(p) \/ RemoveFails(p) \/ LookUp(p) \/ Unselect(p)
    BY <2>2, <2>9 DEF FindTileset, Store, RemoveFails, LookUp, Unselect, Cover
  <2>10. CASE RemoveTileset(p)
    BY <2>2, <2>10 DEF RemoveTileset, Cover
  <2> QED BY <1>5, <2>4, <2>5, <2>6, <2>7, <2>8, <2>9, <2>10 DEF Step
<1> QED BY <1>2, <1>3, <1>4, <1>5 DEF Next

-----------------------------------------------------------------------------
(* The selection.                                                            *)

(* No tileset is selected and deleted at once, and what is to be selected is *)
(* there.                                                                    *)
Apart ==
  /\ \A p \in Selecting, q \in Deleting : name[p] # name[q] \/ name[p] = None
  /\ \A p \in Requests : pc[p] = "store" => name[p] \in files \cup {None}

CalmInv == calm => Apart

LEMMA CalmStep ==
  ASSUME TypeOK, Named, CalmInv, ActiveExists, [Next]_vars
  PROVE  CalmInv' /\ ActiveExists'
<1> SUFFICES ASSUME calm' PROVE Apart' /\ ActiveExists'
  BY DEF CalmInv, ActiveExists
<1>1. CASE UNCHANGED <<files, active, pc, name, calm>>
  BY <1>1 DEF CalmInv, Apart, ActiveExists, Selecting, Deleting
<1>2. CASE Spawn \/ ApplyTilesets \/ GameEnds \/ UNCHANGED vars
  BY <1>1, <1>2 DEF Spawn, ApplyTilesets, GameEnds, vars, manager, disk, history
<1>3. CASE Crash
  BY <1>3 DEF Crash
<1>4. ASSUME NEW p \in Requests, Begin(p) PROVE Apart' /\ ActiveExists'
  <2>1. /\ UNCHANGED <<files, active>> /\ calm /\ pc[p] = "idle"
        /\ \A q \in Requests \ {p} : pc'[q] = pc[q] /\ name'[q] = name[q]
        /\ pc'[p] \in {"stat", "find", "store", "remove"}
        /\ pc'[p] = "store" => name'[p] = None
    BY <1>4, Begins DEF disk
  <2>2. /\ pc'[p] = "find" => \A q \in Deleting : name[q] # name'[p]
        /\ pc'[p] = "remove" => \A q \in Selecting : name[q] # name'[p]
    BY <1>4, Begins
  <2>3. \A q \in Requests \ {p} : /\ q \in Selecting' => q \in Selecting
                                  /\ q \in Deleting' => q \in Deleting
    BY <2>1 DEF Selecting, Deleting
  <2>4. /\ p \in Selecting' => pc'[p] = "find" \/ name'[p] = None
        /\ p \in Deleting' => pc'[p] = "remove"
        /\ ~(p \in Selecting' /\ p \in Deleting')
    BY <2>1 DEF Selecting, Deleting
  <2>5. \A q \in Selecting', r \in Deleting' : name'[q] # name'[r] \/ name'[q] = None
    <3> SUFFICES ASSUME NEW q \in Selecting', NEW r \in Deleting', name'[q] # None
                 PROVE  name'[q] # name'[r]
      OBVIOUS
    <3>0. q \in Requests /\ r \in Requests
      BY DEF Selecting, Deleting
    <3>1. CASE q = p
      BY <2>1, <2>2, <2>3, <2>4, <3>0, <3>1
    <3>2. CASE r = p
      BY <2>1, <2>2, <2>3, <2>4, <3>0, <3>2
    <3>3. CASE q # p /\ r # p
      BY <2>1, <2>3, <3>0, <3>3 DEF CalmInv, Apart
    <3> QED BY <3>1, <3>2, <3>3
  <2>6. \A q \in Requests : pc'[q] = "store" => name'[q] \in files' \cup {None}
    BY <2>1 DEF CalmInv, Apart
  <2>7. ActiveExists'
    BY <2>1 DEF ActiveExists
  <2> QED BY <2>5, <2>6, <2>7 DEF Apart
<1>5. ASSUME NEW p \in Requests, Step(p), ~Begin(p)
      PROVE  Apart' /\ ActiveExists'
  <2>1. /\ name' = name /\ pc[p] # "idle"
        /\ \A q \in Requests \ {p} : pc'[q] = pc[q]
        /\ pc'[p] = "store" => pc[p] = "find"
        /\ pc[p] = "store" => pc'[p] = "idle"
    BY <1>5, Moves
  <2>2. calm
    BY <1>5 DEF Step, StatTarget, CountTilesets, CountFails, NotPNG, CreateTemp,
                WriteTemp, RenameTemp, RenameFails, FindTileset, Store, StoreFails,
                RemoveTileset, RemoveFails, LookUp, Unselect
  <2>3. /\ Apart
        /\ active \in files \cup {None} \/
             \E q \in Requests : pc[q] \in {"lookup", "unselect"} /\ name[q] = active
    BY <2>2 DEF CalmInv, ActiveExists
  <2> USE DEF From, Goto, TypeOK
  <2>4. Selecting' \subseteq Selecting /\ Deleting' \subseteq Deleting
    <3>1. pc'[p] \in {"find", "store"} => pc[p] \in {"find", "store"}
      BY <1>5 DEF Step, StatTarget, CountTilesets, CountFails, NotPNG, CreateTemp,
                WriteTemp, RenameTemp, RenameFails, FindTileset, Store, Ends,
                RemoveTileset, RemoveFails, LookUp, Unselect
    <3>2. pc'[p] \in {"remove", "lookup", "unselect"} => pc[p] \in {"remove", "lookup", "unselect"}
      BY <1>5 DEF Step, StatTarget, CountTilesets, CountFails, NotPNG, CreateTemp,
                WriteTemp, RenameTemp, RenameFails, FindTileset, Store, Ends,
                RemoveTileset, RemoveFails, LookUp, Unselect
    <3> QED BY <2>1, <3>1, <3>2 DEF Selecting, Deleting
  <2>5. ASSUME \A q \in Requests : pc'[q] = "store" => name[q] \in files' \cup {None},
               active' \in files' \cup {None} \/
                 \E q \in Requests : pc'[q] \in {"lookup", "unselect"} /\ name[q] = active'
        PROVE  Apart' /\ ActiveExists'
    BY <2>1, <2>3, <2>4, <2>5 DEF Apart, ActiveExists
  <2>6. ASSUME files \subseteq files', UNCHANGED active, pc'[p] # "store",
               pc[p] \notin {"lookup", "unselect"}
        PROVE  Apart' /\ ActiveExists'
    <3>1. \A q \in Requests : pc'[q] = "store" => name[q] \in files' \cup {None}
      BY <2>1, <2>3, <2>6 DEF Apart
    <3>2. \A q \in Requests : pc[q] \in {"lookup", "unselect"} => pc'[q] = pc[q]
      BY <2>1, <2>6
    <3>3. active' \in files' \cup {None} \/
            \E q \in Requests : pc'[q] \in {"lookup", "unselect"} /\ name[q] = active'
      BY <2>3, <2>6, <3>2
    <3> QED BY <2>5, <3>1, <3>3
  <2>7. CASE StatTarget(p) \/ CountTilesets(p) \/ CountFails(p) \/ NotPNG(p)
    BY <2>6, <2>7 DEF StatTarget, CountTilesets, CountFails, NotPNG
  <2>8. CASE CreateTemp(p) \/ WriteTemp(p) \/ RenameFails(p) \/ RemoveFails(p)
    BY <2>6, <2>8 DEF CreateTemp, WriteTemp, RenameFails, RemoveFails, Ends
  <2>9. CASE RenameTemp(p)
    BY <2>6, <2>9 DEF RenameTemp, Ends
  <2>10. CASE FindTileset(p)
    <3>1. UNCHANGED <<files, active>> /\ pc[p] = "find"
          /\ (pc'[p] = "store" => name[p] \in files)
      BY <2>10 DEF FindTileset, Found
    <3>2. \A q \in Requests : pc'[q] = "store" => name[q] \in files' \cup {None}
      BY <2>1, <2>3, <3>1 DEF Apart
    <3>3. \A q \in Requests : pc[q] \in {"lookup", "unselect"} => pc'[q] = pc[q]
      BY <2>1, <3>1
    <3>4. active' \in files' \cup {None} \/
            \E q \in Requests : pc'[q] \in {"lookup", "unselect"} /\ name[q] = active'
      BY <2>3, <3>1, <3>3
    <3> QED BY <2>5, <3>2, <3>4
  <2>11. CASE Store(p) \/ Unselect(p)
    <3>1. ~StoreFails
      BY DEF StoreFails
    <3>2. pc'[p] = "idle" /\ UNCHANGED files
      BY <2>11 DEF Store, Unselect
    <3>3. active' \in files \cup {None}
      BY <2>3, <2>11, <3>1 DEF Store, Unselect, Apart
    <3>4. \A q \in Requests : pc'[q] = "store" => name[q] \in files' \cup {None}
      BY <2>1, <2>3, <3>2 DEF Apart
    <3> QED BY <2>5, <3>2, <3>3, <3>4
  <2>12. CASE RemoveTileset(p)
    <3>1. /\ pc[p] = "remove" /\ files' = files \ {name[p]} /\ UNCHANGED active
          /\ pc'[p] = (IF name[p] \in files THEN "lookup" ELSE "idle")
      BY <2>12 DEF RemoveTileset, Found
    <3>2. p \in Deleting /\ name[p] \in Names
      BY <3>1 DEF Deleting, Named
    <3>3. ASSUME NEW q \in Requests, pc'[q] = "store"
          PROVE  name[q] \in files' \cup {None}
      <4>1. q # p /\ pc[q] = "store" /\ q \in Selecting
        BY <2>1, <3>1, <3>3 DEF Selecting
      <4>2. name[q] \in files \cup {None} /\ (name[q] # name[p] \/ name[q] = None)
        BY <2>3, <3>2, <4>1 DEF Apart
      <4> QED BY <3>1, <4>2
    <3>4. active' \in files' \cup {None} \/
            \E q \in Requests : pc'[q] \in {"lookup", "unselect"} /\ name[q] = active'
      <4>1. CASE active = name[p] /\ name[p] \in files
        BY <3>1, <4>1
      <4>2. CASE active \in files \cup {None} /\ ~(active = name[p] /\ name[p] \in files)
        BY <3>1, <3>2, <4>2, NamesAssumption
      <4>3. ASSUME NEW q \in Requests, pc[q] \in {"lookup", "unselect"}, name[q] = active
            PROVE  pc'[q] \in {"lookup", "unselect"}
        BY <2>1, <3>1, <4>3
      <4> QED BY <2>3, <3>1, <4>1, <4>2, <4>3
    <3> QED BY <2>5, <3>3, <3>4
  <2>13. CASE LookUp(p)
    <3>1. /\ UNCHANGED <<files, active>> /\ pc[p] = "lookup" /\ pc'[p] # "store"
          /\ pc'[p] = (IF active = name[p] THEN "unselect" ELSE "idle")
      BY <2>2, <2>13 DEF LookUp, Selects
    <3>2. \A q \in Requests : pc'[q] = "store" => name[q] \in files' \cup {None}
      BY <2>1, <2>3, <3>1 DEF Apart
    <3>3. ASSUME NEW q \in Requests, pc[q] \in {"lookup", "unselect"}, name[q] = active
          PROVE  pc'[q] \in {"lookup", "unselect"}
      BY <2>1, <3>1, <3>3
    <3>4. active' \in files' \cup {None} \/
            \E q \in Requests : pc'[q] \in {"lookup", "unselect"} /\ name[q] = active'
      BY <2>3, <3>1, <3>3
    <3> QED BY <2>5, <3>2, <3>4
  <2> QED BY <1>5, <2>7, <2>8, <2>9, <2>10, <2>11, <2>12, <2>13 DEF Step
<1> QED BY <1>2, <1>3, <1>4, <1>5 DEF Next

-----------------------------------------------------------------------------
(* What is inductive.                                                        *)
Inv == /\ TypeOK /\ Named
       /\ TempsInv
       /\ Remembered
       /\ CoverBounded
       /\ CalmInv /\ ActiveExists

(* The invariant holds at the start.                                         *)
LEMMA InitHolds == Init => Inv
<1> SUFFICES ASSUME Init PROVE Inv
  OBVIOUS
<1>1. TypeOK
  BY InitType
<1>2. Named /\ Remembered /\ CalmInv /\ ActiveExists
  BY DEF Init, Named, Remembered, Seen, CalmInv, Apart, ActiveExists, Selecting
<1>3. TempsInv
  BY DEF Init, TempsInv, TempsAreOwn, TempsAreInUse
<1>4. CoverBounded
  <2>1. Cover = {} /\ unchecked = 0
    BY DEF Init, Cover, Uploaders, Uploading
  <2>2. Cardinality(Requests) \in Nat /\ Cardinality(Requests) # 0
    BY RequestsAssumption, FS_CardinalityType, FS_EmptySet
  <2> QED BY <2>1, <2>2, FS_EmptySet, BoundsAssumption DEF CoverBounded
<1> QED BY <1>1, <1>2, <1>3, <1>4 DEF Inv

LEMMA InvHolds == Spec => []Inv
<1>1. Inv /\ [Next]_vars => Inv'
  BY TypeStep, NamedStep, TempsStep, RememberedStep, CoverStep, CalmStep DEF Inv, TempsInv
<1> QED BY <1>1, InitHolds, PTL DEF Spec

(* Every variable of the tilesets keeps its type.                            *)
THEOREM TilesetsTypeCorrect == Spec => []TypeOK
<1>1. Inv => TypeOK
  BY DEF Inv
<1> QED BY <1>1, InvHolds, PTL

(* The tilesets never exceed the limit by more than the requests that can    *)
(* run beside one another and the uploads that could not be counted.         *)
THEOREM UploadsAreBounded == Spec => []ExcessBounded
<1>1. Inv => ExcessBounded
  <2> SUFFICES ASSUME Inv PROVE ExcessBounded
    OBVIOUS
  <2>1. IsFiniteSet(Cover) /\ files \in SUBSET Cover
    BY DEF Inv, CoverBounded, Cover
  <2>2. IsFiniteSet(files) /\ Cardinality(files) <= Cardinality(Cover)
    BY <2>1, FS_Subset
  <2>3. /\ Cardinality(files) \in Nat /\ Cardinality(Cover) \in Nat
        /\ Cardinality(Requests) \in Nat
    BY <2>1, <2>2, FS_CardinalityType, RequestsAssumption
  <2> QED BY <2>2, <2>3, BoundsAssumption
          DEF Inv, CoverBounded, ExcessBounded, TypeOK
<1> QED BY <1>1, InvHolds, PTL

(* No temporary file outlives its upload but by a crash or a removal that    *)
(* fails.                                                                    *)
THEOREM NoTempLeaks == Spec => []TempsAreInUse
<1>1. Inv => TempsAreInUse
  BY DEF Inv, TempsInv
<1> QED BY <1>1, InvHolds, PTL

(* The selection is there, whatever runs beside it but a selection and a     *)
(* delete of one tileset.                                                    *)
THEOREM SelectionIsThere == Spec => []ActiveExists
<1>1. Inv => ActiveExists
  BY DEF Inv
<1> QED BY <1>1, InvHolds, PTL

(* A game that starts has the font it looks for, or that was deleted and not *)
(* uploaded again, or its name or a failure kept the script from copying it. *)
THEOREM FontIsThere == Spec => FontPresent
<1>1. Inv /\ [Next]_vars =>
        [/\ game = "starting" /\ game' = "on"
         /\ files \cap Lower \subseteq art' /\ font' \in Lower \cup {Default}
         => font' \in art' \cup {Default} \cup deleted]_vars
  BY FontStep DEF Inv
<1> QED BY <1>1, InvHolds, PTL DEF Spec, FontPresent

=============================================================================
