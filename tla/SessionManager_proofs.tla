------------------------ MODULE SessionManager_proofs ------------------------
(***************************************************************************)
(* Theorems about SessionManager for every set of users, container ids and  *)
(* handlers, every cap and every combination of faults: the types, whose    *)
(* flag is resolved, what a teardown has seen; then which games run:        *)
(* RunNeverConflicts, NoOrphans, CapHolds and the refinement of SessionLease. *)
(***************************************************************************)
EXTENDS SessionManager, FiniteSetTheorems, TLAPS

USE DEF Procs, docker, vars, At, Goto, Answer

-----------------------------------------------------------------------------
(* Type correctness.  A process with a request works for a user, and in the  *)
(* middle of a spawn or of an end it works on a container: without it TypeOK *)
(* is not inductive, for the entry that a process inserts is its job's.      *)

HasUser(p) == ~At(p, "idle") => job[p].uid \in Users

HasContainer(p) ==
  pc[p] \in {"spawn_insert", "import_check"} \cup Resolving => job[p].ci \in
      Ids

JobOK == \A p \in Procs : HasUser(p) /\ HasContainer(p)

Typed == TypeOK /\ JobOK

LEMMA TypedInit == Init => Typed
  BY DEF Init, Typed, TypeOK, DockerInit, DockerTypeOK, ContainerStates,
      Labels,
         Job, NoJob, JobOK, HasUser, HasContainer, Resolving

(* What a restart does to the store, the disk and the containers, whatever   *)
(* fails: it adopts the running containers of some users.                    *)
LEMMA RestartIs ==
  ASSUME TypeOK, Restart
  PROVE  /\ users \subseteq users' /\ users' \subseteq Users
         /\ dirs \subseteq dirs' /\ dirs' \subseteq Users
         /\ cstate' \in [Ids -> ContainerStates] /\ cname' = cname
         /\ \A i \in Ids : \/ cstate'[i] = cstate[i]
                           \/ cstate[i] = "exited" /\ cstate'[i] = "removed"
         /\ \E known \in SUBSET Users : containers' = Adopted(known)
         /\ mu' = None /\ logs' = {} /\ toReap' = {}
         /\ pc' = [p \in Procs |-> "idle"] /\ job' = [p \in Procs |-> NoJob]
<1>1. users \subseteq users' /\ users' \subseteq Users
  BY LegacyAssumption DEF Restart, ImportsLegacy, TypeOK
<1>2. dirs \subseteq dirs' /\ dirs' \subseteq Users
  BY <1>1 DEF Restart, EnsuresDirs, TypeOK
<1>3. /\ cstate' \in [Ids -> ContainerStates]
      /\ \A i \in Ids : \/ cstate'[i] = cstate[i]
                        \/ cstate[i] = "exited" /\ cstate'[i] = "removed"
  <2>1. CASE UNCHANGED cstate
    BY <2>1 DEF TypeOK, DockerTypeOK
  <2>2. ASSUME NEW gone \in SUBSET Exited,
               cstate' = [i \in Ids |-> IF i \in gone THEN "removed" ELSE cstate[i]]
        PROVE  /\ cstate' \in [Ids -> ContainerStates]
               /\ \A i \in Ids : \/ cstate'[i] = cstate[i]
                                 \/ cstate[i] = "exited" /\ cstate'[i] = "removed"
    BY <2>2 DEF Exited, TypeOK, DockerTypeOK, ContainerStates
  <2> QED BY <2>1, <2>2 DEF Restart, Reconciles
<1>4. \E known \in SUBSET Users : containers' = Adopted(known)
  <2>1. CASE containers' = [u \in Users |-> None]
    <3>1. Adopted({}) = [u \in Users |-> None]
      BY DEF Adopted
    <3> QED BY <2>1, <3>1
  <2>2. CASE \E known \in SUBSET users' : containers' = Adopted(known)
    BY <1>1, <2>2
  <2> QED BY <2>1, <2>2 DEF Restart, Reconciles
<1> QED BY <1>1, <1>2, <1>3, <1>4 DEF Restart

LEMMA TypedStep ==
  ASSUME Typed, NEW p \in Procs, Step(p) \/ ClientPaced(p)
  PROVE  Typed'
<1> USE DEF Typed, TypeOK, JobOK, HasUser, HasContainer, Labels, Job, NoJob,
            Resolving, Entry, Routes, DockerTypeOK, ContainerStates
<1>1. CASE EnsureRefuses(p)
  BY <1>1 DEF EnsureRefuses, Unlocked, Tracked
<1>2. CASE EnsureReuses(p)
  BY ZenonT(30), <1>2 DEF EnsureReuses, Unlocked, Tracked
<1>3. CASE EnsureMisses(p)
  BY <1>3 DEF EnsureMisses, Unlocked, Tracked
<1>4. CASE SpawnMakesDirs(p)
  BY <1>4 DEF SpawnMakesDirs, DirsFail
<1>5. CASE SpawnFreesName(p)
  BY <1>5 DEF SpawnFreesName, RemoveByName
<1>6. CASE SpawnRuns(p)
  <2>1. PICK i \in Ids : /\ RunSucceeds(job[p].uid, i, job[p].uid \in dirs)
                         /\ job' = [job EXCEPT ![p].ci = i]
    BY <1>6 DEF SpawnRuns
  <2>2. cstate' = [cstate EXCEPT ![i] = "running"]
        /\ cname' = [cname EXCEPT ![i] = job[p].uid]
    BY <2>1 DEF RunSucceeds
  <2> QED BY <1>6, <2>1, <2>2 DEF SpawnRuns
<1>7. CASE SpawnFails(p)
  BY <1>7 DEF SpawnFails, RunFails
<1>8. CASE SpawnInserts(p)
  BY <1>8 DEF SpawnInserts, NewEntry
<1>9. CASE Flag(p)
  <2> DEFINE u == job[p].uid
  <2>1. CASE u \in Tracked
    <3>1. containers[u] \in Entry /\ u \in Users
      BY <2>1 DEF Tracked
    <3>2. containers' \in [Users -> Entry \cup {None}]
      <4>1. containers' = [containers EXCEPT ![u].stopping = TRUE]
        BY <1>9, <2>1 DEF Flag
      <4>2. [containers[u] EXCEPT !.stopping = TRUE] \in Entry
        BY <3>1
      <4> QED BY <3>1, <4>1, <4>2
    <3>3. /\ pc' = [pc EXCEPT ![p] = IF job[p].op = "delete"
                                   THEN "check_stale" ELSE "stop"]
          /\ job' = [job EXCEPT ![p].ci = containers[u].id]
      BY <1>9, <2>1 DEF Flag
    <3>4. JobOK' /\ pc' \in [Procs -> Labels] /\ job' \in [Procs -> Job]
      BY <3>1, <3>3
    <3> QED BY <1>9, <3>2, <3>4 DEF Flag
  <2>2. CASE u \notin Tracked
    BY <1>9, <2>2 DEF Flag
  <2> QED BY <2>1, <2>2
<1>10. CASE CheckStale(p)
  BY <1>10 DEF CheckStale
<1>11. CASE DockerStop(p)
  BY <1>11 DEF DockerStop, StopSucceeds, StopFails, OnStopError
<1>12. CASE DockerRemove(p)
  BY <1>12 DEF DockerRemove, RemoveSucceeds, RemoveFails, OnStopError
<1>13. CASE StopSessionLog(p)
  BY <1>13 DEF StopSessionLog
<1>14. CASE Forget(p)
  BY <1>14 DEF Forget, Unlocked, ForgetEntry
<1>15. CASE ForgetFailed(p)
  BY <1>15 DEF ForgetFailed, Unlocked, ForgetEntry
<1>16. CASE Unflag(p)
  BY ZenonT(30), <1>16 DEF Unflag, Unlocked, Holds
<1>17. CASE DropUser(p)
  BY <1>17 DEF DropUser
<1>18. CASE RemoveDirs(p)
  BY <1>18 DEF RemoveDirs
<1>19. CASE ImportGate(p)
  BY <1>19 DEF ImportGate, Unlocked, Tracked
<1>20. CASE ImportCheck(p)
  BY <1>20 DEF ImportCheck
<1>21. CASE ImportInstalls(p)
  BY <1>21 DEF ImportInstalls
<1>22. CASE TimelineCheck(p)
  BY <1>22 DEF TimelineCheck, Unlocked
<1>23. CASE TimelineOpensLog(p)
  BY <1>23 DEF TimelineOpensLog
<1>24. CASE CreateMakesDirs(p)
  BY <1>24 DEF CreateMakesDirs, DirsFail
<1>25. CASE CreateInsertsUser(p)
  BY <1>25 DEF CreateInsertsUser
<1>26. CASE StreamEnds(p)
  BY <1>26 DEF StreamEnds
<1>27. CASE ImportUpload(p)
  BY <1>27 DEF ImportUpload
<1> QED BY <1>1, <1>2, <1>3, <1>4, <1>5, <1>6, <1>7, <1>8, <1>9, <1>10, <1>11,
    <1>12, <1>13, <1>14, <1>15, <1>16, <1>17, <1>18, <1>19, <1>20, <1>21,
    <1>22, <1>23, <1>24, <1>25, <1>26, <1>27 DEF Step, Ensure, End, ClientPaced

LEMMA TypedNext ==
  ASSUME Typed, [Next]_vars
  PROVE  Typed'
<1> USE DEF Typed, TypeOK, JobOK, HasUser, HasContainer, Labels, Job, NoJob,
            Resolving, Entry, Routes, DockerTypeOK, ContainerStates
<1>1. ASSUME NEW p \in Handlers, NEW r \in Requests, NEW u \in Users,
             Begin(p, r, u)
      PROVE  Typed'
  BY <1>1, RequestsAssumption DEF Begin, FirstStep
<1>2. ASSUME NEW p \in Procs, Step(p) \/ ClientPaced(p) PROVE Typed'
  BY <1>2, TypedStep
<1>3. CASE ReaperScans
  <2>1. \A u \in Reapable : u \in Users /\ containers[u] \in Entry
    BY DEF Reapable, Tracked
  <2>2. containers' \in [Users -> Entry \cup {None}]
    <3>1. \A u \in Reapable :
            [containers[u] EXCEPT !.stopping = TRUE] \in Entry
      BY <2>1
    <3> QED BY <1>3, <3>1 DEF ReaperScans
  <2>3. toReap' \subseteq Users \X Ids
    BY <1>3, <2>1 DEF ReaperScans
  <2> QED BY <1>3, <2>2, <2>3 DEF ReaperScans
<1>4. CASE ReaperTakes
  BY <1>4 DEF ReaperTakes
<1>5. ASSUME NEW u \in Users, Keepalive(u) PROVE Typed'
  BY ZenonT(30), <1>5 DEF Keepalive, Tracked
<1>6. ASSUME NEW u \in Users, BecomesIdle(u) PROVE Typed'
  BY ZenonT(30), <1>6 DEF BecomesIdle, Tracked
<1>7. ASSUME NEW i \in Ids, GameExits(i) PROVE Typed'
  BY <1>7 DEF GameExits, ContainerExits, manager
<1>8. CASE Restart
  <2>1. \A known : Adopted(known) \in [Users -> Entry \cup {None}]
    BY DEF Adopted, NewEntry, Named
  <2>2. containers' \in [Users -> Entry \cup {None}]
    BY <1>8, <2>1, RestartIs
  <2>3. cstate' \in [Ids -> ContainerStates]
    BY <1>8, RestartIs
  <2>4. JobOK' /\ pc' \in [Procs -> Labels] /\ job' \in [Procs -> Job]
    BY <1>8 DEF Restart
  <2>5. dirs' \subseteq Users /\ logs' \subseteq Users /\ users' \subseteq
      Users
    BY <1>8, RestartIs
  <2>6. restarts' \in Nat /\ toReap' \subseteq Users \X Ids
        /\ mu' \in Procs \cup {None}
    BY <1>8 DEF Restart
  <2>7. cname' = cname
    BY <1>8 DEF Restart
  <2> QED BY <2>2, <2>3, <2>4, <2>5, <2>6, <2>7
<1>9. CASE UNCHANGED vars
  BY <1>9
<1> QED
  BY <1>1, <1>2, <1>3, <1>4, <1>5, <1>6, <1>7, <1>8, <1>9 DEF Next, Reap

(* Every variable keeps its type. *)
THEOREM TypeCorrect == Spec => []TypeOK
<1>1. Init => Typed
  BY TypedInit
<1>2. Typed /\ [Next]_vars => Typed'
  BY TypedNext
<1>3. Typed => TypeOK
  BY DEF Typed
<1> QED
  BY <1>1, <1>2, <1>3, PTL DEF Spec
-----------------------------------------------------------------------------
(* The flags.  No session is left marked as stopping, whatever fails.        *)

(* An entry marked as stopping, and who is to resolve it. *)
Owned(u, i) == <<u, i>> \in toReap \/ \E p \in Procs : Resolves(p, u, i)

LEMMA OwnerStep ==
  ASSUME Typed, EndingHasOwner, NEW p \in Procs, Step(p) \/ ClientPaced(p)
  PROVE  EndingHasOwner'
<1> SUFFICES ASSUME NEW u \in Users, NEW i \in Ids, Ending(u, i)'
             PROVE  Owned(u, i)'
  BY DEF EndingHasOwner, Owned
<1> USE DEF Typed, TypeOK, Job, NoJob, Resolving, Resolves, Entry, Owned,
            Ending, Holds, EndingHasOwner
<1>1. CASE EnsureRefuses(p)
  BY <1>1 DEF EnsureRefuses, Unlocked, Tracked
<1>2. CASE EnsureReuses(p)
  BY <1>2 DEF EnsureReuses, Unlocked, Tracked
<1>3. CASE EnsureMisses(p)
  BY <1>3 DEF EnsureMisses, Unlocked, Tracked
<1>4. CASE SpawnMakesDirs(p)
  <2>1. /\ pc[p] = "spawn_dirs" /\ UNCHANGED <<containers, toReap>>
        /\ \A q \in Procs : q # p => pc'[q] = pc[q] /\ job'[q] = job[q]
    BY <1>4 DEF SpawnMakesDirs
  <2> QED BY <2>1
<1>5. CASE SpawnFreesName(p)
  BY <1>5 DEF SpawnFreesName
<1>6. CASE SpawnRuns(p)
  BY <1>6 DEF SpawnRuns
<1>7. CASE SpawnFails(p)
  BY <1>7 DEF SpawnFails
<1>8. CASE SpawnInserts(p)
  BY <1>8 DEF SpawnInserts, NewEntry
<1>9. CASE Flag(p)
  BY <1>9 DEF Flag, Unlocked, Tracked
<1>10. CASE CheckStale(p)
  BY <1>10 DEF CheckStale
<1>11. CASE DockerStop(p)
  BY <1>11 DEF DockerStop, OnStopError
<1>12. CASE DockerRemove(p)
  BY <1>12 DEF DockerRemove, OnStopError
<1>13. CASE StopSessionLog(p)
  BY <1>13 DEF StopSessionLog
<1>14. CASE Forget(p)
  BY <1>14 DEF Forget, Unlocked, ForgetEntry
<1>15. CASE ForgetFailed(p)
  BY <1>15 DEF ForgetFailed, Unlocked, ForgetEntry
<1>16. CASE Unflag(p)
  BY <1>16 DEF Unflag, Unlocked, Holds
<1>17. CASE DropUser(p)
  BY <1>17 DEF DropUser
<1>18. CASE RemoveDirs(p)
  BY <1>18 DEF RemoveDirs
<1>19. CASE ImportGate(p)
  BY <1>19 DEF ImportGate, Unlocked, Tracked
<1>20. CASE ImportCheck(p)
  <2>1. UNCHANGED <<containers, toReap>> /\ ~Resolves(p, u, i)
    BY <1>20 DEF ImportCheck
  <2>2. \A q \in Procs : Resolves(q, u, i) => Resolves(q, u, i)'
    BY <1>20, <2>1 DEF ImportCheck
  <2>3. Ending(u, i)
    BY <2>1
  <2> QED BY <2>1, <2>2, <2>3
<1>21. CASE ImportInstalls(p)
  BY <1>21 DEF ImportInstalls
<1>22. CASE TimelineCheck(p)
  BY <1>22 DEF TimelineCheck, Unlocked
<1>23. CASE TimelineOpensLog(p)
  BY <1>23 DEF TimelineOpensLog
<1>24. CASE CreateMakesDirs(p)
  BY <1>24 DEF CreateMakesDirs, DirsFail
<1>25. CASE CreateInsertsUser(p)
  BY <1>25 DEF CreateInsertsUser
<1>26. CASE StreamEnds(p)
  BY <1>26 DEF StreamEnds
<1>27. CASE ImportUpload(p)
  BY SMTT(30), <1>27 DEF ImportUpload
<1> QED BY <1>1, <1>2, <1>3, <1>4, <1>5, <1>6, <1>7, <1>8, <1>9, <1>10, <1>11,
    <1>12, <1>13, <1>14, <1>15, <1>16, <1>17, <1>18, <1>19, <1>20, <1>21,
    <1>22, <1>23, <1>24, <1>25, <1>26, <1>27 DEF Step, Ensure, End, ClientPaced

LEMMA OwnerNext ==
  ASSUME Typed, EndingHasOwner, [Next]_vars
  PROVE  EndingHasOwner'
<1> USE DEF Typed, TypeOK, Job, NoJob, Resolving, Resolves, Entry, Ending,
    Holds,
            EndingHasOwner
<1>1. ASSUME NEW p \in Handlers, NEW r \in Requests, NEW u \in Users,
             Begin(p, r, u)
      PROVE  EndingHasOwner'
  BY <1>1 DEF Begin
<1>2. ASSUME NEW p \in Procs, Step(p) \/ ClientPaced(p) PROVE EndingHasOwner'
  BY <1>2, OwnerStep
<1>3. CASE ReaperScans
  BY <1>3 DEF ReaperScans, Reapable, Tracked
<1>4. CASE ReaperTakes
  BY <1>4 DEF ReaperTakes
<1>5. ASSUME NEW u \in Users, Keepalive(u) PROVE EndingHasOwner'
  BY <1>5 DEF Keepalive, Tracked
<1>6. ASSUME NEW u \in Users, BecomesIdle(u) PROVE EndingHasOwner'
  BY <1>6 DEF BecomesIdle, Tracked
<1>7. ASSUME NEW i \in Ids, GameExits(i) PROVE EndingHasOwner'
  BY <1>7 DEF GameExits, manager
<1>8. CASE Restart
  BY <1>8, RestartIs DEF Adopted, NewEntry
<1>9. CASE UNCHANGED vars
  BY <1>9
<1> QED
  BY <1>1, <1>2, <1>3, <1>4, <1>5, <1>6, <1>7, <1>8, <1>9 DEF Next, Reap

(* A session marked as stopping always has a process, or a place in the      *)
(* reaper's list, that will forget or unflag it: no user is locked out of    *)
(* /play by a stuck flag, whichever docker commands fail and whoever stops   *)
(* the same session at the same time.                                        *)
THEOREM FlagIsResolved == Spec => []EndingHasOwner
<1>1. Init => Typed /\ EndingHasOwner
  BY TypedInit DEF Init, EndingHasOwner, Ending, Holds
<1>2. Typed /\ EndingHasOwner /\ [Next]_vars => (Typed /\ EndingHasOwner)'
  BY TypedNext, OwnerNext
<1> QED
  BY <1>1, <1>2, PTL DEF Spec

-----------------------------------------------------------------------------
(* Directories.  A delete reaches its last step only for a uid that it has   *)
(* taken out of the store itself, and without creations nobody puts it back. *)

DirsInv ==
  \A p \in Procs : /\ ~At(p, "create_dirs") /\ ~At(p, "insert_user")
                   /\ At(p, "remove_dirs") => job[p].uid \notin users

LEMMA DirsStep ==
  ASSUME Typed, DirsInv, NEW p \in Procs, Step(p) \/ ClientPaced(p)
  PROVE  DirsInv'
<1> USE DEF Typed, TypeOK, DirsInv
<1>1. CASE EnsureRefuses(p)
  BY <1>1 DEF EnsureRefuses
<1>2. CASE EnsureReuses(p)
  BY <1>2 DEF EnsureReuses
<1>3. CASE EnsureMisses(p)
  BY <1>3 DEF EnsureMisses
<1>4. CASE SpawnMakesDirs(p)
  BY <1>4 DEF SpawnMakesDirs, DirsFail
<1>5. CASE SpawnFreesName(p)
  BY <1>5 DEF SpawnFreesName
<1>6. CASE SpawnRuns(p)
  BY <1>6 DEF SpawnRuns
<1>7. CASE SpawnFails(p)
  BY <1>7 DEF SpawnFails
<1>8. CASE SpawnInserts(p)
  BY <1>8 DEF SpawnInserts
<1>9. CASE Flag(p)
  BY <1>9 DEF Flag
<1>10. CASE CheckStale(p)
  BY <1>10 DEF CheckStale
<1>11. CASE DockerStop(p)
  BY <1>11 DEF DockerStop, OnStopError
<1>12. CASE DockerRemove(p)
  BY <1>12 DEF DockerRemove, OnStopError
<1>13. CASE StopSessionLog(p)
  BY <1>13 DEF StopSessionLog
<1>14. CASE Forget(p)
  BY <1>14 DEF Forget
<1>15. CASE ForgetFailed(p)
  BY <1>15 DEF ForgetFailed
<1>16. CASE Unflag(p)
  BY <1>16 DEF Unflag
<1>17. CASE DropUser(p)
  BY <1>17 DEF DropUser
<1>18. CASE RemoveDirs(p)
  BY <1>18 DEF RemoveDirs
<1>19. CASE ImportGate(p)
  BY <1>19 DEF ImportGate
<1>20. CASE ImportCheck(p)
  BY <1>20 DEF ImportCheck
<1>21. CASE ImportInstalls(p)
  BY <1>21 DEF ImportInstalls
<1>22. CASE TimelineCheck(p)
  BY <1>22 DEF TimelineCheck
<1>23. CASE TimelineOpensLog(p)
  BY <1>23 DEF TimelineOpensLog
<1>24. CASE CreateMakesDirs(p)
  BY <1>24 DEF CreateMakesDirs, DirsFail
<1>25. CASE CreateInsertsUser(p)
  BY <1>25 DEF CreateInsertsUser
<1>26. CASE StreamEnds(p)
  BY <1>26 DEF StreamEnds
<1>27. CASE ImportUpload(p)
  BY <1>27 DEF ImportUpload
<1> QED BY <1>1, <1>2, <1>3, <1>4, <1>5, <1>6, <1>7, <1>8, <1>9, <1>10, <1>11,
    <1>12, <1>13, <1>14, <1>15, <1>16, <1>17, <1>18, <1>19, <1>20, <1>21,
    <1>22, <1>23, <1>24, <1>25, <1>26, <1>27 DEF Step, Ensure, End, ClientPaced

LEMMA DirsNext ==
  ASSUME Typed, DirsInv, "create" \notin Requests, [Next]_vars
  PROVE  DirsInv'
<1> USE DEF Typed, TypeOK, DirsInv
<1>1. ASSUME NEW p \in Handlers, NEW r \in Requests, NEW u \in Users,
             Begin(p, r, u)
      PROVE  DirsInv'
  BY <1>1 DEF Begin, FirstStep
<1>2. ASSUME NEW p \in Procs, Step(p) \/ ClientPaced(p) PROVE DirsInv'
  BY <1>2, DirsStep
<1>3. CASE ReaperScans
  BY <1>3 DEF ReaperScans, Reapable, Tracked
<1>4. CASE ReaperTakes
  BY <1>4 DEF ReaperTakes
<1>5. ASSUME NEW u \in Users, Keepalive(u) PROVE DirsInv'
  BY <1>5 DEF Keepalive, Tracked
<1>6. ASSUME NEW u \in Users, BecomesIdle(u) PROVE DirsInv'
  BY <1>6 DEF BecomesIdle, Tracked
<1>7. ASSUME NEW i \in Ids, GameExits(i) PROVE DirsInv'
  BY <1>7 DEF GameExits, ContainerExits, manager
<1>8. CASE Restart
  BY <1>8, RestartIs DEF Adopted, NewEntry
<1>9. CASE UNCHANGED vars
  BY <1>9
<1> QED
  BY <1>1, <1>2, <1>3, <1>4, <1>5, <1>6, <1>7, <1>8, <1>9 DEF Next, Reap

(* Only the last step of a delete takes directories away, and it takes those  *)
(* of a user who is in the store no more.                                     *)
LEMMA DirsStay ==
  ASSUME Typed, DirsInv, [Next]_vars
  PROVE  users \cap users' \cap dirs \subseteq dirs'
<1>1. ASSUME NEW p \in Procs, Step(p) \/ ClientPaced(p)
      PROVE  users \cap users' \cap dirs \subseteq dirs'
  <2>1. CASE RemoveDirs(p)
    BY <2>1 DEF RemoveDirs, DirsInv
  <2>2. CASE SpawnMakesDirs(p) \/ CreateMakesDirs(p) \/ ImportUpload(p)
    BY <2>2 DEF SpawnMakesDirs, CreateMakesDirs, ImportUpload, DirsFail
  <2>3. CASE Ensure(p) /\ ~SpawnMakesDirs(p)
    BY <2>3 DEF Ensure, EnsureRefuses, EnsureReuses, EnsureMisses,
        SpawnFreesName, SpawnRuns, SpawnFails, SpawnInserts
  <2>4. CASE End(p)
    BY <2>4 DEF End, Flag, CheckStale, DockerStop, DockerRemove,
        StopSessionLog, Forget, ForgetFailed, Unflag
  <2>5. CASE \/ DropUser(p) \/ ImportGate(p) \/ ImportCheck(p)
             \/ ImportInstalls(p) \/ TimelineCheck(p) \/ TimelineOpensLog(p)
             \/ CreateInsertsUser(p) \/ StreamEnds(p)
    BY <2>5 DEF DropUser, ImportGate, ImportCheck, ImportInstalls,
        TimelineCheck, TimelineOpensLog, CreateInsertsUser, StreamEnds
  <2> QED BY <1>1, <2>1, <2>2, <2>3, <2>4, <2>5 DEF Step, ClientPaced
<1>2. CASE Restart
  BY <1>2, RestartIs DEF Typed
<1>3. CASE UNCHANGED vars
  BY <1>3
<1>4. CASE \/ \E p \in Handlers, r \in Requests, u \in Users : Begin(p, r, u)
           \/ Reap \/ \E u \in Users : Keepalive(u) \/ BecomesIdle(u)
           \/ \E i \in Ids : GameExits(i)
  BY <1>4 DEF Begin, Reap, ReaperScans, ReaperTakes, Keepalive, BecomesIdle,
      GameExits, manager
<1> QED BY <1>1, <1>2, <1>3, <1>4 DEF Next

(* As long as no account is created beside it, a delete, repeated, overlapped *)
(* or failed, takes no directories from a user who stays in the store.        *)
THEOREM DirectoriesKept ==
  ASSUME "create" \notin Requests
  PROVE  Spec => UsersKeepTheirDirs
<1>1. Init => Typed /\ DirsInv
  BY TypedInit DEF Init, DirsInv
<1>2. Typed /\ DirsInv /\ [Next]_vars => (Typed /\ DirsInv)'
  BY TypedNext, DirsNext
<1>3. Typed /\ DirsInv /\ [Next]_vars => [users \cap users' \cap dirs \subseteq dirs']_vars
  BY DirsStay
<1> QED
  BY <1>1, <1>2, <1>3, PTL DEF Spec, UsersKeepTheirDirs

-----------------------------------------------------------------------------
(* Teardown.  Ids in the map, in a job or on the reaper's list belong to      *)
(* containers that were run once; such a container, once down, stays down,    *)
(* for docker run only starts fresh ids.                                      *)

Known(i) == cstate[i] # "unused"
Down(i) == cstate[i] \in {"exited", "removed"}

KnownInv ==
  /\ \A u \in Tracked : Known(containers[u].id)
  /\ \A p \in Procs : job[p].ci # None => Known(job[p].ci)
  /\ \A t \in toReap : Known(t[2])

LEMMA KnownStep ==
  ASSUME Typed, KnownInv, NEW p \in Procs, Step(p) \/ ClientPaced(p)
  PROVE  KnownInv'
<1> USE NoneAssumption DEF Typed, TypeOK, JobOK, HasUser, HasContainer,
          DockerTypeOK, KnownInv, Known, Job, NoJob, Entry, Tracked, Resolving,
          Exists
<1>1. CASE EnsureRefuses(p)
  BY <1>1 DEF EnsureRefuses, Unlocked, Tracked
<1>2. CASE EnsureReuses(p)
  BY <1>2 DEF EnsureReuses, Unlocked, Tracked
<1>3. CASE EnsureMisses(p)
  BY <1>3 DEF EnsureMisses, Unlocked, Tracked
<1>4. CASE SpawnMakesDirs(p)
  BY <1>4 DEF SpawnMakesDirs, DirsFail
<1>5. CASE SpawnFreesName(p)
  BY <1>5 DEF SpawnFreesName, RemoveByName
<1>6. CASE SpawnRuns(p)
  <2>1. PICK i \in Ids : /\ RunSucceeds(job[p].uid, i, job[p].uid \in dirs)
                         /\ job' = [job EXCEPT ![p].ci = i]
    BY <1>6 DEF SpawnRuns
  <2>2. cstate' = [cstate EXCEPT ![i] = "running"]
    BY <2>1 DEF RunSucceeds
  <2> QED BY <1>6, <2>1, <2>2 DEF SpawnRuns
<1>7. CASE SpawnFails(p)
  BY <1>7 DEF SpawnFails, RunFails
<1>8. CASE SpawnInserts(p)
  BY <1>8 DEF SpawnInserts, NewEntry
<1>9. CASE Flag(p)
  BY <1>9 DEF Flag, Unlocked, Tracked
<1>10. CASE CheckStale(p)
  BY <1>10 DEF CheckStale
<1>11. CASE DockerStop(p)
  BY <1>11 DEF DockerStop, StopSucceeds, StopFails, OnStopError
<1>12. CASE DockerRemove(p)
  BY <1>12 DEF DockerRemove, RemoveSucceeds, RemoveFails, OnStopError
<1>13. CASE StopSessionLog(p)
  BY <1>13 DEF StopSessionLog
<1>14. CASE Forget(p)
  BY <1>14 DEF Forget, Unlocked, ForgetEntry
<1>15. CASE ForgetFailed(p)
  BY <1>15 DEF ForgetFailed, Unlocked, ForgetEntry
<1>16. CASE Unflag(p)
  BY <1>16 DEF Unflag, Unlocked, Holds
<1>17. CASE DropUser(p)
  BY <1>17 DEF DropUser
<1>18. CASE RemoveDirs(p)
  BY <1>18 DEF RemoveDirs
<1>19. CASE ImportGate(p)
  BY <1>19 DEF ImportGate, Unlocked, Tracked
<1>20. CASE ImportCheck(p)
  BY <1>20 DEF ImportCheck
<1>21. CASE ImportInstalls(p)
  BY <1>21 DEF ImportInstalls
<1>22. CASE TimelineCheck(p)
  BY <1>22 DEF TimelineCheck, Unlocked
<1>23. CASE TimelineOpensLog(p)
  BY <1>23 DEF TimelineOpensLog
<1>24. CASE CreateMakesDirs(p)
  BY <1>24 DEF CreateMakesDirs, DirsFail
<1>25. CASE CreateInsertsUser(p)
  BY <1>25 DEF CreateInsertsUser
<1>26. CASE StreamEnds(p)
  BY <1>26 DEF StreamEnds
<1>27. CASE ImportUpload(p)
  BY <1>27 DEF ImportUpload
<1> QED BY <1>1, <1>2, <1>3, <1>4, <1>5, <1>6, <1>7, <1>8, <1>9, <1>10, <1>11,
    <1>12, <1>13, <1>14, <1>15, <1>16, <1>17, <1>18, <1>19, <1>20, <1>21,
    <1>22, <1>23, <1>24, <1>25, <1>26, <1>27 DEF Step, Ensure, End, ClientPaced

LEMMA KnownNext ==
  ASSUME Typed, KnownInv, [Next]_vars
  PROVE  KnownInv'
<1> USE DEF Typed, TypeOK, DockerTypeOK, KnownInv, Known, Job, NoJob, Entry,
    Tracked
<1>1. ASSUME NEW p \in Handlers, NEW r \in Requests, NEW u \in Users,
             Begin(p, r, u)
      PROVE  KnownInv'
  BY <1>1 DEF Begin, FirstStep
<1>2. ASSUME NEW p \in Procs, Step(p) \/ ClientPaced(p) PROVE KnownInv'
  BY <1>2, KnownStep
<1>3. CASE ReaperScans
  BY <1>3 DEF ReaperScans, Reapable, Tracked
<1>4. CASE ReaperTakes
  BY <1>4 DEF ReaperTakes
<1>5. ASSUME NEW u \in Users, Keepalive(u) PROVE KnownInv'
  BY <1>5 DEF Keepalive, Tracked
<1>6. ASSUME NEW u \in Users, BecomesIdle(u) PROVE KnownInv'
  BY <1>6 DEF BecomesIdle, Tracked
<1>7. ASSUME NEW i \in Ids, GameExits(i) PROVE KnownInv'
  BY <1>7 DEF GameExits, ContainerExits, manager
<1>8. CASE Restart
  <2> PICK known \in SUBSET Users : containers' = Adopted(known)
    BY <1>8, RestartIs
  <2>1. \A u \in Users : Adopted(known)[u] # None =>
                           /\ Adopted(known)[u].id \in Ids
                           /\ Running(Adopted(known)[u].id)
    BY DEF Adopted, NewEntry, Named
  <2>2. \A i \in Ids : Known(i) => Known(i)'
    BY <1>8, RestartIs
  <2>3. \A u \in Tracked' : containers[u]' = Adopted(known)[u] /\ u \in Users
    BY <1>8 DEF Restart
  <2>4. \A u \in Tracked' : Known(containers[u].id)'
    BY <2>1, <2>2, <2>3 DEF Running
  <2> QED BY <1>8, <2>4 DEF Restart
<1>9. CASE UNCHANGED vars
  BY <1>9
<1> QED
  BY <1>1, <1>2, <1>3, <1>4, <1>5, <1>6, <1>7, <1>8, <1>9 DEF Next, Reap

(* From docker stop on, the container of an export or a delete is down. *)
DownInv ==
  \A p \in Procs :
    /\ At(p, "flag") => job[p].ci = None
    /\ At(p, "rm") => Down(job[p].ci)
    /\ pc[p] \in {"close_log", "forget"} /\ job[p].op \in {"export", "delete"}
         => Down(job[p].ci)
    /\ pc[p] \in {"stream", "drop_user", "remove_dirs"} /\ job[p].ci # None
         => Down(job[p].ci)

LEMMA DownStep ==
  ASSUME Typed, KnownInv, DownInv, "inspect" \notin Faults,
         NEW p \in Procs, Step(p) \/ ClientPaced(p)
  PROVE  DownInv'
<1> USE NoneAssumption DEF Typed, TypeOK, JobOK, HasUser, HasContainer,
          DockerTypeOK, KnownInv, DownInv, Known, Down, Job, NoJob, Resolving,
          Exists
<1>1. CASE EnsureRefuses(p)
  BY <1>1 DEF EnsureRefuses, Unlocked, Tracked
<1>2. CASE EnsureReuses(p)
  BY <1>2 DEF EnsureReuses, Unlocked, Tracked
<1>3. CASE EnsureMisses(p)
  BY <1>3 DEF EnsureMisses, Unlocked, Tracked
<1>4. CASE SpawnMakesDirs(p)
  BY <1>4 DEF SpawnMakesDirs, DirsFail
<1>5. CASE SpawnFreesName(p)
  BY <1>5 DEF SpawnFreesName, RemoveByName
<1>6. CASE SpawnRuns(p)
  <2>1. PICK i \in Ids : /\ RunSucceeds(job[p].uid, i, job[p].uid \in dirs)
                         /\ job' = [job EXCEPT ![p].ci = i]
    BY <1>6 DEF SpawnRuns
  <2>2. /\ cstate[i] = "unused"
        /\ cstate' = [cstate EXCEPT ![i] = "running"]
    BY <2>1 DEF RunSucceeds
  <2> QED BY <1>6, <2>1, <2>2 DEF SpawnRuns
<1>7. CASE SpawnFails(p)
  BY <1>7 DEF SpawnFails, RunFails
<1>8. CASE SpawnInserts(p)
  BY <1>8 DEF SpawnInserts, NewEntry
<1>9. CASE Flag(p)
  BY <1>9 DEF Flag, Unlocked, Tracked
<1>10. CASE CheckStale(p)
  BY <1>10 DEF CheckStale, InspectSaysRunning, InspectSaysStopped, Running,
      ContainerStates
<1>11. CASE DockerStop(p)
  BY <1>11 DEF DockerStop, StopSucceeds, StopFails, OnStopError
<1>12. CASE DockerRemove(p)
  BY <1>12 DEF DockerRemove, RemoveSucceeds, RemoveFails, OnStopError
<1>13. CASE StopSessionLog(p)
  BY <1>13 DEF StopSessionLog
<1>14. CASE Forget(p)
  BY <1>14 DEF Forget, Unlocked, ForgetEntry
<1>15. CASE ForgetFailed(p)
  BY <1>15 DEF ForgetFailed, Unlocked, ForgetEntry
<1>16. CASE Unflag(p)
  BY <1>16 DEF Unflag, Unlocked, Holds
<1>17. CASE DropUser(p)
  BY <1>17 DEF DropUser
<1>18. CASE RemoveDirs(p)
  BY <1>18 DEF RemoveDirs
<1>19. CASE ImportGate(p)
  BY <1>19 DEF ImportGate, Unlocked, Tracked
<1>20. CASE ImportCheck(p)
  <2>1. job[p].ci \in Ids /\ Known(job[p].ci)
    BY <1>20 DEF ImportCheck
  <2>2. InspectSaysStopped(job[p].ci) => Down(job[p].ci)
    BY <2>1 DEF InspectSaysStopped, Running, ContainerStates
  <2>3. CASE Answer(p)
    BY <1>20, <2>3 DEF ImportCheck
  <2>4. CASE InspectSaysStopped(job[p].ci) /\ Goto(p, "forget")
    BY <1>20, <2>2, <2>4 DEF ImportCheck
  <2> QED BY <1>20, <2>3, <2>4 DEF ImportCheck
<1>21. CASE ImportInstalls(p)
  BY <1>21 DEF ImportInstalls
<1>22. CASE TimelineCheck(p)
  BY <1>22 DEF TimelineCheck, Unlocked
<1>23. CASE TimelineOpensLog(p)
  BY <1>23 DEF TimelineOpensLog
<1>24. CASE CreateMakesDirs(p)
  BY <1>24 DEF CreateMakesDirs, DirsFail
<1>25. CASE CreateInsertsUser(p)
  BY <1>25 DEF CreateInsertsUser
<1>26. CASE StreamEnds(p)
  BY <1>26 DEF StreamEnds
<1>27. CASE ImportUpload(p)
  BY <1>27 DEF ImportUpload
<1> QED BY <1>1, <1>2, <1>3, <1>4, <1>5, <1>6, <1>7, <1>8, <1>9, <1>10, <1>11,
    <1>12, <1>13, <1>14, <1>15, <1>16, <1>17, <1>18, <1>19, <1>20, <1>21,
    <1>22, <1>23, <1>24, <1>25, <1>26, <1>27 DEF Step, Ensure, End, ClientPaced

LEMMA DownNext ==
  ASSUME Typed, KnownInv, DownInv, "inspect" \notin Faults, [Next]_vars
  PROVE  DownInv'
<1> USE DEF Typed, TypeOK, DockerTypeOK, DownInv, Down, Job, NoJob, Routes
<1>1. ASSUME NEW p \in Handlers, NEW r \in Requests, NEW u \in Users,
             Begin(p, r, u)
      PROVE  DownInv'
  BY <1>1 DEF Begin, FirstStep
<1>2. ASSUME NEW p \in Procs, Step(p) \/ ClientPaced(p) PROVE DownInv'
  BY <1>2, DownStep
<1>3. CASE ReaperScans
  BY <1>3 DEF ReaperScans, Reapable, Tracked
<1>4. CASE ReaperTakes
  BY <1>4 DEF ReaperTakes
<1>5. ASSUME NEW u \in Users, Keepalive(u) PROVE DownInv'
  BY <1>5 DEF Keepalive, Tracked
<1>6. ASSUME NEW u \in Users, BecomesIdle(u) PROVE DownInv'
  BY <1>6 DEF BecomesIdle, Tracked
<1>7. ASSUME NEW i \in Ids, GameExits(i) PROVE DownInv'
  BY <1>7 DEF GameExits, ContainerExits, Running, manager
<1>8. CASE Restart
  BY <1>8, RestartIs DEF Adopted, NewEntry
<1>9. CASE UNCHANGED vars
  BY <1>9
<1> QED
  BY <1>1, <1>2, <1>3, <1>4, <1>5, <1>6, <1>7, <1>8, <1>9 DEF Next, Reap

(* An archive is streamed, and a user's record and directories are removed,  *)
(* only once the container that the request found is down, as long as docker *)
(* inspect answers truly: an error of it reads as "not running" and would    *)
(* let a delete skip the stop.                                               *)
THEOREM TeardownSafe ==
  ASSUME "inspect" \notin Faults
  PROVE  Spec => []TeardownSeesGameStopped
<1> DEFINE Inv == Typed /\ KnownInv /\ DownInv
<1>1. Init => Inv
  BY TypedInit DEF Init, KnownInv, DownInv, Tracked, NoJob
<1>2. Inv /\ [Next]_vars => Inv'
  BY TypedNext, KnownNext, DownNext
<1>3. Inv => TeardownSeesGameStopped
  BY DEF DownInv, Down, TeardownSeesGameStopped, Running
<1> QED
  BY <1>1, <1>2, <1>3, PTL DEF Spec

-----------------------------------------------------------------------------
(* The mutex.  Whoever spawns holds m.mu, and no entry of its user is in the  *)
(* map from the moment it found none until it inserts one.                    *)

LockInv ==
  /\ \A p \in Procs : pc[p] \in Spawning <=> mu = p
  /\ \A p \in Procs : pc[p] \in Spawning => job[p].uid \notin Tracked

LEMMA LockStep ==
  ASSUME Typed, LockInv, NEW p \in Procs, Step(p) \/ ClientPaced(p)
  PROVE  LockInv'
<1> USE ProcsAssumption DEF Typed, TypeOK, JobOK, HasUser, LockInv, Spawning,
          Tracked, Job, NoJob
<1>1. CASE EnsureRefuses(p)
  BY <1>1 DEF EnsureRefuses, Unlocked, Tracked
<1>2. CASE EnsureReuses(p)
  BY <1>2 DEF EnsureReuses, Unlocked, Tracked
<1>3. CASE EnsureMisses(p)
  BY <1>3 DEF EnsureMisses, Unlocked, Tracked
<1>4. CASE SpawnMakesDirs(p)
  BY <1>4 DEF SpawnMakesDirs, DirsFail
<1>5. CASE SpawnFreesName(p)
  BY <1>5 DEF SpawnFreesName
<1>6. CASE SpawnRuns(p)
  BY <1>6 DEF SpawnRuns
<1>7. CASE SpawnFails(p)
  BY <1>7 DEF SpawnFails
<1>8. CASE SpawnInserts(p)
  BY <1>8 DEF SpawnInserts, NewEntry
<1>9. CASE Flag(p)
  BY <1>9 DEF Flag, Unlocked, Tracked
<1>10. CASE CheckStale(p)
  BY <1>10 DEF CheckStale
<1>11. CASE DockerStop(p)
  BY <1>11 DEF DockerStop, OnStopError
<1>12. CASE DockerRemove(p)
  BY <1>12 DEF DockerRemove, OnStopError
<1>13. CASE StopSessionLog(p)
  BY <1>13 DEF StopSessionLog
<1>14. CASE Forget(p)
  BY <1>14 DEF Forget, Unlocked, ForgetEntry
<1>15. CASE ForgetFailed(p)
  BY <1>15 DEF ForgetFailed, Unlocked, ForgetEntry
<1>16. CASE Unflag(p)
  BY <1>16 DEF Unflag, Unlocked, Holds
<1>17. CASE DropUser(p)
  BY <1>17 DEF DropUser
<1>18. CASE RemoveDirs(p)
  BY <1>18 DEF RemoveDirs
<1>19. CASE ImportGate(p)
  BY <1>19 DEF ImportGate, Unlocked, Tracked
<1>20. CASE ImportCheck(p)
  BY <1>20 DEF ImportCheck
<1>21. CASE ImportInstalls(p)
  BY <1>21 DEF ImportInstalls
<1>22. CASE TimelineCheck(p)
  BY <1>22 DEF TimelineCheck, Unlocked
<1>23. CASE TimelineOpensLog(p)
  BY <1>23 DEF TimelineOpensLog
<1>24. CASE CreateMakesDirs(p)
  BY <1>24 DEF CreateMakesDirs, DirsFail
<1>25. CASE CreateInsertsUser(p)
  BY <1>25 DEF CreateInsertsUser
<1>26. CASE StreamEnds(p)
  BY <1>26 DEF StreamEnds
<1>27. CASE ImportUpload(p)
  BY <1>27 DEF ImportUpload
<1> QED BY <1>1, <1>2, <1>3, <1>4, <1>5, <1>6, <1>7, <1>8, <1>9, <1>10, <1>11,
    <1>12, <1>13, <1>14, <1>15, <1>16, <1>17, <1>18, <1>19, <1>20, <1>21,
    <1>22, <1>23, <1>24, <1>25, <1>26, <1>27 DEF Step, Ensure, End, ClientPaced

LEMMA LockNext ==
  ASSUME Typed, LockInv, [Next]_vars
  PROVE  LockInv'
<1> USE DEF Typed, TypeOK, LockInv, Spawning, Tracked, Job, NoJob
<1>1. ASSUME NEW p \in Handlers, NEW r \in Requests, NEW u \in Users,
             Begin(p, r, u)
      PROVE  LockInv'
  BY <1>1, ProcsAssumption DEF Begin, FirstStep
<1>2. ASSUME NEW p \in Procs, Step(p) \/ ClientPaced(p) PROVE LockInv'
  BY <1>2, LockStep
<1>3. CASE ReaperScans
  BY <1>3 DEF ReaperScans, Reapable, Tracked
<1>4. CASE ReaperTakes
  BY <1>4 DEF ReaperTakes
<1>5. ASSUME NEW u \in Users, Keepalive(u) PROVE LockInv'
  BY <1>5 DEF Keepalive, Tracked
<1>6. ASSUME NEW u \in Users, BecomesIdle(u) PROVE LockInv'
  BY <1>6 DEF BecomesIdle, Tracked
<1>7. ASSUME NEW i \in Ids, GameExits(i) PROVE LockInv'
  BY <1>7 DEF GameExits, ContainerExits, manager
<1>8. CASE Restart
  BY <1>8, ProcsAssumption, RestartIs
<1>9. CASE UNCHANGED vars
  BY <1>9
<1> QED
  BY <1>1, <1>2, <1>3, <1>4, <1>5, <1>6, <1>7, <1>8, <1>9 DEF Next, Reap

LEMMA ConflictStep ==
  ASSUME Typed, LockInv, RunNeverConflicts, NEW p \in Procs,
         Step(p) \/ ClientPaced(p)
  PROVE  RunNeverConflicts'
<1> USE DEF Typed, TypeOK, JobOK, HasUser, LockInv, Spawning, DockerTypeOK,
            RunNeverConflicts, Named, Exists, Job, NoJob
<1>1. CASE EnsureRefuses(p)
  BY <1>1 DEF EnsureRefuses
<1>2. CASE EnsureReuses(p)
  BY <1>2 DEF EnsureReuses
<1>3. CASE EnsureMisses(p)
  BY <1>3 DEF EnsureMisses
<1>4. CASE SpawnMakesDirs(p)
  BY <1>4 DEF SpawnMakesDirs, DirsFail
<1>5. CASE SpawnFreesName(p)
  BY <1>5 DEF SpawnFreesName, RemoveByName
<1>6. CASE SpawnRuns(p)
  BY <1>6 DEF SpawnRuns
<1>7. CASE SpawnFails(p)
  BY <1>7 DEF SpawnFails
<1>8. CASE SpawnInserts(p)
  BY <1>8 DEF SpawnInserts
<1>9. CASE Flag(p)
  BY <1>9 DEF Flag
<1>10. CASE CheckStale(p)
  BY <1>10 DEF CheckStale
<1>11. CASE DockerStop(p)
  BY <1>11 DEF DockerStop, StopSucceeds, StopFails, OnStopError
<1>12. CASE DockerRemove(p)
  BY <1>12 DEF DockerRemove, RemoveSucceeds, RemoveFails, OnStopError
<1>13. CASE StopSessionLog(p)
  BY <1>13 DEF StopSessionLog
<1>14. CASE Forget(p)
  BY <1>14 DEF Forget
<1>15. CASE ForgetFailed(p)
  BY <1>15 DEF ForgetFailed
<1>16. CASE Unflag(p)
  BY <1>16 DEF Unflag
<1>17. CASE DropUser(p)
  BY <1>17 DEF DropUser
<1>18. CASE RemoveDirs(p)
  BY <1>18 DEF RemoveDirs
<1>19. CASE ImportGate(p)
  BY <1>19 DEF ImportGate
<1>20. CASE ImportCheck(p)
  BY <1>20 DEF ImportCheck
<1>21. CASE ImportInstalls(p)
  BY <1>21 DEF ImportInstalls
<1>22. CASE TimelineCheck(p)
  BY <1>22 DEF TimelineCheck
<1>23. CASE TimelineOpensLog(p)
  BY <1>23 DEF TimelineOpensLog
<1>24. CASE CreateMakesDirs(p)
  BY <1>24 DEF CreateMakesDirs, DirsFail
<1>25. CASE CreateInsertsUser(p)
  BY <1>25 DEF CreateInsertsUser
<1>26. CASE StreamEnds(p)
  BY <1>26 DEF StreamEnds
<1>27. CASE ImportUpload(p)
  BY <1>27 DEF ImportUpload
<1> QED BY <1>1, <1>2, <1>3, <1>4, <1>5, <1>6, <1>7, <1>8, <1>9, <1>10, <1>11,
    <1>12, <1>13, <1>14, <1>15, <1>16, <1>17, <1>18, <1>19, <1>20, <1>21,
    <1>22, <1>23, <1>24, <1>25, <1>26, <1>27 DEF Step, Ensure, End, ClientPaced

LEMMA ConflictNext ==
  ASSUME Typed, LockInv, RunNeverConflicts, [Next]_vars
  PROVE  RunNeverConflicts'
<1> USE DEF Typed, TypeOK, DockerTypeOK, RunNeverConflicts, Named, Exists, Job,
    NoJob
<1>1. ASSUME NEW p \in Handlers, NEW r \in Requests, NEW u \in Users,
             Begin(p, r, u)
      PROVE  RunNeverConflicts'
  BY <1>1 DEF Begin, FirstStep
<1>2. ASSUME NEW p \in Procs, Step(p) \/ ClientPaced(p) PROVE
    RunNeverConflicts'
  BY <1>2, ConflictStep
<1>3. CASE ReaperScans
  BY <1>3 DEF ReaperScans, Reapable, Tracked
<1>4. CASE ReaperTakes
  BY <1>4 DEF ReaperTakes
<1>5. ASSUME NEW u \in Users, Keepalive(u) PROVE RunNeverConflicts'
  BY <1>5 DEF Keepalive, Tracked
<1>6. ASSUME NEW u \in Users, BecomesIdle(u) PROVE RunNeverConflicts'
  BY <1>6 DEF BecomesIdle, Tracked
<1>7. ASSUME NEW i \in Ids, GameExits(i) PROVE RunNeverConflicts'
  BY <1>7 DEF GameExits, ContainerExits, Running, manager
<1>8. CASE Restart
  BY <1>8, RestartIs DEF Adopted, NewEntry
<1>9. CASE UNCHANGED vars
  BY <1>9
<1> QED
  BY <1>1, <1>2, <1>3, <1>4, <1>5, <1>6, <1>7, <1>8, <1>9 DEF Next, Reap

(* As long as docker rm -f does what it says, docker run never finds the name *)
(* of its container taken, whoever spawns, stops and deletes at the same time. *)
THEOREM NamesAreFree == Spec => []RunNeverConflicts
<1>1. Init => Typed /\ LockInv /\ RunNeverConflicts
  BY TypedInit, ProcsAssumption DEF Init, LockInv, Spawning, RunNeverConflicts
<1>2. Typed /\ LockInv /\ RunNeverConflicts /\ [Next]_vars
        => (Typed /\ LockInv /\ RunNeverConflicts)'
  BY TypedNext, LockNext, ConflictNext
<1> QED
  BY <1>1, <1>2, PTL DEF Spec

-----------------------------------------------------------------------------
(* No orphans.  A name belongs to one container at a time; a container is     *)
(* down before its entry is forgotten, as long as docker stop fails for no    *)
(* other reason than that it is gone, and docker inspect tells the truth; and *)
(* if the manager restarts, it adopts whatever runs, as long as it can list   *)
(* it and every user stays in the store.  Any other command may fail.         *)

StopsAreSure == "stop" \notin Faults /\ "inspect" \notin Faults
RestartsAdopt ==
  MaxRestarts = 0
    \/ ({"list", "lookup"} \cap Faults = {} /\ "delete" \notin Requests)

NamesInv ==
  /\ \A i \in Ids : Known(i) => cname[i] \in Users
  /\ \A i, j \in Ids : Exists(i) /\ Exists(j) /\ cname[i] = cname[j] => i = j

LEMMA NamesStep ==
  ASSUME Typed, KnownInv, NamesInv, NEW p \in Procs, Step(p) \/ ClientPaced(p)
  PROVE  NamesInv'
<1> USE NoneAssumption DEF Typed, TypeOK, JobOK, HasUser, HasContainer,
          DockerTypeOK, KnownInv, NamesInv, Known, Exists, Resolving
<1>1. CASE EnsureRefuses(p)
  BY <1>1 DEF EnsureRefuses
<1>2. CASE EnsureReuses(p)
  BY <1>2 DEF EnsureReuses
<1>3. CASE EnsureMisses(p)
  BY <1>3 DEF EnsureMisses
<1>4. CASE SpawnMakesDirs(p)
  BY <1>4 DEF SpawnMakesDirs, DirsFail
<1>5. CASE SpawnFreesName(p)
  BY <1>5 DEF SpawnFreesName, RemoveByName, Named
<1>6. CASE SpawnRuns(p)
  <2> DEFINE u == job[p].uid
  <2>1. PICK i \in Ids : RunSucceeds(u, i, u \in dirs)
    BY <1>6 DEF SpawnRuns
  <2>2. /\ Named(u) = {} /\ u \in Users
        /\ cstate' = [cstate EXCEPT ![i] = "running"]
        /\ cname' = [cname EXCEPT ![i] = u]
    BY <1>6, <2>1 DEF RunSucceeds, SpawnRuns
  <2>3. \A j \in Ids : j # i /\ Exists(j)' => cname[j] # u
    BY <2>2 DEF Named
  <2> QED BY <2>2, <2>3
<1>7. CASE SpawnFails(p)
  BY <1>7 DEF SpawnFails, RunFails
<1>8. CASE SpawnInserts(p)
  BY <1>8 DEF SpawnInserts
<1>9. CASE Flag(p)
  BY <1>9 DEF Flag
<1>10. CASE CheckStale(p)
  BY <1>10 DEF CheckStale
<1>11. CASE DockerStop(p)
  BY <1>11 DEF DockerStop, StopSucceeds, StopFails
<1>12. CASE DockerRemove(p)
  BY <1>12 DEF DockerRemove, RemoveSucceeds, RemoveFails
<1>13. CASE StopSessionLog(p)
  BY <1>13 DEF StopSessionLog
<1>14. CASE Forget(p)
  BY <1>14 DEF Forget
<1>15. CASE ForgetFailed(p)
  BY <1>15 DEF ForgetFailed
<1>16. CASE Unflag(p)
  BY <1>16 DEF Unflag
<1>17. CASE DropUser(p)
  BY <1>17 DEF DropUser
<1>18. CASE RemoveDirs(p)
  BY <1>18 DEF RemoveDirs
<1>19. CASE ImportGate(p)
  BY <1>19 DEF ImportGate
<1>20. CASE ImportCheck(p)
  BY <1>20 DEF ImportCheck
<1>21. CASE ImportInstalls(p)
  BY <1>21 DEF ImportInstalls
<1>22. CASE TimelineCheck(p)
  BY <1>22 DEF TimelineCheck
<1>23. CASE TimelineOpensLog(p)
  BY <1>23 DEF TimelineOpensLog
<1>24. CASE CreateMakesDirs(p)
  BY <1>24 DEF CreateMakesDirs, DirsFail
<1>25. CASE CreateInsertsUser(p)
  BY <1>25 DEF CreateInsertsUser
<1>26. CASE StreamEnds(p)
  BY <1>26 DEF StreamEnds
<1>27. CASE ImportUpload(p)
  BY <1>27 DEF ImportUpload
<1> QED BY <1>1, <1>2, <1>3, <1>4, <1>5, <1>6, <1>7, <1>8, <1>9, <1>10, <1>11,
    <1>12, <1>13, <1>14, <1>15, <1>16, <1>17, <1>18, <1>19, <1>20, <1>21,
    <1>22, <1>23, <1>24, <1>25, <1>26, <1>27 DEF Step, Ensure, End, ClientPaced

LEMMA NamesNext ==
  ASSUME Typed, KnownInv, NamesInv, [Next]_vars
  PROVE  NamesInv'
<1> USE DEF Typed, TypeOK, DockerTypeOK, NamesInv, Known, Exists
<1>1. ASSUME NEW p \in Handlers, NEW r \in Requests, NEW u \in Users,
             Begin(p, r, u)
      PROVE  NamesInv'
  BY <1>1 DEF Begin, FirstStep
<1>2. ASSUME NEW p \in Procs, Step(p) \/ ClientPaced(p) PROVE NamesInv'
  BY <1>2, NamesStep
<1>3. CASE ReaperScans
  BY <1>3 DEF ReaperScans, Reapable, Tracked
<1>4. CASE ReaperTakes
  BY <1>4 DEF ReaperTakes
<1>5. ASSUME NEW u \in Users, Keepalive(u) PROVE NamesInv'
  BY <1>5 DEF Keepalive, Tracked
<1>6. ASSUME NEW u \in Users, BecomesIdle(u) PROVE NamesInv'
  BY <1>6 DEF BecomesIdle, Tracked
<1>7. ASSUME NEW i \in Ids, GameExits(i) PROVE NamesInv'
  BY <1>7 DEF GameExits, ContainerExits, Running, manager
<1>8. CASE Restart
  BY <1>8, RestartIs DEF Adopted, NewEntry
<1>9. CASE UNCHANGED vars
  BY <1>9
<1> QED
  BY <1>1, <1>2, <1>3, <1>4, <1>5, <1>6, <1>7, <1>8, <1>9 DEF Next, Reap

GamesInv ==
  /\ "delete" \notin Requests =>
       /\ users = Users
       /\ \A p \in Procs : job[p].op # "delete" /\ ~At(p, "drop_user")
  /\ \A p \in Procs :
       /\ At(p, "spawn_insert") => cname[job[p].ci] = job[p].uid
       /\ pc[p] \in {"rm", "close_log", "forget", "forget_failed"}
            => Down(job[p].ci)
  /\ NoOrphans

(* Setting a flag of an entry changes neither who has one nor its id. *)
LEMMA FlagsKeepIds ==
  ASSUME Typed, NEW u \in Tracked, NEW b \in BOOLEAN,
         \/ containers' = [containers EXCEPT ![u].stopping = b]
         \/ containers' = [containers EXCEPT ![u].idle = b]
  PROVE  /\ Tracked' = Tracked
         /\ \A v \in Users, i \in Ids : Holds(v, i)' <=> Holds(v, i)
<1>1. u \in Users /\ containers[u] \in Entry /\ containers[u] # None
  BY DEF Typed, TypeOK, Tracked
<1>2. containers'[u].id = containers[u].id /\ containers'[u] \in Entry
  BY <1>1 DEF Typed, TypeOK, Entry
<1>3. containers'[u] # None
  BY <1>2, EntryAssumption DEF Typed, TypeOK, Entry
<1>4. \A v \in Users \ {u} : containers'[v] = containers[v]
  BY DEF Typed, TypeOK
<1> QED BY <1>1, <1>2, <1>3, <1>4 DEF Tracked, Holds

(* Where nobody is deleted, an admin's insert changes nothing. *)
LEMMA CreatedStays ==
  ASSUME Typed, GamesInv, NEW p \in Procs, CreateInsertsUser(p),
         "delete" \notin Requests
  PROVE  users' = Users
<1>1. users = Users
  BY DEF GamesInv
<1>2. job[p].uid \in Users
  BY DEF CreateInsertsUser, At, Typed, JobOK, HasUser
<1> QED BY <1>1, <1>2 DEF CreateInsertsUser

LEMMA GamesStep ==
  ASSUME Typed, KnownInv, LockInv, NamesInv, GamesInv, StopsAreSure,
         NEW p \in Procs, Step(p) \/ ClientPaced(p)
  PROVE  GamesInv'
<1> USE NoneAssumption DEF Typed, TypeOK, JobOK, HasUser, HasContainer,
          StopsAreSure, DockerTypeOK, KnownInv, LockInv, NamesInv, GamesInv, NoOrphans,
          RunningContainers, Running, Holds, Known, Down, Exists, Spawning,
          Resolving, Job, NoJob, Entry, ContainerStates
<1>1. CASE EnsureRefuses(p)
  BY <1>1 DEF EnsureRefuses, Unlocked, Tracked
<1>2. CASE EnsureReuses(p)
  <2>0. /\ job[p].uid \in Tracked
        /\ containers' = [containers EXCEPT ![job[p].uid].idle = FALSE]
    BY <1>2 DEF EnsureReuses
  <2>1. \A v \in Users, i \in Ids : Holds(v, i)' <=> Holds(v, i)
    <3>1. Typed
      OBVIOUS
    <3> QED BY ONLY <2>0, <3>1, FlagsKeepIds
  <2>2. NoOrphans'
    BY <1>2, <2>1 DEF EnsureReuses
  <2> QED BY <1>2, <2>2 DEF EnsureReuses
<1>3. CASE EnsureMisses(p)
  BY <1>3 DEF EnsureMisses, Unlocked, Tracked, InspectSaysStopped
<1>4. CASE SpawnMakesDirs(p)
  BY <1>4 DEF SpawnMakesDirs, DirsFail
<1>5. CASE SpawnFreesName(p)
  BY <1>5 DEF SpawnFreesName, RemoveByName, Named
<1>6. CASE SpawnRuns(p)
  BY <1>6 DEF SpawnRuns, RunSucceeds, Named
<1>7. CASE SpawnFails(p)
  BY <1>7 DEF SpawnFails, RunFails
<1>8. CASE SpawnInserts(p)
  <2>0. PICK u \in Users, c \in Ids : u = job[p].uid /\ c = job[p].ci
    BY <1>8 DEF SpawnInserts
  <2>1. /\ containers' = [containers EXCEPT ![u] = NewEntry(c)]
        /\ u \notin Tracked /\ cname[c] = u
        /\ UNCHANGED <<cstate, cname, users>>
    BY <1>8, <2>0 DEF SpawnInserts
  <2>2. Holds(u, c)'
    <3>1. NewEntry(c) \in Entry /\ NewEntry(c).id = c
      BY DEF NewEntry
    <3>2. containers'[u] = NewEntry(c)
      BY <2>1
    <3> QED BY <3>1, <3>2, EntryAssumption
  <2>3. ASSUME NEW i \in Ids, NEW v \in Users, Holds(v, i) PROVE Holds(v, i)'
    BY <2>1, <2>3 DEF Tracked
  <2>4. NoOrphans'
    <3> SUFFICES ASSUME NEW i \in Ids, Running(i)' PROVE Holds(cname[i], i)'
      BY <2>1
    <3>1. Running(i) /\ cname[i] \in Users
      BY <2>1
    <3>2. CASE Holds(cname[i], i)
      BY <2>1, <2>3, <3>1, <3>2
    <3>3. CASE \E q \in Procs : At(q, "spawn_insert") /\ job[q].ci = i
      <4>1. c = i
        BY <1>8, <2>0, <3>3 DEF SpawnInserts
      <4> QED BY <2>1, <2>2, <4>1
    <3> QED BY <3>1, <3>2, <3>3
  <2> QED BY <1>8, <2>1, <2>4 DEF SpawnInserts
<1>9. CASE Flag(p)
  <2>1. \A v \in Users, i \in Ids : Holds(v, i)' <=> Holds(v, i)
    BY <1>9, FlagsKeepIds DEF Flag
  <2>2. NoOrphans'
    BY SMTT(30), <1>9, <2>1 DEF Flag
  <2>3. \A q \in Procs : q # p => pc'[q] = pc[q] /\ job'[q] = job[q]
    BY <1>9 DEF Flag
  <2>4. /\ \/ job'[p].op = job[p].op /\ job'[p].uid = job[p].uid
           \/ job'[p] = NoJob
        /\ pc'[p] \in {"stop", "check_stale", "stream", "drop_user", "idle"}
        /\ pc'[p] = "drop_user" => job[p].op = "delete"
    BY <1>9 DEF Flag
  <2>5. UNCHANGED <<users, cstate, cname>>
    BY <1>9 DEF Flag
  <2> QED BY SMTT(30), <2>2, <2>3, <2>4, <2>5
<1>10. CASE CheckStale(p)
  BY <1>10 DEF CheckStale, InspectSaysStopped
<1>11. CASE DockerStop(p)
  BY <1>11 DEF DockerStop, StopSucceeds, StopFails, OnStopError
<1>12. CASE DockerRemove(p)
  BY <1>12 DEF DockerRemove, RemoveSucceeds, RemoveFails, OnStopError
<1>13. CASE StopSessionLog(p)
  BY <1>13 DEF StopSessionLog
<1>14. CASE Forget(p)
  BY <1>14 DEF Forget, Unlocked, ForgetEntry
<1>15. CASE ForgetFailed(p)
  BY <1>15 DEF ForgetFailed, Unlocked, ForgetEntry
<1>16. CASE Unflag(p)
  <2>1. \A v \in Users, i \in Ids : Holds(v, i)' <=> Holds(v, i)
    <3>1. CASE Holds(job[p].uid, job[p].ci)
      <4>1. job[p].uid \in Tracked
        BY <1>16, <3>1 DEF Unflag, Tracked
      <4> QED BY ZenonT(30), <1>16, <3>1, <4>1, FlagsKeepIds DEF Unflag
    <3>2. CASE ~Holds(job[p].uid, job[p].ci)
      BY <1>16, <3>2 DEF Unflag
    <3> QED BY <3>1, <3>2
  <2>2. NoOrphans'
    BY <1>16, <2>1 DEF Unflag
  <2> QED BY <1>16, <2>2 DEF Unflag
<1>17. CASE DropUser(p)
  BY <1>17 DEF DropUser
<1>18. CASE RemoveDirs(p)
  BY <1>18 DEF RemoveDirs
<1>19. CASE ImportGate(p)
  BY <1>19 DEF ImportGate, Unlocked, Tracked
<1>20. CASE ImportCheck(p)
  BY <1>20 DEF ImportCheck, InspectSaysStopped
<1>21. CASE ImportInstalls(p)
  BY <1>21 DEF ImportInstalls
<1>22. CASE TimelineCheck(p)
  BY <1>22 DEF TimelineCheck, Unlocked
<1>23. CASE TimelineOpensLog(p)
  BY <1>23 DEF TimelineOpensLog
<1>24. CASE CreateMakesDirs(p)
  BY <1>24 DEF CreateMakesDirs, DirsFail
<1>25. CASE CreateInsertsUser(p)
  <2>1. users' = users \cup {job[p].uid} \/ users' = users
    BY <1>25 DEF CreateInsertsUser
  <2>2. /\ pc' = [pc EXCEPT ![p] = "idle"] /\ job' = [job EXCEPT ![p] = NoJob]
        /\ UNCHANGED <<cstate, cname, containers>>
    BY <1>25 DEF CreateInsertsUser, docker
  <2>3. "delete" \notin Requests => users' = Users
    BY ONLY <1>25, CreatedStays, Typed, GamesInv, p \in Procs
  <2>4. \A q \in Procs : q # p => pc'[q] = pc[q] /\ job'[q] = job[q]
    BY <2>2
  <2>5. /\ pc'[p] = "idle" /\ job'[p].op # "delete"
        /\ pc[p] = "insert_user"
    BY <1>25, <2>2 DEF CreateInsertsUser, At
  <2>6. ASSUME NEW q \in Procs, At(q, "spawn_insert")
        PROVE  At(q, "spawn_insert")' /\ job'[q] = job[q]
    BY <2>4, <2>5, <2>6 DEF At
  <2>7. NoOrphans'
    <3> SUFFICES ASSUME NEW i \in RunningContainers'
                 PROVE  \/ Holds(cname[i], i)'
                        \/ \E q \in Procs : At(q, "spawn_insert")' /\ job'[q].ci = i
      BY <2>2 DEF NoOrphans
    <3>1. i \in RunningContainers /\ (Holds(cname[i], i)' <=> Holds(cname[i], i))
      BY <2>2
    <3> QED BY <3>1, <2>6 DEF NoOrphans
  <2> QED BY <2>2, <2>3, <2>4, <2>5, <2>7
<1>26. CASE StreamEnds(p)
  BY <1>26 DEF StreamEnds
<1>27. CASE ImportUpload(p)
  BY <1>27 DEF ImportUpload
<1> QED BY <1>1, <1>2, <1>3, <1>4, <1>5, <1>6, <1>7, <1>8, <1>9, <1>10, <1>11,
    <1>12, <1>13, <1>14, <1>15, <1>16, <1>17, <1>18, <1>19, <1>20, <1>21,
    <1>22, <1>23, <1>24, <1>25, <1>26, <1>27 DEF Step, Ensure, End, ClientPaced

(* If it can list what runs and look up who is in the store, a restart finds  *)
(* all games, as long as nobody was deleted.                                  *)
LEMMA RestartAdoptsAll ==
  ASSUME Typed, GamesInv, RestartsAdopt, Restart
  PROVE  /\ containers' = Adopted(Users) /\ users' = Users
         /\ \A i \in Ids : Running(i)' <=> Running(i)
         /\ cname' = cname
         /\ pc' = [p \in Procs |-> "idle"] /\ job' = [p \in Procs |-> NoJob]
<1>1. /\ {"list", "lookup"} \cap Faults = {} /\ users = Users
  BY MaxRestartsAssumption DEF Restart, RestartsAdopt, GamesInv, Typed, TypeOK
<1>2. users' = Users
  BY <1>1, RestartIs DEF Typed
<1>3. containers' = Adopted(Users)
  BY <1>1, <1>2 DEF Restart, Reconciles
<1>4. \A i \in Ids : Running(i)' <=> Running(i)
  BY RestartIs DEF Running, Typed
<1> QED BY <1>2, <1>3, <1>4, RestartIs DEF Typed

LEMMA GamesNext ==
  ASSUME Typed, KnownInv, LockInv, NamesInv, GamesInv, StopsAreSure, RestartsAdopt,
         [Next]_vars
  PROVE  GamesInv'
<1> USE DEF Typed, TypeOK, JobOK, DockerTypeOK, KnownInv, NamesInv, GamesInv,
    NoOrphans, RunningContainers, Running, Known, Down, Exists, Job, NoJob,
    Spawning
<1>1. ASSUME NEW p \in Handlers, NEW r \in Requests, NEW u \in Users,
             Begin(p, r, u)
      PROVE  GamesInv'
  BY <1>1 DEF Begin, FirstStep, Holds
<1>2. ASSUME NEW p \in Procs, Step(p) \/ ClientPaced(p) PROVE GamesInv'
  BY <1>2, GamesStep
<1>3. CASE ReaperScans
  <2>1. \A v \in Users, i \in Ids : Holds(v, i) => Holds(v, i)'
    <3> SUFFICES ASSUME NEW v \in Users, NEW i \in Ids, Holds(v, i)
                 PROVE  Holds(v, i)'
      OBVIOUS
    <3>1. CASE v \in Reapable
      <4>1. containers[v] \in Entry /\ containers[v].id = i
        BY <3>1 DEF Holds, Reapable, Tracked
      <4>2. containers'[v] = [containers[v] EXCEPT !.stopping = TRUE]
        BY <1>3, <3>1 DEF ReaperScans
      <4>3. containers'[v] \in Entry /\ containers'[v].id = i
        BY <4>1, <4>2 DEF Entry
      <4> QED BY <4>3, EntryAssumption DEF Holds
    <3>2. CASE v \notin Reapable
      BY <1>3, <3>2 DEF ReaperScans, Holds
    <3> QED BY <3>1, <3>2
  <2> QED BY <1>3, <2>1 DEF ReaperScans
<1>4. CASE ReaperTakes
  BY <1>4 DEF ReaperTakes, Holds
<1>5. ASSUME NEW u \in Users, Keepalive(u) PROVE GamesInv'
  <2>1. \A v \in Users, i \in Ids : Holds(v, i)' <=> Holds(v, i)
    BY <1>5, FlagsKeepIds DEF Keepalive
  <2> QED BY <1>5, <2>1 DEF Keepalive
<1>6. ASSUME NEW u \in Users, BecomesIdle(u) PROVE GamesInv'
  <2>1. \A v \in Users, i \in Ids : Holds(v, i)' <=> Holds(v, i)
    BY <1>6, FlagsKeepIds DEF BecomesIdle
  <2> QED BY <1>6, <2>1 DEF BecomesIdle
<1>7. ASSUME NEW i \in Ids, GameExits(i) PROVE GamesInv'
  BY <1>7 DEF GameExits, ContainerExits, manager, Holds
<1>8. CASE Restart
  <2>1. /\ containers' = Adopted(Users) /\ users' = Users
        /\ \A i \in Ids : Running(i)' <=> Running(i)
        /\ cname' = cname
        /\ pc' = [p \in Procs |-> "idle"] /\ job' = [p \in Procs |-> NoJob]
    BY <1>8, RestartAdoptsAll
  <2>2. ASSUME NEW i \in Ids, Running(i)' PROVE Holds(cname[i], i)'
    <3>1. Running(i) /\ cname[i] \in Users /\ i \in Named(cname[i])
      BY <2>1, <2>2 DEF Named
    <3>2. \A j \in Named(cname[i]) : Running(j) => j = i
      BY <3>1 DEF Named
    <3>3. Adopted(Users)[cname[i]] = NewEntry(i)
      BY <2>1, <3>1, <3>2 DEF Adopted
    <3>4. NewEntry(i) \in Entry /\ NewEntry(i).id = i
      BY DEF NewEntry, Entry
    <3> QED BY <2>1, <3>1, <3>3, <3>4, EntryAssumption DEF Holds
  <2> QED BY <2>1, <2>2
<1>9. CASE UNCHANGED vars
  BY <1>9 DEF Holds
<1> QED
  BY <1>1, <1>2, <1>3, <1>4, <1>5, <1>6, <1>7, <1>8, <1>9 DEF Next, Reap

(* All of it together.                                                        *)
GamesAll == Typed /\ KnownInv /\ LockInv /\ NamesInv /\ GamesInv

LEMMA GamesAllInit == Init => GamesAll
<1> SUFFICES ASSUME Init PROVE GamesAll
  OBVIOUS
<1>1. Typed
  BY TypedInit
<1>2. KnownInv
  BY DEF Init, KnownInv, Tracked, NoJob
<1>3. LockInv
  BY ProcsAssumption DEF Init, LockInv, Spawning
<1>4. NamesInv
  BY DEF Init, DockerInit, NamesInv, Known, Exists
<1>5. GamesInv
  BY DEF Init, DockerInit, GamesInv, NoOrphans, RunningContainers, Running,
      NoJob
<1> QED BY <1>1, <1>2, <1>3, <1>4, <1>5 DEF GamesAll

LEMMA GamesAllNext ==
  ASSUME GamesAll, StopsAreSure, RestartsAdopt, [Next]_vars
  PROVE  GamesAll'
<1>1. Typed' /\ KnownInv' /\ LockInv' /\ NamesInv'
  BY TypedNext, KnownNext, LockNext, NamesNext DEF GamesAll
<1>2. GamesInv'
  BY GamesNext DEF GamesAll
<1> QED BY <1>1, <1>2 DEF GamesAll

(* Every game that runs is in the map of sessions or about to be inserted,    *)
(* through crashes of games, failures to run, remove or store, and restarts   *)
(* of the manager.                                                            *)
THEOREM NoGameUnnoticed ==
  ASSUME StopsAreSure, RestartsAdopt
  PROVE  Spec => []NoOrphans
<1>1. Init => GamesAll
  BY GamesAllInit
<1>2. GamesAll /\ [Next]_vars => GamesAll'
  BY GamesAllNext
<1>3. GamesAll => NoOrphans
  BY DEF GamesAll, GamesInv
<1> QED
  BY <1>1, <1>2, <1>3, PTL DEF Spec

-----------------------------------------------------------------------------
(* The cap.  The users with an entry, or for whom a spawn is under way, are   *)
(* at most MaxSessions: only the step that passes the test of the cap adds to *)
(* them, and a restart finds no game of anybody else.                         *)

Spawners == {u \in Users : \E p \in Procs : pc[p] \in Spawning /\ job[p].uid =
    u}
Busy == Tracked \cup Spawners

CapInv == Cardinality(Busy) <= MaxSessions

(* Fewer busy users are no problem. *)
LEMMA BusyShrinks ==
  ASSUME IsFiniteSet(Users), CapInv, Busy' \subseteq Busy
  PROVE  CapInv'
<1>1. IsFiniteSet(Busy)
  BY FS_Subset DEF Busy, Tracked, Spawners
<1>2. Cardinality(Busy') <= Cardinality(Busy) /\ IsFiniteSet(Busy')
  BY <1>1, FS_Subset
<1>3. Cardinality(Busy) \in Nat /\ Cardinality(Busy') \in Nat
  BY <1>1, <1>2, FS_CardinalityType
<1> QED BY <1>2, <1>3, MaxSessionsAssumption DEF CapInv

LEMMA CapMiss ==
  ASSUME IsFiniteSet(Users), GamesAll, CapInv, NEW p \in Procs, EnsureMisses(p)
  PROVE  CapInv'
<1> PICK u \in Users : u = job[p].uid
  BY DEF GamesAll, Typed, JobOK, HasUser, EnsureMisses
<1>1. Tracked' = Tracked \ {u}
  BY DEF EnsureMisses, Tracked, GamesAll, Typed, TypeOK
<1>2. CASE AtCap(u)
  <2>1. Spawners' \subseteq Spawners
    BY <1>2 DEF EnsureMisses, Spawners, Spawning, GamesAll, Typed, TypeOK
  <2> QED BY <1>1, <2>1, BusyShrinks DEF Busy
<1>3. CASE ~AtCap(u)
  <2>1. Spawners' = {u}
    <3>1. \A q \in Procs : pc[q] \notin Spawning
      BY ProcsAssumption DEF EnsureMisses, Unlocked, GamesAll, LockInv
    <3>2. pc' = [pc EXCEPT ![p] = "spawn_dirs"] /\ job' = job
      BY <1>3 DEF EnsureMisses
    <3> QED BY <3>1, <3>2 DEF Spawners, Spawning, GamesAll, Typed, TypeOK
  <2>2. Busy' = (Tracked \ {u}) \cup {u}
    BY <1>1, <2>1 DEF Busy
  <2>3. IsFiniteSet(Tracked \ {u})
    BY FS_Subset DEF Tracked
  <2>4. Cardinality(Busy') = Cardinality(Tracked \ {u}) + 1
    BY <2>2, <2>3, FS_AddElement
  <2>5. Cardinality(Tracked \ {u}) \in Nat
    BY <2>3, FS_CardinalityType
  <2> QED BY <1>3, <2>4, <2>5, MaxSessionsAssumption DEF AtCap, CapInv
<1> QED BY <1>2, <1>3

LEMMA CapStep ==
  ASSUME IsFiniteSet(Users), GamesAll, CapInv, NEW p \in Procs,
         Step(p) \/ ClientPaced(p)
  PROVE  CapInv'
<1> USE DEF GamesAll, Typed, TypeOK, JobOK, HasUser, LockInv, Busy, Spawners,
            Tracked, Spawning, Job, NoJob
<1>1. CASE EnsureRefuses(p)
  <2>1. Busy' \subseteq Busy
    BY <1>1 DEF EnsureRefuses, Unlocked
  <2> QED BY <2>1, BusyShrinks
<1>2. CASE EnsureReuses(p)
  <2>1. Busy' \subseteq Busy
    BY <1>2 DEF EnsureReuses, Unlocked
  <2> QED BY <2>1, BusyShrinks
<1>3. CASE EnsureMisses(p)
  BY <1>3, CapMiss
<1>4. CASE SpawnMakesDirs(p)
  <2>1. Busy' \subseteq Busy
    BY <1>4 DEF SpawnMakesDirs, DirsFail
  <2> QED BY <2>1, BusyShrinks
<1>5. CASE SpawnFreesName(p)
  <2>1. Busy' \subseteq Busy
    BY <1>5 DEF SpawnFreesName
  <2> QED BY <2>1, BusyShrinks
<1>6. CASE SpawnRuns(p)
  <2>1. Busy' \subseteq Busy
    BY <1>6 DEF SpawnRuns
  <2> QED BY <2>1, BusyShrinks
<1>7. CASE SpawnFails(p)
  <2>1. Busy' \subseteq Busy
    BY <1>7 DEF SpawnFails
  <2> QED BY <2>1, BusyShrinks
<1>8. CASE SpawnInserts(p)
  <2>1. Busy' \subseteq Busy
    BY <1>8 DEF SpawnInserts, NewEntry
  <2> QED BY <2>1, BusyShrinks
<1>9. CASE Flag(p)
  <2>1. Busy' \subseteq Busy
    BY <1>9 DEF Flag, Unlocked
  <2> QED BY <2>1, BusyShrinks
<1>10. CASE CheckStale(p)
  <2>1. Busy' \subseteq Busy
    BY <1>10 DEF CheckStale
  <2> QED BY <2>1, BusyShrinks
<1>11. CASE DockerStop(p)
  <2>1. Busy' \subseteq Busy
    BY <1>11 DEF DockerStop, OnStopError
  <2> QED BY <2>1, BusyShrinks
<1>12. CASE DockerRemove(p)
  <2>1. Busy' \subseteq Busy
    BY <1>12 DEF DockerRemove, OnStopError
  <2> QED BY <2>1, BusyShrinks
<1>13. CASE StopSessionLog(p)
  <2>1. Busy' \subseteq Busy
    BY <1>13 DEF StopSessionLog
  <2> QED BY <2>1, BusyShrinks
<1>14. CASE Forget(p)
  <2>1. Busy' \subseteq Busy
    BY <1>14 DEF Forget, Unlocked, ForgetEntry
  <2> QED BY <2>1, BusyShrinks
<1>15. CASE ForgetFailed(p)
  <2>1. Busy' \subseteq Busy
    BY <1>15 DEF ForgetFailed, Unlocked, ForgetEntry
  <2> QED BY <2>1, BusyShrinks
<1>16. CASE Unflag(p)
  <2>1. Busy' \subseteq Busy
    BY <1>16 DEF Unflag, Unlocked, Holds
  <2> QED BY <2>1, BusyShrinks
<1>17. CASE DropUser(p)
  <2>1. Busy' \subseteq Busy
    BY <1>17 DEF DropUser
  <2> QED BY <2>1, BusyShrinks
<1>18. CASE RemoveDirs(p)
  <2>1. Busy' \subseteq Busy
    BY <1>18 DEF RemoveDirs
  <2> QED BY <2>1, BusyShrinks
<1>19. CASE ImportGate(p)
  <2>1. Busy' \subseteq Busy
    BY <1>19 DEF ImportGate, Unlocked
  <2> QED BY <2>1, BusyShrinks
<1>20. CASE ImportCheck(p)
  <2>1. Busy' \subseteq Busy
    BY <1>20 DEF ImportCheck
  <2> QED BY <2>1, BusyShrinks
<1>21. CASE ImportInstalls(p)
  <2>1. Busy' \subseteq Busy
    BY <1>21 DEF ImportInstalls
  <2> QED BY <2>1, BusyShrinks
<1>22. CASE TimelineCheck(p)
  <2>1. Busy' \subseteq Busy
    BY <1>22 DEF TimelineCheck, Unlocked
  <2> QED BY <2>1, BusyShrinks
<1>23. CASE TimelineOpensLog(p)
  <2>1. Busy' \subseteq Busy
    BY <1>23 DEF TimelineOpensLog
  <2> QED BY <2>1, BusyShrinks
<1>24. CASE CreateMakesDirs(p)
  <2>1. Busy' \subseteq Busy
    BY <1>24 DEF CreateMakesDirs, DirsFail
  <2> QED BY <2>1, BusyShrinks
<1>25. CASE CreateInsertsUser(p)
  <2>1. Busy' \subseteq Busy
    BY <1>25 DEF CreateInsertsUser
  <2> QED BY <2>1, BusyShrinks
<1>26. CASE StreamEnds(p)
  <2>1. Busy' \subseteq Busy
    BY <1>26 DEF StreamEnds
  <2> QED BY <2>1, BusyShrinks
<1>27. CASE ImportUpload(p)
  <2>1. Busy' \subseteq Busy
    BY <1>27 DEF ImportUpload
  <2> QED BY <2>1, BusyShrinks
<1> QED BY <1>1, <1>2, <1>3, <1>4, <1>5, <1>6, <1>7, <1>8, <1>9, <1>10, <1>11,
    <1>12, <1>13, <1>14, <1>15, <1>16, <1>17, <1>18, <1>19, <1>20, <1>21,
    <1>22, <1>23, <1>24, <1>25, <1>26, <1>27 DEF Step, Ensure, End, ClientPaced

LEMMA CapNext ==
  ASSUME IsFiniteSet(Users), GamesAll, CapInv, [Next]_vars
  PROVE  CapInv'
<1> USE DEF GamesAll, Typed, TypeOK, Busy, Spawners, Tracked, Spawning, Job,
    NoJob
<1>1. ASSUME NEW p \in Handlers, NEW r \in Requests, NEW u \in Users,
             Begin(p, r, u)
      PROVE  CapInv'
  <2>1. Busy' \subseteq Busy
    BY <1>1 DEF Begin, FirstStep
  <2> QED BY <2>1, BusyShrinks
<1>2. ASSUME NEW p \in Procs, Step(p) \/ ClientPaced(p) PROVE CapInv'
  BY <1>2, CapStep
<1>3. CASE ReaperScans
  <2>1. Busy' \subseteq Busy
    BY <1>3 DEF ReaperScans, Reapable
  <2> QED BY <2>1, BusyShrinks
<1>4. CASE ReaperTakes
  <2>1. Busy' \subseteq Busy
    BY <1>4 DEF ReaperTakes
  <2> QED BY <2>1, BusyShrinks
<1>5. ASSUME NEW u \in Users, Keepalive(u) PROVE CapInv'
  <2>1. Busy' \subseteq Busy
    BY <1>5 DEF Keepalive
  <2> QED BY <2>1, BusyShrinks
<1>6. ASSUME NEW u \in Users, BecomesIdle(u) PROVE CapInv'
  <2>1. Busy' \subseteq Busy
    BY <1>6 DEF BecomesIdle
  <2> QED BY <2>1, BusyShrinks
<1>7. ASSUME NEW i \in Ids, GameExits(i) PROVE CapInv'
  <2>1. Busy' \subseteq Busy
    BY <1>7 DEF GameExits, manager
  <2> QED BY <2>1, BusyShrinks
<1>8. CASE Restart
  <2>1. PICK known \in SUBSET Users :
          /\ containers' = Adopted(known)
          /\ pc' = [q \in Procs |-> "idle"]
    BY <1>8, RestartIs DEF Typed
  <2>2. ASSUME NEW u \in Tracked' PROVE u \in Busy
    <3>1. PICK i \in Named(u) : Running(i)
      BY <2>1, <2>2 DEF Adopted
    <3>2. i \in RunningContainers /\ cname[i] = u
      BY <3>1 DEF RunningContainers, Named
    <3>3. CASE Holds(u, i)
      BY <2>1, <2>2, <3>3 DEF Holds
    <3>4. CASE \E q \in Procs : At(q, "spawn_insert") /\ job[q].ci = i
      BY <2>1, <2>2, <3>2, <3>4 DEF GamesInv
    <3> QED BY <3>2, <3>3, <3>4 DEF GamesInv, NoOrphans
  <2>3. Busy' \subseteq Busy
    BY <2>1, <2>2
  <2> QED BY <2>3, BusyShrinks
<1>9. CASE UNCHANGED vars
  BY <1>9, BusyShrinks
<1> QED
  BY <1>1, <1>2, <1>3, <1>4, <1>5, <1>6, <1>7, <1>8, <1>9 DEF Next, Reap

(* Running games have names of busy users, each its own. *)
LEMMA GamesFitBusy ==
  ASSUME IsFiniteSet(Users), GamesAll, CapInv
  PROVE  CapHolds
<1> DEFINE f == [i \in RunningContainers |-> cname[i]]
<1>1. \A i \in RunningContainers : cname[i] \in Busy
  <2> TAKE i \in RunningContainers
  <2>1. cname[i] \in Users
    BY DEF GamesAll, NamesInv, Known, RunningContainers, Running
  <2>2. CASE Holds(cname[i], i)
    BY <2>1, <2>2 DEF Busy, Tracked, Holds
  <2>3. CASE \E p \in Procs : At(p, "spawn_insert") /\ job[p].ci = i
    BY <2>1, <2>3 DEF Busy, Spawners, Spawning, GamesAll, GamesInv
  <2> QED BY <2>2, <2>3 DEF GamesAll, GamesInv, NoOrphans
<1>2. \A i, j \in RunningContainers : cname[i] = cname[j] => i = j
  BY DEF GamesAll, NamesInv, RunningContainers, Running, Exists
<1>3. f \in Injection(RunningContainers, Busy)
  BY <1>1, <1>2 DEF Injection, IsInjective
<1>4. IsFiniteSet(Busy)
  BY FS_Subset DEF Busy, Tracked, Spawners
<1>5. /\ IsFiniteSet(RunningContainers)
      /\ Cardinality(RunningContainers) <= Cardinality(Busy)
  <2> HIDE DEF f
  <2> QED BY <1>3, <1>4, FS_Injection
<1>6. Cardinality(RunningContainers) \in Nat /\ Cardinality(Busy) \in Nat
  BY <1>4, <1>5, FS_CardinalityType
<1> QED BY <1>5, <1>6, MaxSessionsAssumption DEF CapInv, CapHolds

LEMMA CapAllInit == Init => GamesAll /\ CapInv
<1> SUFFICES ASSUME Init PROVE CapInv
  BY GamesAllInit
<1>1. Busy = {}
  BY DEF Init, Busy, Tracked, Spawners, Spawning
<1> QED BY <1>1, FS_EmptySet, MaxSessionsAssumption DEF CapInv

(* Never more than max_sessions games run, for any number of users, through   *)
(* crashes of games and restarts that adopt what they find.                   *)
THEOREM CapRespected ==
  ASSUME IsFiniteSet(Users), StopsAreSure, RestartsAdopt
  PROVE  Spec => []CapHolds
<1>1. Init => GamesAll /\ CapInv
  BY CapAllInit
<1>2. GamesAll /\ CapInv /\ [Next]_vars => (GamesAll /\ CapInv)'
  BY GamesAllNext, CapNext
<1>3. GamesAll /\ CapInv => CapHolds
  BY GamesFitBusy
<1> QED
  BY <1>1, <1>2, <1>3, PTL DEF Spec

-----------------------------------------------------------------------------
(***************************************************************************)
(* The session lease.  The lemmas up to LeaseStep say which step of the      *)
(* lease a change of phases and of live users is; below, each action is      *)
(* shown to be such a change.                                                *)
(***************************************************************************)

Live == {u \in Users : \E i \in Named(u) : Running(i)}
Inserting(u) == \E p \in Procs : At(p, "spawn_insert") /\ job[p].uid = u

OthersKeepPhase(u) == \A v \in Users \ {u} : Phase(v)' = Phase(v)

LEMMA IsStutter ==
  ASSUME \A v \in Users : Phase(v)' = Phase(v), Live' = Live
  PROVE  UNCHANGED Lease!vars
BY DEF Lease!vars, Live

LEMMA IsGameOver ==
  ASSUME NEW u \in Users, \A v \in Users : Phase(v)' = Phase(v),
         Live' = Live \ {u}
  PROVE  Lease!Next
BY DEF Lease!Next, Lease!GameOver, Live

LEMMA IsClose ==
  ASSUME NEW u \in Users, OthersKeepPhase(u), Phase(u)' = "off",
         u \notin Live, Live' = Live
  PROVE  Lease!Next
<1>1. Lease!Close(u)
  BY DEF Lease!Close, Live, OthersKeepPhase
<1> QED BY <1>1 DEF Lease!Next

LEMMA IsRevoke ==
  ASSUME NEW u \in Users, OthersKeepPhase(u), Phase(u) = "ending",
         Phase(u)' = "on", Live' = Live
  PROVE  Lease!Next
<1>1. Lease!Revoke(u)
  BY DEF Lease!Revoke, Live, OthersKeepPhase
<1> QED BY <1>1 DEF Lease!Next

LEMMA IsAnnounce ==
  ASSUME NEW S \in SUBSET Users, \A v \in Users \ S : Phase(v)' = Phase(v),
         \A v \in S : Phase(v) = "on" /\ Phase(v)' = "ending", Live' = Live
  PROVE  Lease!Next
<1>1. Lease!Announce(S)
  BY DEF Lease!Announce, Live
<1> QED BY <1>1 DEF Lease!Next

LEMMA IsStart ==
  ASSUME NEW u \in Users, OthersKeepPhase(u), Phase(u) = "off",
         Phase(u)' = "on", Live' = Live \cup {u},
         Cardinality({v \in Users : Phase(v) # "off"}) < MaxSessions
  PROVE  Lease!Next
<1>1. Lease!Open = {v \in Users : Phase(v) # "off"}
  BY DEF Lease!Open
<1>2. \A S : Lease!Cardinality(S) = Cardinality(S)
  BY DEF Lease!Cardinality, Cardinality
<1>3. Lease!Start(u)
  BY <1>1, <1>2 DEF Lease!Start, Live, OthersKeepPhase
<1> QED BY <1>3 DEF Lease!Next

LEMMA IsRecover ==
  ASSUME \A v \in Users : Phase(v)' = IF v \in Live THEN "on" ELSE "off",
         Live' = Live
  PROVE  Lease!Next
<1>1. Lease!Recover
  BY DEF Lease!Recover, Live
<1> QED BY <1>1 DEF Lease!Next

-----------------------------------------------------------------------------
(* Phases change with the entry and with who is about to insert one. *)
LEMMA PhaseKept ==
  ASSUME NEW u \in Users, containers'[u] = containers[u],
         Inserting(u)' <=> Inserting(u)
  PROVE  Phase(u)' = Phase(u)
BY DEF Phase, Tracked, Inserting

(* A step of p alone that neither runs nor inserts a container. *)
Elsewhere(p) ==
  /\ pc[p] # "spawn_insert" /\ pc'[p] # "spawn_insert"
  /\ \A q \in Procs \ {p} : pc'[q] = pc[q] /\ job'[q] = job[q]

LEMMA InsertersKept ==
  ASSUME NEW p \in Procs, Elsewhere(p), NEW u \in Users
  PROVE  Inserting(u)' <=> Inserting(u)
BY DEF Inserting, Elsewhere

LEMMA LiveKept ==
  ASSUME UNCHANGED docker
  PROVE  Live' = Live
BY DEF Live, Named, Running, Exists

LEMMA QuietStep ==
  ASSUME NEW p \in Procs, Elsewhere(p), UNCHANGED <<docker, containers>>
  PROVE  UNCHANGED Lease!vars
<1>1. \A v \in Users : Phase(v)' = Phase(v)
  BY InsertersKept, PhaseKept
<1> QED BY <1>1, LiveKept, IsStutter

LEMMA PhaseOfEntry ==
  ASSUME NEW u \in Users
  PROVE  /\ containers[u] # None =>
              Phase(u) = IF containers[u].stopping THEN "ending" ELSE "on"
         /\ containers[u] = None =>
              Phase(u) = IF Inserting(u) THEN "on" ELSE "off"
BY DEF Phase, Tracked, Inserting

(* Whose entry names no running container, and for whom nobody is about to   *)
(* insert one, does not play.                                                *)
LEMMA NotLive ==
  ASSUME GamesAll, NEW u \in Users, ~Inserting(u),
         \A i \in Ids : Holds(u, i) => ~Running(i)
  PROVE  u \notin Live
<1> SUFFICES ASSUME NEW i \in Named(u), Running(i) PROVE FALSE
  BY DEF Live
<1>1. i \in Ids /\ i \in RunningContainers /\ cname[i] = u
  BY DEF Named, RunningContainers
<1>2. \A p \in Procs : ~(At(p, "spawn_insert") /\ job[p].ci = i)
  BY <1>1 DEF Inserting, GamesAll, GamesInv
<1> QED BY <1>1, <1>2 DEF GamesAll, GamesInv, NoOrphans

(* While nobody holds m.mu nobody spawns. *)
LEMMA NobodyInserts ==
  ASSUME GamesAll, Unlocked, NEW u \in Users
  PROVE  ~Inserting(u)
BY ProcsAssumption DEF GamesAll, LockInv, Unlocked, Inserting, Spawning

(* A container that is down leaves the live users as they are; one that      *)
(* stops takes its user away.                                                *)
LEMMA StopsOne ==
  ASSUME GamesAll, NEW i \in Ids, Known(i), NEW s \in {"exited", "removed"},
         cstate' = [cstate EXCEPT ![i] = s], cname' = cname, Exists(i)
  PROVE  cname[i] \in Users /\ Live' = Live \ {cname[i]}
<1>1. cname[i] \in Users
  BY DEF GamesAll, NamesInv
<1>2. \A j \in Ids : Running(j)' <=> Running(j) /\ j # i
  BY DEF Running, GamesAll, Typed, TypeOK, DockerTypeOK
<1>3. \A j \in Ids : Running(j) /\ cname[j] = cname[i] => j = i
  BY DEF GamesAll, NamesInv, Running, Exists
<1>4. \A u \in Users : u \in Live <=> \E j \in Ids : cname[j] = u /\ Running(j)
  BY DEF Live, Named, Running, Exists
<1>5. \A u \in Users :
        u \in Live' <=> \E j \in Ids : cname[j] = u /\ Running(j)'
  BY DEF Live, Named, Running, Exists
<1>6. Live \subseteq Users /\ Live' \subseteq Users
  BY DEF Live
<1> QED BY <1>1, <1>2, <1>3, <1>4, <1>5, <1>6

LEMMA DownStaysDown ==
  ASSUME NEW i \in Ids, Down(i), GamesAll,
         cstate' = [cstate EXCEPT ![i] = "removed"], cname' = cname
  PROVE  Live' = Live
<1>1. \A j \in Ids : Running(j)' <=> Running(j)
  BY DEF Running, Down, GamesAll, Typed, TypeOK, DockerTypeOK
<1> QED BY <1>1 DEF Live, Named, Running, Exists

-----------------------------------------------------------------------------
(* Each action is a step of the lease or none. *)
LeaseStep == Lease!Next \/ UNCHANGED Lease!vars

LEMMA IsQuiet ==
  ASSUME GamesAll, NEW p \in Procs,
         \/ EnsureRefuses(p) \/ SpawnMakesDirs(p) \/ SpawnFails(p)
         \/ CheckStale(p) \/ StopSessionLog(p) \/ DropUser(p) \/ RemoveDirs(p)
         \/ ImportGate(p) \/ ImportCheck(p) \/ ImportInstalls(p)
         \/ TimelineCheck(p) \/ TimelineOpensLog(p) \/ CreateMakesDirs(p)
         \/ CreateInsertsUser(p) \/ StreamEnds(p) \/ ImportUpload(p)
  PROVE  UNCHANGED Lease!vars
<1>1. UNCHANGED <<docker, containers>>
  BY DEF EnsureRefuses, SpawnMakesDirs, SpawnFails, RunFails, CheckStale,
      StopSessionLog, DropUser, RemoveDirs, ImportGate, ImportCheck,
      ImportInstalls, TimelineCheck, TimelineOpensLog, CreateMakesDirs,
      CreateInsertsUser, StreamEnds, ImportUpload
<1>2. Elsewhere(p)
  BY DEF EnsureRefuses, SpawnMakesDirs, SpawnFails, CheckStale,
      StopSessionLog, DropUser, RemoveDirs, ImportGate, ImportCheck,
      ImportInstalls, TimelineCheck, TimelineOpensLog, CreateMakesDirs,
      CreateInsertsUser, StreamEnds, ImportUpload, Elsewhere, GamesAll,
      Typed, TypeOK
<1> QED BY <1>1, <1>2, QuietStep

(* An entry changes only in when it was last seen. *)
LEMMA SeenKeepsPhases ==
  ASSUME GamesAll, NEW u \in Tracked, NEW b \in BOOLEAN,
         containers' = [containers EXCEPT ![u].idle = b],
         \A v \in Users : Inserting(v)' <=> Inserting(v)
  PROVE  \A v \in Users : Phase(v)' = Phase(v)
<1>1. u \in Users /\ containers[u] \in Entry /\ containers[u] # None
  BY DEF GamesAll, Typed, TypeOK, Tracked
<1>2. /\ containers'[u] = [containers[u] EXCEPT !.idle = b]
      /\ \A v \in Users \ {u} : containers'[v] = containers[v]
  BY <1>1 DEF GamesAll, Typed, TypeOK
<1>3. /\ containers'[u] \in Entry
      /\ containers'[u].stopping = containers[u].stopping
  BY <1>1, <1>2 DEF Entry
<1>4. containers'[u] # None
  BY <1>3, EntryAssumption
<1>5. Phase(u)' = Phase(u)
  BY <1>1, <1>3, <1>4 DEF Phase, Tracked
<1> QED BY <1>2, <1>5, PhaseKept

(* The flag of one entry is set or cleared. *)
LEMMA FlagMovesPhase ==
  ASSUME GamesAll, NEW u \in Tracked, NEW b \in BOOLEAN,
         containers' = [containers EXCEPT ![u].stopping = b],
         \A v \in Users : Inserting(v)' <=> Inserting(v)
  PROVE  /\ OthersKeepPhase(u)
         /\ Phase(u) = (IF containers[u].stopping THEN "ending" ELSE "on")
         /\ Phase(u)' = IF b THEN "ending" ELSE "on"
<1>1. u \in Users /\ containers[u] \in Entry /\ containers[u] # None
  BY DEF GamesAll, Typed, TypeOK, Tracked
<1>2. /\ containers'[u] = [containers[u] EXCEPT !.stopping = b]
      /\ \A v \in Users \ {u} : containers'[v] = containers[v]
  BY <1>1 DEF GamesAll, Typed, TypeOK
<1>3. containers'[u] \in Entry /\ containers'[u].stopping = b
  BY <1>1, <1>2 DEF Entry
<1>4. containers'[u] # None
  BY <1>3, EntryAssumption
<1>5. Phase(u)' = IF b THEN "ending" ELSE "on"
  BY <1>1, <1>3, <1>4 DEF Phase, Tracked
<1>6. OthersKeepPhase(u)
  BY <1>2, PhaseKept DEF OthersKeepPhase
<1> QED BY <1>1, <1>5, <1>6, PhaseOfEntry

LEMMA ReuseIsNone ==
  ASSUME GamesAll, NEW p \in Procs, EnsureReuses(p)
  PROVE  UNCHANGED Lease!vars
<1>1. Elsewhere(p)
  BY DEF EnsureReuses, Elsewhere, GamesAll, Typed, TypeOK
<1>2. \A v \in Users : Phase(v)' = Phase(v)
  BY <1>1, InsertersKept, SeenKeepsPhases DEF EnsureReuses
<1>3. UNCHANGED docker
  BY DEF EnsureReuses
<1> QED BY <1>2, <1>3, LiveKept, IsStutter

(* ensureContainer drops an entry whose container is down. *)
LEMMA MissCloses ==
  ASSUME GamesAll, StopsAreSure, NEW p \in Procs, EnsureMisses(p)
  PROVE  Lease!Next
<1> PICK u \in Users : u = job[p].uid
  BY DEF GamesAll, Typed, JobOK, HasUser, EnsureMisses
<1>1. Elsewhere(p) /\ UNCHANGED docker
      /\ containers' = [containers EXCEPT ![u] = None]
  BY DEF EnsureMisses, Elsewhere, GamesAll, Typed, TypeOK
<1>2. \A v \in Users : ~Inserting(v) /\ ~Inserting(v)'
  BY <1>1, NobodyInserts, InsertersKept DEF EnsureMisses
<1>3. OthersKeepPhase(u)
  BY <1>1, <1>2, PhaseKept DEF OthersKeepPhase, GamesAll, Typed, TypeOK
<1>4. Phase(u)' = "off"
  <2>1. containers'[u] = None
    BY <1>1 DEF GamesAll, Typed, TypeOK
  <2> QED BY <1>2, <2>1 DEF Phase, Tracked, Inserting
<1>5. u \notin Live
  <2>1. \A i \in Ids : Holds(u, i) => ~Running(i)
    BY DEF EnsureMisses, InspectSaysStopped, StopsAreSure, Holds, Tracked
  <2> QED BY <1>2, <2>1, NotLive
<1> QED BY <1>1, <1>3, <1>4, <1>5, LiveKept, IsClose

(* docker rm -f df-u ends whatever game of u there was, or fails. *)
LEMMA FreeingEnds ==
  ASSUME GamesAll, NEW p \in Procs, SpawnFreesName(p)
  PROVE  LeaseStep
<1> PICK u \in Users : u = job[p].uid
  BY DEF GamesAll, Typed, JobOK, HasUser, SpawnFreesName
<1>1. Elsewhere(p) /\ UNCHANGED <<cname, containers>>
  BY DEF SpawnFreesName, RemoveByName, docker, Elsewhere, GamesAll, Typed, TypeOK
<1>a. CASE UNCHANGED docker
  BY <1>1, <1>a, QuietStep DEF LeaseStep
<1>b. CASE cstate' = [i \in Ids |-> IF i \in Named(u) THEN "removed" ELSE cstate[i]]
  <2>2. \A v \in Users : Phase(v)' = Phase(v)
    BY <1>1, InsertersKept, PhaseKept
  <2>3. \A i \in Ids : Running(i)' <=> Running(i) /\ cname[i] # u
    BY <1>1, <1>b DEF Running, Named, Exists
  <2>4. Live' = Live \ {u}
    <3>1. \A v \in Users : v \in Live <=> \E i \in Ids : cname[i] = v /\ Running(i)
      BY DEF Live, Named, Running, Exists
    <3>2. \A v \in Users :
            v \in Live' <=> \E i \in Ids : cname[i] = v /\ Running(i)'
      BY <1>1 DEF Live, Named, Running, Exists
    <3>3. Live \subseteq Users /\ Live' \subseteq Users
      BY DEF Live
    <3> QED BY <2>3, <3>1, <3>2, <3>3
  <2> QED BY <2>2, <2>4, IsGameOver DEF LeaseStep
<1> QED BY <1>a, <1>b DEF SpawnFreesName, RemoveByName

(* docker run starts a session: there is none, and room for one. *)
LEMMA RunStarts ==
  ASSUME GamesAll, IsFiniteSet(Users), CapInv, NEW p \in Procs, SpawnRuns(p)
  PROVE  Lease!Next
<1> PICK u \in Users : u = job[p].uid
  BY DEF GamesAll, Typed, JobOK, HasUser, SpawnRuns
<1> PICK i \in Ids : /\ RunSucceeds(u, i, u \in dirs)
                     /\ job' = [job EXCEPT ![p].ci = i]
  BY DEF SpawnRuns
<1>1. /\ containers' = containers
      /\ pc[p] = "spawn_run" /\ pc' = [pc EXCEPT ![p] = "spawn_insert"]
      /\ cstate' = [cstate EXCEPT ![i] = "running"]
      /\ cname' = [cname EXCEPT ![i] = u] /\ cstate[i] = "unused"
  BY DEF SpawnRuns, RunSucceeds
<1>2. \A v \in Users : ~Inserting(v)
  BY <1>1 DEF Inserting, GamesAll, LockInv, Spawning
<1>3. \A v \in Users : Inserting(v)' <=> v = u
  <2>1. \A q \in Procs : pc'[q] = "spawn_insert" <=> q = p
    BY <1>1 DEF GamesAll, LockInv, Spawning, Typed, TypeOK
  <2>2. job'[p].uid = u
    BY DEF GamesAll, Typed, TypeOK, Job
  <2> QED BY <2>1, <2>2 DEF Inserting
<1>4. u \notin Tracked
  BY <1>1 DEF GamesAll, LockInv, Spawning
<1>5. OthersKeepPhase(u)
  BY <1>1, <1>2, <1>3, PhaseKept DEF OthersKeepPhase
<1>6. Phase(u) = "off" /\ Phase(u)' = "on"
  BY <1>1, <1>2, <1>3, <1>4 DEF Phase, Tracked, Inserting
<1>7. Live' = Live \cup {u}
  <2>1. \A v \in Users : v \in Live <=> \E j \in Ids : cname[j] = v /\ Running(j)
    BY DEF Live, Named, Running, Exists
  <2>2. \A v \in Users :
          v \in Live' <=> \E j \in Ids : cname'[j] = v /\ Running(j)'
    BY DEF Live, Named, Running, Exists
  <2>3. Live \subseteq Users /\ Live' \subseteq Users
    BY DEF Live
  <2>4. /\ Running(i)' /\ ~Running(i) /\ cname'[i] = u
        /\ \A j \in Ids \ {i} : /\ Running(j)' <=> Running(j)
                                /\ cname'[j] = cname[j]
    BY <1>1 DEF Running, GamesAll, Typed, TypeOK, DockerTypeOK
  <2> QED BY <2>1, <2>2, <2>3, <2>4
<1>8. Cardinality({v \in Users : Phase(v) # "off"}) < MaxSessions
  <2> DEFINE O == {v \in Users : Phase(v) # "off"}
  <2>1. O \subseteq Busy \ {u}
    BY <1>2, <1>6, PhaseOfEntry DEF Busy, Tracked
  <2>2. IsFiniteSet(Busy) /\ u \in Busy
    BY <1>1, FS_Subset DEF Busy, Tracked, Spawners, Spawning
  <2>3. /\ IsFiniteSet(Busy \ {u})
        /\ Cardinality(Busy \ {u}) = Cardinality(Busy) - 1
    BY <2>2, FS_RemoveElement
  <2>4. IsFiniteSet(O) /\ Cardinality(O) <= Cardinality(Busy \ {u})
    BY <2>1, <2>3, FS_Subset
  <2>5. Cardinality(Busy) \in Nat /\ Cardinality(O) \in Nat
    BY <2>2, <2>4, FS_CardinalityType
  <2> QED BY <2>3, <2>4, <2>5, MaxSessionsAssumption DEF CapInv
<1> QED BY <1>5, <1>6, <1>7, <1>8, IsStart

(* The session is on before and after its entry is inserted. *)
LEMMA InsertKeeps ==
  ASSUME GamesAll, NEW p \in Procs, SpawnInserts(p)
  PROVE  UNCHANGED Lease!vars
<1> PICK u \in Users, c \in Ids : u = job[p].uid /\ c = job[p].ci
  BY DEF GamesAll, Typed, JobOK, HasUser, HasContainer, SpawnInserts
<1>1. /\ containers' = [containers EXCEPT ![u] = NewEntry(c)]
      /\ pc[p] = "spawn_insert" /\ pc' = [pc EXCEPT ![p] = "idle"]
      /\ UNCHANGED docker
  BY DEF SpawnInserts
<1>2. \A q \in Procs : pc[q] = "spawn_insert" <=> q = p
  BY <1>1 DEF GamesAll, LockInv, Spawning
<1>3. \A v \in Users : (Inserting(v) <=> v = u) /\ ~Inserting(v)'
  BY <1>1, <1>2 DEF Inserting, GamesAll, Typed, TypeOK
<1>4. u \notin Tracked
  BY <1>1 DEF GamesAll, LockInv, Spawning
<1>5. Phase(u) = "on" /\ Phase(u)' = "on"
  <2>1. NewEntry(c) \in Entry /\ NewEntry(c).stopping = FALSE
    BY DEF NewEntry, Entry
  <2>2. containers'[u] = NewEntry(c)
    BY <1>1 DEF GamesAll, Typed, TypeOK
  <2>3. Phase(u)' = "on"
    BY <2>1, <2>2, EntryAssumption DEF Phase, Tracked
  <2> QED BY <1>3, <1>4, <2>3, PhaseOfEntry DEF Tracked
<1>6. \A v \in Users \ {u} : Phase(v)' = Phase(v)
  <2>1. \A v \in Users \ {u} : containers'[v] = containers[v]
    BY <1>1 DEF GamesAll, Typed, TypeOK
  <2> QED BY <1>3, <2>1, PhaseKept
<1> QED BY <1>1, <1>5, <1>6, LiveKept, IsStutter

LEMMA FlagAnnounces ==
  ASSUME GamesAll, NEW p \in Procs, Flag(p)
  PROVE  LeaseStep
<1> PICK u \in Users : u = job[p].uid
  BY DEF GamesAll, Typed, JobOK, HasUser, Flag
<1>1. Elsewhere(p) /\ UNCHANGED docker
  BY DEF Flag, Elsewhere, GamesAll, Typed, TypeOK
<1>2. CASE u \in Tracked
  <2>1. containers' = [containers EXCEPT ![u].stopping = TRUE]
    BY <1>2 DEF Flag
  <2>2. /\ OthersKeepPhase(u) /\ Phase(u)' = "ending"
        /\ Phase(u) \in {"on", "ending"}
    BY <1>1, <1>2, <2>1, InsertersKept, FlagMovesPhase
  <2>3. CASE Phase(u) = "on"
    BY <1>1, <2>2, <2>3, LiveKept, IsAnnounce, {u} \in SUBSET Users
        DEF OthersKeepPhase, LeaseStep
  <2>4. CASE Phase(u) = "ending"
    BY <1>1, <2>2, <2>4, LiveKept, IsStutter DEF OthersKeepPhase, LeaseStep
  <2> QED BY <2>2, <2>3, <2>4
<1>3. CASE u \notin Tracked
  BY <1>1, <1>3, QuietStep DEF Flag, LeaseStep
<1> QED BY <1>2, <1>3

LEMMA StopEndsGame ==
  ASSUME GamesAll, NEW p \in Procs, DockerStop(p) \/ DockerRemove(p)
  PROVE  LeaseStep
<1> PICK c \in Ids : c = job[p].ci
  BY DEF GamesAll, Typed, JobOK, HasContainer, DockerStop, DockerRemove,
      Resolving
<1>1. Elsewhere(p) /\ UNCHANGED containers
  BY DEF DockerStop, DockerRemove, OnStopError, Elsewhere, GamesAll, Typed,
      TypeOK
<1>2. \A v \in Users : Phase(v)' = Phase(v)
  BY <1>1, InsertersKept, PhaseKept
<1>3. CASE DockerStop(p) /\ StopSucceeds(c)
  <2>1. /\ Exists(c) /\ Known(c) /\ cname' = cname
        /\ cstate' = [cstate EXCEPT ![c] = "exited"]
    BY <1>3 DEF StopSucceeds, Exists, Known
  <2>2. cname[c] \in Users /\ Live' = Live \ {cname[c]}
    BY <2>1, StopsOne
  <2> QED BY <1>2, <2>2, IsGameOver DEF LeaseStep
<1>4. CASE DockerRemove(p) /\ RemoveSucceeds(c)
  <2>1. Down(c) /\ cname' = cname
        /\ cstate' = [cstate EXCEPT ![c] = "removed"]
    BY <1>4 DEF DockerRemove, RemoveSucceeds, GamesAll, GamesInv
  <2>2. Live' = Live
    BY <2>1, DownStaysDown
  <2> QED BY <1>2, <2>2, IsStutter DEF LeaseStep
<1>5. CASE UNCHANGED docker
  BY <1>1, <1>5, QuietStep DEF LeaseStep
<1> QED BY <1>3, <1>4, <1>5 DEF DockerStop, DockerRemove, StopFails,
            RemoveFails

(* An entry is forgotten only once its container is down. *)
LEMMA ForgetCloses ==
  ASSUME GamesAll, NEW p \in Procs, Forget(p) \/ ForgetFailed(p)
  PROVE  LeaseStep
<1> PICK u \in Users, c \in Ids : u = job[p].uid /\ c = job[p].ci
  BY DEF GamesAll, Typed, JobOK, HasUser, HasContainer, Forget, ForgetFailed,
      Resolving
<1>1. Elsewhere(p) /\ UNCHANGED docker /\ Unlocked /\ ForgetEntry(u, c)
  BY DEF Forget, ForgetFailed, Elsewhere, GamesAll, Typed, TypeOK
<1>2. CASE Holds(u, c)
  <2>1. containers' = [containers EXCEPT ![u] = None]
    BY <1>1, <1>2 DEF ForgetEntry
  <2>2. ~Inserting(u) /\ ~Inserting(u)'
    BY <1>1, NobodyInserts, InsertersKept
  <2>3. Phase(u)' = "off"
    <3>1. containers'[u] = None
      BY <2>1 DEF GamesAll, Typed, TypeOK
    <3> QED BY <2>2, <3>1 DEF Phase, Tracked, Inserting
  <2>4. OthersKeepPhase(u)
    BY <1>1, <2>1, InsertersKept, PhaseKept
        DEF OthersKeepPhase, GamesAll, Typed, TypeOK
  <2>5. Down(c)
    BY DEF Forget, ForgetFailed, GamesAll, GamesInv
  <2>6. u \notin Live
    BY <1>2, <2>2, <2>5, NotLive DEF Holds, Down, Running
  <2> QED BY <1>1, <2>3, <2>4, <2>6, LiveKept, IsClose DEF LeaseStep
<1>3. CASE ~Holds(u, c)
  <2>1. containers' = containers
    BY <1>1, <1>3 DEF ForgetEntry, GamesAll, Typed, TypeOK
  <2> QED BY <1>1, <2>1, QuietStep DEF LeaseStep
<1> QED BY <1>2, <1>3

LEMMA UnflagRevokes ==
  ASSUME GamesAll, NEW p \in Procs, Unflag(p)
  PROVE  LeaseStep
<1> PICK u \in Users : u = job[p].uid
  BY DEF GamesAll, Typed, JobOK, HasUser, Unflag
<1>1. Elsewhere(p) /\ UNCHANGED docker
  BY DEF Unflag, Elsewhere, GamesAll, Typed, TypeOK
<1>2. CASE Holds(u, job[p].ci)
  <2>1. containers' = [containers EXCEPT ![u].stopping = FALSE]
    BY <1>2 DEF Unflag
  <2>2. u \in Tracked
    BY <1>2 DEF Holds, Tracked
  <2>3. /\ OthersKeepPhase(u) /\ Phase(u)' = "on"
        /\ Phase(u) \in {"on", "ending"}
    BY <1>1, <2>1, <2>2, InsertersKept, FlagMovesPhase
  <2>4. CASE Phase(u) = "ending"
    BY <1>1, <2>3, <2>4, LiveKept, IsRevoke DEF LeaseStep
  <2>5. CASE Phase(u) = "on"
    BY <1>1, <2>3, <2>5, LiveKept, IsStutter DEF OthersKeepPhase, LeaseStep
  <2> QED BY <2>3, <2>4, <2>5
<1>3. CASE ~Holds(u, job[p].ci)
  BY <1>1, <1>3, QuietStep DEF Unflag, LeaseStep
<1> QED BY <1>2, <1>3

LEMMA LeaseProcess ==
  ASSUME GamesAll, IsFiniteSet(Users), CapInv, StopsAreSure, NEW p \in Procs,
         Step(p) \/ ClientPaced(p)
  PROVE  LeaseStep
BY IsQuiet, ReuseIsNone, MissCloses, FreeingEnds, RunStarts, InsertKeeps,
   FlagAnnounces, StopEndsGame, ForgetCloses, UnflagRevokes
   DEF Step, Ensure, End, ClientPaced, LeaseStep

LEMMA LeaseNext ==
  ASSUME GamesAll, IsFiniteSet(Users), CapInv, StopsAreSure, RestartsAdopt, [Next]_vars
  PROVE  LeaseStep
<1>1. ASSUME NEW p \in Handlers, NEW r \in Requests, NEW u \in Users,
             Begin(p, r, u)
      PROVE  LeaseStep
  <2>1. Elsewhere(p) /\ UNCHANGED <<docker, containers>>
    BY <1>1 DEF Begin, FirstStep, Elsewhere, GamesAll, Typed, TypeOK
  <2> QED BY <2>1, QuietStep DEF LeaseStep
<1>2. ASSUME NEW p \in Procs, Step(p) \/ ClientPaced(p) PROVE LeaseStep
  BY <1>2, LeaseProcess
<1>3. CASE ReaperScans
  <2>1. /\ UNCHANGED <<docker, pc, job>>
        /\ containers' = [u \in Users |-> IF u \in Reapable
                            THEN [containers[u] EXCEPT !.stopping = TRUE]
                            ELSE containers[u]]
    BY <1>3 DEF ReaperScans
  <2>2. \A v \in Users : Inserting(v)' <=> Inserting(v)
    BY <2>1 DEF Inserting
  <2>3. \A v \in Users \ Reapable : Phase(v)' = Phase(v)
    BY <2>1, <2>2, PhaseKept
  <2>4. ASSUME NEW v \in Reapable
        PROVE  Phase(v) = "on" /\ Phase(v)' = "ending"
    <3>1. /\ v \in Users /\ containers[v] \in Entry /\ containers[v] # None
          /\ containers[v].stopping = FALSE
      BY DEF Reapable, Tracked, GamesAll, Typed, TypeOK, Entry
    <3>2. containers'[v] = [containers[v] EXCEPT !.stopping = TRUE]
      BY <2>1, <3>1
    <3>3. containers'[v] \in Entry /\ containers'[v].stopping = TRUE
      BY <3>1, <3>2 DEF Entry
    <3>4. containers'[v] # None
      BY <3>3, EntryAssumption
    <3> QED BY <3>1, <3>3, <3>4, PhaseOfEntry DEF Phase, Tracked
  <2>5. Reapable \in SUBSET Users
    BY DEF Reapable, Tracked
  <2> QED BY <2>1, <2>3, <2>4, <2>5, LiveKept, IsAnnounce DEF LeaseStep
<1>4. CASE ReaperTakes
  <2>1. Elsewhere(Reaper) /\ UNCHANGED <<docker, containers>>
    BY <1>4 DEF ReaperTakes, Elsewhere, GamesAll, Typed, TypeOK
  <2> QED BY <2>1, QuietStep DEF LeaseStep
<1>5. ASSUME NEW u \in Users, Keepalive(u) \/ BecomesIdle(u) PROVE LeaseStep
  <2>1. /\ u \in Tracked /\ UNCHANGED <<docker, pc, job>>
        /\ \E b \in BOOLEAN : containers' = [containers EXCEPT ![u].idle = b]
    BY <1>5 DEF Keepalive, BecomesIdle
  <2>2. \A v \in Users : Inserting(v)' <=> Inserting(v)
    BY <2>1 DEF Inserting
  <2>3. \A v \in Users : Phase(v)' = Phase(v)
    BY <2>1, <2>2, SeenKeepsPhases
  <2> QED BY <2>1, <2>3, LiveKept, IsStutter DEF LeaseStep
<1>6. ASSUME NEW i \in Ids, GameExits(i) PROVE LeaseStep
  <2>1. /\ Exists(i) /\ Known(i) /\ UNCHANGED <<cname, containers, pc, job>>
        /\ cstate' = [cstate EXCEPT ![i] = "exited"]
    BY <1>6 DEF GameExits, ContainerExits, Running, Exists, Known, manager
  <2>2. cname[i] \in Users /\ Live' = Live \ {cname[i]}
    BY <2>1, StopsOne
  <2>3. \A v \in Users : Phase(v)' = Phase(v)
    BY <2>1 DEF Phase, Tracked
  <2> QED BY <2>2, <2>3, IsGameOver DEF LeaseStep
<1>7. CASE Restart
  <2>1. /\ containers' = Adopted(Users)
        /\ \A i \in Ids : Running(i)' <=> Running(i)
        /\ UNCHANGED cname
        /\ pc' = [p \in Procs |-> "idle"]
    BY <1>7, RestartAdoptsAll DEF GamesAll
  <2>3. Live' = Live
    <3>1. \A v \in Users : v \in Live <=> \E i \in Ids : cname[i] = v /\ Running(i)
      BY DEF Live, Named, Running, Exists
    <3>2. \A v \in Users : v \in Live' <=> \E i \in Ids : cname[i] = v /\ Running(i)'
      BY <2>1 DEF Live, Named, Running, Exists
    <3>3. Live \subseteq Users /\ Live' \subseteq Users
      BY DEF Live
    <3> QED BY <2>1, <3>1, <3>2, <3>3
  <2>4. ASSUME NEW v \in Users
        PROVE  Phase(v)' = IF v \in Live THEN "on" ELSE "off"
    <3>1. ~Inserting(v)'
      BY <2>1 DEF Inserting
    <3>2. CASE v \in Live
      <4>1. PICK i \in Ids : containers'[v] = NewEntry(i)
        BY <2>1, <3>2 DEF Adopted, Live, Named
      <4>2. containers'[v] \in Entry /\ containers'[v].stopping = FALSE
        BY <4>1 DEF NewEntry, Entry
      <4> QED BY <3>2, <4>2, EntryAssumption DEF Phase, Tracked
    <3>3. CASE v \notin Live
      <4>1. containers'[v] = None
        BY <2>1, <3>3 DEF Adopted, Live
      <4> QED BY <3>1, <3>3, <4>1 DEF Phase, Tracked, Inserting
    <3> QED BY <3>2, <3>3
  <2> QED BY <2>3, <2>4, IsRecover DEF LeaseStep
<1>8. CASE UNCHANGED vars
  <2>1. \A v \in Users : Phase(v)' = Phase(v)
    BY <1>8 DEF Phase, Tracked
  <2> QED BY <1>8, <2>1, LiveKept, IsStutter DEF LeaseStep
<1> QED
  BY <1>1, <1>2, <1>3, <1>4, <1>5, <1>6, <1>7, <1>8 DEF Next, Reap

LEMMA LeaseInit == Init => Lease!Init
<1> SUFFICES ASSUME Init PROVE Lease!Init
  OBVIOUS
<1>1. \A u \in Users : Phase(u) = "off"
  BY DEF Init, Phase, Tracked
<1>2. Live = {}
  BY DEF Init, DockerInit, Live, Named, Exists
<1> QED BY <1>1, <1>2 DEF Lease!Init, Live

(* The manager implements the session lease, for any finite set of users and  *)
(* any cap: whatever its handlers, its reaper and its restarts do looks, from *)
(* outside, like sessions that start under the cap, are announced to end and  *)
(* close once their game is down.                                             *)
THEOREM LeaseImplemented ==
  ASSUME IsFiniteSet(Users), StopsAreSure, RestartsAdopt
  PROVE  Spec => ImplementsLease
<1>1. Init => GamesAll /\ CapInv
  BY CapAllInit
<1>2. GamesAll /\ CapInv /\ [Next]_vars => (GamesAll /\ CapInv)'
  BY GamesAllNext, CapNext
<1>3. GamesAll /\ CapInv /\ [Next]_vars => [Lease!Next]_(Lease!vars)
  BY LeaseNext DEF LeaseStep
<1>4. Init => Lease!Init
  BY LeaseInit
<1> QED
  BY <1>1, <1>2, <1>3, <1>4, PTL DEF Spec, ImplementsLease, Lease!Spec
=============================================================================
