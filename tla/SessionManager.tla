--------------------------- MODULE SessionManager ---------------------------
(***************************************************************************)
(* The session manager's core: the map m.containers from users to game      *)
(* containers, its mutex m.mu, the map of session logs, the user store and  *)
(* the users' directories, and every HTTP handler that changes them, with   *)
(* the idle reaper and the reconciliation at startup.                       *)
(*                                                                         *)
(* A handler is a process that runs one request at a time.  A step is what  *)
(* the code does between two points where another goroutine can interfere:  *)
(* one critical section of m.mu, one docker command, one write to the user  *)
(* store or to the disk.  Only ensureContainer keeps m.mu across several of *)
(* them, so mu records the process that does.                               *)
(***************************************************************************)
EXTENDS Docker, Integers

CONSTANTS
  Handlers,      \* the goroutines that serve HTTP requests
  Reaper,        \* the goroutine of idleReaper
  Requests,      \* the routes the clients of this instance call
  MaxSessions,   \* cfg.MaxSessions
  Legacy,        \* the uids listed in users.yml
  MaxRestarts    \* bound on the restarts of the session manager

Procs == Handlers \cup {Reaper}

Routes == {"play", "stop", "logout", "export", "import", "timeline",
           "delete", "create"}

ASSUME ProcsAssumption == Reaper \notin Handlers /\ None \notin Procs
ASSUME RequestsAssumption == Requests \subseteq Routes
ASSUME MaxSessionsAssumption == MaxSessions \in Nat
ASSUME LegacyAssumption == Legacy \subseteq Users
ASSUME MaxRestartsAssumption == MaxRestarts \in Nat

VARIABLES
  users,        \* the uids in the user store
  dirs,         \* the uids whose directories exist under saves_root
  containers,   \* m.containers: uid -> entry, None where there is none
  mu,           \* the process that keeps m.mu over several steps, or None
  logs,         \* the uids with an entry in m.sessionLogs
  pc,           \* where each process is
  job,          \* what it works on: the request, its uid, the entry it read
  toReap,       \* the entries idleReaper has flagged and not yet taken up
  restarts      \* how often the session manager was restarted

manager == <<users, dirs, containers, mu, logs, pc, job, toReap, restarts>>
vars == <<cstate, cname, users, dirs, containers, mu, logs, pc, job, toReap,
          restarts>>

Entry == [id : Ids, stopping : BOOLEAN, idle : BOOLEAN]

ASSUME EntryAssumption == None \notin Entry

NewEntry(i) == [id |-> i, stopping |-> FALSE, idle |-> FALSE]

Job == [op : Routes \cup {"reap", "none"}, uid : Users \cup {None},
        ci : Ids \cup {None}]
NoJob == [op |-> "none", uid |-> None, ci |-> None]

Labels == {"idle",
           "ensure", "spawn_dirs", "spawn_rm", "spawn_run", "spawn_insert",
           "flag", "check_stale", "stop", "rm", "close_log", "forget",
           "forget_failed", "unflag", "stream", "drop_user", "remove_dirs",
           "import_gate", "import_check", "upload", "install",
           "timeline", "timeline_log", "create_dirs", "insert_user"}

Tracked == {u \in Users : containers[u] # None}
Holds(u, i) == containers[u] # None /\ containers[u].id = i
Ending(u, i) == Holds(u, i) /\ containers[u].stopping

Init ==
  /\ DockerInit
  /\ users = Users
  /\ dirs = Users
  /\ containers = [u \in Users |-> None]
  /\ mu = None
  /\ logs = {}
  /\ pc = [p \in Procs |-> "idle"]
  /\ job = [p \in Procs |-> NoJob]
  /\ toReap = {}
  /\ restarts = 0

-----------------------------------------------------------------------------
At(p, l) == pc[p] = l
Goto(p, l) == pc' = [pc EXCEPT ![p] = l] /\ UNCHANGED job
Answer(p) == /\ pc' = [pc EXCEPT ![p] = "idle"]
             /\ job' = [job EXCEPT ![p] = NoJob]

(* Mistake: a critical section without m.mu.Lock(). *)
UnlockedAlways == TRUE
Unlocked == mu = None

(* Mistake: a late stopper forgets whatever session the user has by now. *)
ForgetWhatever(u, i) == containers' = [containers EXCEPT ![u] = None]

(* delete(m.containers, u), only if its entry is still the one with id i. *)
ForgetEntry(u, i) ==
  containers' = [containers EXCEPT ![u] = IF Holds(u, i) THEN None ELSE @]

DirsFail(u) == "dirs" \in Faults /\ dirs' \in {dirs, dirs \cup {u}}

(* A request for uid u comes in.  requireAuth looks u up in the user store   *)
(* once, here; adminDeleteUser checks that u exists, while logout only reads *)
(* the cookie and adminCreateUser wants a new uid.                           *)
FirstStep(r) ==
  CASE r = "play"     -> "ensure"
    [] r = "import"   -> "import_gate"
    [] r = "timeline" -> "timeline"
    [] r = "create"   -> "create_dirs"
    [] OTHER          -> "flag"

Begin(p, r, u) ==
  /\ At(p, "idle")
  /\ p \in Handlers
  /\ r \in {"logout", "create"} \/ u \in users
  /\ pc' = [pc EXCEPT ![p] = FirstStep(r)]
  /\ job' = [job EXCEPT ![p] = [op |-> r, uid |-> u, ci |-> None]]
  /\ UNCHANGED <<docker, users, dirs, containers, mu, logs, toReap, restarts>>

-----------------------------------------------------------------------------
(* handlePlay, page branch: ensureContainer.  The page is served whatever    *)
(* ensureContainer returns.                                                  *)

EnsureRefuses(p) ==
  LET u == job[p].uid IN
  /\ At(p, "ensure") /\ Unlocked
  /\ u \in Tracked /\ containers[u].stopping
  /\ Answer(p)
  /\ UNCHANGED <<docker, users, dirs, containers, mu, logs, toReap, restarts>>

EnsureReuses(p) ==
  LET u == job[p].uid IN
  /\ At(p, "ensure") /\ Unlocked
  /\ u \in Tracked /\ ~containers[u].stopping
  /\ InspectSaysRunning(containers[u].id)
  /\ containers' = [containers EXCEPT ![u].idle = FALSE]
  /\ Answer(p)
  /\ UNCHANGED <<docker, users, dirs, mu, logs, toReap, restarts>>

(* Mistake: > for >= in the test of the cap. *)
AtCapLate(u) == Cardinality(Tracked \ {u}) > MaxSessions
AtCap(u) == Cardinality(Tracked \ {u}) >= MaxSessions

(* No entry, or one whose container has died and which is dropped (its       *)
(* session log is not): refuse at the cap, else go on with m.mu held.        *)
EnsureMisses(p) ==
  LET u == job[p].uid IN
  /\ At(p, "ensure") /\ Unlocked
  /\ u \in Tracked => /\ ~containers[u].stopping
                      /\ InspectSaysStopped(containers[u].id)
  /\ containers' = [containers EXCEPT ![u] = None]
  /\ IF AtCap(u)
       THEN Answer(p) /\ UNCHANGED mu
       ELSE Goto(p, "spawn_dirs") /\ mu' = p
  /\ UNCHANGED <<docker, users, dirs, logs, toReap, restarts>>

(* ensureUserDirs may fail early or late, with the directories there or not. *)
SpawnMakesDirs(p) ==
  /\ At(p, "spawn_dirs")
  /\ \/ /\ dirs' = dirs \cup {job[p].uid}
        /\ Goto(p, "spawn_rm")
        /\ UNCHANGED mu
     \/ /\ DirsFail(job[p].uid)
        /\ mu' = None
        /\ Answer(p)
  /\ UNCHANGED <<docker, users, containers, logs, toReap, restarts>>

SpawnFreesName(p) ==
  /\ At(p, "spawn_rm")
  /\ RemoveByName(job[p].uid)
  /\ Goto(p, "spawn_run")
  /\ UNCHANGED <<users, dirs, containers, mu, logs, toReap, restarts>>

SpawnRuns(p) ==
  LET u == job[p].uid IN
  /\ At(p, "spawn_run")
  /\ \E i \in Ids :
       /\ RunSucceeds(u, i, u \in dirs)
       /\ job' = [job EXCEPT ![p].ci = i]
  /\ pc' = [pc EXCEPT ![p] = "spawn_insert"]
  /\ UNCHANGED <<users, dirs, containers, mu, logs, toReap, restarts>>

(* Mistake: the error path returns without unlocking m.mu. *)
SpawnFailsLocked(p) ==
  /\ At(p, "spawn_run")
  /\ RunFails(job[p].uid, job[p].uid \in dirs)
  /\ Answer(p)
  /\ UNCHANGED <<users, dirs, containers, mu, logs, toReap, restarts>>

SpawnFails(p) ==
  /\ At(p, "spawn_run")
  /\ RunFails(job[p].uid, job[p].uid \in dirs)
  /\ mu' = None
  /\ Answer(p)
  /\ UNCHANGED <<users, dirs, containers, logs, toReap, restarts>>

(* The new entry, and getOrCreateSessionLog: a log already there is kept. *)
SpawnInserts(p) ==
  LET u == job[p].uid IN
  /\ At(p, "spawn_insert")
  /\ containers' = [containers EXCEPT ![u] = NewEntry(job[p].ci)]
  /\ logs' = logs \cup {u}
  /\ mu' = None
  /\ Answer(p)
  /\ UNCHANGED <<docker, users, dirs, toReap, restarts>>

-----------------------------------------------------------------------------
(* handleSessionStop, handleLogout, handleAccountExport and adminDeleteUser: *)
(* flag, docker stop, docker rm, close the log, forget the entry.            *)

Flag(p) ==
  LET u == job[p].uid IN
  /\ At(p, "flag") /\ Unlocked
  /\ IF u \in Tracked
       THEN /\ containers' = [containers EXCEPT ![u].stopping = TRUE]
            /\ job' = [job EXCEPT ![p].ci = containers[u].id]
            /\ pc' = [pc EXCEPT ![p] = IF job[p].op = "delete"
                                         THEN "check_stale" ELSE "stop"]
       ELSE /\ UNCHANGED containers
            /\ CASE job[p].op = "export" -> Goto(p, "stream")
                 [] job[p].op = "delete" -> Goto(p, "drop_user")
                 [] OTHER                -> Answer(p)
  /\ UNCHANGED <<docker, users, dirs, mu, logs, toReap, restarts>>

(* adminDeleteUser clears an entry whose container is gone without stopping  *)
(* it and without closing its session log.                                   *)
CheckStale(p) ==
  /\ At(p, "check_stale")
  /\ \/ InspectSaysRunning(job[p].ci) /\ Goto(p, "stop")
     \/ InspectSaysStopped(job[p].ci) /\ Goto(p, "forget")
  /\ UNCHANGED <<docker, users, dirs, containers, mu, logs, toReap, restarts>>

(* Mistakes: to return on the error and leave the flag set; to go on as if   *)
(* the container had stopped, whatever the request; to let the reaper take   *)
(* its flag back, as a delete does.                                          *)
StopErrorReturns(p) == "idle"
StopErrorIgnored(p) == "close_log"
StopErrorUnflags(p) == IF job[p].op = "export" THEN "forget_failed" ELSE "unflag"

(* Where the error of dockerStop leads: an export forgets the entry and      *)
(* answers 503, a delete takes its flag back and answers 503, the others go  *)
(* on as if the container had stopped.                                       *)
OnStopError(p) ==
  CASE job[p].op = "export" -> "forget_failed"
    [] job[p].op = "delete" -> "unflag"
    [] OTHER                -> "close_log"

DockerStop(p) ==
  /\ At(p, "stop")
  /\ \/ StopSucceeds(job[p].ci) /\ Goto(p, "rm")
     \/ StopFails(job[p].ci) /\ Goto(p, OnStopError(p))
  /\ UNCHANGED <<users, dirs, containers, mu, logs, toReap, restarts>>

DockerRemove(p) ==
  /\ At(p, "rm")
  /\ \/ RemoveSucceeds(job[p].ci) /\ Goto(p, "close_log")
     \/ RemoveFails(job[p].ci) /\ Goto(p, OnStopError(p))
  /\ UNCHANGED <<users, dirs, containers, mu, logs, toReap, restarts>>

(* stopSessionLog goes by uid, not by the container that was stopped. *)
StopSessionLog(p) ==
  /\ At(p, "close_log")
  /\ logs' = logs \ {job[p].uid}
  /\ Goto(p, "forget")
  /\ UNCHANGED <<docker, users, dirs, containers, mu, toReap, restarts>>

Forget(p) ==
  /\ At(p, "forget") /\ Unlocked
  /\ ForgetEntry(job[p].uid, job[p].ci)
  /\ CASE job[p].op = "export" -> Goto(p, "stream")
       [] job[p].op = "delete" -> Goto(p, "drop_user")
       [] job[p].op = "import" -> Goto(p, "upload")
       [] OTHER                -> Answer(p)
  /\ UNCHANGED <<docker, users, dirs, mu, logs, toReap, restarts>>

ForgetFailed(p) ==
  /\ At(p, "forget_failed") /\ Unlocked
  /\ ForgetEntry(job[p].uid, job[p].ci)
  /\ Answer(p)
  /\ UNCHANGED <<docker, users, dirs, mu, logs, toReap, restarts>>

Unflag(p) ==
  LET u == job[p].uid IN
  /\ At(p, "unflag") /\ Unlocked
  /\ containers' = IF Holds(u, job[p].ci)
                     THEN [containers EXCEPT ![u].stopping = FALSE]
                     ELSE containers
  /\ Answer(p)
  /\ UNCHANGED <<docker, users, dirs, mu, logs, toReap, restarts>>

(* The tar stream of an export, and of the directories only, ends. *)
StreamEnds(p) ==
  /\ At(p, "stream")
  /\ Answer(p)
  /\ UNCHANGED <<docker, users, dirs, containers, mu, logs, toReap, restarts>>

(* Mistake: the directories are removed although DeleteUser has failed. *)
DropUserGoesOn(p) ==
  /\ At(p, "drop_user")
  /\ \/ users' = users \ {job[p].uid}
     \/ "store" \in Faults /\ UNCHANGED users
  /\ Goto(p, "remove_dirs")
  /\ UNCHANGED <<docker, dirs, containers, mu, logs, toReap, restarts>>

(* DeleteUser fails for a user already gone. *)
DropUser(p) ==
  LET u == job[p].uid IN
  /\ At(p, "drop_user")
  /\ \/ /\ u \in users
        /\ users' = users \ {u}
        /\ Goto(p, "remove_dirs")
     \/ /\ u \notin users \/ "store" \in Faults
        /\ UNCHANGED users
        /\ Answer(p)
  /\ UNCHANGED <<docker, dirs, containers, mu, logs, toReap, restarts>>

(* os.RemoveAll may fail before it has removed anything, or after.           *)
RemoveDirs(p) ==
  /\ At(p, "remove_dirs")
  /\ \/ dirs' = dirs \ {job[p].uid}
     \/ "dirs" \in Faults /\ UNCHANGED dirs
  /\ Answer(p)
  /\ UNCHANGED <<docker, users, containers, mu, logs, toReap, restarts>>

-----------------------------------------------------------------------------
(* handleAccountImport: the gate on a running container, then the upload and *)
(* the installation, which look at the containers no more.                   *)

ImportGate(p) ==
  LET u == job[p].uid IN
  /\ At(p, "import_gate") /\ Unlocked
  /\ IF u \in Tracked
       THEN /\ job' = [job EXCEPT ![p].ci = containers[u].id]
            /\ pc' = [pc EXCEPT ![p] = "import_check"]
       ELSE Goto(p, "upload")
  /\ UNCHANGED <<docker, users, dirs, containers, mu, logs, toReap, restarts>>

ImportCheck(p) ==
  /\ At(p, "import_check")
  /\ \/ InspectSaysRunning(job[p].ci) /\ Answer(p)
     \/ InspectSaysStopped(job[p].ci) /\ Goto(p, "forget")
  /\ UNCHANGED <<docker, users, dirs, containers, mu, logs, toReap, restarts>>

(* The client's upload has arrived and is extracted; it may be refused. *)
ImportUpload(p) ==
  /\ At(p, "upload")
  /\ \/ Goto(p, "install") /\ dirs' = dirs \cup {job[p].uid}
     \/ Answer(p) /\ dirs' \in {dirs, dirs \cup {job[p].uid}}
  /\ UNCHANGED <<docker, users, containers, mu, logs, toReap, restarts>>

ImportInstalls(p) ==
  /\ At(p, "install")
  /\ Answer(p)
  /\ UNCHANGED <<docker, users, dirs, containers, mu, logs, toReap, restarts>>

-----------------------------------------------------------------------------
(* handleTimeline: the entry is looked up, then the log opened on its own.   *)

TimelineCheck(p) ==
  /\ At(p, "timeline") /\ Unlocked
  /\ IF job[p].uid \in Tracked THEN Goto(p, "timeline_log") ELSE Answer(p)
  /\ UNCHANGED <<docker, users, dirs, containers, mu, logs, toReap, restarts>>

TimelineOpensLog(p) ==
  /\ At(p, "timeline_log")
  /\ logs' = logs \cup {job[p].uid}
  /\ Answer(p)
  /\ UNCHANGED <<docker, users, dirs, containers, mu, toReap, restarts>>

-----------------------------------------------------------------------------
(* adminCreateUser: directories first, then the record. *)

CreateMakesDirs(p) ==
  /\ At(p, "create_dirs")
  /\ \/ dirs' = dirs \cup {job[p].uid} /\ Goto(p, "insert_user")
     \/ DirsFail(job[p].uid) /\ Answer(p)
  /\ UNCHANGED <<docker, users, containers, mu, logs, toReap, restarts>>

CreateInsertsUser(p) ==
  /\ At(p, "insert_user")
  /\ \/ users' = users \cup {job[p].uid}
     \/ "store" \in Faults /\ UNCHANGED users
  /\ Answer(p)
  /\ UNCHANGED <<docker, dirs, containers, mu, logs, toReap, restarts>>

-----------------------------------------------------------------------------
(* handleSessionKeepalive, one critical section: true when it answers 204. *)
Keepalive(u) ==
  /\ Unlocked
  /\ u \in Tracked
  /\ containers' = [containers EXCEPT ![u].idle = FALSE]
  /\ UNCHANGED <<docker, users, dirs, mu, logs, pc, job, toReap, restarts>>

(* IdleTimeout has passed since lastSeen. *)
BecomesIdle(u) ==
  /\ u \in Tracked
  /\ containers' = [containers EXCEPT ![u].idle = TRUE]
  /\ UNCHANGED <<docker, users, dirs, mu, logs, pc, job, toReap, restarts>>

(* idleReaper: one tick flags every idle entry under one lock, and the next  *)
(* steps stop them one after the other, in the order of the map's iteration. *)
Reapable == {u \in Tracked : containers[u].idle /\ ~containers[u].stopping}

ReaperScans ==
  /\ At(Reaper, "idle") /\ toReap = {} /\ Unlocked
  /\ Reapable # {}
  /\ toReap' = {<<u, containers[u].id>> : u \in Reapable}
  /\ containers' = [u \in Users |-> IF u \in Reapable
                                      THEN [containers[u] EXCEPT !.stopping = TRUE]
                                      ELSE containers[u]]
  /\ UNCHANGED <<docker, users, dirs, mu, logs, pc, job, restarts>>

ReaperTakes ==
  /\ At(Reaper, "idle")
  /\ \E t \in toReap :
       /\ toReap' = toReap \ {t}
       /\ job' = [job EXCEPT ![Reaper] = [op |-> "reap", uid |-> t[1], ci |-> t[2]]]
  /\ pc' = [pc EXCEPT ![Reaper] = "stop"]
  /\ UNCHANGED <<docker, users, dirs, containers, mu, logs, restarts>>

GameExits(i) ==
  /\ ContainerExits(i)
  /\ UNCHANGED manager

-----------------------------------------------------------------------------
(* Mistake: reconcile lists exited containers too (docker ps -a). *)
AdoptedExited(known) ==
  [u \in Users |-> IF u \in known /\ Named(u) # {}
                     THEN NewEntry(CHOOSE i \in Named(u) : TRUE) ELSE None]

Adopted(known) ==
  [u \in Users |->
     IF u \in known /\ \E i \in Named(u) : Running(i)
       THEN NewEntry(CHOOSE i \in Named(u) : Running(i))
       ELSE None]

Exited == {i \in Ids : cstate[i] = "exited"}

(* openDB imports users.yml into an empty table; no error stops the start.   *)
ImportsLegacy ==
  \/ users' = IF users = {} THEN Legacy ELSE users
  \/ {"store", "lookup"} \cap Faults # {} /\ UNCHANGED users

(* ensureUserDirs for every user that store.All finds.                       *)
EnsuresDirs ==
  \E done \in SUBSET users' :
    /\ done = users' \/ {"dirs", "lookup"} \cap Faults # {}
    /\ dirs' = dirs \cup done

(* reconcile adopts the running containers of the users that the store knows *)
(* of, whatever the cap, and removes the exited ones.  A lookup that fails   *)
(* reads as an unknown user; when the listing fails, nothing is done.        *)
Reconciles ==
  \/ /\ "list" \in Faults
     /\ containers' = [u \in Users |-> None]
     /\ UNCHANGED cstate
  \/ /\ \E known \in SUBSET users' :
          /\ known = users' \/ "lookup" \in Faults
          /\ containers' = Adopted(known)
     /\ \E gone \in SUBSET Exited :
          /\ gone = Exited \/ {"list", "rm"} \cap Faults # {}
          /\ cstate' = [i \in Ids |-> IF i \in gone THEN "removed" ELSE cstate[i]]

(* The session manager dies, with its goroutines and all it kept in memory,  *)
(* and starts again.                                                         *)
Restart ==
  /\ restarts < MaxRestarts
  /\ restarts' = restarts + 1
  /\ ImportsLegacy
  /\ EnsuresDirs
  /\ Reconciles
  /\ mu' = None
  /\ logs' = {}
  /\ pc' = [p \in Procs |-> "idle"]
  /\ job' = [p \in Procs |-> NoJob]
  /\ toReap' = {}
  /\ UNCHANGED cname

-----------------------------------------------------------------------------
Ensure(p) ==
  \/ EnsureRefuses(p) \/ EnsureReuses(p) \/ EnsureMisses(p)
  \/ SpawnMakesDirs(p) \/ SpawnFreesName(p) \/ SpawnRuns(p) \/ SpawnFails(p)
  \/ SpawnInserts(p)

End(p) ==
  \/ Flag(p) \/ CheckStale(p) \/ DockerStop(p) \/ DockerRemove(p)
  \/ StopSessionLog(p) \/ Forget(p) \/ ForgetFailed(p) \/ Unflag(p)

(* The steps that a process takes on its own once it has started a request. *)
Step(p) ==
  \/ Ensure(p) \/ End(p)
  \/ DropUser(p) \/ RemoveDirs(p)
  \/ ImportGate(p) \/ ImportCheck(p) \/ ImportInstalls(p)
  \/ TimelineCheck(p) \/ TimelineOpensLog(p)
  \/ CreateMakesDirs(p) \/ CreateInsertsUser(p)

(* The steps that wait for the client to send or to read. *)
ClientPaced(p) == StreamEnds(p) \/ ImportUpload(p)

Reap == ReaperScans \/ ReaperTakes

Next ==
  \/ \E p \in Handlers, r \in Requests, u \in Users : Begin(p, r, u)
  \/ \E p \in Procs : Step(p) \/ ClientPaced(p)
  \/ Reap
  \/ \E u \in Users : Keepalive(u) \/ BecomesIdle(u)
  \/ \E i \in Ids : GameExits(i)
  \/ Restart

Spec == Init /\ [][Next]_vars

(* Every docker command returns and Go's mutex does not starve a waiter, so  *)
(* a process gets on with its request whenever it can again and again.  The  *)
(* reaper's ticker only looks every two minutes: an idle entry may be        *)
(* flagged by somebody else whenever it does.                                *)
Fairness == /\ \A p \in Procs : SF_vars(Step(p))
            /\ WF_vars(Reap)

FairSpec == Spec /\ Fairness

-----------------------------------------------------------------------------
(* Types of all variables. *)
TypeOK ==
  /\ DockerTypeOK
  /\ users \subseteq Users
  /\ dirs \subseteq Users
  /\ containers \in [Users -> Entry \cup {None}]
  /\ mu \in Procs \cup {None}
  /\ logs \subseteq Users
  /\ pc \in [Procs -> Labels]
  /\ job \in [Procs -> Job]
  /\ toReap \subseteq Users \X Ids
  /\ restarts \in Nat

Spawning == {"spawn_dirs", "spawn_rm", "spawn_run", "spawn_insert"}

(* The steps of a process that will still drop or unflag its entry. *)
Resolving == {"check_stale", "stop", "rm", "close_log", "forget",
              "forget_failed", "unflag"}

Resolves(p, u, i) ==
  pc[p] \in Resolving /\ job[p].uid = u /\ job[p].ci = i

(* Nobody is locked out of /play by a stuck flag: a session marked as        *)
(* stopping always has a process on its way to forget or unflag it           *)
(* (handleSessionStop's comment, manager.go:614-617).                        *)
EndingHasOwner ==
  \A u \in Users, i \in Ids :
    Ending(u, i) =>
      <<u, i>> \in toReap \/ \E p \in Procs : Resolves(p, u, i)

(* docker run never meets a name conflict: ensureContainer has just removed  *)
(* the name and holds m.mu, so nobody else can have taken it since           *)
(* (docker.go:97-102).                                                       *)
RunNeverConflicts ==
  "rm" \notin Faults =>
    \A p \in Procs : At(p, "spawn_run") => Named(job[p].uid) = {}

(* No container of a known user runs unnoticed: it is in the map, or about   *)
(* to be inserted by the process that has just run it.  Every path that      *)
(* drops an entry has seen its container down.                               *)
NoOrphans ==
  \A i \in RunningContainers :
    \/ Holds(cname[i], i)
    \/ \E p \in Procs : At(p, "spawn_insert") /\ job[p].ci = i

(* README, configuration table: max_sessions is the maximum number of        *)
(* concurrent game containers.                                               *)
CapHolds == Cardinality(RunningContainers) <= MaxSessions

(* adminDeleteUser's order of steps: no step takes the directories of a user *)
(* who is in the store and stays there, also when deletes fail, are repeated *)
(* or overlap, and whoever users.yml brings back (admin.go:240-260).         *)
UsersKeepTheirDirs == [][users \cap users' \cap dirs \subseteq dirs']_vars

(* What needs the game down has seen it down: an export is not streamed and  *)
(* a user not deleted while the container that the request found still runs  *)
(* (manager.go:424-437, admin.go:219-231).                                   *)
TeardownSeesGameStopped ==
  \A p \in Procs :
    pc[p] \in {"stream", "drop_user", "remove_dirs"} /\ job[p].ci # None
      => ~Running(job[p].ci)

(* The session lease seen in the manager's state: a session is on from the   *)
(* docker run that starts its game.                                          *)
Phase(u) ==
  IF u \in Tracked THEN IF containers[u].stopping THEN "ending" ELSE "on"
  ELSE IF \E p \in Procs : At(p, "spawn_insert") /\ job[p].uid = u
         THEN "on" ELSE "off"

Lease == INSTANCE SessionLease WITH
  Cap <- MaxSessions,
  session <- [u \in Users |-> Phase(u)],
  live <- {u \in Users : \E i \in Named(u) : Running(i)}

(* The manager implements the session lease. *)
ImplementsLease == Lease!Spec

(* A session that is ending ends: whoever flagged it forgets or unflags it.  *)
EndingResolves ==
  \A u \in Users, i \in Ids : Ending(u, i) ~> ~Ending(u, i)

Deleting(u) == \E p \in Handlers : job[p].op = "delete" /\ job[p].uid = u

(* An idle session is reaped unless its player comes back, although docker   *)
(* stop may fail each time and other stoppers have flagged it before, once   *)
(* deletes that take their flag back no longer keep the reaper from seeing   *)
(* it (manager.go:636-643).                                                  *)
IdleIsReaped ==
  \A u \in Users, i \in Ids :
    <>[]~Deleting(u) =>
      (Holds(u, i) /\ containers[u].idle
         ~> ~Holds(u, i) \/ ~containers[u].idle)

(* Every request is answered: no handler waits for m.mu, or keeps it, for    *)
(* ever.                                                                     *)
RequestsAnswered ==
  \A p \in Handlers :
    ~At(p, "idle") ~> pc[p] \in {"idle", "stream", "upload"}
=============================================================================
