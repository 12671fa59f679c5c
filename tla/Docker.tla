------------------------------- MODULE Docker -------------------------------
(***************************************************************************)
(* The container runtime, as session-manager/docker.go drives it: external  *)
(* code, modelled from the commands that file issues and from the answers   *)
(* it distinguishes.  A container is named df-<uid>, so its name is its     *)
(* user; the runtime gives every container a fresh id and reserves a name   *)
(* for as long as a container of that name exists, exited ones included.    *)
(***************************************************************************)
EXTENDS FiniteSets

CONSTANTS
  Users,    \* the uids
  Ids,      \* container ids; a finite set bounds the number of containers ever run
  None,     \* no container, no user
  Faults    \* the commands that may also fail for no reason of the model

FaultKinds == {"run", "stop", "rm", "inspect", "list",
               "store", "lookup", "dirs"}

ASSUME FaultsAssumption == Faults \subseteq FaultKinds
ASSUME NoneAssumption == None \notin Users /\ None \notin Ids

VARIABLES
  cstate,   \* [Ids -> state of the container]
  cname     \* [Ids -> the user whose name the container carries]

docker == <<cstate, cname>>

ContainerStates == {"unused", "running", "exited", "removed"}

DockerTypeOK ==
  /\ cstate \in [Ids -> ContainerStates]
  /\ cname \in [Ids -> Users \cup {None}]

DockerInit ==
  /\ cstate = [i \in Ids |-> "unused"]
  /\ cname = [i \in Ids |-> None]

Running(i) == cstate[i] = "running"
Exists(i) == cstate[i] \in {"running", "exited"}

(* The containers that hold the name df-u. *)
Named(u) == {i \in Ids : cname[i] = u /\ Exists(i)}

RunningContainers == {i \in Ids : Running(i)}

-----------------------------------------------------------------------------
(* docker run -d --name df-u ...: a fresh id, refused while the name is     *)
(* taken.  The bind mounts are given with --mount, which refuses a source   *)
(* directory that does not exist: hasDirs says whether the user's do.       *)
RunSucceeds(u, i, hasDirs) ==
  /\ cstate[i] = "unused"
  /\ Named(u) = {}
  /\ hasDirs
  /\ cstate' = [cstate EXCEPT ![i] = "running"]
  /\ cname' = [cname EXCEPT ![i] = u]

(* It fails on a name conflict, without the directories, by a fault, and    *)
(* when the bound Ids on containers is used up.                             *)
RunFails(u, hasDirs) ==
  /\ \/ Named(u) # {}
     \/ ~hasDirs
     \/ "run" \in Faults
     \/ \A i \in Ids : cstate[i] # "unused"
  /\ UNCHANGED docker

(* docker rm -f df-u: kills and removes whatever holds the name. *)
RemoveByName(u) ==
  \/ /\ cstate' = [i \in Ids |-> IF i \in Named(u) THEN "removed" ELSE cstate[i]]
     /\ UNCHANGED cname
  \/ /\ "rm" \in Faults
     /\ UNCHANGED docker

(* docker stop <id>: an exited container is no error, a missing one is. *)
StopSucceeds(i) ==
  /\ Exists(i)
  /\ cstate' = [cstate EXCEPT ![i] = "exited"]
  /\ UNCHANGED cname

StopFails(i) ==
  /\ ~Exists(i) \/ "stop" \in Faults
  /\ UNCHANGED docker

(* docker rm -f <id>: with -f a missing container is an error for some      *)
(* versions of the runtime and none for others.                             *)
RemoveSucceeds(i) ==
  /\ cstate' = [cstate EXCEPT ![i] = "removed"]
  /\ UNCHANGED cname

RemoveFails(i) ==
  /\ ~Exists(i) \/ "rm" \in Faults
  /\ UNCHANGED docker

(* dockerIsRunning: any failure of docker inspect reads as "not running". *)
InspectSaysRunning(i) == Running(i)
InspectSaysStopped(i) == ~Running(i) \/ "inspect" \in Faults

(* The game crashes, runs out of memory, or the player quits it. *)
ContainerExits(i) ==
  /\ Running(i)
  /\ cstate' = [cstate EXCEPT ![i] = "exited"]
  /\ UNCHANGED cname
=============================================================================
