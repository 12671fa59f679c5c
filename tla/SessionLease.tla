---------------------------- MODULE SessionLease ----------------------------
(***************************************************************************)
(* What the session manager promises about game sessions, without its map,  *)
(* its mutex, its handlers or the container runtime: each user has at most   *)
(* one session, which is off, on or ending; a game runs only inside a        *)
(* session; a session is over only once its game is down, and no more than   *)
(* Cap sessions are ever open.                                               *)
(***************************************************************************)
EXTENDS FiniteSets, Integers

CONSTANTS Users, Cap

VARIABLES
  session,  \* [Users -> phase of the user's session]
  live      \* the users whose game is running

vars == <<session, live>>

Phases == {"off", "on", "ending"}

TypeOK == session \in [Users -> Phases] /\ live \subseteq Users

Open == {u \in Users : session[u] # "off"}

Init == session = [u \in Users |-> "off"] /\ live = {}

(* A new session starts with its game. *)
Start(u) ==
  /\ session[u] = "off"
  /\ Cardinality(Open) < Cap
  /\ session' = [session EXCEPT ![u] = "on"]
  /\ live' = live \cup {u}

(* Sessions are told to end, some together. *)
Announce(S) ==
  /\ \A u \in S : session[u] = "on"
  /\ session' = [u \in Users |-> IF u \in S THEN "ending" ELSE session[u]]
  /\ UNCHANGED live

(* A delete that cannot go through takes the announcement back. *)
Revoke(u) ==
  /\ session[u] = "ending"
  /\ session' = [session EXCEPT ![u] = "on"]
  /\ UNCHANGED live

GameOver(u) == live' = live \ {u} /\ UNCHANGED session

(* The session is over; its game is, too. *)
Close(u) ==
  /\ u \notin live
  /\ session' = [session EXCEPT ![u] = "off"]
  /\ UNCHANGED live

(* After a restart the sessions are those whose game still runs. *)
Recover ==
  /\ session' = [u \in Users |-> IF u \in live THEN "on" ELSE "off"]
  /\ UNCHANGED live

Next ==
  \/ \E u \in Users : Start(u) \/ Revoke(u) \/ GameOver(u) \/ Close(u)
  \/ \E S \in SUBSET Users : Announce(S)
  \/ Recover

Spec == Init /\ [][Next]_vars
=============================================================================
