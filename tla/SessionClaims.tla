---------------------------- MODULE SessionClaims ----------------------------
(***************************************************************************)
(* What a comment of the repository says of the session manager and its     *)
(* code does not do.                                                        *)
(***************************************************************************)
EXTENDS SessionManager

(* admin.go:241-244: once the user is gone from the store, ensureContainer   *)
(* cannot spawn a fresh container.  It does for a request that passed        *)
(* requireAuth before.                                                       *)
NoSpawnAfterDelete ==
  [][\A p \in Procs : SpawnRuns(p) => job[p].uid \in users]_vars
=============================================================================
