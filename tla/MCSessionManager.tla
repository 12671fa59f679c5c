-------------------------- MODULE MCSessionManager --------------------------
(* Instances of SessionManager for model checking. *)
EXTENDS SessionManager, TLC

HandlerIdSymmetry == Permutations(Handlers) \cup Permutations(Ids)
Symmetry == HandlerIdSymmetry \cup Permutations(Users)
=============================================================================
