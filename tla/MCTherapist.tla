----------------------------- MODULE MCTherapist -----------------------------
(* Instances of Therapist for model checking. *)
EXTENDS Therapist, TLC

Symmetry == Permutations(Fields) \cup Permutations(Values) \cup Permutations(Calls)
=============================================================================
