----------------------------- MODULE MCTilesets -----------------------------
(* Instances of Tilesets for model checking. *)
EXTENDS Tilesets, TLC

Symmetry == Permutations(Lower) \cup Permutations(Names \ Lower)
              \cup Permutations(Requests)
=============================================================================
