---------------------------- MODULE MCUserStore -----------------------------
(* Instances of UserStore for model checking. *)
EXTENDS UserStore, TLC

(* Every handler serves any request. *)
AnyRequest == [h \in Handlers |-> AllOps]
Symmetry == Permutations(Handlers)
=============================================================================
