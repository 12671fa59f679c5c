---------------------------- MODULE MCSaveImport ----------------------------
(* Instances of SaveImport for model checking. *)
EXTENDS SaveImport, TLC

File(path, size) == [type |-> "file", path |-> path, size |-> size]
Dir(path) == [type |-> "dir", path |-> path, size |-> 0]
Not(type) == [type |-> type, path |-> <<1>>, size |-> 0]

(* world.sav is 0; 1 and 3 are regions, 2 and 4 are not.                     *)
SomeEntries ==
  {File(<<1, 0>>, 1), File(<<2, 0>>, 1), File(<<3, 0>>, 2), File(<<1, 0>>, 0),
   File(<<4, 0>>, 1), File(<<4, 3, 0>>, 1), File(<<4, 4, 1, 0>>, 0),
   File(<<4, 4, 4, 1, 0>>, 0), File(<<1>>, 1), Dir(<<1, 0>>), Dir(<<4, 1>>), Not("skip"), Not("bad")}
SomeUploads == UNION {[1..n -> SomeEntries] : n \in 0..4}
Symmetry == Permutations(Imports)
=============================================================================
