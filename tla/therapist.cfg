\* One field, and three requests or scripts that outlived theirs.
CONSTANTS
  Fields = {f1}
  Values = {a, b}
  Calls = {c1, c2, c3}
  None = None
  Faults = {"session", "exec", "lua", "network"}
SPECIFICATION Spec
INVARIANTS EditsAreKept ShownIsTrue
CHECK_DEADLOCK FALSE
SYMMETRY Symmetry
