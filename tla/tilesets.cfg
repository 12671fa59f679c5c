\* Two requests about three names, of which the start script copies two.
CONSTANTS
  Names = {a, b, c}
  Lower = {a, b}
  Requests = {r1, r2}
  Ops = {"upload", "set", "clear", "delete"}
  None = None
  Default = Default
  MaxCount = 1
  Faults = {"stat", "list", "write", "rename", "remove", "store", "copy", "sed"}
  MaxServed = 4
  MaxCrashes = 1
SPECIFICATION Spec
INVARIANTS ExcessBounded TempsAreInUse ActiveExists
PROPERTIES FontPresent
SYMMETRY Symmetry
CHECK_DEADLOCK FALSE
