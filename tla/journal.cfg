\* Two saves, two fetches or abandoned handlers, one passage typed.
CONSTANTS
  Saves = {s1, s2}
  Calls = {c1, c2}
  None = None
  Faults = {"read", "create", "write", "rename", "network"}
  MaxEdits = 1
  MaxHasty = 1
SPECIFICATION Spec
INVARIANTS NoMixing PassagesAreKept
PROPERTIES StoredAsSent TypedIsStored
CHECK_DEADLOCK FALSE
