\* Two files in data/, one in config/, two changes; any call may fail.
CONSTANTS
  None = None
  Sizes = {1, 2}
  Data = 2
  Files = 3
  GameOps = {"write", "create", "remove", "rename"}
  MaxChanges = 2
  Faults = {"sign", "list", "header", "copy"}
SPECIFICATION Spec
INVARIANTS TrueIsFaithful QuietIsFaithful
CHECK_DEADLOCK FALSE
