\* A delete beside a page load.
CONSTANTS
  None = None
  Reaper = reaper
  Users = {u1}
  Ids = {c1, c2}
  Handlers = {h1, h2}
  Faults = {}
  Legacy = {}
  Requests = {"play", "delete"}
  MaxSessions = 1
  MaxRestarts = 0
SPECIFICATION Spec
PROPERTY NoSpawnAfterDelete
CHECK_DEADLOCK FALSE
