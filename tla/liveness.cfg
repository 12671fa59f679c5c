\* Progress of one user's sessions: two handlers, the reaper, failing stops and
\* directories that cannot be made.
CONSTANTS
  None = None
  Reaper = reaper
  Users = {u1}
  Ids = {c1, c2}
  Handlers = {h1, h2}
  Faults = {"stop", "dirs"}
  Legacy = {}
  Requests = {"play", "delete"}
  MaxSessions = 1
  MaxRestarts = 0
SPECIFICATION FairSpec
PROPERTIES EndingResolves IdleIsReaped RequestsAnswered
CHECK_DEADLOCK FALSE
