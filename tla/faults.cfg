\* Every request but a creation from two handlers and the reaper, for one user,
\* with every failure but one: docker inspect tells the truth.
CONSTANTS
  None = None
  Reaper = reaper
  Users = {u1}
  Ids = {c1, c2}
  Handlers = {h1, h2}
  Faults = {"run", "stop", "rm", "list", "store", "lookup", "dirs"}
  Legacy = {u1}
  Requests = {"play", "stop", "logout", "export", "import", "timeline", "delete"}
  MaxSessions = 1
  MaxRestarts = 1
SYMMETRY HandlerIdSymmetry
SPECIFICATION Spec
INVARIANTS EndingHasOwner TeardownSeesGameStopped
PROPERTIES UsersKeepTheirDirs
