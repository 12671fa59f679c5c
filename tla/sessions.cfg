\* Sessions and creations of two users under a cap of one, with a restart;
\* docker run, writes to the store and the making of directories may fail.
CONSTANTS
  None = None
  Reaper = reaper
  Users = {u1, u2}
  Ids = {c1, c2, c3}
  Handlers = {h1, h2}
  Faults = {"run", "store", "dirs"}
  Legacy = {u1, u2}
  Requests = {"play", "stop", "import", "create"}
  MaxSessions = 1
  MaxRestarts = 1
SYMMETRY Symmetry
SPECIFICATION Spec
INVARIANTS RunNeverConflicts NoOrphans CapHolds
PROPERTIES ImplementsLease
CHECK_DEADLOCK TRUE
