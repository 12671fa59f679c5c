\* Two admins, two requests of any kind, a restart.
CONSTANTS
  Uids = {u1, u2}
  None = None
  Handlers = {h1, h2}
  Yaml = {u1, u2}
  YamlAdmins = {u1, u2}
  YamlHolder = u2
  Ops <- AnyRequest
  Faults = {"store"}
  MaxChallenges = 2
  MaxServed = 4
  MaxCrashes = 1
SPECIFICATION Spec
INVARIANTS PasskeysHaveUser EnrolledKept AdminRemains AnsweredOnce RetiredTokensStayDead
PROPERTIES SignCountsAdvance
SYMMETRY Symmetry
CHECK_DEADLOCK FALSE
