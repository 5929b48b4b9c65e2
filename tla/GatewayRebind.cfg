\* A second connection binds while the first is still replaying.
SPECIFICATION Spec
CONSTANTS
  Conns = {c1, c2}
  Requests = {r1}
  Worker = Worker
  None = None
  ReplayLimit = 2
  QueueLimit = 1
  FactoryMayFail = FALSE
  OverlappingBinds = TRUE
  Unreliable = {}
  Resumes <- FreshOnly
  ResponseKinds = {"event"}
  MaxBinds = 2
  MaxResponses = 1
  MaxInterrupts = 0
CHECK_DEADLOCK FALSE
INVARIANTS
  NoSilentLoss
