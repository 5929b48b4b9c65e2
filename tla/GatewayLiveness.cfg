\* Does every announced request end, with a connection that may be lost?
SPECIFICATION FairSpec
CONSTANTS
  Conns = {c1}
  Requests = {r1, r2}
  Worker = Worker
  None = None
  ReplayLimit = 2
  QueueLimit = 1
  FactoryMayFail = FALSE
  OverlappingBinds = FALSE
  Unreliable = {c1}
  Resumes <- FreshOnly
  ResponseKinds = {"event"}
  MaxBinds = 1
  MaxResponses = 1
  MaxInterrupts = 0
CHECK_DEADLOCK FALSE
PROPERTIES
  LockIsReleased
  ImplementsFairRequestService
