\* Two connections, two requests: binds that overlap, an agent factory that may fail.
SPECIFICATION Spec
CONSTANTS
  Conns = {c1, c2}
  Requests = {r1, r2}
  Worker = Worker
  None = None
  ReplayLimit = 2
  QueueLimit = 1
  FactoryMayFail = TRUE
  OverlappingBinds = TRUE
  Unreliable = {}
  Resumes <- FreshOnly
  ResponseKinds = {"event"}
  MaxBinds = 2
  MaxResponses = 1
  MaxInterrupts = 0
CHECK_DEADLOCK FALSE
SYMMETRY Symmetry
INVARIANTS
  RequestInv
  ActiveHasOwner
  EpisodesDoNotInterleave
PROPERTIES
  FinalStateIsStable
  ImplementsRequestService
