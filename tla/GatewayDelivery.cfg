\* Connections that are lost and resumed, an interrupt, a queue of one frame.
SPECIFICATION Spec
CONSTANTS
  Conns = {c1, c2}
  Requests = {r1}
  Worker = Worker
  None = None
  ReplayLimit = 3
  QueueLimit = 1
  FactoryMayFail = FALSE
  OverlappingBinds = FALSE
  Unreliable = {c1, c2}
  Resumes <- FreshOrSeen
  ResponseKinds = {"event", "delta"}
  MaxBinds = 2
  MaxResponses = 1
  MaxInterrupts = 1
CHECK_DEADLOCK FALSE
SYMMETRY Symmetry
INVARIANTS
  NoDuplicateDelivery
  NoSilentLoss
  RequestEventsInOrder
