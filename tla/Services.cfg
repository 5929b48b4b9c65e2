\* Two sessions of a gateway with two connections, and a replay window of one; two turns
\* with two rounds of tools each and a history shorter than that; two publishers and one
\* handler; a memory of three rounds; two backups; two security rules.
SPECIFICATION Spec
CONSTANTS
  SessionIds = {s1, s2}
  s1 = s1
  s2 = s2
  Connections = {c1, c2}
  c1 = c1
  c2 = c2
  ReplayWindow = 1
  MaxRuntimes = 2
  MaxStored = 4
  MaxTurns = 2
  MaxToolRounds = 2
  MaxVersions = 2
  MaxHistory = 4
  Publishers = {p1, p2}
  p1 = p1
  p2 = p2
  Handlers = {h1}
  h1 = h1
  MaxSubscriptions = 3
  MaxPublishes = 3
  MaxRounds = 3
  MaxAdded = 6
  MaxSize = 2
  BackupCount = 2
  MaxRecords = 4
  MaxRotations = 4
  Priorities = {0, 1}
  MaxRules = 2
SYMMETRY Symmetry
INVARIANTS SilentLossIsStale RequestsFitTheTurn OnceIsOncePerPublisher RecentRoundsAreKept LogIsASuffix CallsAreVetted
CHECK_DEADLOCK FALSE
