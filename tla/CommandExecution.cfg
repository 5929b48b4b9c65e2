\* Two sessions, each with the shared container or with processes of its own.
SPECIFICATION FairSpec
CONSTANTS
  Agents = {a1, a2}
  MaxFaults = 1
  MaxCalls = 2
  a1 = a1
  a2 = a2
INVARIANTS ResultTellsTheRun ArmedCallsDoNotRun
PROPERTIES ContainerComesUp CallsEnd
CHECK_DEADLOCK FALSE
