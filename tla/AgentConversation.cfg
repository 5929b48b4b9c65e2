\* Conversations longer than the four messages kept besides the prompt, whose
\* consumer follows, interrupts or abandons each turn.
SPECIFICATION FairSpec
CONSTANTS
  Prompt = TRUE
  MaxHistory = 4
  MaxIterations = 3
  Latches = 2
  MaxTurns = 4
  MaxChunks = 2
  MaxYields = 2
  MaxCalls = 3
INVARIANTS HistoryIsBounded CallsAreAnswered
PROPERTIES InterruptIsHonoured ImplementsResponseStream TurnsEnd
