\* The user sends messages and interrupts at any moment; one exception is logged,
\* one message has a line break in it.
SPECIFICATION FairSpec
CONSTANTS
  MaxMessages = 2
  MaxInterrupts = 2
  MaxResponses = 2
  MaxCalls = 2
  MaxLogs = 1
  MaxPastes = 1
INVARIANTS InputReachesAgent InterruptsHitTheirTurn RepliesAreCurrent TuiFollowsUndisturbed
PROPERTIES PromptComesBack
CHECK_DEADLOCK FALSE
