\* Messages, interrupts and blank lines in any order; the input ends and the frontend
\* stops reading at any moment.
SPECIFICATION FairServerSpec
CONSTANTS
  MaxLines = 4
  MaxResponses = 2
  MaxCalls = 1
INVARIANTS LinesAreAnsweredInOrder
PROPERTIES ServerEnds
CHECK_DEADLOCK FALSE
