\* Two sessions; crashes, unreadable files, failed distillations, a summary with a
\* header of its own; skill files that others change.
SPECIFICATION Spec
CONSTANTS
  Sessions = {s1, s2}
  s1 = s1
  s2 = s2
  None = None
  DaysToKeep = 1
  MaxDay = 3
  MaxEntries = 3
  MaxMishaps = 1
  MaxEdits = 2
  Fragments = {f1, f2}
  f1 = f1
  f2 = f2
  MaxUpdates = 3
  MaxCommands <- CommandBounds
SYMMETRY Symmetry
INVARIANTS MemoryIsKept SkillsAreCurrent PromptsAreCurrent
CHECK_DEADLOCK FALSE
