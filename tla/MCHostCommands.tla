--------------------------- MODULE MCHostCommands ---------------------------
EXTENDS HostCommands, TLC

CommandBounds == [memory |-> 5, skills |-> 3, prompts |-> 3]

Symmetry == Permutations(Sessions) \union Permutations(Fragments)
=============================================================================
