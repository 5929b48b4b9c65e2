---------------------------- MODULE HostCommands ----------------------------
(***************************************************************************)
(* The commands the execution service serves on the host instead of in the *)
(* container: memory, update_prompt, toolkit and the reading of skill      *)
(* files.  A session's thread serves one of them at a time; the sessions   *)
(* share the files and nothing else.                                       *)
(***************************************************************************)
EXTENDS Memory, Skills, Prompts

CONSTANTS MaxCommands    \* bound: commands begun by all sessions together, by kind

Parts == {"memory", "skills", "prompts"}

ASSUME CommandsAssumption == MaxCommands \in [Parts -> Nat]

VARIABLES
  commands,   \* commands begun so far
  part        \* bound: the kind of files the commands of this behaviour are about

vars == <<memory, skills, prompts, commands, part>>

\* What the dispatch table of the service and the handler of skill files serve.
Free(s) == Doing(s, "idle") /\ Scanning(s, "rest") /\ Updating(s, "none")

\* The three kinds of files have no state in common, so that mixing their commands
\* shows nothing that each kind does not show.
Init ==
  /\ MemoryInit /\ SkillsInit /\ PromptsInit
  /\ commands = 0
  /\ part \in Parts

\* _try_handle_builtin and _try_handle_cat_skills.
Dispatch(s) ==
  /\ Free(s) /\ system[s] # None
  /\ commands < MaxCommands[part] /\ commands' = commands + 1
  /\ UNCHANGED part
  /\ \/ part = "memory"  /\ MemoryBegin(s) /\ UNCHANGED <<skills, prompts>>
     \/ part = "skills"  /\ SkillsBegin(s) /\ UNCHANGED <<memory, prompts>>
     \/ part = "prompts" /\ WriteFragment(s) /\ UNCHANGED <<memory, skills>>

Continue(s) ==
  /\ UNCHANGED <<commands, part>>
  /\ \/ MemoryGoesOn(s) /\ UNCHANGED <<skills, prompts>>
     \/ SkillsGoesOn(s) /\ UNCHANGED <<memory, prompts>>
     \/ PromptsGoesOn(s) /\ UNCHANGED <<memory, skills>>

\* A session's first request makes its agent, whose registry is filled at once.
Open(s) ==
  /\ OpenSession(s)
  /\ registry' = [registry EXCEPT ![s] = InForce]
  /\ asOf' = [asOf EXCEPT ![s] = edits]
  /\ UNCHANGED <<files, cache, scan, edits, clock, sameTick, memory, commands, part>>

\* The process dies and is started again: files stay as they are, what the sessions
\* knew and had begun is gone.
Restart ==
  /\ Crash /\ RestartPrompts
  /\ registry' = [s \in Sessions |-> None]
  /\ cache' = [s \in Sessions |-> [d \in Dirs |-> None]]
  /\ scan' = [s \in Sessions |-> Resting]
  /\ asOf' = [s \in Sessions |-> None]
  /\ UNCHANGED <<files, edits, clock, sameTick, commands, part>>

Outside ==
  /\ UNCHANGED <<prompts, commands, part>>
  /\ \/ part = "memory" /\ NewDay /\ UNCHANGED skills
     \/ part = "skills" /\ FilesChange /\ UNCHANGED memory

Next ==
  \/ \E s \in Sessions : Dispatch(s) \/ Continue(s) \/ Open(s)
  \/ Restart
  \/ Outside

Spec == Init /\ [][Next]_vars
=============================================================================
