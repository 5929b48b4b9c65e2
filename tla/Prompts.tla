------------------------------ MODULE Prompts ------------------------------
(***************************************************************************)
(* The system prompt: fragment files, the file they are composed into, and *)
(* the prompt each session's conversation begins with.                     *)
(*                                                                         *)
(* update_prompt writes a fragment, reads all of them to compose the       *)
(* prompt, writes the composed file and hands it to its own session only.  *)
(* The updates of two sessions may overlap, and composing may fail after   *)
(* the fragment has been written.                                          *)
(***************************************************************************)
EXTENDS HostSessions, Naturals

CONSTANTS
  Fragments,    \* PROMPT_LAYER_FILES
  MaxUpdates    \* bound: updates begun

ASSUME PromptsAssumption == MaxUpdates \in Nat /\ None \notin [Fragments -> Nat]

VARIABLES
  fragment,   \* fragment[f]: the number of the update that wrote it, 0 for the template
  prompt,     \* prompt[f]: what the composed file has of fragment f
  system,     \* system[s]: what session s's system prompt has of each, or None
  update,     \* update[s]: the update session s has begun
  own,        \* history: own[s]: the last update session s has published, or None
  updates,    \* updates so far
  behind      \* history: the composed file may be behind, because updates overlapped,
              \* the last one failed, or the process died in one

prompts == <<fragment, prompt, system, update, own, updates, behind>>

NoUpdate == [step |-> "none"]

\* compose_system_prompt reads the fragments; nothing locks them.
Composed == fragment

\* ensure_runtime_scaffold has copied the templates and composed them.
PromptsInit ==
  /\ fragment = [f \in Fragments |-> 0]
  /\ prompt = Composed
  /\ system = [s \in Sessions |-> None]
  /\ update = [s \in Sessions |-> NoUpdate]
  /\ own = [s \in Sessions |-> None]
  /\ updates = 0 /\ behind = FALSE

Updating(s, step) == update[s].step = step
Advance(s, next) == update' = [update EXCEPT ![s] = next]

\* The agent's conversation begins with the composed file (_load_prompt).
OpenSession(s) ==
  /\ system[s] = None
  /\ system' = [system EXCEPT ![s] = prompt]
  /\ UNCHANGED <<fragment, prompt, update, own, updates, behind>>

\* _update_prompt_file: only known fragments; the fragment is written first.
WriteFragment(s) ==
  /\ system[s] # None /\ Updating(s, "none") /\ updates < MaxUpdates
  /\ updates' = updates + 1
  /\ \E f \in Fragments :
       /\ fragment' = [fragment EXCEPT ![f] = updates + 1]
       /\ Advance(s, [step |-> "compose", of |-> f, number |-> updates + 1])
  /\ UNCHANGED <<prompt, system, own, behind>>

\* rebuild_runtime_prompt reads every fragment, or fails (a fragment is missing, or not
\* text): then the caller is told, and the fragment stays as it was written.
Compose(s) ==
  /\ Updating(s, "compose")
  /\ \/ /\ Advance(s, [step |-> "publish", of |-> update[s].of,
                        number |-> update[s].number, text |-> Composed])
        /\ UNCHANGED behind
     \/ Advance(s, NoUpdate) /\ behind' = TRUE
  /\ UNCHANGED <<fragment, prompt, system, own, updates>>

\* Mutant: the session goes on with the prompt it has.
HotSystem_Keeps(s) == system[s]
\* The prompt refresh hook: ChatService.set_system_prompt of this session.
HotSystem(s) == update[s].text

\* The composed file is written and the session's own conversation gets the prompt.
Publish(s) ==
  /\ Updating(s, "publish")
  /\ prompt' = update[s].text
  /\ system' = [system EXCEPT ![s] = HotSystem(s)]
  /\ own' = [own EXCEPT ![s] = update[s]]
  /\ behind' = (update[s].text # Composed)
  /\ Advance(s, NoUpdate)
  /\ UNCHANGED <<fragment, updates>>

\* After a restart the scaffold composes the fragments again, whatever was left undone;
\* the sessions' agents are gone.
RestartPrompts ==
  /\ prompt' = Composed
  /\ system' = [s \in Sessions |-> None]
  /\ update' = [s \in Sessions |-> NoUpdate]
  /\ own' = [s \in Sessions |-> None]
  /\ behind' = FALSE
  /\ UNCHANGED <<fragment, updates>>

PromptsBegin(s) == OpenSession(s) \/ WriteFragment(s)
PromptsGoesOn(s) == Compose(s) \/ Publish(s)
-----------------------------------------------------------------------------
(* Properties                                                              *)

Composing == \E s \in Sessions : ~Updating(s, "none")

\* When no update is under way, the composed file is what the fragments say, unless the
\* last update failed to compose them or published what it had read before another
\* session's fragment was written.
PromptIsComposed == ~Composing /\ ~behind => prompt = Composed

\* An update reaches the session that made it at once, and is never taken back there by
\* what another session publishes later (set_prompt_runtime_hooks).
SessionsSeeTheirUpdates ==
  \A s \in Sessions : own[s] # None => system[s][own[s].of] >= own[s].number

PromptsAreCurrent == PromptIsComposed /\ SessionsSeeTheirUpdates
=============================================================================
