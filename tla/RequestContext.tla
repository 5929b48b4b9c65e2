--------------------------- MODULE RequestContext ---------------------------
(***************************************************************************)
(* What the model is sent: ChatService and RuntimeContextBuilder.          *)
(*                                                                         *)
(* A turn takes a snapshot of the system prompt and of what is known       *)
(* (memories and skills) when it begins; each of its requests consists of  *)
(* that snapshot and of the history as it is then.  Meanwhile the tools of *)
(* the turn change the prompt, the memories and the skills.  The texts are *)
(* version numbers; 0 is the empty text.  The local time, and the question *)
(* where a context repeats it, are left out.                               *)
(***************************************************************************)
EXTENDS Integers, Sequences, SequencesExt, Loops

CONSTANTS
  MaxTurns,      \* bound: turns of the conversation
  MaxToolRounds, \* bound: rounds of tools of one turn
  MaxVersions,   \* bound: versions of each text
  MaxHistory     \* ChatService.max_history

ASSUME RequestAssumption ==
  /\ MaxTurns \in Nat /\ MaxToolRounds \in Nat /\ MaxVersions \in Nat
  /\ MaxHistory \in Nat \ {0}

VARIABLES
  base,      \* ChatService._base_system_prompt
  known,     \* the texts of the memory manager and of the skill registry
  installed, \* ChatService._runtime_context, as far as the model sees it
  messages,  \* ChatService._messages
  turn,      \* number, kind and snapshot of the turn, rounds of tools so far
  request,   \* the messages sent last, or <<>> between turns
  sent       \* history: the system messages of this turn's requests

requestVars == <<base, known, installed, messages, turn, request, sent>>

Sources == {"memory", "skills"}
Contexts == [Sources -> 0..MaxVersions]
Nothing == [s \in Sources |-> 0]

User(n)   == [role |-> "user", text |-> n]
Assistant == [role |-> "assistant", text |-> 0]
ToolResult == [role |-> "tool", text |-> 0]

\* _prune_runtime_context and _render_model_visible_context: an empty text has no block.
Blocks(context) == {<<s, context[s]>> : s \in {x \in Sources : context[x] # 0}}

\* _compose_prompt_with_context: the system messages there are for a prompt and a context,
\* one or none.
Composed(prompt, context) ==
  IF prompt = 0 /\ Blocks(context) = {} THEN <<>>
  ELSE <<[role |-> "system", prompt |-> prompt, blocks |-> Blocks(context)]>>

IsSystem(message) == message.role = "system"
HasSystem(list) == list # <<>> /\ IsSystem(Head(list))
NonSystem(list) == Keeping(list, {i \in 1..Len(list) : ~IsSystem(list[i])})
Systems(list)   == Keeping(list, {i \in 1..Len(list) : IsSystem(list[i])})

\* _sync_system_message
Synced(list, prompt, context) ==
  Composed(prompt, context) \o (IF HasSystem(list) THEN Tail(list) ELSE list)

\* add_message and _trim_history
Added(list, message) ==
  LET longer == Append(list, message)
      last   == SubSeq(longer, Len(longer) - MaxHistory + 1, Len(longer))
  IN  IF Len(longer) <= MaxHistory THEN longer
      ELSE (IF HasSystem(longer) THEN <<Head(longer)>> ELSE <<>>) \o last

Idle == [number |-> 0, kind |-> "none", prompt |-> 0, context |-> Nothing, rounds |-> 0]

RequestInit ==
  /\ base \in 0..1 /\ known = Nothing /\ installed = Nothing
  /\ messages = Synced(<<>>, base, Nothing)
  /\ turn = Idle /\ request = <<>> /\ sent = {}

\* AliceAgent.process: build and build_request_envelope, then the workflow remembers the
\* question.  ChatService.chat and stream_chat have no snapshot; a workflow that is run
\* without an agent has a context from the request's metadata, or an empty one ("bare"), and
\* no envelope.
TurnKinds == {"agent", "workflow", "bare", "chat"}
Ask(kind) ==
  /\ turn.kind = "none" /\ turn.number < MaxTurns
  /\ turn' = [number |-> turn.number + 1, kind |-> kind, prompt |-> base,
              context |-> known, rounds |-> 0]
  /\ messages' = Added(messages, User(turn.number + 1))
  /\ UNCHANGED <<base, known, installed, request, sent>>

\* Mutant: the envelope is used as it was built, question and all.
FromEnvelope_AsksTwice(list) ==
  Composed(turn.prompt, turn.context) \o Append(NonSystem(list), User(turn.number))

\* build_iteration_request_envelope replaces the messages by those of the history;
\* _build_request_messages_from_envelope.
FromEnvelope(list) == Composed(turn.prompt, turn.context) \o NonSystem(list)

\* build_request_messages with a context only: this moment's prompt.  Without either, the
\* history is sent as it is.
FromContext(list) == Composed(base, turn.context) \o NonSystem(list)

BuildRequestMessages ==
  CASE turn.kind = "agent"    -> FromEnvelope(messages)
    [] turn.kind = "workflow" -> FromContext(messages)
    [] OTHER                  -> messages

SendRequest ==
  /\ turn.kind # "none" /\ request = <<>>
  /\ request' = BuildRequestMessages
  /\ sent' = sent \union {Systems(BuildRequestMessages)}
  /\ UNCHANGED <<base, known, installed, messages, turn>>

\* The answer has calls; they are remembered with their results, and the next iteration
\* sends a request of its own.
ToolRound ==
  /\ request # <<>> /\ turn.rounds < MaxToolRounds
  /\ turn.kind # "chat"
  /\ messages' = Added(Added(messages, Assistant), ToolResult)
  /\ turn' = [turn EXCEPT !.rounds = @ + 1]
  /\ request' = <<>>
  /\ UNCHANGED <<base, known, installed, sent>>

\* With an answer, or without one: a failure or an interrupt.
FinishTurn ==
  /\ request # <<>>
  /\ messages' \in {Added(messages, Assistant), messages}
  /\ turn' = [Idle EXCEPT !.number = turn.number]
  /\ request' = <<>> /\ sent' = {}
  /\ UNCHANGED <<base, known, installed>>

\* A command of the turn, or of another session, changes a text.
Learn(source) ==
  /\ known[source] < MaxVersions
  /\ known' = [known EXCEPT ![source] = @ + 1]
  /\ UNCHANGED <<base, installed, messages, turn, request, sent>>

\* set_system_prompt
SetSystemPrompt ==
  /\ base < MaxVersions
  /\ base' = base + 1
  /\ messages' = Synced(messages, base + 1, installed)
  /\ UNCHANGED <<known, installed, turn, request, sent>>

\* OrchestrationService.refresh_context and set_runtime_context
RefreshContext ==
  /\ installed' = known
  /\ messages' = Synced(messages, base, known)
  /\ UNCHANGED <<base, known, turn, request, sent>>

\* update_runtime_context: what is given replaces what was installed of it.
UpdateRuntimeContext(source) ==
  LET context == [installed EXCEPT ![source] = known[source]] IN
  /\ installed' = context
  /\ messages' = Synced(messages, base, context)
  /\ UNCHANGED <<base, known, turn, request, sent>>

\* Nothing clears the history of a turn that is under way.
ClearHistory(keepSystem) ==
  /\ turn.kind = "none"
  /\ messages' = IF keepSystem THEN Composed(base, installed) ELSE <<>>
  /\ UNCHANGED <<base, known, installed, turn, request, sent>>

RequestNext ==
  \/ \E kind \in TurnKinds : Ask(kind)
  \/ SendRequest \/ ToolRound \/ FinishTurn
  \/ \E source \in Sources : Learn(source)
  \/ SetSystemPrompt \/ RefreshContext
  \/ \E source \in Sources : UpdateRuntimeContext(source)
  \/ \E keepSystem \in BOOLEAN : ClearHistory(keepSystem)

RequestSpec == RequestInit /\ [][RequestNext]_requestVars
-----------------------------------------------------------------------------
(* Properties                                                              *)

\* All requests of an agent's turn carry one and the same system message, that of its
\* start: a prompt, a memory or a skill its own tools have changed comes with the next
\* turn, never halfway.  The history keeps a system message of its own, which is always
\* that of the current prompt and of the context last installed: no snapshot stays in it.
TurnsHaveOneSnapshot ==
  /\ turn.kind = "agent" => sent \subseteq {Composed(turn.prompt, turn.context)}
  /\ Systems(messages) \in {Composed(base, installed), <<>>}
  /\ Len(Systems(request)) <= 1

\* Every request is the whole history in order, behind the system message, and the
\* question is in it once, as long as the turn's messages fit into the history.
RequestsAreTheHistory ==
  request # <<>> =>
    /\ NonSystem(request) = NonSystem(messages)
    /\ IsPrefix(Systems(request), request)
    /\ 2 * turn.rounds < MaxHistory =>
         \E i \in 1..Len(request) :
           \A j \in 1..Len(request) : request[j] = User(turn.number) <=> j = i

\* Both: what is sent fits the turn it is sent for.
RequestsFitTheTurn == TurnsHaveOneSnapshot /\ RequestsAreTheHistory
=============================================================================
