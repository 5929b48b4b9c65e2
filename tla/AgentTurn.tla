------------------------------ MODULE AgentTurn ------------------------------
(***************************************************************************)
(* One AliceAgent answering chat requests one after the other:             *)
(* agent.process, ChatWorkflow.execute and StreamService.stream_runtime    *)
(* (three generators, driven by one consumer), the orchestrator that runs  *)
(* tool calls, the conversation kept by ChatService, and the interrupt     *)
(* latches of the command executor.                                        *)
(*                                                                         *)
(* Everything runs in the consumer's thread: a step is what the generators *)
(* do from one response they yield to the next.  Between two responses the *)
(* consumer may also interrupt the agent or close the generator.           *)
(***************************************************************************)
EXTENDS Integers, Sequences

CONSTANTS
  Prompt,        \* is there a system prompt?
  MaxHistory,    \* ChatService.max_history
  MaxIterations, \* ChatWorkflow.max_iterations
  Latches,       \* interrupt latches of the executor: local process 2, docker 1
  MaxTurns,      \* bound: requests
  MaxChunks,     \* bound: chunks of one model stream
  MaxYields,     \* bound: responses made from one chunk
  MaxCalls       \* bound: tool calls of one answer

\* max_history = 0 is excluded: messages[-0:] is then the whole list, and each
\* trim would repeat the system message.
ASSUME TurnAssumption ==
  /\ Prompt \in BOOLEAN
  /\ MaxHistory \in Nat \ {0}
  /\ MaxIterations \in Nat \ {0}
  /\ Latches \in Nat
  /\ MaxTurns \in Nat /\ MaxChunks \in Nat /\ MaxYields \in Nat /\ MaxCalls \in Nat

VARIABLES
  history,     \* ChatService._messages
  stage,       \* where the generator is suspended; "idle" or "closed" if there is none
  iteration,
  chunks,      \* chunks taken from the current model stream
  calls,       \* tool calls seen in it
  owed,        \* responses the code suspended has still to yield before it moves on
  interrupted, \* WorkflowContext.interrupted
  latches,     \* latches set: commands the executor is going to refuse
  refused,     \* history: commands of this turn the executor refused
  turns        \* bound: requests so far

talk == <<chunks, calls, owed>>
vars == <<history, stage, iteration, chunks, calls, owed, interrupted, latches,
          refused, turns>>

System == [role |-> "system", calls |-> 0]
User == [role |-> "user", calls |-> 0]
Tool == [role |-> "tool", calls |-> 0]
Assistant(n) == [role |-> "assistant", calls |-> n]
Message == [role : {"system", "user", "assistant", "tool"}, calls : Nat]

NoTurn == stage \in {"idle", "closed"}
-----------------------------------------------------------------------------
(* ChatService                                                             *)

LastOf(messages, n) == SubSeq(messages, Len(messages) - n + 1, Len(messages))

\* Mutant: the system prompt is trimmed with the rest.
Trim_DropsPrompt(messages) ==
  IF Len(messages) <= MaxHistory THEN messages ELSE LastOf(messages, MaxHistory)
\* _trim_history: the oldest messages go, whatever they are, the system prompt stays.
Trim(messages) ==
  IF Len(messages) <= MaxHistory
    THEN messages
    ELSE (IF messages[1] = System THEN <<System>> ELSE <<>>)
           \o LastOf(messages, MaxHistory)

\* add_message appends and trims, message by message.
AddMessage(messages, message) == Trim(Append(messages, message))
AddMessages(messages, more) ==
  LET added[n \in 0..Len(more)] ==
        IF n = 0 THEN messages ELSE AddMessage(added[n - 1], more[n])
  IN  added[Len(more)]

Remember(messages) == history' = AddMessages(history, messages)

\* What the orchestrator makes of n tool calls: the assistant's message and a
\* result for each, failed and refused calls included.
ToolGroup(n) == <<Assistant(n)>> \o [i \in 1..n |-> Tool]
-----------------------------------------------------------------------------
Init ==
  /\ history = IF Prompt THEN <<System>> ELSE <<>>
  /\ stage = "idle"
  /\ iteration = 0
  /\ chunks = 0 /\ calls = 0 /\ owed = 0
  /\ interrupted = FALSE
  /\ latches = 0
  /\ refused = 0
  /\ turns = 0

\* Mutant: the iteration counter is reset inside the loop.
StartIteration_Resets ==
  /\ stage' = "status"
  /\ iteration' = 1
  /\ chunks' = 0 /\ calls' = 0 /\ owed' = 0

\* The top of the iteration loop, up to its first response.
StartIteration ==
  /\ stage' = "status"
  /\ iteration' = iteration + 1
  /\ chunks' = 0 /\ calls' = 0 /\ owed' = 0

\* An acknowledgement or an error is yielded and the workflow returns when resumed.
LastResponse(kind) ==
  /\ stage' = kind
  /\ owed' = 0
  /\ UNCHANGED <<history, iteration, chunks, calls, interrupted, latches, refused, turns>>

\* The consumer asks for the first response: the per-request state is made anew
\* (the executor's latches are not), the user's message is remembered, and the
\* first iteration begins.
Begin ==
  /\ NoTurn /\ turns < MaxTurns
  /\ turns' = turns + 1
  /\ interrupted' = FALSE
  /\ refused' = 0
  /\ Remember(<<User>>)
  /\ stage' = "status"
  /\ iteration' = 1
  /\ chunks' = 0 /\ calls' = 0 /\ owed' = 0
  /\ UNCHANGED latches

\* The runtime context cannot be built: process answers PROCESSING_ERROR before
\* the workflow, and the conversation, see the request.
BeginFails ==
  /\ NoTurn /\ turns < MaxTurns
  /\ turns' = turns + 1
  /\ interrupted' = FALSE
  /\ refused' = 0
  /\ stage' = "error"
  /\ iteration' = 0
  /\ chunks' = 0 /\ calls' = 0 /\ owed' = 0
  /\ UNCHANGED <<history, latches>>
-----------------------------------------------------------------------------
(* The model's stream                                                      *)

NeedsChunk == stage \in {"status", "streaming"} /\ owed = 0

\* A chunk arrives and makes n responses, the first of which is yielded; k of
\* them start a tool call.
Chunk ==
  /\ NeedsChunk /\ chunks < MaxChunks
  /\ ~interrupted
  /\ \E n \in 1..MaxYields, k \in 0..MaxCalls :
       /\ k <= n /\ calls + k <= MaxCalls
       /\ calls' = calls + k
       /\ owed' = n - 1
  /\ chunks' = chunks + 1
  /\ stage' = "streaming"
  /\ UNCHANGED <<history, iteration, interrupted, latches, refused, turns>>

\* should_stop is asked when a chunk arrives: it is dropped.
ChunkAfterInterrupt ==
  /\ NeedsChunk /\ chunks < MaxChunks
  /\ interrupted
  /\ LastResponse("interrupted")

\* The provider raises, or the request for it could not be built.
StreamFails == NeedsChunk /\ LastResponse("error")

\* The stream ends: tool_call_completed for each call, or message_completed at
\* once.  Nobody asks should_stop again.
StreamEnds ==
  /\ NeedsChunk
  /\ IF calls > 0
       THEN stage' = "closing" /\ owed' = calls - 1
       ELSE stage' = "answer" /\ owed' = 0
  /\ UNCHANGED <<history, iteration, chunks, calls, interrupted, latches, refused, turns>>

\* The rest of a chunk's responses, of the completed calls, or of the results.
YieldOwed ==
  /\ owed > 0
  /\ owed' = owed - 1
  /\ UNCHANGED <<history, stage, iteration, chunks, calls, interrupted, latches,
                 refused, turns>>

\* message_completed after the last completed call
AnswerCompleted ==
  /\ stage = "closing" /\ owed = 0
  /\ stage' = "answer"
  /\ UNCHANGED <<history, iteration, talk, interrupted, latches, refused, turns>>
-----------------------------------------------------------------------------
(* After the answer                                                        *)

\* An answer without calls is remembered, and the generators return.
FinishTurn ==
  /\ stage = "answer" /\ calls = 0
  /\ Remember(<<Assistant(0)>>)
  /\ stage' = "idle"
  /\ UNCHANGED <<iteration, talk, interrupted, latches, refused, turns>>

\* BaseExecutor.execute: how many of n commands find a latch set.  Each clears the
\* one it finds and is refused.
Refusals(n) == IF n < latches THEN n ELSE latches

\* All calls run before the first result is yielded.  Unknown tools, bad
\* arguments, blocked commands and builtins never reach the executor.
ExecuteTools ==
  /\ stage = "answer" /\ calls > 0
  /\ \E commands \in 0..calls :
       /\ latches' = latches - Refusals(commands)
       /\ refused' = refused + Refusals(commands)
  /\ Remember(ToolGroup(calls))
  /\ stage' = "result"
  /\ owed' = calls - 1
  /\ UNCHANGED <<iteration, chunks, calls, interrupted, turns>>

\* Mutant: the answer is remembered before its calls are run.
ToolsFail_RemembersAnswer ==
  /\ stage = "answer" /\ calls > 0
  /\ Remember(<<Assistant(calls)>>)
  /\ stage' = "error"
  /\ UNCHANGED <<iteration, talk, interrupted, latches, refused, turns>>

\* The orchestrator raises on a malformed call before it runs any, or there is
\* no orchestrator: the answer is not remembered.
ToolsFail == stage = "answer" /\ calls > 0 /\ LastResponse("error")

\* Mutants: the interrupt is not looked at; the model is asked before the last result.
AfterResults_IgnoresInterrupt ==
  /\ stage = "result" /\ owed = 0
  /\ IF iteration < MaxIterations
       THEN /\ StartIteration
            /\ UNCHANGED <<history, interrupted, latches, refused, turns>>
       ELSE LastResponse("error")
AfterResults_TooEarly ==
  /\ stage = "result"
  /\ IF interrupted THEN LastResponse("interrupted")
     ELSE IF iteration < MaxIterations
       THEN /\ StartIteration
            /\ UNCHANGED <<history, interrupted, latches, refused, turns>>
       ELSE LastResponse("error")

\* After the last result: stop if interrupted, ask the model again, or give up.
AfterResults ==
  /\ stage = "result" /\ owed = 0
  /\ IF interrupted THEN LastResponse("interrupted")
     ELSE IF iteration < MaxIterations
       THEN /\ StartIteration
            /\ UNCHANGED <<history, interrupted, latches, refused, turns>>
       ELSE LastResponse("error")

\* The generators are resumed after their last response.
TurnEnds ==
  /\ stage \in {"interrupted", "error"}
  /\ stage' = "idle"
  /\ UNCHANGED <<history, iteration, talk, interrupted, latches, refused, turns>>
-----------------------------------------------------------------------------
(* The consumer                                                            *)

\* AliceAgent.interrupt: the turn's flag, and every latch of the executor.
Interrupt ==
  /\ interrupted' = (interrupted \/ ~NoTurn)
  /\ latches' = Latches
  /\ UNCHANGED <<history, stage, iteration, talk, refused, turns>>

\* The consumer stops iterating (cli/main.py after an interrupt): the generators
\* are closed where they are suspended.
Abandon ==
  /\ ~NoTurn
  /\ stage' = "closed"
  /\ UNCHANGED <<history, iteration, talk, interrupted, latches, refused, turns>>

Resume ==
  \/ Chunk \/ ChunkAfterInterrupt \/ StreamFails \/ StreamEnds \/ YieldOwed
  \/ AnswerCompleted \/ FinishTurn \/ ExecuteTools \/ ToolsFail \/ AfterResults
  \/ TurnEnds

Next == Begin \/ BeginFails \/ Resume \/ Interrupt \/ Abandon

Spec == Init /\ [][Next]_vars

\* The consumer keeps iterating over a turn it has begun; model streams end
\* (MaxChunks) or fail.
FairSpec == Spec /\ WF_vars(Resume)
-----------------------------------------------------------------------------
(* Properties                                                              *)

Stages == {"idle", "closed", "status", "streaming", "closing", "answer", "result",
           "interrupted", "error"}

\* The variables have their types; nothing is owed except where the code suspends
\* with more to yield, and then less than a chunk or an answer can make.
TypeOK ==
  /\ history \in Seq(Message)
  /\ stage \in Stages
  /\ iteration \in 0..MaxIterations
  /\ chunks \in 0..MaxChunks
  /\ calls \in 0..MaxCalls
  /\ owed \in Nat
  /\ interrupted \in BOOLEAN
  /\ latches \in 0..Latches
  /\ refused \in Nat
  /\ turns \in 0..MaxTurns
  /\ stage \in {"closing", "result"} => owed < calls
  /\ stage \in {"status", "answer", "interrupted", "error", "idle"} => owed = 0

\* _trim_history: however long the conversation, the list sent to the model is
\* bounded and the system prompt is its first message, and only its first.
HistoryIsBounded ==
  /\ Len(history) <= MaxHistory + 1
  /\ Prompt => Len(history) > 0 /\ history[1] = System
  /\ \A i \in 2..Len(history) : history[i] # System

\* Each answer in a list of messages is followed by exactly its calls' results.
AnswersAreWhole(messages) ==
  \A i \in 1..Len(messages) : messages[i].role = "assistant" =>
    LET next == i + messages[i].calls + 1
    IN  /\ next <= Len(messages) + 1
        /\ \A k \in (i + 1)..(next - 1) : messages[k] = Tool
        /\ next <= Len(messages) => messages[next] # Tool

\* chat_workflow.py appends an answer with calls together with all its results:
\* wherever turns fail, are interrupted or abandoned, and wherever trimming cuts,
\* a remembered call has its result right behind it, and nothing has two.
CallsAreAnswered == AnswersAreWhole(history)

\* A tool result is shown to the consumer only once it is remembered, so that
\* one who stops iterating at any result loses no command that ran.
ShownResultsAreRemembered ==
  stage = "result" =>
    LET n == IF calls + 1 < MaxHistory THEN calls + 1 ELSE MaxHistory
    IN  /\ Len(history) >= n
        /\ LastOf(history, n) = LastOf(ToolGroup(calls), n)

\* ChatWorkflow and should_stop: once interrupted, a turn takes no further chunk
\* from the model and asks it nothing more.
InterruptIsHonoured ==
  [][interrupted /\ turns' = turns => iteration' = iteration /\ chunks' = chunks]_vars

\* A consumer that keeps iterating reaches the end of the turn: tool calls cannot
\* keep the loop going beyond max_iterations.
TurnsEnd == ~NoTurn ~> NoTurn

Said ==
  CASE stage = "idle" -> "nothing"
    [] stage \in {"streaming", "closing"} -> "delta"
    [] OTHER -> stage

Stream == INSTANCE ResponseStream WITH
  said <- Said,
  announced <- IF stage \in {"answer", "result"} THEN calls ELSE 0,
  answered <- IF stage = "result" THEN calls - owed ELSE 0

\* The responses come in the order the consumers of agent.chat rely on.
ImplementsResponseStream == Stream!Spec
=============================================================================
