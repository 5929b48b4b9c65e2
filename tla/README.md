# A verification project for Alice-Single

TLA+ models of the parts of Alice-Single that carry its state and its concurrency, TLC
configurations that check them on small instances, and TLAPS proofs of what holds for every
value of the constants. Every definition is written from the source; `PROJECT.json` maps each
one to the lines it stands for.

Python paths below are relative to `backend/alice/`, Rust paths to `frontend/src/`.

- [The system](#the-system): components, state, operations, interactions, hard behaviour
- [The modules](#the-modules): how state and actions correspond to the code
- [The runs](#the-runs): questions, bounds, fairness
- [What the code does otherwise than it says](#what-the-code-does-otherwise-than-it-says)
- [The proofs](#the-proofs)
- [What is not modelled](#what-is-not-modelled)
- [Plan](#plan)

## The system

Alice is an assistant that talks to a language model, lets the model call tools (a Python and
a shell command runner) and shows the conversation in a terminal. The program can be entered
in two ways, and both drive the same agent:

```
 Rust TUI --stdin--> reader thread --queue--> main thread ----+
   ^  ^                    (cli/main.py)          |           |
   |  +------------------stdout-------------------+           v
   +---------------------stderr (logging)              AliceAgent.chat
                                                  (process > workflow > stream,
 websocket --> connection handler                  orchestrator, chat service,
   ^              |   start_request                executors)
   |              v                                           ^
 writer task <- bounded queue <- run task -- executor thread -+
   ^                                   (gateway session)
   +-- replay buffer (on bind)
```

### Components

| component | state it keeps | operations | what makes it correct |
|---|---|---|---|
| replay buffer (`infrastructure/gateway/replay.py`) | deque of the newest frames, next index | append, replay_from, recovery_frames, latest_snapshot_frame | the deque is the newest suffix; a resume without a gap is complete; a gap is announced exactly when something unseen was evicted; recovery is never stale |
| session runtime (`gateway/session_runtime.py`) | active request, completed requests, lock, agent, bounded queue, dropped count, writer task, binding generation, one executor thread | start_request, interrupt, publish (control and runtime), drain, replace_writer_task | one request at a time; a final state is final; every accepted request ends and frees the session; whole episodes in the history |
| server (`gateway/server.py`) | per connection: bound session, own writer task | bind, start, interrupt, exit; writer loop | no event is sent twice; nothing that may not be dropped is lost on the bound connection; order |
| session registry (`gateway/session_registry.py`) | sessions by id, lost with the process | bind, get, evict_expired (never called) | a client misses frames silently only if its resume index is of an earlier runtime |
| agent and workflow (`application/agent/agent.py`, `application/workflow/chat_workflow.py`) | request context, `interrupted`, iteration, suspended generators | process, chat, interrupt, close | order of responses; an interrupt is honoured; the loop ends |
| model stream (`domain/llm/services/stream_service.py`, providers) | the answer so far: text, thinking, fragments of calls, usage | six loops over the provider's chunks, one of which makes events | all make the same answer of the same chunks; the events say all of it, each call started before and completed behind its arguments |
| parsers (`domain/llm/parsers/stream_parser.py`, `infrastructure/bridge/stream_manager.py`) | buffer, the block that is open | process, flush | no character is lost or moved; no tag is shown, however chunks cut it |
| conversation (`domain/llm/services/chat_service.py`) | list of messages, system prompt, runtime context | add_message with trimming, update and refresh of prompt and context, clear_history | bounded, prompt kept, calls and results together |
| runtime context (`application/runtime/`) | a turn's snapshot of prompt, memories and skills | build, with_messages | all requests of a turn are sent the same snapshot, and the whole history once |
| tool call orchestration (`workflow/function_calling_orchestrator.py`) | none | run all calls of an answer | one result per call, or none at all |
| command execution (`domain/execution/`) | interrupt latches, security rules | execute_tool_call, execute, interrupt, reset_interrupt (never called) | a command is started at most once, and the result tells whether it was; an interrupt keeps it from starting; a rule that blocks is obeyed |
| container (`infrastructure/docker/`, `application/services/lifecycle_service.py`) | one container, shared by all sessions | prepare image, run, start, stop, remove, exec | it comes up whoever races for it; every call ends |
| memory (`domain/memory/`, `domain/execution/builtin/memory_command.py`) | short and long term files, shared; working rounds | note, lesson, manage (distil and expire), add and trim rounds | nothing is lost, doubled or misfiled but by the mishaps that the code does not guard against |
| skills (`domain/skills/`) | registry and cache per session, files shared | refresh, cat, get | what is shown is not older than what was there when it was read |
| prompts (`core/prompts.py`, `update_prompt`) | fragments and composed file, shared; prompt per session | update_prompt | a session sees its own update at once and keeps it |
| TUI bridge (`cli/main.py`) | input queue, the current generator | reader thread, main loop, two drains | input reaches the agent; an interrupt stops the turn it was meant for; end of file ends it |
| legacy serializer (`infrastructure/bridge/legacy_compatibility_serializer.py`) | none | responses to TUI messages | exactly one `done` or `error` ends a turn |
| TUI (`app/state.rs`, `core/dispatcher.rs`, `main.rs`, `bridge/`) | status, input, the child's pipes | send, interrupt, receive, stderr lines, paste, quit | the status follows the backend; the prompt comes back |
| bridge server (`infrastructure/bridge/server.py`, deprecated) | running flags of server and transport, queue | start, run, stop, callbacks on the reader thread | every line gives the prompt back once, in order; the end of input ends it |
| event bus (`core/event_bus/`, a library) | subscriptions | subscribe, publish, remove | a once-subscription runs once per publisher, but for publishes that are cancelled |
| structured log (`core/logging/`) | three files and their backups | emit, rotate | the files hold the newest records, in order, whenever the process dies |
| core services, TUI rendering, schemas | see `PROJECT.json` | | not modelled, see below |

### Interactions

- **Handlers, run tasks and writers** share one event loop: an interleaving point is an `await`
  that can suspend. `start_request` holds the session's lock across one of them.
- **The executor thread** runs the agent's generator. It publishes through
  `run_coroutine_threadsafe(...).result()`, so it has at most one frame in flight; it writes
  `_completed_requests` without the lock.
- **Frames** reach a client by two ways, the replay at bind time and the queue; a frame may be in
  both. All bindings of a session share one queue.
- **The agent** is a stack of generators, driven by whoever iterates over `chat`. Between two
  responses the consumer may interrupt the agent, go on, or close the generator.
- **Sessions** of the gateway have an agent each, on threads of their own. They share the docker
  container, the memory files, the skill files and the prompt files; nothing locks any of these.
- **TUI and backend** are two processes with three pipes. The TUI's status is derived only from
  what comes back; the messages carry no turn or request number.

### What is hard here

Every item is a hazard of `PROJECT.json`, at its line: blocking on a full queue with the lock
held; a writer dying under a blocked publisher; a bind suspended while another one runs; a stale
writer that shares the queue; a connection lost at any step; an executor with one worker that
has to run both the chat and its interrupt; a failing agent factory between two assignments; the
window's boundary in the replay buffer; trimming a list whose elements belong together; a turn
that fails, is interrupted, or is closed while tools are being answered; a latch that outlives
its turn; two drains of one input queue that throw away what they do not look for; an interrupt
line that names no turn; a log line mistaken for the end of a turn; indices that start again after a
restart; a container that is created, started and removed by sessions which know nothing of each
other; files that are read, changed and rewritten while others append to them; a crash in a rewrite
or a rotation; fragments of calls and tags cut anywhere by the provider's chunks.

## The modules

| module | what it is | lines |
|---|---|---|
| `ReplayBuffer` | the ring of outbound frames and what a resume is answered | replay.py |
| `GatewaySession` | one session: handlers, lock, queue, run tasks, executor thread, writers | session_runtime.py, server.py, session_registry.py; uses `ReplayBuffer` |
| `RequestService` | abstract: what clients are promised about requests | implemented by `GatewaySession` |
| `AgentTurn` | one agent answering requests: generators, conversation, tools, latches | agent.py, chat_workflow.py, stream_service.py, chat_service.py, orchestrator, executors |
| `ResponseStream` | abstract: the order of the responses a consumer is given | implemented by `AgentTurn`, used by `TuiBridge` |
| `TuiBridge` | TUI, pipes, reader thread and main thread | cli/main.py, serializer, state.rs, dispatcher.rs, client.rs |
| `SessionRegistry` | which runtime a session id stands for, over evictions and restarts | session_registry.py, server.py; instantiates `ReplayBuffer` |
| `DockerContainer` | container manager, docker client, lifecycle service, docker command by docker command | infrastructure/docker, lifecycle_service.py |
| `CommandExecution` | a tool call from registry to answer, over `DockerContainer` | execution_service.py, executors |
| `CommandReview` | argument check and security rules | tool_registry.py, tool_calling.py, base.py, security_service.py |
| `Memory`, `Skills`, `Prompts` | files that sessions share, and what each session has of them | domain/memory, domain/skills, builtin commands, prompts.py |
| `HostSessions`, `HostCommands` | the sessions, and the commands served on the host that compose the three | execution_service.py |
| `WorkingRounds` | the working memory's file | working_store.py, round_entry.py |
| `StreamText` | the parsers, as operators on texts | stream_parser.py, stream_manager.py |
| `ModelStream` | six loops over one provider stream, over `StreamText` | stream_service.py, chat_service.py, openai_provider.py |
| `RequestContext` | prompt, context and history a request is made of | chat_service.py, application/runtime |
| `BridgeServer` | the deprecated server's two threads, over `ResponseStream` | infrastructure/bridge |
| `Loops` | `Keeping`, the list a loop makes of another, and `Concatenated`, what it joins | used by `Memory`, `RequestContext`, `EventBus`, `WorkingRounds`, `CommandReview`, `ModelStream` |
| `EventBus` | subscriptions and overlapping publishes | event_bus.py |
| `LogFiles` | log categories and rotation | core/logging |
| `MCReplayBuffer`, `MCGatewaySession`, `MCHostCommands`, `MCModelStream` | model instances for TLC | |
| `MCServices` | runs the six services that share nothing, each in a part of one run | |
| `GatewaySessionProofs`, `AgentTurnProofs`, `ModelStreamProofs`, `TuiBridgeProofs`, `CommandExecutionProofs`, `HostCommandsProofs`, `ServicesProofs` | theorems about the modules they are named for | |
| `LoopsProofs` | lemmas about loops that several of them need | |

Operators named `X_Something` next to an `X` are mutants: what `X` would be with a plausible bug.
Nothing uses them; they show which property would notice.

### ReplayBuffer

`log` is every frame ever stored and `frames` the deque, as indices into it. `Store` is one or
more `append`s: stamping, and eviction by `maxlen`. `ReplayFrom` and `ReplayGap` are the two parts
of `replay_from`'s answer, `RecoveryFrames` and `SnapshotIndices` are `recovery_frames` and
`latest_snapshot_frame`. A frame's content is its kind: nothing else decides anything.

### GatewaySession

An action is what a coroutine does between two suspending awaits, or a visible step of the
executor thread.

| code | model |
|---|---|
| `_active_request_id`, `_completed_requests`, `_lock` | `active`, `completed`, `lock` (only when held across an await) |
| `_outbound_queue`, blocked `put`s, `_dropped_delta_count` | `queue`, `wait`, `dropped` |
| `_writer_task`, `_binding_generation`, the tasks of `_writer_loop` | `writerTask`, `generation`, `writer` |
| local variables of a handler: `binding`, `writer_task`, where it is suspended | `binding`, `own`, `pc` |
| `_run_request` tasks; the `ThreadPoolExecutor(max_workers=1)` | `run`, `jobs` (the head is running) |
| `start_request` | `AcceptRequest`; `AcceptRequestBlocks`, `AcceptRequestResumes` when the publish suspends; `AgentFactoryFails` |
| `_publish_control`, `_publish_runtime_frame`, `_enqueue_blocking_if_writer_alive` | `PublishControl`, `PublishRuntime`, `EnqueueBlocking`, `PutDone`, `GiveUpPut` |
| `_run_request`, `_drain_agent_responses` | `SubmitDrain`, `Respond`, `DrainEnds`, `PublishFailure`, `FinishRequest` |
| `interrupt` | `Interrupt`, `AgentInterrupt`, `InterruptFactoryFails` |
| bind in `server.py` | `BindReleasesOwn`, `Bind`, `InstallWriter`, `BindSendFails` |
| `_writer_loop` | `WriterTakes`, `WriterSent` |
| end of a handler | `ConnectionLost`, `HandlerExit` |

`delivered`, `interruptRuns` and `binding[g].installedAt` are history that the code does not
keep. A frame is named by its index, a writer by the generation of its binding.

`serviceState` maps the session to `RequestService`: a request is running while it is the active
one, and afterwards in the state recorded for it.

### AgentTurn

The three nested generators and their consumer run in one thread, so a step is what they do from
one `yield` to the next, and `stage` says at which `yield` they are suspended. `owed` counts the
responses that follow from where they are without anything else happening (the rest of a chunk's
events, of the completed calls, of the results). `history` is `ChatService._messages` with each
message reduced to its role and, for an answer, the number of its calls. `Trim` is
`_trim_history`; `Remember` is a run of `add_message`, each of which trims. `latches` are the flags that
`interrupt` sets in the executors (two in the local one, one in the Docker one): a command that
finds one set clears it and is refused. The interpretation of a chunk, the arguments and ids of
calls, and the text of messages are abstracted.

Under the refinement to `ResponseStream`, a response's kind is read off `stage`; the kinds that
consumers do not tell apart (deltas, starts and completions of calls) are one.

### TuiBridge

`status` is the TUI's, `stdin`, `stdout` and `stderr` are the pipes, `inputs` is
`TUIBridge.input_queue`, `pc` says where the main thread is, and `said`, `announced`, `answered`
are the agent's generator, which is any that keeps `ResponseStream`'s order
(`Agent == INSTANCE ResponseStream`). `Drain(stopped)` is the `while` loop that looks for an
interrupt and drops the lines it passes; `StartTurn`, `SendResponse` and `StopTurn` are the two
places that run it. Each line carries the number of the message it is about, so that properties can
speak of late lines; no guard reads it.

A logged exception is one entry of `stderr`: its last line is the only one that
`is_actionable_stderr_error` lets through. A message pasted with a line break is two lines on
`stdin`. `Undisturbed` says that neither has happened so far: the properties that hold only then
say so.

### CommandExecution over DockerContainer

Every docker command is a step, so that those of two agents interleave. `at[a]` is the docker
command agent `a`'s container manager is at (`ensure_running`: engine, image, status, then run or
start), `lifecycle[a]` what its lifecycle service does, `own` the container of the configured name
and `other` one whose name only contains it, which `docker ps --filter name=` lists as well.
`faults` bounds what the outside does: the engine goes away, somebody stops, pauses or removes the
container, a command takes too long or writes something that is no text.

`call[a]` is the tool call agent `a` is at. `ran` counts the processes started for its command,
`armed` says that a latch was set when it began; neither is kept by the code. A call ends with one of
the results the code tells apart before it turns them into text. The docker executor reports an
exception as a failure, the local one's reaches the service (`ExceptionReported`), from before there is a
process (`NotStarted`: a command with a NUL byte, an argument list too long, a missing directory) as well as
from reading what it has written. So "raised" says nothing of whether the command has run. The service executes a
second time after a `TypeError` only (`execution_service.py:398`), and neither executor lets one out; the
mutant `ExceptionReported_RunsAgain` is what a wider `except` would do.

### HostCommands: Memory, Skills, Prompts

A session's thread serves one command at a time. An operation on a file is two steps, the reading
and the writing, and the other sessions run in between. `spoiled` names what has gone wrong so far
(a write from a stale read, a failed read of either file, which the code takes for an empty one, a torn
file, a failed distillation, a summary with a header in it): `MemoryIsKept` says which mishap can cost what, and that nothing else does. A memory
file is a sequence of lines; an entry carries its number and the day it was written. `Skills` has one
skill in two directories, texts numbered by their change, and modification times that two changes may
share. `Prompts` numbers updates; `fragment`, `prompt` and `system` have the number of the update they
contain. The three have no state in common: `part`, a bound, keeps each behaviour to one of them.

### ModelStream over StreamText

A text is a sequence of characters from a small alphabet. `TryDispatch` of the parser and
`ManagerDispatch` of the manager are recursive functions that do what the `while` loops do. In `ModelStream` all readers take
each chunk in the same step, which makes what they have comparable at any moment; when a reader stops
(interrupt, end, error) it keeps what it has. The order of chunks is not trusted: calls, texts and
thinking come in any order and in any pieces, with or without an end.

### RequestContext, SessionRegistry, BridgeServer, EventBus, WorkingRounds, LogFiles, CommandReview

- `RequestContext`: texts are version numbers, so that a request shows which version it was made of. A
  "bare" turn is a workflow's with an empty runtime context (`chat_service.py:309`).
- `SessionRegistry`: a bind is one step here, and a frame that is written has arrived; what may go
  wrong within a bind is `GatewaySession`'s. `clients` are the clients' side of the protocol: what they
  have received, and the index they would resume from.
- `BridgeServer`: the reader thread calls the handlers itself, so that a line is read when the one
  before it has been dealt with. It looks at `_running` and only then blocks in `readline`
  (`AwaitLine`), so that a line may still be served after a stop. `closed` and `early` are history.
- `EventBus`: a publisher is one publish under way, on a thread or within a handler. An `apublish` may be
  cancelled while a handler runs (`CancelPublish`); `cancelled` counts that, for the property.
- `WorkingRounds`: the file is the list of rounds as they are parsed again.
- `LogFiles`: a step is a record's append, the move of one file, or a kill of the process.
- `CommandReview`: a rule is its action, its priority and whether its pattern is found.

## The runs

All passing runs finish within two to three minutes with two workers.

| run | states | what it shows |
|---|---|---|
| `replay_buffer` | 5 thousand | every sequence of six frames of four kinds through a window of three, for every resume point |
| `gateway_lifecycle` | 1.03 million | two connections and two requests compete for one session while binds overlap, publishes block and the agent factory may fail: single flight, whole episodes, stable results, the refinement of `RequestService` |
| `gateway_delivery` | 740 thousand | what two connections receive through a queue of one frame, each of which may be lost and resumed, while a request runs and is interrupted: no duplicate, no silent loss, order |
| `gateway_liveness` | 98 thousand | under fairness every announced request ends and the lock is released, also when the connection is lost while the queue is full; the refinement of `RequestService`'s fair specification |
| `agent_conversation` | 38 thousand | four turns with up to three calls each, failed, interrupted or abandoned anywhere, over a history that is trimmed; every turn ends |
| `tui_dialogue` | 720 thousand | two messages, two interrupts at any moment, a logged exception, a paste with a line break, quitting: whose turn is stopped, which replies are shown, the status, the prompt |
| `execution` | 488 thousand | two agents, each with the shared container or with processes of its own; one fault, two calls, interrupts at any moment: a command is started at most once and the result tells, armed calls do not run, the container comes up, calls end |
| `host_commands` | 2.2 million | two sessions' commands on memory, skills and prompts, one mishap, files that others change |
| `model_stream` | 85 thousand | streams of up to four chunks of all kinds, cut through tags and keywords, for two fences and a keyword: all readers agree, the events rebuild the message, no tag is shown |
| `bridge_server` | 73 thousand | four lines of any kind, a turn with calls, a frontend that stops reading: one answer per line, in order; the server ends with its input |
| `services` | 1.24 million | in six parts: two sessions over a restart, the requests of two turns, overlapping and cancelled publishes, the working rounds, log rotation with kills, the review of calls |
| `gateway_rebind` | | finds the counterexample to the delivery of frames after overlapping binds, see below |

### Bounds, and why they are enough

- *ReplayBuffer*: the window is passed, and passed again in full: six events, limit three. The
  proofs drop the bound.
- *GatewaySession*: a queue of one frame is full as soon as one frame waits, so that every publish
  can block; a session has one active request, so that two requests show a conflict, a duplicate
  and the hand-over; two connections show a hand-over, a stale writer and a bind that overlaps. One
  response suffices for each kind of frame to meet a full queue. `Unreliable` and
  `OverlappingBinds` choose what a run exposes: `gateway_delivery` forbids overlapping binds because
  with them frames are lost, which `gateway_rebind` shows. Its clients resume afresh, from index 0
  or from index 2, never beyond what the session has published. `gateway_liveness` lets the factory
  succeed: if it raises, the request it was called for is active forever, which `ActiveHasOwner`
  names as its exception. The lock can be awaited only while its holder is blocked, which two
  requests are enough for.
- *AgentTurn*: four messages besides the prompt are fewer than one group of three calls makes
  together with the user's message, so that trimming cuts through a group as well as between two;
  four turns fill the history several times over.
- *TuiBridge*: the TUI sends its second message only after the first has ended, so that two
  messages show everything a late line can do. Two interrupts show one that is taken and one that
  is left over.

- *CommandExecution*: two agents race for every docker command; one fault is the outside's one move
  between two of them, and the two calls are one agent's, one after the other, or one of each. What a
  latch of one call does to the next needs no third.
- *HostCommands*: two sessions overlap in every way two operations can. `DaysToKeep = 1` and three days
  make entries expire and the removal run beside an append; one mishap at a time tells which of them
  costs what. Five memory commands suffice to write, expire, distil and write again; three each for
  skills and prompts.
- *ModelStream*: eight `Characters`, of which a tag, its end and a keyword are made; `MaxCost = 4` chunks, those with calls or thinking counted double, cut a two-character
  tag and its end in all places, and bring two fragments for a call; a buffer of five overflows. Two
  indices (`LastIndex = 1`) show calls that interleave.
- *BridgeServer*: three lines and the end, in any order.
- *Services*: a window of one frame is passed by the second; two runtimes are one before and one after a
  restart; a history of four is shorter than two rounds of two turns; three subscriptions are two equal
  ones and another; six rounds fill a memory of three twice; four rotations shift two backups out; two
  rules show every order of priorities.

`CHECK_DEADLOCK FALSE` is set everywhere but for the agent: users and clients may stop, and the
bounds stop them.

### Fairness

- Gateway: weak fairness of every task of the event loop (`Handler`, `RunTask`, `WriterTakes`,
  `PutDone`, `GiveUpPut`), because asyncio runs every ready task; of the executor thread, because a
  thread runs and a chat ends (`AgentTurn`'s `TurnsEnd`, given a provider that ends its stream or
  fails); and of `WriterSent`, because a client takes its bytes or the websocket keepalive closes
  the connection. Clients owe nothing: no fairness for binding, starting, interrupting.
- Agent: weak fairness of `Resume`, a consumer that keeps iterating over a stream that ends or
  fails. None for interrupting or closing.
- Execution: weak fairness of each agent's thread (`Work`): docker answers or the client gives up
  waiting, and a build ends. The outside owes nothing; `ContainerComesUp` is about what happens once it
  has used up its faults.
- Bridge server: weak fairness of the main thread and of the reader. Whoever writes or reads the
  other ends of the pipes owes nothing.
- TUI: weak fairness of the main thread, of the reader thread, and of the TUI's event loop. The
  user owes nothing.

### Mutants

Every property of a passing run has a mutant of a mapped definition that breaks it under the
run's own configuration: dropped guards (`AfterResults_IgnoresInterrupt`, `Hit_IgnoresTime`), missing
resets (`AcceptRequestResumes_KeepsLock`), off-by-ones (`TooOld_TooLax`, `Newest_OneMore`), swapped orders
(`PublishFailure_FreesFirst`, `Shift_NewestFirst`), repeated effects (`ExceptionReported_RunsAgain`),
forgotten ones (`StopTurn_Silent`).

## What the code does otherwise than it says

A run shows the second; the others are what the models do in the places named, and no run states
them.

Gateway and agent:

1. **An interrupt over the gateway does not interrupt.** It is a job for the executor whose only worker
   (`session_runtime.py:43`) is draining the chat it should interrupt (`session_runtime.py:150`); the
   docstring says "中断当前执行" (`agent.py:314`).
2. **Overlapping binds lose frames** (`gateway_rebind`). A bind suspends before it installs its
   writer, over whichever writer is there by then; a stale writer takes a frame from the shared
   queue and returns without sending it.
3. **An interrupt outlives its turn.** Nothing resets the executors' latches (`base.py:112`): the first
   commands of the next turn are refused, though `base.py:148` and README.md:53 speak of the current one.
4. The first bind after a lost connection can die of the previous writer's error (`server.py:81`, in
   `Bind`); a session whose agent factory raises refuses every later request (`AgentFactoryFails`).
5. After a restart a client that resumes from an old index misses the frames up to it and is told of no
   gap (`replay.py:34`); after `evict_expired`, which nothing calls, the forgotten runtime's request and
   writer go on, and a client with two connections can receive the frames of two runtimes
   (`SessionRegistry`).
6. Results whose answer was trimmed away stay in the history (`chat_service.py:456-470`); `max_history = 0`
   makes a trim repeat the system message (excluded by `TurnAssumption`).
7. `clear_history(keep_system=False)` leaves `ChatService.chat` without a system prompt; only tests call
   it, `refresh_context` and `update_runtime_context` (`RequestContext`).

TUI and bridge:

8. **The last line of a traceback ends the turn in the TUI** (`dispatcher.rs:82-93`, against
   `doc/arch/adr-003.md:29`).
9. **A pasted line break splits a message**: the drain at `main.py:172` drops all but the first line.
10. **Quitting during a turn leaves the backend behind** (`main.py:157`, against README.md:55): a drain drops
    the end of file.
11. The deprecated server loops forever if its input ends between `transport.start()` and
    `_running = True` (`server.py:214-219`); READY may come behind responses; an interrupt is read only
    after the turn it was meant for and makes a second "done" (`BridgeServer`).

Execution, memory, skills and prompts:

12. A result that comes back as text is a success for the model, refusals and warnings included
    (`execution_service.py:114`).
13. Expired days are removed also when the model could not condense them (`memory_manager.py:178`), though
    `stm_store.py:5` has them moved to the long term memory. With zero days to keep, which nothing rules out
    (`stm_store.py:207`), so is a note that midnight overtakes while it is written, distilled or not. A second
    header of the lessons costs what stands behind it (`memory_command.py:105`); a summary may bring one,
    and a lesson appends one when the file could not be read (`file_repository.py:43`, `ltm_store.py:65`). The repository calls itself thread safe
    (`file_repository.py:15`), but two writers overlap.
14. `cache_loader.py` serves the first directory that has the file, the registry prefers the last: what is
    read may be the overridden skill. New skills would be saved in the built-in directory
    (`skills/repository/file_repository.py`, not called), not in the user's.
15. Of a round's text only the first line survives a rewrite; a trim to zero rounds keeps all; rounds lose
    their time stamps, so that looking one up finds nothing (`working_store.py`; nothing calls it).
16. A rule that allows ends the review in `SecurityService`, which nothing calls, and is passed over in the
    executor (`base.py:134`).

Model stream, log, event bus:

17. Usage that comes in a chunk of its own behind the finish reason is never read; a first chunk without
    choices ends the stream (`StreamChunk.from_openai_chunk`). A keyword in the middle of a line is taken for
    the start of a block when the held-back buffer begins with it. With tiktoken installed, `count_tokens`
    adds a list to a number (`openai_provider.py:569`).
18. The schema has `system.*` events in the system log, but loggers named `bridge.*` file them under tasks
    (`stdio_transport.py:35`, `server.py:62`). Two processes with one log directory have no common lock.
19. Two publishers may both run a once-subscription (`event_bus.py:131`, against lines 32 and 76); one with a
    filter is removed without having run; so may be an equal one that was subscribed meanwhile. A
    cancelled `apublish` leaves those it has run subscribed (`event_bus.py:189`), as `except Exception` lets the
    cancellation through.

## The proofs

TLAPS checks the theorems for every value of the constants, under the named assumptions
of the modules, which TLC evaluates in every run:

| assumption | what it asks for |
|---|---|
| `ReplayAssumption`, `RegistryAssumption` | numbers; a replay window of at least one (the first module needs none: it clamps) |
| `SessionAssumption` | a queue limit of at least one, connections and requests with different names |
| `TurnAssumption` | a history limit and an iteration limit of at least one |
| `DockerAssumption`, `CallsAssumption`, `BridgeAssumption`, `ServerAssumption`, `CommandsAssumption` | the bounds are numbers |
| `RequestAssumption` | a history limit of at least one |
| `BusAssumption` | the bounds are numbers |
| `LogAssumption` | limits are integers, zero and less included, bounds numbers |
| `RoundsAssumption` | a memory of at least one round: Python's `rounds[-0:]` keeps all |
| `ReviewAssumption` | priorities are numbers |
| `TextAssumption` | tags and keywords are texts over `Characters`, keywords not empty, limits numbers |
| `StreamAssumption` | the bounds are numbers, usage is positive, and thinking is told apart from text |
| `MemoryAssumption` | the bounds and the days to keep are numbers, zero included |
| `SkillsAssumption`, `PromptsAssumption` | `None` is no number, and no prompt |

Every inductive invariant below was checked by TLC on the constants of the run it belongs to (where it
speaks of any marks or any events, with those that are meant), and the proofs follow one pattern: a lemma for each action, or for what
a group of actions may do, then the theorem.

### GatewaySessionProofs

`SingleFlight` is not inductive. A new task is created by `AcceptRequestResumes`, long after the
guard was evaluated; what makes it safe is that its handler held the lock all the time
(`LockHeldByAnnouncer`), that its request had no task (`RecordMatchesTask`: no task, no record),
and that a running task's request is the active one. The executor adds: its queue holds at most one
drain, whose task awaits it (`DrainJobsMatchTasks`), and an interrupt has a handler that awaits it
(`InterruptJobsMatchHandlers`). `RequestInv` is the conjunction, checked by TLC in
`gateway_lifecycle` first.

- `TypesAreCorrect`, then `RequestsAreConsistent` (`RequestInv`), then `RequestsAreSingleFlight`.
- `StepEffect` reduces a step to what clients see of it: nothing; an acceptable request becomes active;
  the running request is marked interrupted; the active request ends with a final state. From it,
  `FinalStatesAreStable` and `SessionImplementsService`, the step simulation of `RequestService`.

The publishing machinery (full queue, blocked puts, dead writers) is arbitrary in these proofs, so
they hold whatever backpressure and lost connections do.

The second part is about the events themselves.

- `EpisodesAreWhole`, `ActiveAlwaysHasOwner`. `EpisodeInv` says where the events of each request are:
  nowhere before it has begun, and then in an interval of the history that reaches its end, or
  ends with the closing event. A step is classified first (`Silent`, `Opens`, `Continues`, `Closes`),
  so that the invariant is proved for four kinds of steps and not action by action.
- `DeliveryIsOnce`, `DeliveryIsInOrder` from `DeliveryInv`, which follows an event from the
  publisher that waits with it through the queue to a websocket: only stored events are under
  way (`PlacesInv`), those sent, queued and waiting are in order in this succession (`OrderInv`), only
  one publisher may wait with events of a request (`WaitersInv`: without it a second publisher could
  overtake), and the index at which live delivery begins divides the replay from it (`ReplayInv`).
- `NothingIsLostSilently`: `WriterInv` (one lively writer at most, the one installed, and none while a
  handler replays) and `NoLossInv` (what is due to it is sent, queued or waiting for room). Both need
  that binds do not overlap, and so does the theorem: `~OverlappingBinds` is its hypothesis, and
  `gateway_rebind` shows that it cannot be dropped.

### AgentTurnProofs

- `TurnTypesAreCorrect`: types, and where something may be owed.
- `HistoriesAreBounded`, `AnswersStayWhole`, `ResultsAreRememberedFirst`: with the types, the three
  are inductive together (`HistoryInv`). The work is in the lemmas about trimming:
  `TrimIsSuffix` (what is left is the prompt and a suffix), `TrimKeepsAnswers` (a suffix of a list
  of whole answers has whole answers, wherever it was cut), `AppendKeepsAnswers`, `GroupKeepsAnswers`
  and `TrimKeepsLatest` (the newest messages survive).
- `OneTrimIsEnough`: trimming after each message that is added leaves what one trim at the end would
  (`TrimAgain`, and by the rounds of the loop `AddingIsTrimmed`). The others use it: an answer and its
  results are added one by one, and only the last trim needs looking at.
- `InterruptsAreHonoured`, an action property, needs only the step.
- `TurnsImplementStreams`: the simulation of `ResponseStream`, from the types. It discharges the
  assumption that `TuiBridge` makes of its agent.

### ModelStreamProofs

What the parsers and the loops compute are recursive functions over texts, lists and rounds. No induction
theorem can be cited; `LoopsProofs` has what replaces them.

- `TagsAreNeverShown`, for any tags, keywords, texts and chunks. That no tag is in what is shown so far is not
  inductive: the next chunk may complete one. `CleanIn` says why it cannot: outside a block, no text that
  begins in the content shown last and goes on in the held-back buffer can become a tag, whatever comes. It is
  kept by each way a round of `_try_dispatch` ends, since what is held back is at least the longest end of
  the buffer that begins a tag (`HeldPrefix`, `SafeLength`). An overflow of the buffer gives that up, and the
  property says so. `TextInv` is the invariant.
- `ReadersAlwaysAgree`. `NothingIsLost` is in `TextInv`: the shown messages and the buffer are together the
  text, for both parsers, round by round. `AnswersInv` keeps the readers that aggregate equal as long as they
  go on, `ShownInv` ties what the interface is sent (`emitted`) to what is yielded (`iterated`).
- `EventsAlwaysRebuild`. The property speaks of places in the events; the invariant follows the events from
  the start: `Follows` says that the pieces of the chunks' events, gathered, are the two texts and each call's
  arguments, that each call is announced at one place with its arguments behind it, and that a call not
  in the answer is in no event. `EventsAre` puts the end behind them: nothing, an acknowledgement, or the
  completed calls and the message. `RuntimeInv` is both.

### LoopsProofs

A loop is a function of its rounds. `CourseExists` and `LoopIsUnique`: such a function exists, has the
type its rounds keep, and is the only one with its equations; by least counterexample (`LeastNumber`: a
set of numbers has a least one), the one form of induction the provers take. From these, what `Keeping`
and `Concatenated` do to an append and to two lists joined (`KeepingFrom`, `KeepingPlaces`, `JoinedIs`,
`GatheredConcat`).

### TuiBridgeProofs

`DialogueHolds`: `BridgeInv` is inductive; `InputReaches`, `InterruptsHit`, `RepliesStayCurrent` and
`TuiFollows` follow. `Undisturbed` is the properties' own condition. Under it, one side has the floor
(`FloorInv`, by the status of the TUI): either one message is on its way and the backend has
nothing to say, or the backend talks about the message sent last, or its final word is the last line in
the pipe. `InterruptsKeepPlace` is what makes an interrupt that names no turn safe: one that is left over
from an earlier turn stands before the message of the next, and the main thread drops what it finds
outside a turn. The agent is any generator that keeps `ResponseStream`'s order, which
`TurnsImplementStreams` proves of `AgentTurn`.

### CommandExecutionProofs

Neither `ResultTellsTheRun` nor `ArmedCallsDoNotRun` is inductive: that a call which ends as
"interrupted" or refused has started nothing, and that one which ends with an output has started one
process, depends on what each phase before knows (`PhaseInv`). `CallInv` is the conjunction with the types.

- `CallsAreConsistent`: `CallInv` is inductive, for any number of agents, faults and calls. One lemma
  per action; what docker and the outside do is disposed of by `EnsureRunningInv`, `LifecycleInv` and
  `OutsideInv`, which say that they touch no call, no latch and no backend.
- `CallTypesAreCorrect`, `ResultsTellTheRun`, `ArmedCallsNeverRun` from it.

### HostCommandsProofs

The three kinds of files share no state, and each has its invariant over the sessions that work on it.

- `PromptsStayCurrent`: with the types, what needs saying is that a text is never from a later update than
  the last (`NumberedInv`), and that a session without an agent has no prompt of its own.
- `SkillsStayCurrent`. `CacheInv` is why the cache may be trusted: a file that still has the modification
  time a text was cached under is not newer than the text, unless two changes share a time
  (`sameTick`). `ScanInv` says what a scan has found so far, if nothing changed since it began.
- `MemoryHolds`, `MemoryStaysKept`, for any sessions, days and entries. `OperationInv` is what each operation under way may
  rely on of what it has read, whatever the others write meanwhile: the sections a removal is about to
  take are expired, and nothing stands in them that the distiller has not seen. A note that is written
  meanwhile is of today, and so of no expired section; this is what fails with `DaysToKeep = 0`
  ([13](#what-the-code-does-otherwise-than-it-says)), and why `EntriesAreKept` and
  `RemovedEntriesAreDistilled` ask for at least one day. `Sorted` (the days of the file ascend) is
  what finds each entry's header after an append and after a removal. A lesson is put into the text it has
  read; `LessonInv` has that this is the file's unless the reading failed, and `LtmIntact` names the
  mishaps without which the lessons have one header and all entries. `Keeping`, the file without the
  lines of some days, (in `Loops`) is a recursive function; what it keeps, and in which order, is in
  `LoopsProofs`. TLC checked `MemoryInv` with one day to keep (2.2 million states)
  and with none (3.6 million).

### ServicesProofs

Eight services that share no state have their proofs in one module.

The replay buffer, for every limit and history:

- `WindowIsAlwaysSuffix`: the deque is the newest `Limit` events, in order, without a hole.
  `WindowIsSuffix` is inductive as it stands, given the types: `RetainedFacts` says what a full
  deque keeps of an append, and `StoreKeepsWindow` puts the next index behind it.
- `ResumeIsComplete`: from it, `RetainedInterval` (the retained indices are an interval that ends
  at the newest), and so both claims about resuming, at either side of the boundary.
- `RecoveryIsAlwaysFresh`: of each kind of snapshot in the window, the newest is shown.

`StaleLossOnly`, for any window, any evictions and restarts. `SilentLossIsStale` speaks of clients
that are written. What it says must survive the time in which a client is not: `SeenInv` has that
nothing is missing up to the index the client would give. `OwnersInv` ties the indices to
runtimes: a session's client has bound the runtime the session has last, and its index is of that one
or of an earlier. What the answer to a resume covers is proved from `ReplayBuffer`'s operators, of
which each bind instantiates its own.

`RequestsAlwaysFit`, for any history limit. A history and a request are a system message, if there is one,
and a body without any (`Tidy`, `Body`); the filters that make one of the other are `Keeping`s, and
what they do to a tidy list is proved once. `PromptInv` has that the system message is what the
prompt and the installed context compose to, and `SentInv` that an agent's turn has sent nothing
else. For the question, which trimming moves, `QuestionInv` counts its place from the end: `2 * rounds`
messages behind it, as long as these fit into the history. TLC checked `RequestContextInv` on 512 204
states.

`OncePerPublisher`, for any publishers, handlers and cancellations. `list.remove` takes the first that is equal, which may
be another subscription than the one that was run, so that the one that was run might stay. It does not
(`RemovedFacts`), for a reason about order: lists are in the order of subscribing, what a publish has copied is
older than all that was subscribed since (`PublishInv`), and so an equal one further in front has been
run by the same publish and removed before. `IdsInv` has that a subscription is the same wherever it
is copied to, `RunsInv` that what a publisher has run is about to be removed or gone, but for one run with each of its
publishes that was cancelled. TLC checked `EventBusInv` on 506 971 states.

`LogKeepsTheNewest`, for any limits, and a process that may be killed between any two renames.
`PlacesInv`: marks can be set in what was written to a category so that its files, from the oldest to the
newest, are the pieces between them, and the newest ends at its end. A rename moves one piece, and the
marks beside it (`Placed`). The overwriting of the last backup moves the beginning, and what is lost then is
older than the property asks for: `Aged` counts the rotations a record has seen by the file it is in, and one
more (`Ahead`) when the rotation under way has not come to that file yet; that is what a kill makes
hard, as it leaves a hole which the next rotation starts from. `EmittingInv` has that a rename never hits
a file that holds something but the last, and, with `SizesInv`, that a file outgrows its limit only by a
single record.

`WorkingMemoryKeepsTheRecent`, for any texts and limits. The file and what it should hold are not equal, as
rounds can turn blank and the title is parsed as a round as well. What `RoundsInv` relates are the numbers of the marked
rounds (`Numbers`): those owed are an end of those in the file, and these an end of those added
(`IsEndOf`). Filtering, parsing again and cutting each turn an end into an end.

`CommandsAreReviewed`, for any rules and priorities. `sorted` is an insertion sort; `SortedTo` is what it
keeps, rule by rule: the list descends, its rules are the given ones, and the one of some actions that is found
first in it is the first of the highest priority among all (`Best`). So a stable sort and a search decide what
the property says without sorting. `ReviewInv` keeps it while the call is answered.

The bridge server: `ServerHolds`, for any number of lines and responses. Lines are numbered as they are read
(`NumberedInv`), so that "answered in order" is "each line before the current one has been answered at most
once, and none behind it" (`AnsweredInv`); what the reader is at decides whether the current one has been
(`PhaseInv`, `QueueInv`). `LinesStayInOrder` from it.

### What is only model-checked

- Liveness (`LockIsReleased`, `TurnsEnd`, `PromptComesBack`, `ContainerComesUp`, `CallsEnd`, `ServerEnds`,
  `ImplementsFairRequestService`): TLAPS has no way to reason about `ENABLED` here.

Every safety invariant and action property that a passing run checks is a theorem.

## What is not modelled

- Of modelled components: `close` and `cancel_writer` of the session, `reset_interrupt`, the stores' and
  repositories' operations by key, the worker queue of the event bus (nothing calls or fills them); pings,
  error replies and `stop` of the server, which change no session.
- Of the provider, the blocking chat call, retries inside the HTTP library and token estimates: an
  answer that comes at once has no order.
- The texts themselves: the wording of prompts, memories, results and log records, redaction, the local
  time in a request. An entry of the memory whose text is a header is left out; a summary with one is not.
- Configuration, dependency container, registries and start-up (`core/container`, `core/registry`,
  `core/config`, `cli/bootstrap.py`): filled once, in one thread, before anything else runs.
- Authentication and the codecs of frames and messages: conversions without state, of which the models
  have the outcome.
- Rendering, key maps, scrolling and selection of the TUI; protocol schemas and bundled skills.

## Plan

Done: the gateway (`ReplayBuffer`, `GatewaySession`, `RequestService`, `SessionRegistry`), the agent
(`AgentTurn`, `ResponseStream`, `RequestContext`, `ModelStream` over `StreamText`), both bridges (`TuiBridge`,
`BridgeServer` over `ResponseStream`), execution (`CommandExecution` over `DockerContainer`,
`CommandReview`), the shared files (`HostCommands`), and `EventBus`, `WorkingRounds`, `LogFiles`; the proofs
above.

Left: the asynchronous queue of the event bus and the stores' operations by key, once something calls them;
binds as several steps in `SessionRegistry`, where now `GatewaySession` has them for one session; liveness,
when the prover has a way to reason about `ENABLED`.
