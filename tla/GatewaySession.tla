---------------------------- MODULE GatewaySession ----------------------------
(***************************************************************************)
(* One gateway session (backend/alice/infrastructure/gateway): the asyncio *)
(* side of session_runtime.py, the connection handlers and writer tasks of *)
(* server.py, and the session's single executor thread.                    *)
(*                                                                         *)
(* An action is what a coroutine does between two awaits that can suspend  *)
(* it, or one visible step of the executor thread.  A frame is named by    *)
(* its event_index (module ReplayBuffer); a binding, and the writer task   *)
(* the binding creates, by its generation.                                 *)
(***************************************************************************)
EXTENDS Integers, Sequences, FiniteSets

CONSTANTS
  Conns,          \* websocket connections, each used once
  Requests,       \* request ids
  Worker,         \* the executor thread, as a publisher of frames
  None,
  ReplayLimit,
  QueueLimit,     \* outbound_queue_limit
  FactoryMayFail, \* may agent_factory raise?
  OverlappingBinds, \* may a client bind while another bind is still replaying?
  Unreliable,     \* bound: the connections that may be lost
  Resumes,        \* bound: the resume points clients ask for
  ResponseKinds,  \* bound: the kinds of frame the agent's responses project to
  MaxBinds,       \* bound: bindings of the session
  MaxResponses,   \* bound: responses of one chat
  MaxInterrupts   \* bound: interrupts accepted by the session

Publishers == Conns \cup Requests \cup {Worker}

ASSUME SessionAssumption ==
  /\ ReplayLimit \in Int
  /\ QueueLimit \in Nat \ {0}
  /\ Resumes \subseteq Int /\ Unreliable \subseteq Conns
  /\ ResponseKinds \subseteq {"delta", "event", "error"}
  /\ MaxBinds \in Nat /\ MaxResponses \in Nat /\ MaxInterrupts \in Nat
  /\ FactoryMayFail \in BOOLEAN /\ OverlappingBinds \in BOOLEAN
  /\ Conns \cap Requests = {} /\ Worker \notin Conns \cup Requests
  /\ None \notin Conns \cup Requests

VARIABLES
  log, frames,    \* _replay (module ReplayBuffer)
  queue,          \* _outbound_queue
  wait,           \* puts blocked on a full queue, by publisher
  dropped,        \* _dropped_delta_count
  generation,     \* _binding_generation
  binding,        \* what each bind returned to its handler
  writerTask,     \* _writer_task: a generation, 0 for None
  writer,         \* the writer tasks, by generation
  active,         \* _active_request_id
  completed,      \* _completed_requests
  lock,           \* _lock: the handler that holds it across an await
  agent,          \* has _agent been created?
  run,            \* the _run_request tasks
  jobs,           \* the executor's work queue; its head is running
  pc, own, up,    \* connection handlers, their writer_task, open websockets
  delivered,      \* history: live frames written to each binding's websocket
  interruptRuns   \* history: executed interrupts and their request's state then

outVars   == <<log, frames, queue, wait, dropped>>
bindVars  == <<generation, binding, delivered>>
reqVars   == <<active, completed, lock, agent, run>>
workVars  == <<jobs, interruptRuns>>
connVars  == <<pc, own, up>>
vars == <<outVars, bindVars, writerTask, writer, reqVars, workVars, connVars>>

Replay == INSTANCE ReplayBuffer WITH MaxEvents <- 0, FrameKinds <- {}

Bindings == 1..MaxBinds
NoBinding == 0

Finals == {"done", "interrupted", "error"}
FrameType ==
  [kind : {"accepted", "delta", "event", "error", "completed", "notice"},
   req : Requests \cup {None}, final : Finals \cup {"none"}, count : Nat]

Frame(kind, r) == [kind |-> kind, req |-> r, final |-> "none", count |-> 0]

\* DROPPABLE_RUNTIME_EVENT_TYPES: reasoning and content deltas, usage updates.
Droppable(kind) == kind = "delta"

-----------------------------------------------------------------------------
(* Publishing: the replay buffer, the bounded queue and blocked puts.      *)

Finished(g) == writer[g] \in {"done", "failed"}

\* _active_writer_task: a finished task is as good as none (and is detached).
ActiveWriter ==
  IF writerTask # NoBinding /\ Finished(writerTask) THEN NoBinding ELSE writerTask

WaitType == [todo : Seq(Nat), on : 0..MaxBinds]
Idle == [todo |-> <<>>, on |-> NoBinding]
Waiting(p) == wait[p].todo # <<>>
QueueFull == Len(queue) >= QueueLimit

\* _enqueue_blocking_if_writer_alive, up to its wait: without a live writer the
\* frames stay in the replay buffer only.
EnqueueBlocking(p, todo) ==
  /\ writerTask' = ActiveWriter
  /\ IF ActiveWriter = NoBinding
     THEN UNCHANGED wait
     ELSE wait' = [wait EXCEPT ![p] = [todo |-> todo, on |-> ActiveWriter]]
  /\ UNCHANGED queue

PutNoWait(i) ==
  /\ ~QueueFull
  /\ queue' = Append(queue, i)
  /\ UNCHANGED <<wait, writerTask>>

\* _publish_control.
PublishControl(p, frame) ==
  /\ Replay!Store(<<frame>>)
  /\ UNCHANGED dropped
  /\ \/ PutNoWait(Replay!NextEventIndex)
     \/ QueueFull /\ EnqueueBlocking(p, <<Replay!NextEventIndex>>)

\* Will _publish_control suspend its caller?
ControlSuspends == QueueFull /\ ActiveWriter # NoBinding

\* _publish_runtime_frame and _emit_backpressure_notice: the notice is stored
\* after the frame that found the queue full, and enqueued before it.
Notice(count) == [Frame("notice", active) EXCEPT !.count = count]

\* Mutant: the frame that triggered the notice is forgotten.
PublishRuntime_NoticeOnly(frame) ==
  LET i == Replay!NextEventIndex
  IN \/ Replay!Store(<<frame>>) /\ PutNoWait(i) /\ UNCHANGED dropped
     \/ /\ QueueFull /\ (ActiveWriter = NoBinding \/ Droppable(frame.kind))
        /\ Replay!Store(<<frame>>)
        /\ writerTask' = ActiveWriter
        /\ UNCHANGED <<queue, wait, dropped>>
     \/ /\ QueueFull /\ ActiveWriter # NoBinding /\ ~Droppable(frame.kind)
        /\ Replay!Store(<<frame, Notice(dropped + 1)>>)
        /\ dropped' = 0
        /\ EnqueueBlocking(Worker, <<i + 1>>)

PublishRuntime(frame) ==
  LET i == Replay!NextEventIndex
  IN \/ /\ Replay!Store(<<frame>>)
        /\ PutNoWait(i)
        /\ UNCHANGED dropped
     \/ /\ QueueFull /\ (ActiveWriter = NoBinding \/ Droppable(frame.kind))
        /\ Replay!Store(<<frame>>)
        /\ dropped' = IF ActiveWriter = NoBinding THEN dropped ELSE dropped + 1
        /\ writerTask' = ActiveWriter
        /\ UNCHANGED <<queue, wait>>
     \/ /\ QueueFull /\ ActiveWriter # NoBinding /\ ~Droppable(frame.kind)
        /\ Replay!Store(<<frame, Notice(dropped + 1)>>)
        /\ dropped' = 0
        /\ EnqueueBlocking(Worker, <<i + 1, i>>)

\* The wait of _enqueue_blocking_if_writer_alive ends for the first frame of
\* todo; the next frame, if any, asks again for a live writer.
EndWait(p) ==
  LET on       == wait[p].on
      rest     == Tail(wait[p].todo)
      detached == IF writerTask = on /\ Finished(on) THEN NoBinding ELSE writerTask
      target   == IF detached # NoBinding /\ Finished(detached) THEN NoBinding ELSE detached
  IN IF rest = <<>>
     THEN /\ writerTask' = detached
          /\ wait' = [wait EXCEPT ![p] = Idle]
     ELSE /\ writerTask' = target
          /\ wait' = [wait EXCEPT ![p] =
                       IF target = NoBinding THEN Idle ELSE [todo |-> rest, on |-> target]]

Unblocked == UNCHANGED <<log, frames, dropped, bindVars, writer, reqVars, workVars, connVars>>

\* put_task is done.
PutDone(p) ==
  /\ Waiting(p) /\ ~QueueFull
  /\ queue' = Append(queue, Head(wait[p].todo))
  /\ EndWait(p)
  /\ Unblocked

\* Mutant: only put_task is awaited.
GiveUpPut_Never(p) == FALSE

\* The writer ended first: put_task is cancelled, the frame is not enqueued.
GiveUpPut(p) ==
  /\ Waiting(p) /\ Finished(wait[p].on)
  /\ EndWait(p)
  /\ UNCHANGED queue
  /\ Unblocked

-----------------------------------------------------------------------------
(* Connection handlers.                                                    *)

\* A cancelled task runs no further statement: it is done at once.
Cancelled(g) ==
  [writer EXCEPT ![g] = IF @ = "failed" THEN @ ELSE "done"]

\* _cancel_writer_task on the handler's own writer, detaching it if installed.
CancelOwn(c) ==
  IF own[c] = NoBinding
  THEN UNCHANGED <<writer, writerTask, own>>
  ELSE /\ writer' = Cancelled(own[c])
       /\ writerTask' = IF writerTask = own[c] THEN NoBinding ELSE writerTask
       /\ own' = [own EXCEPT ![c] = NoBinding]

Connect(c) ==
  /\ pc[c] = "new"
  /\ pc' = [pc EXCEPT ![c] = "recv"]
  /\ up' = up \cup {c}
  /\ UNCHANGED <<outVars, bindVars, writerTask, writer, reqVars, workVars, own>>

ConnectionLost(c) ==
  /\ c \in up \cap Unreliable
  /\ up' = up \ {c}
  /\ UNCHANGED <<outVars, bindVars, writerTask, writer, reqVars, workVars, pc, own>>

\* The receive loop ends (messages received before the loss may still be
\* handled first); the finally clause cancels the handler's writer.
HandlerExit(c) ==
  /\ pc[c] = "recv" /\ c \notin up
  /\ CancelOwn(c)
  /\ pc' = [pc EXCEPT ![c] = "closed"]
  /\ UNCHANGED <<outVars, bindVars, reqVars, workVars, up>>

\* session.bind on a connection that already has a writer: cancel it and await
\* its end before binding.
BindReleasesOwn(c) ==
  /\ pc[c] = "recv" /\ own[c] # NoBinding /\ writer[own[c]] # "failed"
  /\ generation < MaxBinds
  /\ CancelOwn(c)
  /\ pc' = [pc EXCEPT ![c] = "rebind"]
  /\ UNCHANGED <<outVars, bindVars, reqVars, workVars, up>>

MayBind(c) ==
  /\ pc[c] = "rebind" \/ (pc[c] = "recv" /\ own[c] = NoBinding)
  /\ OverlappingBinds \/ \A d \in Conns \ {c} : pc[d] \notin {"rebind", "sending"}

\* registry.bind, replace_writer_task(None) and the previous writer's cancel.
\* Awaiting a previous writer that died of a closed connection re-raises that
\* error in this handler, which ends.
Bind(c, resume) ==
  LET g == generation + 1
      diesOfPrevious == writerTask # NoBinding /\ writer[writerTask] = "failed"
  IN /\ MayBind(c)
     /\ g \in Bindings
     /\ generation' = g
     /\ binding' = [binding EXCEPT ![g] =
          [conn |-> c, liveFrom |-> Replay!NextEventIndex,
           replay |-> Replay!ReplayFrom(resume), gap |-> Replay!ReplayGap(resume),
           installedAt |-> 0]]
     /\ writerTask' = NoBinding
     /\ writer' = IF writerTask = NoBinding THEN writer ELSE Cancelled(writerTask)
     /\ pc' = [pc EXCEPT ![c] = IF diesOfPrevious THEN "closed" ELSE "sending"]
     /\ UNCHANGED <<outVars, reqVars, workVars, own, up, delivered>>

\* The binding a handler holds: that of its last bind.
Holds(c, g) ==
  /\ binding[g].conn = c
  /\ \A h \in Bindings : binding[h].conn = c => h <= g

\* session.bound and the replay are sent; the writer is created and installed
\* over whatever writer is installed by then.
InstallWriter(c) ==
  /\ pc[c] = "sending" /\ c \in up
  /\ \E g \in Bindings :
       /\ Holds(c, g)
       /\ writer' = [writer EXCEPT ![g] = "idle"]
       /\ writerTask' = g
       /\ own' = [own EXCEPT ![c] = g]
       /\ binding' = [binding EXCEPT ![g].installedAt = Replay!NextEventIndex]
  /\ pc' = [pc EXCEPT ![c] = "recv"]
  /\ UNCHANGED <<outVars, generation, delivered, reqVars, workVars, up>>

\* Sending on a closed websocket raises.
BindSendFails(c) ==
  /\ pc[c] = "sending" /\ c \notin up
  /\ pc' = [pc EXCEPT ![c] = "closed"]
  /\ UNCHANGED <<outVars, bindVars, writerTask, writer, reqVars, workVars, own, up>>

Receiving(c) == pc[c] = "recv" /\ \E g \in Bindings : Holds(c, g)

-----------------------------------------------------------------------------
(* Writer tasks.                                                           *)

\* Mutant: live_from_event_index is not consulted.
WriterTakes_NoSkip(g) ==
  /\ writer[g] = "idle" /\ queue # <<>>
  /\ queue' = Tail(queue)
  /\ writer' = [writer EXCEPT ![g] = IF generation = g THEN "sending" ELSE "done"]
  /\ delivered' = IF generation = g
                  THEN [delivered EXCEPT ![g] = Append(@, Head(queue))] ELSE delivered
  /\ UNCHANGED <<log, frames, wait, dropped, generation, binding, writerTask,
                 reqVars, workVars, connVars>>

\* _writer_loop from the return of get: a stale writer discards the frame and
\* returns, a frame the replay covered is skipped, any other is sent.
WriterTakes(g) ==
  /\ writer[g] = "idle" /\ queue # <<>>
  /\ queue' = Tail(queue)
  /\ LET i    == Head(queue)
         skip == generation = g /\ i < binding[g].liveFrom
         send == generation = g /\ i >= binding[g].liveFrom
         open == binding[g].conn \in up
     IN /\ writer' = [writer EXCEPT ![g] =
             IF skip THEN "idle" ELSE IF ~send THEN "done"
             ELSE IF open THEN "sending" ELSE "failed"]
        /\ delivered' = IF send /\ open
                        THEN [delivered EXCEPT ![g] = Append(@, i)] ELSE delivered
  /\ UNCHANGED <<log, frames, wait, dropped, generation, binding, writerTask,
                 reqVars, workVars, connVars>>

\* websocket.send returns once the client has taken the bytes, or raises.
WriterSent(g) ==
  /\ writer[g] = "sending"
  /\ writer' = [writer EXCEPT ![g] = IF binding[g].conn \in up THEN "idle" ELSE "failed"]
  /\ UNCHANGED <<outVars, bindVars, writerTask, reqVars, workVars, connVars>>

-----------------------------------------------------------------------------
(* Requests.                                                               *)

\* Mutant: a completed id is accepted again.
Acceptable_Completed(r) == active = None

\* start_request neither answers conflict nor duplicate.
Acceptable(r) == active = None /\ completed[r] = "none"

\* start_request, accepted without suspending: the run task is created.
AcceptRequest(c, r) ==
  /\ Receiving(c) /\ lock = None /\ Acceptable(r)
  /\ ~ControlSuspends
  /\ active' = r
  /\ agent' = TRUE
  /\ PublishControl(c, Frame("accepted", r))
  /\ run' = [run EXCEPT ![r] = "created"]
  /\ UNCHANGED <<bindVars, writer, completed, lock, workVars, connVars>>

\* start_request suspends in _publish_control, holding the lock.
AcceptRequestBlocks(c, r) ==
  /\ Receiving(c) /\ lock = None /\ Acceptable(r)
  /\ ControlSuspends
  /\ active' = r
  /\ agent' = TRUE
  /\ PublishControl(c, Frame("accepted", r))
  /\ lock' = c
  /\ pc' = [pc EXCEPT ![c] = "publishing"]
  /\ UNCHANGED <<bindVars, writer, completed, run, workVars, own, up>>

\* Mutant: the lock is not released after a suspended publish.
AcceptRequestResumes_KeepsLock(c) ==
  /\ pc[c] = "publishing" /\ ~Waiting(c)
  /\ run' = [run EXCEPT ![active] = "created"]
  /\ pc' = [pc EXCEPT ![c] = "recv"]
  /\ UNCHANGED <<outVars, bindVars, writerTask, writer, active, completed, lock, agent,
                 workVars, own, up>>

AcceptRequestResumes(c) ==
  /\ pc[c] = "publishing" /\ ~Waiting(c)
  /\ run' = [run EXCEPT ![active] = "created"]
  /\ lock' = None
  /\ pc' = [pc EXCEPT ![c] = "recv"]
  /\ UNCHANGED <<outVars, bindVars, writerTask, writer, active, completed, agent, workVars, own, up>>

\* agent_factory raises in _ensure_agent: the handler ends, and the request
\* stays active although nothing will ever run it.
AgentFactoryFails(c, r) ==
  /\ FactoryMayFail /\ ~agent
  /\ Receiving(c) /\ lock = None /\ Acceptable(r)
  /\ active' = r
  /\ CancelOwn(c)
  /\ pc' = [pc EXCEPT ![c] = "closed"]
  /\ UNCHANGED <<outVars, bindVars, completed, lock, agent, run, workVars, up>>

\* _run_request starts and hands the drain to the executor.
SubmitDrain(r) ==
  /\ run[r] = "created"
  /\ jobs' = Append(jobs, [kind |-> "drain", req |-> r, conn |-> None])
  /\ run' = [run EXCEPT ![r] = "draining"]
  /\ UNCHANGED <<outVars, bindVars, writerTask, writer, active, completed, lock, agent,
                 interruptRuns, connVars>>

\* Mutant: the thread does not wait for future.result().
Draining_NoResult(r) == jobs # <<>> /\ Head(jobs).kind = "drain" /\ Head(jobs).req = r

Draining(r) ==
  /\ jobs # <<>> /\ Head(jobs).kind = "drain" /\ Head(jobs).req = r
  /\ ~Waiting(Worker)

ResponsesOf(r) ==
  {i \in 1..Len(log) : log[i].req = r /\ log[i].kind \in {"delta", "event", "error"}}

\* _drain_agent_responses: the agent yields a response, which the thread has
\* the loop publish; the thread waits until that is done.  An INTERRUPT_ACK
\* marks the request first.
Respond(r, kind, ack) ==
  /\ Draining(r)
  /\ Cardinality(ResponsesOf(r)) < MaxResponses
  /\ ack => kind = "event"
  /\ completed' = IF ack THEN [completed EXCEPT ![r] = "interrupted"] ELSE completed
  /\ PublishRuntime(Frame(kind, r))
  /\ UNCHANGED <<bindVars, writer, active, lock, agent, run, workVars, connVars>>

\* The chat is exhausted, or raises.
DrainEnds(r, outcome) ==
  /\ Draining(r)
  /\ jobs' = Tail(jobs)
  /\ run' = [run EXCEPT ![r] = outcome]
  /\ UNCHANGED <<outVars, bindVars, writerTask, writer, active, completed, lock, agent,
                 interruptRuns, connVars>>

\* Mutant: the session is freed before the failure is reported.
PublishFailure_FreesFirst(r) ==
  /\ run[r] = "failed"
  /\ PublishControl(r, Frame("error", r))
  /\ run' = [run EXCEPT ![r] = "reported"]
  /\ active' = None
  /\ UNCHANGED <<bindVars, writer, completed, lock, agent, workVars, connVars>>

\* The except clause of _run_request publishes an error frame.
PublishFailure(r) ==
  /\ run[r] = "failed"
  /\ PublishControl(r, Frame("error", r))
  /\ run' = [run EXCEPT ![r] = "reported"]
  /\ UNCHANGED <<bindVars, writer, active, completed, lock, agent, workVars, connVars>>

FinalState(r) ==
  IF run[r] = "reported" THEN "error"
  ELSE IF completed[r] = "interrupted" THEN "interrupted" ELSE "done"

\* Mutants: the session is not freed; the final state is not recorded.
FinishRequest_KeepsActive(r) ==
  /\ run[r] \in {"drained", "reported"} /\ ~Waiting(r) /\ lock = None
  /\ completed' = [completed EXCEPT ![r] = FinalState(r)]
  /\ PublishControl(r, [Frame("completed", r) EXCEPT !.final = FinalState(r)])
  /\ run' = [run EXCEPT ![r] = "ended"]
  /\ UNCHANGED <<active, bindVars, writer, lock, agent, workVars, connVars>>

FinishRequest_NoRecord(r) ==
  /\ run[r] \in {"drained", "reported"} /\ ~Waiting(r) /\ lock = None
  /\ active' = IF active = r THEN None ELSE active
  /\ PublishControl(r, [Frame("completed", r) EXCEPT !.final = FinalState(r)])
  /\ run' = [run EXCEPT ![r] = "ended"]
  /\ UNCHANGED <<completed, bindVars, writer, lock, agent, workVars, connVars>>

\* The finally clause: the session is freed under the lock, then
\* request.completed is published with no await in between.
FinishRequest(r) ==
  /\ run[r] \in {"drained", "reported"} /\ ~Waiting(r)
  /\ lock = None
  /\ active' = IF active = r THEN None ELSE active
  /\ completed' = [completed EXCEPT ![r] = FinalState(r)]
  /\ PublishControl(r, [Frame("completed", r) EXCEPT !.final = FinalState(r)])
  /\ run' = [run EXCEPT ![r] = "ended"]
  /\ UNCHANGED <<bindVars, writer, lock, agent, workVars, connVars>>

-----------------------------------------------------------------------------
(* Interrupts.                                                             *)

InterruptsAccepted ==
  Len(interruptRuns) + Cardinality({c \in Conns : pc[c] = "interrupting"})

\* interrupt: agent.interrupt is queued on the executor; the handler awaits it.
Interrupt(c, r) ==
  /\ Receiving(c) /\ active = r
  /\ InterruptsAccepted < MaxInterrupts
  /\ agent' = TRUE
  /\ jobs' = Append(jobs, [kind |-> "interrupt", req |-> r, conn |-> c])
  /\ pc' = [pc EXCEPT ![c] = "interrupting"]
  /\ UNCHANGED <<outVars, bindVars, writerTask, writer, active, completed, lock, run,
                 interruptRuns, own, up>>

InterruptFactoryFails(c, r) ==
  /\ FactoryMayFail /\ ~agent
  /\ Receiving(c) /\ active = r
  /\ CancelOwn(c)
  /\ pc' = [pc EXCEPT ![c] = "closed"]
  /\ UNCHANGED <<outVars, bindVars, reqVars, workVars, up>>

\* The executor reaches the job and calls agent.interrupt.
AgentInterrupt(c) ==
  /\ jobs # <<>> /\ Head(jobs).kind = "interrupt" /\ Head(jobs).conn = c
  /\ jobs' = Tail(jobs)
  /\ interruptRuns' = Append(interruptRuns, [req |-> Head(jobs).req, state |-> run[Head(jobs).req]])
  /\ pc' = [pc EXCEPT ![c] = "recv"]
  /\ UNCHANGED <<outVars, bindVars, writerTask, writer, reqVars, own, up>>

-----------------------------------------------------------------------------

Init ==
  /\ Replay!Init
  /\ queue = <<>>
  /\ wait = [p \in Publishers |-> Idle]
  /\ dropped = 0
  /\ generation = 0
  /\ binding = [g \in Bindings |->
       [conn |-> None, liveFrom |-> 0, replay |-> {}, gap |-> FALSE, installedAt |-> 0]]
  /\ writerTask = NoBinding
  /\ writer = [g \in Bindings |-> "none"]
  /\ active = None
  /\ completed = [r \in Requests |-> "none"]
  /\ lock = None
  /\ agent = FALSE
  /\ run = [r \in Requests |-> "none"]
  /\ jobs = <<>>
  /\ pc = [c \in Conns |-> "new"]
  /\ own = [c \in Conns |-> NoBinding]
  /\ up = {}
  /\ delivered = [g \in Bindings |-> <<>>]
  /\ interruptRuns = <<>>

Client(c) ==
  \/ Connect(c)
  \/ ConnectionLost(c)
  \/ BindReleasesOwn(c)
  \/ \E resume \in Resumes : resume <= Len(log) /\ Bind(c, resume)
  \/ \E r \in Requests :
       AcceptRequest(c, r) \/ AcceptRequestBlocks(c, r) \/ AgentFactoryFails(c, r)
       \/ Interrupt(c, r) \/ InterruptFactoryFails(c, r)

Handler(c) ==
  HandlerExit(c) \/ InstallWriter(c) \/ BindSendFails(c) \/ AcceptRequestResumes(c)

Executor ==
  \/ \E r \in Requests :
       \/ \E kind \in ResponseKinds, ack \in BOOLEAN : Respond(r, kind, ack)
       \/ \E outcome \in {"drained", "failed"} : DrainEnds(r, outcome)
  \/ \E c \in Conns : AgentInterrupt(c)

RunTask(r) == SubmitDrain(r) \/ PublishFailure(r) \/ FinishRequest(r)

Next ==
  \/ \E c \in Conns : Client(c) \/ Handler(c)
  \/ \E g \in Bindings : WriterTakes(g) \/ WriterSent(g)
  \/ \E p \in Publishers : PutDone(p) \/ GiveUpPut(p)
  \/ \E r \in Requests : RunTask(r)
  \/ Executor

Spec == Init /\ [][Next]_vars

\* The event loop runs every ready task, the executor every job; a chat ends,
\* and a client either takes its bytes or loses the connection (the websocket
\* keepalive).  Clients owe nothing.
Fairness ==
  /\ \A c \in Conns : WF_vars(Handler(c))
  /\ \A g \in Bindings : WF_vars(WriterTakes(g)) /\ WF_vars(WriterSent(g))
  /\ \A p \in Publishers : WF_vars(PutDone(p)) /\ WF_vars(GiveUpPut(p))
  /\ \A r \in Requests : WF_vars(RunTask(r))
  /\ WF_vars(Executor)

FairSpec == Spec /\ Fairness

-----------------------------------------------------------------------------

RunStates ==
  {"none", "created", "draining", "drained", "failed", "reported", "ended"}

JobType == [kind : {"drain", "interrupt"}, req : Requests, conn : Conns \cup {None}]

OutTypeOK ==
  /\ log \in Seq(FrameType)
  /\ frames \in Seq(Nat) /\ Len(frames) <= Replay!Limit
  /\ queue \in Seq(Nat) /\ Len(queue) <= QueueLimit
  /\ wait \in [Publishers -> WaitType]
  /\ dropped \in Nat

BindingType ==
  [conn : Conns \cup {None}, liveFrom : Nat, replay : SUBSET Nat, gap : BOOLEAN,
   installedAt : Nat]

BindTypeOK ==
  /\ generation \in 0..MaxBinds
  /\ binding \in [Bindings -> BindingType]
  /\ delivered \in [Bindings -> Seq(Nat)]

WriterTypeOK ==
  /\ writerTask \in 0..MaxBinds
  /\ writer \in [Bindings -> {"none", "idle", "sending", "done", "failed"}]

RequestTypeOK ==
  /\ active \in Requests \cup {None}
  /\ completed \in [Requests -> Finals \cup {"none"}]
  /\ lock \in Conns \cup {None}
  /\ agent \in BOOLEAN
  /\ run \in [Requests -> RunStates]
  /\ jobs \in Seq(JobType)
  /\ interruptRuns \in Seq([req : Requests, state : RunStates])

ConnTypeOK ==
  /\ pc \in [Conns -> {"new", "recv", "rebind", "sending", "publishing", "interrupting", "closed"}]
  /\ own \in [Conns -> 0..MaxBinds]
  /\ up \in SUBSET Conns

\* Type invariant; the queue and the ring never exceed their limits.
TypeOK == OutTypeOK /\ BindTypeOK /\ WriterTypeOK /\ RequestTypeOK /\ ConnTypeOK

Live(r) == run[r] \in {"created", "draining", "drained", "failed", "reported"}

\* Single flight (start_request): a request whose task still has work to do is
\* the session's active request, so no two tasks of a session ever run.
SingleFlight == \A r \in Requests : Live(r) => active = r

\* The executor's queue holds at most one drain, that of a request whose task
\* awaits it.
DrainJobsMatchTasks ==
  \A j \in 1..Len(jobs) : jobs[j].kind = "drain" =>
    /\ run[jobs[j].req] = "draining"
    /\ \A k \in 1..Len(jobs) : jobs[k].kind = "drain" => k = j

\* An interrupt in the executor's queue has a handler that awaits it, and that
\* handler awaits no other.
InterruptJobsMatchHandlers ==
  \A j \in 1..Len(jobs) : jobs[j].kind = "interrupt" =>
    /\ jobs[j].conn \in Conns /\ pc[jobs[j].conn] = "interrupting"
    /\ \A k \in 1..Len(jobs) :
         jobs[k].kind = "interrupt" /\ jobs[k].conn = jobs[j].conn => k = j

\* The lock is held across an await by exactly the handler that is announcing
\* the active request, whose task does not exist yet.
LockHeldByAnnouncer ==
  \A c \in Conns :
    /\ lock = c <=> pc[c] = "publishing"
    /\ lock = c => active \in Requests /\ run[active] = "none"

\* A request's recorded state agrees with the stage of its task.
RecordMatchesTask ==
  \A r \in Requests :
    /\ run[r] = "none" => completed[r] = "none"
    /\ run[r] = "ended" => completed[r] \in Finals /\ active # r

\* The inductive invariant behind SingleFlight, FinalStateIsStable and the
\* refinement of RequestService.
RequestInv ==
  /\ TypeOK
  /\ SingleFlight
  /\ DrainJobsMatchTasks
  /\ InterruptJobsMatchHandlers
  /\ LockHeldByAnnouncer
  /\ RecordMatchesTask

\* The active request always has somebody who will free the session: its task,
\* or the handler that is about to create it.  The exception is a request that
\* the failing agent factory left behind, which was never announced.
ActiveHasOwner ==
  \A r \in Requests :
    active = r => \/ Live(r)
                  \/ \E c \in Conns : lock = c /\ pc[c] = "publishing"
                  \/ run[r] = "none" /\ \A i \in 1..Len(log) : log[i].req # r

\* The session implements RequestService: a request is running while it is the
\* active one, then it is in the state the session recorded for it.
serviceState ==
  [r \in Requests |->
    IF active = r THEN "running"
    ELSE IF completed[r] = "none" THEN "idle" ELSE completed[r]]

Service == INSTANCE RequestService WITH state <- serviceState

ImplementsRequestService == Service!Spec

\* With fairness, and when the agent factory does not fail, it also implements
\* the promise that a running request ends.
ImplementsFairRequestService == Service!FairSpec

\* The session's event history is a sequence of whole episodes, although it is
\* written by handlers, run tasks and the executor thread: frames of another
\* request never fall between a request's first and last frame, an episode
\* opens with its only request.accepted, and nothing follows its only
\* request.completed, which announces the state the session recorded.
EpisodesDoNotInterleave ==
  \A r \in Requests :
    LET mine == {i \in 1..Len(log) : log[i].req = r}
    IN mine # {} =>
         \E first, last \in mine :
           /\ \A i \in first..last : log[i].req = r
           /\ \A i \in mine :
                /\ first <= i /\ i <= last
                /\ (log[i].kind = "accepted") <=> (i = first)
                /\ log[i].kind = "completed" => i = last /\ log[i].final = completed[r]
           /\ run[r] = "ended" => log[last].kind = "completed"

\* A final state, once recorded at the end of the task, is never changed: a
\* late acknowledgement or a second start cannot rewrite it.
FinalStateIsStable ==
  [][\A r \in Requests : run[r] = "ended" => completed'[r] = completed[r] /\ run'[r] = "ended"]_vars

\* No websocket is sent an event twice: neither by replay and live delivery
\* (live_from_event_index) nor because two writers share the queue.
NoDuplicateDelivery ==
  \A g \in Bindings :
    /\ \A i \in binding[g].replay, k \in 1..Len(delivered[g]) : delivered[g][k] # i
    /\ \A j, k \in 1..Len(delivered[g]) : j # k => delivered[g][j] # delivered[g][k]

\* The events of one request reach a websocket in index order, whatever waits
\* for room in the queue; only a backpressure notice comes before the event
\* whose wait it announces, although it is stored after it.
RequestEventsInOrder ==
  \A g \in Bindings : \A j, k \in 1..Len(delivered[g]) :
    LET early == delivered[g][j]
        late  == delivered[g][k]
    IN j < k /\ log[early].req = log[late].req =>
         \/ early < late
         \/ log[early].kind = "notice" /\ early = late + 1

\* From the moment the current binding's writer is installed and while it
\* lives, every event that may not be dropped is sent, queued or waiting for
\* room: backpressure only ever costs deltas.
Pending(i) ==
  \/ \E k \in 1..Len(queue) : queue[k] = i
  \/ \E p \in Publishers : \E k \in 1..Len(wait[p].todo) : wait[p].todo[k] = i

NoSilentLoss ==
  \A g \in Bindings :
    g = generation /\ writer[g] \in {"idle", "sending"} =>
      \A i \in binding[g].installedAt..Len(log) :
        \/ Droppable(log[i].kind)
        \/ Pending(i)
        \/ \E k \in 1..Len(delivered[g]) : delivered[g][k] = i

\* A handler that blocks on a full queue while it holds the session's lock is
\* always released.
LockIsReleased == \A c \in Conns : lock = c ~> lock # c
=============================================================================
