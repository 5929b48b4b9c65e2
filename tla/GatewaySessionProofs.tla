------------------------- MODULE GatewaySessionProofs -------------------------
(***************************************************************************)
(* Proofs about a gateway session, for any numbers of connections,         *)
(* requests, bindings, responses and interrupts and any queue and replay   *)
(* limits.  The first part: type correctness, single flight, stability of  *)
(* final states, the refinement of RequestService.  The second part is     *)
(* about delivery: episodes are whole, the events of a request arrive in   *)
(* order and once, and unless binds overlap, backpressure costs the bound  *)
(* client only deltas.                                                     *)
(***************************************************************************)
EXTENDS GatewaySession, TLAPS

LEMMA LimitIsPositive == Replay!Limit \in Nat /\ Replay!Limit >= 1
  BY SessionAssumption DEF Replay!Limit

-----------------------------------------------------------------------------
(* Types of the publishing operators.                                      *)

LEMMA RetainedType ==
  ASSUME NEW all \in Seq(Nat)
  PROVE  Replay!Retained(all) \in Seq(Nat) /\ Len(Replay!Retained(all)) <= Replay!Limit
<1>1. CASE Len(all) > Replay!Limit
  <2>1. Replay!Retained(all) = SubSeq(all, Len(all) - Replay!Limit + 1, Len(all))
    BY <1>1 DEF Replay!Retained
  <2>2. Len(all) - Replay!Limit + 1 \in 1..Len(all)
    BY <1>1, LimitIsPositive
  <2>3. QED
    BY <2>1, <2>2, LimitIsPositive
<1>2. CASE ~(Len(all) > Replay!Limit)
  BY <1>2, LimitIsPositive DEF Replay!Retained
<1>3. QED
  BY <1>1, <1>2

LEMMA StoreType ==
  ASSUME OutTypeOK, NEW new \in Seq(FrameType), Replay!Store(new)
  PROVE  log' \in Seq(FrameType) /\ frames' \in Seq(Nat) /\ Len(frames') <= Replay!Limit
<1>1. log' \in Seq(FrameType)
  BY DEF Replay!Store, OutTypeOK
<1>2. frames \o [k \in 1..Len(new) |-> Len(log) + k] \in Seq(Nat)
  <2>1. [k \in 1..Len(new) |-> Len(log) + k] \in Seq(Nat)
    BY DEF OutTypeOK
  <2>2. QED
    BY <2>1 DEF OutTypeOK
<1>3. QED
  BY <1>1, <1>2, RetainedType DEF Replay!Store

LEMMA ActiveWriterType == TypeOK => ActiveWriter \in 0..MaxBinds
  BY SessionAssumption DEF TypeOK, WriterTypeOK, ActiveWriter, NoBinding

LEMMA StoreOneType ==
  ASSUME TypeOK, NEW frame \in FrameType, Replay!Store(<<frame>>)
  PROVE  log' \in Seq(FrameType) /\ frames' \in Seq(Nat) /\ Len(frames') <= Replay!Limit
<1>1. <<frame>> \in Seq(FrameType)
  OBVIOUS
<1>2. QED
  BY <1>1, StoreType DEF TypeOK

LEMMA EnqueueBlockingType ==
  ASSUME TypeOK, NEW p \in Publishers, NEW todo \in Seq(Nat), EnqueueBlocking(p, todo)
  PROVE  /\ wait' \in [Publishers -> WaitType]
         /\ writerTask' \in 0..MaxBinds
         /\ queue' \in Seq(Nat) /\ Len(queue') <= QueueLimit
<1>1. [todo |-> todo, on |-> ActiveWriter] \in WaitType
  BY ActiveWriterType DEF WaitType
<1>2. QED
  BY <1>1, ActiveWriterType DEF EnqueueBlocking, TypeOK, OutTypeOK

LEMMA PublishControlType ==
  ASSUME TypeOK, NEW p \in Publishers, NEW frame \in FrameType, PublishControl(p, frame)
  PROVE  OutTypeOK' /\ writerTask' \in 0..MaxBinds
<1>1. log' \in Seq(FrameType) /\ frames' \in Seq(Nat) /\ Len(frames') <= Replay!Limit
  BY StoreOneType DEF PublishControl
<1>2. Replay!NextEventIndex \in Nat
  BY DEF TypeOK, OutTypeOK, Replay!NextEventIndex
<1>3. CASE PutNoWait(Replay!NextEventIndex)
  BY <1>1, <1>2, <1>3, SessionAssumption
     DEF PublishControl, PutNoWait, QueueFull, TypeOK, OutTypeOK, WriterTypeOK, Replay!Limit
<1>4. CASE EnqueueBlocking(p, <<Replay!NextEventIndex>>)
  <2>1. <<Replay!NextEventIndex>> \in Seq(Nat)
    BY <1>2
  <2>2. QED
    BY <1>1, <1>4, <2>1, EnqueueBlockingType
       DEF PublishControl, TypeOK, OutTypeOK, Replay!Limit
<1>5. QED
  BY <1>3, <1>4 DEF PublishControl

LEMMA NoticeType == ASSUME TypeOK, NEW n \in Nat PROVE Notice(n) \in FrameType
  BY DEF TypeOK, RequestTypeOK, Notice, Frame, FrameType

LEMMA PublishRuntimeType ==
  ASSUME TypeOK, NEW frame \in FrameType, PublishRuntime(frame)
  PROVE  OutTypeOK' /\ writerTask' \in 0..MaxBinds
<1> DEFINE i == Replay!NextEventIndex
<1>1. i \in Nat /\ i + 1 \in Nat
  BY DEF TypeOK, OutTypeOK, Replay!NextEventIndex
<1>2. dropped \in Nat /\ dropped + 1 \in Nat
  BY DEF TypeOK, OutTypeOK
<1>3. Notice(dropped + 1) \in FrameType
  BY <1>2, NoticeType
<1>4. CASE Replay!Store(<<frame>>) /\ PutNoWait(i) /\ UNCHANGED dropped
  <2>1. log' \in Seq(FrameType) /\ frames' \in Seq(Nat) /\ Len(frames') <= Replay!Limit
    BY <1>4, StoreOneType
  <2>2. QED
    BY <1>1, <1>4, <2>1, SessionAssumption
       DEF PutNoWait, QueueFull, TypeOK, OutTypeOK, WriterTypeOK, Replay!Limit
<1>5. CASE /\ Replay!Store(<<frame>>)
           /\ dropped' = IF ActiveWriter = NoBinding THEN dropped ELSE dropped + 1
           /\ writerTask' = ActiveWriter
           /\ UNCHANGED <<queue, wait>>
  <2>1. log' \in Seq(FrameType) /\ frames' \in Seq(Nat) /\ Len(frames') <= Replay!Limit
    BY <1>5, StoreOneType
  <2>2. QED
    BY <1>2, <1>5, <2>1, ActiveWriterType DEF TypeOK, OutTypeOK, Replay!Limit
<1>6. CASE /\ Replay!Store(<<frame, Notice(dropped + 1)>>)
           /\ dropped' = 0
           /\ EnqueueBlocking(Worker, <<i + 1, i>>)
  <2>0. <<frame, Notice(dropped + 1)>> \in Seq(FrameType)
    BY <1>3
  <2>1. log' \in Seq(FrameType) /\ frames' \in Seq(Nat) /\ Len(frames') <= Replay!Limit
    BY <1>6, <2>0, StoreType DEF TypeOK
  <2>2. <<i + 1, i>> \in Seq(Nat)
    BY <1>1
  <2>3. QED
    BY <1>6, <2>1, <2>2, EnqueueBlockingType DEF OutTypeOK, Replay!Limit, Publishers
<1>7. QED
  BY <1>4, <1>5, <1>6 DEF PublishRuntime

LEMMA EndWaitType ==
  ASSUME TypeOK, NEW p \in Publishers, Waiting(p), EndWait(p)
  PROVE  /\ wait' \in [Publishers -> WaitType]
         /\ writerTask' \in 0..MaxBinds
<1> DEFINE on       == wait[p].on
           rest     == Tail(wait[p].todo)
           detached == IF writerTask = on /\ Finished(on) THEN NoBinding ELSE writerTask
           target   == IF detached # NoBinding /\ Finished(detached)
                       THEN NoBinding ELSE detached
<1>1. detached \in 0..MaxBinds /\ target \in 0..MaxBinds /\ NoBinding \in 0..MaxBinds
  BY SessionAssumption DEF TypeOK, WriterTypeOK, NoBinding
<1>2. rest \in Seq(Nat)
  <2>1. wait[p] \in WaitType
    BY DEF TypeOK, OutTypeOK
  <2>2. wait[p].todo \in Seq(Nat) /\ wait[p].todo # <<>>
    BY <2>1 DEF WaitType, Waiting
  <2>3. QED
    BY <2>2
<1>3. Idle \in WaitType /\ [todo |-> rest, on |-> target] \in WaitType
  BY <1>1, <1>2 DEF Idle, WaitType
<1>4. \/ writerTask' = detached /\ wait' = [wait EXCEPT ![p] = Idle]
      \/ writerTask' = target /\ wait' = [wait EXCEPT ![p] = Idle]
      \/ writerTask' = target /\ wait' = [wait EXCEPT ![p] = [todo |-> rest, on |-> target]]
  BY DEF EndWait
<1> HIDE DEF on, rest, detached, target
<1>5. QED
  BY <1>1, <1>2, <1>3, <1>4 DEF TypeOK, OutTypeOK

\* What a client is replayed is a set of event indices.
LEMMA ReplayType == ASSUME TypeOK, NEW resume PROVE Replay!ReplayFrom(resume) \subseteq Nat
<1>1. Replay!RetainedIndices \subseteq Nat
  BY DEF TypeOK, OutTypeOK, Replay!RetainedIndices
<1>2. Replay!RecoveryFrames \subseteq Replay!RetainedIndices
  BY DEF Replay!RecoveryFrames, Replay!LatestOf, Replay!SnapshotIndices
<1>3. QED
  BY <1>1, <1>2 DEF Replay!ReplayFrom

-----------------------------------------------------------------------------
(* Type correctness: what each operation does to each group of variables.  *)

LEMMA OutUnchanged == OutTypeOK /\ UNCHANGED outVars => OutTypeOK'
  BY DEF OutTypeOK, outVars, Replay!Limit

LEMMA BindUnchanged == BindTypeOK /\ UNCHANGED bindVars => BindTypeOK'
  BY DEF BindTypeOK, bindVars

LEMMA WriterUnchanged == WriterTypeOK /\ UNCHANGED <<writerTask, writer>> => WriterTypeOK'
  BY DEF WriterTypeOK

LEMMA RequestUnchanged == RequestTypeOK /\ UNCHANGED <<reqVars, workVars>> => RequestTypeOK'
  BY DEF RequestTypeOK, reqVars, workVars

LEMMA ConnUnchanged == ConnTypeOK /\ UNCHANGED connVars => ConnTypeOK'
  BY DEF ConnTypeOK, connVars

LEMMA CancelledType ==
  ASSUME WriterTypeOK, NEW g \in Bindings
  PROVE  Cancelled(g) \in [Bindings -> {"none", "idle", "sending", "done", "failed"}]
  BY DEF WriterTypeOK, Cancelled

LEMMA CancelOwnType ==
  ASSUME WriterTypeOK, ConnTypeOK, NEW c \in Conns, CancelOwn(c)
  PROVE  WriterTypeOK' /\ own' \in [Conns -> 0..MaxBinds]
<1>1. CASE own[c] = NoBinding
  BY <1>1 DEF CancelOwn, WriterTypeOK, ConnTypeOK
<1>2. CASE own[c] # NoBinding
  <2>1. own[c] \in Bindings
    BY <1>2 DEF ConnTypeOK, NoBinding, Bindings
  <2>2. 0 \in 0..MaxBinds
    BY SessionAssumption
  <2>3. QED
    BY <1>2, <2>1, <2>2, CancelledType DEF CancelOwn, WriterTypeOK, ConnTypeOK, NoBinding
<1>3. QED
  BY <1>1, <1>2

LEMMA NoRunType == NoBinding \in 0..MaxBinds /\ Bindings \subseteq 0..MaxBinds
  BY SessionAssumption DEF NoBinding, Bindings

-----------------------------------------------------------------------------

\* Every action of a connection handler keeps the types.
LEMMA HandlerTypes ==
  ASSUME TypeOK, NEW c \in Conns,
         \/ Connect(c) \/ ConnectionLost(c) \/ HandlerExit(c) \/ BindReleasesOwn(c)
         \/ (\E resume \in Resumes : Bind(c, resume))
         \/ InstallWriter(c) \/ BindSendFails(c) \/ AcceptRequestResumes(c)
  PROVE  TypeOK'
<1> USE DEF TypeOK
<1>1. CASE Connect(c)
  BY <1>1, OutUnchanged, BindUnchanged, WriterUnchanged, RequestUnchanged
     DEF Connect, ConnTypeOK
<1>2. CASE ConnectionLost(c)
  BY <1>2, OutUnchanged, BindUnchanged, WriterUnchanged, RequestUnchanged
     DEF ConnectionLost, ConnTypeOK
<1>3. CASE HandlerExit(c)
  BY <1>3, OutUnchanged, BindUnchanged, CancelOwnType, RequestUnchanged
     DEF HandlerExit, ConnTypeOK
<1>4. CASE BindReleasesOwn(c)
  BY <1>4, OutUnchanged, BindUnchanged, CancelOwnType, RequestUnchanged
     DEF BindReleasesOwn, ConnTypeOK
<1>5. ASSUME NEW resume \in Resumes, Bind(c, resume) PROVE TypeOK'
  <2>1. OutTypeOK' /\ RequestTypeOK'
    BY <1>5, OutUnchanged, RequestUnchanged DEF Bind
  <2>2. [conn |-> c, liveFrom |-> Replay!NextEventIndex,
         replay |-> Replay!ReplayFrom(resume), gap |-> Replay!ReplayGap(resume),
         installedAt |-> 0] \in BindingType
    BY ReplayType
       DEF BindingType, OutTypeOK, Replay!NextEventIndex, Replay!ReplayGap
  <2>3. BindTypeOK'
    BY <1>5, <2>2 DEF Bind, BindTypeOK, Bindings
  <2>4. WriterTypeOK'
    BY <1>5, CancelledType, NoRunType DEF Bind, WriterTypeOK, NoBinding, Bindings
  <2>5. ConnTypeOK'
    BY <1>5 DEF Bind, ConnTypeOK
  <2>6. QED
    BY <2>1, <2>3, <2>4, <2>5
<1>6. CASE InstallWriter(c)
  <2>1. OutTypeOK' /\ RequestTypeOK'
    BY <1>6, OutUnchanged, RequestUnchanged DEF InstallWriter
  <2>2. PICK g \in Bindings :
          /\ writer' = [writer EXCEPT ![g] = "idle"]
          /\ writerTask' = g
          /\ own' = [own EXCEPT ![c] = g]
          /\ binding' = [binding EXCEPT ![g].installedAt = Replay!NextEventIndex]
    BY <1>6 DEF InstallWriter
  <2>3. WriterTypeOK' /\ ConnTypeOK'
    BY <1>6, <2>2, NoRunType DEF InstallWriter, WriterTypeOK, ConnTypeOK
  <2>4. [binding[g] EXCEPT !.installedAt = Replay!NextEventIndex] \in BindingType
    <3>1. binding[g] \in BindingType
      BY DEF BindTypeOK
    <3>2. Replay!NextEventIndex \in Nat
      BY DEF OutTypeOK, Replay!NextEventIndex
    <3>3. QED
      BY <3>1, <3>2 DEF BindingType
  <2>5. BindTypeOK'
    BY <1>6, <2>2, <2>4 DEF InstallWriter, BindTypeOK
  <2>6. QED
    BY <2>1, <2>3, <2>5
<1>7. CASE BindSendFails(c)
  BY <1>7, OutUnchanged, BindUnchanged, WriterUnchanged, RequestUnchanged
     DEF BindSendFails, ConnTypeOK
<1>8. CASE AcceptRequestResumes(c)
  BY <1>8, OutUnchanged, BindUnchanged, WriterUnchanged
     DEF AcceptRequestResumes, ConnTypeOK, RequestTypeOK, RunStates, workVars
<1>9. QED
  BY <1>1, <1>2, <1>3, <1>4, <1>5, <1>6, <1>7, <1>8

\* Every action of a writer task or a blocked put keeps the types.
LEMMA WriterTypes ==
  ASSUME TypeOK,
         \/ \E g \in Bindings : WriterTakes(g) \/ WriterSent(g)
         \/ \E p \in Publishers : PutDone(p) \/ GiveUpPut(p)
  PROVE  TypeOK'
<1> USE DEF TypeOK
<1>1. ASSUME NEW g \in Bindings, WriterTakes(g) PROVE TypeOK'
  <2>1. RequestTypeOK' /\ ConnTypeOK'
    BY <1>1, RequestUnchanged, ConnUnchanged DEF WriterTakes
  <2>2. Head(queue) \in Nat /\ queue' \in Seq(Nat) /\ Len(queue') <= QueueLimit
    BY <1>1, SessionAssumption DEF WriterTakes, OutTypeOK
  <2>3. OutTypeOK'
    BY <1>1, <2>2 DEF WriterTakes, OutTypeOK, Replay!Limit
  <2>4. Append(delivered[g], Head(queue)) \in Seq(Nat)
    BY <2>2 DEF BindTypeOK
  <2>5. BindTypeOK' /\ WriterTypeOK'
    BY <1>1, <2>4 DEF WriterTakes, BindTypeOK, WriterTypeOK
  <2>6. QED
    BY <2>1, <2>3, <2>5
<1>2. ASSUME NEW g \in Bindings, WriterSent(g) PROVE TypeOK'
  BY <1>2, OutUnchanged, BindUnchanged, RequestUnchanged, ConnUnchanged
     DEF WriterSent, WriterTypeOK
<1>3. ASSUME NEW p \in Publishers, PutDone(p) PROVE TypeOK'
  <2>1. BindTypeOK' /\ RequestTypeOK' /\ ConnTypeOK'
    BY <1>3, BindUnchanged, RequestUnchanged, ConnUnchanged DEF PutDone, Unblocked
  <2>2. wait' \in [Publishers -> WaitType] /\ writerTask' \in 0..MaxBinds
    BY <1>3, EndWaitType DEF PutDone
  <2>3. Head(wait[p].todo) \in Nat
    <3>1. wait[p] \in WaitType
      BY DEF OutTypeOK
    <3>2. wait[p].todo \in Seq(Nat) /\ wait[p].todo # <<>>
      BY <1>3, <3>1 DEF WaitType, PutDone, Waiting
    <3>3. QED
      BY <3>2
  <2>4. queue' \in Seq(Nat) /\ Len(queue') <= QueueLimit
    BY <1>3, <2>3, SessionAssumption DEF PutDone, QueueFull, OutTypeOK
  <2>5. OutTypeOK' /\ WriterTypeOK'
    BY <1>3, <2>2, <2>4 DEF PutDone, Unblocked, OutTypeOK, WriterTypeOK, Replay!Limit
  <2>6. QED
    BY <2>1, <2>5
<1>4. ASSUME NEW p \in Publishers, GiveUpPut(p) PROVE TypeOK'
  <2>1. BindTypeOK' /\ RequestTypeOK' /\ ConnTypeOK'
    BY <1>4, BindUnchanged, RequestUnchanged, ConnUnchanged DEF GiveUpPut, Unblocked
  <2>2. wait' \in [Publishers -> WaitType] /\ writerTask' \in 0..MaxBinds
    BY <1>4, EndWaitType DEF GiveUpPut
  <2>3. OutTypeOK' /\ WriterTypeOK'
    BY <1>4, <2>2 DEF GiveUpPut, Unblocked, OutTypeOK, WriterTypeOK, Replay!Limit
  <2>4. QED
    BY <2>1, <2>3
<1>5. QED
  BY <1>1, <1>2, <1>3, <1>4

\* A control frame about a request is a frame.
LEMMA ControlFrameType ==
  ASSUME NEW r \in Requests, NEW final \in Finals \cup {"none"},
         NEW kind \in {"accepted", "delta", "event", "error", "completed"}
  PROVE  [Frame(kind, r) EXCEPT !.final = final] \in FrameType /\ Frame(kind, r) \in FrameType
  BY DEF Frame, FrameType

\* Every action on a request keeps the types.
LEMMA RequestTypes ==
  ASSUME TypeOK, NEW r \in Requests,
         \/ RunTask(r)
         \/ \E kind \in ResponseKinds, ack \in BOOLEAN : Respond(r, kind, ack)
         \/ \E outcome \in {"drained", "failed"} : DrainEnds(r, outcome)
  PROVE  TypeOK'
<1> USE DEF TypeOK
<1>0. r \in Publishers
  BY DEF Publishers
<1>1. CASE SubmitDrain(r)
  <2>1. [kind |-> "drain", req |-> r, conn |-> None] \in JobType
    BY DEF JobType
  <2>2. RequestTypeOK'
    BY <1>1, <2>1 DEF SubmitDrain, RequestTypeOK, RunStates
  <2>3. QED
    BY <1>1, <2>2, OutUnchanged, BindUnchanged, WriterUnchanged, ConnUnchanged
       DEF SubmitDrain
<1>2. CASE PublishFailure(r)
  <2>1. OutTypeOK' /\ writerTask' \in 0..MaxBinds
    <3>1. Frame("error", r) \in FrameType
      BY ControlFrameType
    <3>2. QED
      BY <1>0, <1>2, <3>1, PublishControlType DEF PublishFailure
  <2>2. RequestTypeOK'
    BY <1>2 DEF PublishFailure, RequestTypeOK, RunStates, workVars
  <2>3. QED
    BY <1>2, <2>1, <2>2, BindUnchanged, ConnUnchanged DEF PublishFailure, WriterTypeOK
<1>3. CASE FinishRequest(r)
  <2>0. FinalState(r) \in Finals
    BY DEF FinalState, Finals
  <2>1. OutTypeOK' /\ writerTask' \in 0..MaxBinds
    <3>1. [Frame("completed", r) EXCEPT !.final = FinalState(r)] \in FrameType
      BY <2>0, ControlFrameType
    <3>2. QED
      BY <1>0, <1>3, <3>1, PublishControlType DEF FinishRequest
  <2>2. RequestTypeOK'
    BY <1>3, <2>0 DEF FinishRequest, RequestTypeOK, RunStates, workVars
  <2>3. QED
    BY <1>3, <2>1, <2>2, BindUnchanged, ConnUnchanged DEF FinishRequest, WriterTypeOK
<1>4. ASSUME NEW kind \in ResponseKinds, NEW ack \in BOOLEAN, Respond(r, kind, ack)
      PROVE  TypeOK'
  <2>1. OutTypeOK' /\ writerTask' \in 0..MaxBinds
    <3>1. Frame(kind, r) \in FrameType
      BY SessionAssumption, ControlFrameType
    <3>2. QED
      BY <1>4, <3>1, PublishRuntimeType DEF Respond
  <2>2. RequestTypeOK'
    BY <1>4 DEF Respond, RequestTypeOK, RunStates, workVars, Finals
  <2>3. QED
    BY <1>4, <2>1, <2>2, BindUnchanged, ConnUnchanged DEF Respond, WriterTypeOK
<1>5. ASSUME NEW outcome \in {"drained", "failed"}, DrainEnds(r, outcome) PROVE TypeOK'
  <2>1. jobs' \in Seq(JobType)
    BY <1>5 DEF DrainEnds, Draining, RequestTypeOK
  <2>2. RequestTypeOK'
    BY <1>5, <2>1 DEF DrainEnds, RequestTypeOK, RunStates
  <2>3. QED
    BY <1>5, <2>2, OutUnchanged, BindUnchanged, WriterUnchanged, ConnUnchanged
       DEF DrainEnds
<1>6. QED
  BY <1>1, <1>2, <1>3, <1>4, <1>5 DEF RunTask

\* Every action of a client's request or interrupt keeps the types.
LEMMA ClientRequestTypes ==
  ASSUME TypeOK, NEW c \in Conns, NEW r \in Requests,
         \/ AcceptRequest(c, r) \/ AcceptRequestBlocks(c, r) \/ AgentFactoryFails(c, r)
         \/ Interrupt(c, r) \/ InterruptFactoryFails(c, r)
  PROVE  TypeOK'
<1> USE DEF TypeOK
<1>0. c \in Publishers /\ Frame("accepted", r) \in FrameType
  BY ControlFrameType DEF Publishers
<1>1. CASE AcceptRequest(c, r)
  <2>1. OutTypeOK' /\ writerTask' \in 0..MaxBinds
    BY <1>0, <1>1, PublishControlType DEF AcceptRequest
  <2>2. RequestTypeOK'
    BY <1>1 DEF AcceptRequest, RequestTypeOK, RunStates, workVars
  <2>3. QED
    BY <1>1, <2>1, <2>2, BindUnchanged, ConnUnchanged DEF AcceptRequest, WriterTypeOK
<1>2. CASE AcceptRequestBlocks(c, r)
  <2>1. OutTypeOK' /\ writerTask' \in 0..MaxBinds
    BY <1>0, <1>2, PublishControlType DEF AcceptRequestBlocks
  <2>2. RequestTypeOK'
    BY <1>2 DEF AcceptRequestBlocks, RequestTypeOK, RunStates, workVars
  <2>3. QED
    BY <1>2, <2>1, <2>2, BindUnchanged DEF AcceptRequestBlocks, WriterTypeOK, ConnTypeOK
<1>3. CASE AgentFactoryFails(c, r)
  <2>1. RequestTypeOK'
    BY <1>3 DEF AgentFactoryFails, RequestTypeOK, workVars
  <2>2. QED
    BY <1>3, <2>1, OutUnchanged, BindUnchanged, CancelOwnType
       DEF AgentFactoryFails, ConnTypeOK
<1>4. CASE Interrupt(c, r)
  <2>1. [kind |-> "interrupt", req |-> r, conn |-> c] \in JobType
    BY DEF JobType
  <2>2. RequestTypeOK'
    BY <1>4, <2>1 DEF Interrupt, RequestTypeOK
  <2>3. QED
    BY <1>4, <2>2, OutUnchanged, BindUnchanged, WriterUnchanged DEF Interrupt, ConnTypeOK
<1>5. CASE InterruptFactoryFails(c, r)
  BY <1>5, OutUnchanged, BindUnchanged, RequestUnchanged, CancelOwnType
     DEF InterruptFactoryFails, ConnTypeOK
<1>6. QED
  BY <1>1, <1>2, <1>3, <1>4, <1>5

\* The executor's call of agent.interrupt keeps the types.
LEMMA AgentInterruptTypes ==
  ASSUME TypeOK, NEW c \in Conns, AgentInterrupt(c) PROVE TypeOK'
<1> USE DEF TypeOK
<1>1. jobs \in Seq(JobType) /\ jobs # <<>>
  BY DEF AgentInterrupt, RequestTypeOK
<1>2. Head(jobs) \in JobType /\ Tail(jobs) \in Seq(JobType)
  BY <1>1
<1>3. Head(jobs).req \in Requests
  BY <1>2 DEF JobType
<1>4. [req |-> Head(jobs).req, state |-> run[Head(jobs).req]]
        \in [req : Requests, state : RunStates]
  BY <1>3 DEF RequestTypeOK
<1>5. interruptRuns' \in Seq([req : Requests, state : RunStates])
  BY <1>4 DEF AgentInterrupt, RequestTypeOK
<1>6. RequestTypeOK'
  BY <1>2, <1>5 DEF AgentInterrupt, RequestTypeOK, reqVars
<1>7. QED
  BY <1>6, OutUnchanged, BindUnchanged, WriterUnchanged DEF AgentInterrupt, ConnTypeOK

LEMMA InitTypes == Init => TypeOK
<1> SUFFICES ASSUME Init PROVE TypeOK
  OBVIOUS
<1>1. Idle \in WaitType
  BY NoRunType DEF Idle, WaitType
<1>2. OutTypeOK
  BY <1>1, SessionAssumption, LimitIsPositive DEF Init, Replay!Init, OutTypeOK
<1>3. [conn |-> None, liveFrom |-> 0, replay |-> {}, gap |-> FALSE, installedAt |-> 0]
        \in BindingType
  BY DEF BindingType
<1>4. BindTypeOK
  BY <1>3, SessionAssumption DEF Init, BindTypeOK
<1>5. WriterTypeOK /\ ConnTypeOK
  BY NoRunType DEF Init, WriterTypeOK, ConnTypeOK
<1>6. RequestTypeOK
  <2>1. completed \in [Requests -> Finals \cup {"none"}] /\ run \in [Requests -> RunStates]
    BY DEF Init, RunStates
  <2>2. jobs \in Seq(JobType) /\ interruptRuns \in Seq([req : Requests, state : RunStates])
    BY DEF Init
  <2>3. QED
    BY <2>1, <2>2 DEF Init, RequestTypeOK
<1>7. QED
  BY <1>2, <1>4, <1>5, <1>6 DEF TypeOK

LEMMA StepTypes == TypeOK /\ [Next]_vars => TypeOK'
<1> SUFFICES ASSUME TypeOK, [Next]_vars PROVE TypeOK'
  OBVIOUS
<1>1. CASE UNCHANGED vars
  BY <1>1, OutUnchanged, BindUnchanged, WriterUnchanged, RequestUnchanged, ConnUnchanged
     DEF vars, TypeOK
<1>2. ASSUME NEW c \in Conns, Client(c) \/ Handler(c) PROVE TypeOK'
  BY <1>2, HandlerTypes, ClientRequestTypes DEF Client, Handler
<1>3. ASSUME NEW r \in Requests, RunTask(r) PROVE TypeOK'
  BY <1>3, RequestTypes
<1>4. CASE Executor
  BY <1>4, RequestTypes, AgentInterruptTypes DEF Executor
<1>5. QED
  BY <1>1, <1>2, <1>3, <1>4, WriterTypes DEF Next

\* Type correctness, for every reachable state: in particular the outbound
\* queue and the replay ring never exceed their configured limits, however
\* many connections, requests and frames there are.
THEOREM TypesAreCorrect == Spec => []TypeOK
  BY InitTypes, StepTypes, PTL DEF Spec

-----------------------------------------------------------------------------
(* Single flight.  The inductive invariant RequestInv relates the four     *)
(* places a request lives in: active, its task, the executor's queue and   *)
(* the handler that holds the lock.                                        *)

\* Steps that leave the requests alone and keep every handler that announces a
\* request or awaits an interrupt doing just that.
LEMMA RequestFrame ==
  ASSUME TypeOK', RequestInv, UNCHANGED <<active, completed, lock, run, jobs>>,
         \A c \in Conns : /\ pc'[c] = "publishing" <=> pc[c] = "publishing"
                          /\ pc[c] = "interrupting" => pc'[c] = "interrupting"
  PROVE  RequestInv'
<1> USE DEF RequestInv
<1>1. SingleFlight' /\ RecordMatchesTask'
  BY DEF SingleFlight, Live, RecordMatchesTask
<1>2. DrainJobsMatchTasks'
  BY DEF DrainJobsMatchTasks
<1>3. InterruptJobsMatchHandlers'
  BY DEF InterruptJobsMatchHandlers
<1>4. LockHeldByAnnouncer'
  BY DEF LockHeldByAnnouncer
<1>5. QED
  BY <1>1, <1>2, <1>3, <1>4

\* An acceptable request has no task yet.
LEMMA AcceptableHasNoTask ==
  ASSUME RequestInv, NEW r \in Requests, Acceptable(r)
  PROVE  run[r] = "none" /\ \A q \in Requests : ~Live(q) /\ run[q] # "draining"
<1>1. \A q \in Requests : ~Live(q)
  BY SessionAssumption DEF Acceptable, RequestInv, SingleFlight
<1>2. run[r] # "ended"
  BY DEF Acceptable, RequestInv, RecordMatchesTask, Finals
<1>3. run[r] \in RunStates
  BY DEF RequestInv, TypeOK, RequestTypeOK
<1>4. QED
  BY <1>1, <1>2, <1>3 DEF Live, RunStates

LEMMA JobRequests == TypeOK => \A j \in 1..Len(jobs) : jobs[j].req \in Requests
<1> SUFFICES ASSUME TypeOK, NEW j \in 1..Len(jobs) PROVE jobs[j].req \in Requests
  OBVIOUS
<1>1. jobs[j] \in JobType
  BY DEF TypeOK, RequestTypeOK
<1>2. QED
  BY <1>1 DEF JobType

\* A job is queued, with somebody who awaits it and awaits nothing else.
LEMMA JobAppended ==
  ASSUME RequestInv, NEW job \in JobType, jobs' = Append(jobs, job),
         \A q \in Requests : run[q] = "draining" => run'[q] = "draining",
         \A c \in Conns : pc[c] = "interrupting" => pc'[c] = "interrupting",
         job.kind = "drain" => /\ run'[job.req] = "draining"
                               /\ \A q \in Requests : run[q] # "draining",
         job.kind = "interrupt" => /\ job.conn \in Conns /\ pc'[job.conn] = "interrupting"
                                   /\ pc[job.conn] # "interrupting"
  PROVE  DrainJobsMatchTasks' /\ InterruptJobsMatchHandlers'
<1> USE DEF RequestInv
<1>1. jobs \in Seq(JobType)
  BY DEF TypeOK, RequestTypeOK
<1>2. \A j \in 1..Len(jobs) : jobs[j].req \in Requests
  BY JobRequests
<1>3. /\ Len(jobs') = Len(jobs) + 1 /\ Len(jobs) \in Nat
      /\ jobs'[Len(jobs) + 1] = job
      /\ \A j \in 1..Len(jobs) : jobs'[j] = jobs[j]
      /\ 1..Len(jobs') = 1..Len(jobs) \cup {Len(jobs) + 1}
  BY <1>1
<1>4. job.kind = "drain" => \A j \in 1..Len(jobs) : jobs[j].kind # "drain"
  BY <1>2 DEF DrainJobsMatchTasks
<1>5. job.kind = "interrupt" =>
        \A j \in 1..Len(jobs) : ~(jobs[j].kind = "interrupt" /\ jobs[j].conn = job.conn)
  BY DEF InterruptJobsMatchHandlers
<1>6. DrainJobsMatchTasks'
  BY <1>2, <1>3, <1>4 DEF DrainJobsMatchTasks
<1>7. InterruptJobsMatchHandlers'
  BY <1>3, <1>5 DEF InterruptJobsMatchHandlers
<1>8. QED
  BY <1>6, <1>7

\* The head of the queue is taken: what remains still matches, if the awaiters
\* of the other jobs did not move.
LEMMA JobTaken ==
  ASSUME RequestInv, jobs # <<>>, jobs' = Tail(jobs),
         \A q \in Requests :
           run[q] = "draining" /\ Head(jobs).kind # "drain" => run'[q] = "draining",
         \A c \in Conns :
           pc[c] = "interrupting" /\ ~(Head(jobs).kind = "interrupt" /\ Head(jobs).conn = c)
             => pc'[c] = "interrupting"
  PROVE  DrainJobsMatchTasks' /\ InterruptJobsMatchHandlers'
<1> USE DEF RequestInv
<1>1. jobs \in Seq(JobType)
  BY DEF TypeOK, RequestTypeOK
<1>2. /\ Len(jobs') = Len(jobs) - 1 /\ Len(jobs) \in Nat /\ Len(jobs) >= 1
      /\ Head(jobs) = jobs[1]
      /\ \A j \in 1..Len(jobs') : j + 1 \in 2..Len(jobs) /\ jobs'[j] = jobs[j + 1]
  BY <1>1
<1>3. \A j \in 2..Len(jobs) : jobs[j].req \in Requests
  BY JobRequests
<1>4. ASSUME NEW j \in 1..Len(jobs'), jobs'[j].kind = "drain"
      PROVE  /\ run'[jobs'[j].req] = "draining"
             /\ \A k \in 1..Len(jobs') : jobs'[k].kind = "drain" => k = j
  <2>1. jobs[j + 1].kind = "drain" /\ j + 1 \in 1..Len(jobs) /\ j + 1 # 1
    BY <1>2, <1>4
  <2>2. /\ run[jobs[j + 1].req] = "draining"
        /\ \A k \in 1..Len(jobs) : jobs[k].kind = "drain" => k = j + 1
    BY <2>1 DEF DrainJobsMatchTasks
  <2>3. Head(jobs).kind # "drain"
    BY <1>2, <2>1, <2>2
  <2>4. QED
    BY <1>2, <1>3, <2>2, <2>3
<1>5. ASSUME NEW j \in 1..Len(jobs'), jobs'[j].kind = "interrupt"
      PROVE  /\ jobs'[j].conn \in Conns /\ pc'[jobs'[j].conn] = "interrupting"
             /\ \A k \in 1..Len(jobs') :
                  jobs'[k].kind = "interrupt" /\ jobs'[k].conn = jobs'[j].conn => k = j
  <2>1. jobs[j + 1].kind = "interrupt" /\ j + 1 \in 1..Len(jobs) /\ j + 1 # 1
    BY <1>2, <1>5
  <2>2. /\ jobs[j + 1].conn \in Conns /\ pc[jobs[j + 1].conn] = "interrupting"
        /\ \A k \in 1..Len(jobs) :
             jobs[k].kind = "interrupt" /\ jobs[k].conn = jobs[j + 1].conn => k = j + 1
    BY <2>1 DEF InterruptJobsMatchHandlers
  <2>3. ~(Head(jobs).kind = "interrupt" /\ Head(jobs).conn = jobs[j + 1].conn)
    BY <1>2, <2>1, <2>2
  <2>4. QED
    BY <1>2, <2>2, <2>3
<1>6. QED
  BY <1>4, <1>5 DEF DrainJobsMatchTasks, InterruptJobsMatchHandlers

-----------------------------------------------------------------------------

LEMMA AcceptKeepsInv ==
  ASSUME RequestInv, TypeOK', NEW c \in Conns, NEW r \in Requests,
         AcceptRequest(c, r) \/ AcceptRequestBlocks(c, r) \/ AgentFactoryFails(c, r)
  PROVE  RequestInv'
<1> USE DEF RequestInv
<1>1. /\ lock = None /\ active' = r /\ completed' = completed
      /\ jobs' = jobs /\ pc[c] = "recv"
      /\ run[r] = "none" /\ \A q \in Requests : ~Live(q)
  BY AcceptableHasNoTask
     DEF AcceptRequest, AcceptRequestBlocks, AgentFactoryFails, Receiving, workVars
<1>2. run \in [Requests -> RunStates] /\ pc \in [Conns -> {"new", "recv", "rebind",
        "sending", "publishing", "interrupting", "closed"}]
  BY DEF TypeOK, RequestTypeOK, ConnTypeOK
<1>3. CASE AcceptRequest(c, r)
  <2>1. run' = [run EXCEPT ![r] = "created"] /\ pc' = pc /\ lock' = lock
    BY <1>3 DEF AcceptRequest, connVars
  <2>2. SingleFlight' /\ RecordMatchesTask'
    BY <1>1, <1>2, <2>1 DEF SingleFlight, Live, RecordMatchesTask, RunStates
  <2>3. DrainJobsMatchTasks' /\ InterruptJobsMatchHandlers'
    BY <1>1, <1>2, <2>1, JobRequests
       DEF DrainJobsMatchTasks, InterruptJobsMatchHandlers, Live
  <2>4. LockHeldByAnnouncer'
    BY <1>1, <2>1, SessionAssumption DEF LockHeldByAnnouncer
  <2>5. QED
    BY <2>2, <2>3, <2>4
<1>4. CASE AcceptRequestBlocks(c, r)
  <2>1. run' = run /\ pc' = [pc EXCEPT ![c] = "publishing"] /\ lock' = c
    BY <1>4 DEF AcceptRequestBlocks
  <2>2. SingleFlight' /\ RecordMatchesTask' /\ DrainJobsMatchTasks'
    BY <1>1, <2>1 DEF SingleFlight, Live, RecordMatchesTask, DrainJobsMatchTasks
  <2>3. InterruptJobsMatchHandlers'
    BY <1>1, <1>2, <2>1 DEF InterruptJobsMatchHandlers
  <2>4. \A d \in Conns : pc[d] # "publishing"
    BY <1>1, SessionAssumption DEF LockHeldByAnnouncer
  <2>5. LockHeldByAnnouncer'
    BY <1>1, <1>2, <2>1, <2>4 DEF LockHeldByAnnouncer
  <2>6. QED
    BY <2>2, <2>3, <2>5
<1>5. CASE AgentFactoryFails(c, r)
  <2>1. run' = run /\ pc' = [pc EXCEPT ![c] = "closed"] /\ lock' = lock
    BY <1>5 DEF AgentFactoryFails
  <2>2. SingleFlight' /\ RecordMatchesTask' /\ DrainJobsMatchTasks'
    BY <1>1, <2>1 DEF SingleFlight, Live, RecordMatchesTask, DrainJobsMatchTasks
  <2>3. InterruptJobsMatchHandlers'
    BY <1>1, <1>2, <2>1 DEF InterruptJobsMatchHandlers
  <2>4. LockHeldByAnnouncer'
    BY <1>1, <1>2, <2>1, SessionAssumption DEF LockHeldByAnnouncer
  <2>5. QED
    BY <2>2, <2>3, <2>4
<1>6. QED
  BY <1>3, <1>4, <1>5

LEMMA ResumesKeepsInv ==
  ASSUME RequestInv, TypeOK', NEW c \in Conns, AcceptRequestResumes(c)
  PROVE  RequestInv'
<1> USE DEF RequestInv
<1>1. /\ run' = [run EXCEPT ![active] = "created"] /\ lock' = None
      /\ pc[c] = "publishing" /\ pc' = [pc EXCEPT ![c] = "recv"] /\ lock = c
      /\ UNCHANGED <<active, completed, jobs>>
  BY DEF AcceptRequestResumes, workVars, LockHeldByAnnouncer
<1>2. active \in Requests /\ run[active] = "none"
  BY <1>1 DEF LockHeldByAnnouncer
<1>3. run \in [Requests -> RunStates] /\ pc \in [Conns -> {"new", "recv", "rebind",
        "sending", "publishing", "interrupting", "closed"}]
  BY DEF TypeOK, RequestTypeOK, ConnTypeOK
<1>4. SingleFlight' /\ RecordMatchesTask'
  BY <1>1, <1>2, <1>3 DEF SingleFlight, Live, RecordMatchesTask
<1>5. DrainJobsMatchTasks' /\ InterruptJobsMatchHandlers'
  BY <1>1, <1>2, <1>3, JobRequests DEF DrainJobsMatchTasks, InterruptJobsMatchHandlers
<1>6. LockHeldByAnnouncer'
  BY <1>1, <1>3, SessionAssumption DEF LockHeldByAnnouncer
<1>7. QED
  BY <1>4, <1>5, <1>6

LEMMA InterruptKeepsInv ==
  ASSUME RequestInv, TypeOK', NEW c \in Conns,
         (\E r \in Requests : Interrupt(c, r)) \/ AgentInterrupt(c)
  PROVE  RequestInv'
<1> USE DEF RequestInv
<1>1. UNCHANGED <<active, completed, lock, run>>
  BY DEF Interrupt, AgentInterrupt, reqVars
<1>2. SingleFlight' /\ RecordMatchesTask'
  BY <1>1 DEF SingleFlight, Live, RecordMatchesTask
<1>3. pc \in [Conns -> {"new", "recv", "rebind",
        "sending", "publishing", "interrupting", "closed"}]
  BY DEF TypeOK, ConnTypeOK
<1>4. ASSUME NEW r \in Requests, Interrupt(c, r) PROVE RequestInv'
  <2>1. [kind |-> "interrupt", req |-> r, conn |-> c] \in JobType
    BY DEF JobType
  <2>2. /\ pc[c] = "recv" /\ pc' = [pc EXCEPT ![c] = "interrupting"]
        /\ jobs' = Append(jobs, [kind |-> "interrupt", req |-> r, conn |-> c])
    BY <1>4 DEF Interrupt, Receiving
  <2>3. DrainJobsMatchTasks' /\ InterruptJobsMatchHandlers'
    BY <1>1, <1>3, <2>1, <2>2, JobAppended
  <2>4. LockHeldByAnnouncer'
    BY <1>1, <1>3, <2>2 DEF LockHeldByAnnouncer
  <2>5. QED
    BY <1>2, <2>3, <2>4
<1>5. CASE AgentInterrupt(c)
  <2>1. /\ jobs # <<>> /\ jobs' = Tail(jobs) /\ pc' = [pc EXCEPT ![c] = "recv"]
        /\ Head(jobs).kind = "interrupt" /\ Head(jobs).conn = c
    BY <1>5 DEF AgentInterrupt
  <2>2. DrainJobsMatchTasks' /\ InterruptJobsMatchHandlers'
    BY <1>1, <1>3, <2>1, JobTaken
  <2>3. jobs \in Seq(JobType)
    BY DEF TypeOK, RequestTypeOK
  <2>4. 1 \in 1..Len(jobs) /\ Head(jobs) = jobs[1]
    BY <2>1, <2>3
  <2>5. pc[c] = "interrupting"
    BY <2>1, <2>4 DEF InterruptJobsMatchHandlers
  <2>6. LockHeldByAnnouncer'
    BY <1>1, <1>3, <2>1, <2>5 DEF LockHeldByAnnouncer
  <2>7. QED
    BY <1>2, <2>2, <2>6
<1>6. QED
  BY <1>4, <1>5

\* The request whose drain is running is in its executor stage.
LEMMA DrainingStage ==
  ASSUME RequestInv, NEW r \in Requests, Draining(r)
  PROVE  jobs # <<>> /\ Head(jobs).kind = "drain" /\ run[r] = "draining"
<1>1. jobs \in Seq(JobType) /\ jobs # <<>>
  BY DEF Draining, RequestInv, TypeOK, RequestTypeOK
<1>2. 1 \in 1..Len(jobs) /\ Head(jobs) = jobs[1]
  BY <1>1
<1>3. QED
  BY <1>1, <1>2 DEF Draining, RequestInv, DrainJobsMatchTasks

LEMMA RunTaskKeepsInv ==
  ASSUME RequestInv, TypeOK', NEW r \in Requests, RunTask(r)
  PROVE  RequestInv'
<1> USE DEF RequestInv
<1>1. UNCHANGED <<pc, lock>>
  BY DEF RunTask, SubmitDrain, PublishFailure, FinishRequest, connVars
<1>2. /\ run \in [Requests -> RunStates]
      /\ completed \in [Requests -> Finals \cup {"none"}]
  BY DEF TypeOK, RequestTypeOK
<1>3. Live(r) /\ active = r
  BY DEF RunTask, SubmitDrain, PublishFailure, FinishRequest, SingleFlight, Live
<1>4. \A q \in Requests \ {r} : ~Live(q)
  BY <1>3 DEF SingleFlight
<1>5. CASE SubmitDrain(r)
  <2>1. /\ run[r] = "created" /\ run' = [run EXCEPT ![r] = "draining"]
        /\ jobs' = Append(jobs, [kind |-> "drain", req |-> r, conn |-> None])
        /\ UNCHANGED <<active, completed>>
    BY <1>5 DEF SubmitDrain
  <2>2. SingleFlight' /\ RecordMatchesTask' /\ LockHeldByAnnouncer'
    BY <1>1, <1>2, <1>3, <2>1 DEF SingleFlight, Live, RecordMatchesTask, LockHeldByAnnouncer
  <2>3. [kind |-> "drain", req |-> r, conn |-> None] \in JobType
    BY DEF JobType
  <2>4. \A q \in Requests : run[q] # "draining"
    BY <1>4, <2>1 DEF Live
  <2>5. DrainJobsMatchTasks' /\ InterruptJobsMatchHandlers'
    BY <1>1, <1>2, <2>1, <2>3, <2>4, JobAppended
  <2>6. QED
    BY <2>2, <2>5
<1>6. CASE PublishFailure(r)
  <2>1. /\ run[r] = "failed" /\ run' = [run EXCEPT ![r] = "reported"]
        /\ UNCHANGED <<active, completed, jobs>>
    BY <1>6 DEF PublishFailure, workVars
  <2>2. SingleFlight' /\ RecordMatchesTask' /\ LockHeldByAnnouncer'
    BY <1>1, <1>2, <1>3, <2>1 DEF SingleFlight, Live, RecordMatchesTask, LockHeldByAnnouncer
  <2>3. DrainJobsMatchTasks' /\ InterruptJobsMatchHandlers'
    BY <1>1, <1>2, <2>1, JobRequests DEF DrainJobsMatchTasks, InterruptJobsMatchHandlers
  <2>4. QED
    BY <2>2, <2>3
<1>7. CASE FinishRequest(r)
  <2>1. /\ run[r] \in {"drained", "reported"} /\ run' = [run EXCEPT ![r] = "ended"]
        /\ lock = None /\ active' = None
        /\ completed' = [completed EXCEPT ![r] = FinalState(r)]
        /\ UNCHANGED jobs
    BY <1>3, <1>7 DEF FinishRequest, workVars
  <2>2. FinalState(r) \in Finals
    BY DEF FinalState, Finals
  <2>3. SingleFlight'
    BY <1>2, <1>4, <2>1 DEF SingleFlight, Live
  <2>4. RecordMatchesTask' /\ LockHeldByAnnouncer'
    BY <1>1, <1>2, <2>1, <2>2, SessionAssumption DEF RecordMatchesTask, LockHeldByAnnouncer
  <2>5. DrainJobsMatchTasks' /\ InterruptJobsMatchHandlers'
    BY <1>1, <1>2, <2>1, JobRequests DEF DrainJobsMatchTasks, InterruptJobsMatchHandlers
  <2>6. QED
    BY <2>3, <2>4, <2>5
<1>8. QED
  BY <1>5, <1>6, <1>7 DEF RunTask

LEMMA ExecutorKeepsInv ==
  ASSUME RequestInv, TypeOK', NEW r \in Requests,
         \/ \E kind \in ResponseKinds, ack \in BOOLEAN : Respond(r, kind, ack)
         \/ \E outcome \in {"drained", "failed"} : DrainEnds(r, outcome)
  PROVE  RequestInv'
<1> USE DEF RequestInv
<1>1. UNCHANGED <<pc, lock, active>>
  BY DEF Respond, DrainEnds, connVars
<1>2. /\ run \in [Requests -> RunStates]
      /\ completed \in [Requests -> Finals \cup {"none"}]
  BY DEF TypeOK, RequestTypeOK
<1>3. run[r] = "draining" /\ active = r /\ Head(jobs).kind = "drain" /\ jobs # <<>>
  BY DrainingStage DEF Respond, DrainEnds, SingleFlight, Live
<1>4. \A q \in Requests \ {r} : ~Live(q)
  BY <1>3 DEF SingleFlight, Live
<1>5. ASSUME NEW kind \in ResponseKinds, NEW ack \in BOOLEAN, Respond(r, kind, ack)
      PROVE  RequestInv'
  <2>1. /\ UNCHANGED <<run, jobs>>
        /\ \A q \in Requests \ {r} : completed'[q] = completed[q]
    BY <1>2, <1>5 DEF Respond, workVars
  <2>2. SingleFlight' /\ LockHeldByAnnouncer'
    BY <1>1, <2>1 DEF SingleFlight, Live, LockHeldByAnnouncer
  <2>3. RecordMatchesTask'
    BY <1>1, <1>3, <2>1 DEF RecordMatchesTask
  <2>4. DrainJobsMatchTasks' /\ InterruptJobsMatchHandlers'
    BY <1>1, <2>1 DEF DrainJobsMatchTasks, InterruptJobsMatchHandlers
  <2>5. QED
    BY <2>2, <2>3, <2>4
<1>6. ASSUME NEW outcome \in {"drained", "failed"}, DrainEnds(r, outcome) PROVE RequestInv'
  <2>1. /\ run' = [run EXCEPT ![r] = outcome] /\ jobs' = Tail(jobs)
        /\ UNCHANGED completed
    BY <1>6 DEF DrainEnds
  <2>2. SingleFlight' /\ RecordMatchesTask' /\ LockHeldByAnnouncer'
    BY <1>1, <1>2, <1>3, <2>1 DEF SingleFlight, Live, RecordMatchesTask, LockHeldByAnnouncer
  <2>3. DrainJobsMatchTasks' /\ InterruptJobsMatchHandlers'
    BY <1>1, <1>3, <2>1, JobTaken
  <2>4. QED
    BY <2>2, <2>3
<1>7. QED
  BY <1>5, <1>6

\* The steps that concern no request: connections, bindings, writers, queue.
LEMMA QuietKeepsInv ==
  ASSUME RequestInv, TypeOK',
         \/ UNCHANGED vars
         \/ \E c \in Conns :
              \/ Connect(c) \/ ConnectionLost(c) \/ HandlerExit(c) \/ BindReleasesOwn(c)
              \/ (\E resume \in Resumes : Bind(c, resume))
              \/ InstallWriter(c) \/ BindSendFails(c)
              \/ (\E r \in Requests : InterruptFactoryFails(c, r))
         \/ \E g \in Bindings : WriterTakes(g) \/ WriterSent(g)
         \/ \E p \in Publishers : PutDone(p) \/ GiveUpPut(p)
  PROVE  /\ RequestInv'
         /\ UNCHANGED <<active, completed, lock, run, jobs>>
<1>1. UNCHANGED <<active, completed, lock, run, jobs>>
  BY DEF vars, reqVars, workVars, Connect, ConnectionLost, HandlerExit, BindReleasesOwn,
         Bind, InstallWriter, BindSendFails, InterruptFactoryFails, WriterTakes, WriterSent,
         PutDone, GiveUpPut, Unblocked
<1>2. pc \in [Conns -> {"new", "recv", "rebind", "sending", "publishing", "interrupting",
                        "closed"}]
  BY DEF RequestInv, TypeOK, ConnTypeOK
<1>3. \A c \in Conns : /\ pc'[c] = "publishing" <=> pc[c] = "publishing"
                       /\ pc[c] = "interrupting" => pc'[c] = "interrupting"
  <2> DEFINE Same == \A c \in Conns : /\ pc'[c] = "publishing" <=> pc[c] = "publishing"
                                      /\ pc[c] = "interrupting" => pc'[c] = "interrupting"
  <2> SUFFICES Same
    OBVIOUS
  <2>1. ASSUME pc' = pc PROVE Same
    BY <2>1
  <2>2. ASSUME NEW c \in Conns, pc[c] \notin {"publishing", "interrupting"},
               NEW stage, stage \notin {"publishing", "interrupting"},
               pc' = [pc EXCEPT ![c] = stage]
        PROVE  Same
    BY <1>2, <2>2
  <2> HIDE DEF Same
  <2>3. ASSUME NEW c \in Conns,
               \/ Connect(c) \/ HandlerExit(c) \/ BindReleasesOwn(c) \/ InstallWriter(c)
               \/ BindSendFails(c) \/ (\E r \in Requests : InterruptFactoryFails(c, r))
        PROVE  Same
    BY <2>2, <2>3 DEF Connect, HandlerExit, BindReleasesOwn, InstallWriter, BindSendFails,
                      InterruptFactoryFails, Receiving
  <2>4. ASSUME NEW c \in Conns, NEW resume \in Resumes, Bind(c, resume) PROVE Same
    <3>1. pc[c] \notin {"publishing", "interrupting"}
      BY <2>4 DEF Bind, MayBind
    <3> QED  BY <2>2, <2>4, <3>1 DEF Bind
  <2>5. ASSUME NEW c \in Conns, ConnectionLost(c) PROVE Same
    BY <2>1, <2>5 DEF ConnectionLost
  <2>6. ASSUME NEW g \in Bindings, WriterTakes(g) \/ WriterSent(g) PROVE Same
    BY <2>1, <2>6 DEF WriterTakes, WriterSent, connVars
  <2>7. ASSUME NEW p \in Publishers, PutDone(p) \/ GiveUpPut(p) PROVE Same
    BY <2>1, <2>7 DEF PutDone, GiveUpPut, Unblocked, connVars
  <2>8. ASSUME UNCHANGED vars PROVE Same
    BY <2>1, <2>8 DEF vars, connVars
  <2> QED  BY <2>3, <2>4, <2>5, <2>6, <2>7, <2>8
<1>4. RequestInv'
  BY <1>1, <1>3, RequestFrame
<1> QED  BY <1>1, <1>4

LEMMA StepKeepsInv == RequestInv /\ [Next]_vars => RequestInv'
<1> SUFFICES ASSUME RequestInv, [Next]_vars PROVE RequestInv'
  OBVIOUS
<1>1. TypeOK'
  BY StepTypes DEF RequestInv
<1>2. ASSUME NEW c \in Conns, Client(c) \/ Handler(c) PROVE RequestInv'
  BY <1>1, <1>2, QuietKeepsInv, AcceptKeepsInv, ResumesKeepsInv, InterruptKeepsInv
     DEF Client, Handler
<1>3. CASE Executor
  BY <1>1, <1>3, ExecutorKeepsInv, InterruptKeepsInv DEF Executor
<1>4. ASSUME NEW r \in Requests, RunTask(r) PROVE RequestInv'
  BY <1>1, <1>4, RunTaskKeepsInv
<1>5. QED
  BY <1>1, <1>2, <1>3, <1>4, QuietKeepsInv DEF Next

LEMMA InitInv == Init => RequestInv
<1> SUFFICES ASSUME Init PROVE RequestInv
  OBVIOUS
<1>1. SingleFlight /\ RecordMatchesTask
  BY DEF Init, SingleFlight, Live, RecordMatchesTask
<1>2. DrainJobsMatchTasks /\ InterruptJobsMatchHandlers
  BY DEF Init, DrainJobsMatchTasks, InterruptJobsMatchHandlers
<1>3. LockHeldByAnnouncer
  BY SessionAssumption DEF Init, LockHeldByAnnouncer
<1>4. QED
  BY <1>1, <1>2, <1>3, InitTypes DEF RequestInv

\* The requests, their tasks, the executor's queue and the lock always agree.
THEOREM RequestsAreConsistent == Spec => []RequestInv
  BY InitInv, StepKeepsInv, PTL DEF Spec

\* No two request tasks of a session ever run, however connections come and
\* go, publishes block and handlers overlap.
THEOREM RequestsAreSingleFlight == Spec => []SingleFlight
<1>1. RequestInv => SingleFlight
  BY DEF RequestInv
<1>2. QED
  BY <1>1, RequestsAreConsistent, PTL

-----------------------------------------------------------------------------
(* What a step does to what clients are promised.                          *)

\* A step leaves the active request and the records alone, activates an
\* acceptable request, acknowledges an interrupt of the running request, or
\* ends the active one.
LEMMA StepEffect ==
  ASSUME RequestInv, [Next]_vars
  PROVE  \/ UNCHANGED <<active, completed>>
         \/ \E r \in Requests :
              Acceptable(r) /\ active' = r /\ UNCHANGED completed
         \/ \E r \in Requests :
              /\ active = r /\ run[r] = "draining" /\ UNCHANGED active
              /\ \A q \in Requests \ {r} : completed'[q] = completed[q]
         \/ \E r \in Requests :
              /\ active = r /\ Live(r) /\ active' = None
              /\ completed' = [completed EXCEPT ![r] = FinalState(r)]
<1> DEFINE Effect == \/ UNCHANGED <<active, completed>>
                     \/ \E r \in Requests :
                          Acceptable(r) /\ active' = r /\ UNCHANGED completed
                     \/ \E r \in Requests :
                          /\ active = r /\ run[r] = "draining" /\ UNCHANGED active
                          /\ \A q \in Requests \ {r} : completed'[q] = completed[q]
                     \/ \E r \in Requests :
                          /\ active = r /\ Live(r) /\ active' = None
                          /\ completed' = [completed EXCEPT ![r] = FinalState(r)]
<1>0. TypeOK'
  BY StepTypes DEF RequestInv
<1>1. ASSUME NEW c \in Conns, Client(c) \/ Handler(c) PROVE Effect
  <2>1. ASSUME NEW r \in Requests, AcceptRequest(c, r) \/ AcceptRequestBlocks(c, r)
                                  \/ AgentFactoryFails(c, r)
        PROVE  Effect
    BY <2>1 DEF AcceptRequest, AcceptRequestBlocks, AgentFactoryFails
  <2>2. CASE AcceptRequestResumes(c) \/ \E r \in Requests : Interrupt(c, r)
    BY <2>2 DEF AcceptRequestResumes, Interrupt
  <2>3. QED
    BY <1>0, <1>1, <2>1, <2>2, QuietKeepsInv DEF Client, Handler
<1>2. ASSUME NEW r \in Requests, RunTask(r) PROVE Effect
  <2>1. CASE SubmitDrain(r) \/ PublishFailure(r)
    BY <2>1 DEF SubmitDrain, PublishFailure
  <2>2. CASE FinishRequest(r)
    <3>1. Live(r) /\ active = r
      BY <2>2 DEF FinishRequest, RequestInv, SingleFlight, Live
    <3>2. QED
      BY <2>2, <3>1 DEF FinishRequest
  <2>3. QED
    BY <1>2, <2>1, <2>2 DEF RunTask
<1>3. CASE Executor
  <2>1. ASSUME NEW r \in Requests, NEW kind \in ResponseKinds, NEW ack \in BOOLEAN,
               Respond(r, kind, ack)
        PROVE  Effect
    <3>1. run[r] = "draining" /\ active = r
      BY <2>1, DrainingStage DEF Respond, RequestInv, SingleFlight, Live
    <3>2. completed \in [Requests -> Finals \cup {"none"}]
      BY DEF RequestInv, TypeOK, RequestTypeOK
    <3>3. QED
      BY <2>1, <3>1, <3>2 DEF Respond
  <2>2. ASSUME NEW r \in Requests, NEW outcome \in {"drained", "failed"},
               DrainEnds(r, outcome)
        PROVE  Effect
    BY <2>2 DEF DrainEnds
  <2>3. ASSUME NEW c \in Conns, AgentInterrupt(c) PROVE Effect
    BY <2>3 DEF AgentInterrupt, reqVars
  <2>4. QED
    BY <1>3, <2>1, <2>2, <2>3 DEF Executor
<1>4. QED
  BY <1>0, <1>1, <1>2, <1>3, QuietKeepsInv DEF Next

\* The final state of a request whose task has ended never changes.
THEOREM FinalStatesAreStable == Spec => FinalStateIsStable
<1>1. ASSUME RequestInv, [Next]_vars, NEW r \in Requests, run[r] = "ended"
      PROVE  completed'[r] = completed[r] /\ run'[r] = "ended"
  <2>1. completed[r] \in Finals /\ active # r
    BY <1>1 DEF RequestInv, RecordMatchesTask
  <2>2. completed \in [Requests -> Finals \cup {"none"}] /\ run \in [Requests -> RunStates]
    BY <1>1 DEF RequestInv, TypeOK, RequestTypeOK
  <2>3. completed'[r] = completed[r]
    BY <1>1, <2>1, <2>2, StepEffect
  <2>4. run'[r] = "ended"
    <3>1. ASSUME NEW c \in Conns, Client(c) \/ Handler(c) PROVE run'[r] = "ended"
      <4>1. ASSUME NEW q \in Requests, AcceptRequest(c, q) \/ AcceptRequestBlocks(c, q)
                                      \/ AgentFactoryFails(c, q) \/ Interrupt(c, q)
            PROVE  run'[r] = "ended"
        <5>1. Acceptable(q) => run[q] = "none"
          BY <1>1, AcceptableHasNoTask
        <5>2. QED
          BY <1>1, <2>2, <4>1, <5>1
             DEF AcceptRequest, AcceptRequestBlocks, AgentFactoryFails, Interrupt
      <4>2. CASE AcceptRequestResumes(c)
        BY <1>1, <2>1, <2>2, <4>2 DEF AcceptRequestResumes
      <4>3. QED
        BY <1>1, <3>1, <4>1, <4>2, QuietKeepsInv, StepTypes DEF Client, Handler, RequestInv
    <3>2. ASSUME NEW q \in Requests, RunTask(q) PROVE run'[r] = "ended"
      BY <1>1, <2>2, <3>2 DEF RunTask, SubmitDrain, PublishFailure, FinishRequest
    <3>3. CASE Executor
      <4>1. ASSUME NEW q \in Requests, Draining(q) PROVE run[q] = "draining"
        BY <1>1, <4>1, DrainingStage
      <4>2. QED
        BY <1>1, <2>2, <3>3, <4>1 DEF Executor, Respond, DrainEnds, AgentInterrupt, reqVars
    <3>4. QED
      BY <1>1, <3>1, <3>2, <3>3, QuietKeepsInv, StepTypes DEF Next, RequestInv
  <2>5. QED
    BY <2>3, <2>4
<1>2. RequestInv /\ [Next]_vars =>
        [\A r \in Requests : run[r] = "ended" =>
           completed'[r] = completed[r] /\ run'[r] = "ended"]_vars
  BY <1>1
<1>3. QED
  BY <1>2, RequestsAreConsistent, PTL DEF Spec, FinalStateIsStable

\* The session, with all its connections, queues, tasks and threads,
\* implements the service its clients are promised.
THEOREM SessionImplementsService == Spec => ImplementsRequestService
<1>1. Init => Service!Init
  BY SessionAssumption DEF Init, Service!Init, serviceState
<1>2. RequestInv /\ [Next]_vars => [Service!Next]_serviceState
  <2> SUFFICES ASSUME RequestInv, [Next]_vars
               PROVE  Service!Next \/ serviceState' = serviceState
    OBVIOUS
  <2>1. CASE UNCHANGED <<active, completed>>
    BY <2>1 DEF serviceState
  <2>2. ASSUME NEW r \in Requests, Acceptable(r), active' = r, UNCHANGED completed
        PROVE  Service!Next
    <3>1. serviceState[r] = "idle" /\ \A q \in Requests : serviceState[q] # "running"
      BY <2>2, SessionAssumption
         DEF Acceptable, serviceState, RequestInv, TypeOK, RequestTypeOK, Finals
    <3>2. serviceState' = [serviceState EXCEPT ![r] = "running"]
      BY <2>2, SessionAssumption DEF Acceptable, serviceState
    <3>3. QED
      BY <3>1, <3>2 DEF Service!Next, Service!Accept
  <2>3. ASSUME NEW r \in Requests, active = r, UNCHANGED active,
               \A q \in Requests \ {r} : completed'[q] = completed[q]
        PROVE  serviceState' = serviceState
    BY <2>3 DEF serviceState
  <2>4. ASSUME NEW r \in Requests, active = r, active' = None,
               completed' = [completed EXCEPT ![r] = FinalState(r)]
        PROVE  Service!Next
    <3>1. FinalState(r) \in Finals /\ FinalState(r) # "none"
      BY DEF FinalState, Finals
    <3>2. completed \in [Requests -> Finals \cup {"none"}]
      BY DEF RequestInv, TypeOK, RequestTypeOK
    <3>3. serviceState[r] = "running"
      BY <2>4 DEF serviceState
    <3>4. serviceState' = [serviceState EXCEPT ![r] = FinalState(r)]
      BY <2>4, <3>1, <3>2, SessionAssumption DEF serviceState
    <3>5. QED
      BY <3>1, <3>3, <3>4 DEF Service!Next, Service!End
  <2>5. QED
    BY <2>1, <2>2, <2>3, <2>4, StepEffect
<1>3. QED
  BY <1>1, <1>2, RequestsAreConsistent, PTL DEF Spec, ImplementsRequestService, Service!Spec

-----------------------------------------------------------------------------
(* Episodes.  A request has begun when its request.accepted is stored: its *)
(* task exists, or the handler that announces it holds the lock.           *)

Begun(r) == run[r] # "none" \/ (active = r /\ lock # None)

Underway(r) == Begun(r) /\ run[r] # "ended"

FramesOf(r) == {i \in 1..Len(log) : log[i].req = r}

\* The frames of a begun request are an interval of the history that opens with
\* request.accepted; it reaches the end of the history, or ends with the
\* request.completed of the request's record.
Episode(r, first, last) ==
  /\ FramesOf(r) = first..last
  /\ first <= last
  /\ \A i \in first..last :
       /\ (log[i].kind = "accepted") <=> (i = first)
       /\ log[i].kind = "completed" =>
            i = last /\ run[r] = "ended" /\ log[i].final = completed[r]
  /\ IF run[r] = "ended" THEN log[last].kind = "completed" ELSE last = Len(log)

\* The inductive invariant behind EpisodesDoNotInterleave and ActiveHasOwner.
EpisodeInv ==
  \A r \in Requests :
    IF Begun(r)
    THEN \E first, last \in 1..Len(log) : Episode(r, first, last)
    ELSE FramesOf(r) = {}

\* What a step can do to the history: nothing, open an episode when no other is
\* under way, continue the episode under way, or close it.
Keeps(r) ==
  /\ Begun(r)' <=> Begun(r)
  /\ run'[r] = "ended" <=> run[r] = "ended"
  /\ run[r] = "ended" => completed'[r] = completed[r]

Silent == UNCHANGED log /\ \A q \in Requests : Keeps(q)

Opens(r) ==
  /\ \A q \in Requests : ~Underway(q)
  /\ ~Begun(r)
  /\ log' = log \o <<Frame("accepted", r)>>
  /\ Begun(r)' /\ run'[r] # "ended"
  /\ \A q \in Requests \ {r} : Keeps(q)

Continues(r) ==
  /\ Underway(r)
  /\ Len(log') \in Nat /\ Len(log') > Len(log)
  /\ \A i \in 1..Len(log) : log'[i] = log[i]
  /\ \A i \in (Len(log) + 1)..Len(log') :
       log'[i].req = r /\ log'[i].kind \notin {"accepted", "completed"}
  /\ \A q \in Requests : Keeps(q)

Closes(r) ==
  /\ Underway(r)
  /\ log' = log \o <<[Frame("completed", r) EXCEPT !.final = completed'[r]]>>
  /\ run'[r] = "ended"
  /\ \A q \in Requests \ {r} : Keeps(q)

\* A request under way is the session's active one.
LEMMA UnderwayIsActive == ASSUME RequestInv, NEW r \in Requests, Underway(r) PROVE active = r
  BY DEF Underway, Begun, RequestInv, TypeOK, RequestTypeOK, RunStates, SingleFlight, Live

\* Steps that leave the requests and the history alone.
LEMMA SilentSteps ==
  ASSUME UNCHANGED <<log, active, completed, lock, run>> PROVE Silent
  BY DEF Silent, Keeps, Begun

\* A request is accepted: its episode opens.
LEMMA AcceptOpens ==
  ASSUME RequestInv, NEW c \in Conns, NEW r \in Requests,
         AcceptRequest(c, r) \/ AcceptRequestBlocks(c, r)
  PROVE  Opens(r)
<1>1. /\ active = None /\ lock = None /\ active' = r /\ completed' = completed
      /\ log' = log \o <<Frame("accepted", r)>>
      /\ \/ run' = [run EXCEPT ![r] = "created"] /\ lock' = lock
         \/ run' = run /\ lock' = c
  BY DEF AcceptRequest, AcceptRequestBlocks, Acceptable, PublishControl, Replay!Store
<1>2. run[r] = "none" /\ \A q \in Requests : ~Live(q)
  BY AcceptableHasNoTask DEF AcceptRequest, AcceptRequestBlocks
<1>3. r # None /\ c # None /\ run \in [Requests -> RunStates]
  BY SessionAssumption DEF RequestInv, TypeOK, RequestTypeOK
<1>4. \A q \in Requests : ~Underway(q) /\ (Begun(q) <=> run[q] # "none")
  BY <1>1, <1>2, <1>3 DEF Underway, Begun, Live, RunStates
<1>5. \A q \in Requests : Begun(q)' <=> (run'[q] # "none" \/ (q = r /\ lock' # None))
  BY <1>1 DEF Begun
<1>6. Begun(r)' /\ run'[r] # "ended"
  BY <1>1, <1>2, <1>3, <1>5
<1>7. \A q \in Requests \ {r} : Keeps(q)
  BY <1>1, <1>3, <1>4, <1>5 DEF Keeps
<1>8. QED
  BY <1>1, <1>2, <1>4, <1>6, <1>7 DEF Opens

\* The agent's responses continue the episode of the request that is draining.
LEMMA RespondContinues ==
  ASSUME RequestInv, NEW r \in Requests, NEW kind \in ResponseKinds, NEW ack \in BOOLEAN,
         Respond(r, kind, ack)
  PROVE  Continues(r)
<1>1. run[r] = "draining" /\ active = r
  BY DrainingStage DEF Respond, RequestInv, SingleFlight, Live
<1>2. /\ UNCHANGED <<active, lock, run>>
      /\ \A q \in Requests : q # r => completed'[q] = completed[q]
  BY DEF Respond, RequestInv, TypeOK, RequestTypeOK
<1>3. \A q \in Requests : Keeps(q)
  BY <1>1, <1>2 DEF Keeps, Begun
<1>4. log \in Seq(FrameType)
  BY DEF RequestInv, TypeOK, OutTypeOK
<1>5. PICK new :
        /\ log' = log \o new
        /\ new = <<Frame(kind, r)>> \/ new = <<Frame(kind, r), Notice(dropped + 1)>>
  BY DEF Respond, PublishRuntime, Replay!Store
<1>6. /\ new \in Seq(FrameType) /\ Len(new) >= 1
      /\ \A k \in 1..Len(new) : /\ new[k].req = r
                                /\ new[k].kind \notin {"accepted", "completed"}
  <2>1. Frame(kind, r) \in FrameType
    BY SessionAssumption, ControlFrameType
  <2>2. Notice(dropped + 1) \in FrameType
    BY NoticeType DEF RequestInv, TypeOK, OutTypeOK
  <2>3. Frame(kind, r).req = r /\ Frame(kind, r).kind \in {"delta", "event", "error"}
    BY SessionAssumption DEF Frame
  <2>4. Notice(dropped + 1).req = r /\ Notice(dropped + 1).kind = "notice"
    BY <1>1 DEF Notice, Frame
  <2>5. CASE new = <<Frame(kind, r)>>
    BY <2>1, <2>3, <2>5
  <2>6. CASE new = <<Frame(kind, r), Notice(dropped + 1)>>
    BY <2>1, <2>2, <2>3, <2>4, <2>6
  <2>7. QED
    BY <1>5, <2>5, <2>6
<1>7. /\ Len(log') = Len(log) + Len(new)
      /\ \A i \in 1..Len(log) : log'[i] = log[i]
      /\ \A i \in (Len(log) + 1)..Len(log') : log'[i] = new[i - Len(log)]
  BY <1>4, <1>5, <1>6
<1>8. \A i \in (Len(log) + 1)..Len(log') : i - Len(log) \in 1..Len(new)
  BY <1>4, <1>6, <1>7
<1>9. Len(log') \in Nat /\ Len(log') > Len(log)
  BY <1>4, <1>6, <1>7
<1>10. Underway(r)
  BY <1>1 DEF Underway, Begun
<1>11. QED
  BY <1>3, <1>6, <1>7, <1>8, <1>9, <1>10 DEF Continues

\* A run task hands over its drain, continues its episode with an error frame, or
\* closes it.
LEMMA RunTaskEpisode ==
  ASSUME RequestInv, NEW r \in Requests, RunTask(r)
  PROVE  Silent \/ Continues(r) \/ Closes(r)
<1>1. Live(r) /\ active = r /\ run[r] # "none" /\ run[r] # "ended"
  BY DEF RunTask, SubmitDrain, PublishFailure, FinishRequest, RequestInv, SingleFlight, Live
<1>2. /\ run \in [Requests -> RunStates] /\ completed \in [Requests -> Finals \cup {"none"}]
      /\ log \in Seq(FrameType)
  BY DEF RequestInv, TypeOK, RequestTypeOK, OutTypeOK
<1>3. Underway(r)
  BY <1>1 DEF Underway, Begun
<1>4. CASE SubmitDrain(r)
  <2>1. /\ UNCHANGED <<log, active, completed, lock>>
        /\ run' = [run EXCEPT ![r] = "draining"]
    BY <1>4 DEF SubmitDrain, outVars
  <2>2. \A q \in Requests : Keeps(q)
    BY <1>1, <1>2, <2>1 DEF Keeps, Begun
  <2>3. QED
    BY <2>1, <2>2 DEF Silent
<1>5. CASE PublishFailure(r)
  <2>1. /\ UNCHANGED <<active, completed, lock>>
        /\ run' = [run EXCEPT ![r] = "reported"]
        /\ log' = log \o <<Frame("error", r)>>
    BY <1>5 DEF PublishFailure, PublishControl, Replay!Store
  <2>2. \A q \in Requests : Keeps(q)
    BY <1>1, <1>2, <2>1 DEF Keeps, Begun
  <2>3. Frame("error", r).req = r /\ Frame("error", r).kind = "error"
    BY DEF Frame
  <2>4. /\ Len(log') = Len(log) + 1
        /\ \A i \in 1..Len(log) : log'[i] = log[i]
        /\ log'[Len(log) + 1] = Frame("error", r)
    BY <1>2, <2>1
  <2>5. QED
    BY <1>2, <1>3, <2>2, <2>3, <2>4 DEF Continues
<1>6. CASE FinishRequest(r)
  <2>1. /\ UNCHANGED lock /\ active' = None
        /\ completed' = [completed EXCEPT ![r] = FinalState(r)]
        /\ run' = [run EXCEPT ![r] = "ended"]
        /\ log' = log \o <<[Frame("completed", r) EXCEPT !.final = FinalState(r)]>>
    BY <1>1, <1>6 DEF FinishRequest, PublishControl, Replay!Store
  <2>2. \A q \in Requests \ {r} : Keeps(q)
    BY <1>1, <1>2, <2>1, SessionAssumption DEF Keeps, Begun
  <2>3. completed'[r] = FinalState(r) /\ run'[r] = "ended"
    BY <1>2, <2>1
  <2>4. QED
    BY <1>3, <2>1, <2>2, <2>3 DEF Closes
<1>7. QED
  BY <1>4, <1>5, <1>6 DEF RunTask

\* Every step is one of the four.
LEMMA EpisodeEffect ==
  ASSUME RequestInv, [Next]_vars
  PROVE  Silent \/ \E r \in Requests : Opens(r) \/ Continues(r) \/ Closes(r)
<1> DEFINE Effect == Silent \/ \E r \in Requests : Opens(r) \/ Continues(r) \/ Closes(r)
<1>1. TypeOK'
  BY StepTypes DEF RequestInv
<1>2. CASE \/ UNCHANGED vars
           \/ \E c \in Conns :
                \/ Connect(c) \/ ConnectionLost(c) \/ HandlerExit(c) \/ BindReleasesOwn(c)
                \/ (\E resume \in Resumes : Bind(c, resume))
                \/ InstallWriter(c) \/ BindSendFails(c)
                \/ (\E r \in Requests : InterruptFactoryFails(c, r))
           \/ \E g \in Bindings : WriterTakes(g) \/ WriterSent(g)
           \/ \E p \in Publishers : PutDone(p) \/ GiveUpPut(p)
  <2>1. UNCHANGED <<active, completed, lock, run>>
    BY <1>1, <1>2, QuietKeepsInv
  <2>2. UNCHANGED log
    BY <1>2 DEF vars, outVars, Connect, ConnectionLost, HandlerExit, BindReleasesOwn, Bind,
                InstallWriter, BindSendFails, InterruptFactoryFails, WriterTakes,
                WriterSent, PutDone, GiveUpPut, Unblocked
  <2>3. QED
    BY <2>1, <2>2, SilentSteps
<1>3. ASSUME NEW c \in Conns, NEW r \in Requests, AgentFactoryFails(c, r) PROVE Silent
  <2>1. /\ active = None /\ active' = r /\ lock = None
        /\ UNCHANGED <<log, completed, lock, run>>
    BY <1>3 DEF AgentFactoryFails, Acceptable, outVars
  <2>2. QED
    BY <2>1 DEF Silent, Keeps, Begun
<1>4. ASSUME NEW c \in Conns, AcceptRequestResumes(c) PROVE Silent
  <2>1. /\ lock = c /\ active \in Requests /\ run[active] = "none" /\ c # None
        /\ run \in [Requests -> RunStates]
    BY <1>4, SessionAssumption
       DEF AcceptRequestResumes, RequestInv, LockHeldByAnnouncer, TypeOK, RequestTypeOK
  <2>2. /\ run' = [run EXCEPT ![active] = "created"] /\ lock' = None
        /\ UNCHANGED <<log, active, completed>>
    BY <1>4 DEF AcceptRequestResumes, outVars
  <2>3. QED
    BY <2>1, <2>2 DEF Silent, Keeps, Begun
<1>5. ASSUME NEW c \in Conns, (\E r \in Requests : Interrupt(c, r)) \/ AgentInterrupt(c)
      PROVE  Silent
  BY <1>5, SilentSteps DEF Interrupt, AgentInterrupt, outVars, reqVars
<1>6. ASSUME NEW r \in Requests, NEW outcome \in {"drained", "failed"}, DrainEnds(r, outcome)
      PROVE  Silent
  <2>1. run[r] = "draining" /\ run \in [Requests -> RunStates]
    BY <1>6, DrainingStage DEF DrainEnds, RequestInv, TypeOK, RequestTypeOK
  <2>2. /\ run' = [run EXCEPT ![r] = outcome]
        /\ UNCHANGED <<log, active, completed, lock>>
    BY <1>6 DEF DrainEnds, outVars
  <2>3. QED
    BY <2>1, <2>2 DEF Silent, Keeps, Begun
<1>7. ASSUME NEW c \in Conns, Client(c) \/ Handler(c) PROVE Effect
  BY <1>2, <1>3, <1>4, <1>5, <1>7, AcceptOpens DEF Client, Handler
<1>8. CASE Executor
  BY <1>5, <1>6, <1>8, RespondContinues DEF Executor
<1>9. QED
  BY <1>2, <1>7, <1>8, RunTaskEpisode DEF Next

-----------------------------------------------------------------------------

\* An episode that the step neither continues nor closes stays what it is.
LEMMA EpisodeKept ==
  ASSUME log \in Seq(FrameType), log' \in Seq(FrameType), Len(log') >= Len(log),
         \A i \in 1..Len(log) : log'[i] = log[i],
         NEW r \in Requests, Keeps(r), Begun(r),
         \A i \in (Len(log) + 1)..Len(log') : log'[i].req # r,
         Underway(r) => Len(log') = Len(log),
         \E first, last \in 1..Len(log) : Episode(r, first, last)
  PROVE  \E first, last \in 1..Len(log') : Episode(r, first, last)'
<1>1. PICK first \in 1..Len(log), last \in 1..Len(log) : Episode(r, first, last)
  OBVIOUS
<1>2. Len(log) \in Nat /\ Len(log') \in Nat
  OBVIOUS
<1>3. first \in 1..Len(log') /\ last \in 1..Len(log')
  BY <1>2
<1>4. FramesOf(r)' = FramesOf(r)
  BY <1>2 DEF FramesOf
<1>5. \A i \in first..last : i \in 1..Len(log)
  BY <1>2
<1>6. \A i \in first..last : log'[i] = log[i]
  BY <1>5
<1>7. last \in first..last
  BY <1>1, <1>2 DEF Episode
<1>8. Episode(r, first, last)'
  BY <1>1, <1>4, <1>6, <1>7 DEF Episode, Keeps, Underway
<1>9. QED
  BY <1>3, <1>8

\* A request that has no frames gets none from another's step.
LEMMA NoFramesKept ==
  ASSUME log \in Seq(FrameType), log' \in Seq(FrameType),
         \A i \in 1..Len(log) : log'[i] = log[i],
         NEW r \in Requests, FramesOf(r) = {},
         \A i \in (Len(log) + 1)..Len(log') : log'[i].req # r
  PROVE  FramesOf(r)' = {}
<1>1. Len(log) \in Nat /\ Len(log') \in Nat
  OBVIOUS
<1>2. \A i \in 1..Len(log') : i \in 1..Len(log) \/ i \in (Len(log) + 1)..Len(log')
  BY <1>1
<1>3. QED
  BY <1>2 DEF FramesOf

\* The requests a step is not about keep their episodes.
LEMMA OthersKept ==
  ASSUME EpisodeInv, log \in Seq(FrameType), log' \in Seq(FrameType), Len(log') >= Len(log),
         \A i \in 1..Len(log) : log'[i] = log[i],
         NEW r \in Requests, Keeps(r),
         \A i \in (Len(log) + 1)..Len(log') : log'[i].req # r,
         Underway(r) => Len(log') = Len(log)
  PROVE  IF Begun(r)'
         THEN \E first, last \in 1..Len(log') : Episode(r, first, last)'
         ELSE FramesOf(r)' = {}
<1>1. Begun(r)' <=> Begun(r)
  BY DEF Keeps
<1>2. CASE Begun(r)
  BY <1>1, <1>2, EpisodeKept DEF EpisodeInv
<1>3. CASE ~Begun(r)
  BY <1>1, <1>3, NoFramesKept DEF EpisodeInv
<1>4. QED
  BY <1>2, <1>3

\* A new episode is the last index of the history.
LEMMA OpensKeeps ==
  ASSUME EpisodeInv, log \in Seq(FrameType), log' \in Seq(FrameType),
         NEW r \in Requests, Opens(r)
  PROVE  EpisodeInv'
<1>0. PICK n \in Nat : n = Len(log) + 1
  OBVIOUS
<1>1. /\ Len(log) \in Nat /\ n \in Nat /\ Len(log') = n
      /\ \A i \in 1..Len(log) : log'[i] = log[i]
      /\ log'[n] = Frame("accepted", r)
  BY <1>0 DEF Opens
<1>2. (Len(log) + 1)..Len(log') = {n} /\ n \in 1..Len(log')
  BY <1>0, <1>1
<1>3. log'[n].req = r /\ log'[n].kind = "accepted"
  BY <1>1 DEF Frame
<1>4. FramesOf(r) = {}
  BY DEF Opens, EpisodeInv
<1>5. FramesOf(r)' = n..n
  <2>1. \A i \in 1..Len(log') : i \in 1..Len(log) \/ i = n
    BY <1>0, <1>1
  <2>2. \A i \in 1..Len(log) : log'[i].req # r
    BY <1>1, <1>4 DEF FramesOf
  <2>3. n..n = {n}
    BY <1>1
  <2>4. QED
    BY <1>2, <1>3, <2>1, <2>2, <2>3 DEF FramesOf
<1>6. Episode(r, n, n)'
  <2>1. n..n = {n} /\ n <= n
    BY <1>1
  <2>2. QED
    BY <1>1, <1>3, <1>5, <2>1 DEF Episode, Opens
<1>7. ASSUME NEW q \in Requests \ {r}
      PROVE  IF Begun(q)'
             THEN \E first, last \in 1..Len(log') : Episode(q, first, last)'
             ELSE FramesOf(q)' = {}
  <2>1. Keeps(q) /\ ~Underway(q) /\ Len(log') >= Len(log)
    BY <1>0, <1>1 DEF Opens
  <2>2. \A i \in (Len(log) + 1)..Len(log') : log'[i].req # q
    BY <1>2, <1>3
  <2>3. QED
    BY <1>1, <2>1, <2>2, OthersKept
<1>8. QED
  BY <1>2, <1>6, <1>7 DEF EpisodeInv, Opens

\* The step adds frames of r at the end of an episode that reached the end.
LEMMA EpisodeGrows ==
  ASSUME EpisodeInv, log \in Seq(FrameType), log' \in Seq(FrameType), Len(log') > Len(log),
         \A i \in 1..Len(log) : log'[i] = log[i],
         NEW r \in Requests, Underway(r),
         \A i \in (Len(log) + 1)..Len(log') :
           log'[i].req = r /\ log'[i].kind # "accepted"
  PROVE  \E first \in 1..Len(log) :
           /\ FramesOf(r)' = first..Len(log')
           /\ \A i \in first..Len(log') : (log'[i].kind = "accepted") <=> (i = first)
           /\ \A i \in first..Len(log) : log'[i].kind # "completed"
<1>1. PICK first \in 1..Len(log), last \in 1..Len(log) : Episode(r, first, last)
  BY DEF Underway, EpisodeInv
<1>2. /\ last = Len(log) /\ Len(log) \in Nat /\ Len(log') \in Nat
      /\ FramesOf(r) = first..Len(log)
      /\ \A i \in first..Len(log) : /\ (log[i].kind = "accepted") <=> (i = first)
                                    /\ log[i].kind # "completed"
  BY <1>1 DEF Episode, Underway
<1>3. \A i \in 1..Len(log') : i \in 1..Len(log) \/ i \in (Len(log) + 1)..Len(log')
  BY <1>2
<1>4. FramesOf(r)' = first..Len(log')
  <2>1. ASSUME NEW i \in 1..Len(log'), log'[i].req = r PROVE i \in first..Len(log')
    <3>1. CASE i \in 1..Len(log)
      <4>1. i \in FramesOf(r)
        BY <2>1, <3>1 DEF FramesOf
      <4>2. QED
        BY <1>2, <4>1
    <3>2. CASE i \in (Len(log) + 1)..Len(log')
      BY <1>2, <3>2
    <3>3. QED
      BY <1>3, <3>1, <3>2
  <2>2. ASSUME NEW i \in first..Len(log') PROVE i \in 1..Len(log') /\ log'[i].req = r
    <3>1. CASE i <= Len(log)
      <4>1. i \in FramesOf(r)
        BY <1>2, <3>1
      <4>2. QED
        BY <1>2, <3>1, <4>1 DEF FramesOf
    <3>2. CASE ~(i <= Len(log))
      <4>1. i \in (Len(log) + 1)..Len(log')
        BY <1>2, <3>2
      <4>2. QED
        BY <1>2, <4>1
    <3>3. QED
      BY <3>1, <3>2
  <2>3. QED
    BY <2>1, <2>2 DEF FramesOf
<1>5. ASSUME NEW i \in first..Len(log') PROVE (log'[i].kind = "accepted") <=> (i = first)
  <2>1. CASE i <= Len(log)
    <3>1. i \in first..Len(log) /\ i \in 1..Len(log)
      BY <1>2, <2>1
    <3>2. QED
      BY <1>2, <3>1
  <2>2. CASE ~(i <= Len(log))
    <3>1. i \in (Len(log) + 1)..Len(log') /\ i # first
      BY <1>2, <2>2
    <3>2. QED
      BY <3>1
  <2>3. QED
    BY <2>1, <2>2
<1>6. \A i \in first..Len(log) : log'[i].kind # "completed"
  <2>1. \A i \in first..Len(log) : i \in 1..Len(log)
    BY <1>2
  <2>2. QED
    BY <1>2, <2>1
<1>7. QED
  BY <1>4, <1>5, <1>6

\* The requests other than the one that speaks are not under way.
LEMMA SpeakerIsAlone ==
  ASSUME RequestInv, NEW r \in Requests, Underway(r)
  PROVE  \A q \in Requests \ {r} : ~Underway(q)
  BY UnderwayIsActive

\* Frames of the request under way prolong its episode.
LEMMA ContinuesKeeps ==
  ASSUME RequestInv, EpisodeInv, log \in Seq(FrameType), log' \in Seq(FrameType),
         NEW r \in Requests, Continues(r)
  PROVE  EpisodeInv'
<1>1. Len(log) \in Nat /\ Len(log') \in Nat /\ Len(log') > Len(log)
  BY DEF Continues
<1>2. PICK first \in 1..Len(log) :
        /\ FramesOf(r)' = first..Len(log')
        /\ \A i \in first..Len(log') : (log'[i].kind = "accepted") <=> (i = first)
        /\ \A i \in first..Len(log) : log'[i].kind # "completed"
  BY EpisodeGrows DEF Continues
<1>3. \A i \in first..Len(log') : log'[i].kind # "completed"
  <2>1. \A i \in first..Len(log') : i \in first..Len(log) \/ i \in (Len(log) + 1)..Len(log')
    BY <1>1
  <2>2. QED
    BY <1>2, <2>1 DEF Continues
<1>4. run'[r] # "ended" /\ Begun(r)'
  BY DEF Continues, Keeps, Underway
<1>5. \E last \in 1..Len(log') : Episode(r, first, last)' /\ first \in 1..Len(log')
  <2>1. PICK last \in 1..Len(log') : last = Len(log')
    BY <1>1
  <2>2. first <= last /\ first \in 1..Len(log')
    BY <1>1, <2>1
  <2>3. QED
    BY <1>2, <1>3, <1>4, <2>1, <2>2 DEF Episode
<1>6. ASSUME NEW q \in Requests \ {r}
      PROVE  IF Begun(q)'
             THEN \E one, last \in 1..Len(log') : Episode(q, one, last)'
             ELSE FramesOf(q)' = {}
  <2>1. Keeps(q) /\ ~Underway(q) /\ Len(log') >= Len(log)
    BY <1>1, SpeakerIsAlone DEF Continues
  <2>2. QED
    BY <2>1, OthersKept DEF Continues
<1>7. QED
  BY <1>4, <1>5, <1>6 DEF EpisodeInv

\* request.completed ends the episode under way.
LEMMA ClosesKeeps ==
  ASSUME RequestInv, EpisodeInv, log \in Seq(FrameType), log' \in Seq(FrameType),
         NEW r \in Requests, Closes(r)
  PROVE  EpisodeInv'
<1>0. PICK n \in Nat : n = Len(log) + 1
  OBVIOUS
<1>1. /\ Len(log) \in Nat /\ n \in Nat /\ Len(log') = n /\ Len(log') > Len(log)
      /\ \A i \in 1..Len(log) : log'[i] = log[i]
      /\ log'[n] = [Frame("completed", r) EXCEPT !.final = completed'[r]]
  BY <1>0 DEF Closes
<1>2. log'[n].req = r /\ log'[n].kind = "completed" /\ log'[n].final = completed'[r]
  BY <1>1 DEF Frame
<1>3. \A i \in (Len(log) + 1)..Len(log') : i = n
  BY <1>0, <1>1
<1>4. PICK first \in 1..Len(log) :
        /\ FramesOf(r)' = first..n
        /\ \A i \in first..n : (log'[i].kind = "accepted") <=> (i = first)
        /\ \A i \in first..Len(log) : log'[i].kind # "completed"
  <2>1. \A i \in (Len(log) + 1)..Len(log') : log'[i].req = r /\ log'[i].kind # "accepted"
    BY <1>2, <1>3
  <2>2. Underway(r) /\ Len(log') = n /\ Len(log') > Len(log)
        /\ \A i \in 1..Len(log) : log'[i] = log[i]
    BY <1>1 DEF Closes
  <2>3. QED
    BY <2>1, <2>2, EpisodeGrows
<1>5. \A i \in first..n : log'[i].kind = "completed" => i = n
  <2>1. \A i \in first..n : i \in first..Len(log) \/ i = n
    BY <1>0, <1>1
  <2>2. QED
    BY <1>4, <2>1
<1>6. run'[r] = "ended" /\ Begun(r)'
  BY DEF Closes, Begun
<1>7. Episode(r, first, n)' /\ first \in 1..Len(log') /\ n \in 1..Len(log')
  <2>1. first <= n /\ first \in 1..Len(log') /\ n \in 1..Len(log')
    BY <1>0, <1>1
  <2>2. QED
    BY <1>2, <1>4, <1>5, <1>6, <2>1 DEF Episode
<1>8. ASSUME NEW q \in Requests \ {r}
      PROVE  IF Begun(q)'
             THEN \E one, last \in 1..Len(log') : Episode(q, one, last)'
             ELSE FramesOf(q)' = {}
  <2>1. Keeps(q) /\ ~Underway(q) /\ Len(log') >= Len(log)
    BY <1>1, SpeakerIsAlone DEF Closes
  <2>2. \A i \in (Len(log) + 1)..Len(log') : log'[i].req # q
    BY <1>2, <1>3
  <2>3. QED
    BY <1>1, <2>1, <2>2, OthersKept
<1>9. QED
  BY <1>6, <1>7, <1>8 DEF EpisodeInv

\* EpisodeInv is inductive, given RequestInv.
LEMMA StepKeepsEpisodes == RequestInv /\ EpisodeInv /\ [Next]_vars => EpisodeInv'
<1> SUFFICES ASSUME RequestInv, EpisodeInv, [Next]_vars PROVE EpisodeInv'
  OBVIOUS
<1>1. log \in Seq(FrameType) /\ log' \in Seq(FrameType)
  BY StepTypes DEF RequestInv, TypeOK, OutTypeOK
<1>2. CASE Silent
  <2>1. \A q \in Requests : Keeps(q) /\ log' = log
    BY <1>2 DEF Silent
  <2>2. \A i \in (Len(log) + 1)..Len(log') : FALSE
    BY <1>1, <1>2 DEF Silent
  <2>3. Len(log') >= Len(log) /\ Len(log') = Len(log)
    BY <1>1, <1>2 DEF Silent
  <2>4. ASSUME NEW q \in Requests
        PROVE  IF Begun(q)'
               THEN \E first, last \in 1..Len(log') : Episode(q, first, last)'
               ELSE FramesOf(q)' = {}
    BY <1>1, <2>1, <2>2, <2>3, OthersKept
  <2>5. QED
    BY <2>4 DEF EpisodeInv
<1>3. QED
  BY <1>1, <1>2, EpisodeEffect, OpensKeeps, ContinuesKeeps, ClosesKeeps

\* EpisodeInv holds in every reachable state.
LEMMA EpisodesHold == Spec => []EpisodeInv
<1>1. Init => EpisodeInv
  <2> SUFFICES ASSUME Init PROVE EpisodeInv
    OBVIOUS
  <2>1. \A r \in Requests : ~Begun(r)
    BY DEF Init, Begun
  <2>2. \A r \in Requests : FramesOf(r) = {}
    BY DEF Init, Replay!Init, FramesOf
  <2>3. QED
    BY <2>1, <2>2 DEF EpisodeInv
<1>2. QED
  BY <1>1, StepKeepsEpisodes, RequestsAreConsistent, PTL DEF Spec

\* The session's event history is a sequence of whole episodes: handlers, run
\* tasks and the executor thread never interleave the frames of two requests,
\* and nothing follows the request.completed that announces the recorded state.
THEOREM EpisodesAreWhole == Spec => []EpisodesDoNotInterleave
<1>1. EpisodeInv => EpisodesDoNotInterleave
  <2> SUFFICES ASSUME EpisodeInv, NEW r \in Requests, FramesOf(r) # {}
               PROVE  \E first, last \in FramesOf(r) :
                        /\ \A i \in first..last : log[i].req = r
                        /\ \A i \in FramesOf(r) :
                             /\ first <= i /\ i <= last
                             /\ (log[i].kind = "accepted") <=> (i = first)
                             /\ log[i].kind = "completed" =>
                                  i = last /\ log[i].final = completed[r]
                        /\ run[r] = "ended" => log[last].kind = "completed"
    BY DEF EpisodesDoNotInterleave, FramesOf
  <2>1. PICK first \in 1..Len(log), last \in 1..Len(log) : Episode(r, first, last)
    BY DEF EpisodeInv
  <2>2. FramesOf(r) = first..last /\ first <= last
    BY <2>1 DEF Episode
  <2>3. first \in FramesOf(r) /\ last \in FramesOf(r)
    BY <2>2
  <2>4. \A i \in first..last : log[i].req = r
    BY <2>2 DEF FramesOf
  <2>5. \A i \in FramesOf(r) : first <= i /\ i <= last
    BY <2>2
  <2>6. QED
    BY <2>1, <2>2, <2>3, <2>4, <2>5 DEF Episode
<1>2. QED
  BY <1>1, EpisodesHold, PTL

\* The active request always has somebody who will free the session, unless it is
\* one that the failing agent factory left behind and nobody was told of.
THEOREM ActiveAlwaysHasOwner == Spec => []ActiveHasOwner
<1>1. RequestInv /\ EpisodeInv => ActiveHasOwner
  <2> SUFFICES ASSUME RequestInv, EpisodeInv, NEW r \in Requests, active = r, ~Live(r),
                      ~\E c \in Conns : lock = c /\ pc[c] = "publishing"
               PROVE  run[r] = "none" /\ \A i \in 1..Len(log) : log[i].req # r
    BY DEF ActiveHasOwner
  <2>1. run[r] = "none"
    BY DEF RequestInv, RecordMatchesTask, TypeOK, RequestTypeOK, RunStates, Live
  <2>2. lock = None
    BY DEF RequestInv, TypeOK, RequestTypeOK, LockHeldByAnnouncer
  <2>3. FramesOf(r) = {}
    BY <2>1, <2>2 DEF EpisodeInv, Begun
  <2>4. QED
    BY <2>1, <2>3 DEF FramesOf
<1>2. QED
  BY <1>1, EpisodesHold, RequestsAreConsistent, PTL

-----------------------------------------------------------------------------
(* Delivery.  An event that is stored waits with its publisher, is queued, *)
(* is sent to a binding, or is only in the replay buffer.                  *)

InQueue == {queue[k] : k \in 1..Len(queue)}

InWait(p) == {wait[p].todo[k] : k \in 1..Len(wait[p].todo)}

SentTo(g) == {delivered[g][k] : k \in 1..Len(delivered[g])}

\* Only stored events are under way.
PlacesInv ==
  /\ InQueue \subseteq 1..Len(log)
  /\ \A p \in Publishers : InWait(p) \subseteq 1..Len(log)
  /\ \A g \in Bindings : SentTo(g) \subseteq 1..Len(log)
  /\ Replay!RetainedIndices \subseteq 1..Len(log)

\* Two events of a history may be delivered in this order; an event is never before
\* itself.
Before(all, a, b) ==
  all[a].req = all[b].req => a < b \/ (all[a].kind = "notice" /\ a = b + 1)

Ordered(all, events) ==
  \A j, k \in 1..Len(events) : j < k => Before(all, events[j], events[k])

AllBefore(all, A, B) == \A a \in A, b \in B : Before(all, a, b)

\* The events on their way to a websocket are in order: what was sent, then what
\* is queued, then what waits for room.
OrderInv ==
  /\ Ordered(log, queue)
  /\ \A p \in Publishers :
       Ordered(log, wait[p].todo) /\ AllBefore(log, InQueue, InWait(p))
  /\ \A g \in Bindings :
       /\ Ordered(log, delivered[g])
       /\ AllBefore(log, SentTo(g), InQueue)
       /\ \A p \in Publishers : AllBefore(log, SentTo(g), InWait(p))

\* The one publisher who may wait with events of request r.
Entitled(p, r) ==
  \/ p \in Conns /\ lock = p /\ active = r
  \/ p = Worker /\ r \in Requests /\ run[r] = "draining"
  \/ p \in Requests /\ r = p /\ run[p] \in {"reported", "ended"}

\* Whoever waits with an event is the only one who could publish for its request.
WaitersInv == \A p \in Publishers : \A i \in InWait(p) : Entitled(p, log[i].req)

\* live_from_event_index separates the replay from live delivery.
ReplayInv ==
  \A g \in Bindings :
    /\ \A i \in binding[g].replay : i < binding[g].liveFrom
    /\ \A i \in SentTo(g) : binding[g].liveFrom <= i
    /\ g > generation => delivered[g] = <<>>

\* The inductive invariant behind NoDuplicateDelivery and RequestEventsInOrder.
DeliveryInv == PlacesInv /\ OrderInv /\ WaitersInv /\ ReplayInv

\* A writer task that still takes frames.
Lively(g) == writer[g] \in {"idle", "sending"}

\* When binds do not overlap, the only lively writer is the installed one, that of
\* the current binding, and none is lively while a handler replays.
WriterInv ==
  /\ \A g \in Bindings :
       /\ Lively(g) => writerTask = g /\ generation = g
       /\ binding[g].conn # None => g <= generation
       /\ Lively(g) => /\ binding[g].liveFrom <= binding[g].installedAt
                       /\ 1 <= binding[g].installedAt
  /\ \A c \in Conns : pc[c] = "sending" =>
       /\ generation \in Bindings /\ binding[generation].conn = c
       /\ binding[generation].liveFrom <= Len(log) + 1
       /\ \A g \in Bindings : ~Lively(g)
       /\ \A d \in Conns : pc[d] = "sending" => d = c

\* An event that is not lost to the websocket of binding g.
Kept(g, i) ==
  \/ Droppable(log[i].kind)
  \/ i \in InQueue \cup SentTo(g)
  \/ \E p \in Publishers : i \in InWait(p)

\* Nothing due to a lively writer is lost, and what waits for another writer is not
\* due to it.
NoLossInv ==
  \A g \in Bindings : Lively(g) =>
    /\ \A i \in binding[g].installedAt..Len(log) : Kept(g, i)
    /\ \A p \in Publishers : wait[p].on # g => \A i \in InWait(p) : i < binding[g].installedAt

-----------------------------------------------------------------------------
(* Publishing.                                                             *)

\* The ring keeps a part of what it is given.
LEMMA RetainedElements ==
  ASSUME NEW all \in Seq(Nat)
  PROVE  \A k \in 1..Len(Replay!Retained(all)) :
           \E j \in 1..Len(all) : Replay!Retained(all)[k] = all[j]
<1>1. CASE Len(all) > Replay!Limit
  <2>1. Replay!Retained(all) = SubSeq(all, Len(all) - Replay!Limit + 1, Len(all))
    BY <1>1 DEF Replay!Retained
  <2>2. Len(all) - Replay!Limit + 1 \in 1..Len(all)
    BY <1>1, LimitIsPositive
  <2>3. /\ Len(Replay!Retained(all)) = Replay!Limit
        /\ \A k \in 1..Replay!Limit :
             Replay!Retained(all)[k] = all[Len(all) - Replay!Limit + k]
    BY <2>1, <2>2, LimitIsPositive
  <2>4. \A k \in 1..Replay!Limit : Len(all) - Replay!Limit + k \in 1..Len(all)
    BY <1>1, LimitIsPositive
  <2>5. QED
    BY <2>3, <2>4
<1>2. CASE ~(Len(all) > Replay!Limit)
  BY <1>2, LimitIsPositive DEF Replay!Retained
<1>3. QED
  BY <1>1, <1>2

\* Storing frames extends the history; the ring holds indices of the history.
LEMMA StoreFacts ==
  ASSUME TypeOK, Replay!RetainedIndices \subseteq 1..Len(log),
         NEW new \in Seq(FrameType), Replay!Store(new)
  PROVE  /\ Len(log) \in Nat /\ Len(new) \in Nat /\ Len(log') = Len(log) + Len(new)
         /\ \A i \in 1..Len(log) : log'[i] = log[i]
         /\ \A k \in 1..Len(new) : log'[Len(log) + k] = new[k]
         /\ (Replay!RetainedIndices)' \subseteq 1..Len(log')
<1> DEFINE marks == [k \in 1..Len(new) |-> Len(log) + k]
           all == frames \o marks
<1>1. /\ log \in Seq(FrameType) /\ frames \in Seq(Nat)
      /\ log' = log \o new /\ frames' = Replay!Retained(all)
  BY DEF TypeOK, OutTypeOK, Replay!Store
<1>2. /\ Len(log) \in Nat /\ Len(new) \in Nat /\ Len(log') = Len(log) + Len(new)
      /\ \A i \in 1..Len(log) : log'[i] = log[i]
      /\ \A k \in 1..Len(new) : log'[Len(log) + k] = new[k]
  BY <1>1
<1>3. marks \in Seq(Nat) /\ Len(marks) = Len(new)
  BY <1>2
<1>4. /\ all \in Seq(Nat) /\ Len(all) = Len(frames) + Len(new)
      /\ \A j \in 1..Len(frames) : all[j] = frames[j]
      /\ \A k \in 1..Len(new) : all[Len(frames) + k] = Len(log) + k
  BY <1>1, <1>2, <1>3
<1> HIDE DEF marks, all
<1>5. ASSUME NEW j \in 1..Len(all) PROVE all[j] \in 1..Len(log')
  <2>1. CASE j \in 1..Len(frames)
    <3>1. frames[j] \in 1..Len(log)
      BY <2>1 DEF Replay!RetainedIndices
    <3>2. QED
      BY <1>2, <1>4, <2>1, <3>1
  <2>2. CASE j \notin 1..Len(frames)
    <3>1. j - Len(frames) \in 1..Len(new) /\ j = Len(frames) + (j - Len(frames))
      BY <1>1, <1>2, <1>4, <2>2
    <3>2. all[j] = Len(log) + (j - Len(frames))
      BY <1>4, <3>1
    <3>3. QED
      BY <1>2, <3>1, <3>2
  <2>3. QED
    BY <2>1, <2>2
<1>6. \A k \in 1..Len(frames') : frames'[k] \in 1..Len(log')
  BY <1>1, <1>4, <1>5, RetainedElements
<1>7. QED
  BY <1>2, <1>6 DEF Replay!RetainedIndices

\* What publishing does: one event is stored and queued, one is stored only (no
\* writer, or a delta that may be dropped), or the events wait with publisher p; a
\* backpressure notice waits before the event it comes after.
Publishes(p, r) ==
  \E new \in Seq(FrameType) : \E n \in Nat :
    /\ n = Len(log) + 1
    /\ Replay!Store(new)
    /\ \A k \in 1..Len(new) : new[k].req = r
    /\ writerTask' \in {writerTask, ActiveWriter}
    /\ \/ Len(new) = 1 /\ queue' = Append(queue, n) /\ wait' = wait
       \/ /\ Len(new) = 1 /\ queue' = queue /\ wait' = wait
          /\ ActiveWriter = NoBinding \/ Droppable(new[1].kind)
       \/ /\ Len(new) = 1 /\ queue' = queue /\ ActiveWriter # NoBinding
          /\ wait' = [wait EXCEPT ![p] = [todo |-> <<n>>, on |-> ActiveWriter]]
       \/ /\ Len(new) = 2 /\ new[2].kind = "notice" /\ queue' = queue
          /\ ActiveWriter # NoBinding
          /\ wait' = [wait EXCEPT ![p] = [todo |-> <<n + 1, n>>, on |-> ActiveWriter]]

\* Both ways to publish do what Publishes says.
LEMMA PublishControlPublishes ==
  ASSUME TypeOK, NEW p, NEW frame \in FrameType, PublishControl(p, frame)
  PROVE  Publishes(p, frame.req)
<1>1. PICK n \in Nat : n = Len(log) + 1
  BY DEF TypeOK, OutTypeOK
<1>2. PICK new \in Seq(FrameType) : new = <<frame>>
  <2>1. <<frame>> \in Seq(FrameType)
    OBVIOUS
  <2>2. QED
    BY <2>1
<1>3. Len(new) = 1 /\ \A k \in 1..Len(new) : new[k].req = frame.req
  BY <1>2
<1>4. Replay!Store(new) /\ Replay!NextEventIndex = n
  BY <1>1, <1>2 DEF PublishControl, Replay!NextEventIndex
<1>5. CASE PutNoWait(n)
  BY <1>1, <1>3, <1>4, <1>5 DEF Publishes, PutNoWait
<1>6. CASE EnqueueBlocking(p, <<n>>)
  BY <1>1, <1>3, <1>4, <1>6 DEF Publishes, EnqueueBlocking
<1>7. QED
  BY <1>4, <1>5, <1>6 DEF PublishControl

LEMMA PublishRuntimePublishes ==
  ASSUME TypeOK, NEW frame \in FrameType, frame.req = active, PublishRuntime(frame)
  PROVE  Publishes(Worker, active)
<1>1. PICK n \in Nat : n = Len(log) + 1
  BY DEF TypeOK, OutTypeOK
<1>2. PICK one \in Seq(FrameType) : one = <<frame>>
  <2>1. <<frame>> \in Seq(FrameType)
    OBVIOUS
  <2>2. QED
    BY <2>1
<1>3. Len(one) = 1 /\ one[1] = frame /\ \A k \in 1..Len(one) : one[k].req = active
  BY <1>2
<1>4. PICK notice \in FrameType :
        notice = Notice(dropped + 1) /\ notice.req = active /\ notice.kind = "notice"
  <2>1. Notice(dropped + 1) \in FrameType
    BY NoticeType DEF TypeOK, OutTypeOK
  <2>2. QED
    BY <2>1 DEF Notice, Frame
<1>5. PICK two \in Seq(FrameType) : two = <<frame, notice>>
  <2>1. <<frame, notice>> \in Seq(FrameType)
    OBVIOUS
  <2>2. QED
    BY <2>1
<1>6. /\ Len(two) = 2 /\ two[2].kind = "notice"
      /\ \A k \in 1..Len(two) : two[k].req = active
  BY <1>4, <1>5
<1>7. Replay!NextEventIndex = n
  BY <1>1 DEF Replay!NextEventIndex
<1>8. CASE Replay!Store(<<frame>>) /\ PutNoWait(n)
  BY <1>1, <1>2, <1>3, <1>8 DEF Publishes, PutNoWait
<1>9. CASE /\ ActiveWriter = NoBinding \/ Droppable(frame.kind)
           /\ Replay!Store(<<frame>>) /\ writerTask' = ActiveWriter
           /\ UNCHANGED <<queue, wait>>
  BY <1>1, <1>2, <1>3, <1>9 DEF Publishes
<1>10. CASE /\ ActiveWriter # NoBinding /\ Replay!Store(<<frame, notice>>)
            /\ EnqueueBlocking(Worker, <<n + 1, n>>)
  <2>1. Replay!Store(two)
    BY <1>5, <1>10
  <2>2. QED
    BY <1>1, <1>6, <1>10, <2>1 DEF Publishes, EnqueueBlocking
<1>11. QED
  BY <1>4, <1>7, <1>8, <1>9, <1>10 DEF PublishRuntime

-----------------------------------------------------------------------------
(* Order.                                                                  *)

\* What was in order stays in order when the history is extended.
LEMMA OrderKept ==
  ASSUME NEW all, NEW more, NEW n \in Nat, \A i \in 1..n : more[i] = all[i]
  PROVE  /\ \A events : (\A k \in 1..Len(events) : events[k] \in 1..n) /\ Ordered(all, events)
                          => Ordered(more, events)
         /\ \A A, B : A \subseteq 1..n /\ B \subseteq 1..n /\ AllBefore(all, A, B)
                        => AllBefore(more, A, B)
<1>1. \A a, b \in 1..n : Before(more, a, b) <=> Before(all, a, b)
  BY DEF Before
<1>2. QED
  BY <1>1 DEF Ordered, AllBefore

\* An event put behind others, all of them in order and before it.
LEMMA OrderedAppend ==
  ASSUME NEW all, NEW events \in Seq(Nat), NEW i \in Nat, Ordered(all, events),
         \A k \in 1..Len(events) : Before(all, events[k], i)
  PROVE  Ordered(all, Append(events, i))
<1> DEFINE more == Append(events, i)
<1>1. /\ Len(more) = Len(events) + 1 /\ Len(events) \in Nat
      /\ \A k \in 1..Len(events) : more[k] = events[k]
      /\ more[Len(events) + 1] = i
  OBVIOUS
<1> HIDE DEF more
<1>2. ASSUME NEW j \in 1..Len(more), NEW k \in 1..Len(more), j < k
      PROVE  Before(all, more[j], more[k])
  <2>1. j \in 1..Len(events)
    BY <1>1, <1>2
  <2>2. CASE k \in 1..Len(events)
    BY <1>1, <1>2, <2>1, <2>2 DEF Ordered
  <2>3. CASE k = Len(events) + 1
    BY <1>1, <2>1, <2>3
  <2>4. QED
    BY <1>1, <2>2, <2>3
<1>3. QED
  BY <1>2 DEF Ordered, more

\* What is taken from the front of a sequence in order comes before the rest.
LEMMA OrderedTail ==
  ASSUME NEW all, NEW events \in Seq(Nat), events # <<>>, Ordered(all, events)
  PROVE  /\ Ordered(all, Tail(events))
         /\ \A k \in 1..Len(Tail(events)) : Before(all, Head(events), Tail(events)[k])
<1>1. /\ Len(Tail(events)) = Len(events) - 1 /\ Len(events) \in Nat /\ Len(events) >= 1
      /\ Head(events) = events[1]
      /\ \A k \in 1..Len(Tail(events)) : Tail(events)[k] = events[k + 1]
  OBVIOUS
<1>2. \A k \in 1..Len(Tail(events)) : k + 1 \in 1..Len(events) /\ 1 < k + 1
  BY <1>1
<1>3. 1 \in 1..Len(events)
  BY <1>1
<1>4. \A k \in 1..Len(Tail(events)) : Before(all, Head(events), Tail(events)[k])
  BY <1>1, <1>2, <1>3 DEF Ordered
<1>5. \A j, k \in 1..Len(Tail(events)) : j < k => j + 1 < k + 1
  BY <1>1
<1>6. Ordered(all, Tail(events))
  BY <1>1, <1>2, <1>5 DEF Ordered
<1>7. QED
  BY <1>4, <1>6

\* What the head and the tail of a sequence of events hold.
LEMMA TailElements ==
  ASSUME NEW events \in Seq(Nat), events # <<>>
  PROVE  /\ \E k \in 1..Len(events) : Head(events) = events[k]
         /\ \A k \in 1..Len(Tail(events)) :
              \E j \in 1..Len(events) : Tail(events)[k] = events[j]
<1>1. /\ Len(Tail(events)) = Len(events) - 1 /\ Len(events) \in Nat /\ Len(events) >= 1
      /\ Head(events) = events[1]
      /\ \A k \in 1..Len(Tail(events)) : Tail(events)[k] = events[k + 1]
  OBVIOUS
<1>2. 1 \in 1..Len(events) /\ \A k \in 1..Len(Tail(events)) : k + 1 \in 1..Len(events)
  BY <1>1
<1>3. QED
  BY <1>1, <1>2

\* What a sequence of events holds is its head and what its tail holds.
LEMMA HeadOrTail ==
  ASSUME NEW events \in Seq(Nat), events # <<>>
  PROVE  {events[k] : k \in 1..Len(events)} =
           {Head(events)} \cup {Tail(events)[k] : k \in 1..Len(Tail(events))}
<1>1. /\ Len(Tail(events)) = Len(events) - 1 /\ Len(events) \in Nat /\ Len(events) >= 1
      /\ Head(events) = events[1]
      /\ \A k \in 1..Len(Tail(events)) : Tail(events)[k] = events[k + 1]
  OBVIOUS
<1>2. 1 \in 1..Len(events) /\ \A k \in 1..Len(Tail(events)) : k + 1 \in 1..Len(events)
  BY <1>1
<1>3. \A k \in 1..Len(events) : k = 1 \/ (k - 1 \in 1..Len(Tail(events)) /\ k = (k - 1) + 1)
  BY <1>1
<1>4. \A k \in 1..Len(events) :
        events[k] = events[1] \/ \E j \in 1..Len(Tail(events)) : Tail(events)[j] = events[k]
  BY <1>1, <1>3
<1>5. \A k \in 1..Len(Tail(events)) : \E j \in 1..Len(events) : events[j] = Tail(events)[k]
  BY <1>1, <1>2
<1>6. \E j \in 1..Len(events) : events[j] = Head(events)
  BY <1>1, <1>2
<1> DEFINE All  == {events[k] : k \in 1..Len(events)}
           Rest == {Tail(events)[k] : k \in 1..Len(Tail(events))}
<1>7. \A e \in All : e \in {Head(events)} \cup Rest
  BY <1>1, <1>4
<1>8. Rest \subseteq All
  BY <1>5
<1>9. Head(events) \in All
  BY <1>6
<1>10. QED
  BY <1>7, <1>8, <1>9

\* What a longer sequence of events holds.
LEMMA AppendElements ==
  ASSUME NEW events \in Seq(Nat), NEW i \in Nat
  PROVE  {Append(events, i)[k] : k \in 1..Len(Append(events, i))} =
           {events[k] : k \in 1..Len(events)} \cup {i}
<1>1. /\ Len(Append(events, i)) = Len(events) + 1 /\ Len(events) \in Nat
      /\ \A k \in 1..Len(events) : Append(events, i)[k] = events[k]
      /\ Append(events, i)[Len(events) + 1] = i
  OBVIOUS
<1>2. \A k \in 1..(Len(events) + 1) : k \in 1..Len(events) \/ k = Len(events) + 1
  BY <1>1
<1>3. \A k \in 1..Len(events) : k \in 1..(Len(events) + 1)
  BY <1>1
<1>4. Len(events) + 1 \in 1..(Len(events) + 1)
  BY <1>1
<1>5. QED
  BY <1>1, <1>2, <1>3, <1>4

\* Types of the places.
LEMMA PlaceTypes ==
  ASSUME TypeOK
  PROVE  /\ queue \in Seq(Nat)
         /\ \A p \in Publishers : wait[p] \in WaitType /\ wait[p].todo \in Seq(Nat)
         /\ \A g \in Bindings : delivered[g] \in Seq(Nat)
<1>1. \A p \in Publishers : wait[p] \in WaitType
  BY DEF TypeOK, OutTypeOK
<1>2. QED
  BY <1>1 DEF TypeOK, OutTypeOK, BindTypeOK, WaitType

\* Publishing keeps the places and their order, when nobody else waits with an
\* event of the request.
LEMMA PublishKeepsOrder ==
  ASSUME TypeOK, PlacesInv, OrderInv,
         NEW p \in Publishers, NEW r \in Requests, Publishes(p, r), UNCHANGED delivered,
         \A q \in Publishers : \A i \in InWait(q) : log[i].req # r,
         wait[p].todo = <<>>
  PROVE  PlacesInv' /\ OrderInv'
<1>1. PICK new \in Seq(FrameType), n \in Nat :
        /\ n = Len(log) + 1
        /\ Replay!Store(new)
        /\ \A k \in 1..Len(new) : new[k].req = r
        /\ \/ Len(new) = 1 /\ queue' = Append(queue, n) /\ wait' = wait
           \/ Len(new) = 1 /\ queue' = queue /\ wait' = wait
           \/ /\ Len(new) = 1 /\ queue' = queue
              /\ wait' = [wait EXCEPT ![p] = [todo |-> <<n>>, on |-> ActiveWriter]]
           \/ /\ Len(new) = 2 /\ new[2].kind = "notice" /\ queue' = queue
              /\ wait' = [wait EXCEPT ![p] = [todo |-> <<n + 1, n>>, on |-> ActiveWriter]]
  BY DEF Publishes
<1>2. /\ Len(log) \in Nat /\ Len(log') = Len(log) + Len(new)
      /\ Len(new) \in {1, 2} /\ 1 \in 1..Len(new)
      /\ \A i \in 1..Len(log) : log'[i] = log[i]
      /\ \A k \in 1..Len(new) : log'[Len(log) + k] = new[k]
      /\ (Replay!RetainedIndices)' \subseteq 1..Len(log')
  <2>1. /\ Len(log) \in Nat /\ Len(log') = Len(log) + Len(new)
        /\ \A i \in 1..Len(log) : log'[i] = log[i]
        /\ \A k \in 1..Len(new) : log'[Len(log) + k] = new[k]
        /\ (Replay!RetainedIndices)' \subseteq 1..Len(log')
    BY <1>1, StoreFacts DEF PlacesInv
  <2>2. Len(new) \in {1, 2}
    BY <1>1
  <2>3. 1 \in 1..Len(new)
    <3>1. \A m \in {1, 2} : 1 \in 1..m
      OBVIOUS
    <3>2. QED
      BY <2>2, <3>1
  <2>4. QED
    BY <2>1, <2>2, <2>3
<1>3. 1..Len(log) \subseteq 1..Len(log') /\ n \in 1..Len(log')
  BY <1>1, <1>2
<1>4. \A a \in 1..Len(log) : a < n
  BY <1>1, <1>2
<1>5. /\ queue \in Seq(Nat)
      /\ \A q \in Publishers : wait[q].todo \in Seq(Nat)
      /\ \A g \in Bindings : delivered[g] \in Seq(Nat)
  BY PlaceTypes
<1>6. /\ Ordered(log', queue)
      /\ \A q \in Publishers :
           Ordered(log', wait[q].todo) /\ AllBefore(log', InQueue, InWait(q))
      /\ \A g \in Bindings :
           /\ Ordered(log', delivered[g])
           /\ AllBefore(log', SentTo(g), InQueue)
           /\ \A q \in Publishers : AllBefore(log', SentTo(g), InWait(q))
  <2>1. /\ \A k \in 1..Len(queue) : queue[k] \in 1..Len(log)
        /\ \A q \in Publishers :
             \A k \in 1..Len(wait[q].todo) : wait[q].todo[k] \in 1..Len(log)
        /\ \A g \in Bindings :
             \A k \in 1..Len(delivered[g]) : delivered[g][k] \in 1..Len(log)
    BY DEF PlacesInv, InQueue, InWait, SentTo
  <2>2. QED
    BY <1>2, <2>1, OrderKept DEF OrderInv, PlacesInv
<1>7. \A g \in Bindings : SentTo(g)' = SentTo(g)
  BY DEF SentTo
<1>8. /\ InQueue \subseteq 1..Len(log)
      /\ \A q \in Publishers : InWait(q) \subseteq 1..Len(log)
      /\ \A g \in Bindings : SentTo(g) \subseteq 1..Len(log)
  BY DEF PlacesInv
<1>9. CASE queue' = Append(queue, n) /\ wait' = wait
  <2>1. InQueue' = InQueue \cup {n} /\ \A q \in Publishers : InWait(q)' = InWait(q)
    <3>1. InQueue' = {Append(queue, n)[k] : k \in 1..Len(Append(queue, n))}
      BY <1>9 DEF InQueue
    <3>2. InQueue' = {queue[k] : k \in 1..Len(queue)} \cup {n}
      BY <1>5, <3>1, AppendElements
    <3>3. QED
      BY <1>9, <3>2 DEF InQueue, InWait
  <2>2. PlacesInv'
    BY <1>2, <1>3, <1>7, <1>8, <2>1 DEF PlacesInv
  <2>3. Ordered(log', Append(queue, n))
    <3>1. \A k \in 1..Len(queue) : Before(log', queue[k], n)
      BY <1>4, <1>8 DEF Before, InQueue
    <3>2. QED
      BY <1>5, <1>6, <3>1, OrderedAppend
  <2>4. \A q \in Publishers : AllBefore(log', InQueue \cup {n}, InWait(q))
    <3>1. \A q \in Publishers : \A i \in InWait(q) : log'[i].req # r
      BY <1>2, <1>8
    <3>2. log'[n].req = r
      <4>1. n = Len(log) + 1 /\ \A k \in 1..Len(new) : new[k].req = r
        BY <1>1
      <4>2. log'[Len(log) + 1] = new[1]
        BY <1>2
      <4>3. QED
        BY <1>2, <4>1, <4>2
    <3>3. QED
      BY <1>6, <3>1, <3>2 DEF AllBefore, Before
  <2>5. \A g \in Bindings : AllBefore(log', SentTo(g), InQueue \cup {n})
    BY <1>4, <1>6, <1>8 DEF AllBefore, Before
  <2>6. OrderInv'
    BY <1>6, <1>7, <1>9, <2>1, <2>3, <2>4, <2>5 DEF OrderInv
  <2>7. QED
    BY <2>2, <2>6
<1>10. CASE queue' = queue /\ wait' = wait
  <2>1. InQueue' = InQueue /\ \A q \in Publishers : InWait(q)' = InWait(q)
    BY <1>10 DEF InQueue, InWait
  <2>2. PlacesInv'
    BY <1>2, <1>3, <1>7, <1>8, <2>1 DEF PlacesInv
  <2>3. OrderInv'
    BY <1>6, <1>7, <1>10, <2>1 DEF OrderInv
  <2>4. QED
    BY <2>2, <2>3
<1>11. ASSUME NEW todo \in Seq(Nat), queue' = queue,
              wait' = [wait EXCEPT ![p] = [todo |-> todo, on |-> ActiveWriter]],
              \A k \in 1..Len(todo) : todo[k] \in 1..Len(log') /\ todo[k] >= n,
              Ordered(log', todo)
       PROVE  PlacesInv' /\ OrderInv'
  <2>1. /\ InQueue' = InQueue
        /\ InWait(p)' = {todo[k] : k \in 1..Len(todo)} /\ wait'[p].todo = todo
        /\ \A q \in Publishers \ {p} : InWait(q)' = InWait(q) /\ wait'[q] = wait[q]
    BY <1>11 DEF InQueue, InWait, TypeOK, OutTypeOK
  <2>2. InWait(p)' \subseteq 1..Len(log')
    BY <1>11, <2>1
  <2>3. PlacesInv'
    BY <1>2, <1>3, <1>7, <1>8, <2>1, <2>2 DEF PlacesInv
  <2>4. \A a \in 1..Len(log), b \in InWait(p)' : a < b
    BY <1>1, <1>2, <1>11, <2>1
  <2>5. \A q \in Publishers : /\ Ordered(log', wait'[q].todo)
                              /\ AllBefore(log', InQueue, InWait(q)')
    BY <1>6, <1>8, <1>11, <2>1, <2>4 DEF AllBefore, Before
  <2>6. \A g \in Bindings : \A q \in Publishers : AllBefore(log', SentTo(g), InWait(q)')
    BY <1>6, <1>8, <2>1, <2>4 DEF AllBefore, Before
  <2>7. OrderInv'
    BY <1>6, <1>7, <1>11, <2>1, <2>5, <2>6 DEF OrderInv
  <2>8. QED
    BY <2>3, <2>7
<1>12. CASE /\ Len(new) = 1 /\ queue' = queue
            /\ wait' = [wait EXCEPT ![p] = [todo |-> <<n>>, on |-> ActiveWriter]]
  <2>1. <<n>> \in Seq(Nat) /\ Ordered(log', <<n>>)
    BY DEF Ordered
  <2>2. \A k \in 1..Len(<<n>>) : <<n>>[k] \in 1..Len(log') /\ <<n>>[k] >= n
    BY <1>3
  <2>3. QED
    BY <1>11, <1>12, <2>1, <2>2
<1>13. CASE /\ Len(new) = 2 /\ new[2].kind = "notice" /\ queue' = queue
            /\ wait' = [wait EXCEPT ![p] = [todo |-> <<n + 1, n>>, on |-> ActiveWriter]]
  <2>1. log'[n + 1].kind = "notice" /\ n + 1 \in 1..Len(log') /\ n + 1 >= n
    BY <1>1, <1>2, <1>13
  <2>2. <<n + 1, n>> \in Seq(Nat) /\ Ordered(log', <<n + 1, n>>)
    BY <2>1 DEF Ordered, Before
  <2>3. \A k \in 1..Len(<<n + 1, n>>) :
          <<n + 1, n>>[k] \in 1..Len(log') /\ <<n + 1, n>>[k] >= n
    BY <1>3, <2>1
  <2>4. QED
    BY <1>11, <1>13, <2>2, <2>3
<1>14. QED
  BY <1>1, <1>9, <1>10, <1>12, <1>13

\* A put that ends: its event is queued or given up, and the publisher waits with
\* the rest or, without a live writer, with nothing.
LEMMA EndWaitEffect ==
  ASSUME TypeOK, NEW p \in Publishers, Waiting(p), EndWait(p)
  PROVE  /\ wait[p].todo \in Seq(Nat) /\ wait[p].todo # <<>>
         /\ \A q \in Publishers \ {p} : wait'[q] = wait[q]
         /\ wait'[p].todo = Tail(wait[p].todo) \/ wait'[p].todo = <<>>
<1>1. wait[p].todo \in Seq(Nat) /\ wait[p].todo # <<>>
  BY PlaceTypes DEF Waiting
<1>2. wait \in [Publishers -> WaitType]
  BY DEF TypeOK, OutTypeOK
<1>3. \/ wait' = [wait EXCEPT ![p] = Idle]
      \/ \E target : wait' = [wait EXCEPT ![p] = [todo |-> Tail(wait[p].todo), on |-> target]]
  BY DEF EndWait
<1>4. CASE wait' = [wait EXCEPT ![p] = Idle]
  BY <1>1, <1>2, <1>4 DEF Idle
<1>5. ASSUME NEW target,
             wait' = [wait EXCEPT ![p] = [todo |-> Tail(wait[p].todo), on |-> target]]
      PROVE  /\ \A q \in Publishers \ {p} : wait'[q] = wait[q]
             /\ wait'[p].todo = Tail(wait[p].todo)
  BY <1>2, <1>5
<1>6. QED
  BY <1>1, <1>3, <1>4, <1>5

\* Two publishers never wait with events of one request.
LEMMA OneWaiter ==
  ASSUME RequestInv, WaitersInv,
         NEW p \in Publishers, NEW a \in InWait(p), NEW q \in Publishers, NEW b \in InWait(q),
         log[a].req = log[b].req
  PROVE  p = q
<1> DEFINE r == log[a].req
<1>1. \A c \in Conns : lock = c /\ active = r => r \in Requests /\ run[r] = "none"
  BY DEF RequestInv, LockHeldByAnnouncer
<1>2. Entitled(p, r) /\ Entitled(q, r)
  BY DEF WaitersInv
<1> HIDE DEF r
<1>3. QED
  BY <1>1, <1>2 DEF Entitled

\* What waited behind others is in order with them when it is queued or given up.
LEMMA PutKeepsOrder ==
  ASSUME RequestInv, TypeOK, PlacesInv, OrderInv, WaitersInv, NEW p \in Publishers,
         PutDone(p) \/ GiveUpPut(p)
  PROVE  PlacesInv' /\ OrderInv' /\ WaitersInv'
<1> DEFINE todo == wait[p].todo
<1>1. /\ todo \in Seq(Nat) /\ todo # <<>> /\ Head(todo) \in Nat
      /\ \A q \in Publishers \ {p} : wait'[q] = wait[q]
      /\ wait'[p].todo = Tail(todo) \/ wait'[p].todo = <<>>
  BY EndWaitEffect DEF PutDone, GiveUpPut
<1>2. /\ UNCHANGED <<log, frames, delivered, lock, active, run>>
      /\ queue' = Append(queue, Head(todo)) \/ queue' = queue
  BY DEF PutDone, GiveUpPut, Unblocked, bindVars, reqVars
<1>3. /\ Head(todo) \in InWait(p)
      /\ \A k \in 1..Len(Tail(todo)) : Tail(todo)[k] \in InWait(p)
  BY <1>1, TailElements DEF InWait
<1>4. /\ Ordered(log, Tail(todo))
      /\ \A k \in 1..Len(Tail(todo)) : Before(log, Head(todo), Tail(todo)[k])
  BY <1>1, OrderedTail DEF OrderInv
<1>5. queue \in Seq(Nat)
  BY PlaceTypes
<1> HIDE DEF todo
<1>6. /\ InWait(p)' \subseteq InWait(p)
      /\ \A q \in Publishers \ {p} : InWait(q)' = InWait(q) /\ wait'[q].todo = wait[q].todo
      /\ \A i \in InWait(p)' : Before(log, Head(todo), i)
      /\ Ordered(log, wait'[p].todo)
  <2>1. CASE wait'[p].todo = Tail(todo)
    BY <1>1, <1>3, <1>4, <2>1 DEF InWait
  <2>2. CASE wait'[p].todo = <<>>
    BY <1>1, <2>2 DEF InWait, Ordered
  <2>3. QED
    BY <1>1, <2>1, <2>2
<1>7. \A g \in Bindings : SentTo(g)' = SentTo(g) /\ delivered'[g] = delivered[g]
  BY <1>2 DEF SentTo
<1>8. \A q \in Publishers : InWait(q)' \subseteq InWait(q)
  BY <1>6
<1>9. InQueue' \subseteq InQueue \cup {Head(todo)}
  <2>1. CASE queue' = queue
    BY <2>1 DEF InQueue
  <2>2. CASE queue' = Append(queue, Head(todo))
    <3>1. InQueue' = {Append(queue, Head(todo))[k] : k \in 1..Len(Append(queue, Head(todo)))}
      BY <2>2 DEF InQueue
    <3>2. InQueue' = {queue[k] : k \in 1..Len(queue)} \cup {Head(todo)}
      BY <1>1, <1>5, <3>1, AppendElements
    <3>3. QED
      BY <3>2 DEF InQueue
  <2>3. QED
    BY <1>2, <2>1, <2>2
<1>10. PlacesInv'
  BY <1>2, <1>3, <1>7, <1>8, <1>9 DEF PlacesInv, Replay!RetainedIndices
<1>11. WaitersInv'
  BY <1>2, <1>8 DEF WaitersInv, Entitled
<1>12. Ordered(log, queue')
  <2>1. \A k \in 1..Len(queue) : Before(log, queue[k], Head(todo))
    BY <1>3 DEF OrderInv, AllBefore, InQueue
  <2>2. QED
    BY <1>1, <1>2, <1>5, <2>1, OrderedAppend DEF OrderInv
\* The other publishers that wait do so with events of other requests.
<1>13. \A q \in Publishers \ {p} : \A i \in InWait(q) : Before(log, Head(todo), i)
  <2> SUFFICES ASSUME NEW q \in Publishers \ {p}, NEW i \in InWait(q),
                      log[Head(todo)].req = log[i].req
               PROVE  FALSE
    BY DEF Before
  <2>1. QED
    BY <1>3, OneWaiter
<1>14. \A q \in Publishers : /\ Ordered(log, wait'[q].todo)
                             /\ AllBefore(log, InQueue', InWait(q)')
  BY <1>6, <1>8, <1>9, <1>13 DEF OrderInv, AllBefore
<1>15. \A g \in Bindings :
         /\ AllBefore(log, SentTo(g), InQueue')
         /\ \A q \in Publishers : AllBefore(log, SentTo(g), InWait(q)')
  BY <1>3, <1>8, <1>9 DEF OrderInv, AllBefore
<1>16. OrderInv'
  BY <1>2, <1>7, <1>12, <1>14, <1>15 DEF OrderInv
<1>17. QED
  BY <1>10, <1>11, <1>16

\* The writer takes the oldest queued event: it is sent behind what was sent before,
\* and only live; or it is discarded.
LEMMA TakeKeepsDelivery ==
  ASSUME TypeOK, DeliveryInv, NEW g \in Bindings, WriterTakes(g)
  PROVE  DeliveryInv'
<1> DEFINE i == Head(queue)
<1> USE DEF DeliveryInv
<1>1. /\ queue \in Seq(Nat) /\ queue # <<>> /\ i \in Nat /\ queue' = Tail(queue)
      /\ delivered \in [Bindings -> Seq(Nat)]
  BY PlaceTypes DEF WriterTakes, TypeOK, OutTypeOK, BindTypeOK
<1>2. /\ UNCHANGED <<log, frames, wait, generation, binding, lock, active, run>>
      /\ \/ delivered' = delivered
         \/ /\ generation = g /\ binding[g].liveFrom <= i
            /\ delivered' = [delivered EXCEPT ![g] = Append(@, i)]
  <2>1. binding[g].liveFrom \in Nat
    BY DEF TypeOK, BindTypeOK, BindingType
  <2>2. QED
    BY <1>1, <2>1 DEF WriterTakes, reqVars
<1>3. i \in InQueue /\ InQueue' \subseteq InQueue
  <2>1. {queue[k] : k \in 1..Len(queue)} =
          {i} \cup {Tail(queue)[k] : k \in 1..Len(Tail(queue))}
    BY <1>1, HeadOrTail
  <2>2. InQueue = {i} \cup InQueue'
    BY <1>1, <2>1 DEF InQueue
  <2>3. QED
    BY <2>2
<1>4. /\ Ordered(log, Tail(queue))
      /\ \A b \in InQueue' : Before(log, i, b)
  BY <1>1, OrderedTail DEF OrderInv, InQueue
<1>5. \A h \in Bindings \ {g} : SentTo(h)' = SentTo(h) /\ delivered'[h] = delivered[h]
  BY <1>1, <1>2 DEF SentTo
<1>6. \/ delivered'[g] = delivered[g]
      \/ /\ generation = g /\ binding[g].liveFrom <= i
         /\ delivered'[g] = Append(delivered[g], i)
  BY <1>1, <1>2
<1>7. \/ SentTo(g)' = SentTo(g)
      \/ SentTo(g)' = SentTo(g) \cup {i} /\ generation = g /\ binding[g].liveFrom <= i
  <2>1. CASE delivered'[g] = delivered[g]
    BY <2>1 DEF SentTo
  <2>2. CASE /\ generation = g /\ binding[g].liveFrom <= i
             /\ delivered'[g] = Append(delivered[g], i)
    <3>1. SentTo(g)' = {Append(delivered[g], i)[k] : k \in 1..Len(Append(delivered[g], i))}
      BY <2>2 DEF SentTo
    <3>2. delivered[g] \in Seq(Nat)
      BY <1>1
    <3>3. {Append(delivered[g], i)[k] : k \in 1..Len(Append(delivered[g], i))} =
            {delivered[g][k] : k \in 1..Len(delivered[g])} \cup {i}
      BY <1>1, <3>2, AppendElements
    <3>4. QED
      BY <2>2, <3>1, <3>3 DEF SentTo
  <2>3. QED
    BY <1>6, <2>1, <2>2
<1>8. \A p \in Publishers : InWait(p)' = InWait(p)
  BY <1>2 DEF InWait
<1> HIDE DEF i
<1>9. PlacesInv'
  BY <1>2, <1>3, <1>5, <1>7, <1>8 DEF PlacesInv, Replay!RetainedIndices
<1>10. WaitersInv'
  BY <1>2, <1>8 DEF WaitersInv, Entitled
<1>11. \A h \in Bindings : Ordered(log, delivered'[h])
  <2>1. \A k \in 1..Len(delivered[g]) : Before(log, delivered[g][k], i)
    BY <1>3 DEF OrderInv, AllBefore, SentTo
  <2>2. Ordered(log, delivered'[g])
    BY <1>1, <1>6, <2>1, OrderedAppend DEF OrderInv
  <2>3. QED
    BY <1>5, <2>2 DEF OrderInv
<1>12. \A h \in Bindings :
         /\ AllBefore(log, SentTo(h)', InQueue')
         /\ \A p \in Publishers : AllBefore(log, SentTo(h)', InWait(p))
  BY <1>3, <1>4, <1>5, <1>7 DEF OrderInv, AllBefore
<1>13. OrderInv'
  <2>1. \A p \in Publishers : AllBefore(log, InQueue', InWait(p))
    BY <1>3 DEF OrderInv, AllBefore
  <2>2. QED
    BY <1>1, <1>2, <1>4, <1>8, <1>11, <1>12, <2>1 DEF OrderInv
<1>14. ReplayInv'
  <2>1. \A h \in Bindings : \A a \in SentTo(h)' : binding[h].liveFrom <= a
    BY <1>5, <1>7 DEF ReplayInv
  <2>2. \A h \in Bindings : h > generation => delivered'[h] = <<>>
    <3>1. ~(generation > generation)
      BY DEF TypeOK, BindTypeOK
    <3>2. QED
      BY <1>5, <1>6, <3>1 DEF ReplayInv
  <2>3. QED
    BY <1>2, <2>1, <2>2 DEF ReplayInv
<1>15. QED
  BY <1>9, <1>10, <1>13, <1>14

\* Steps that move no event.
LEMMA EventsUnmoved ==
  ASSUME PlacesInv, OrderInv, UNCHANGED <<log, frames, queue, wait, delivered>>
  PROVE  /\ PlacesInv' /\ OrderInv'
         /\ \A p \in Publishers : InWait(p)' = InWait(p)
<1>1. InQueue' = InQueue /\ \A p \in Publishers : InWait(p)' = InWait(p)
  BY DEF InQueue, InWait
<1>2. \A g \in Bindings : SentTo(g)' = SentTo(g)
  BY DEF SentTo
<1>3. QED
  BY <1>1, <1>2 DEF PlacesInv, OrderInv, Replay!RetainedIndices

LEMMA ReplayUnmoved ==
  ASSUME ReplayInv, UNCHANGED <<generation, binding, delivered>>
  PROVE  ReplayInv'
  BY DEF ReplayInv, SentTo

\* Whoever waits keeps the right to wait.
LEMMA RequestsMoveOn ==
  ASSUME TypeOK, DeliveryInv,
         UNCHANGED <<log, frames, queue, wait, delivered, generation, binding>>,
         \A p \in Publishers : \A r : Waiting(p) /\ Entitled(p, r) => Entitled(p, r)'
  PROVE  DeliveryInv'
<1>1. PlacesInv' /\ OrderInv' /\ \A p \in Publishers : InWait(p)' = InWait(p)
  BY EventsUnmoved DEF DeliveryInv
<1>2. \A p \in Publishers : InWait(p) # {} => Waiting(p)
  BY DEF InWait, Waiting
<1>3. WaitersInv'
  BY <1>1, <1>2 DEF DeliveryInv, WaitersInv
<1>4. QED
  BY <1>1, <1>3, ReplayUnmoved DEF DeliveryInv

\* A bind replays retained frames, all of them older than its live_from_event_index.
LEMMA BindKeepsDelivery ==
  ASSUME TypeOK, DeliveryInv, NEW c \in Conns, NEW resume, Bind(c, resume)
  PROVE  DeliveryInv'
<1> DEFINE g == generation + 1
<1> USE DEF DeliveryInv
<1>1. /\ UNCHANGED <<log, frames, queue, wait, delivered, lock, active, run>>
      /\ g \in Bindings /\ generation' = g
      /\ \A h \in Bindings \ {g} : binding'[h] = binding[h]
      /\ binding'[g].liveFrom = Len(log) + 1
      /\ binding'[g].replay = Replay!ReplayFrom(resume)
  BY DEF Bind, outVars, reqVars, TypeOK, BindTypeOK, Replay!NextEventIndex
<1>2. Replay!ReplayFrom(resume) \subseteq 1..Len(log)
  <2>1. Replay!ReplayFrom(resume) \subseteq Replay!RetainedIndices
    BY DEF Replay!ReplayFrom, Replay!RecoveryFrames, Replay!LatestOf, Replay!SnapshotIndices
  <2>2. QED
    BY <2>1 DEF PlacesInv
<1>3. \A i \in binding'[g].replay : i < binding'[g].liveFrom
  <2>1. \A i \in 1..Len(log) : i < Len(log) + 1
    BY DEF TypeOK, OutTypeOK
  <2>2. QED
    BY <1>1, <1>2, <2>1
<1>4. \A h \in Bindings : h > g => h > generation
  BY DEF TypeOK, BindTypeOK, Bindings
<1>5. g > generation
  BY DEF TypeOK, BindTypeOK
<1> HIDE DEF g
<1>6. ReplayInv'
  <2>1. SentTo(g) = {}
    BY <1>1, <1>5 DEF ReplayInv, SentTo
  <2>2. \A h \in Bindings : SentTo(h)' = SentTo(h)
    BY <1>1 DEF SentTo
  <2>3. QED
    BY <1>1, <1>3, <1>4, <2>1, <2>2 DEF ReplayInv
<1>7. PlacesInv' /\ OrderInv' /\ \A p \in Publishers : InWait(p)' = InWait(p)
  BY <1>1, EventsUnmoved
<1>8. WaitersInv'
  BY <1>1, <1>7 DEF WaitersInv, Entitled
<1>9. QED
  BY <1>6, <1>7, <1>8

LEMMA InstallKeepsDelivery ==
  ASSUME TypeOK, DeliveryInv, NEW c \in Conns, InstallWriter(c)
  PROVE  DeliveryInv'
<1> USE DEF DeliveryInv
<1>1. /\ UNCHANGED <<log, frames, queue, wait, delivered, generation, lock, active, run>>
      /\ \A h \in Bindings : /\ binding'[h].replay = binding[h].replay
                             /\ binding'[h].liveFrom = binding[h].liveFrom
  BY DEF InstallWriter, outVars, reqVars, TypeOK, BindTypeOK, BindingType
<1>2. PlacesInv' /\ OrderInv' /\ \A p \in Publishers : InWait(p)' = InWait(p)
  BY <1>1, EventsUnmoved
<1>3. WaitersInv'
  BY <1>1, <1>2 DEF WaitersInv, Entitled
<1>4. ReplayInv'
  BY <1>1 DEF ReplayInv, SentTo
<1>5. QED
  BY <1>2, <1>3, <1>4

\* An event that is published joins the end of the order; if it waits, its publisher
\* is the one entitled to.
LEMMA PublishKeepsDelivery ==
  ASSUME RequestInv, DeliveryInv,
         NEW p \in Publishers, NEW r \in Requests, Publishes(p, r),
         UNCHANGED <<delivered, generation, binding>>,
         \A q \in Publishers : Entitled(q, r) => ~Waiting(q),
         ~Waiting(p), wait' = wait \/ Entitled(p, r)',
         \A q \in Publishers : \A s : s # r /\ Entitled(q, s) => Entitled(q, s)'
  PROVE  DeliveryInv'
<1> USE DEF DeliveryInv
<1>1. \A q \in Publishers : \A i \in InWait(q) : /\ i \in 1..Len(log) /\ log[i].req # r
                                                 /\ Entitled(q, log[i].req)
  BY DEF WaitersInv, PlacesInv, Waiting, InWait
<1>2. TypeOK /\ wait[p].todo = <<>>
  BY DEF RequestInv, Waiting
<1>3. PlacesInv' /\ OrderInv'
  BY <1>1, <1>2, PublishKeepsOrder
<1>4. PICK new \in Seq(FrameType), n \in Nat :
        /\ n = Len(log) + 1
        /\ Replay!Store(new)
        /\ \A k \in 1..Len(new) : new[k].req = r
        /\ \/ wait' = wait
           \/ /\ Len(new) = 1
              /\ wait' = [wait EXCEPT ![p] = [todo |-> <<n>>, on |-> ActiveWriter]]
           \/ /\ Len(new) = 2
              /\ wait' = [wait EXCEPT ![p] = [todo |-> <<n + 1, n>>, on |-> ActiveWriter]]
  BY DEF Publishes
<1>5. /\ \A i \in 1..Len(log) : log'[i] = log[i]
      /\ \A k \in 1..Len(new) : log'[Len(log) + k] = new[k]
  BY <1>2, <1>4, StoreFacts DEF PlacesInv
<1>6. wait \in [Publishers -> WaitType]
  BY <1>2 DEF TypeOK, OutTypeOK
<1>7. ASSUME NEW q \in Publishers, NEW i \in InWait(q)', NEW s, s = log'[i].req
      PROVE  Entitled(q, s)'
  <2>1. CASE i \in InWait(q)
    BY <1>1, <1>5, <1>7, <2>1
  <2>2. CASE i \notin InWait(q)
    <3>1. q = p /\ wait' # wait
      BY <1>4, <1>6, <2>2 DEF InWait
    <3>2. log'[i].req = r
      <4>1. CASE /\ Len(new) = 1
                 /\ wait' = [wait EXCEPT ![p] = [todo |-> <<n>>, on |-> ActiveWriter]]
        <5>1. i = n
          BY <1>6, <3>1, <4>1 DEF InWait
        <5>2. log'[Len(log) + 1] = new[1] /\ new[1].req = r
          BY <1>4, <1>5, <4>1
        <5>3. QED
          BY <1>4, <5>1, <5>2
      <4>2. CASE /\ Len(new) = 2
                 /\ wait' = [wait EXCEPT ![p] =
                              [todo |-> <<n + 1, n>>, on |-> ActiveWriter]]
        <5>1. i = n \/ i = n + 1
          BY <1>6, <3>1, <4>2 DEF InWait
        <5>2. /\ log'[Len(log) + 1] = new[1] /\ new[1].req = r
              /\ log'[Len(log) + 2] = new[2] /\ new[2].req = r
          BY <1>4, <1>5, <4>2
        <5>3. n = Len(log) + 1 /\ n + 1 = Len(log) + 2
          BY <1>2, <1>4 DEF TypeOK, OutTypeOK
        <5>4. QED
          BY <5>1, <5>2, <5>3
      <4>3. QED
        BY <1>4, <3>1, <4>1, <4>2
    <3>3. QED
      BY <1>7, <3>1, <3>2
  <2>3. QED
    BY <2>1, <2>2
<1>8. WaitersInv'
  BY <1>7 DEF WaitersInv, Entitled
<1>9. QED
  BY <1>3, <1>8, ReplayUnmoved

\* Nobody announces a request, or its end, while its drain still speaks.
LEMMA EntitledExcludes ==
  ASSUME RequestInv, NEW q \in Publishers, NEW r \in Requests, Entitled(q, r)
  PROVE  \/ q \in Conns /\ lock = q /\ active = r /\ run[r] = "none"
         \/ q = Worker /\ run[r] = "draining"
         \/ q = r /\ run[r] \in {"reported", "ended"}
  BY DEF RequestInv, LockHeldByAnnouncer, Entitled

\* A publisher that waits is entitled to.
LEMMA WaiterIsEntitled ==
  ASSUME TypeOK, WaitersInv, NEW p \in Publishers, Waiting(p)
  PROVE  \E r : Entitled(p, r)
<1>1. wait[p].todo \in Seq(Nat) /\ wait[p].todo # <<>>
  BY PlaceTypes DEF Waiting
<1>2. 1 \in 1..Len(wait[p].todo)
  BY <1>1
<1>3. wait[p].todo[1] \in InWait(p)
  BY <1>2 DEF InWait
<1>4. QED
  BY <1>3 DEF WaitersInv

\* Who publishes does not wait with another event already.
LEMMA AcceptPublishes ==
  ASSUME RequestInv, WaitersInv, NEW c \in Conns, NEW r \in Requests,
         AcceptRequest(c, r) \/ AcceptRequestBlocks(c, r)
  PROVE  c \in Publishers /\ Publishes(c, r) /\ ~Waiting(c)
<1>1. /\ TypeOK /\ lock = None /\ c \in Publishers
      /\ c \notin Requests /\ c # Worker /\ c # None
  BY SessionAssumption DEF RequestInv, AcceptRequest, AcceptRequestBlocks, Publishers
<1>2. Frame("accepted", r) \in FrameType /\ Frame("accepted", r).req = r
  BY ControlFrameType DEF Frame
<1>3. PublishControl(c, Frame("accepted", r))
  BY DEF AcceptRequest, AcceptRequestBlocks
<1>4. \A s : ~Entitled(c, s)
  BY <1>1 DEF Entitled
<1>5. QED
  BY <1>1, <1>2, <1>3, <1>4, PublishControlPublishes, WaiterIsEntitled

LEMMA RespondPublishes ==
  ASSUME RequestInv, NEW r \in Requests, NEW kind \in ResponseKinds,
         NEW ack \in BOOLEAN, Respond(r, kind, ack)
  PROVE  /\ Worker \in Publishers /\ Publishes(Worker, r) /\ ~Waiting(Worker)
         /\ run[r] = "draining"
<1>1. /\ run[r] = "draining" /\ active = r /\ ~Waiting(Worker) /\ TypeOK
      /\ Worker \in Publishers
  BY DrainingStage DEF Respond, Draining, RequestInv, SingleFlight, Live, Publishers
<1>2. Frame(kind, r) \in FrameType /\ Frame(kind, r).req = r
  BY SessionAssumption, ControlFrameType DEF Frame
<1>3. QED
  BY <1>1, <1>2, PublishRuntimePublishes DEF Respond

LEMMA RunTaskPublishes ==
  ASSUME RequestInv, WaitersInv, NEW r \in Requests, PublishFailure(r) \/ FinishRequest(r)
  PROVE  r \in Publishers /\ Publishes(r, r) /\ ~Waiting(r)
<1>1. TypeOK /\ r \in Publishers /\ r \notin Conns /\ r # Worker
  BY SessionAssumption DEF RequestInv, Publishers
<1>2. CASE PublishFailure(r)
  <2>1. \A s : ~Entitled(r, s)
    BY <1>1, <1>2 DEF PublishFailure, Entitled
  <2>2. Frame("error", r) \in FrameType /\ Frame("error", r).req = r
    BY ControlFrameType DEF Frame
  <2>3. QED
    BY <1>1, <1>2, <2>1, <2>2, WaiterIsEntitled, PublishControlPublishes DEF PublishFailure
<1>3. CASE FinishRequest(r)
  <2>1. FinalState(r) \in Finals \cup {"none"}
    BY DEF FinalState, Finals
  <2>2. PICK frame \in FrameType :
          frame = [Frame("completed", r) EXCEPT !.final = FinalState(r)]
    BY <2>1, ControlFrameType
  <2>3. frame.req = r
    BY <2>2 DEF Frame
  <2>4. PublishControl(r, frame) /\ ~Waiting(r)
    BY <1>3, <2>2 DEF FinishRequest
  <2>5. QED
    BY <1>1, <2>3, <2>4, PublishControlPublishes
<1>4. QED
  BY <1>2, <1>3

LEMMA AcceptKeepsDelivery ==
  ASSUME RequestInv, DeliveryInv, NEW c \in Conns, NEW r \in Requests,
         AcceptRequest(c, r) \/ AcceptRequestBlocks(c, r)
  PROVE  DeliveryInv'
<1>1. /\ TypeOK /\ active = None /\ lock = None /\ active' = r
      /\ c \in Publishers /\ c \notin Requests /\ c # Worker /\ c # None
  BY SessionAssumption
     DEF RequestInv, AcceptRequest, AcceptRequestBlocks, Acceptable, Publishers
<1>2. /\ run[r] = "none" /\ run \in [Requests -> RunStates]
      /\ \/ run' = [run EXCEPT ![r] = "created"] /\ lock' = lock
         \/ run' = run /\ lock' = c
  BY <1>1, AcceptableHasNoTask
     DEF AcceptRequest, AcceptRequestBlocks, TypeOK, RequestTypeOK
<1>3. Publishes(c, r) /\ ~Waiting(c)
  BY AcceptPublishes DEF DeliveryInv
<1>4. \A q \in Publishers : ~Entitled(q, r)
  BY <1>1, <1>2, SessionAssumption DEF Entitled
<1>5. wait' = wait \/ Entitled(c, r)'
  <2>1. CASE AcceptRequest(c, r)
    BY <2>1 DEF AcceptRequest, ControlSuspends, PublishControl, PutNoWait, EnqueueBlocking
  <2>2. CASE AcceptRequestBlocks(c, r)
    BY <1>1, <2>2 DEF AcceptRequestBlocks, Entitled
  <2>3. QED
    BY <2>1, <2>2
<1>6. \A q \in Publishers : \A s : s # r /\ Entitled(q, s) => Entitled(q, s)'
  BY <1>1, <1>2, SessionAssumption DEF Entitled
<1>7. UNCHANGED <<delivered, generation, binding>>
  BY DEF AcceptRequest, AcceptRequestBlocks, bindVars
<1>8. QED
  BY <1>1, <1>3, <1>4, <1>5, <1>6, <1>7, PublishKeepsDelivery

LEMMA RespondKeepsDelivery ==
  ASSUME RequestInv, DeliveryInv, NEW r \in Requests, NEW kind \in ResponseKinds,
         NEW ack \in BOOLEAN, Respond(r, kind, ack)
  PROVE  DeliveryInv'
<1>1. /\ Worker \in Publishers /\ Publishes(Worker, r) /\ ~Waiting(Worker)
      /\ run[r] = "draining"
  BY RespondPublishes
<1>2. UNCHANGED <<active, lock, run, delivered, generation, binding>>
  BY DEF Respond, bindVars
<1>3. \A q \in Publishers : Entitled(q, r) => ~Waiting(q)
  BY <1>1, EntitledExcludes
<1>4. Entitled(Worker, r)'
  BY <1>1, <1>2 DEF Entitled
<1>5. \A q \in Publishers : \A s : Entitled(q, s) => Entitled(q, s)'
  BY <1>2 DEF Entitled
<1>6. QED
  BY <1>1, <1>2, <1>3, <1>4, <1>5, PublishKeepsDelivery

LEMMA RunTaskKeepsDelivery ==
  ASSUME RequestInv, DeliveryInv, NEW r \in Requests, PublishFailure(r) \/ FinishRequest(r)
  PROVE  DeliveryInv'
<1>1. /\ TypeOK /\ r \in Publishers /\ r \notin Conns /\ r # Worker
      /\ run \in [Requests -> RunStates]
  BY SessionAssumption DEF RequestInv, Publishers, TypeOK, RequestTypeOK
<1>2. /\ run[r] \in {"drained", "failed", "reported"} /\ active = r
      /\ \/ run' = [run EXCEPT ![r] = "reported"] /\ run[r] = "failed" /\ active' = active
         \/ run' = [run EXCEPT ![r] = "ended"] /\ lock = None
      /\ UNCHANGED <<lock, delivered, generation, binding>>
  BY DEF PublishFailure, FinishRequest, RequestInv, SingleFlight, Live, bindVars
<1>3. Publishes(r, r) /\ ~Waiting(r)
  BY RunTaskPublishes DEF DeliveryInv
<1>4. \A q \in Publishers : Entitled(q, r) => ~Waiting(q)
  BY <1>2, <1>3, EntitledExcludes
<1>5. Entitled(r, r)'
  BY <1>1, <1>2 DEF Entitled
<1>6. \A q \in Publishers : \A s : s # r /\ Entitled(q, s) => Entitled(q, s)'
  BY <1>1, <1>2, SessionAssumption DEF Entitled
<1>7. QED
  BY <1>1, <1>2, <1>3, <1>4, <1>5, <1>6, PublishKeepsDelivery

\* Steps that neither move an event nor entitle anybody else to wait.
LEMMA QuietKeepsDelivery ==
  ASSUME RequestInv, DeliveryInv,
         \/ UNCHANGED vars
         \/ \E c \in Conns :
              \/ Connect(c) \/ ConnectionLost(c) \/ HandlerExit(c) \/ BindReleasesOwn(c)
              \/ BindSendFails(c) \/ AgentInterrupt(c)
              \/ (\E r \in Requests : Interrupt(c, r) \/ InterruptFactoryFails(c, r))
         \/ \E g \in Bindings : WriterSent(g)
  PROVE  DeliveryInv'
<1>1. UNCHANGED <<log, frames, queue, wait, delivered, generation, binding, active, lock, run>>
  BY DEF vars, outVars, bindVars, reqVars, Connect, ConnectionLost, HandlerExit,
         BindReleasesOwn, BindSendFails, AgentInterrupt, Interrupt, InterruptFactoryFails,
         WriterSent
<1>2. QED
  BY <1>1, RequestsMoveOn DEF Entitled, RequestInv

\* Steps of the requests that publish nothing.
LEMMA StageKeepsDelivery ==
  ASSUME RequestInv, DeliveryInv,
         \/ \E c \in Conns : AcceptRequestResumes(c)
         \/ \E c \in Conns, r \in Requests : AgentFactoryFails(c, r)
         \/ \E r \in Requests : SubmitDrain(r)
         \/ \E r \in Requests, outcome \in {"drained", "failed"} : DrainEnds(r, outcome)
  PROVE  DeliveryInv'
<1>1. TypeOK /\ run \in [Requests -> RunStates]
  BY DEF RequestInv, TypeOK, RequestTypeOK
<1>2. UNCHANGED <<log, frames, queue, wait, delivered, generation, binding>>
  BY DEF outVars, bindVars, AcceptRequestResumes, AgentFactoryFails, SubmitDrain, DrainEnds
<1>3. ASSUME NEW c \in Conns, AcceptRequestResumes(c) PROVE DeliveryInv'
  <2>1. /\ lock = c /\ active \in Requests /\ run[active] = "none" /\ ~Waiting(c)
        /\ run' = [run EXCEPT ![active] = "created"]
    BY <1>3 DEF AcceptRequestResumes, RequestInv, LockHeldByAnnouncer
  <2>2. \A p \in Publishers : \A r : Waiting(p) /\ Entitled(p, r) => Entitled(p, r)'
    BY <1>1, <2>1 DEF Entitled
  <2>3. QED
    BY <1>1, <1>2, <2>2, RequestsMoveOn
<1>4. ASSUME NEW c \in Conns, NEW r \in Requests, AgentFactoryFails(c, r) PROVE DeliveryInv'
  <2>1. lock = None /\ run' = run /\ lock' = lock
    BY <1>4 DEF AgentFactoryFails
  <2>2. \A p \in Publishers : \A s : Waiting(p) /\ Entitled(p, s) => Entitled(p, s)'
    BY <2>1, SessionAssumption DEF Entitled
  <2>3. QED
    BY <1>1, <1>2, <2>2, RequestsMoveOn
<1>5. ASSUME NEW r \in Requests, SubmitDrain(r) PROVE DeliveryInv'
  <2>1. /\ run[r] = "created" /\ run' = [run EXCEPT ![r] = "draining"]
        /\ UNCHANGED <<active, lock>>
    BY <1>5 DEF SubmitDrain
  <2>2. \A p \in Publishers : \A s : Waiting(p) /\ Entitled(p, s) => Entitled(p, s)'
    BY <1>1, <2>1 DEF Entitled
  <2>3. QED
    BY <1>1, <1>2, <2>2, RequestsMoveOn
<1>6. ASSUME NEW r \in Requests, NEW outcome \in {"drained", "failed"}, DrainEnds(r, outcome)
      PROVE  DeliveryInv'
  <2>1. /\ run[r] = "draining" /\ ~Waiting(Worker) /\ run' = [run EXCEPT ![r] = outcome]
        /\ UNCHANGED <<active, lock>>
    BY <1>6, DrainingStage DEF DrainEnds, Draining
  <2>2. \A p \in Publishers : \A s : Waiting(p) /\ Entitled(p, s) => Entitled(p, s)'
    BY <1>1, <2>1 DEF Entitled
  <2>3. QED
    BY <1>1, <1>2, <2>2, RequestsMoveOn
<1>7. QED
  BY <1>3, <1>4, <1>5, <1>6

LEMMA StepKeepsDelivery == RequestInv /\ DeliveryInv /\ [Next]_vars => DeliveryInv'
<1> SUFFICES ASSUME RequestInv, DeliveryInv, [Next]_vars PROVE DeliveryInv'
  OBVIOUS
<1>0. TypeOK
  BY DEF RequestInv
<1>1. ASSUME NEW c \in Conns, Client(c) PROVE DeliveryInv'
  <2>1. ASSUME NEW resume \in Resumes, Bind(c, resume) PROVE DeliveryInv'
    BY <1>0, <2>1, BindKeepsDelivery
  <2>2. ASSUME NEW r \in Requests, AcceptRequest(c, r) \/ AcceptRequestBlocks(c, r)
        PROVE  DeliveryInv'
    BY <2>2, AcceptKeepsDelivery
  <2>3. ASSUME NEW r \in Requests,
               AgentFactoryFails(c, r) \/ Interrupt(c, r) \/ InterruptFactoryFails(c, r)
        PROVE  DeliveryInv'
    BY <2>3, QuietKeepsDelivery, StageKeepsDelivery
  <2>4. CASE Connect(c) \/ ConnectionLost(c) \/ BindReleasesOwn(c)
    BY <2>4, QuietKeepsDelivery
  <2>5. QED
    BY <1>1, <2>1, <2>2, <2>3, <2>4 DEF Client
<1>2. ASSUME NEW c \in Conns, Handler(c) PROVE DeliveryInv'
  BY <1>0, <1>2, InstallKeepsDelivery, QuietKeepsDelivery, StageKeepsDelivery DEF Handler
<1>3. ASSUME NEW g \in Bindings, WriterTakes(g) \/ WriterSent(g) PROVE DeliveryInv'
  BY <1>0, <1>3, TakeKeepsDelivery, QuietKeepsDelivery
<1>4. ASSUME NEW p \in Publishers, PutDone(p) \/ GiveUpPut(p) PROVE DeliveryInv'
  <2>1. PlacesInv' /\ OrderInv' /\ WaitersInv'
    BY <1>0, <1>4, PutKeepsOrder DEF DeliveryInv
  <2>2. UNCHANGED <<generation, binding, delivered>>
    BY <1>4 DEF PutDone, GiveUpPut, Unblocked, bindVars
  <2>3. QED
    BY <2>1, <2>2, ReplayUnmoved DEF DeliveryInv
<1>5. ASSUME NEW r \in Requests, RunTask(r) PROVE DeliveryInv'
  BY <1>5, StageKeepsDelivery, RunTaskKeepsDelivery DEF RunTask
<1>6. CASE Executor
  BY <1>6, RespondKeepsDelivery, StageKeepsDelivery, QuietKeepsDelivery DEF Executor
<1>7. CASE UNCHANGED vars
  BY <1>7, QuietKeepsDelivery
<1>8. QED
  BY <1>1, <1>2, <1>3, <1>4, <1>5, <1>6, <1>7 DEF Next

LEMMA DeliveryHolds == Spec => []DeliveryInv
<1>1. Init => DeliveryInv
  <2> SUFFICES ASSUME Init PROVE DeliveryInv
    OBVIOUS
  <2>1. /\ queue = <<>> /\ log = <<>> /\ frames = <<>>
        /\ \A p \in Publishers : wait[p].todo = <<>>
        /\ \A g \in Bindings : delivered[g] = <<>> /\ binding[g].replay = {}
    BY DEF Init, Replay!Init, Idle
  <2>2. /\ InQueue = {} /\ Replay!RetainedIndices = {}
        /\ \A p \in Publishers : InWait(p) = {}
        /\ \A g \in Bindings : SentTo(g) = {}
    BY <2>1 DEF InQueue, InWait, SentTo, Replay!RetainedIndices
  <2>3. Ordered(log, <<>>)
    BY DEF Ordered
  <2>4. PlacesInv /\ WaitersInv /\ ReplayInv
    BY <2>1, <2>2 DEF PlacesInv, WaitersInv, ReplayInv
  <2>5. OrderInv
    BY <2>1, <2>2, <2>3 DEF OrderInv, AllBefore
  <2>6. QED
    BY <2>4, <2>5 DEF DeliveryInv
<1>2. QED
  BY <1>1, StepKeepsDelivery, RequestsAreConsistent, PTL DEF Spec

\* No websocket is sent an event twice: not by replay and live delivery, because
\* live_from_event_index separates them, and not by two writers that share the queue
\* or a put that is given up, because a place of the order holds an event once.
THEOREM DeliveryIsOnce == Spec => []NoDuplicateDelivery
<1>1. TypeOK /\ DeliveryInv => NoDuplicateDelivery
  <2> SUFFICES ASSUME TypeOK, DeliveryInv, NEW g \in Bindings
               PROVE  /\ \A i \in binding[g].replay, k \in 1..Len(delivered[g]) :
                           delivered[g][k] # i
                      /\ \A j, k \in 1..Len(delivered[g]) :
                           j # k => delivered[g][j] # delivered[g][k]
    BY DEF NoDuplicateDelivery
  <2>1. /\ delivered[g] \in Seq(Nat) /\ binding[g].liveFrom \in Nat
        /\ binding[g].replay \subseteq Nat
    BY DEF TypeOK, BindTypeOK, BindingType
  <2>2. ASSUME NEW i \in binding[g].replay, NEW k \in 1..Len(delivered[g])
        PROVE  delivered[g][k] # i
    <3>1. i < binding[g].liveFrom /\ binding[g].liveFrom <= delivered[g][k]
      BY DEF DeliveryInv, ReplayInv, SentTo
    <3>2. i \in Nat /\ delivered[g][k] \in Nat
      BY <2>1
    <3>3. QED
      BY <2>1, <3>1, <3>2
  <2>3. ASSUME NEW j \in 1..Len(delivered[g]), NEW k \in 1..Len(delivered[g]), j < k
        PROVE  delivered[g][j] # delivered[g][k]
    <3>1. Before(log, delivered[g][j], delivered[g][k])
      BY <2>3 DEF DeliveryInv, OrderInv, Ordered
    <3>2. delivered[g][j] \in Nat /\ delivered[g][k] \in Nat
      BY <2>1
    <3>3. QED
      BY <3>1, <3>2 DEF Before
  <2>4. \A j, k \in 1..Len(delivered[g]) : j # k => j < k \/ k < j
    BY <2>1
  <2>5. QED
    BY <2>2, <2>3, <2>4
<1>2. QED
  BY <1>1, DeliveryHolds, TypesAreCorrect, PTL

\* The events of one request reach a websocket in index order, whatever had to wait
\* for room; only a backpressure notice overtakes the event whose wait it announces.
THEOREM DeliveryIsInOrder == Spec => []RequestEventsInOrder
<1>1. DeliveryInv => RequestEventsInOrder
  BY DEF DeliveryInv, OrderInv, Ordered, Before, RequestEventsInOrder
<1>2. QED
  BY <1>1, DeliveryHolds, PTL

-----------------------------------------------------------------------------
(* Nothing is lost silently, as long as binds do not overlap.               *)

\* Steps that create no writer.
LEMMA WriterKept ==
  ASSUME TypeOK, TypeOK', WriterInv, UNCHANGED <<generation, binding>>,
         \A g \in Bindings : Lively(g)' => Lively(g) /\ (writerTask = g => writerTask' = g),
         \A c \in Conns : pc'[c] = "sending" => pc[c] = "sending",
         Len(log') >= Len(log)
  PROVE  WriterInv'
<1>1. /\ Len(log) \in Nat /\ Len(log') \in Nat
      /\ \A g \in Bindings : binding[g].liveFrom \in Nat
  BY DEF TypeOK, OutTypeOK, BindTypeOK, BindingType
<1>2. \A g \in Bindings :
        binding[g].liveFrom <= Len(log) + 1 => binding[g].liveFrom <= Len(log') + 1
  BY <1>1
<1>3. QED
  BY <1>2 DEF WriterInv

\* A writer task that has ended is detached by whoever publishes next; a lively one
\* is the one that is waited for.
LEMMA LivelyIsActive ==
  ASSUME WriterInv, NEW g \in Bindings, Lively(g)
  PROVE  ActiveWriter = g /\ ActiveWriter # NoBinding /\ writerTask = g /\ ~Finished(g)
  BY DEF WriterInv, Lively, ActiveWriter, Finished, NoBinding, Bindings

LEMMA PublishKeepsWriter ==
  ASSUME TypeOK, TypeOK', PlacesInv, WriterInv, NEW p, NEW r, Publishes(p, r),
         UNCHANGED <<generation, binding, writer>>,
         \A c \in Conns : pc'[c] = "sending" => pc[c] = "sending"
  PROVE  WriterInv'
<1>1. PICK new \in Seq(FrameType) : Replay!Store(new)
  BY DEF Publishes
<1>2. Len(log) \in Nat /\ Len(new) \in Nat /\ Len(log') = Len(log) + Len(new)
  BY <1>1, StoreFacts DEF PlacesInv
<1>3. writerTask' \in {writerTask, ActiveWriter}
  BY DEF Publishes
<1>4. \A g \in Bindings : Lively(g)' <=> Lively(g)
  BY DEF Lively
<1>5. Len(log') >= Len(log)
  BY <1>2
<1>6. QED
  BY <1>3, <1>4, <1>5, LivelyIsActive, WriterKept

\* A handler that cancels its own writer.
LEMMA CancelKeepsWriter ==
  ASSUME TypeOK, TypeOK', WriterInv, NEW c \in Conns, CancelOwn(c),
         UNCHANGED <<log, generation, binding>>,
         \A d \in Conns : pc'[d] = "sending" => pc[d] = "sending"
  PROVE  /\ WriterInv'
         /\ \A g \in Bindings : Lively(g)' => Lively(g)
<1>1. writer \in [Bindings -> {"none", "idle", "sending", "done", "failed"}]
  BY DEF TypeOK, WriterTypeOK
<1>2. \A g \in Bindings : Lively(g)' => Lively(g) /\ (own[c] # NoBinding => g # own[c])
  <2>1. CASE own[c] = NoBinding
    BY <2>1 DEF CancelOwn, Lively
  <2>2. CASE own[c] # NoBinding
    BY <1>1, <2>2 DEF CancelOwn, Cancelled, Lively
  <2>3. QED
    BY <2>1, <2>2
<1>3. \A g \in Bindings : Lively(g)' => (writerTask = g => writerTask' = g)
  BY <1>2 DEF CancelOwn
<1>4. Len(log') >= Len(log)
  BY DEF TypeOK, OutTypeOK
<1>5. QED
  BY <1>2, <1>3, <1>4, WriterKept

\* A bind leaves no writer lively, and its handler is the only one that replays.
LEMMA BindKeepsWriter ==
  ASSUME ~OverlappingBinds, TypeOK, WriterInv, NEW c \in Conns, NEW resume, Bind(c, resume)
  PROVE  WriterInv' /\ \A g \in Bindings : ~Lively(g)'
<1> DEFINE g == generation + 1
<1>1. /\ g \in Bindings /\ generation' = g /\ log' = log /\ generation \in Nat
      /\ pc' = [pc EXCEPT ![c] = "closed"] \/ pc' = [pc EXCEPT ![c] = "sending"]
      /\ pc \in [Conns -> {"new", "recv", "rebind", "sending", "publishing",
                           "interrupting", "closed"}]
      /\ \A d \in Conns \ {c} : pc[d] # "sending"
      /\ \A h \in Bindings \ {g} : binding'[h] = binding[h]
      /\ binding'[g].conn = c /\ binding'[g].liveFrom = Len(log) + 1
  <2>1. g \in Bindings /\ generation' = g /\ log' = log /\ generation \in Nat
    BY DEF Bind, outVars, TypeOK, BindTypeOK
  <2>2. pc' = [pc EXCEPT ![c] = "closed"] \/ pc' = [pc EXCEPT ![c] = "sending"]
    BY DEF Bind
  <2>3. \A d \in Conns \ {c} : pc[d] # "sending"
    BY DEF Bind, MayBind
  <2>4. /\ \A h \in Bindings \ {g} : binding'[h] = binding[h]
        /\ binding'[g].conn = c /\ binding'[g].liveFrom = Len(log) + 1
    BY DEF Bind, TypeOK, BindTypeOK, Replay!NextEventIndex
  <2>5. QED
    BY <2>1, <2>2, <2>3, <2>4 DEF TypeOK, ConnTypeOK
<1>2. \A h \in Bindings : ~Lively(h)'
  <2>1. writer \in [Bindings -> {"none", "idle", "sending", "done", "failed"}]
    BY DEF TypeOK, WriterTypeOK
  <2>2. ASSUME NEW h \in Bindings, Lively(h)' PROVE FALSE
    <3>1. CASE writerTask = NoBinding
      <4>1. writer' = writer
        BY <3>1 DEF Bind
      <4>2. writerTask = h
        BY <2>2, <4>1 DEF WriterInv, Lively
      <4>3. QED
        BY <3>1, <4>2 DEF NoBinding, Bindings
    <3>2. CASE writerTask # NoBinding
      <4>1. writer' = Cancelled(writerTask)
        BY <3>2 DEF Bind
      <4>2. Lively(h) /\ writerTask # h
        BY <2>1, <2>2, <4>1 DEF Cancelled, Lively
      <4>3. QED
        BY <4>2 DEF WriterInv
    <3>3. QED
      BY <3>1, <3>2
  <2>3. QED
    BY <2>2
<1>3. \A h \in Bindings \ {g} : binding[h].conn # None => h <= g
  <2>1. \A h \in Bindings : h <= generation => h <= g
    BY <1>1 DEF Bindings
  <2>2. QED
    BY <2>1 DEF WriterInv
<1>4. Len(log) + 1 <= Len(log) + 1 /\ g <= g
  BY <1>1 DEF TypeOK, OutTypeOK
<1> HIDE DEF g
<1>5. \A d \in Conns : pc'[d] = "sending" => d = c
  BY <1>1
<1>6. QED
  BY <1>1, <1>2, <1>3, <1>4, <1>5 DEF WriterInv

\* The writer a handler installs is that of the current binding.
LEMMA InstalledIsCurrent ==
  ASSUME TypeOK, WriterInv, NEW c \in Conns, pc[c] = "sending",
         NEW g \in Bindings, Holds(c, g)
  PROVE  g = generation
<1>1. /\ generation \in Bindings /\ binding[generation].conn = c /\ binding[g].conn = c
      /\ c # None
  BY SessionAssumption DEF WriterInv, Holds
<1>2. generation <= g /\ g <= generation
  BY <1>1 DEF Holds, WriterInv
<1>3. QED
  BY <1>1, <1>2 DEF Bindings

LEMMA InstallKeepsWriter ==
  ASSUME TypeOK, PlacesInv, WriterInv, NEW c \in Conns, InstallWriter(c)
  PROVE  /\ WriterInv'
         /\ \A h \in Bindings : Lively(h)' =>
              /\ binding'[h].installedAt = Len(log) + 1
              /\ UNCHANGED <<log, queue, wait, delivered>>
<1>1. PICK g \in Bindings :
        /\ Holds(c, g)
        /\ writer' = [writer EXCEPT ![g] = "idle"]
        /\ writerTask' = g
        /\ binding' = [binding EXCEPT ![g].installedAt = Len(log) + 1]
  BY DEF InstallWriter, Replay!NextEventIndex
<1>2. pc[c] = "sending" /\ pc' = [pc EXCEPT ![c] = "recv"] /\ generation' = generation
      /\ UNCHANGED <<log, queue, wait, delivered>>
  BY DEF InstallWriter, outVars
<1>3. /\ writer \in [Bindings -> {"none", "idle", "sending", "done", "failed"}]
      /\ binding \in [Bindings -> BindingType]
      /\ pc \in [Conns -> {"new", "recv", "rebind", "sending", "publishing",
                           "interrupting", "closed"}]
  BY DEF TypeOK, WriterTypeOK, BindTypeOK, ConnTypeOK
<1>4. g = generation
  BY <1>1, <1>2, InstalledIsCurrent
<1>5. \A h \in Bindings : Lively(h)' => h = g
  BY <1>1, <1>2, <1>3 DEF WriterInv, Lively
<1>6. /\ binding'[g].installedAt = Len(log) + 1
      /\ \A h \in Bindings : /\ binding'[h].conn = binding[h].conn
                             /\ binding'[h].liveFrom = binding[h].liveFrom
  BY <1>1, <1>3 DEF BindingType
<1>7. binding[g].liveFrom <= Len(log) + 1 /\ 1 <= Len(log) + 1
  BY <1>2, <1>4 DEF WriterInv, TypeOK, OutTypeOK
<1>8. \A d \in Conns : pc'[d] # "sending"
  BY <1>2, <1>3 DEF WriterInv
<1>9. WriterInv'
  BY <1>1, <1>2, <1>4, <1>5, <1>6, <1>7, <1>8 DEF WriterInv
<1>10. QED
  BY <1>2, <1>5, <1>6, <1>9

\* Steps that move no event and create no writer.
LEMMA LossUnmoved ==
  ASSUME NoLossInv, UNCHANGED <<log, queue, wait, delivered, binding>>,
         \A g \in Bindings : Lively(g)' => Lively(g)
  PROVE  NoLossInv'
<1>1. /\ InQueue' = InQueue
      /\ \A p \in Publishers : InWait(p)' = InWait(p)
      /\ \A g \in Bindings : SentTo(g)' = SentTo(g)
  BY DEF InQueue, InWait, SentTo
<1>2. \A g \in Bindings : \A i : Kept(g, i)' <=> Kept(g, i)
  BY <1>1 DEF Kept
<1>3. QED
  BY <1>1, <1>2 DEF NoLossInv

\* With a lively writer, publishing drops nothing but deltas, and waits for it.
LEMMA PublishLosesNothing ==
  ASSUME TypeOK, PlacesInv, WriterInv, NoLossInv,
         NEW p \in Publishers, NEW r \in Requests, Publishes(p, r), ~Waiting(p),
         UNCHANGED <<delivered, binding, writer>>
  PROVE  NoLossInv'
<1> SUFFICES ASSUME NEW g \in Bindings, Lively(g)'
             PROVE  /\ \A i \in (binding[g].installedAt..Len(log))' : Kept(g, i)'
                    /\ \A q \in Publishers : wait'[q].on # g =>
                         \A i \in InWait(q)' : i < binding'[g].installedAt
  BY DEF NoLossInv
<1>1. Lively(g) /\ ActiveWriter = g /\ ActiveWriter # NoBinding
  BY LivelyIsActive DEF Lively
<1>2. PICK new \in Seq(FrameType), n \in Nat :
        /\ n = Len(log) + 1
        /\ Replay!Store(new)
        /\ \/ Len(new) = 1 /\ queue' = Append(queue, n) /\ wait' = wait
           \/ Len(new) = 1 /\ queue' = queue /\ wait' = wait /\ Droppable(new[1].kind)
           \/ /\ Len(new) = 1 /\ queue' = queue
              /\ wait' = [wait EXCEPT ![p] = [todo |-> <<n>>, on |-> g]]
           \/ /\ Len(new) = 2 /\ queue' = queue
              /\ wait' = [wait EXCEPT ![p] = [todo |-> <<n + 1, n>>, on |-> g]]
  BY <1>1 DEF Publishes
<1>3. /\ Len(log) \in Nat /\ Len(log') = Len(log) + Len(new)
      /\ \A i \in 1..Len(log) : log'[i] = log[i]
      /\ \A k \in 1..Len(new) : log'[Len(log) + k] = new[k]
  BY <1>2, StoreFacts DEF PlacesInv
<1>4. /\ wait[p].todo = <<>> /\ InWait(p) = {} /\ SentTo(g)' = SentTo(g)
      /\ wait \in [Publishers -> WaitType] /\ queue \in Seq(Nat)
  BY DEF Waiting, InWait, SentTo, TypeOK, OutTypeOK
<1>5. \A q \in Publishers \ {p} : InWait(q)' = InWait(q) /\ wait'[q] = wait[q]
  BY <1>2, <1>4 DEF InWait
<1>6. InQueue \subseteq InQueue' /\ (queue' = Append(queue, n) => n \in InQueue')
  <2>1. CASE queue' = queue
    <3>1. Len(queue) # Len(queue) + 1 /\ Len(Append(queue, n)) = Len(queue) + 1
      BY <1>4
    <3>2. queue' # Append(queue, n)
      BY <2>1, <3>1
    <3>3. QED
      BY <2>1, <3>2 DEF InQueue
  <2>2. CASE queue' = Append(queue, n)
    <3>1. {Append(queue, n)[k] : k \in 1..Len(Append(queue, n))} =
            {queue[k] : k \in 1..Len(queue)} \cup {n}
      BY <1>4, AppendElements
    <3>2. QED
      BY <2>2, <3>1 DEF InQueue
  <2>3. QED
    BY <1>2, <2>1, <2>2
<1>7. binding[g].installedAt \in Nat /\ 1 <= binding[g].installedAt
  BY <1>1 DEF WriterInv, TypeOK, BindTypeOK, BindingType
<1>8. ASSUME NEW i \in 1..Len(log), Kept(g, i) PROVE Kept(g, i)'
  BY <1>3, <1>4, <1>5, <1>6, <1>8 DEF Kept
<1>9. ASSUME NEW i, i = n \/ (Len(new) = 2 /\ i = n + 1) PROVE Kept(g, i)'
  <2>1. CASE Len(new) = 1 /\ queue' = Append(queue, n)
    BY <1>6, <1>9, <2>1 DEF Kept
  <2>2. CASE Len(new) = 1 /\ Droppable(new[1].kind)
    <3>1. log'[n] = new[1]
      BY <1>2, <1>3, <2>2
    <3>2. QED
      BY <1>9, <2>2, <3>1 DEF Kept
  <2>3. CASE Len(new) = 1 /\ wait' = [wait EXCEPT ![p] = [todo |-> <<n>>, on |-> g]]
    <3>1. wait'[p].todo = <<n>> /\ i = n
      BY <1>4, <1>9, <2>3
    <3>2. i \in InWait(p)'
      BY <3>1 DEF InWait
    <3>3. QED
      BY <3>2 DEF Kept
  <2>4. CASE Len(new) = 2 /\ wait' = [wait EXCEPT ![p] = [todo |-> <<n + 1, n>>, on |-> g]]
    <3>1. wait'[p].todo = <<n + 1, n>>
      BY <1>4, <2>4
    <3>2. i \in InWait(p)'
      BY <1>9, <3>1 DEF InWait
    <3>3. QED
      BY <3>2 DEF Kept
  <2>5. QED
    BY <1>2, <2>1, <2>2, <2>3, <2>4
<1>10. ASSUME NEW i \in binding[g].installedAt..Len(log') PROVE Kept(g, i)'
  <2>1. CASE i <= Len(log)
    <3>1. i \in 1..Len(log) /\ i \in binding[g].installedAt..Len(log)
      BY <1>3, <1>7, <2>1
    <3>2. Kept(g, i)
      BY <1>1, <3>1 DEF NoLossInv
    <3>3. QED
      BY <1>8, <3>1, <3>2
  <2>2. CASE ~(i <= Len(log))
    <3>1. i = n \/ (Len(new) = 2 /\ i = n + 1)
      <4>1. Len(new) = 1 \/ Len(new) = 2
        BY <1>2
      <4>2. i \in Nat /\ i > Len(log) /\ i <= Len(log) + Len(new) /\ n = Len(log) + 1
        BY <1>2, <1>3, <1>7, <2>2
      <4>3. \A a, j \in Nat : \A b \in {1, 2} :
              j > a /\ j <= a + b => j = a + 1 \/ (b = 2 /\ j = (a + 1) + 1)
        OBVIOUS
      <4>4. QED
        BY <1>3, <4>1, <4>2, <4>3
    <3>2. QED
      BY <1>9, <3>1
  <2>3. QED
    BY <2>1, <2>2
<1>11. ASSUME NEW q \in Publishers, wait'[q].on # g, NEW i \in InWait(q)'
       PROVE  i < binding[g].installedAt
  <2>1. CASE q = p
    <3>1. CASE wait' = wait
      <4>1. InWait(p)' = {}
        BY <1>4, <3>1 DEF InWait
      <4>2. QED
        BY <2>1, <4>1, <1>11
    <3>2. CASE wait' # wait
      <4>1. wait'[p].on = g
        BY <1>2, <1>4, <3>2
      <4>2. QED
        BY <1>11, <2>1, <4>1
    <3>3. QED
      BY <3>1, <3>2
  <2>2. CASE q # p
    BY <1>1, <1>5, <1>11, <2>2 DEF NoLossInv
  <2>3. QED
    BY <2>1, <2>2
<1>12. QED
  BY <1>10, <1>11

\* A writer sends what it takes, or the replay covered it.
LEMMA TakeLosesNothing ==
  ASSUME TypeOK, WriterInv, NoLossInv, NEW h \in Bindings, WriterTakes(h)
  PROVE  NoLossInv'
<1> SUFFICES ASSUME NEW g \in Bindings, Lively(g)'
             PROVE  /\ \A i \in (binding[g].installedAt..Len(log))' : Kept(g, i)'
                    /\ \A q \in Publishers : wait'[q].on # g =>
                         \A i \in InWait(q)' : i < binding'[g].installedAt
  BY DEF NoLossInv
<1> DEFINE i == Head(queue)
<1>1. /\ queue \in Seq(Nat) /\ queue # <<>> /\ i \in Nat /\ queue' = Tail(queue)
      /\ delivered \in [Bindings -> Seq(Nat)]
      /\ writer \in [Bindings -> {"none", "idle", "sending", "done", "failed"}]
      /\ UNCHANGED <<log, wait, binding, generation>>
  BY DEF WriterTakes, TypeOK, OutTypeOK, BindTypeOK, WriterTypeOK
<1>2. Lively(h) /\ Lively(g) /\ g = h /\ generation = g
  <2>1. Lively(h)
    BY DEF WriterTakes, Lively
  <2>2. Lively(g)
    BY <1>1 DEF WriterTakes, Lively
  <2>3. QED
    BY <2>1, <2>2 DEF WriterInv
<1>3. /\ binding[g].liveFrom \in Nat /\ binding[g].installedAt \in Nat
      /\ binding[g].liveFrom <= binding[g].installedAt
  BY <1>2 DEF WriterInv, TypeOK, BindTypeOK, BindingType
<1>4. \/ i < binding[g].liveFrom /\ delivered' = delivered
      \/ delivered' = [delivered EXCEPT ![g] = Append(@, i)]
  <2>1. CASE i < binding[g].liveFrom
    BY <1>1, <1>2, <1>3, <2>1 DEF WriterTakes
  <2>2. CASE ~(i < binding[g].liveFrom)
    <3>1. i >= binding[g].liveFrom
      BY <1>1, <1>3, <2>2
    <3>2. binding[g].conn \in up
      BY <1>1, <1>2, <2>2, <3>1 DEF WriterTakes, Lively
    <3>3. QED
      BY <1>2, <3>1, <3>2 DEF WriterTakes
  <2>3. QED
    BY <2>1, <2>2
<1>5. InQueue = {i} \cup InQueue' /\ \A p \in Publishers : InWait(p)' = InWait(p)
  <2>1. {queue[k] : k \in 1..Len(queue)} =
          {i} \cup {Tail(queue)[k] : k \in 1..Len(Tail(queue))}
    BY <1>1, HeadOrTail
  <2>2. QED
    BY <1>1, <2>1 DEF InQueue, InWait
<1>6. SentTo(g) \subseteq SentTo(g)' /\ (i \in SentTo(g)' \/ i < binding[g].liveFrom)
  <2>1. CASE i < binding[g].liveFrom /\ delivered' = delivered
    BY <2>1 DEF SentTo
  <2>2. CASE delivered' = [delivered EXCEPT ![g] = Append(@, i)]
    <3>1. delivered[g] \in Seq(Nat) /\ delivered'[g] = Append(delivered[g], i)
      BY <1>1, <2>2
    <3>2. {Append(delivered[g], i)[k] : k \in 1..Len(Append(delivered[g], i))} =
            {delivered[g][k] : k \in 1..Len(delivered[g])} \cup {i}
      BY <1>1, <3>1, AppendElements
    <3>3. QED
      BY <3>1, <3>2 DEF SentTo
  <2>3. QED
    BY <1>4, <2>1, <2>2
<1> HIDE DEF i
<1>7. ASSUME NEW j \in binding[g].installedAt..Len(log) PROVE Kept(g, j)'
  <2>1. Kept(g, j)
    BY <1>2 DEF NoLossInv
  <2>2. j = i => i \in SentTo(g)'
    BY <1>1, <1>3, <1>6, <1>7
  <2>3. QED
    BY <1>1, <1>5, <1>6, <2>1, <2>2 DEF Kept
<1>8. QED
  BY <1>1, <1>2, <1>5, <1>7 DEF NoLossInv

\* A put that ends queues its event, or gives it up to a writer that is gone.
LEMMA PutLosesNothing ==
  ASSUME TypeOK, WriterInv, NoLossInv, NEW p \in Publishers, PutDone(p) \/ GiveUpPut(p)
  PROVE  NoLossInv'
<1> SUFFICES ASSUME NEW g \in Bindings, Lively(g)'
             PROVE  /\ \A i \in (binding[g].installedAt..Len(log))' : Kept(g, i)'
                    /\ \A q \in Publishers : wait'[q].on # g =>
                         \A i \in InWait(q)' : i < binding'[g].installedAt
  BY DEF NoLossInv
<1> DEFINE todo == wait[p].todo
<1>1. /\ todo \in Seq(Nat) /\ todo # <<>> /\ Head(todo) \in Nat /\ queue \in Seq(Nat)
      /\ Waiting(p) /\ EndWait(p) /\ wait \in [Publishers -> WaitType]
      /\ UNCHANGED <<log, delivered, binding, writer>>
  BY PlaceTypes DEF PutDone, GiveUpPut, Waiting, Unblocked, bindVars, TypeOK, OutTypeOK
<1>2. Lively(g) /\ writerTask = g /\ ~Finished(g) /\ g # NoBinding
  BY <1>1, LivelyIsActive DEF Lively
<1>3. wait' = [wait EXCEPT ![p] =
                IF Tail(todo) = <<>> THEN Idle ELSE [todo |-> Tail(todo), on |-> g]]
  <2>1. ~(writerTask = wait[p].on /\ Finished(wait[p].on))
    BY <1>2
  <2>2. CASE Tail(todo) = <<>>
    BY <1>1, <2>1, <2>2 DEF EndWait
  <2>3. CASE Tail(todo) # <<>>
    BY <1>1, <1>2, <2>1, <2>3 DEF EndWait
  <2>4. QED
    BY <2>2, <2>3
<1>4. /\ wait'[p].todo = Tail(todo)
      /\ Tail(todo) # <<>> => wait'[p].on = g
      /\ \A q \in Publishers \ {p} : wait'[q] = wait[q] /\ InWait(q)' = InWait(q)
  BY <1>1, <1>3 DEF Idle, InWait
<1>5. InWait(p) = {Head(todo)} \cup InWait(p)' /\ SentTo(g)' = SentTo(g)
  <2>1. {todo[k] : k \in 1..Len(todo)} =
          {Head(todo)} \cup {Tail(todo)[k] : k \in 1..Len(Tail(todo))}
    BY <1>1, HeadOrTail
  <2>2. QED
    BY <1>1, <1>4, <2>1 DEF InWait, SentTo
<1>6. InQueue \subseteq InQueue'
      /\ (Head(todo) \in InQueue' \/ Head(todo) < binding[g].installedAt)
  <2>1. CASE PutDone(p)
    <3>1. {Append(queue, Head(todo))[k] : k \in 1..Len(Append(queue, Head(todo)))} =
            {queue[k] : k \in 1..Len(queue)} \cup {Head(todo)}
      BY <1>1, AppendElements
    <3>2. queue' = Append(queue, Head(todo))
      BY <2>1 DEF PutDone
    <3>3. QED
      BY <3>1, <3>2 DEF InQueue
  <2>2. CASE GiveUpPut(p)
    <3>1. wait[p].on # g /\ queue' = queue
      BY <1>2, <2>2 DEF GiveUpPut
    <3>2. QED
      BY <1>2, <1>5, <3>1 DEF NoLossInv, InQueue
  <2>3. QED
    BY <2>1, <2>2
<1> HIDE DEF todo
<1>7. binding[g].installedAt \in Nat
  BY DEF TypeOK, BindTypeOK, BindingType
<1>8. ASSUME NEW j \in binding[g].installedAt..Len(log) PROVE Kept(g, j)'
  <2>1. Kept(g, j)
    BY <1>2 DEF NoLossInv
  <2>2. j = Head(todo) => j \in InQueue'
    BY <1>1, <1>6, <1>7, <1>8
  <2>3. CASE \E q \in Publishers : j \in InWait(q)
    BY <1>4, <1>5, <2>2, <2>3 DEF Kept
  <2>4. CASE ~\E q \in Publishers : j \in InWait(q)
    BY <1>1, <1>5, <1>6, <2>1, <2>4 DEF Kept
  <2>5. QED
    BY <2>3, <2>4
<1>9. ASSUME NEW q \in Publishers, wait'[q].on # g, NEW i \in InWait(q)'
      PROVE  i < binding[g].installedAt
  <2>1. CASE q = p
    <3>1. Tail(todo) = <<>>
      BY <1>4, <1>9, <2>1
    <3>2. wait'[p].todo = <<>>
      BY <1>4, <3>1
    <3>3. InWait(p)' = {}
      BY <3>2 DEF InWait
    <3>4. QED
      BY <1>9, <2>1, <3>3
  <2>2. CASE q # p
    BY <1>2, <1>4, <1>9, <2>2 DEF NoLossInv
  <2>3. QED
    BY <2>1, <2>2
<1>10. QED
  BY <1>1, <1>8, <1>9

\* The inductive invariant behind NoSilentLoss; binds that overlap break it.
LossInv == ~OverlappingBinds => WriterInv /\ NoLossInv

LEMMA PublishKeepsLoss ==
  ASSUME TypeOK, TypeOK', PlacesInv, LossInv,
         NEW p \in Publishers, NEW r \in Requests, Publishes(p, r), ~Waiting(p),
         UNCHANGED <<bindVars, writer>>,
         \A c \in Conns : pc'[c] = "sending" => pc[c] = "sending"
  PROVE  LossInv'
<1>1. UNCHANGED <<generation, binding, delivered, writer>>
  BY DEF bindVars
<1>2. QED
  BY <1>1, PublishKeepsWriter, PublishLosesNothing DEF LossInv

\* Steps that move no event and create no writer.
LEMMA QuietKeepsLoss ==
  ASSUME TypeOK, TypeOK', LossInv,
         UNCHANGED <<log, queue, wait, delivered, generation, binding>>,
         \A g \in Bindings : Lively(g)' => Lively(g) /\ (writerTask = g => writerTask' = g),
         \A c \in Conns : pc'[c] = "sending" => pc[c] = "sending"
  PROVE  LossInv'
<1>1. Len(log') >= Len(log)
  BY DEF TypeOK, OutTypeOK
<1>2. QED
  BY <1>1, WriterKept, LossUnmoved DEF LossInv

LEMMA CancelKeepsLoss ==
  ASSUME TypeOK, TypeOK', LossInv, NEW c \in Conns,
         \/ HandlerExit(c) \/ BindReleasesOwn(c)
         \/ \E r \in Requests : AgentFactoryFails(c, r) \/ InterruptFactoryFails(c, r)
  PROVE  LossInv'
<1>1. /\ CancelOwn(c)
      /\ UNCHANGED <<log, queue, wait, delivered, generation, binding>>
      /\ pc' = [pc EXCEPT ![c] = "closed"] \/ pc' = [pc EXCEPT ![c] = "rebind"]
  BY DEF HandlerExit, BindReleasesOwn, AgentFactoryFails, InterruptFactoryFails,
         outVars, bindVars
<1>2. \A d \in Conns : pc'[d] = "sending" => pc[d] = "sending"
  BY <1>1 DEF TypeOK, ConnTypeOK
<1>3. QED
  BY <1>1, <1>2, CancelKeepsWriter, LossUnmoved DEF LossInv

LEMMA StepKeepsLoss ==
  RequestInv /\ DeliveryInv /\ LossInv /\ [Next]_vars => LossInv'
<1> SUFFICES ASSUME RequestInv, DeliveryInv, LossInv, [Next]_vars PROVE LossInv'
  OBVIOUS
<1>0. TypeOK /\ TypeOK' /\ PlacesInv /\ WaitersInv
  BY StepTypes DEF RequestInv, DeliveryInv
<1>1. pc \in [Conns -> {"new", "recv", "rebind", "sending", "publishing", "interrupting",
                        "closed"}]
  BY <1>0 DEF TypeOK, ConnTypeOK
\* A step that leaves the bindings, the writers and the places of events alone.
<1>2. ASSUME UNCHANGED <<log, queue, wait, bindVars, writerTask, writer>>,
             \A d \in Conns : pc'[d] = "sending" => pc[d] = "sending"
      PROVE  LossInv'
  BY <1>0, <1>2, QuietKeepsLoss DEF Lively, bindVars
<1>3. ASSUME NEW c \in Conns, NEW resume, Bind(c, resume) PROVE LossInv'
  BY <1>0, <1>3, BindKeepsWriter DEF LossInv, NoLossInv
<1>4. ASSUME NEW c \in Conns, InstallWriter(c) PROVE LossInv'
  <2>1. CASE ~OverlappingBinds
    <3>1. /\ WriterInv'
          /\ \A h \in Bindings : Lively(h)' =>
               /\ binding'[h].installedAt = Len(log) + 1
               /\ UNCHANGED <<log, queue, wait, delivered>>
      BY <1>0, <1>4, <2>1, InstallKeepsWriter DEF LossInv
    <3>2. /\ \A i \in 1..Len(log) : i < Len(log) + 1
          /\ \A i \in (Len(log) + 1)..Len(log) : FALSE
      BY <1>0 DEF TypeOK, OutTypeOK
    <3>3. ASSUME NEW h \in Bindings, Lively(h)'
          PROVE  /\ \A i \in (binding[h].installedAt..Len(log))' : Kept(h, i)'
                 /\ \A p \in Publishers : wait'[p].on # h =>
                      \A i \in InWait(p)' : i < binding'[h].installedAt
      <4>1. \A p \in Publishers : InWait(p)' = InWait(p)
        BY <3>1, <3>3 DEF InWait
      <4>2. QED
        BY <1>0, <3>1, <3>2, <3>3, <4>1 DEF PlacesInv
    <3>4. NoLossInv'
      BY <3>3 DEF NoLossInv
    <3>5. QED
      BY <3>1, <3>4 DEF LossInv
  <2>2. QED
    BY <2>1 DEF LossInv
<1>5. ASSUME NEW c \in Conns, NEW r \in Requests,
             AcceptRequest(c, r) \/ AcceptRequestBlocks(c, r)
      PROVE  LossInv'
  <2>1. /\ UNCHANGED <<bindVars, writer>>
        /\ pc' = pc \/ pc' = [pc EXCEPT ![c] = "publishing"]
    BY <1>5 DEF AcceptRequest, AcceptRequestBlocks, connVars
  <2>2. \A d \in Conns : pc'[d] = "sending" => pc[d] = "sending"
    BY <1>1, <2>1
  <2>3. QED
    BY <1>0, <1>5, <2>1, <2>2, AcceptPublishes, PublishKeepsLoss
<1>6. ASSUME NEW c \in Conns, Client(c) PROVE LossInv'
  <2>1. ASSUME Connect(c) \/ ConnectionLost(c) \/ \E r \in Requests : Interrupt(c, r)
        PROVE  LossInv'
    <3>1. /\ UNCHANGED <<log, queue, wait, bindVars, writerTask, writer>>
          /\ \E at \in {"recv", "interrupting"} : pc' = pc \/ pc' = [pc EXCEPT ![c] = at]
      BY <2>1 DEF Connect, ConnectionLost, Interrupt, outVars
    <3>2. \A d \in Conns : pc'[d] = "sending" => pc[d] = "sending"
      BY <1>1, <3>1
    <3>3. QED
      BY <1>2, <3>1, <3>2
  <2>2. CASE \/ BindReleasesOwn(c)
             \/ \E r \in Requests : AgentFactoryFails(c, r) \/ InterruptFactoryFails(c, r)
    BY <1>0, <2>2, CancelKeepsLoss
  <2>3. QED
    BY <1>3, <1>5, <1>6, <2>1, <2>2 DEF Client
<1>7. ASSUME NEW c \in Conns, Handler(c) \/ AgentInterrupt(c) PROVE LossInv'
  <2>1. CASE BindSendFails(c) \/ AcceptRequestResumes(c) \/ AgentInterrupt(c)
    <3>1. /\ UNCHANGED <<log, queue, wait, bindVars, writerTask, writer>>
          /\ \E at \in {"recv", "closed"} : pc' = [pc EXCEPT ![c] = at]
      BY <2>1 DEF BindSendFails, AcceptRequestResumes, AgentInterrupt, outVars
    <3>2. \A d \in Conns : pc'[d] = "sending" => pc[d] = "sending"
      BY <1>1, <3>1
    <3>3. QED
      BY <1>2, <3>1, <3>2
  <2>2. CASE HandlerExit(c)
    BY <1>0, <2>2, CancelKeepsLoss
  <2>3. QED
    BY <1>4, <1>7, <2>1, <2>2 DEF Handler
<1>8. ASSUME NEW g \in Bindings, WriterTakes(g) \/ WriterSent(g) PROVE LossInv'
  <2>1. writer \in [Bindings -> {"none", "idle", "sending", "done", "failed"}]
    BY <1>0 DEF TypeOK, WriterTypeOK
  <2>2. \A h \in Bindings : Lively(h)' => Lively(h)
    BY <1>8, <2>1 DEF WriterTakes, WriterSent, Lively
  <2>3. UNCHANGED <<log, generation, binding, writerTask, pc>>
    BY <1>8 DEF WriterTakes, WriterSent, outVars, bindVars, connVars
  <2>4. Len(log') >= Len(log)
    BY <1>0, <2>3 DEF TypeOK, OutTypeOK
  <2>5. ~OverlappingBinds => WriterInv'
    BY <1>0, <2>2, <2>3, <2>4, WriterKept DEF LossInv
  <2>6. CASE WriterTakes(g)
    BY <1>0, <2>5, <2>6, TakeLosesNothing DEF LossInv
  <2>7. CASE WriterSent(g)
    <3>1. UNCHANGED <<log, queue, wait, delivered, binding>>
      BY <2>7 DEF WriterSent, outVars, bindVars
    <3>2. QED
      BY <2>2, <2>5, <3>1, LossUnmoved DEF LossInv
  <2>8. QED
    BY <1>8, <2>6, <2>7
<1>9. ASSUME NEW p \in Publishers, PutDone(p) \/ GiveUpPut(p) PROVE LossInv'
  <2>1. UNCHANGED <<log, generation, binding, writer, pc>>
    BY <1>9 DEF PutDone, GiveUpPut, Unblocked, bindVars, connVars
  <2>2. \A h \in Bindings : Lively(h)' => Lively(h)
    BY <2>1 DEF Lively
  <2>3. \A h \in Bindings : Lively(h) => (writerTask = h => writerTask' = h)
    <3>1. EndWait(p)
      BY <1>9 DEF PutDone, GiveUpPut
    <3>2. QED
      BY <3>1 DEF EndWait, Lively, Finished
  <2>4. Len(log') >= Len(log)
    BY <1>0, <2>1 DEF TypeOK, OutTypeOK
  <2>5. ~OverlappingBinds => WriterInv'
    BY <1>0, <2>1, <2>2, <2>3, <2>4, WriterKept DEF LossInv
  <2>6. QED
    BY <1>0, <1>9, <2>5, PutLosesNothing DEF LossInv
<1>10. ASSUME NEW r \in Requests, RunTask(r) PROVE LossInv'
  <2>1. UNCHANGED <<bindVars, writer, pc>>
    BY <1>10 DEF RunTask, SubmitDrain, PublishFailure, FinishRequest, connVars
  <2>2. CASE SubmitDrain(r)
    BY <1>2, <2>1, <2>2 DEF SubmitDrain, outVars
  <2>3. CASE PublishFailure(r) \/ FinishRequest(r)
    BY <1>0, <2>1, <2>3, RunTaskPublishes, PublishKeepsLoss
  <2>4. QED
    BY <1>10, <2>2, <2>3 DEF RunTask
<1>11. CASE Executor
  <2>1. ASSUME NEW r \in Requests, NEW kind \in ResponseKinds, NEW ack \in BOOLEAN,
               Respond(r, kind, ack)
        PROVE  LossInv'
    <3>1. UNCHANGED <<bindVars, writer, pc>>
      BY <2>1 DEF Respond, connVars
    <3>2. QED
      BY <1>0, <2>1, <3>1, RespondPublishes, PublishKeepsLoss
  <2>2. ASSUME NEW r \in Requests, NEW outcome \in {"drained", "failed"}, DrainEnds(r, outcome)
        PROVE  LossInv'
    BY <1>2, <2>2 DEF DrainEnds, outVars, connVars
  <2>3. QED
    BY <1>7, <1>11, <2>1, <2>2 DEF Executor
<1>12. CASE UNCHANGED vars
  BY <1>2, <1>12 DEF vars, outVars, connVars
<1>13. QED
  BY <1>6, <1>7, <1>8, <1>9, <1>10, <1>11, <1>12 DEF Next

\* As long as no bind starts while another still replays, every event that may not be
\* dropped, stored since the current binding's writer was installed, is sent, queued or
\* waiting for room while that writer lives: backpressure only ever costs deltas.  With
\* overlapping binds a stale writer may be installed, and the property fails.
THEOREM NothingIsLostSilently == Spec => [](~OverlappingBinds => NoSilentLoss)
<1>1. Init => LossInv
  <2>1. Init => \A g \in Bindings : ~Lively(g) /\ binding[g].conn = None
    BY DEF Init, Lively
  <2>2. Init => \A c \in Conns : pc[c] # "sending"
    BY DEF Init
  <2>3. QED
    BY <2>1, <2>2 DEF LossInv, WriterInv, NoLossInv
<1>2. LossInv => (~OverlappingBinds => NoSilentLoss)
  <2> SUFFICES ASSUME NoLossInv, NEW g \in Bindings, Lively(g),
                      NEW i \in binding[g].installedAt..Len(log)
               PROVE  \/ Droppable(log[i].kind)
                      \/ Pending(i)
                      \/ \E k \in 1..Len(delivered[g]) : delivered[g][k] = i
    BY DEF LossInv, NoSilentLoss, Lively
  <2>1. Kept(g, i)
    BY DEF NoLossInv
  <2>2. QED
    BY <2>1 DEF Kept, Pending, InQueue, InWait, SentTo
<1>3. QED
  BY <1>1, <1>2, StepKeepsLoss, DeliveryHolds, RequestsAreConsistent, PTL DEF Spec
=============================================================================
