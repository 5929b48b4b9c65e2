------------------------ MODULE CommandExecutionProofs ------------------------
(***************************************************************************)
(* What holds of every tool call, for any set of agents, any number of     *)
(* calls and any number of faults of docker (module CommandExecution).     *)
(***************************************************************************)
EXTENDS CommandExecution, TLAPS

USE DockerAssumption, CallsAssumption

CallType == [phase : Phases, ran : Nat, result : Results, armed : BOOLEAN]

\* The parts of TypeOK the steps below take apart.
LEMMA TypesOf ==
  ASSUME TypeOK
  PROVE  /\ DockerTypeOK
         /\ call \in [Agents -> CallType]
         /\ latches \in [Agents -> 0..2]
         /\ begun \in 0..MaxCalls
         /\ \A a \in Agents : /\ call[a] \in CallType
                              /\ call[a].phase \in Phases /\ call[a].ran \in Nat
                              /\ call[a].result \in Results /\ call[a].armed \in BOOLEAN
                              /\ latches[a] \in 0..2
<1>1. /\ DockerTypeOK
      /\ call \in [Agents -> CallType]
      /\ latches \in [Agents -> 0..2]
      /\ begun \in 0..MaxCalls
  BY DEF TypeOK, CallType
<1>2. \A a \in Agents : call[a] \in CallType /\ latches[a] \in 0..2
  BY <1>1
<1> QED  BY <1>1, <1>2 DEF CallType

-----------------------------------------------------------------------------
(* The container and the lifecycle.                                        *)

LEMMA FaultTypes ==
  ASSUME DockerTypeOK, Fault \/ NoFault \/ Answers \/ Raises
  PROVE  faults' \in 0..MaxFaults
BY DEF DockerTypeOK, Fault, NoFault, Answers, Raises

LEMMA GotoType ==
  ASSUME DockerTypeOK, NEW a \in Agents, NEW step \in ManagerSteps, Goto(a, step)
  PROVE  at' \in [Agents -> ManagerSteps]
BY DEF DockerTypeOK, Goto

LEMMA EnsureRunningTypes ==
  ASSUME DockerTypeOK, NEW a \in Agents, EnsureRunning(a)
  PROVE  DockerTypeOK'
<1>1. CASE PrepareImage(a)
  <2>1. PICK step \in {"status", "failed"} : Goto(a, step)
    BY <1>1 DEF PrepareImage
  <2>2. at' \in [Agents -> ManagerSteps]
    BY <1>1, <2>1, GotoType DEF PrepareImage, ManagerSteps
  <2>3. faults' \in 0..MaxFaults
    BY <1>1, FaultTypes DEF PrepareImage
  <2>4. image' \in BOOLEAN
    BY <1>1 DEF PrepareImage, DockerTypeOK
  <2> QED  BY <1>1, <2>2, <2>3, <2>4 DEF DockerTypeOK, PrepareImage
<1>2. CASE CheckStatus(a)
  <2>1. PICK step \in {"run", "start", "ready", "failed"} : Goto(a, step)
    BY <1>2 DEF CheckStatus, AfterStatus
  <2>2. at' \in [Agents -> ManagerSteps]
    BY <1>2, <2>1, GotoType DEF CheckStatus, ManagerSteps
  <2>3. faults' \in 0..MaxFaults
    BY <1>2, FaultTypes DEF CheckStatus
  <2> QED  BY <1>2, <2>2, <2>3 DEF DockerTypeOK, CheckStatus
<1>3. CASE RunContainer(a) \/ StartContainer(a)
  <2>1. PICK step \in {"ready", "failed"} : Goto(a, step)
    BY <1>3 DEF RunContainer, StartContainer
  <2>2. at' \in [Agents -> ManagerSteps]
    BY <1>3, <2>1, GotoType DEF RunContainer, StartContainer, ManagerSteps
  <2>3. faults' \in 0..MaxFaults
    BY <1>3, FaultTypes DEF RunContainer, StartContainer
  <2>4. own' \in ContainerStates
    BY <1>3 DEF RunContainer, StartContainer, DockerTypeOK, ContainerStates
  <2> QED  BY <1>3, <2>2, <2>3, <2>4
           DEF DockerTypeOK, RunContainer, StartContainer
<1> QED  BY <1>1, <1>2, <1>3 DEF EnsureRunning

LEMMA EnsureReadyType ==
  ASSUME DockerTypeOK, NEW a \in Agents, EnsureReady(a)
  PROVE  at' \in [Agents -> ManagerSteps]
<1>1. PICK step \in {"ready", "engine"} : Goto(a, step)
  BY DEF EnsureReady
<1> QED  BY <1>1, GotoType DEF ManagerSteps

LEMMA LifecycleTypes ==
  ASSUME DockerTypeOK, NEW a \in Agents,
         Initialize(a) \/ Initialized(a) \/ StopContainer(a) \/ RemoveContainer(a) \/ Shutdown(a)
  PROVE  DockerTypeOK'
<1>1. CASE Initialize(a)
  <2>1. at' \in [Agents -> ManagerSteps]
    BY <1>1, EnsureReadyType DEF Initialize
  <2>2. lifecycle' \in [Agents -> LifecycleStates]
    BY <1>1 DEF Initialize, DockerTypeOK, LifecycleStates
  <2> QED  BY <1>1, <2>1, <2>2 DEF Initialize, DockerTypeOK
<1>2. CASE Initialized(a)
  <2>1. at' \in [Agents -> ManagerSteps]
    BY <1>2, GotoType DEF Initialized, ManagerSteps
  <2>2. lifecycle' \in [Agents -> LifecycleStates]
    BY <1>2 DEF Initialized, DockerTypeOK, LifecycleStates
  <2> QED  BY <1>2, <2>1, <2>2 DEF Initialized, DockerTypeOK
<1>3. CASE StopContainer(a) \/ RemoveContainer(a)
  <2>1. faults' \in 0..MaxFaults
    BY <1>3, FaultTypes DEF StopContainer, RemoveContainer
  <2>2. own' \in ContainerStates
    BY <1>3 DEF StopContainer, RemoveContainer, DockerTypeOK, ContainerStates
  <2> QED  BY <1>3, <2>1, <2>2
           DEF StopContainer, RemoveContainer, DockerTypeOK
<1>4. CASE Shutdown(a)
  <2>1. lifecycle' \in [Agents -> LifecycleStates]
    BY <1>4 DEF Shutdown, DockerTypeOK, LifecycleStates
  <2> QED  BY <1>4, <2>1 DEF Shutdown, DockerTypeOK
<1> QED  BY <1>1, <1>2, <1>3, <1>4

LEMMA OutsideTypes ==
  ASSUME DockerTypeOK, Outside
  PROVE  DockerTypeOK'
<1>1. faults' \in 0..MaxFaults
  BY FaultTypes DEF Outside, EngineGoes, EngineComes, Meddle, DockerTypeOK, NoFault
<1>2. engine' \in EngineStates /\ own' \in ContainerStates
  BY DEF Outside, EngineGoes, EngineComes, Meddle, DockerTypeOK, EngineStates,
         ContainerStates
<1> QED  BY <1>1, <1>2
         DEF Outside, EngineGoes, EngineComes, Meddle, DockerTypeOK

-----------------------------------------------------------------------------
(* The calls.                                                              *)

\* What the invariant says of one agent's call.
CallIsTold(a) ==
  /\ PhaseInv(a)
  /\ call[a].ran <= 1
  /\ At(a, "done") =>
       /\ call[a].result = "success" => call[a].ran = 1
       /\ call[a].result = "timeout" /\ a \in local => call[a].ran = 1
       /\ call[a].result \in {"invalid", "blocked", "host", "interrupted"} => call[a].ran = 0
  /\ call[a].armed => call[a].ran = 0

LEMMA InvParts ==
  CallInv <=> TypeOK /\ \A a \in Agents : CallIsTold(a)
BY DEF CallInv, CallIsTold, ResultTellsTheRun, ArmedCallsDoNotRun

\* One agent's call and latches change; the others' are as they were.
LEMMA OneCall ==
  ASSUME TypeOK, \A b \in Agents : CallIsTold(b),
         NEW a \in Agents, NEW new \in CallType, NEW set \in 0..2,
         call' = [call EXCEPT ![a] = new], latches' = [latches EXCEPT ![a] = set],
         begun' \in 0..MaxCalls, DockerTypeOK', UNCHANGED local,
         CallIsTold(a)'
  PROVE  TypeOK' /\ \A b \in Agents : CallIsTold(b)'
<1>0. call \in [Agents -> CallType] /\ latches \in [Agents -> 0..2]
  BY TypesOf
<1>1. call' \in [Agents -> CallType] /\ latches' \in [Agents -> 0..2]
  BY <1>0
<1>2. TypeOK'
  BY <1>1 DEF TypeOK, CallType
<1>3. ASSUME NEW b \in Agents, b # a  PROVE CallIsTold(b)'
  <2>1. call'[b] = call[b] /\ latches'[b] = latches[b]
    BY <1>0, <1>3
  <2>2. CallIsTold(b)
    OBVIOUS
  <2> QED  BY <2>1, <2>2 DEF CallIsTold, PhaseInv, At
<1> QED  BY <1>2, <1>3

\* The state before a step, and the record one of its calls becomes.
Before == TypeOK /\ \A b \in Agents : CallIsTold(b)

\* CallIsTold of a's new call, in terms of that call.
LEMMA NewCall ==
  ASSUME TypeOK, NEW a \in Agents, NEW new \in CallType, NEW set \in 0..2,
         call' = [call EXCEPT ![a] = new], latches' = [latches EXCEPT ![a] = set]
  PROVE  call'[a] = new /\ latches'[a] = set
BY TypesOf

LEMMA BeginCallInv ==
  ASSUME Before, NEW a \in Agents, BeginCall(a)
  PROVE  TypeOK' /\ \A b \in Agents : CallIsTold(b)'
<1>1. PICK new \in CallType :
        /\ call' = [call EXCEPT ![a] = new]
        /\ new.ran = 0
        /\ \/ new.phase = "done" /\ new.result \in Dismissals
           \/ new.phase = "entered" /\ (new.armed => latches[a] > 0)
  <2>1. \E armed \in BOOLEAN : (latches[a] > 0) = armed
    <3>1. (latches[a] > 0) \in BOOLEAN
      OBVIOUS
    <3> QED  BY <3>1, Zenon
  <2>2. PICK armed \in BOOLEAN : (latches[a] > 0) = armed
    BY <2>1
  <2>3. PICK phase \in {"done", "entered"}, result \in Results :
          /\ Begin(a, phase, result)
          /\ phase = "done" => result \in Dismissals
    BY DEF BeginCall, Results, Dismissals
  <2>4. [phase |-> phase, ran |-> 0, result |-> result, armed |-> armed] \in CallType
    BY DEF CallType, Phases
  <2>5. call' = [call EXCEPT ![a] =
                   [phase |-> phase, ran |-> 0, result |-> result, armed |-> armed]]
    BY <2>2, <2>3, Zenon DEF Begin
  <2> QED  BY <2>2, <2>3, <2>4, <2>5
<1>2. /\ latches[a] \in 0..2 /\ latches' = [latches EXCEPT ![a] = latches[a]]
      /\ begun' \in 0..MaxCalls /\ UNCHANGED docker
  <2>1. TypeOK /\ begun < MaxCalls /\ begun' = begun + 1 /\ UNCHANGED <<docker, latches>>
    BY DEF Before, BeginCall
  <2>2. latches \in [Agents -> 0..2] /\ begun \in 0..MaxCalls
    BY <2>1, TypesOf
  <2> QED  BY <2>1, <2>2
<1>3. DockerTypeOK'
  BY <1>2, TypesOf DEF Before, docker, DockerTypeOK
<1>4. call'[a] = new /\ latches'[a] = latches[a]
  BY <1>1, <1>2, NewCall DEF Before
<1>5. CallIsTold(a)'
  BY <1>1, <1>4 DEF CallIsTold, PhaseInv, At, Dismissals
<1>6. UNCHANGED local
  BY <1>2 DEF docker
<1> QED  BY <1>1, <1>2, <1>3, <1>5, <1>6, OneCall DEF Before

\* A step that moves a's call to another phase, and leaves what it is otherwise.
LEMMA GoOnType ==
  ASSUME TypeOK, NEW a \in Agents, NEW phase \in Phases
  PROVE  \E new \in CallType :
           /\ new = [call[a] EXCEPT !.phase = phase]
           /\ new.phase = phase
           /\ new.ran = call[a].ran /\ new.result = call[a].result
           /\ new.armed = call[a].armed
<1>1. call[a] \in CallType
  BY TypesOf
<1> DEFINE new == [call[a] EXCEPT !.phase = phase]
<1>2. /\ new \in CallType /\ new.phase = phase /\ new.ran = call[a].ran
      /\ new.result = call[a].result /\ new.armed = call[a].armed
  BY <1>1 DEF CallType
<1> QED  BY <1>2

LEMMA GoOnIs ==
  ASSUME TypeOK, NEW a \in Agents, NEW phase, GoOn(a, phase)
  PROVE  call' = [call EXCEPT ![a] = [call[a] EXCEPT !.phase = phase]]
BY TypesOf DEF GoOn

LEMMA EndIs ==
  ASSUME TypeOK, NEW a \in Agents, NEW result \in Results, End(a, result)
  PROVE  \E new \in CallType :
           /\ call' = [call EXCEPT ![a] = new]
           /\ new.phase = "done" /\ new.result = result
           /\ new.ran = call[a].ran /\ new.armed = call[a].armed
<1>1. call \in [Agents -> CallType] /\ call[a] \in CallType
  BY TypesOf
<1> DEFINE new == [call[a] EXCEPT !.phase = "done", !.result = result]
<1>2. /\ new \in CallType /\ new.phase = "done" /\ new.result = result
      /\ new.ran = call[a].ran /\ new.armed = call[a].armed
  BY <1>1 DEF CallType, Phases
<1>3. call' = [call EXCEPT ![a] = new]
  BY <1>1 DEF End
<1> QED  BY <1>2, <1>3

LEMMA CheckLatchInv ==
  ASSUME Before, NEW a \in Agents, CheckLatch(a)
  PROVE  TypeOK' /\ \A b \in Agents : CallIsTold(b)'
<1>0. /\ TypeOK /\ DockerTypeOK /\ CallIsTold(a)
      /\ UNCHANGED <<local, engine, image, own, other, lifecycle, faults, begun>>
  BY TypesOf DEF Before, CheckLatch
<1>1. latches \in [Agents -> 0..2] /\ latches[a] \in 0..2 /\ begun \in 0..MaxCalls
  BY <1>0, TypesOf
<1>2. CASE latches[a] > 0
  <2>1. /\ latches' = [latches EXCEPT ![a] = latches[a] - 1] /\ End(a, "interrupted")
        /\ UNCHANGED at
    BY <1>1, <1>2 DEF CheckLatch
  <2>2. PICK new \in CallType :
          /\ call' = [call EXCEPT ![a] = new]
          /\ new.phase = "done" /\ new.result = "interrupted"
          /\ new.ran = call[a].ran /\ new.armed = call[a].armed
    BY <1>0, <2>1, EndIs DEF Results
  <2>3. latches[a] - 1 \in 0..2
    BY <1>1, <1>2
  <2>4. DockerTypeOK'
    BY <1>0, <2>1 DEF DockerTypeOK
  <2>5. call'[a] = new
    BY <1>0, <2>2, TypesOf
  <2>6. CallIsTold(a)'
    BY <1>0, <2>2, <2>5 DEF CallIsTold, PhaseInv, At, CheckLatch
  <2> QED  BY <1>0, <1>1, <2>1, <2>2, <2>3, <2>4, <2>6, OneCall DEF Before
<1>3. CASE ~(latches[a] > 0)
  <2>1. UNCHANGED latches /\ GoOn(a, "preparing") /\ EnsureReady(a)
    BY <1>3 DEF CheckLatch
  <2>2. PICK new \in CallType :
          /\ new = [call[a] EXCEPT !.phase = "preparing"]
          /\ new.phase = "preparing" /\ new.ran = call[a].ran /\ new.armed = call[a].armed
    BY <1>0, GoOnType DEF Phases
  <2>3. call' = [call EXCEPT ![a] = new] /\ latches' = [latches EXCEPT ![a] = latches[a]]
    BY <1>0, <1>1, <2>1, <2>2, GoOnIs
  <2>4. at' \in [Agents -> ManagerSteps]
    BY <1>0, <2>1, EnsureReadyType
  <2>5. DockerTypeOK'
    BY <1>0, <2>4 DEF DockerTypeOK
  <2>6. call'[a] = new
    BY <1>0, <2>3, TypesOf
  <2>7. CallIsTold(a)'
    BY <1>0, <1>3, <2>2, <2>6 DEF CallIsTold, PhaseInv, At, CheckLatch
  <2> QED  BY <1>0, <1>1, <2>3, <2>4, <2>5, <2>7, OneCall DEF Before
<1> QED  BY <1>2, <1>3

LEMMA PreparedInv ==
  ASSUME Before, NEW a \in Agents, Prepared(a)
  PROVE  TypeOK' /\ \A b \in Agents : CallIsTold(b)'
<1>0. /\ TypeOK /\ DockerTypeOK /\ CallIsTold(a)
      /\ UNCHANGED <<local, engine, image, own, other, lifecycle, faults, latches, begun>>
      /\ Goto(a, "off")
  BY TypesOf DEF Before, Prepared
<1>1. latches \in [Agents -> 0..2] /\ latches[a] \in 0..2 /\ begun \in 0..MaxCalls
  BY <1>0, TypesOf
<1>2. PICK phase \in {"running", "excepted"} : GoOn(a, phase)
  BY DEF Prepared
<1>3. PICK new \in CallType :
        /\ new = [call[a] EXCEPT !.phase = phase]
        /\ new.phase = phase /\ new.ran = call[a].ran /\ new.armed = call[a].armed
  BY <1>0, GoOnType DEF Phases
<1>4. call' = [call EXCEPT ![a] = new] /\ latches' = [latches EXCEPT ![a] = latches[a]]
  BY <1>0, <1>1, <1>2, <1>3, GoOnIs
<1>5. at' \in [Agents -> ManagerSteps]
  BY <1>0, GotoType DEF ManagerSteps
<1>6. DockerTypeOK'
  BY <1>0, <1>5 DEF DockerTypeOK
<1>7. call'[a] = new
  BY <1>0, <1>4, TypesOf
<1>8. CallIsTold(a)'
  BY <1>0, <1>2, <1>3, <1>7 DEF CallIsTold, PhaseInv, At, Prepared
<1> QED  BY <1>0, <1>1, <1>4, <1>6, <1>8, OneCall DEF Before

LEMMA RanIs ==
  ASSUME TypeOK, NEW a \in Agents, NEW phase \in Phases, NEW result \in Results,
         Ran(a, phase, result)
  PROVE  \E new \in CallType :
           /\ call' = [call EXCEPT ![a] = new]
           /\ new.phase = phase /\ new.result = result
           /\ new.ran = call[a].ran + 1 /\ new.armed = call[a].armed
<1>1. call \in [Agents -> CallType] /\ call[a] \in CallType /\ call[a].ran + 1 \in Nat
  BY TypesOf
<1> DEFINE new == [call[a] EXCEPT !.phase = phase, !.ran = call[a].ran + 1, !.result = result]
<1>2. new \in CallType
  BY <1>1 DEF CallType
<1>3. new.phase = phase /\ new.result = result /\ new.ran = call[a].ran + 1
  BY <1>1 DEF CallType
<1>4. new.armed = call[a].armed
  BY <1>1 DEF CallType
<1>5. call' = [call EXCEPT ![a] = new]
  BY <1>1 DEF Ran
<1> QED  BY <1>2, <1>3, <1>4, <1>5

LEMMA RunCommandInv ==
  ASSUME Before, NEW a \in Agents, RunCommand(a)
  PROVE  TypeOK' /\ \A b \in Agents : CallIsTold(b)'
<1>0. /\ TypeOK /\ DockerTypeOK /\ CallIsTold(a)
      /\ UNCHANGED <<local, engine, image, own, other, at, lifecycle, latches, begun>>
  BY TypesOf DEF Before, RunCommand
<1>1. /\ latches \in [Agents -> 0..2] /\ latches[a] \in 0..2 /\ begun \in 0..MaxCalls
      /\ call \in [Agents -> CallType] /\ call[a] \in CallType
  BY <1>0, TypesOf
<1>2. faults' \in 0..MaxFaults
  BY <1>0, FaultTypes DEF RunCommand, Started, NotStarted
<1>3. DockerTypeOK'
  BY <1>0, <1>2 DEF DockerTypeOK
<1>4. call[a].ran = 0 /\ ~call[a].armed
  BY <1>0 DEF RunCommand, CallIsTold, PhaseInv, At
<1>5. \E new \in CallType :
        /\ call' = [call EXCEPT ![a] = new]
        /\ new.armed = call[a].armed
        /\ \/ new.phase = "done" /\ new.ran = 1 /\ new.result \in {"success", "failure", "timeout"}
           \/ new.phase = "excepted" /\ new.ran = 1
           \/ new.phase = "excepted" /\ new.ran = 0
           \/ new.phase = "done" /\ new.ran = 0 /\ new.result = "failure"
           \/ /\ new.phase = "done" /\ new.ran = 0 /\ new.result = "timeout"
              /\ a \notin local
  <2>1. CASE Started(a)
    <3>1. PICK phase \in {"done", "excepted"}, result \in {"success", "failure", "timeout", "none"} :
            Ran(a, phase, result) /\ (phase = "done" => result # "none")
      BY <2>1 DEF Started
    <3>2. phase \in Phases /\ result \in Results
      BY DEF Phases, Results
    <3>3. PICK new \in CallType :
            /\ call' = [call EXCEPT ![a] = new]
            /\ new.phase = phase /\ new.result = result
            /\ new.ran = call[a].ran + 1 /\ new.armed = call[a].armed
      BY <1>0, <3>1, <3>2, RanIs
    <3>4. new.ran = 1
      BY <1>4, <3>3
    <3>5. \/ new.phase = "done" /\ new.result \in {"success", "failure", "timeout"}
          \/ new.phase = "excepted"
      BY <3>1, <3>3
    <3> QED  BY <3>3, <3>4, <3>5
  <2>2. CASE GoOn(a, "excepted")
    BY <1>0, <1>4, <2>2, GoOnType, GoOnIs DEF Phases
  <2>3. CASE End(a, "failure")
    BY <1>0, <1>4, <2>3, EndIs DEF Results
  <2>4. CASE a \notin local /\ End(a, "timeout")
    BY <1>0, <1>4, <2>4, EndIs DEF Results
  <2> QED  BY <2>1, <2>2, <2>3, <2>4 DEF RunCommand, NotStarted
<1>6. PICK new \in CallType :
        /\ call' = [call EXCEPT ![a] = new]
        /\ new.armed = call[a].armed
        /\ \/ new.phase = "done" /\ new.ran = 1 /\ new.result \in {"success", "failure", "timeout"}
           \/ new.phase = "excepted" /\ new.ran = 1
           \/ new.phase = "excepted" /\ new.ran = 0
           \/ new.phase = "done" /\ new.ran = 0 /\ new.result = "failure"
           \/ /\ new.phase = "done" /\ new.ran = 0 /\ new.result = "timeout"
              /\ a \notin local
  BY <1>5
<1>7. call'[a] = new /\ latches' = [latches EXCEPT ![a] = latches[a]]
  BY <1>0, <1>1, <1>6
<1>8. CallIsTold(a)'
  BY <1>0, <1>4, <1>6, <1>7 DEF CallIsTold, PhaseInv, At
<1> QED  BY <1>0, <1>1, <1>3, <1>6, <1>7, <1>8, OneCall DEF Before

LEMMA ExceptionReportedInv ==
  ASSUME Before, NEW a \in Agents, ExceptionReported(a)
  PROVE  TypeOK' /\ \A b \in Agents : CallIsTold(b)'
<1>0. TypeOK /\ CallIsTold(a) /\ UNCHANGED <<docker, latches, begun>>
  BY DEF Before, ExceptionReported
<1>1. latches \in [Agents -> 0..2] /\ latches[a] \in 0..2 /\ begun \in 0..MaxCalls /\ DockerTypeOK
  BY <1>0, TypesOf
<1>2. PICK new \in CallType :
        /\ call' = [call EXCEPT ![a] = new]
        /\ new.phase = "done" /\ new.result = Reported(a)
        /\ new.ran = call[a].ran /\ new.armed = call[a].armed
  BY <1>0, EndIs DEF ExceptionReported, Reported, Results
<1>3. /\ call'[a] = new /\ latches' = [latches EXCEPT ![a] = latches[a]]
      /\ begun' \in 0..MaxCalls /\ UNCHANGED local /\ DockerTypeOK'
  BY <1>0, <1>1, <1>2, TypesOf DEF docker, DockerTypeOK
<1>4. CallIsTold(a)'
  BY <1>0, <1>2, <1>3 DEF CallIsTold, PhaseInv, At, Reported, ExceptionReported
<1> QED  BY <1>0, <1>1, <1>2, <1>3, <1>4, OneCall DEF Before

LEMMA AnswerInv ==
  ASSUME Before, NEW a \in Agents, Answer(a)
  PROVE  TypeOK' /\ \A b \in Agents : CallIsTold(b)'
<1>0. TypeOK /\ UNCHANGED <<docker, latches, begun>>
  BY DEF Before, Answer
<1>1. latches \in [Agents -> 0..2] /\ latches[a] \in 0..2 /\ begun \in 0..MaxCalls /\ DockerTypeOK
  BY <1>0, TypesOf
<1>2. NoCall \in CallType /\ NoCall.phase = "idle" /\ NoCall.ran = 0 /\ ~NoCall.armed
  BY DEF NoCall, CallType, Phases, Results
<1>3. call' = [call EXCEPT ![a] = NoCall]
  BY DEF Answer
<1>4. /\ call'[a] = NoCall /\ latches' = [latches EXCEPT ![a] = latches[a]]
      /\ begun' \in 0..MaxCalls /\ UNCHANGED local /\ DockerTypeOK'
  BY <1>0, <1>1, <1>3, TypesOf DEF docker, DockerTypeOK
<1>5. CallIsTold(a)'
  BY <1>2, <1>4 DEF CallIsTold, PhaseInv, At
<1> QED  BY <1>0, <1>1, <1>2, <1>3, <1>4, <1>5, OneCall DEF Before

LEMMA InterruptInv ==
  ASSUME Before, NEW a \in Agents, Interrupt(a)
  PROVE  TypeOK' /\ \A b \in Agents : CallIsTold(b)'
<1>0. TypeOK /\ CallIsTold(a) /\ UNCHANGED <<docker, call, begun>>
  BY DEF Before, Interrupt
<1>1. /\ latches \in [Agents -> 0..2] /\ begun \in 0..MaxCalls /\ DockerTypeOK
      /\ call \in [Agents -> CallType] /\ call[a] \in CallType
  BY <1>0, TypesOf
<1>2. PICK set \in {1, 2} : latches' = [latches EXCEPT ![a] = set]
  BY DEF Interrupt
<1>3. /\ call' = [call EXCEPT ![a] = call[a]] /\ latches'[a] = set /\ set \in 0..2
      /\ begun' \in 0..MaxCalls /\ UNCHANGED local /\ DockerTypeOK'
  BY <1>0, <1>1, <1>2 DEF docker, DockerTypeOK
<1>4. CallIsTold(a)'
  BY <1>0, <1>3 DEF CallIsTold, PhaseInv, At
<1> QED  BY <1>0, <1>1, <1>2, <1>3, <1>4, OneCall DEF Before

\* The steps that leave every call and latch alone.
LEMMA OtherInv ==
  ASSUME Before, DockerTypeOK', UNCHANGED <<local, call, latches, begun>>
  PROVE  TypeOK' /\ \A b \in Agents : CallIsTold(b)'
<1>1. TypeOK'
  BY DEF Before, TypeOK
<1>2. \A b \in Agents : CallIsTold(b)'
  BY DEF Before, CallIsTold, PhaseInv, At
<1> QED  BY <1>1, <1>2

-----------------------------------------------------------------------------
(* The invariant of every execution.                                       *)

LEMMA InvInitially == Init => CallInv
<1> SUFFICES ASSUME Init PROVE CallInv
  OBVIOUS
<1>1. NoCall \in CallType /\ NoCall.phase = "idle" /\ NoCall.ran = 0 /\ ~NoCall.armed
  BY DEF NoCall, CallType, Phases, Results
<1>2. DockerTypeOK
  BY DEF Init, DockerInit, DockerTypeOK, EngineStates, ManagerSteps,
         LifecycleStates, ContainerStates
<1>3. TypeOK
  BY <1>1, <1>2 DEF Init, TypeOK, CallType
<1>4. ASSUME NEW a \in Agents PROVE CallIsTold(a)
  <2>1. call[a] = NoCall
    BY DEF Init
  <2> QED  BY <1>1, <2>1 DEF CallIsTold, PhaseInv, At
<1> QED  BY <1>2, <1>3, <1>4, InvParts

LEMMA InvIsInductive == CallInv /\ [Next]_vars => CallInv'
<1> SUFFICES ASSUME CallInv, [Next]_vars
             PROVE  TypeOK' /\ \A b \in Agents : CallIsTold(b)'
  BY DEF CallInv, CallIsTold, ResultTellsTheRun, ArmedCallsDoNotRun, PhaseInv, At, TypeOK
<1>0. Before /\ DockerTypeOK
  BY InvParts, TypesOf DEF Before
<1>1. ASSUME NEW a \in Agents, BeginCall(a) \/ Interrupt(a) \/ CallStep(a)
      PROVE  TypeOK' /\ \A b \in Agents : CallIsTold(b)'
  BY <1>0, <1>1, BeginCallInv, InterruptInv, CheckLatchInv, PreparedInv, RunCommandInv,
     ExceptionReportedInv, AnswerInv DEF CallStep
<1>2. ASSUME NEW a \in Agents, ContainerStep(a) \/ Manage(a), UNCHANGED <<call, latches, begun>>
      PROVE  TypeOK' /\ \A b \in Agents : CallIsTold(b)'
  <2>1. DockerTypeOK'
    BY <1>0, <1>2, EnsureRunningTypes, LifecycleTypes DEF ContainerStep, Manage
  <2>2. UNCHANGED local
    BY <1>2 DEF ContainerStep, Manage, EnsureRunning, PrepareImage, CheckStatus, RunContainer,
       StartContainer, Initialize, Initialized, StopContainer, RemoveContainer, Shutdown
  <2> QED  BY <1>0, <1>2, <2>1, <2>2, OtherInv
<1>3. CASE Outside /\ UNCHANGED <<call, latches, begun>>
  <2>1. DockerTypeOK' /\ UNCHANGED local
    BY <1>0, <1>3, OutsideTypes DEF Outside, EngineGoes, EngineComes, Meddle
  <2> QED  BY <1>0, <1>3, <2>1, OtherInv
<1>4. CASE UNCHANGED vars
  <2>1. DockerTypeOK' /\ UNCHANGED <<local, call, latches, begun>>
    BY <1>0, <1>4 DEF vars, docker, DockerTypeOK
  <2> QED  BY <1>0, <2>1, OtherInv
<1> QED  BY <1>1, <1>2, <1>3, <1>4 DEF Next, Work

LEMMA CallsAreConsistent == Spec => []CallInv
<1>1. CallInv /\ [Next]_vars => CallInv'
  BY InvIsInductive
<1> QED  BY InvInitially, <1>1, PTL DEF Spec

\* The state of every call, of the container and of the agents' lifecycles keeps its type,
\* whatever docker answers (execution_service.py, container_manager.py).
THEOREM CallTypesAreCorrect == Spec => []TypeOK
<1>1. CallInv => TypeOK
  BY DEF CallInv
<1> QED  BY CallsAreConsistent, <1>1, PTL

\* No command is started twice for one call, a success is only reported of a command that
\* was started, and so is a timeout of a process of the agent's own; a refusal only of one
\* that was not (ExecutionService.execute, BaseExecutor.execute, both backends' exec).
THEOREM ResultsTellTheRun == Spec => []ResultTellsTheRun
<1>1. CallInv => ResultTellsTheRun
  BY DEF CallInv
<1> QED  BY CallsAreConsistent, <1>1, PTL

\* A call that begins while a latch is set starts no process, however agents interrupt
\* each other's container meanwhile (the executors' interrupt).
THEOREM ArmedCallsNeverRun == Spec => []ArmedCallsDoNotRun
<1>1. CallInv => ArmedCallsDoNotRun
  BY DEF CallInv
<1> QED  BY CallsAreConsistent, <1>1, PTL
=============================================================================
