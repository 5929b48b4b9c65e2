--------------------------- MODULE CommandExecution ---------------------------
(***************************************************************************)
(* One tool call of an agent: the tool registry checks its arguments, the  *)
(* execution service reviews the command, serves what it serves on the     *)
(* host, and hands the rest to the executor, whose interrupt latches and   *)
(* whose backend (a docker container, or a process of its own) decide      *)
(* whether the command runs, and what the model is told of it.             *)
(*                                                                         *)
(* Each agent runs its calls one at a time on a thread of its own; an      *)
(* interrupt comes from another thread, at any moment.                     *)
(***************************************************************************)
EXTENDS DockerContainer

CONSTANTS MaxCalls    \* bound: calls of all agents together

ASSUME CallsAssumption == MaxCalls \in Nat

VARIABLES
  call,     \* call[a]: the call agent a is at
  latches,  \* latches[a]: commands a's executor is going to refuse
  begun     \* calls begun so far

vars == <<docker, call, latches, begun>>

Results == {"none", "invalid", "blocked", "host", "interrupted", "timeout", "success",
            "failure", "raised"}
Phases  == {"idle", "entered", "preparing", "running", "excepted", "done"}

\* ran counts the processes started for the command; armed says that a latch was
\* set when the call began.
NoCall == [phase |-> "idle", ran |-> 0, result |-> "none", armed |-> FALSE]

-----------------------------------------------------------------------------
Init ==
  /\ DockerInit
  /\ call = [a \in Agents |-> NoCall]
  /\ latches = [a \in Agents |-> 0]
  /\ begun = 0

At(a, phase) == call[a].phase = phase
GoOn(a, phase) == call' = [call EXCEPT ![a].phase = phase]
End(a, result) == call' = [call EXCEPT ![a].phase = "done", ![a].result = result]

Begin(a, phase, result) ==
  call' = [call EXCEPT ![a] =
    [phase |-> phase, ran |-> 0, result |-> result, armed |-> latches[a] > 0]]

\* execute_tool_call raises ValueError for arguments the registry refuses; execute
\* answers a blocked command with the warning; builtin commands and skill files are
\* served on the host.  None of these asks the executor.
Dismissals == {"invalid", "blocked", "host"}

\* execute_tool_call and execute, up to the call of executor.execute.
BeginCall(a) ==
  /\ lifecycle[a] = "initialized" /\ at[a] = "off"
  /\ At(a, "idle") /\ begun < MaxCalls
  /\ begun' = begun + 1
  /\ (\E result \in Dismissals : Begin(a, "done", result)) \/ Begin(a, "entered", "none")
  /\ UNCHANGED <<docker, latches>>

\* Mutant: the latches are reset before a command, instead of refusing one each.
CheckLatch_Resets(a) ==
  /\ At(a, "entered")
  /\ latches' = [latches EXCEPT ![a] = 0]
  /\ GoOn(a, "preparing") /\ EnsureReady(a)
  /\ UNCHANGED <<local, engine, image, own, other, lifecycle, faults, begun>>

\* BaseExecutor.execute and the backends' exec: each latch that is set refuses one
\* command.  Otherwise the backend is made ready.
CheckLatch(a) ==
  /\ At(a, "entered")
  /\ IF latches[a] > 0
       THEN /\ latches' = [latches EXCEPT ![a] = @ - 1]
            /\ End(a, "interrupted")
            /\ UNCHANGED at
       ELSE /\ GoOn(a, "preparing") /\ EnsureReady(a)
            /\ UNCHANGED latches
  /\ UNCHANGED <<local, engine, image, own, other, lifecycle, faults, begun>>

\* The backend is ready, or ensure_ready has raised.
Prepared(a) ==
  /\ At(a, "preparing") /\ at[a] \in {"ready", "failed"}
  /\ Goto(a, "off")
  /\ GoOn(a, IF at[a] = "ready" THEN "running" ELSE "excepted")
  /\ UNCHANGED <<local, engine, image, own, other, lifecycle, faults, latches, begun>>

Ran(a, phase, result) ==
  call' = [call EXCEPT ![a].phase = phase, ![a].ran = @ + 1, ![a].result = result]

\* subprocess.run and docker exec.  The command ends with an exit status; or it is
\* still running when the time limit is reached; or it has run, but what it wrote is
\* not text, and reading it raises.
Started(a) ==
  /\ a \in local \/ CanExec
  /\ \/ \E result \in {"success", "failure"} : Ran(a, "done", result) /\ NoFault
     \/ Ran(a, "done", "timeout") /\ Fault
     \/ Ran(a, "excepted", "none") /\ Fault

\* The command is not started.  Whatever the backend, no process can be made of it (a
\* null byte or too long a text, no shell, no directory to start in, no docker command),
\* and subprocess.run raises what neither exec catches.  Or docker exec is run, and has no
\* running container, or is given up before docker has started anything.
NotStarted(a) ==
  \/ GoOn(a, "excepted") /\ NoFault
  \/ /\ a \notin local /\ engine # "missing"
     /\ \/ ~CanExec /\ End(a, "failure") /\ NoFault
        \/ End(a, "timeout") /\ Fault

RunCommand(a) ==
  /\ At(a, "running")
  /\ Started(a) \/ NotStarted(a)
  /\ UNCHANGED <<local, engine, image, own, other, at, lifecycle, latches, begun>>

\* Mutant: any exception is taken for an executor with the old signature.
ExceptionReported_RunsAgain(a) ==
  /\ At(a, "excepted")
  /\ IF a \in local THEN GoOn(a, "entered") ELSE End(a, "failure")
  /\ UNCHANGED <<docker, latches, begun>>

\* DockerExecutor._do_execute turns every exception into a failure; the local executor's
\* reaches the service.
Reported(a) == IF a \in local THEN "raised" ELSE "failure"

\* ExecutionService.execute raises the executor's exception again.  Only a TypeError makes
\* it execute the command once more, and neither executor lets one out.
ExceptionReported(a) ==
  /\ At(a, "excepted")
  /\ End(a, Reported(a))
  /\ UNCHANGED <<docker, latches, begun>>

\* Mutant: a call that raised is not answered.
Answer_UnlessRaised(a) ==
  /\ At(a, "done") /\ call[a].result # "raised"
  /\ call' = [call EXCEPT ![a] = NoCall]
  /\ UNCHANGED <<docker, latches, begun>>

\* The service returns the result as text; the agent's loop goes on with the next call.
Answer(a) ==
  /\ At(a, "done")
  /\ call' = [call EXCEPT ![a] = NoCall]
  /\ UNCHANGED <<docker, latches, begun>>

\* interrupt: docker has one latch, the local executor and its backend one each.
Interrupt(a) ==
  /\ lifecycle[a] = "initialized"
  /\ latches' = [latches EXCEPT ![a] = IF a \in local THEN 2 ELSE 1]
  /\ UNCHANGED <<docker, call, begun>>

-----------------------------------------------------------------------------
CallStep(a) ==
  \/ CheckLatch(a) \/ Prepared(a) \/ RunCommand(a) \/ ExceptionReported(a) \/ Answer(a)

\* What an agent's own thread does to the container and the lifecycle.
ContainerStep(a) == EnsureRunning(a) \/ Initialized(a)

Work(a) == CallStep(a) \/ (ContainerStep(a) /\ UNCHANGED <<call, latches, begun>>)

\* Host commands and the outside world, with no call of the agent under way.
Manage(a) ==
  /\ At(a, "idle")
  /\ Initialize(a) \/ StopContainer(a) \/ RemoveContainer(a) \/ Shutdown(a)
Outside == EngineGoes \/ EngineComes \/ Meddle

Next ==
  \/ \E a \in Agents : BeginCall(a) \/ Interrupt(a) \/ Work(a)
  \/ (Outside \/ \E a \in Agents : Manage(a)) /\ UNCHANGED <<call, latches, begun>>

Spec == Init /\ [][Next]_vars

\* A thread that has something to do goes on: docker answers every command or the
\* client gives up on it, a build ends.
FairSpec == Spec /\ \A a \in Agents : WF_vars(Work(a))
-----------------------------------------------------------------------------
(* Properties                                                              *)

TypeOK ==
  /\ DockerTypeOK
  /\ call \in [Agents -> [phase : Phases, ran : Nat, result : Results,
                          armed : BOOLEAN]]
  /\ latches \in [Agents -> 0..2]
  /\ begun \in 0..MaxCalls

\* The result tells what became of the command.  However the call ends (an exception
\* included, which leaves the local backend before there is a process as well as after the
\* command has run), the command is started at most once; a success means it was started,
\* and so does a timeout of a process of the agent's own; a refusal by the registry, the
\* review or a latch means it was not.
ResultTellsTheRun ==
  \A a \in Agents :
    /\ call[a].ran <= 1
    /\ At(a, "done") =>
         /\ call[a].result = "success" => call[a].ran = 1
         /\ call[a].result = "timeout" /\ a \in local => call[a].ran = 1
         /\ call[a].result \in {"invalid", "blocked", "host", "interrupted"} => call[a].ran = 0

\* An interrupt that comes before a call begins keeps its command from being started,
\* however the container comes and goes meanwhile (executors' interrupt and exec).
ArmedCallsDoNotRun == \A a \in Agents : call[a].armed => call[a].ran = 0

\* What is left of the outside world's interference: the engine runs, no container has
\* a similar name, nobody has paused the container.
Settled == /\ faults = MaxFaults /\ engine = "up" /\ other = "absent" /\ own # "paused"

\* ContainerManager.ensure_running ("makes sure the container runs"): once the outside
\* world leaves it alone, one agent on its way through it is enough, whoever it races.
ContainerComesUp ==
  (Settled /\ \E a \in Agents : at[a] = "engine") ~> own = "running"

\* Every tool call is answered, whatever becomes of the container.
CallsEnd == \A a \in Agents : ~At(a, "idle") ~> At(a, "idle")
-----------------------------------------------------------------------------
(* The inductive invariant behind ResultTellsTheRun and ArmedCallsDoNotRun. *)

\* What each phase knows of the command, and the latch an armed call will meet.
PhaseInv(a) ==
  /\ call[a].phase \in {"idle", "entered", "preparing", "running"} => call[a].ran = 0
  /\ At(a, "excepted") => call[a].ran <= 1
  /\ call[a].armed => ~(call[a].phase \in {"preparing", "running", "excepted"})
  /\ call[a].armed /\ At(a, "entered") => latches[a] > 0

CallInv ==
  /\ TypeOK
  /\ \A a \in Agents : PhaseInv(a)
  /\ ResultTellsTheRun
  /\ ArmedCallsDoNotRun
=============================================================================
