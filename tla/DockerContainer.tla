--------------------------- MODULE DockerContainer ---------------------------
(***************************************************************************)
(* The sandbox container all sessions share: the docker command line       *)
(* client, the image builder, the container manager that makes the         *)
(* container run before every command, and the lifecycle service.          *)
(*                                                                         *)
(* Every session has an agent of its own, created on a thread of its own,  *)
(* and all of them manage the one container of that name.  Each docker     *)
(* command is one step, so the commands of two agents interleave, and      *)
(* between two commands somebody else may stop the container or the engine *)
(* may go away.                                                            *)
(***************************************************************************)
EXTENDS Naturals

CONSTANTS
  Agents,     \* agents (sessions) that share the container
  MaxFaults   \* bound: engine changes, timeouts and outside interventions

ASSUME DockerAssumption == MaxFaults \in Nat

VARIABLES
  local,      \* agents whose backend runs commands as processes of their own
  engine,     \* "up", "down" (no daemon) or "missing" (no docker command)
  image,      \* the image has been built
  own,        \* the container of the configured name
  other,      \* a container whose name only contains the configured name
  at,         \* at[a]: the docker command agent a's container manager is at
  lifecycle,  \* lifecycle[a]: what the lifecycle service is doing
  faults      \* faults so far

docker == <<local, engine, image, own, other, at, lifecycle, faults>>

EngineStates    == {"up", "down", "missing"}
ContainerStates == {"absent", "exited", "paused", "running"}
ManagerSteps    == {"off", "engine", "status", "run", "start", "ready", "failed"}
LifecycleStates == {"new", "initializing", "initialized", "broken", "stopped"}

DockerTypeOK ==
  /\ local \subseteq Agents
  /\ engine \in EngineStates
  /\ image \in BOOLEAN
  /\ own \in ContainerStates
  /\ other \in {"absent", "exited", "running"}
  /\ at \in [Agents -> ManagerSteps]
  /\ lifecycle \in [Agents -> LifecycleStates]
  /\ faults \in 0..MaxFaults

\* Any state of the machine docker runs on; no agent exists yet.
DockerInit ==
  /\ local \in SUBSET Agents
  /\ engine = "up"
  /\ image \in BOOLEAN
  /\ own \in ContainerStates
  /\ other \in {"absent", "exited", "running"}
  /\ at = [a \in Agents |-> "off"]
  /\ lifecycle = [a \in Agents |-> "new"]
  /\ faults = 0

-----------------------------------------------------------------------------
(* The docker command line.                                                *)

Fault == faults < MaxFaults /\ faults' = faults + 1
NoFault == UNCHANGED faults

\* DockerClient._run: the command answers with an exit status, or it raises: it is
\* not installed, or it does not end in time.
Answers == engine # "missing" /\ NoFault
Raises  == \/ engine = "missing" /\ NoFault
           \/ engine # "missing" /\ Fault

\* check_engine: docker --version does not ask the daemon, so it succeeds without one.
EngineFound == engine # "missing"
\* check_image_exists: docker image inspect does ask it.
ImageFound  == engine = "up" /\ image
\* build_image
CanBuild    == engine = "up"

\* get_container_status: docker ps with a name filter, which matches every name
\* that contains the configured one.  Without a daemon nothing is printed.  A
\* status is taken for running when it says "up", which a paused one does too.
Listed(states) == engine = "up" /\ (own \in states \/ other \in states)
StatusExists   == Listed({"exited", "paused", "running"})
StatusRunning  == Listed({"paused", "running"})
\* run_container: docker run creates the container; the name must be free.
CanRun   == engine = "up" /\ image /\ own = "absent"
\* start_container: docker start starts one that exists and is not paused.
CanStart == engine = "up" /\ own \in {"exited", "running"}
\* exec_command: docker exec needs a container that runs.
CanExec  == engine = "up" /\ own = "running"

-----------------------------------------------------------------------------
(* ContainerManager.ensure_running                                         *)

Goto(a, step) == at' = [at EXCEPT ![a] = step]

\* ensure_running's first two phases: the engine, and the image, built unless docker
\* finds it.  ImageBuilder._build fails when the Dockerfile is missing or docker build
\* does, which has no time limit.
PrepareImage(a) ==
  /\ at[a] = "engine"
  /\ \/ /\ EngineFound /\ (ImageFound \/ CanBuild) /\ NoFault
        /\ image' = TRUE /\ Goto(a, "status")
     \/ /\ ~EngineFound \/ ~(ImageFound \/ CanBuild)
        /\ NoFault /\ UNCHANGED image /\ Goto(a, "failed")
     \/ /\ EngineFound
        /\ Fault /\ UNCHANGED image /\ Goto(a, "failed")
  /\ UNCHANGED <<local, engine, own, other, lifecycle>>

\* Mutant: a container that exists but does not run is created again.
AfterStatus_RunsAgain == IF ~StatusRunning THEN "run" ELSE "ready"

\* What ensure_running does next, from the status it has read.
AfterStatus == IF ~StatusExists THEN "run"
               ELSE IF ~StatusRunning THEN "start" ELSE "ready"

CheckStatus(a) ==
  /\ at[a] = "status"
  /\ \/ Answers /\ Goto(a, AfterStatus)
     \/ Raises /\ Goto(a, "failed")
  /\ UNCHANGED <<local, engine, image, own, other, lifecycle>>

\* _create_and_start.  A docker run that is not answered in time may have created
\* the container all the same.
RunContainer(a) ==
  /\ at[a] = "run"
  /\ \/ Answers /\ CanRun /\ own' = "running" /\ Goto(a, "ready")
     \/ Answers /\ ~CanRun /\ Goto(a, "failed") /\ UNCHANGED own
     \/ Raises /\ Goto(a, "failed") /\ own' \in {own, IF CanRun THEN "running" ELSE own}
  /\ UNCHANGED <<local, engine, image, other, lifecycle>>
\* _start_existing
StartContainer(a) ==
  /\ at[a] = "start"
  /\ \/ Answers /\ CanStart /\ own' = "running" /\ Goto(a, "ready")
     \/ Answers /\ ~CanStart /\ Goto(a, "failed") /\ UNCHANGED own
     \/ Raises /\ Goto(a, "failed") /\ own' \in {own, IF CanStart THEN "running" ELSE own}
  /\ UNCHANGED <<local, engine, image, other, lifecycle>>

\* DockerExecutionBackend.ensure_ready; the local backend is always ready.
EnsureReady(a) == Goto(a, IF a \in local THEN "ready" ELSE "engine")

EnsureRunning(a) ==
  PrepareImage(a) \/ CheckStatus(a) \/ RunContainer(a) \/ StartContainer(a)

-----------------------------------------------------------------------------
(* LifecycleService: the agent's constructor waits for the container.      *)

Initialize(a) ==
  /\ lifecycle[a] \in {"new", "broken"}
  /\ lifecycle' = [lifecycle EXCEPT ![a] = "initializing"]
  /\ EnsureReady(a)
  /\ UNCHANGED <<local, engine, image, own, other, faults>>

\* initialize ends, or raises what ensure_ready raised: there is no agent then.
Initialized(a) ==
  /\ lifecycle[a] = "initializing"
  /\ at[a] \in {"ready", "failed"}
  /\ lifecycle' = [lifecycle EXCEPT ![a] = IF at[a] = "ready" THEN "initialized" ELSE "broken"]
  /\ Goto(a, "off")
  /\ UNCHANGED <<local, engine, image, own, other, faults>>

\* DockerExecutionBackend.cleanup: stop the container, or stop and remove it.
\* Both look at the status first and do nothing when docker lists nothing of the
\* name; docker stop and docker rm act on the container of exactly that name.
StopContainer(a) ==
  /\ a \notin local
  /\ lifecycle[a] = "initialized" /\ at[a] = "off"
  /\ Fault
  /\ own' = (IF StatusRunning /\ own = "running" THEN "exited" ELSE own)
  /\ UNCHANGED <<local, engine, image, other, at, lifecycle>>
RemoveContainer(a) ==
  /\ a \notin local
  /\ lifecycle[a] = "initialized" /\ at[a] = "off"
  /\ Fault
  /\ own' = (IF StatusExists /\ own \in {"exited", "running"} THEN "absent" ELSE own)
  /\ UNCHANGED <<local, engine, image, other, at, lifecycle>>

\* AliceAgent.shutdown: the agent is not used again; the container is left as it is.
Shutdown(a) ==
  /\ lifecycle[a] = "initialized" /\ at[a] = "off"
  /\ lifecycle' = [lifecycle EXCEPT ![a] = "stopped"]
  /\ UNCHANGED <<local, engine, image, own, other, at, faults>>

-----------------------------------------------------------------------------
(* The outside world.                                                      *)

\* The engine goes and comes back.  The container has the restart policy "always":
\* when the daemon returns it runs again.
EngineGoes  == /\ engine = "up" /\ Fault /\ engine' \in {"down", "missing"}
               /\ UNCHANGED <<local, image, own, other, at, lifecycle>>
EngineComes == /\ engine # "up" /\ engine' = "up"
               /\ own' = (IF own = "exited" THEN "running" ELSE own)
               /\ UNCHANGED <<local, image, other, at, lifecycle, faults>>
\* Somebody stops, pauses or removes the container.
Meddle      == /\ engine = "up" /\ own = "running" /\ Fault
               /\ own' \in {"exited", "paused", "absent"}
               /\ UNCHANGED <<local, engine, image, other, at, lifecycle>>
=============================================================================
