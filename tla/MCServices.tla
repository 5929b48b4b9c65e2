------------------------------ MODULE MCServices ------------------------------
(***************************************************************************)
(* Six services that have no state in common and do not call one another:  *)
(* each is checked on its own, in a part of the same run.                  *)
(***************************************************************************)
EXTENDS SessionRegistry, RequestContext, EventBus, WorkingRounds, LogFiles, CommandReview, TLC

VARIABLE part  \* the service that takes steps; the others stay as they began

vars == <<registryVars, requestVars, busVars, roundVars, logVars, reviewVars, part>>

Init ==
  /\ RegistryInit /\ RequestInit /\ BusInit /\ RoundsInit /\ LogInit /\ ReviewInit
  /\ part \in {"registry", "request", "bus", "rounds", "log", "review"}
  /\ part # "request" => base = 0
  /\ part # "rounds" => titled

Next ==
  /\ UNCHANGED part
  /\ \/ /\ part = "registry" /\ RegistryNext
        /\ UNCHANGED <<requestVars, busVars, roundVars, logVars, reviewVars>>
     \/ /\ part = "request" /\ RequestNext
        /\ UNCHANGED <<registryVars, busVars, roundVars, logVars, reviewVars>>
     \/ /\ part = "bus" /\ BusNext
        /\ UNCHANGED <<registryVars, requestVars, roundVars, logVars, reviewVars>>
     \/ /\ part = "rounds" /\ RoundsNext
        /\ UNCHANGED <<registryVars, requestVars, busVars, logVars, reviewVars>>
     \/ /\ part = "log" /\ LogNext
        /\ UNCHANGED <<registryVars, requestVars, busVars, roundVars, reviewVars>>
     \/ /\ part = "review" /\ ReviewNext
        /\ UNCHANGED <<registryVars, requestVars, busVars, roundVars, logVars>>

Spec == Init /\ [][Next]_vars

Symmetry == Permutations(Publishers) \union Permutations(Connections)
=============================================================================
