--------------------------- MODULE RequestService ---------------------------
(***************************************************************************)
(* What a gateway session promises its clients about requests, whatever    *)
(* connections, queues, tasks and threads carry them out: one request runs *)
(* at a time, a request runs at most once, and it ends in a final state    *)
(* that never changes.                                                     *)
(***************************************************************************)
CONSTANTS
  Requests,
  Finals      \* the final states; neither "idle" nor "running" is one

VARIABLE state

Init == state = [r \in Requests |-> "idle"]

Accept(r) ==
  /\ state[r] = "idle"
  /\ \A q \in Requests : state[q] # "running"
  /\ state' = [state EXCEPT ![r] = "running"]

End(r) ==
  /\ state[r] = "running"
  /\ \E final \in Finals : state' = [state EXCEPT ![r] = final]

Next == \E r \in Requests : Accept(r) \/ End(r)

Spec == Init /\ [][Next]_state

FairSpec == Spec /\ \A r \in Requests : WF_state(End(r))
=============================================================================
