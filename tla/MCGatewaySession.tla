-------------------------- MODULE MCGatewaySession --------------------------
(* Model instances of GatewaySession.                                      *)
EXTENDS GatewaySession, TLC

\* What clients put in resume_from_event_index.
FreshOnly == {Replay!NoResume}
FreshOrSeen == {Replay!NoResume, 0, 2}

Symmetry == Permutations(Conns) \cup Permutations(Requests)
=============================================================================
