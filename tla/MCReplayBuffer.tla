--------------------------- MODULE MCReplayBuffer ---------------------------
(* Model instance of ReplayBuffer: every sequence of up to MaxEvents frames *)
(* of the four kinds replay.py tells apart.                                 *)
EXTENDS ReplayBuffer

MCFrameKinds == {"accepted", "delta", "event", "completed"}
=============================================================================
