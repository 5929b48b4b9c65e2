---------------------------- MODULE HostSessions ----------------------------
(* The sessions of one server process, which share its files.              *)
CONSTANTS
  Sessions,   \* sessions, each with a thread that does one thing at a time
  None        \* nothing: no file, no agent, nothing cached
=============================================================================
