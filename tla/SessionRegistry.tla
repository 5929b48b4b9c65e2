--------------------------- MODULE SessionRegistry ---------------------------
(***************************************************************************)
(* The sessions of a gateway server over its life and the next: which      *)
(* runtime a session id stands for, and what a client misses that resumes  *)
(* from an index it has from another one.                                  *)
(*                                                                         *)
(* A bind is one step here, and a frame that is written has arrived;       *)
(* GatewaySession has the awaits, the queue and the writer of one runtime. *)
(* A session has one client, which reads the connection it bound last and  *)
(* may leave others behind.                                                *)
(***************************************************************************)
EXTENDS Integers, Sequences, FiniteSets, Functions

CONSTANTS
  SessionIds, Connections,
  ReplayWindow,  \* replay_limit, which ReplayBuffer makes one at least
  MaxRuntimes,   \* bound: runtimes made
  MaxStored      \* bound: frames stored by all runtimes

ASSUME RegistryAssumption ==
  ReplayWindow \in Nat \ {0} /\ MaxRuntimes \in Nat /\ MaxStored \in Nat

VARIABLES
  sessions, \* _sessions: the runtime of each id, 0 if there is none
  runtimes, \* every runtime made, in both lives
  handlers, \* of each connection: its session (bound or not) and the runtime it writes
  clients   \* of each session: what its client has received, and where it would resume

registryVars == <<sessions, runtimes, handlers, clients>>

\* recent: touched within the time to live.  A runtime has a request under way, or none.
Runtime(s) == [session |-> s, stored |-> 0, running |-> FALSE, recent |-> TRUE]
NoHandler == [bound |-> FALSE, session |-> CHOOSE s \in SessionIds : TRUE, writes |-> 0]

\* The runtime of the last bind and what came of it: the indices received, whether a gap
\* was announced, the last index a frame had and that frame's runtime.  base: the client
\* cannot expect what is at or before it, as it gave no index, or one of another runtime.
NewClient == [runtime |-> 0, received |-> {}, gap |-> FALSE, seen |-> 0, seenIn |-> 0, base |-> 0]

RegistryInit ==
  /\ sessions = [s \in SessionIds |-> 0] /\ runtimes = <<>>
  /\ handlers = [c \in Connections |-> NoHandler]
  /\ clients = [s \in SessionIds |-> NewClient]

RetainedOf(n) == (IF n > ReplayWindow THEN n - ReplayWindow + 1 ELSE 1)..n

Replay(n) == INSTANCE ReplayBuffer WITH
  log <- [i \in 1..n |-> [kind |-> "event"]],
  frames <- [i \in 1..Cardinality(RetainedOf(n)) |-> n - Cardinality(RetainedOf(n)) + i],
  ReplayLimit <- ReplayWindow, FrameKinds <- {"event"}, MaxEvents <- MaxStored

\* Mutant: a client that is too far behind is not told.
Gap_Never(n, resume) == FALSE
\* SessionBindResult.replay_gap
Gap(n, resume) == Replay(n)!ReplayGap(resume)

NoIndex == -1
Highest(indices) == CHOOSE i \in indices : \A j \in indices : j <= i

\* A client that is given frames goes on from the last.
Receives(client, r, indices) ==
  IF indices = {} THEN client
  ELSE [client EXCEPT !.received = @ \union indices,
                      !.seen = Highest(indices), !.seenIn = r]

BoundClient(client, r, n, resume) ==
  LET old  == IF client.runtime = r THEN client
              ELSE [client EXCEPT !.runtime = r, !.received = {}, !.gap = FALSE, !.base = 0]
      base == CASE resume = NoIndex          -> n - Cardinality(RetainedOf(n))
                [] resume # NoIndex /\ client.seenIn # r -> resume
                [] OTHER                      -> 0
      told == [old EXCEPT !.gap = @ \/ Gap(n, resume),
                          !.base = IF base > @ THEN base ELSE @]
  IN  Receives(told, r, Replay(n)!ReplayFrom(resume))

\* session.bind: the connection's own writer ends, the session's runtime is found or made
\* and touched, and its previous writer is cancelled.
Bind(c, s, resume) ==
  LET r == IF sessions[s] # 0 THEN sessions[s] ELSE Len(runtimes) + 1
      known == IF sessions[s] # 0 THEN runtimes ELSE Append(runtimes, Runtime(s))
  IN  /\ r <= MaxRuntimes
      /\ sessions' = [sessions EXCEPT ![s] = r]
      /\ runtimes' = [known EXCEPT ![r].recent = TRUE]
      /\ handlers' =
           [d \in Connections |->
              CASE d = c                              -> [bound |-> TRUE, session |-> s, writes |-> r]
                [] d # c /\ handlers[d].writes = r    -> [handlers[d] EXCEPT !.writes = 0]
                [] OTHER                              -> handlers[d]]
      /\ clients' = [clients EXCEPT ![s] = BoundClient(@, r, known[r].stored, resume)]

Disconnect(c) ==
  /\ handlers[c].bound
  /\ handlers' = [handlers EXCEPT ![c] = NoHandler]
  /\ UNCHANGED <<sessions, runtimes, clients>>

\* A frame is stored, and written to the connection that writes this runtime, if any.
Stored(r, running, recent) ==
  /\ FoldFunction(+, 0, [q \in DOMAIN runtimes |-> runtimes[q].stored]) < MaxStored
  /\ LET s == runtimes[r].session IN
       /\ runtimes' = [runtimes EXCEPT ![r].stored = @ + 1, ![r].running = running,
                                       ![r].recent = recent]
       /\ clients' = IF clients[s].runtime = r /\ \E c \in Connections : handlers[c].writes = r
                     THEN [clients EXCEPT ![s] = Receives(@, r, {runtimes[r].stored + 1})]
                     ELSE clients
  /\ UNCHANGED <<sessions, handlers>>

\* request.start: the handler looks its session up anew, which may have another runtime now
\* than the one it writes, or none (an error, and nothing changes).
StartRequest(c) ==
  /\ handlers[c].bound
  /\ LET r == sessions[handlers[c].session] IN
       /\ r # 0
       /\ ~runtimes[r].running
       /\ Stored(r, TRUE, TRUE)

\* The agent goes on, in a runtime that is registered or not; nothing of it touches.
RequestGoesOn(r) ==
  /\ runtimes[r].running
  /\ \E running \in BOOLEAN : Stored(r, running, runtimes[r].recent)

\* The time to live of a runtime is over.
Ages(r) ==
  /\ runtimes[r].recent
  /\ runtimes' = [runtimes EXCEPT ![r].recent = FALSE]
  /\ UNCHANGED <<sessions, handlers, clients>>

\* The runtime is forgotten as it is: its request, its agent and its writer go on.
EvictExpired ==
  /\ \E s \in SessionIds : sessions[s] # 0 /\ ~runtimes[sessions[s]].recent
  /\ sessions' = [s \in SessionIds |->
                    IF sessions[s] # 0 /\ ~runtimes[sessions[s]].recent THEN 0 ELSE sessions[s]]
  /\ UNCHANGED <<runtimes, handlers, clients>>

\* The server ends and another begins, with nothing of the first.
RestartGateway ==
  /\ \E s \in SessionIds : sessions[s] # 0
  /\ sessions' = [s \in SessionIds |-> 0]
  /\ runtimes' = [r \in DOMAIN runtimes |-> [runtimes[r] EXCEPT !.running = FALSE]]
  /\ handlers' = [c \in Connections |-> NoHandler]
  /\ UNCHANGED clients

RegistryNext ==
  \/ \E c \in Connections, s \in SessionIds :
       \E resume \in {NoIndex, clients[s].seen} : Bind(c, s, resume)
  \/ \E c \in Connections : Disconnect(c) \/ StartRequest(c)
  \/ \E r \in DOMAIN runtimes : RequestGoesOn(r) \/ Ages(r)
  \/ EvictExpired \/ RestartGateway

RegistrySpec == RegistryInit /\ [][RegistryNext]_registryVars
-----------------------------------------------------------------------------
(* Properties                                                              *)

\* A client whose connection is written from the runtime it bound last has received every
\* frame of it, or has been told of a gap, whatever connections came and went, unless it
\* gave an index of an earlier runtime of its session: the indices of another begin at one
\* (replay.py:34) and a client that is ahead of them is told of no gap.  Then it misses no
\* more than up to that index.  That takes a restart, or evict_expired.
SilentLossIsStale ==
  \A s \in SessionIds, c \in Connections :
    LET client == clients[s]
        r      == handlers[c].writes
    IN  handlers[c].bound /\ handlers[c].session = s /\ r # 0 /\ r = client.runtime =>
          client.gap \/ \A i \in 1..runtimes[r].stored : i \in client.received \/ i <= client.base
=============================================================================
