---------------------------- MODULE BridgeServer ----------------------------
(***************************************************************************)
(* The deprecated bridge between a TUI and the agent:                      *)
(* infrastructure/bridge/server.py with its stdio transport, its message   *)
(* handler and its interrupt handler.                                      *)
(*                                                                         *)
(* Its main thread only waits; everything is done on the transport's       *)
(* reader thread, which calls the handlers between two lines.  So a line   *)
(* is read when the one before it has been dealt with, and an interrupt    *)
(* line as late as any other.  The queue the reader also fills is only     *)
(* ever emptied.                                                           *)
(*                                                                         *)
(* The agent is any generator that keeps the order of module               *)
(* ResponseStream.                                                         *)
(***************************************************************************)
EXTENDS Integers, Sequences

CONSTANTS
  MaxLines,      \* bound: lines the frontend writes
  MaxResponses,  \* bound: responses of a turn that lead to more of them
  MaxCalls       \* bound: tool calls of one answer

ASSUME ServerAssumption == MaxLines \in Nat /\ MaxResponses \in Nat /\ MaxCalls \in Nat

VARIABLES
  stdin,      \* lines written by the frontend and not yet read; "eof" and "garbled" end it
  lines,      \* how many lines the frontend has written
  broken,     \* the frontend no longer reads: writing to stdout raises
  main,       \* main thread: "init", "starting", "started", "looping", "stopping", "joining", "exited"
  running,    \* BridgeServer._running
  transport,  \* StdioTransport._running
  reader,     \* reader thread: "off", "reading", "blocked" in readline, "taken", "resuming",
              \* "yielded", "ended"
  line,       \* the line the reader has taken last
  queue,      \* StdioTransport._input_queue
  said, announced, answered, \* the agent's generator (module ResponseStream)
  responses,  \* bound: responses of this turn
  closed,     \* history: closed[n]: messages that gave the prompt back, about line n
  early       \* history: the end of the input was seen before the server was running

agent == <<said, announced, answered>>
frontend == <<stdin, lines, broken>>
serverVars == <<frontend, main, running, transport, reader, line, queue, agent, responses,
          closed, early>>

Agent == INSTANCE ResponseStream

Line(kind, number) == [kind |-> kind, number |-> number]
Ends == {"eof", "garbled"}

TransportInit == transport = FALSE /\ reader = "off" /\ queue = <<>>

ServerInit ==
  /\ stdin = <<>> /\ lines = 0 /\ broken = FALSE
  /\ main = "init" /\ running = FALSE
  /\ TransportInit
  /\ line = Line("none", 0)
  /\ Agent!Init /\ responses = 0
  /\ closed = [n \in 1..MaxLines |-> 0] /\ early = FALSE

-----------------------------------------------------------------------------
(* The frontend                                                            *)

\* It writes what it likes, until its end of the pipe is closed, or something that is no
\* text makes reading fail.
WriteLine ==
  /\ lines < MaxLines
  /\ \A i \in 1..Len(stdin) : stdin[i].kind \notin Ends
  /\ line.kind \notin Ends
  /\ lines' = lines + 1
  /\ \E kind \in {"message", "interrupt", "blank"} \union Ends :
       stdin' = Append(stdin, Line(kind, lines + 1))
  /\ UNCHANGED <<broken, main, running, transport, reader, line, queue, agent, responses,
                 closed, early>>

StopsReading ==
  /\ ~broken /\ broken' = TRUE
  /\ UNCHANGED <<stdin, lines, main, running, transport, reader, line, queue, agent,
                 responses, closed, early>>

\* send_raw: a message is printed, or TransportError is raised.
Raises == broken

Closing == {"done", "error"}
\* _send_message_with_logging, about the line the reader has taken.
Send(kind) ==
  closed' = IF ~Raises /\ kind \in Closing
              THEN [closed EXCEPT ![line.number] = @ + 1] ELSE closed

-----------------------------------------------------------------------------
(* The main thread                                                         *)

\* main_with_agent: without an agent there is no server.
MakeAgent ==
  /\ main = "init"
  /\ main' \in {"starting", "exited"}
  /\ UNCHANGED <<frontend, running, transport, reader, line, queue, agent, responses,
                 closed, early>>

\* start, up to transport.start: from here on the reader calls back.
StartTransport ==
  /\ main = "starting"
  /\ main' = "started"
  /\ transport' = TRUE /\ reader' = "reading"
  /\ UNCHANGED <<frontend, running, line, queue, agent, responses, closed, early>>

\* The rest of start.  If READY cannot be sent, start raises, and so does run.
BeginRunning ==
  /\ main = "started"
  /\ running' = TRUE
  /\ main' = IF Raises THEN "exited" ELSE "looping"
  /\ UNCHANGED <<frontend, transport, reader, line, queue, agent, responses, closed, early>>

\* run: the loop ends with either flag, or a KeyboardInterrupt; stop is next.
LeaveLoop ==
  /\ main = "looping"
  /\ ~(running /\ transport)
  /\ main' = "stopping"
  /\ UNCHANGED <<frontend, running, transport, reader, line, queue, agent, responses,
                 closed, early>>
KeyboardInterrupt ==
  /\ main = "looping" /\ running
  /\ main' = "stopping"
  /\ UNCHANGED <<frontend, running, transport, reader, line, queue, agent, responses,
                 closed, early>>

\* stop does nothing when the end of the input has reset _running.
Stop ==
  /\ main = "stopping"
  /\ main' = IF running THEN "joining" ELSE "exited"
  /\ running' = FALSE
  /\ transport' = IF running THEN FALSE ELSE transport
  /\ UNCHANGED <<frontend, reader, line, queue, agent, responses, closed, early>>

\* transport.stop waits a second for the reader, and the process ends, with or without it.
JoinReader ==
  /\ main = "joining"
  /\ main' = "exited"
  /\ UNCHANGED <<frontend, running, transport, reader, line, queue, agent, responses,
                 closed, early>>

Main == MakeAgent \/ StartTransport \/ BeginRunning \/ LeaveLoop \/ Stop \/ JoinReader

-----------------------------------------------------------------------------
(* The reader thread                                                       *)

Alive == main # "exited"

\* Mutant: the end of the input is only put into the queue.
OnEof_KeepsRunning == UNCHANGED <<running, early>>

\* _on_eof_received
OnEof ==
  /\ running' = FALSE
  /\ early' = (main = "started")

\* _stdin_reader looks at _running before readline, which blocks until there is a line:
\* stop may come meanwhile.
AwaitLine ==
  /\ Alive /\ reader = "reading" /\ transport
  /\ reader' = "blocked"
  /\ UNCHANGED <<frontend, main, running, transport, line, queue, agent, responses, closed,
                 early>>

\* _stdin_reader, when it has read the end of the input, or reading has raised.
ReadEnd ==
  /\ Alive /\ reader = "blocked" /\ stdin # <<>> /\ Head(stdin).kind \in Ends
  /\ line' = Head(stdin) /\ stdin' = Tail(stdin)
  /\ queue' = Append(queue, Head(stdin))
  /\ OnEof
  /\ reader' = "ended"
  /\ UNCHANGED <<lines, broken, main, transport, agent, responses, closed>>

\* A line goes into the queue and to the message callback; an empty one only into the
\* queue.
ReadLine ==
  /\ Alive /\ reader = "blocked" /\ stdin # <<>> /\ Head(stdin).kind \notin Ends
  /\ line' = Head(stdin) /\ stdin' = Tail(stdin)
  /\ queue' = Append(queue, Head(stdin))
  /\ reader' = IF Head(stdin).kind = "blank" THEN "reading" ELSE "taken"
  /\ UNCHANGED <<lines, broken, main, running, transport, agent, responses, closed, early>>

\* stop has been called: the loop is not entered again.
ReaderStops ==
  /\ Alive /\ reader = "reading" /\ ~transport
  /\ reader' = "ended"
  /\ UNCHANGED <<frontend, main, running, transport, line, queue, agent, responses, closed,
                 early>>

InterruptPending == \E i \in 1..Len(queue) : queue[i].kind = "interrupt"

\* drain_pending_interrupts takes whatever is in the queue.
DrainPendingInterrupts == queue' = <<>>

\* check_interrupt on an interrupt line: agent.interrupt, and done.
OnInterrupt ==
  /\ Alive /\ reader = "taken" /\ line.kind = "interrupt"
  /\ DrainPendingInterrupts
  /\ IF InterruptPending THEN Send("done") ELSE UNCHANGED closed
  /\ reader' = "reading"
  /\ UNCHANGED <<frontend, main, running, transport, line, agent, responses, early>>

\* handle_input: agent.chat makes a generator.
HandleInput ==
  /\ Alive /\ reader = "taken" /\ line.kind = "message"
  /\ reader' = "resuming"
  /\ responses' = 0
  /\ UNCHANGED <<frontend, main, running, transport, line, queue, agent, closed, early>>

\* The generator yields its next response.
Yield ==
  /\ Alive /\ reader = "resuming"
  /\ \/ responses < MaxResponses /\ (Agent!Ask \/ Agent!Delta)
     \/ /\ announced' \in 0..MaxCalls /\ Agent!Answer
        /\ announced' > 0 => responses < MaxResponses
     \/ Agent!Result \/ Agent!Acknowledge \/ Agent!Fail
  /\ responses' = IF responses < MaxResponses THEN responses + 1 ELSE responses
  /\ reader' = "yielded"
  /\ UNCHANGED <<frontend, main, running, transport, line, queue, closed, early>>

TurnOver ==
  /\ Alive /\ reader = "resuming"
  /\ Agent!End
  /\ reader' = "reading"
  /\ UNCHANGED <<frontend, main, running, transport, line, queue, responses, closed, early>>

\* Mutant: an answer is not told, because its text has been.
Projections_AnswerIsSilent ==
  CASE said = "delta" -> {"talk", "nothing"}
    [] said = "status" -> {"talk"}
    [] said = "interrupted" -> {"done"}
    [] said = "error" -> {"error"}
    [] OTHER -> {"nothing"}

\* response_to_dict: what becomes of each response; an answer with calls, a result and
\* some deltas are skipped.
Projections ==
  CASE said = "status" -> {"talk"}
    [] said = "delta" -> {"talk", "nothing"}
    [] said = "answer" -> IF announced = 0 THEN {"done"} ELSE {"nothing"}
    [] said = "interrupted" -> {"done"}
    [] said = "error" -> {"error"}
    [] OTHER -> {"nothing"}

\* The body of handle_input's loop.  A message that cannot be sent raises; so do the two
\* error messages about that, and the reader goes on with the next line.
Forward ==
  /\ Alive /\ reader = "yielded"
  /\ DrainPendingInterrupts
  /\ IF InterruptPending /\ ~Raises
     THEN Send("done") /\ Agent!Close /\ reader' = "reading"
     ELSE \E kind \in Projections :
            /\ Send(kind)
            /\ IF kind = "nothing" \/ ~Raises
               THEN reader' = "resuming" /\ UNCHANGED agent
               ELSE reader' = "reading" /\ Agent!Close
  /\ UNCHANGED <<frontend, main, running, transport, line, responses, early>>

Reader ==
  \/ AwaitLine \/ ReadEnd \/ ReadLine \/ ReaderStops \/ OnInterrupt
  \/ HandleInput \/ Yield \/ TurnOver \/ Forward

ServerNext == WriteLine \/ StopsReading \/ KeyboardInterrupt \/ Main \/ Reader

ServerSpec == ServerInit /\ [][ServerNext]_serverVars

\* Both threads keep running; the frontend and the user owe nothing.
FairServerSpec == ServerSpec /\ WF_serverVars(Main) /\ WF_serverVars(Reader)
-----------------------------------------------------------------------------
(* Properties                                                              *)

Dealing == reader \in {"taken", "resuming", "yielded"}
Read == 1..(IF Dealing THEN line.number - 1 ELSE line.number)

\* Every line the reader is done with has given the prompt back exactly once, and none
\* it has not come to has: no line is dropped by the draining of the queue, answered
\* twice, or answered before its turn.  A turn is never stopped by an interrupt: the
\* lines that ask for one wait until the turn is over.
LinesAreAnsweredInOrder ==
  /\ \A n \in 1..MaxLines : n > line.number => closed[n] = 0
  /\ ~broken => \A n \in Read : closed[n] <= 1
  /\ ~broken /\ ~Dealing /\ line.kind \in {"message", "interrupt"} => closed[line.number] = 1
  /\ reader \in {"resuming", "yielded"} => ~InterruptPending

\* The server ends with its input (run: "blocks until EOF is received"), unless the end
\* is seen between the start of the reader and _running = True, which overwrites it.
ServerEnds == (reader = "ended" /\ ~early) ~> main = "exited"
=============================================================================
