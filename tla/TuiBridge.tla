------------------------------ MODULE TuiBridge ------------------------------
(***************************************************************************)
(* The program as it is run by default: the Rust TUI (src/frontend), the   *)
(* Python process it spawns (backend/alice/cli/main.py) with its stdin     *)
(* reader thread, and the three pipes between them.                        *)
(*                                                                         *)
(* The agent is any generator that keeps the order of module               *)
(* ResponseStream, which AgentTurn is proved to implement.  User messages  *)
(* are numbered as they are sent; lines of the pipes carry the number of   *)
(* the message they are about, which the program itself does not.          *)
(***************************************************************************)
EXTENDS Integers, Sequences

CONSTANTS
  MaxMessages,   \* bound: messages the user sends
  MaxInterrupts, \* bound: interrupts the user asks for
  MaxResponses,  \* bound: responses of a turn that lead to more of them
  MaxCalls,      \* bound: tool calls of one answer
  MaxLogs,       \* bound: exceptions the backend logs
  MaxPastes      \* bound: messages that were pasted with a line break in them

ASSUME BridgeAssumption ==
  /\ MaxMessages \in Nat /\ MaxInterrupts \in Nat /\ MaxResponses \in Nat
  /\ MaxCalls \in Nat /\ MaxLogs \in Nat /\ MaxPastes \in Nat

VARIABLES
  status,     \* App.status and EventDispatcher.state; "quit" when the TUI is gone
  sent,       \* messages sent so far: the number of the last one
  stdin,      \* lines written by the TUI and not yet read
  stdout,     \* messages written by the backend and not yet handled by the TUI
  stderr,     \* the lines of logged exceptions, by the message being processed
  inputs,     \* TUIBridge.input_queue
  pc,         \* main thread: "init", "waiting", "taken", "resuming", "yielded", "stopped"
  turn,       \* the message being processed
  said, announced, answered, \* the agent's generator (module ResponseStream)
  responses,  \* bound: responses of this turn
  interrupts, logs, pastes, \* bounds: so far
  discarded,  \* history: user messages taken from the queue and dropped
  hits        \* history: interrupts that stopped a turn: the turn meant, the turn stopped

agent == <<said, announced, answered>>
tui == <<status, sent, interrupts, pastes>>
history == <<discarded, hits>>
vars == <<status, sent, stdin, stdout, stderr, inputs, pc, turn, said, announced,
          answered, responses, interrupts, logs, pastes, discarded, hits>>

Agent == INSTANCE ResponseStream

Line(kind, about) == [kind |-> kind, about |-> about]
EOF == Line("eof", 0)

Busy == status \in {"thinking", "responding", "executing_tool"}

Init ==
  /\ status = "starting" /\ sent = 0
  /\ stdin = <<>> /\ stdout = <<>> /\ stderr = <<>> /\ inputs = <<>>
  /\ pc = "init" /\ turn = 0
  /\ Agent!Init
  /\ responses = 0 /\ interrupts = 0 /\ logs = 0 /\ pastes = 0
  /\ discarded = {} /\ hits = {}

\* Output to a TUI that is gone raises and is ignored.
Emit(kind) ==
  stdout' = IF status = "quit" THEN stdout ELSE Append(stdout, Line(kind, turn))
-----------------------------------------------------------------------------
(* The TUI                                                                 *)

\* App.send_message.  Writing to a process that has ended fails, and the status stays.
\* The input is written as it is: with a line break in it, it is two lines.
SendMessage ==
  /\ status = "idle" /\ pc # "stopped" /\ sent < MaxMessages
  /\ sent' = sent + 1
  /\ LET line == Line("message", sent + 1)
     IN  \/ stdin' = Append(stdin, line) /\ UNCHANGED pastes
         \/ /\ pastes < MaxPastes
            /\ stdin' = stdin \o <<line, line>>
            /\ pastes' = pastes + 1
  /\ status' = "thinking"
  /\ UNCHANGED <<stdout, stderr, inputs, pc, turn, agent, responses, interrupts, logs,
                 history>>

\* App.interrupt: the status is left to the backend's answer.
SendInterrupt ==
  /\ Busy /\ pc # "stopped" /\ interrupts < MaxInterrupts
  /\ interrupts' = interrupts + 1
  /\ stdin' = Append(stdin, Line("interrupt", sent))
  /\ UNCHANGED <<status, sent, pastes, stdout, stderr, inputs, pc, turn, agent, responses,
                 logs, history>>

\* The status each kind of bridge message leaves
StatusAfter(kind) ==
  CASE kind \in {"ready", "done", "error"} -> "idle"
    [] kind = "thinking" -> "thinking"
    [] kind = "content" -> "responding"
    [] kind = "executing_tool" -> "executing_tool"
    [] kind = "tokens" -> status

\* drain_bridge_messages, handle_bridge_message
Receive ==
  /\ status # "quit" /\ stdout # <<>>
  /\ status' = StatusAfter(Head(stdout).kind)
  /\ stdout' = Tail(stdout)
  /\ UNCHANGED <<sent, stdin, stderr, inputs, pc, turn, agent, responses, interrupts,
                 logs, pastes, history>>

\* A logged exception reaches the TUI as several lines; its last, the exception
\* itself, is one that is_actionable_stderr_error lets through to handle_bridge_error.
ReceiveStderr ==
  /\ status # "quit" /\ stderr # <<>>
  /\ status' = "idle"
  /\ stderr' = Tail(stderr)
  /\ UNCHANGED <<sent, stdin, stdout, inputs, pc, turn, agent, responses, interrupts,
                 logs, pastes, history>>

\* The TUI ends, because the user quits or because the backend's pipe is closed.
\* Nothing kills the child process; its stdin is closed.
Quit ==
  /\ status # "quit"
  /\ status' = "quit"
  /\ stdin' = Append(stdin, EOF)
  /\ stdout' = <<>> /\ stderr' = <<>>
  /\ UNCHANGED <<sent, inputs, pc, turn, agent, responses, interrupts, logs, pastes,
                 history>>

BackendLost == pc = "stopped" /\ stdout = <<>> /\ Quit
-----------------------------------------------------------------------------
(* The backend                                                             *)

\* The stdin reader thread; it ends after the end of file.
ReadLine ==
  /\ stdin # <<>>
  /\ inputs' = Append(inputs, Head(stdin))
  /\ stdin' = Tail(stdin)
  /\ UNCHANGED <<tui, stdout, stderr, pc, turn, agent, responses, logs, history>>

\* initialize, and the first lines of run
Initialize ==
  /\ pc = "init"
  /\ \/ pc' = "waiting" /\ Emit("ready")
     \/ pc' = "stopped" /\ Emit("error")
  /\ UNCHANGED <<tui, stdin, stderr, inputs, turn, agent, responses, logs, history>>

Interrupts(queue) == {i \in 1..Len(queue) : queue[i].kind = "interrupt"}

\* The while loop that looks for an interrupt: it takes lines until it finds one,
\* and drops the others.  stopped says whether it found one.
Drain(stopped) ==
  LET n == IF Interrupts(inputs) = {} THEN Len(inputs)
           ELSE CHOOSE i \in Interrupts(inputs) : \A j \in Interrupts(inputs) : i <= j
  IN  /\ stopped = (Interrupts(inputs) # {})
      /\ inputs' = SubSeq(inputs, n + 1, Len(inputs))
      /\ discarded' = discarded \cup
           {inputs[i].about : i \in {j \in 1..n : inputs[j].kind = "message"}}
      /\ hits' = IF stopped THEN hits \cup {[meant |-> inputs[n].about, stopped |-> turn]}
                 ELSE hits

\* Mutant: an interrupt that comes between turns is kept for the next one.
SkipInterrupt_Keeps ==
  /\ pc = "waiting" /\ inputs # <<>> /\ Head(inputs).kind = "interrupt"
  /\ inputs' = Append(Tail(inputs), Head(inputs))
  /\ UNCHANGED <<tui, stdin, stdout, stderr, pc, turn, agent, responses, logs, history>>

\* run: the end of file ends the loop, an interrupt has nothing to stop.
TakeEOF ==
  /\ pc = "waiting" /\ inputs # <<>> /\ Head(inputs).kind = "eof"
  /\ pc' = "stopped"
  /\ inputs' = Tail(inputs)
  /\ UNCHANGED <<tui, stdin, stdout, stderr, turn, agent, responses, logs, history>>

SkipInterrupt ==
  /\ pc = "waiting" /\ inputs # <<>> /\ Head(inputs).kind = "interrupt"
  /\ inputs' = Tail(inputs)
  /\ UNCHANGED <<tui, stdin, stdout, stderr, pc, turn, agent, responses, logs, history>>

TakeMessage ==
  /\ pc = "waiting" /\ inputs # <<>> /\ Head(inputs).kind = "message"
  /\ turn' = Head(inputs).about
  /\ inputs' = Tail(inputs)
  /\ pc' = "taken"
  /\ responses' = 0
  /\ UNCHANGED <<tui, stdin, stdout, stderr, agent, logs, history>>

\* _process_user_input looks for an interrupt before it asks the agent.
StartTurn ==
  /\ pc = "taken"
  /\ \/ Drain(FALSE) /\ pc' = "resuming" /\ UNCHANGED stdout
     \/ Drain(TRUE) /\ pc' = "waiting" /\ Emit("done")
  /\ UNCHANGED <<tui, stdin, stderr, turn, agent, responses, logs>>

\* The generator yields its next response.
Yield ==
  /\ pc = "resuming"
  /\ \/ responses < MaxResponses /\ (Agent!Ask \/ Agent!Delta)
     \/ /\ announced' \in 0..MaxCalls /\ Agent!Answer
        /\ announced' > 0 => responses < MaxResponses
     \/ Agent!Result \/ Agent!Acknowledge
  /\ responses' = IF responses < MaxResponses THEN responses + 1 ELSE responses
  /\ pc' = "yielded"
  /\ UNCHANGED <<tui, stdin, stdout, stderr, inputs, turn, logs, history>>

\* The for loop ends with the generator.
TurnOver ==
  /\ pc = "resuming"
  /\ Agent!End
  /\ pc' = "waiting"
  /\ UNCHANGED <<tui, stdin, stdout, stderr, inputs, turn, responses, logs, history>>

\* logger.error with exc_info
LogException ==
  /\ logs < MaxLogs
  /\ logs' = logs + 1
  /\ stderr' = IF status = "quit" THEN stderr ELSE Append(stderr, turn)

\* The turn fails, as a rule with an exception that is logged.
YieldError ==
  /\ pc = "resuming"
  /\ Agent!Fail
  /\ LogException \/ UNCHANGED <<stderr, logs>>
  /\ pc' = "yielded"
  /\ UNCHANGED <<tui, stdin, stdout, inputs, turn, responses, history>>

\* A command cannot be run: the exception is logged, the turn goes on with a result
\* that says so.
CommandFails ==
  /\ pc = "resuming" /\ said = "answer" /\ announced > 0
  /\ LogException
  /\ UNCHANGED <<tui, stdin, stdout, inputs, pc, turn, agent, responses, history>>

\* Mutant: an answer with calls is "done" too.
Projections_AnswerIsDone ==
  CASE said = "status" -> {"thinking"}
    [] said = "delta" -> {"thinking", "content", "executing_tool", "tokens", "nothing"}
    [] said \in {"answer", "interrupted"} -> {"done"}
    [] said = "error" -> {"error"}
    [] OTHER -> {"nothing"}

\* serialize_canonical_event: what the TUI is told of each response.  A chunk's
\* responses are told apart here only; argument deltas and completed calls, like
\* tool results and answers with calls, are told to nobody.
Projections ==
  CASE said = "status" -> {"thinking"}
    [] said = "delta" -> {"thinking", "content", "executing_tool", "tokens", "nothing"}
    [] said = "answer" -> IF announced = 0 THEN {"done"} ELSE {"nothing"}
    [] said = "interrupted" -> {"done"}
    [] said = "error" -> {"error"}
    [] OTHER -> {"nothing"}

\* The interrupt check, and _send_response when there is none.
SendResponse ==
  /\ pc = "yielded"
  /\ Drain(FALSE)
  /\ \E kind \in Projections :
       IF kind = "nothing" THEN UNCHANGED stdout ELSE Emit(kind)
  /\ pc' = "resuming"
  /\ UNCHANGED <<tui, stdin, stderr, turn, agent, responses, logs>>

\* Mutants: the response in hand is sent all the same; the TUI is not told.
StopTurn_SendsResponse ==
  /\ pc = "yielded"
  /\ Drain(TRUE)
  /\ Agent!Close
  /\ stdout' = stdout \o <<Line("done", turn), Line("content", turn)>>
  /\ pc' = "waiting"
  /\ UNCHANGED <<tui, stdin, stderr, turn, responses, logs>>
StopTurn_Silent ==
  /\ pc = "yielded"
  /\ Drain(TRUE)
  /\ Agent!Close
  /\ pc' = "waiting"
  /\ UNCHANGED <<tui, stdin, stdout, stderr, turn, responses, logs>>

\* agent.interrupt, "done", and a return that closes the generator; the response
\* in hand is dropped.
StopTurn ==
  /\ pc = "yielded"
  /\ Drain(TRUE)
  /\ Agent!Close
  /\ Emit("done")
  /\ pc' = "waiting"
  /\ UNCHANGED <<tui, stdin, stderr, turn, responses, logs>>

Backend ==
  \/ Initialize \/ TakeEOF \/ SkipInterrupt \/ TakeMessage \/ StartTurn
  \/ Yield \/ YieldError \/ TurnOver \/ SendResponse \/ StopTurn

Tui == Receive \/ ReceiveStderr \/ BackendLost

Next == SendMessage \/ SendInterrupt \/ Quit \/ Tui \/ ReadLine \/ Backend \/ CommandFails

Spec == Init /\ [][Next]_vars

\* Both processes and the reader thread keep running; the user owes nothing.
FairSpec == Spec /\ WF_vars(Backend) /\ WF_vars(ReadLine) /\ WF_vars(Tui)
-----------------------------------------------------------------------------
(* Properties                                                              *)

\* No exception was logged, and no message was pasted with a line break.
Undisturbed == logs = 0 /\ pastes = 0

\* What the user sends reaches the agent (App.send_message).
NoInputIsDiscarded == discarded = {}

\* The drains of _process_user_input drop whatever is no interrupt.  Undisturbed,
\* they never meet a message, because the TUI sends one only when it is idle.
InputReachesAgent == Undisturbed => NoInputIsDiscarded

\* The signal names no turn: undisturbed, an interrupt stops the turn the user was
\* looking at, however late it is read, and never the next one.
InterruptsHitTheirTurn == Undisturbed => \A hit \in hits : hit.meant = hit.stopped

\* Undisturbed, nothing the backend says about an earlier message reaches the TUI
\* once the user has sent another: append_content would show it as the answer to
\* the new one.
RepliesAreCurrent == Undisturbed => \A i \in 1..Len(stdout) : stdout[i].about = sent

\* The backend will say no more about the message it has.
TurnIsSaid ==
  \/ pc \in {"waiting", "stopped"}
  \/ pc = "resuming" /\ said \in {"interrupted", "error"}
  \/ pc = "resuming" /\ said = "answer" /\ announced = 0

\* A message is on its way to the agent, or its answer on its way to the TUI.
UnderWay ==
  \/ stdout # <<>>
  \/ ~TurnIsSaid
  \/ \E i \in 1..Len(stdin) : stdin[i].kind = "message"
  \/ \E i \in 1..Len(inputs) : inputs[i].kind = "message"

\* The TUI takes input only when the backend is done with the last message, and it
\* is busy only while an answer is under way: it neither runs ahead nor hangs.
\* (adr-003 and dispatcher.rs: the tracebacks on stderr are kept from the TUI.)
TuiFollowsBackend ==
  /\ status = "idle" => ~UnderWay
  /\ Busy => UnderWay

\* Undisturbed, the TUI does follow the backend.
TuiFollowsUndisturbed == Undisturbed => TuiFollowsBackend

\* The user gets the prompt back, whatever is interrupted, logged or pasted and
\* however it is timed: even a line that is dropped is followed by the end of the
\* turn it was dropped in.
PromptComesBack == Busy ~> ~Busy
=============================================================================
