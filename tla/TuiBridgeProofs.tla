--------------------------- MODULE TuiBridgeProofs ---------------------------
(***************************************************************************)
(* Proofs about the dialogue of the TUI and the backend it spawns, for any *)
(* numbers of messages, interrupts, responses, calls, logged exceptions    *)
(* and pasted messages: as long as no exception is logged and nothing is   *)
(* pasted with a line break, one side at a time has the floor.             *)
(***************************************************************************)
EXTENDS TuiBridge, WellFoundedInduction, TLAPS

InputKinds == {"message", "interrupt", "eof"}
OutputKinds ==
  {"ready", "done", "error", "thinking", "content", "executing_tool", "tokens"}

LineType == [kind : InputKinds, about : Nat]
MessageType == [kind : OutputKinds, about : Nat]

Sayings ==
  {"nothing", "closed", "status", "delta", "answer", "result", "interrupted", "error"}

TypeOK ==
  /\ status \in {"starting", "idle", "thinking", "responding", "executing_tool", "quit"}
  /\ sent \in Nat
  /\ stdin \in Seq(LineType) /\ inputs \in Seq(LineType) /\ stdout \in Seq(MessageType)
  /\ stderr \in Seq(Nat)
  /\ pc \in {"init", "waiting", "taken", "resuming", "yielded", "stopped"}
  /\ turn \in Nat
  /\ said \in Sayings /\ announced \in Nat /\ answered \in Nat
  /\ logs \in Nat /\ pastes \in Nat

-----------------------------------------------------------------------------
(* The inductive invariant.                                                *)

\* Where the lines of one kind are in a queue.
At(queue, kind) == {i \in 1..Len(queue) : queue[i].kind = kind}

NoMessageQueued == At(stdin, "message") = {} /\ At(inputs, "message") = {}

\* Between turns the generator is closed; the end of file comes from a TUI that quit.
PhaseInv ==
  /\ pc \in {"init", "waiting", "taken", "stopped"} => said \in {"nothing", "closed"}
  /\ At(stdin, "eof") \cup At(inputs, "eof") # {} => status = "quit"

\* One message at most is on its way, the one sent last.
OneMessage ==
  /\ \A i \in At(stdin, "message") :
       /\ stdin[i].about = sent
       /\ At(stdin, "message") = {i} /\ At(inputs, "message") = {}
  /\ \A i \in At(inputs, "message") :
       /\ inputs[i].about = sent
       /\ At(inputs, "message") = {i} /\ At(stdin, "message") = {}

\* An interrupt of an earlier turn is ahead of the message that begins the next.
InterruptsKeepPlace ==
  /\ \A i \in At(stdin, "interrupt") :
       stdin[i].about = sent \/ \E j \in At(stdin, "message") : i < j
  /\ \A i \in At(inputs, "interrupt") :
       \/ inputs[i].about = sent
       \/ \E j \in At(inputs, "message") : i < j
       \/ At(stdin, "message") # {}

\* The backend has the floor.
Talking == ~TurnIsSaid /\ pc # "init"

TalksAboutLast ==
  /\ Talking => turn = sent /\ NoMessageQueued
  /\ pc = "init" => turn = 0 /\ sent = 0 /\ NoMessageQueued

\* The messages that end a turn, or the start.
Final(kind) == kind \in {"ready", "done", "error"}

\* The backend has said its last word, and the TUI has yet to read it.
Concluded == stdout # <<>> /\ Final(stdout[Len(stdout)].kind)

OutputInv ==
  \A i \in 1..Len(stdout) :
    stdout[i].about = sent /\ (Final(stdout[i].kind) => i = Len(stdout))

\* Who has the floor, for each status of the TUI.
FloorInv ==
  /\ status = "quit" => stdout = <<>>
  /\ status = "starting" =>
       /\ NoMessageQueued
       /\ \/ pc = "init" /\ stdout = <<>>
          \/ pc \in {"waiting", "stopped"} /\ Concluded /\ Len(stdout) = 1
  /\ status = "idle" => stdout = <<>> /\ TurnIsSaid /\ NoMessageQueued
  /\ Busy => \/ ~NoMessageQueued /\ stdout = <<>> /\ TurnIsSaid
             \/ Talking /\ ~Concluded
             \/ Concluded /\ TurnIsSaid /\ NoMessageQueued

\* What the dialogue has come to without harm.
HistoryInv ==
  /\ stderr = <<>>
  /\ discarded = {}
  /\ \A hit \in hits : hit.meant = hit.stopped

DialogueInv ==
  OneMessage /\ InterruptsKeepPlace /\ TalksAboutLast /\ OutputInv /\ FloorInv /\ HistoryInv

\* The inductive invariant behind the four properties of the run.
BridgeInv == TypeOK /\ PhaseInv /\ (Undisturbed => DialogueInv)

-----------------------------------------------------------------------------
(* Types.                                                                  *)

LEMMA LineTypes ==
  /\ \A about \in Nat : \A kind \in InputKinds : Line(kind, about) \in LineType
  /\ \A about \in Nat : \A kind \in OutputKinds : Line(kind, about) \in MessageType
  /\ EOF \in LineType
  BY DEF Line, LineType, MessageType, EOF, InputKinds

LEMMA EmitType ==
  ASSUME TypeOK, NEW kind \in OutputKinds, Emit(kind)
  PROVE  stdout' \in Seq(MessageType)
<1>1. Line(kind, turn) \in MessageType
  BY LineTypes DEF TypeOK
<1>2. QED
  BY <1>1 DEF Emit, TypeOK

\* A nonempty set of numbers has a least element.
LEMMA FirstExists ==
  ASSUME NEW S \in SUBSET Nat, S # {}
  PROVE  \E n \in S : \A m \in S : n <= m
<1>1. PICK n \in S : \A m \in S : ~(<<m, n>> \in OpToRel(<, Nat))
  BY NatLessThanWellFounded, WFMin
<1>2. \A m \in S : ~(m < n)
  BY <1>1 DEF OpToRel
<1>3. QED
  BY <1>2

\* A drain takes lines from the front: those up to the first interrupt, or all.
LEMMA DrainEffect ==
  ASSUME TypeOK, NEW stopped \in BOOLEAN, Drain(stopped)
  PROVE  \E n \in 0..Len(inputs) :
           /\ n = 0 => Len(inputs) = 0
           /\ inputs' = SubSeq(inputs, n + 1, Len(inputs))
           /\ Len(inputs') = Len(inputs) - n
           /\ \A k \in 1..(Len(inputs) - n) : inputs'[k] = inputs[n + k]
           /\ discarded' = discarded \cup
                {inputs[i].about : i \in {j \in 1..n : inputs[j].kind = "message"}}
           /\ IF stopped
              THEN /\ n \in At(inputs, "interrupt")
                   /\ hits' = hits \cup {[meant |-> inputs[n].about, stopped |-> turn]}
              ELSE At(inputs, "interrupt") = {} /\ hits' = hits /\ n = Len(inputs)
<1>1. inputs \in Seq(LineType) /\ Interrupts(inputs) = At(inputs, "interrupt")
  BY DEF TypeOK, Interrupts, At
<1>2. stopped <=> Interrupts(inputs) # {}
  BY DEF Drain
<1>3. CASE stopped
  <2>1. \E i \in Interrupts(inputs) : \A j \in Interrupts(inputs) : i <= j
    <3>1. Interrupts(inputs) \in SUBSET Nat
      BY <1>1 DEF Interrupts
    <3>2. QED
      BY <1>2, <1>3, <3>1, FirstExists
  <2>2. PICK n : /\ n = CHOOSE i \in Interrupts(inputs) : \A j \in Interrupts(inputs) : i <= j
                 /\ n \in Interrupts(inputs)
    BY <2>1
  <2>3. n \in 1..Len(inputs)
    BY <2>2 DEF Interrupts
  <2>4. /\ inputs' = SubSeq(inputs, n + 1, Len(inputs))
        /\ discarded' = discarded \cup
             {inputs[i].about : i \in {j \in 1..n : inputs[j].kind = "message"}}
        /\ hits' = hits \cup {[meant |-> inputs[n].about, stopped |-> turn]}
    BY <1>2, <1>3, <2>2 DEF Drain
  <2>5. /\ Len(SubSeq(inputs, n + 1, Len(inputs))) = Len(inputs) - n
        /\ \A k \in 1..(Len(inputs) - n) :
             SubSeq(inputs, n + 1, Len(inputs))[k] = inputs[n + k]
    BY <1>1, <2>3
  <2>6. n \in 0..Len(inputs) /\ n # 0
    BY <1>1, <2>3
  <2>7. QED
    BY <1>1, <1>3, <2>2, <2>4, <2>5, <2>6
<1>4. CASE ~stopped
  <2>1. PICK n \in 0..Len(inputs) : n = Len(inputs)
    BY <1>1
  <2>2. /\ inputs' = SubSeq(inputs, n + 1, Len(inputs))
        /\ discarded' = discarded \cup
             {inputs[i].about : i \in {j \in 1..n : inputs[j].kind = "message"}}
        /\ hits' = hits
    BY <1>2, <1>4, <2>1 DEF Drain
  <2>3. /\ Len(SubSeq(inputs, n + 1, Len(inputs))) = Len(inputs) - n
        /\ \A k \in 1..(Len(inputs) - n) :
             SubSeq(inputs, n + 1, Len(inputs))[k] = inputs[n + k]
    BY <1>1, <2>1
  <2>4. QED
    BY <1>1, <1>2, <1>4, <2>1, <2>2, <2>3
<1>5. QED
  BY <1>3, <1>4

LEMMA DrainType ==
  ASSUME TypeOK, NEW stopped \in BOOLEAN, Drain(stopped) PROVE inputs' \in Seq(LineType)
<1>1. PICK n \in 0..Len(inputs) : inputs' = SubSeq(inputs, n + 1, Len(inputs))
  BY DrainEffect
<1>2. QED
  BY <1>1 DEF TypeOK

\* What the TUI, the user and the reader thread do keeps the types.
LEMMA TuiTypes ==
  ASSUME TypeOK, \/ SendMessage \/ SendInterrupt \/ Quit \/ Tui \/ ReadLine
  PROVE  TypeOK'
<1>1. CASE SendMessage
  <2>1. sent + 1 \in Nat /\ Line("message", sent + 1) \in LineType
    BY LineTypes DEF TypeOK, InputKinds
  <2>2. PICK line \in LineType : line = Line("message", sent + 1)
    BY <2>1
  <2>3. \/ stdin' = Append(stdin, line) /\ pastes' = pastes
        \/ stdin' = stdin \o <<line, line>> /\ pastes' = pastes + 1
    BY <1>1, <2>2 DEF SendMessage
  <2>4. /\ Append(stdin, line) \in Seq(LineType) /\ stdin \o <<line, line>> \in Seq(LineType)
        /\ pastes \in Nat /\ pastes + 1 \in Nat
    <3>1. stdin \in Seq(LineType) /\ <<line, line>> \in Seq(LineType)
      BY DEF TypeOK
    <3>2. QED
      BY <3>1 DEF TypeOK
  <2>5. stdin' \in Seq(LineType) /\ pastes' \in Nat
    BY <2>3, <2>4
  <2>6. QED
    BY <1>1, <2>1, <2>5 DEF SendMessage, TypeOK, agent, history
<1>2. CASE SendInterrupt
  <2>1. Line("interrupt", sent) \in LineType
    BY LineTypes DEF TypeOK, InputKinds
  <2>2. stdin' \in Seq(LineType)
    BY <1>2, <2>1 DEF SendInterrupt, TypeOK
  <2>3. QED
    BY <1>2, <2>2 DEF SendInterrupt, TypeOK, agent, history
<1>3. CASE Quit
  <2>1. stdin' \in Seq(LineType)
    BY <1>3, LineTypes DEF Quit, TypeOK
  <2>2. <<>> \in Seq(MessageType) /\ <<>> \in Seq(Nat)
    OBVIOUS
  <2>3. QED
    BY <1>3, <2>1, <2>2 DEF Quit, TypeOK, agent, history
<1>4. CASE Receive
  <2>1. Head(stdout) \in MessageType /\ Tail(stdout) \in Seq(MessageType)
    BY <1>4 DEF Receive, TypeOK
  <2>2. Head(stdout).kind \in OutputKinds
    BY <2>1 DEF MessageType
  <2>3. status' \in {"idle", "thinking", "responding", "executing_tool", status}
    BY <1>4, <2>2 DEF Receive, StatusAfter, OutputKinds
  <2>4. QED
    BY <1>4, <2>1, <2>3 DEF Receive, TypeOK, agent, history
<1>5. CASE ReceiveStderr
  BY <1>5 DEF ReceiveStderr, TypeOK, agent, history
<1>6. CASE ReadLine
  <2>1. Head(stdin) \in LineType /\ Tail(stdin) \in Seq(LineType)
    BY <1>6 DEF ReadLine, TypeOK
  <2>2. inputs' \in Seq(LineType) /\ stdin' \in Seq(LineType)
    BY <1>6, <2>1 DEF ReadLine, TypeOK
  <2>3. QED
    BY <1>6, <2>2 DEF ReadLine, TypeOK, tui, agent, history
<1>7. QED
  BY <1>1, <1>2, <1>3, <1>4, <1>5, <1>6 DEF Tui, BackendLost

\* What the generator says keeps its types.
LEMMA AgentTypes ==
  ASSUME TypeOK,
         \/ Agent!Ask \/ Agent!Delta \/ Agent!Result \/ Agent!Acknowledge \/ Agent!Fail
         \/ Agent!End \/ Agent!Close \/ (announced' \in 0..MaxCalls /\ Agent!Answer)
         \/ UNCHANGED agent
  PROVE  said' \in Sayings /\ announced' \in Nat /\ answered' \in Nat
  BY BridgeAssumption
     DEF TypeOK, Sayings, agent, Agent!Say, Agent!Ask, Agent!Delta, Agent!Result,
         Agent!Acknowledge, Agent!Fail, Agent!End, Agent!Close, Agent!Answer

\* What the backend does keeps the types.
LEMMA BackendTypes == ASSUME TypeOK, Backend \/ CommandFails PROVE TypeOK'
<1>1. CASE Initialize
  <2>1. stdout' \in Seq(MessageType)
    BY <1>1, EmitType DEF Initialize, OutputKinds
  <2>2. QED
    BY <1>1, <2>1 DEF Initialize, TypeOK, tui, agent, history
<1>2. CASE TakeEOF \/ SkipInterrupt \/ TakeMessage
  <2>1. Head(inputs) \in LineType /\ Tail(inputs) \in Seq(LineType)
    BY <1>2 DEF TakeEOF, SkipInterrupt, TakeMessage, TypeOK
  <2>2. Head(inputs).about \in Nat
    BY <2>1 DEF LineType
  <2>3. QED
    BY <1>2, <2>1, <2>2 DEF TakeEOF, SkipInterrupt, TakeMessage, TypeOK, tui, agent, history
<1>3. CASE StartTurn
  <2>1. inputs' \in Seq(LineType)
    BY <1>3, DrainType DEF StartTurn
  <2>2. stdout' \in Seq(MessageType)
    BY <1>3, EmitType DEF StartTurn, OutputKinds, TypeOK
  <2>3. QED
    BY <1>3, <2>1, <2>2 DEF StartTurn, TypeOK, tui, agent
<1>4. CASE Yield
  <2>1. said' \in Sayings /\ announced' \in Nat /\ answered' \in Nat
    BY <1>4, AgentTypes DEF Yield
  <2>2. QED
    BY <1>4, <2>1 DEF Yield, TypeOK, tui, history
<1>5. CASE TurnOver
  <2>1. said' \in Sayings /\ announced' \in Nat /\ answered' \in Nat
    BY <1>5, AgentTypes DEF TurnOver
  <2>2. QED
    BY <1>5, <2>1 DEF TurnOver, TypeOK, tui, history
<1>6. ASSUME LogException PROVE logs' \in Nat /\ stderr' \in Seq(Nat)
  BY <1>6 DEF LogException, TypeOK
<1>7. CASE YieldError
  <2>1. said' \in Sayings /\ announced' \in Nat /\ answered' \in Nat
    BY <1>7, AgentTypes DEF YieldError
  <2>2. logs' \in Nat /\ stderr' \in Seq(Nat)
    BY <1>6, <1>7 DEF YieldError, TypeOK
  <2>3. QED
    BY <1>7, <2>1, <2>2 DEF YieldError, TypeOK, tui, history
<1>8. CASE CommandFails
  <2>1. logs' \in Nat /\ stderr' \in Seq(Nat)
    BY <1>6, <1>8 DEF CommandFails
  <2>2. QED
    BY <1>8, <2>1 DEF CommandFails, TypeOK, tui, agent, history
<1>9. CASE SendResponse
  <2>1. inputs' \in Seq(LineType)
    BY <1>9, DrainType DEF SendResponse
  <2>2. Projections \subseteq OutputKinds \cup {"nothing"}
    BY DEF Projections, OutputKinds
  <2>3. stdout' \in Seq(MessageType)
    BY <1>9, <2>2, EmitType DEF SendResponse, TypeOK
  <2>4. QED
    BY <1>9, <2>1, <2>3 DEF SendResponse, TypeOK, tui, agent
<1>10. CASE StopTurn
  <2>1. inputs' \in Seq(LineType)
    BY <1>10, DrainType DEF StopTurn
  <2>2. stdout' \in Seq(MessageType)
    BY <1>10, EmitType DEF StopTurn, OutputKinds
  <2>3. said' \in Sayings /\ announced' \in Nat /\ answered' \in Nat
    BY <1>10, AgentTypes DEF StopTurn
  <2>4. QED
    BY <1>10, <2>1, <2>2, <2>3 DEF StopTurn, TypeOK, tui
<1>11. QED
  BY <1>1, <1>2, <1>3, <1>4, <1>5, <1>7, <1>8, <1>9, <1>10 DEF Backend

LEMMA TypesKept == TypeOK /\ [Next]_vars => TypeOK'
  BY TuiTypes, BackendTypes DEF Next, vars, TypeOK

-----------------------------------------------------------------------------
(* Queues of lines.                                                        *)

\* A line more at the end.
LEMMA AppendedLine ==
  ASSUME NEW queue \in Seq(LineType), NEW line \in LineType, NEW kind
  PROVE  /\ line.kind = kind =>
              At(Append(queue, line), kind) = At(queue, kind) \cup {Len(queue) + 1}
         /\ line.kind # kind => At(Append(queue, line), kind) = At(queue, kind)
         /\ Append(queue, line)[Len(queue) + 1] = line
         /\ \A i \in At(queue, kind) : /\ Append(queue, line)[i] = queue[i]
                                       /\ i < Len(queue) + 1
<1> DEFINE more == Append(queue, line)
<1>1. /\ Len(more) = Len(queue) + 1 /\ Len(queue) \in Nat
      /\ \A i \in 1..Len(queue) : more[i] = queue[i]
      /\ more[Len(queue) + 1] = line
  OBVIOUS
<1> HIDE DEF more
<1>2. \A i \in 1..Len(more) : i \in 1..Len(queue) \/ i = Len(queue) + 1
  BY <1>1
<1>3. \A i \in 1..Len(queue) : i \in 1..Len(more) /\ i < Len(queue) + 1
  BY <1>1
<1>4. Len(queue) + 1 \in 1..Len(more)
  BY <1>1
<1>5. \A i \in At(more, kind) :
        i \in At(queue, kind) \/ (line.kind = kind /\ i = Len(queue) + 1)
  BY <1>1, <1>2 DEF At
<1>6. At(queue, kind) \subseteq At(more, kind)
  BY <1>1, <1>3 DEF At
<1>7. line.kind = kind => Len(queue) + 1 \in At(more, kind)
  BY <1>1, <1>4 DEF At
<1>8. /\ line.kind = kind => At(more, kind) = At(queue, kind) \cup {Len(queue) + 1}
      /\ line.kind # kind => At(more, kind) = At(queue, kind)
  BY <1>5, <1>6, <1>7
<1>9. \A i \in At(queue, kind) : more[i] = queue[i] /\ i < Len(queue) + 1
  BY <1>1, <1>3 DEF At
<1>10. QED
  BY <1>1, <1>8, <1>9 DEF more

\* A line less at the front.
LEMMA TakenLine ==
  ASSUME NEW queue \in Seq(LineType), queue # <<>>, NEW kind
  PROVE  /\ \A i \in At(Tail(queue), kind) :
              /\ i \in Nat /\ i + 1 \in At(queue, kind) /\ i + 1 # 1
              /\ Tail(queue)[i] = queue[i + 1]
         /\ \A i \in At(queue, kind) : i # 1 => i \in Nat /\ i - 1 \in At(Tail(queue), kind)
         /\ Head(queue).kind = kind <=> 1 \in At(queue, kind)
         /\ Head(queue) = queue[1] /\ Head(queue) \in LineType
<1>1. /\ Len(Tail(queue)) = Len(queue) - 1 /\ Len(queue) \in Nat /\ Len(queue) >= 1
      /\ Head(queue) = queue[1] /\ Head(queue) \in LineType
      /\ \A i \in 1..Len(Tail(queue)) : Tail(queue)[i] = queue[i + 1]
  OBVIOUS
<1>2. \A i \in 1..Len(Tail(queue)) : i + 1 \in 1..Len(queue) /\ i \in Nat /\ i + 1 # 1
  BY <1>1
<1>3. \A i \in 1..Len(queue) :
        i # 1 => i \in Nat /\ i - 1 \in 1..Len(Tail(queue)) /\ (i - 1) + 1 = i
  BY <1>1
<1>4. 1 \in 1..Len(queue)
  BY <1>1
<1>5. ASSUME NEW i \in At(Tail(queue), kind)
      PROVE  /\ i \in Nat /\ i + 1 \in At(queue, kind) /\ i + 1 # 1
             /\ Tail(queue)[i] = queue[i + 1]
  BY <1>1, <1>2 DEF At
<1>6. ASSUME NEW i \in At(queue, kind), i # 1
      PROVE  i \in Nat /\ i - 1 \in At(Tail(queue), kind)
  <2>1. i \in 1..Len(queue) /\ queue[i].kind = kind
    BY DEF At
  <2>2. i \in Nat /\ i - 1 \in 1..Len(Tail(queue)) /\ (i - 1) + 1 = i
    BY <1>3, <1>6, <2>1
  <2>3. Tail(queue)[i - 1] = queue[i]
    BY <1>1, <2>2
  <2>4. QED
    BY <2>1, <2>2, <2>3 DEF At
<1>7. QED
  BY <1>1, <1>4, <1>5, <1>6 DEF At

\* The lines the TUI writes.
LEMMA WrittenLines ==
  ASSUME NEW about \in Nat
  PROVE  /\ \E line \in LineType : line = Line("message", about)
                                  /\ line.kind = "message" /\ line.about = about
         /\ \E line \in LineType : line = Line("interrupt", about)
                                  /\ line.kind = "interrupt" /\ line.about = about
         /\ \E line \in LineType : line = EOF /\ line.kind = "eof"
<1>1. /\ Line("message", about) \in LineType
      /\ Line("message", about).kind = "message" /\ Line("message", about).about = about
  BY DEF Line, LineType, InputKinds
<1>2. /\ Line("interrupt", about) \in LineType
      /\ Line("interrupt", about).kind = "interrupt" /\ Line("interrupt", about).about = about
  BY DEF Line, LineType, InputKinds
<1>3. EOF \in LineType /\ EOF.kind = "eof"
  BY DEF Line, LineType, InputKinds, EOF
<1>4. QED
  BY <1>1, <1>2, <1>3

\* The generator is closed between turns, and only a TUI that quit closes the pipe.
LEMMA PhaseKept == ASSUME TypeOK, PhaseInv, [Next]_vars PROVE PhaseInv'
<1>1. CASE SendMessage
  <2>1. At(stdin, "eof") = {} /\ At(inputs, "eof") = {}
    BY <1>1 DEF PhaseInv, SendMessage
  <2>2. PICK line \in LineType : line = Line("message", sent + 1) /\ line.kind = "message"
    <3>1. sent + 1 \in Nat
      BY DEF TypeOK
    <3>2. QED
      BY <3>1, WrittenLines
  <2>3. stdin \in Seq(LineType) /\ Append(stdin, line) \in Seq(LineType)
    BY DEF TypeOK
  <2>4. /\ At(Append(stdin, line), "eof") = {}
        /\ At(Append(Append(stdin, line), line), "eof") = {}
    <3>1. At(Append(stdin, line), "eof") = {}
      BY <2>1, <2>2, <2>3, AppendedLine
    <3>2. PICK once \in Seq(LineType) : once = Append(stdin, line)
      BY <2>3
    <3>3. At(once, "eof") = {}
      BY <3>1, <3>2
    <3>4. At(Append(once, line), "eof") = At(once, "eof")
      <4>1. line.kind # "eof"
        BY <2>2
      <4>2. QED
        BY <4>1, AppendedLine
    <3>5. QED
      BY <3>1, <3>2, <3>3, <3>4
  <2>5. stdin \o <<line, line>> = Append(Append(stdin, line), line)
    BY <2>3
  <2>6. /\ stdin' = Append(stdin, line) \/ stdin' = stdin \o <<line, line>>
        /\ UNCHANGED <<inputs, pc, said>>
    BY <1>1, <2>2 DEF SendMessage, agent
  <2>7. At(stdin', "eof") = {} /\ At(inputs', "eof") = {}
    BY <2>1, <2>4, <2>5, <2>6
  <2>8. QED
    BY <2>6, <2>7 DEF PhaseInv
<1>2. CASE SendInterrupt
  <2>1. PICK line \in LineType : line = Line("interrupt", sent) /\ line.kind = "interrupt"
    BY WrittenLines DEF TypeOK
  <2>2. /\ stdin' = Append(stdin, line) /\ stdin \in Seq(LineType)
        /\ UNCHANGED <<inputs, pc, said, status>>
    BY <1>2, <2>1 DEF SendInterrupt, agent, TypeOK
  <2>3. At(stdin', "eof") = At(stdin, "eof")
    BY <2>1, <2>2, AppendedLine
  <2>4. QED
    BY <2>2, <2>3 DEF PhaseInv
<1>3. CASE Quit
  BY <1>3 DEF Quit, PhaseInv, agent
<1>4. CASE Receive \/ ReceiveStderr
  BY <1>4 DEF Receive, ReceiveStderr, PhaseInv, agent
<1>5. CASE ReadLine
  <2>1. /\ stdin \in Seq(LineType) /\ stdin # <<>> /\ inputs \in Seq(LineType)
        /\ inputs' = Append(inputs, Head(stdin)) /\ stdin' = Tail(stdin)
        /\ UNCHANGED <<status, pc, said>>
    BY <1>5 DEF ReadLine, TypeOK, tui, agent
  <2>2. At(stdin', "eof") # {} => At(stdin, "eof") # {}
    BY <2>1, TakenLine
  <2>3. At(inputs', "eof") # {} => At(inputs, "eof") # {} \/ At(stdin, "eof") # {}
    <3>1. Head(stdin) \in LineType /\ (Head(stdin).kind = "eof" => At(stdin, "eof") # {})
      BY <2>1, TakenLine
    <3>2. Head(stdin).kind # "eof" => At(Append(inputs, Head(stdin)), "eof") = At(inputs, "eof")
      BY <2>1, <3>1, AppendedLine
    <3>3. QED
      BY <2>1, <3>1, <3>2
  <2>4. QED
    BY <2>1, <2>2, <2>3 DEF PhaseInv
<1>6. CASE Initialize \/ Yield \/ YieldError \/ CommandFails \/ TurnOver
  BY <1>6 DEF Initialize, Yield, YieldError, CommandFails, TurnOver, Agent!End, Agent!Say,
              PhaseInv, tui, agent
<1>7. CASE TakeEOF \/ SkipInterrupt \/ TakeMessage
  <2>1. /\ inputs \in Seq(LineType) /\ inputs # <<>> /\ inputs' = Tail(inputs)
        /\ pc = "waiting" /\ UNCHANGED <<status, stdin, said>>
    BY <1>7 DEF TakeEOF, SkipInterrupt, TakeMessage, TypeOK, tui, agent
  <2>2. At(inputs', "eof") # {} => At(inputs, "eof") # {}
    BY <2>1, TakenLine
  <2>3. QED
    BY <2>1, <2>2 DEF PhaseInv
<1>8. CASE StartTurn \/ SendResponse \/ StopTurn
  <2>1. PICK stopped \in BOOLEAN : Drain(stopped)
    BY <1>8 DEF StartTurn, SendResponse, StopTurn
  <2>2. PICK n \in 0..Len(inputs) :
          /\ Len(inputs') = Len(inputs) - n
          /\ \A k \in 1..(Len(inputs) - n) : inputs'[k] = inputs[n + k]
    BY <2>1, DrainEffect
  <2>3. \A k \in 1..(Len(inputs) - n) : n + k \in 1..Len(inputs)
    BY DEF TypeOK
  <2>4. At(inputs', "eof") # {} => At(inputs, "eof") # {}
    BY <2>2, <2>3 DEF At
  <2>5. UNCHANGED <<status, stdin>>
    BY <1>8 DEF StartTurn, SendResponse, StopTurn, tui
  <2>6. pc' \in {"init", "waiting", "taken", "stopped"} => said' \in {"nothing", "closed"}
    BY <1>8 DEF StartTurn, SendResponse, StopTurn, Agent!Close, Agent!Say, PhaseInv, agent
  <2>7. QED
    BY <2>4, <2>5, <2>6 DEF PhaseInv
<1>9. CASE UNCHANGED vars
  BY <1>9 DEF vars, PhaseInv
<1>10. QED
  BY <1>1, <1>2, <1>3, <1>4, <1>5, <1>6, <1>7, <1>8, <1>9
     DEF Next, Tui, BackendLost, Backend

-----------------------------------------------------------------------------
(* The dialogue: what the TUI, the user and the reader thread do.          *)

\* A step that moves lines about and lets nobody speak.
LEMMA QuietKeeps ==
  ASSUME DialogueInv, OneMessage', InterruptsKeepPlace',
         NoMessageQueued' <=> NoMessageQueued,
         UNCHANGED <<status, sent, stdout, stderr, pc, turn, said, announced, discarded, hits>>
  PROVE  DialogueInv'
<1>1. /\ (TurnIsSaid' <=> TurnIsSaid) /\ (Talking' <=> Talking)
      /\ (Concluded' <=> Concluded) /\ (Busy' <=> Busy)
  BY DEF TurnIsSaid, Talking, Concluded, Busy
<1>2. TalksAboutLast'
  BY <1>1 DEF DialogueInv, TalksAboutLast
<1>3. OutputInv'
  BY DEF DialogueInv, OutputInv
<1>4. FloorInv'
  BY <1>1 DEF DialogueInv, FloorInv
<1>5. HistoryInv'
  BY DEF DialogueInv, HistoryInv
<1>6. QED
  BY <1>2, <1>3, <1>4, <1>5 DEF DialogueInv

\* A message is sent when the backend has nothing more to say.
LEMMA SendMessageKeeps ==
  ASSUME TypeOK, DialogueInv, Undisturbed', SendMessage
  PROVE  DialogueInv'
<1>1. /\ stdout = <<>> /\ TurnIsSaid /\ NoMessageQueued /\ stderr = <<>>
      /\ pc # "init"
  BY DEF SendMessage, DialogueInv, FloorInv, HistoryInv, TurnIsSaid
<1>2. PICK line \in LineType :
        line = Line("message", sent + 1) /\ line.kind = "message" /\ line.about = sent + 1
  <2>1. sent + 1 \in Nat
    BY DEF TypeOK
  <2>2. QED
    BY <2>1, WrittenLines
<1>3. /\ stdin' = Append(stdin, line) /\ sent' = sent + 1 /\ status' = "thinking"
      /\ UNCHANGED <<stdout, stderr, inputs, pc, turn, said, announced, discarded, hits>>
  <2>1. pastes' # pastes + 1
    BY DEF Undisturbed, TypeOK
  <2>2. QED
    BY <1>2, <2>1 DEF SendMessage, agent, history
<1>4. stdin \in Seq(LineType)
  BY DEF TypeOK
<1>5. /\ At(stdin', "message") = {Len(stdin) + 1} /\ stdin'[Len(stdin) + 1] = line
      /\ At(inputs', "message") = {}
  <2>1. At(stdin', "message") = At(stdin, "message") \cup {Len(stdin) + 1}
    BY <1>2, <1>3, <1>4, AppendedLine
  <2>2. stdin'[Len(stdin) + 1] = line
    BY <1>2, <1>3, <1>4, AppendedLine
  <2>3. QED
    BY <1>1, <1>3, <2>1, <2>2 DEF NoMessageQueued
<1>6. /\ At(stdin', "interrupt") = At(stdin, "interrupt")
      /\ \A i \in At(stdin, "interrupt") : i < Len(stdin) + 1
  BY <1>2, <1>3, <1>4, AppendedLine
<1>7. OneMessage'
  BY <1>2, <1>3, <1>5 DEF OneMessage
<1>8. InterruptsKeepPlace'
  BY <1>5, <1>6 DEF InterruptsKeepPlace
<1>9. TurnIsSaid' /\ pc' # "init" /\ ~NoMessageQueued'
  BY <1>1, <1>3, <1>5 DEF TurnIsSaid, NoMessageQueued
<1>10. TalksAboutLast'
  BY <1>9 DEF TalksAboutLast, Talking
<1>11. OutputInv'
  <2>1. stdout' = <<>>
    BY <1>1, <1>3
  <2>2. QED
    BY <2>1 DEF OutputInv
<1>12. FloorInv'
  BY <1>1, <1>3, <1>9 DEF FloorInv, Busy
<1>13. HistoryInv'
  BY <1>3 DEF DialogueInv, HistoryInv
<1>14. QED
  BY <1>7, <1>8, <1>10, <1>11, <1>12, <1>13 DEF DialogueInv

\* A line that is no message, after the others: an interrupt of the turn the user
\* is looking at, or the end of file.
LEMMA OtherLineKeeps ==
  ASSUME TypeOK, DialogueInv, NEW line \in LineType, stdin' = Append(stdin, line),
         line.kind # "message", line.kind = "interrupt" => line.about = sent,
         UNCHANGED <<sent, inputs>>
  PROVE  OneMessage' /\ InterruptsKeepPlace' /\ (NoMessageQueued' <=> NoMessageQueued)
<1>1. stdin \in Seq(LineType)
  BY DEF TypeOK
<1>2. /\ At(stdin', "message") = At(stdin, "message")
      /\ \A i \in At(stdin, "message") : stdin'[i] = stdin[i]
  <2>1. At(Append(stdin, line), "message") = At(stdin, "message")
    BY <1>1, AppendedLine
  <2>2. \A i \in At(stdin, "message") : Append(stdin, line)[i] = stdin[i]
    <3>1. \A i \in 1..Len(stdin) : Append(stdin, line)[i] = stdin[i]
      BY <1>1
    <3>2. QED
      BY <3>1 DEF At
  <2>3. QED
    BY <2>1, <2>2
<1>3. /\ \A i \in At(stdin', "interrupt") : i \in At(stdin, "interrupt") \/ stdin'[i].about = sent
      /\ \A i \in At(stdin, "interrupt") : stdin'[i] = stdin[i]
  <2>1. \A i \in At(stdin, "interrupt") : Append(stdin, line)[i] = stdin[i]
    <3>1. \A i \in 1..Len(stdin) : Append(stdin, line)[i] = stdin[i]
      BY <1>1
    <3>2. QED
      BY <3>1 DEF At
  <2>2. Append(stdin, line)[Len(stdin) + 1] = line
    BY <1>1
  <2>3. \A i \in At(Append(stdin, line), "interrupt") :
          \/ i \in At(stdin, "interrupt")
          \/ i = Len(stdin) + 1 /\ line.kind = "interrupt"
    BY <1>1, AppendedLine
  <2>4. QED
    BY <2>1, <2>2, <2>3
<1>4. OneMessage'
  BY <1>2 DEF DialogueInv, OneMessage
<1>5. InterruptsKeepPlace'
  BY <1>2, <1>3 DEF DialogueInv, InterruptsKeepPlace
<1>6. QED
  BY <1>2, <1>4, <1>5 DEF NoMessageQueued

LEMMA SendInterruptKeeps ==
  ASSUME TypeOK, DialogueInv, SendInterrupt PROVE DialogueInv'
<1>1. PICK line \in LineType :
        line = Line("interrupt", sent) /\ line.kind = "interrupt" /\ line.about = sent
  BY WrittenLines DEF TypeOK
<1>2. stdin' = Append(stdin, line) /\ UNCHANGED <<sent, inputs>>
  BY <1>1 DEF SendInterrupt
<1>3. OneMessage' /\ InterruptsKeepPlace' /\ (NoMessageQueued' <=> NoMessageQueued)
  BY <1>1, <1>2, OtherLineKeeps
<1>4. UNCHANGED <<status, sent, stdout, stderr, pc, turn, said, announced, discarded, hits>>
  BY DEF SendInterrupt, agent, history
<1>5. QED
  BY <1>3, <1>4, QuietKeeps

\* A TUI that ends leaves what it wrote, and an empty floor.
LEMMA QuitKeeps == ASSUME TypeOK, DialogueInv, Quit PROVE DialogueInv'
<1>1. PICK line \in LineType : line = EOF /\ line.kind = "eof"
  BY WrittenLines DEF TypeOK
<1>2. /\ stdin' = Append(stdin, line) /\ status' = "quit" /\ stdout' = <<>> /\ stderr' = <<>>
      /\ UNCHANGED <<sent, inputs, pc, turn, said, announced, discarded, hits>>
  BY <1>1 DEF Quit, agent, history
<1>3. OneMessage' /\ InterruptsKeepPlace' /\ (NoMessageQueued' <=> NoMessageQueued)
  BY <1>1, <1>2, OtherLineKeeps
<1>4. TalksAboutLast'
  BY <1>2, <1>3 DEF DialogueInv, TalksAboutLast, Talking, TurnIsSaid
<1>5. OutputInv' /\ FloorInv' /\ HistoryInv'
  BY <1>2 DEF DialogueInv, OutputInv, FloorInv, HistoryInv, Busy
<1>6. QED
  BY <1>3, <1>4, <1>5 DEF DialogueInv

\* The TUI reads the next message: the last word gives it the floor back.
LEMMA ReceiveKeeps == ASSUME TypeOK, DialogueInv, Receive PROVE DialogueInv'
<1>1. /\ status # "quit" /\ stdout # <<>> /\ stdout \in Seq(MessageType)
      /\ status' = StatusAfter(Head(stdout).kind) /\ stdout' = Tail(stdout)
      /\ UNCHANGED <<sent, stdin, stderr, inputs, pc, turn, said, announced, discarded, hits>>
  BY DEF Receive, TypeOK, agent, history
<1>2. /\ Len(stdout) \in Nat /\ Len(stdout) >= 1 /\ Head(stdout) = stdout[1]
      /\ stdout[1] \in MessageType
      /\ Len(stdout') = Len(stdout) - 1
      /\ \A i \in 1..Len(stdout') : stdout'[i] = stdout[i + 1]
  BY <1>1
<1>3. OneMessage' /\ InterruptsKeepPlace' /\ TalksAboutLast' /\ HistoryInv'
  BY <1>1 DEF DialogueInv, OneMessage, InterruptsKeepPlace, TalksAboutLast, HistoryInv, Talking,
              TurnIsSaid, NoMessageQueued
<1>4. OutputInv'
  <2>1. \A i \in 1..Len(stdout') : i + 1 \in 1..Len(stdout) /\ i \in Nat
    BY <1>2
  <2>2. ASSUME NEW i \in 1..Len(stdout')
        PROVE  stdout'[i].about = sent /\ (Final(stdout'[i].kind) => i = Len(stdout'))
    <3>1. stdout'[i] = stdout[i + 1] /\ i + 1 \in 1..Len(stdout) /\ i \in Nat
      BY <1>2, <2>1
    <3>2. /\ stdout[i + 1].about = sent
          /\ Final(stdout[i + 1].kind) => i + 1 = Len(stdout)
      BY <3>1 DEF DialogueInv, OutputInv
    <3>3. i + 1 = Len(stdout) => i = Len(stdout')
      BY <1>2, <3>1
    <3>4. QED
      BY <3>1, <3>2, <3>3
  <2>3. QED
    BY <1>1, <2>2 DEF OutputInv
<1>5. stdout[1].kind \in OutputKinds
  BY <1>2 DEF MessageType
<1>6. (TurnIsSaid' <=> TurnIsSaid) /\ (Talking' <=> Talking)
      /\ (NoMessageQueued' <=> NoMessageQueued)
  BY <1>1 DEF TurnIsSaid, Talking, NoMessageQueued
<1>7. status # "idle" /\ (Busy \/ status = "starting")
  BY <1>1 DEF DialogueInv, FloorInv, TypeOK, Busy
<1>8. FloorInv'
  <2>1. CASE Final(stdout[1].kind)
    <3>1. Len(stdout) = 1
      <4>1. 1 \in 1..Len(stdout)
        BY <1>2
      <4>2. QED
        BY <2>1, <4>1 DEF DialogueInv, OutputInv
    <3>2. stdout' = <<>> /\ Concluded
      BY <1>1, <1>2, <2>1, <3>1 DEF Concluded
    <3>3. status' = "idle"
      BY <1>1, <1>2, <2>1 DEF StatusAfter, Final
    <3>4. TurnIsSaid /\ NoMessageQueued
      BY <1>1, <1>7, <3>2 DEF DialogueInv, FloorInv, TurnIsSaid
    <3>5. QED
      BY <1>6, <3>2, <3>3, <3>4 DEF FloorInv, Busy
  <2>2. CASE ~Final(stdout[1].kind)
    <3>1. Busy
      BY <1>1, <1>7, <2>2 DEF DialogueInv, FloorInv, Concluded
    <3>2. Busy' /\ status' \notin {"quit", "starting", "idle"}
      BY <1>1, <1>2, <1>5, <2>2, <3>1 DEF StatusAfter, OutputKinds, Final, Busy
    <3>3. stdout' # <<>> => stdout'[Len(stdout')] = stdout[Len(stdout)]
      <4>1. stdout' # <<>> => /\ Len(stdout') \in 1..Len(stdout')
                              /\ Len(stdout') + 1 = Len(stdout)
        BY <1>1, <1>2
      <4>2. QED
        BY <1>2, <4>1
    <3>4. Concluded => stdout' # <<>>
      <4>1. stdout' = <<>> => Len(stdout') = 0
        OBVIOUS
      <4>2. Len(stdout') = 0 => Len(stdout) = 1
        BY <1>2
      <4>3. QED
        BY <2>2, <4>1, <4>2 DEF Concluded
    <3>5. Concluded' <=> Concluded
      BY <1>1, <3>3, <3>4 DEF Concluded
    <3>6. \/ Talking /\ ~Concluded
          \/ Concluded /\ TurnIsSaid /\ NoMessageQueued
      BY <1>1, <3>1 DEF DialogueInv, FloorInv
    <3>7. QED
      BY <1>6, <3>2, <3>5, <3>6 DEF FloorInv
  <2>3. QED
    BY <2>1, <2>2
<1>9. QED
  BY <1>3, <1>4, <1>8 DEF DialogueInv

\* The reader thread carries a line from the pipe to the queue.
LEMMA ReadLineKeeps == ASSUME TypeOK, DialogueInv, ReadLine PROVE DialogueInv'
<1>1. PICK line \in LineType :
        /\ line = Head(stdin) /\ stdin # <<>> /\ stdin \in Seq(LineType)
        /\ inputs \in Seq(LineType) /\ inputs' = Append(inputs, line) /\ stdin' = Tail(stdin)
        /\ UNCHANGED <<status, sent, stdout, stderr, pc, turn, said, announced, discarded, hits>>
  <2>1. stdin \in Seq(LineType) /\ stdin # <<>>
    BY DEF ReadLine, TypeOK
  <2>2. Head(stdin) \in LineType
    BY <2>1
  <2>3. QED
    BY <2>1, <2>2 DEF ReadLine, TypeOK, tui, agent, history
<1>2. ASSUME NEW kind
      PROVE  /\ \A i \in At(stdin', kind) :
                  /\ i \in Nat /\ i + 1 \in At(stdin, kind) /\ i + 1 # 1
                  /\ stdin'[i] = stdin[i + 1]
             /\ \A i \in At(stdin, kind) : i # 1 => i \in Nat /\ i - 1 \in At(stdin', kind)
             /\ line.kind = kind <=> 1 \in At(stdin, kind)
             /\ line = stdin[1]
  <2>1. /\ \A i \in At(Tail(stdin), kind) :
             /\ i \in Nat /\ i + 1 \in At(stdin, kind) /\ i + 1 # 1
             /\ Tail(stdin)[i] = stdin[i + 1]
        /\ \A i \in At(stdin, kind) : i # 1 => i \in Nat /\ i - 1 \in At(Tail(stdin), kind)
        /\ line.kind = kind <=> 1 \in At(stdin, kind)
        /\ line = stdin[1]
    BY <1>1, TakenLine
  <2>2. QED
    BY <1>1, <2>1
<1>3. ASSUME NEW kind
      PROVE  /\ line.kind = kind => At(inputs', kind) = At(inputs, kind) \cup {Len(inputs) + 1}
             /\ line.kind # kind => At(inputs', kind) = At(inputs, kind)
             /\ inputs'[Len(inputs) + 1] = line
             /\ \A i \in At(inputs, kind) : inputs'[i] = inputs[i] /\ i < Len(inputs) + 1
  <2>1. ASSUME line.kind = kind
        PROVE  At(Append(inputs, line), kind) = At(inputs, kind) \cup {Len(inputs) + 1}
    <3>1. line \in LineType /\ inputs \in Seq(LineType)
      BY <1>1
    <3>2. QED
      BY <2>1, <3>1, AppendedLine
  <2>2. line.kind # kind => At(Append(inputs, line), kind) = At(inputs, kind)
    BY <1>1, AppendedLine
  <2>3. /\ Append(inputs, line)[Len(inputs) + 1] = line
        /\ \A i \in 1..Len(inputs) : Append(inputs, line)[i] = inputs[i] /\ i < Len(inputs) + 1
    BY <1>1
  <2>4. \A i \in At(inputs, kind) : Append(inputs, line)[i] = inputs[i] /\ i < Len(inputs) + 1
    BY <2>3 DEF At
  <2>5. QED
    BY <1>1, <2>1, <2>2, <2>3, <2>4
<1>4. CASE line.kind = "message"
  <2>1. /\ line.about = sent /\ At(stdin, "message") = {1} /\ At(inputs, "message") = {}
    BY <1>2, <1>4 DEF DialogueInv, OneMessage
  <2>2. At(stdin', "message") = {}
    BY <1>2, <2>1
  <2>3. At(inputs', "message") = {Len(inputs) + 1} /\ inputs'[Len(inputs) + 1] = line
    BY <1>3, <1>4, <2>1
  <2>4. OneMessage'
    BY <1>1, <2>1, <2>2, <2>3 DEF OneMessage
  <2>5. \A i \in At(stdin', "interrupt") : stdin'[i].about = sent
    <3>1. SUFFICES ASSUME NEW i \in At(stdin', "interrupt") PROVE stdin'[i].about = sent
      OBVIOUS
    <3>2. i \in Nat /\ i + 1 \in At(stdin, "interrupt") /\ stdin'[i] = stdin[i + 1]
      BY <1>2
    <3>3. ~(i + 1 < 1)
      BY <3>2
    <3>4. QED
      BY <2>1, <3>2, <3>3 DEF DialogueInv, InterruptsKeepPlace
  <2>6. At(inputs', "interrupt") = At(inputs, "interrupt")
        /\ \A i \in At(inputs, "interrupt") : i < Len(inputs) + 1
    BY <1>3, <1>4
  <2>7. InterruptsKeepPlace'
    BY <1>1, <2>3, <2>5, <2>6 DEF InterruptsKeepPlace
  <2>8. NoMessageQueued' <=> NoMessageQueued
    BY <2>1, <2>3 DEF NoMessageQueued
  <2>9. QED
    BY <1>1, <2>4, <2>7, <2>8, QuietKeeps
<1>5. CASE line.kind # "message"
  <2>1. /\ At(inputs', "message") = At(inputs, "message")
        /\ \A i \in At(inputs, "message") : inputs'[i] = inputs[i]
    BY <1>3, <1>5
  <2>2. /\ \A i \in At(stdin', "message") :
             i \in Nat /\ i + 1 \in At(stdin, "message") /\ stdin'[i] = stdin[i + 1]
        /\ \A i \in At(stdin, "message") : i \in Nat /\ i - 1 \in At(stdin', "message")
    BY <1>2, <1>5
  <2>3. At(stdin', "message") = {} <=> At(stdin, "message") = {}
    BY <2>2
  <2>4. OneMessage'
    <3>1. ASSUME NEW i \in At(stdin', "message")
          PROVE  /\ stdin'[i].about = sent /\ At(stdin', "message") = {i}
                 /\ At(inputs', "message") = {}
      <4>1. i \in Nat /\ i + 1 \in At(stdin, "message") /\ stdin'[i] = stdin[i + 1]
        BY <2>2
      <4>2. /\ stdin[i + 1].about = sent /\ At(stdin, "message") = {i + 1}
            /\ At(inputs, "message") = {}
        BY <4>1 DEF DialogueInv, OneMessage
      <4>3. \A j \in At(stdin', "message") : j \in Nat /\ j + 1 = i + 1
        BY <2>2, <4>2
      <4>4. \A j \in At(stdin', "message") : j = i
        BY <4>1, <4>3
      <4>5. QED
        BY <2>1, <4>1, <4>2, <4>4
    <3>2. ASSUME NEW i \in At(inputs', "message")
          PROVE  /\ inputs'[i].about = sent /\ At(inputs', "message") = {i}
                 /\ At(stdin', "message") = {}
      BY <2>1, <2>3 DEF DialogueInv, OneMessage
    <3>3. QED
      BY <1>1, <3>1, <3>2 DEF OneMessage
  <2>5. InterruptsKeepPlace'
    <3>1. ASSUME NEW i \in At(stdin', "interrupt")
          PROVE  stdin'[i].about = sent \/ \E j \in At(stdin', "message") : i < j
      <4>1. i \in Nat /\ i + 1 \in At(stdin, "interrupt") /\ stdin'[i] = stdin[i + 1]
        BY <1>2
      <4>2. CASE stdin[i + 1].about = sent
        BY <4>1, <4>2
      <4>3. CASE \E j \in At(stdin, "message") : i + 1 < j
        <5>1. PICK j \in At(stdin, "message") : i + 1 < j
          BY <4>3
        <5>2. j \in Nat /\ j - 1 \in At(stdin', "message")
          BY <2>2
        <5>3. i < j - 1
          BY <4>1, <5>1, <5>2
        <5>4. QED
          BY <5>2, <5>3
      <4>4. QED
        BY <4>1, <4>2, <4>3 DEF DialogueInv, InterruptsKeepPlace
    <3>2. ASSUME NEW i \in At(inputs', "interrupt")
          PROVE  \/ inputs'[i].about = sent
                 \/ \E j \in At(inputs', "message") : i < j
                 \/ At(stdin', "message") # {}
      <4>1. CASE i \in At(inputs, "interrupt")
        <5>1. inputs'[i] = inputs[i]
          BY <1>3, <4>1
        <5>2. QED
          BY <2>1, <2>3, <4>1, <5>1 DEF DialogueInv, InterruptsKeepPlace
      <4>2. CASE i \notin At(inputs, "interrupt")
        <5>1. line.kind = "interrupt" /\ i = Len(inputs) + 1
          BY <1>3, <4>2
        <5>2. inputs'[i] = line /\ line = stdin[1] /\ 1 \in At(stdin, "interrupt")
          BY <1>2, <1>3, <5>1
        <5>3. QED
          BY <2>3, <5>2 DEF DialogueInv, InterruptsKeepPlace
      <4>3. QED
        BY <4>1, <4>2
    <3>3. QED
      BY <1>1, <3>1, <3>2 DEF InterruptsKeepPlace
  <2>6. NoMessageQueued' <=> NoMessageQueued
    BY <2>1, <2>3 DEF NoMessageQueued
  <2>7. QED
    BY <1>1, <2>4, <2>5, <2>6, QuietKeeps
<1>6. QED
  BY <1>4, <1>5

-----------------------------------------------------------------------------
(* The dialogue: what the backend does.                                    *)

\* The backend takes a line that is no message.
LEMMA TakenKeepsQueues ==
  ASSUME TypeOK, DialogueInv, inputs # <<>>, Head(inputs).kind # "message",
         inputs' = Tail(inputs), UNCHANGED <<stdin, sent>>
  PROVE  OneMessage' /\ InterruptsKeepPlace' /\ (NoMessageQueued' <=> NoMessageQueued)
<1>1. inputs \in Seq(LineType)
  BY DEF TypeOK
<1>2. ASSUME NEW kind
      PROVE  /\ \A i \in At(inputs', kind) :
                  /\ i \in Nat /\ i + 1 \in At(inputs, kind) /\ i + 1 # 1
                  /\ inputs'[i] = inputs[i + 1]
             /\ \A i \in At(inputs, kind) : i # 1 => i \in Nat /\ i - 1 \in At(inputs', kind)
             /\ Head(inputs).kind = kind <=> 1 \in At(inputs, kind)
  <2>1. /\ \A i \in At(Tail(inputs), kind) :
             /\ i \in Nat /\ i + 1 \in At(inputs, kind) /\ i + 1 # 1
             /\ Tail(inputs)[i] = inputs[i + 1]
        /\ \A i \in At(inputs, kind) : i # 1 => i \in Nat /\ i - 1 \in At(Tail(inputs), kind)
        /\ Head(inputs).kind = kind <=> 1 \in At(inputs, kind)
    BY <1>1, TakenLine
  <2>2. QED
    BY <1>1, <2>1
<1>3. /\ \A i \in At(inputs', "message") :
           i \in Nat /\ i + 1 \in At(inputs, "message") /\ inputs'[i] = inputs[i + 1]
      /\ \A i \in At(inputs, "message") : i \in Nat /\ i - 1 \in At(inputs', "message")
  BY <1>2
<1>4. At(inputs', "message") = {} <=> At(inputs, "message") = {}
  BY <1>3
<1>5. OneMessage'
  <2>1. ASSUME NEW i \in At(inputs', "message")
        PROVE  /\ inputs'[i].about = sent /\ At(inputs', "message") = {i}
               /\ At(stdin, "message") = {}
    <3>1. i \in Nat /\ i + 1 \in At(inputs, "message") /\ inputs'[i] = inputs[i + 1]
      BY <1>3
    <3>2. /\ inputs[i + 1].about = sent /\ At(inputs, "message") = {i + 1}
          /\ At(stdin, "message") = {}
      BY <3>1 DEF DialogueInv, OneMessage
    <3>3. \A j \in At(inputs', "message") : j \in Nat /\ j + 1 = i + 1
      BY <1>3, <3>2
    <3>4. \A j \in At(inputs', "message") : j = i
      BY <3>1, <3>3
    <3>5. QED
      BY <3>1, <3>2, <3>4
  <2>2. QED
    BY <1>4, <2>1 DEF DialogueInv, OneMessage
<1>6. InterruptsKeepPlace'
  <2>1. ASSUME NEW i \in At(inputs', "interrupt")
        PROVE  \/ inputs'[i].about = sent
               \/ \E j \in At(inputs', "message") : i < j
               \/ At(stdin, "message") # {}
    <3>1. i \in Nat /\ i + 1 \in At(inputs, "interrupt") /\ inputs'[i] = inputs[i + 1]
      BY <1>2
    <3>2. CASE \E j \in At(inputs, "message") : i + 1 < j
      <4>1. PICK j \in At(inputs, "message") : i + 1 < j
        BY <3>2
      <4>2. j \in Nat /\ j - 1 \in At(inputs', "message")
        BY <1>3
      <4>3. i < j - 1
        BY <3>1, <4>1, <4>2
      <4>4. QED
        BY <4>2, <4>3
    <3>3. QED
      BY <3>1, <3>2 DEF DialogueInv, InterruptsKeepPlace
  <2>2. QED
    BY <2>1 DEF DialogueInv, InterruptsKeepPlace
<1>7. QED
  BY <1>4, <1>5, <1>6 DEF NoMessageQueued

LEMMA SkipInterruptKeeps == ASSUME TypeOK, DialogueInv, SkipInterrupt PROVE DialogueInv'
<1>1. OneMessage' /\ InterruptsKeepPlace' /\ (NoMessageQueued' <=> NoMessageQueued)
  BY TakenKeepsQueues DEF SkipInterrupt, tui
<1>2. UNCHANGED <<status, sent, stdout, stderr, pc, turn, said, announced, discarded, hits>>
  BY DEF SkipInterrupt, tui, agent, history
<1>3. QED
  BY <1>1, <1>2, QuietKeeps

\* The end of file ends a backend whose TUI is gone.
LEMMA TakeEOFKeeps == ASSUME TypeOK, PhaseInv, DialogueInv, TakeEOF PROVE DialogueInv'
<1>1. OneMessage' /\ InterruptsKeepPlace' /\ (NoMessageQueued' <=> NoMessageQueued)
  BY TakenKeepsQueues DEF TakeEOF, tui
<1>2. status = "quit"
  <2>1. inputs \in Seq(LineType) /\ inputs # <<>> /\ Head(inputs).kind = "eof"
    BY DEF TakeEOF, TypeOK
  <2>2. 1 \in At(inputs, "eof")
    BY <2>1, TakenLine
  <2>3. QED
    BY <2>2 DEF PhaseInv
<1>3. /\ UNCHANGED <<status, sent, stdout, stderr, turn, said, announced, discarded, hits>>
      /\ pc' = "stopped"
  BY DEF TakeEOF, tui, agent, history
<1>4. QED
  BY <1>1, <1>2, <1>3 DEF DialogueInv, TalksAboutLast, Talking, TurnIsSaid, OutputInv, FloorInv,
     HistoryInv, Busy

\* The backend takes the message, and the floor.
LEMMA TakeMessageKeeps == ASSUME TypeOK, DialogueInv, TakeMessage PROVE DialogueInv'
<1>1. /\ inputs \in Seq(LineType) /\ inputs # <<>> /\ inputs' = Tail(inputs)
      /\ pc = "waiting" /\ pc' = "taken" /\ turn' = Head(inputs).about
      /\ Head(inputs).kind = "message"
      /\ UNCHANGED <<status, sent, stdin, stdout, stderr, said, announced, discarded, hits>>
  BY DEF TakeMessage, TypeOK, tui, agent, history
<1>2. ASSUME NEW kind
      PROVE  /\ \A i \in At(inputs', kind) :
                  /\ i \in Nat /\ i + 1 \in At(inputs, kind) /\ i + 1 # 1
                  /\ inputs'[i] = inputs[i + 1]
             /\ Head(inputs).kind = kind <=> 1 \in At(inputs, kind)
             /\ Head(inputs) = inputs[1]
  <2>1. /\ \A i \in At(Tail(inputs), kind) :
             /\ i \in Nat /\ i + 1 \in At(inputs, kind) /\ i + 1 # 1
             /\ Tail(inputs)[i] = inputs[i + 1]
        /\ Head(inputs).kind = kind <=> 1 \in At(inputs, kind)
        /\ Head(inputs) = inputs[1]
    BY <1>1, TakenLine
  <2>2. QED
    BY <1>1, <2>1
<1>3. /\ 1 \in At(inputs, "message") /\ inputs[1].about = sent
      /\ At(inputs, "message") = {1} /\ At(stdin, "message") = {}
  BY <1>1, <1>2 DEF DialogueInv, OneMessage
<1>4. At(inputs', "message") = {} /\ At(stdin', "message") = {}
  BY <1>1, <1>2, <1>3
<1>5. turn' = sent /\ Talking' /\ NoMessageQueued' /\ ~NoMessageQueued
  BY <1>1, <1>2, <1>3, <1>4 DEF Talking, TurnIsSaid, NoMessageQueued
<1>6. OneMessage'
  BY <1>4 DEF OneMessage
<1>7. InterruptsKeepPlace'
  <2>1. ASSUME NEW i \in At(inputs', "interrupt") PROVE inputs'[i].about = sent
    <3>1. i \in Nat /\ i + 1 \in At(inputs, "interrupt") /\ inputs'[i] = inputs[i + 1]
      BY <1>2
    <3>2. ~(i + 1 < 1)
      BY <3>1
    <3>3. QED
      BY <1>3, <3>1, <3>2 DEF DialogueInv, InterruptsKeepPlace
  <2>2. QED
    BY <1>1, <1>3, <2>1 DEF DialogueInv, InterruptsKeepPlace
<1>8. TalksAboutLast'
  BY <1>1, <1>5 DEF TalksAboutLast
<1>9. FloorInv'
  <2>1. Busy \/ status = "quit"
    BY <1>5 DEF DialogueInv, FloorInv, TypeOK, Busy
  <2>2. stdout = <<>>
    BY <1>5, <2>1 DEF DialogueInv, FloorInv, TalksAboutLast
  <2>3. QED
    BY <1>1, <1>5, <2>1, <2>2 DEF FloorInv, Concluded, Busy
<1>10. OutputInv' /\ HistoryInv'
  BY <1>1 DEF DialogueInv, OutputInv, HistoryInv
<1>11. QED
  BY <1>6, <1>7, <1>8, <1>9, <1>10 DEF DialogueInv

\* Whoever talks has the floor: the TUI waits, or is gone.
LEMMA FloorOfTalker ==
  ASSUME TypeOK, DialogueInv, Talking
  PROVE  /\ turn = sent /\ NoMessageQueued /\ ~Concluded
         /\ Busy \/ (status = "quit" /\ stdout = <<>>)
<1>1. turn = sent /\ NoMessageQueued /\ ~TurnIsSaid /\ pc # "init"
  BY DEF DialogueInv, TalksAboutLast, Talking
<1>2. Busy \/ (status = "quit" /\ stdout = <<>>)
  BY <1>1 DEF DialogueInv, FloorInv, TypeOK, Busy, TurnIsSaid
<1>3. ~Concluded
  <2>1. CASE Busy
    BY <1>1, <2>1 DEF DialogueInv, FloorInv, Busy
  <2>2. CASE stdout = <<>>
    BY <2>2 DEF Concluded
  <2>3. QED
    BY <1>2, <2>1, <2>2
<1>4. QED
  BY <1>1, <1>2, <1>3

\* What the backend says while it has the floor.
LEMMA SpokenLast ==
  ASSUME TypeOK, DialogueInv, Talking, NEW kind \in OutputKinds, Emit(kind), UNCHANGED sent
  PROVE  /\ OutputInv'
         /\ status = "quit" => stdout' = <<>>
         /\ Busy => (Concluded' <=> Final(kind))
<1>1. /\ turn = sent /\ ~Concluded
      /\ Busy \/ (status = "quit" /\ stdout = <<>>)
      /\ stdout \in Seq(MessageType) /\ OutputInv
  BY FloorOfTalker DEF TypeOK, DialogueInv
<1>2. CASE status = "quit"
  <2>1. stdout' = <<>>
    BY <1>1, <1>2 DEF Emit, Busy
  <2>2. QED
    BY <1>2, <2>1 DEF OutputInv, Busy
<1>3. CASE status # "quit"
  <2>1. PICK message \in MessageType :
          message = Line(kind, turn) /\ message.kind = kind /\ message.about = sent
    <3>1. Line(kind, turn) \in MessageType
      BY LineTypes DEF TypeOK
    <3>2. QED
      BY <1>1, <3>1 DEF Line
  <2>2. stdout' = Append(stdout, message)
    BY <1>3, <2>1 DEF Emit
  <2>3. /\ Len(stdout') = Len(stdout) + 1 /\ Len(stdout) \in Nat
        /\ \A i \in 1..Len(stdout) : stdout'[i] = stdout[i]
        /\ stdout'[Len(stdout) + 1] = message
        /\ stdout' # <<>>
    BY <1>1, <2>2
  <2>4. \A i \in 1..Len(stdout') : i \in 1..Len(stdout) \/ i = Len(stdout')
    BY <2>3
  <2>5. \A i \in 1..Len(stdout) : stdout[i].about = sent /\ ~Final(stdout[i].kind)
    <3>1. SUFFICES ASSUME NEW i \in 1..Len(stdout), Final(stdout[i].kind) PROVE FALSE
      BY <1>1 DEF OutputInv
    <3>2. i = Len(stdout)
      BY <1>1, <3>1 DEF OutputInv
    <3>3. stdout # <<>>
      BY <1>1, <3>1
    <3>4. QED
      BY <1>1, <3>1, <3>2, <3>3 DEF Concluded
  <2>6. OutputInv'
    BY <2>1, <2>3, <2>4, <2>5 DEF OutputInv
  <2>7. Concluded' <=> Final(kind)
    BY <2>1, <2>3 DEF Concluded
  <2>8. QED
    BY <1>3, <2>6, <2>7
<1>4. QED
  BY <1>2, <1>3

\* A drain while the backend has the floor meets interrupts of its turn alone.
LEMMA DrainKeeps ==
  ASSUME TypeOK, DialogueInv, Talking, NEW stopped \in BOOLEAN, Drain(stopped),
         UNCHANGED <<stdin, sent, stderr>>
  PROVE  OneMessage' /\ InterruptsKeepPlace' /\ NoMessageQueued' /\ HistoryInv'
<1>1. turn = sent /\ At(stdin, "message") = {} /\ At(inputs, "message") = {}
  BY FloorOfTalker DEF NoMessageQueued
<1>2. PICK n \in 0..Len(inputs) :
        /\ Len(inputs') = Len(inputs) - n
        /\ \A k \in 1..(Len(inputs) - n) : inputs'[k] = inputs[n + k]
        /\ discarded' = discarded \cup
             {inputs[i].about : i \in {j \in 1..n : inputs[j].kind = "message"}}
        /\ IF stopped
           THEN /\ n \in At(inputs, "interrupt")
                /\ hits' = hits \cup {[meant |-> inputs[n].about, stopped |-> turn]}
           ELSE hits' = hits
  BY DrainEffect
<1>3. \A k \in 1..Len(inputs') : inputs'[k] = inputs[n + k] /\ n + k \in 1..Len(inputs)
  <2>1. Len(inputs) \in Nat
    BY DEF TypeOK
  <2>2. \A k \in 1..(Len(inputs) - n) : n + k \in 1..Len(inputs)
    BY <2>1
  <2>3. QED
    BY <1>2, <2>2
<1>4. \A i \in At(inputs, "interrupt") : inputs[i].about = sent
  BY <1>1 DEF DialogueInv, InterruptsKeepPlace
<1>5. At(inputs', "message") = {}
  BY <1>1, <1>3 DEF At
<1>6. \A i \in At(inputs', "interrupt") : inputs'[i].about = sent
  BY <1>3, <1>4 DEF At
<1>7. OneMessage' /\ NoMessageQueued'
  BY <1>1, <1>5 DEF OneMessage, NoMessageQueued
<1>8. InterruptsKeepPlace'
  BY <1>1, <1>6 DEF DialogueInv, InterruptsKeepPlace
<1>9. discarded' = {}
  <2>1. \A j \in 1..n : j \in 1..Len(inputs)
    BY DEF TypeOK
  <2>2. {j \in 1..n : inputs[j].kind = "message"} = {}
    BY <1>1, <2>1 DEF At
  <2>3. QED
    BY <1>2, <2>2 DEF DialogueInv, HistoryInv
<1>10. \A hit \in hits' : hit.meant = hit.stopped
  <2>1. \A hit \in hits : hit.meant = hit.stopped
    BY DEF DialogueInv, HistoryInv
  <2>2. CASE stopped
    <3>1. inputs[n].about = sent
      BY <1>2, <1>4, <2>2
    <3>2. QED
      BY <1>1, <1>2, <2>1, <2>2, <3>1
  <2>3. QED
    BY <1>2, <2>1, <2>2
<1>11. QED
  BY <1>7, <1>8, <1>9, <1>10 DEF DialogueInv, HistoryInv

\* After a step of the talker: it goes on talking, or it has said its last word.
LEMMA FloorAfterTalker ==
  ASSUME TypeOK, DialogueInv, Talking, UNCHANGED <<status, sent, turn>>,
         NoMessageQueued', status = "quit" => stdout' = <<>>,
         \/ Talking' /\ (Busy => ~Concluded')
         \/ TurnIsSaid' /\ (Busy => Concluded')
  PROVE  TalksAboutLast' /\ FloorInv'
<1>1. /\ turn = sent
      /\ Busy \/ status = "quit"
  BY FloorOfTalker
<1>2. pc' # "init" /\ (Busy' <=> Busy)
  BY DEF Talking, TurnIsSaid, Busy
<1>3. TalksAboutLast'
  BY <1>1, <1>2 DEF TalksAboutLast
<1>4. FloorInv'
  BY <1>1, <1>2 DEF FloorInv, Busy
<1>5. QED
  BY <1>3, <1>4

LEMMA InitializeKeeps == ASSUME TypeOK, DialogueInv, Initialize PROVE DialogueInv'
<1>1. /\ turn = 0 /\ sent = 0 /\ NoMessageQueued
      /\ status = "quit" \/ status = "starting"
      /\ stdout = <<>>
  BY DEF DialogueInv, TalksAboutLast, FloorInv, TypeOK, Busy, TurnIsSaid, Talking, Initialize
<1>2. PICK kind \in {"ready", "error"} :
        /\ Emit(kind) /\ pc' \in {"waiting", "stopped"}
        /\ UNCHANGED <<status, sent, stdin, stderr, inputs, turn, discarded, hits>>
  BY DEF Initialize, tui, history
<1>3. OneMessage' /\ InterruptsKeepPlace' /\ HistoryInv' /\ NoMessageQueued' /\ TurnIsSaid'
  BY <1>1, <1>2 DEF DialogueInv, OneMessage, InterruptsKeepPlace, HistoryInv, NoMessageQueued,
                    TurnIsSaid
<1>4. TalksAboutLast'
  BY <1>2, <1>3 DEF TalksAboutLast, Talking
<1>5. CASE status = "quit"
  <2>1. stdout' = <<>>
    BY <1>1, <1>2, <1>5 DEF Emit
  <2>2. QED
    BY <1>2, <1>3, <1>4, <1>5, <2>1 DEF DialogueInv, OutputInv, FloorInv, Busy
<1>6. CASE status = "starting"
  <2>1. stdout' = <<Line(kind, 0)>>
    BY <1>1, <1>2, <1>6 DEF Emit
  <2>2. Len(stdout') = 1 /\ stdout'[1].kind = kind /\ stdout'[1].about = 0 /\ stdout' # <<>>
    BY <2>1 DEF Line
  <2>3. Concluded'
    BY <1>2, <2>2 DEF Concluded, Final
  <2>4. OutputInv'
    BY <1>1, <1>2, <2>2 DEF OutputInv
  <2>5. FloorInv'
    BY <1>2, <1>3, <1>6, <2>2, <2>3 DEF FloorInv, Busy
  <2>6. QED
    BY <1>3, <1>4, <2>4, <2>5 DEF DialogueInv
<1>7. QED
  BY <1>1, <1>5, <1>6

LEMMA StartTurnKeeps == ASSUME TypeOK, PhaseInv, DialogueInv, StartTurn PROVE DialogueInv'
<1>1. /\ Talking /\ said \in {"nothing", "closed"}
      /\ UNCHANGED <<status, sent, stdin, stderr, turn, said, announced>>
  BY DEF StartTurn, Talking, TurnIsSaid, PhaseInv, tui, agent
<1>2. CASE Drain(FALSE) /\ pc' = "resuming" /\ UNCHANGED stdout
  <2>1. OneMessage' /\ InterruptsKeepPlace' /\ NoMessageQueued' /\ HistoryInv'
    BY <1>1, <1>2, DrainKeeps
  <2>2. Talking'
    BY <1>1, <1>2 DEF Talking, TurnIsSaid
  <2>3. /\ ~Concluded'
        /\ status = "quit" => stdout' = <<>>
    BY <1>1, <1>2, FloorOfTalker DEF Concluded, Busy
  <2>4. TalksAboutLast' /\ FloorInv'
    BY <1>1, <2>1, <2>2, <2>3, FloorAfterTalker
  <2>5. OutputInv'
    BY <1>1, <1>2 DEF DialogueInv, OutputInv
  <2>6. QED
    BY <2>1, <2>4, <2>5 DEF DialogueInv
<1>3. CASE Drain(TRUE) /\ pc' = "waiting" /\ Emit("done")
  <2>1. OneMessage' /\ InterruptsKeepPlace' /\ NoMessageQueued' /\ HistoryInv'
    BY <1>1, <1>3, DrainKeeps
  <2>2. /\ OutputInv' /\ (status = "quit" => stdout' = <<>>)
        /\ Busy => Concluded'
    BY <1>1, <1>3, SpokenLast DEF OutputKinds, Final
  <2>3. TurnIsSaid'
    BY <1>3 DEF TurnIsSaid
  <2>4. TalksAboutLast' /\ FloorInv'
    BY <1>1, <2>1, <2>2, <2>3, FloorAfterTalker
  <2>5. QED
    BY <2>1, <2>2, <2>4 DEF DialogueInv
<1>4. QED
  BY <1>2, <1>3 DEF StartTurn

\* A generator that has said its last says no more.
LEMMA SpeechKeeps ==
  ASSUME TypeOK, DialogueInv, Undisturbed', Yield \/ YieldError PROVE DialogueInv'
<1>1. ~TurnIsSaid /\ pc = "resuming"
  BY DEF Yield, YieldError, TurnIsSaid, Agent!Ask, Agent!Delta, Agent!Answer, Agent!Result,
         Agent!Acknowledge, Agent!Fail, TypeOK
<1>2. /\ pc' = "yielded" /\ stderr' = stderr
      /\ UNCHANGED <<status, sent, stdin, stdout, inputs, turn, discarded, hits>>
  <2>1. ~LogException
    BY DEF LogException, Undisturbed, TypeOK
  <2>2. QED
    BY <2>1 DEF Yield, YieldError, tui, history
<1>3. Talking /\ Talking'
  BY <1>1, <1>2 DEF Talking, TurnIsSaid
<1>4. /\ ~Concluded'
      /\ status = "quit" => stdout' = <<>>
  BY <1>2, <1>3, FloorOfTalker DEF Concluded, Busy
<1>5. OneMessage' /\ InterruptsKeepPlace' /\ HistoryInv' /\ OutputInv' /\ NoMessageQueued'
  BY <1>2, <1>3, FloorOfTalker
     DEF DialogueInv, OneMessage, InterruptsKeepPlace, HistoryInv, OutputInv, NoMessageQueued
<1>6. TalksAboutLast' /\ FloorInv'
  BY <1>2, <1>3, <1>4, <1>5, FloorAfterTalker
<1>7. QED
  BY <1>5, <1>6 DEF DialogueInv

\* A generator ends when all is said.
LEMMA TurnOverKeeps == ASSUME TypeOK, DialogueInv, TurnOver PROVE DialogueInv'
<1>1. /\ TurnIsSaid /\ pc = "resuming" /\ pc' = "waiting"
      /\ UNCHANGED <<status, sent, stdin, stdout, stderr, inputs, turn, discarded, hits>>
  BY DEF TurnOver, TurnIsSaid, Agent!End, tui, history
<1>2. /\ TurnIsSaid' /\ (Busy' <=> Busy) /\ (Concluded' <=> Concluded)
      /\ (NoMessageQueued' <=> NoMessageQueued)
  BY <1>1 DEF TurnIsSaid, Busy, Concluded, NoMessageQueued
<1>3. OneMessage' /\ InterruptsKeepPlace' /\ HistoryInv' /\ OutputInv'
  BY <1>1 DEF DialogueInv, OneMessage, InterruptsKeepPlace, HistoryInv, OutputInv
<1>4. TalksAboutLast'
  BY <1>1, <1>2 DEF TalksAboutLast, Talking
<1>5. FloorInv'
  BY <1>1, <1>2 DEF DialogueInv, FloorInv, Talking
<1>6. QED
  BY <1>3, <1>4, <1>5 DEF DialogueInv

\* What is sent is the last word exactly when the generator has said its last.
LEMMA SendResponseKeeps == ASSUME TypeOK, DialogueInv, SendResponse PROVE DialogueInv'
<1>1. /\ Talking /\ Drain(FALSE) /\ pc' = "resuming"
      /\ UNCHANGED <<status, sent, stdin, stderr, turn, said, announced>>
  BY DEF SendResponse, Talking, TurnIsSaid, tui, agent
<1>2. OneMessage' /\ InterruptsKeepPlace' /\ NoMessageQueued' /\ HistoryInv'
  BY <1>1, DrainKeeps
<1>3. PICK kind \in Projections : IF kind = "nothing" THEN UNCHANGED stdout ELSE Emit(kind)
  BY DEF SendResponse
<1>4. /\ kind \in OutputKinds \cup {"nothing"}
      /\ Final(kind) <=> \/ said \in {"interrupted", "error"}
                         \/ said = "answer" /\ announced = 0
  BY <1>3 DEF Projections, OutputKinds, Final
<1>5. IF Final(kind) THEN TurnIsSaid' ELSE Talking'
  BY <1>1, <1>4 DEF TurnIsSaid, Talking
<1>6. CASE kind = "nothing"
  <2>1. Talking' /\ UNCHANGED stdout
    BY <1>3, <1>5, <1>6 DEF Final
  <2>2. /\ ~Concluded'
        /\ status = "quit" => stdout' = <<>>
    BY <1>1, <2>1, FloorOfTalker DEF Concluded, Busy
  <2>3. TalksAboutLast' /\ FloorInv'
    BY <1>1, <1>2, <2>1, <2>2, FloorAfterTalker
  <2>4. OutputInv'
    BY <1>1, <2>1 DEF DialogueInv, OutputInv
  <2>5. QED
    BY <1>2, <2>3, <2>4 DEF DialogueInv
<1>7. CASE kind # "nothing"
  <2>1. kind \in OutputKinds /\ Emit(kind)
    BY <1>3, <1>4, <1>7
  <2>2. /\ OutputInv' /\ (status = "quit" => stdout' = <<>>)
        /\ Busy => (Concluded' <=> Final(kind))
    BY <1>1, <2>1, SpokenLast
  <2>3. TalksAboutLast' /\ FloorInv'
    BY <1>1, <1>2, <1>5, <2>2, FloorAfterTalker
  <2>4. QED
    BY <1>2, <2>2, <2>3 DEF DialogueInv
<1>8. QED
  BY <1>6, <1>7

LEMMA StopTurnKeeps == ASSUME TypeOK, DialogueInv, StopTurn PROVE DialogueInv'
<1>1. /\ Talking /\ Drain(TRUE) /\ Emit("done") /\ TurnIsSaid'
      /\ UNCHANGED <<status, sent, stdin, stderr, turn>>
  BY DEF StopTurn, Talking, TurnIsSaid, tui
<1>2. OneMessage' /\ InterruptsKeepPlace' /\ NoMessageQueued' /\ HistoryInv'
  BY <1>1, DrainKeeps
<1>3. /\ OutputInv' /\ (status = "quit" => stdout' = <<>>)
      /\ Busy => Concluded'
  BY <1>1, SpokenLast DEF OutputKinds, Final
<1>4. TalksAboutLast' /\ FloorInv'
  BY <1>1, <1>2, <1>3, FloorAfterTalker
<1>5. QED
  BY <1>2, <1>3, <1>4 DEF DialogueInv

-----------------------------------------------------------------------------
(* The properties.                                                         *)

\* Nothing that disturbs the dialogue is forgotten.
LEMMA UndisturbedBefore ==
  ASSUME TypeOK, [Next]_vars, Undisturbed' PROVE Undisturbed
<1>1. /\ logs' = logs \/ logs' = logs + 1
      /\ pastes' = pastes \/ pastes' = pastes + 1
  BY DEF Next, SendMessage, SendInterrupt, Quit, Tui, Receive, ReceiveStderr, BackendLost,
         ReadLine, Backend, Initialize, TakeEOF, SkipInterrupt, TakeMessage, StartTurn, Yield,
         YieldError, TurnOver, SendResponse, StopTurn, CommandFails, LogException, vars, tui
<1>2. QED
  BY <1>1 DEF Undisturbed, TypeOK

LEMMA DialogueKept ==
  ASSUME TypeOK, PhaseInv, DialogueInv, [Next]_vars, Undisturbed'
  PROVE  DialogueInv'
<1>1. CASE UNCHANGED vars
  <2>1. OneMessage' /\ InterruptsKeepPlace'
    BY <1>1 DEF vars, DialogueInv, OneMessage, InterruptsKeepPlace
  <2>2. UNCHANGED <<status, sent, stdout, stderr, pc, turn, said, announced, discarded, hits>>
        /\ (NoMessageQueued' <=> NoMessageQueued)
    BY <1>1 DEF vars, NoMessageQueued
  <2>3. QED
    BY <2>1, <2>2, QuietKeeps
<1>2. ~ReceiveStderr /\ ~CommandFails
  BY DEF ReceiveStderr, CommandFails, LogException, DialogueInv, HistoryInv, Undisturbed, TypeOK
<1>3. CASE SendMessage \/ SendInterrupt \/ Quit \/ Tui \/ ReadLine
  BY <1>2, <1>3, SendMessageKeeps, SendInterruptKeeps, QuitKeeps, ReceiveKeeps, ReadLineKeeps
     DEF Tui, BackendLost
<1>4. CASE Backend
  BY <1>4, InitializeKeeps, TakeEOFKeeps, SkipInterruptKeeps, TakeMessageKeeps, StartTurnKeeps,
     SpeechKeeps, TurnOverKeeps, SendResponseKeeps, StopTurnKeeps DEF Backend
<1>5. QED
  BY <1>1, <1>2, <1>3, <1>4 DEF Next

LEMMA BridgeInitially == Init => BridgeInv
<1>1. SUFFICES ASSUME Init PROVE BridgeInv
  OBVIOUS
<1>2. /\ stdin = <<>> /\ inputs = <<>> /\ stdout = <<>> /\ stderr = <<>>
      /\ status = "starting" /\ pc = "init" /\ sent = 0 /\ turn = 0
      /\ said = "nothing" /\ announced = 0 /\ answered = 0
      /\ logs = 0 /\ pastes = 0 /\ discarded = {} /\ hits = {}
  BY <1>1 DEF Init, Agent!Init
<1>3. TypeOK
  <2>1. stdin \in Seq(LineType) /\ inputs \in Seq(LineType) /\ stdout \in Seq(MessageType)
        /\ stderr \in Seq(Nat)
    BY <1>2
  <2>2. QED
    BY <1>2, <2>1 DEF TypeOK, Sayings
<1>4. \A kind : At(stdin, kind) = {} /\ At(inputs, kind) = {}
  BY <1>2 DEF At
<1>5. PhaseInv
  BY <1>2, <1>4 DEF PhaseInv
<1>6. DialogueInv
  BY <1>2, <1>4 DEF DialogueInv, OneMessage, InterruptsKeepPlace, TalksAboutLast, Talking,
     NoMessageQueued, OutputInv, FloorInv, HistoryInv, Busy
<1>7. QED
  BY <1>3, <1>5, <1>6 DEF BridgeInv

\* One side at a time has the floor, and at most one message is under way, as long
\* as the dialogue is undisturbed.
THEOREM DialogueHolds == Spec => []BridgeInv
<1>1. ASSUME BridgeInv, [Next]_vars PROVE BridgeInv'
  <2>1. TypeOK' /\ PhaseInv'
    BY <1>1, TypesKept, PhaseKept DEF BridgeInv
  <2>2. Undisturbed' => DialogueInv'
    BY <1>1, UndisturbedBefore, DialogueKept DEF BridgeInv
  <2>3. QED
    BY <2>1, <2>2 DEF BridgeInv
<1>2. QED
  BY <1>1, BridgeInitially, PTL DEF Spec

\* What the user sends reaches the agent unless an exception was logged or a line
\* break pasted: the drains of _process_user_input drop no message.
THEOREM InputReaches == Spec => []InputReachesAgent
<1>1. BridgeInv => InputReachesAgent
  BY DEF BridgeInv, DialogueInv, HistoryInv, InputReachesAgent, NoInputIsDiscarded
<1>2. QED
  BY <1>1, DialogueHolds, PTL

\* Undisturbed, an interrupt stops the turn it was meant for, though its line in
\* the pipe names no turn.
THEOREM InterruptsHit == Spec => []InterruptsHitTheirTurn
<1>1. BridgeInv => InterruptsHitTheirTurn
  BY DEF BridgeInv, DialogueInv, HistoryInv, InterruptsHitTheirTurn
<1>2. QED
  BY <1>1, DialogueHolds, PTL

\* Undisturbed, the TUI is never told anything about an earlier message than its last.
THEOREM RepliesStayCurrent == Spec => []RepliesAreCurrent
<1>1. BridgeInv => RepliesAreCurrent
  BY DEF BridgeInv, DialogueInv, OutputInv, RepliesAreCurrent
<1>2. QED
  BY <1>1, DialogueHolds, PTL

\* Undisturbed, the TUI takes input only when the backend is done with the last
\* message, and is busy only while an answer is under way.
THEOREM TuiFollows == Spec => []TuiFollowsUndisturbed
<1>1. BridgeInv => TuiFollowsUndisturbed
  <2>1. SUFFICES ASSUME BridgeInv, Undisturbed PROVE TuiFollowsBackend
    BY DEF TuiFollowsUndisturbed
  <2>2. /\ NoMessageQueued <=>
             /\ ~\E i \in 1..Len(stdin) : stdin[i].kind = "message"
             /\ ~\E i \in 1..Len(inputs) : inputs[i].kind = "message"
    BY DEF NoMessageQueued, At
  <2>3. UnderWay <=> stdout # <<>> \/ ~TurnIsSaid \/ ~NoMessageQueued
    BY <2>2 DEF UnderWay
  <2>4. FloorInv
    BY <2>1 DEF BridgeInv, DialogueInv
  <2>5. status = "idle" => ~UnderWay
    BY <2>3, <2>4 DEF FloorInv
  <2>6. Busy => UnderWay
    BY <2>3, <2>4 DEF FloorInv, Talking, Concluded
  <2>7. QED
    BY <2>5, <2>6 DEF TuiFollowsBackend
<1>2. QED
  BY <1>1, DialogueHolds, PTL
=============================================================================
