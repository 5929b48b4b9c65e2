--------------------------- MODULE AgentTurnProofs ---------------------------
(***************************************************************************)
(* What holds of every conversation, for every history limit, iteration    *)
(* limit, number of latches and bound (module AgentTurn).                  *)
(***************************************************************************)
EXTENDS AgentTurn, LoopsProofs

\* left is the last MaxHistory messages, behind the prompt if kept is 1.
IsSuffix(left, messages, kept, cut) ==
  /\ left \in Seq(Message)
  /\ Len(left) = MaxHistory + kept
  /\ Len(messages) = MaxHistory + kept + cut
  /\ kept = 1 => left[1] = System
  /\ messages[1] = System => kept = 1
  /\ \A i \in (kept + 1)..(MaxHistory + kept) : left[i] = messages[i + cut]

LEMMA TrimIsSuffix ==
  ASSUME NEW messages \in Seq(Message), Len(messages) > MaxHistory
  PROVE  \E kept \in {0, 1}, cut \in Nat :
           IsSuffix(Trim(messages), messages, kept, cut)
<1> USE TurnAssumption
<1> DEFINE last == LastOf(messages, MaxHistory)
           n == Len(messages)
<1>1. /\ last \in Seq(Message)
      /\ Len(last) = MaxHistory
      /\ \A i \in 1..MaxHistory : last[i] = messages[i + n - MaxHistory]
  BY DEF LastOf
<1>2. System \in Message
  BY DEF System, Message
<1>3. <<System>> \in Seq(Message)
  BY <1>2
<1>4. CASE messages[1] = System
  <2>1. Trim(messages) = <<System>> \o last
    BY <1>4 DEF Trim
  <2>2. /\ <<System>> \o last \in Seq(Message)
        /\ Len(<<System>> \o last) = MaxHistory + 1
        /\ (<<System>> \o last)[1] = System
        /\ \A i \in 2..(MaxHistory + 1) : (<<System>> \o last)[i] = last[i - 1]
    BY <1>1, <1>3
  <2>3. n - MaxHistory - 1 \in Nat
    OBVIOUS
  <2>4. \A i \in 2..(MaxHistory + 1) :
          (<<System>> \o last)[i] = messages[i + (n - MaxHistory - 1)]
    <3> SUFFICES ASSUME NEW i \in 2..(MaxHistory + 1)
                 PROVE  (<<System>> \o last)[i] = messages[i + (n - MaxHistory - 1)]
      OBVIOUS
    <3>1. /\ i - 1 \in 1..MaxHistory
          /\ i - 1 + n - MaxHistory = i + (n - MaxHistory - 1)
      OBVIOUS
    <3> HIDE DEF last
    <3> QED  BY <1>1, <2>2, <3>1
  <2>5. IsSuffix(Trim(messages), messages, 1, n - MaxHistory - 1)
    <3> HIDE DEF last
    <3> QED  BY <2>1, <2>2, <2>4 DEF IsSuffix
  <2> QED  BY <2>3, <2>5
<1>5. CASE messages[1] # System
  <2>1. Trim(messages) = last
    BY <1>1, <1>5 DEF Trim
  <2>2. n - MaxHistory \in Nat
    OBVIOUS
  <2>3. \A i \in 1..MaxHistory : last[i] = messages[i + (n - MaxHistory)]
    <3> HIDE DEF last
    <3> QED  BY <1>1
  <2>4. IsSuffix(Trim(messages), messages, 0, n - MaxHistory)
    <3> HIDE DEF last
    <3> QED  BY <1>1, <1>5, <2>1, <2>3 DEF IsSuffix
  <2> QED  BY <2>2, <2>4
<1> QED  BY <1>4, <1>5

LEMMA TrimIsTyped ==
  ASSUME NEW messages \in Seq(Message)
  PROVE  Trim(messages) \in Seq(Message)
<1>1. CASE Len(messages) <= MaxHistory
  BY <1>1 DEF Trim
<1>2. CASE Len(messages) > MaxHistory
  BY <1>2, TrimIsSuffix DEF IsSuffix
<1> QED  BY <1>1, <1>2, TurnAssumption

\* The conversation after each of the messages that are added.
AddedBy(f, messages, more) ==
  /\ f \in [0..Len(more) -> Seq(Message)] /\ f[0] = messages
  /\ \A n \in 1..Len(more) : f[n] = AddMessage(f[n - 1], more[n])

LEMMA AddMessageIsTyped ==
  ASSUME NEW messages \in Seq(Message), NEW m \in Message
  PROVE  AddMessage(messages, m) \in Seq(Message)
<1>1. Append(messages, m) \in Seq(Message)
  OBVIOUS
<1> QED  BY <1>1, TrimIsTyped DEF AddMessage

LEMMA AddedOneByOne ==
  ASSUME NEW messages \in Seq(Message), NEW more \in Seq(Message)
  PROVE  \E f : AddedBy(f, messages, more) /\ AddMessages(messages, more) = f[Len(more)]
<1> DEFINE N == Len(more)
           X == Seq(Message)
           F == [n \in 1..N |-> [x \in X |-> AddMessage(x, more[n])]]
           Is(g) == g = [n \in 0..N |-> IF n = 0 THEN messages ELSE AddMessage(g[n - 1], more[n])]
           f == CHOOSE g : Is(g)
<1>1. N \in Nat /\ messages \in X /\ \A n \in 1..N : more[n] \in Message
  OBVIOUS
<1>2. \A n \in 1..N : \A x \in X : AddMessage(x, more[n]) \in X
  BY <1>1, AddMessageIsTyped
<1>3. AddMessages(messages, more) = f[N]
  BY DEF AddMessages
<1> HIDE DEF N, X, f
<1>4. /\ F \in [1..N -> [X -> X]]
      /\ \A n \in 1..N : \A x \in X : F[n][x] = AddMessage(x, more[n])
  BY <1>2
<1> HIDE DEF F
<1>5. PICK g \in [0..N -> X] : RoundsOf(g, F, N, messages)
  BY ONLY <1>1, <1>4, RoundsExist
<1>6. ASSUME NEW n \in 0..N
      PROVE  g[n] = IF n = 0 THEN messages ELSE AddMessage(g[n - 1], more[n])
  <2>1. n = 0 \/ (n # 0 /\ n \in 1..N /\ g[n - 1] \in X)
    BY <1>1
  <2>2. g[n] = IF n = 0 THEN messages ELSE F[n][g[n - 1]]
    BY <1>5 DEF RoundsOf
  <2> QED  BY <2>1, <2>2, <1>4
<1>7. Is(g)
  <2>1. g = [n \in 0..N |-> g[n]]
    OBVIOUS
  <2> QED  BY <2>1, <1>6
<1>8. Is(f)
  <2> HIDE DEF Is
  <2> QED  BY <1>7 DEF f
<1>9. \A n \in 0..N : f[n] = IF n = 0 THEN messages ELSE AddMessage(f[n - 1], more[n])
  BY <1>8
<1> DEFINE G == {n \in 0..N : f[n] \in X}
<1>10. 0 \in G
  <2>1. 0 \in 0..N /\ f[0] = messages
    BY <1>1, <1>9
  <2> QED  BY <2>1, <1>1
<1>11. ASSUME NEW n \in 1..N, n - 1 \in G PROVE n \in G
  <2>1. f[n - 1] \in X /\ n \in 0..N /\ n # 0
    BY <1>1, <1>11
  <2>2. f[n] = AddMessage(f[n - 1], more[n])
    BY <2>1, <1>9
  <2> QED  BY <2>1, <2>2, <1>2
<1>12. \A n \in 0..N : f[n] \in X
  <2>1. \A n \in 0..N : n \in G
    <3> HIDE DEF G
    <3> QED  BY <1>1, <1>10, <1>11, Counting
  <2> QED  BY <2>1
<1>13. f \in [0..N -> X]
  <2>1. f = [n \in 0..N |-> f[n]]
    BY <1>8
  <2> HIDE DEF Is
  <2> QED  BY <2>1, <1>12
<1>14. f[0] = messages /\ \A n \in 1..N : f[n] = AddMessage(f[n - 1], more[n])
  <2>1. 0 \in 0..N /\ \A n \in 1..N : n \in 0..N /\ n # 0
    BY <1>1
  <2> QED  BY <2>1, <1>9
<1> HIDE DEF Is
<1> QED  BY <1>3, <1>13, <1>14 DEF AddedBy, N, X

LEMMA AddingIsTyped ==
  ASSUME NEW messages \in Seq(Message), NEW more \in Seq(Message)
  PROVE  AddMessages(messages, more) \in Seq(Message)
<1>1. PICK f : AddedBy(f, messages, more) /\ AddMessages(messages, more) = f[Len(more)]
  BY AddedOneByOne
<1>2. Len(more) \in 0..Len(more)
  OBVIOUS
<1> QED  BY <1>1, <1>2 DEF AddedBy

\* What the code remembers is typed.
LEMMA MessagesAreTyped ==
  /\ <<User>> \in Seq(Message)
  /\ <<Assistant(0)>> \in Seq(Message)
  /\ \A n \in Nat : /\ ToolGroup(n) \in Seq(Message)
                    /\ Len(ToolGroup(n)) = n + 1
                    /\ ToolGroup(n)[1] = Assistant(n)
                    /\ \A i \in 2..(n + 1) : ToolGroup(n)[i] = Tool
<1>1. /\ User \in Message /\ Tool \in Message
      /\ \A n \in Nat : Assistant(n) \in Message
  BY DEF User, Tool, Assistant, Message
<1>2. ASSUME NEW n \in Nat
      PROVE  /\ ToolGroup(n) \in Seq(Message)
             /\ Len(ToolGroup(n)) = n + 1
             /\ ToolGroup(n)[1] = Assistant(n)
             /\ \A i \in 2..(n + 1) : ToolGroup(n)[i] = Tool
  <2> DEFINE results == [i \in 1..n |-> Tool]
  <2>1. results \in Seq(Message) /\ Len(results) = n
    BY <1>1
  <2>2. <<Assistant(n)>> \in Seq(Message)
    BY <1>1
  <2>3. ToolGroup(n) = <<Assistant(n)>> \o results
    BY DEF ToolGroup
  <2>4. \A i \in 1..n : results[i] = Tool
    OBVIOUS
  <2> HIDE DEF results
  <2> QED  BY <2>1, <2>2, <2>3, <2>4
<1> QED  BY <1>1, <1>2

\* Types hold of every conversation.
THEOREM TurnTypesAreCorrect == Spec => []TypeOK
<1>1. Init => TypeOK
  <2>1. (IF Prompt THEN <<System>> ELSE <<>>) \in Seq(Message)
    <3>1. System \in Message
      BY DEF System, Message
    <3> QED  BY <3>1
  <2>2. Init => interrupted \in BOOLEAN
    BY Zenon DEF Init
  <2> QED  BY <2>1, <2>2, TurnAssumption DEF Init, TypeOK, Stages
<1>2. TypeOK /\ [Next]_vars => TypeOK'
  <2> SUFFICES ASSUME TypeOK, [Next]_vars PROVE TypeOK'
    OBVIOUS
  <2> USE TurnAssumption
  <2>0. /\ AddMessages(history, <<User>>) \in Seq(Message)
        /\ AddMessages(history, <<Assistant(0)>>) \in Seq(Message)
        /\ AddMessages(history, ToolGroup(calls)) \in Seq(Message)
    <3>1. history \in Seq(Message) /\ calls \in Nat
      BY DEF TypeOK
    <3> QED  BY <3>1, AddingIsTyped, MessagesAreTyped
  <2>1. CASE Begin
    <3>1. interrupted' \in BOOLEAN
      BY <2>1, Zenon DEF Begin
    <3> QED  BY <2>0, <2>1, <3>1 DEF Begin, Remember, TypeOK, Stages
  <2>2. CASE BeginFails
    <3>1. interrupted' \in BOOLEAN
      BY <2>2, Zenon DEF BeginFails
    <3> QED  BY <2>2, <3>1 DEF BeginFails, TypeOK, Stages
  <2>3. CASE Chunk
    BY <2>3 DEF Chunk, NeedsChunk, TypeOK, Stages
  <2>4. CASE ChunkAfterInterrupt
    BY <2>4 DEF ChunkAfterInterrupt, LastResponse, TypeOK, Stages
  <2>5. CASE StreamFails
    BY <2>5 DEF StreamFails, LastResponse, TypeOK, Stages
  <2>6. CASE StreamEnds
    BY <2>6 DEF StreamEnds, NeedsChunk, TypeOK, Stages
  <2>7. CASE YieldOwed
    BY <2>7 DEF YieldOwed, TypeOK, Stages
  <2>8. CASE AnswerCompleted
    BY <2>8 DEF AnswerCompleted, talk, TypeOK, Stages
  <2>9. CASE FinishTurn
    BY <2>0, <2>9 DEF FinishTurn, Remember, talk, TypeOK, Stages
  <2>10. CASE ExecuteTools
    <3>1. latches' \in 0..Latches /\ refused' \in Nat
      BY <2>10 DEF ExecuteTools, Refusals, TypeOK
    <3>2. owed' \in Nat /\ owed' < calls'
      BY <2>10 DEF ExecuteTools, TypeOK
    <3> QED  BY <2>0, <2>10, <3>1, <3>2 DEF ExecuteTools, Remember, TypeOK, Stages
  <2>11. CASE ToolsFail
    BY <2>11 DEF ToolsFail, LastResponse, TypeOK, Stages
  <2>12. CASE AfterResults
    <3>1. CASE LastResponse("interrupted")
      BY <3>1 DEF LastResponse, TypeOK, Stages
    <3>2. CASE LastResponse("error")
      BY <3>2 DEF LastResponse, TypeOK, Stages
    <3>3. CASE /\ iteration < MaxIterations /\ StartIteration
               /\ UNCHANGED <<history, interrupted, latches, refused, turns>>
      BY <3>3 DEF StartIteration, TypeOK, Stages
    <3> QED  BY <2>12, <3>1, <3>2, <3>3 DEF AfterResults
  <2>13. CASE TurnEnds
    BY <2>13 DEF TurnEnds, talk, TypeOK, Stages
  <2>14. CASE Interrupt
    BY <2>14 DEF Interrupt, NoTurn, talk, TypeOK, Stages
  <2>15. CASE Abandon
    BY <2>15 DEF Abandon, talk, TypeOK, Stages
  <2>16. CASE UNCHANGED vars
    BY <2>16 DEF vars, TypeOK, Stages
  <2> QED  BY <2>1, <2>2, <2>3, <2>4, <2>5, <2>6, <2>7, <2>8, <2>9, <2>10, <2>11,
              <2>12, <2>13, <2>14, <2>15, <2>16 DEF Next, Resume
<1> QED  BY <1>1, <1>2, PTL DEF Spec

\* ChatWorkflow and should_stop honour an interrupt in every conversation.
THEOREM InterruptsAreHonoured == Spec => InterruptIsHonoured
<1>1. TypeOK /\ [Next]_vars =>
        [interrupted /\ turns' = turns => iteration' = iteration /\ chunks' = chunks]_vars
  BY DEF Next, Resume, Begin, BeginFails, Chunk, ChunkAfterInterrupt, StreamFails,
         StreamEnds, YieldOwed, AnswerCompleted, FinishTurn, ExecuteTools, ToolsFail,
         AfterResults, TurnEnds, Interrupt, Abandon, LastResponse, StartIteration,
         talk, vars, TypeOK
<1> QED  BY <1>1, TurnTypesAreCorrect, PTL DEF Spec, InterruptIsHonoured

\* The responses of every conversation come in the order their consumers rely on.
THEOREM TurnsImplementStreams == Spec => ImplementsResponseStream
<1> USE DEF Said, Stream!streamVars, Stream!Say
<1>1. Init => Stream!Init
  BY DEF Init, Stream!Init
<1>2. TypeOK /\ [Next]_vars => [Stream!Next]_(Stream!streamVars)
  <2> SUFFICES ASSUME TypeOK, [Next]_vars
               PROVE  Stream!Next \/ UNCHANGED Stream!streamVars
    OBVIOUS
  <2> DEFINE Types == /\ stage \in Stages /\ calls \in Nat /\ owed \in Nat
                      /\ stage \in {"closing", "result"} => owed < calls
                      /\ stage \in {"status", "answer", "interrupted", "error", "idle"} => owed = 0
  <2>0. Types
    BY TurnAssumption DEF TypeOK
  <2> USE <2>0 DEF Stages
  <2>1. CASE Begin
    BY <2>1 DEF Begin, NoTurn, Stream!Next, Stream!Ask
  <2>2. CASE BeginFails
    BY <2>2 DEF BeginFails, NoTurn, Stream!Next, Stream!Fail
  <2>3. CASE Chunk
    BY <2>3 DEF Chunk, NeedsChunk, Stream!Next, Stream!Delta
  <2>4. CASE ChunkAfterInterrupt
    BY <2>4 DEF ChunkAfterInterrupt, NeedsChunk, LastResponse, Stream!Next, Stream!Acknowledge
  <2>5. CASE StreamFails
    BY <2>5 DEF StreamFails, NeedsChunk, LastResponse, Stream!Next, Stream!Fail
  <2>6. CASE StreamEnds
    BY <2>6 DEF StreamEnds, NeedsChunk, Stream!Next, Stream!Delta, Stream!Answer
  <2>7. CASE YieldOwed
    BY <2>7 DEF YieldOwed, Stream!Next, Stream!Result
  <2>8. CASE AnswerCompleted
    BY <2>8 DEF AnswerCompleted, talk, Stream!Next, Stream!Answer
  <2>9. CASE FinishTurn
    BY <2>9 DEF FinishTurn, talk, Stream!Next, Stream!End
  <2>10. CASE ExecuteTools
    BY <2>10 DEF ExecuteTools, Stream!Next, Stream!Result
  <2>11. CASE ToolsFail
    BY <2>11 DEF ToolsFail, LastResponse, Stream!Next, Stream!Fail
  <2>12. CASE AfterResults
    BY <2>12 DEF AfterResults, StartIteration, LastResponse, Stream!Next, Stream!Ask,
                 Stream!Acknowledge, Stream!Fail
  <2>13. CASE TurnEnds
    BY <2>13 DEF TurnEnds, talk, Stream!Next, Stream!End
  <2>14. CASE Interrupt
    BY <2>14 DEF Interrupt, talk
  <2>15. CASE Abandon
    BY <2>15 DEF Abandon, NoTurn, talk, Stream!Next, Stream!Close
  <2>16. CASE UNCHANGED vars
    BY <2>16 DEF vars
  <2> QED  BY <2>1, <2>2, <2>3, <2>4, <2>5, <2>6, <2>7, <2>8, <2>9, <2>10, <2>11,
              <2>12, <2>13, <2>14, <2>15, <2>16 DEF Next, Resume
<1> QED  BY <1>1, <1>2, TurnTypesAreCorrect, PTL DEF Spec, ImplementsResponseStream, Stream!Spec
-----------------------------------------------------------------------------
(* What ChatService remembers                                              *)

\* The elements of a list's end.
LEMMA LastOfElements ==
  ASSUME NEW messages \in Seq(Message), NEW w \in 1..Len(messages)
  PROVE  /\ LastOf(messages, w) \in Seq(Message)
         /\ Len(LastOf(messages, w)) = w
         /\ \A i \in 1..w : LastOf(messages, w)[i] = messages[i + Len(messages) - w]
BY DEF LastOf

\* A message that is added to what a trim has left finds there what it would have left itself.
LEMMA TrimAgain ==
  ASSUME NEW messages \in Seq(Message), \A i \in 2..Len(messages) : messages[i] # System,
         NEW m \in Message, m # System
  PROVE  AddMessage(Trim(messages), m) = Trim(Append(messages, m))
<1> USE TurnAssumption
<1> DEFINE L == Len(messages)
           all == Append(messages, m)
           left == Trim(messages)
           more == Append(left, m)
<1>1. CASE L <= MaxHistory
  BY <1>1 DEF Trim, AddMessage
<1>2. CASE L > MaxHistory
  <2> DEFINE last == LastOf(messages, MaxHistory)
             kept == IF messages[1] = System THEN 1 ELSE 0
  <2>1. /\ last \in Seq(Message) /\ Len(last) = MaxHistory
        /\ \A i \in 1..MaxHistory : last[i] = messages[i + L - MaxHistory]
    BY <1>2 DEF LastOf
  <2>2. /\ all \in Seq(Message) /\ Len(all) = L + 1 /\ all[L + 1] = m
        /\ \A i \in 1..L : all[i] = messages[i]
    OBVIOUS
  <2>3. System \in Message
    BY DEF System, Message
  <2>4. left = (IF messages[1] = System THEN <<System>> ELSE <<>>) \o last
    BY <1>2 DEF Trim
  <2> HIDE DEF last, left
  <2>5. /\ left \in Seq(Message) /\ Len(left) = MaxHistory + kept
        /\ kept = 1 => left[1] = System
        /\ \A i \in 1..MaxHistory : left[i + kept] = last[i]
    <3>1. CASE messages[1] = System
      <4>1. <<System>> \in Seq(Message)
        BY <2>3
      <4> QED  BY <3>1, <4>1, <2>1, <2>4
    <3>2. CASE messages[1] # System
      <4>1. left = last
        BY <3>2, <2>1, <2>4
      <4> QED  BY <3>2, <4>1, <2>1
    <3> QED  BY <3>1, <3>2
  <2>6. kept \in {0, 1} /\ L \in Nat
    OBVIOUS
  <2>7. kept = 0 => left[1] # System
    <3>1. 1 + L - MaxHistory \in 2..L
      BY <1>2
    <3>2. kept = 0 => left[1] = messages[1 + L - MaxHistory]
      BY <2>1, <2>5
    <3> QED  BY <3>1, <3>2
  <2>8. /\ more \in Seq(Message) /\ Len(more) = MaxHistory + kept + 1
        /\ more[MaxHistory + kept + 1] = m
        /\ \A i \in 1..MaxHistory + kept : more[i] = left[i]
    BY <2>5, <2>6
  <2> HIDE DEF more, all
  <2>9. /\ more[1] = System <=> kept = 1
        /\ all[1] = System <=> kept = 1
    <3>1. more[1] = left[1]
      BY <2>6, <2>8
    <3>2. all[1] = messages[1]
      BY <1>2, <2>2
    <3> QED  BY <3>1, <3>2, <2>5, <2>6, <2>7
  <2>10. LastOf(more, MaxHistory) = LastOf(all, MaxHistory)
    <3> DEFINE a == LastOf(more, MaxHistory)
               b == LastOf(all, MaxHistory)
    <3>1. /\ a \in Seq(Message) /\ Len(a) = MaxHistory
          /\ \A i \in 1..MaxHistory : a[i] = more[i + Len(more) - MaxHistory]
      <4>1. MaxHistory \in 1..Len(more)
        BY <2>6, <2>8
      <4> QED  BY <2>8, <4>1, LastOfElements
    <3>2. /\ b \in Seq(Message) /\ Len(b) = MaxHistory
          /\ \A i \in 1..MaxHistory : b[i] = all[i + Len(all) - MaxHistory]
      <4>1. MaxHistory \in 1..Len(all)
        BY <1>2, <2>2
      <4> QED  BY <2>2, <4>1, LastOfElements
    <3> HIDE DEF a, b
    <3>3. ASSUME NEW i \in 1..MaxHistory PROVE a[i] = b[i]
      <4>1. a[i] = more[i + kept + 1] /\ b[i] = all[i + L + 1 - MaxHistory]
        <5>1. /\ i + Len(more) - MaxHistory = i + kept + 1
              /\ i + Len(all) - MaxHistory = i + L + 1 - MaxHistory
          BY <2>2, <2>6, <2>8
        <5> QED  BY <5>1, <3>1, <3>2
      <4>2. CASE i = MaxHistory
        <5>1. i + kept + 1 = MaxHistory + kept + 1 /\ i + L + 1 - MaxHistory = L + 1
          BY <4>2, <2>6
        <5> QED  BY <4>1, <5>1, <2>2, <2>8
      <4>3. CASE i # MaxHistory
        <5>1. /\ i + 1 \in 1..MaxHistory /\ i + kept + 1 \in 1..MaxHistory + kept
              /\ i + L + 1 - MaxHistory \in 1..L
              /\ i + kept + 1 = (i + 1) + kept
              /\ i + L + 1 - MaxHistory = (i + 1) + L - MaxHistory
          BY <4>3, <1>2, <2>6
        <5>2. more[i + kept + 1] = left[(i + 1) + kept]
          BY <5>1, <2>8
        <5>3. left[(i + 1) + kept] = last[i + 1]
          BY <5>1, <2>5
        <5>4. last[i + 1] = messages[(i + 1) + L - MaxHistory]
          BY <5>1, <2>1
        <5>5. all[i + L + 1 - MaxHistory] = messages[i + L + 1 - MaxHistory]
          BY <5>1, <2>2
        <5> QED  BY <4>1, <5>1, <5>2, <5>3, <5>4, <5>5
      <4> QED  BY <4>2, <4>3
    <3>4. a = b
      BY <3>1, <3>2, <3>3, SeqEqual
    <3> QED  BY <3>4 DEF a, b
  <2>11. Len(more) > MaxHistory /\ Len(all) > MaxHistory
    BY <1>2, <2>2, <2>6, <2>8
  <2>12. Trim(more) = Trim(all)
    BY <2>9, <2>10, <2>11 DEF Trim
  <2> QED  BY <2>12 DEF AddMessage, more, all, left
<1> QED  BY <1>1, <1>2

\* However many messages are added, trimming after each leaves what one trim at the end would.
LEMMA AddingIsTrimmed ==
  ASSUME NEW messages \in Seq(Message), \A i \in 2..Len(messages) : messages[i] # System,
         NEW more \in Seq(Message), more # <<>>,
         \A i \in 1..Len(more) : more[i] # System
  PROVE  AddMessages(messages, more) = Trim(messages \o more)
<1> DEFINE N == Len(more)
           L == Len(messages)
           upTo(n) == messages \o SubSeq(more, 1, n)
<1>1. PICK f : AddedBy(f, messages, more) /\ AddMessages(messages, more) = f[N]
  BY AddedOneByOne
<1>2. N \in Nat /\ N # 0 /\ L \in Nat
  BY EmptySeq
<1>3. /\ f[0] = messages /\ \A n \in 0..N : f[n] \in Seq(Message)
      /\ \A n \in 1..N : f[n] = AddMessage(f[n - 1], more[n])
  BY <1>1 DEF AddedBy
<1>4. ASSUME NEW n \in 0..N
      PROVE  /\ upTo(n) \in Seq(Message) /\ Len(upTo(n)) = L + n
             /\ \A i \in 1..L : upTo(n)[i] = messages[i]
             /\ \A i \in 1..n : upTo(n)[L + i] = more[i]
  <2> DEFINE part == SubSeq(more, 1, n)
  <2>1. /\ part \in Seq(Message) /\ Len(part) = n
        /\ \A i \in 1..n : part[i] = more[i]
    OBVIOUS
  <2> HIDE DEF part
  <2>2. /\ messages \o part \in Seq(Message) /\ Len(messages \o part) = L + n
        /\ \A i \in 1..L : (messages \o part)[i] = messages[i]
        /\ \A i \in 1..n : (messages \o part)[L + i] = part[i]
    <3>1. /\ messages \o part \in Seq(Message) /\ Len(messages \o part) = L + Len(part)
          /\ \A i \in 1..L + Len(part) :
               (messages \o part)[i] = IF i <= L THEN messages[i] ELSE part[i - L]
      BY <2>1, ConcatProperties
    <3>2. \A i \in 1..n : L + i \in 1..L + n /\ ~(L + i <= L) /\ (L + i) - L = i
      BY <1>2
    <3>3. \A i \in 1..L : i \in 1..L + n /\ i <= L
      BY <1>2
    <3> QED  BY <2>1, <3>1, <3>2, <3>3
  <2> QED  BY <2>1, <2>2 DEF part
<1> HIDE DEF upTo
<1>5. ASSUME NEW n \in 1..N PROVE upTo(n) = Append(upTo(n - 1), more[n])
  <2> DEFINE x == upTo(n)
             y == upTo(n - 1)
             z == Append(y, more[n])
  <2>1. n - 1 \in 0..N /\ n \in 0..N /\ more[n] \in Message
    BY <1>2
  <2>2. /\ x \in Seq(Message) /\ Len(x) = L + n
        /\ \A i \in 1..L : x[i] = messages[i]
        /\ \A i \in 1..n : x[L + i] = more[i]
    BY <2>1, <1>4
  <2>3. /\ y \in Seq(Message) /\ Len(y) = L + (n - 1)
        /\ \A i \in 1..L : y[i] = messages[i]
        /\ \A i \in 1..n - 1 : y[L + i] = more[i]
    BY <2>1, <1>4
  <2> HIDE DEF x, y
  <2>4. /\ z \in Seq(Message) /\ Len(z) = L + n /\ z[L + n] = more[n]
        /\ \A i \in 1..L + (n - 1) : z[i] = y[i]
    BY <2>1, <2>3, <1>2
  <2> HIDE DEF z
  <2>5. ASSUME NEW i \in 1..L + n PROVE x[i] = z[i]
    <3>1. CASE i \in 1..L
      <4>1. i \in 1..L + (n - 1)
        BY <3>1, <1>2
      <4>2. x[i] = messages[i] /\ y[i] = messages[i]
        BY <3>1, <2>2, <2>3
      <4>3. z[i] = y[i]
        BY <4>1, <2>4
      <4> QED  BY <4>2, <4>3
    <3>2. CASE i \notin 1..L
      <4> DEFINE k == i - L
      <4>1. k \in 1..n /\ i = L + k
        BY <3>2, <1>2
      <4> HIDE DEF k
      <4>2. CASE k = n
        BY <4>1, <4>2, <2>2, <2>4
      <4>3. CASE k # n
        <5>1. k \in 1..n - 1 /\ i \in 1..L + (n - 1)
          BY <4>1, <4>3, <1>2
        <5> QED  BY <4>1, <5>1, <2>2, <2>3, <2>4
      <4> QED  BY <4>2, <4>3
    <3> QED  BY <3>1, <3>2
  <2>6. x = z
    BY <2>2, <2>4, <2>5, SeqEqual
  <2> QED  BY <2>6 DEF x, y, z
<1>6. ASSUME NEW n \in 0..N PROVE \A i \in 2..Len(upTo(n)) : upTo(n)[i] # System
  <2> SUFFICES ASSUME NEW i \in 2..Len(upTo(n)) PROVE upTo(n)[i] # System
    OBVIOUS
  <2>1. i \in 2..L \/ (i - L \in 1..n /\ i - L \in 1..N /\ i = L + (i - L))
    BY <1>2, <1>4
  <2>2. CASE i \in 2..L
    <3>1. i \in 1..L
      BY <2>2
    <3> QED  BY <3>1, <2>2, <1>4
  <2>3. CASE i - L \in 1..n /\ i - L \in 1..N /\ i = L + (i - L)
    <3>1. upTo(n)[L + (i - L)] = more[i - L]
      BY <2>3, <1>4
    <3> QED  BY <3>1, <2>3
  <2> QED  BY <2>1, <2>2, <2>3
<1>7. upTo(0) = messages
  <2>1. /\ upTo(0) \in Seq(Message) /\ Len(upTo(0)) = L
        /\ \A i \in 1..L : upTo(0)[i] = messages[i]
    BY <1>2, <1>4
  <2> QED  BY <2>1, SeqEqual
<1> DEFINE G == {n \in 0..N : n # 0 => f[n] = Trim(upTo(n))}
<1>8. 0 \in G
  BY <1>2
<1>9. ASSUME NEW n \in 1..N, n - 1 \in G PROVE n \in G
  <2>1. /\ n - 1 \in 0..N /\ n \in 0..N /\ more[n] \in Message /\ more[n] # System
        /\ f[n] = AddMessage(f[n - 1], more[n])
    BY <1>2, <1>3
  <2>2. f[n] = Trim(Append(upTo(n - 1), more[n]))
    <3>1. CASE n - 1 = 0
      BY <3>1, <2>1, <1>3, <1>7 DEF AddMessage
    <3>2. CASE n - 1 # 0
      <4>1. f[n - 1] = Trim(upTo(n - 1))
        BY <3>2, <1>9
      <4>2. upTo(n - 1) \in Seq(Message)
        BY <2>1, <1>4
      <4>3. \A i \in 2..Len(upTo(n - 1)) : upTo(n - 1)[i] # System
        BY <2>1, <1>6
      <4> QED  BY <2>1, <4>1, <4>2, <4>3, TrimAgain
    <3> QED  BY <3>1, <3>2
  <2>3. f[n] = Trim(upTo(n))
    BY <2>2, <1>5
  <2> QED  BY <2>1, <2>3
<1>10. N \in G
  <2>1. N \in 0..N
    BY <1>2
  <2> HIDE DEF G
  <2> QED  BY <2>1, <1>2, <1>8, <1>9, Counting
<1>11. f[N] = Trim(upTo(N))
  BY <1>10, <1>2
<1>12. SubSeq(more, 1, N) = more
  OBVIOUS
<1> QED  BY <1>1, <1>11, <1>12 DEF upTo

\* A conversation stays bounded, and its prompt in place, whatever is added.
LEMMA RememberKeepsBound ==
  ASSUME TypeOK, HistoryIsBounded,
         NEW more \in Seq(Message), \A i \in 1..Len(more) : more[i] # System,
         more # <<>>, Remember(more)
  PROVE  HistoryIsBounded' /\ history' = Trim(history \o more)
<1> USE TurnAssumption
<1> DEFINE all == history \o more
<1>1. /\ all \in Seq(Message)
      /\ \A i \in 2..Len(all) : all[i] # System
      /\ Prompt => Len(all) > 0 /\ all[1] = System
  BY DEF TypeOK, HistoryIsBounded
<1>2. history' = Trim(all)
  BY AddingIsTrimmed DEF Remember, TypeOK, HistoryIsBounded
<1> HIDE DEF all
<1>3. ASSUME Len(all) <= MaxHistory PROVE HistoryIsBounded'
  BY <1>1, <1>2, <1>3 DEF Trim, HistoryIsBounded
<1>4. ASSUME Len(all) > MaxHistory PROVE HistoryIsBounded'
  <2>1. PICK kept \in {0, 1}, cut \in Nat :
           IsSuffix(history', all, kept, cut)
    BY <1>1, <1>2, <1>4, TrimIsSuffix
  <2>2. \A i \in 2..Len(history') : history'[i] # System
    <3> SUFFICES ASSUME NEW i \in 2..Len(history') PROVE history'[i] # System
      OBVIOUS
    <3>1. i \in (kept + 1)..(MaxHistory + kept) /\ i + cut \in 2..Len(all)
      BY <2>1 DEF IsSuffix
    <3> QED  BY <1>1, <2>1, <3>1 DEF IsSuffix
  <2> QED  BY <1>1, <2>1, <2>2 DEF HistoryIsBounded, IsSuffix
<1> QED  BY <1>1, <1>2, <1>3, <1>4 DEF all

LEMMA CallsAreCounted ==
  \A messages \in Seq(Message) : \A i \in 1..Len(messages) : messages[i].calls \in Nat
<1>1. \A m \in Message : m.calls \in Nat
  BY DEF Message
<1> QED  BY <1>1

\* AnswersAreWhole at one answer, with the place behind its results named.
LEMMA WholeAt ==
  ASSUME NEW messages, AnswersAreWhole(messages),
         NEW j \in 1..Len(messages), messages[j].role = "assistant",
         NEW next, next = j + messages[j].calls + 1
  PROVE  /\ next <= Len(messages) + 1
         /\ \A k \in (j + 1)..(next - 1) : messages[k] = Tool
         /\ next <= Len(messages) => messages[next] # Tool
  BY DEF AnswersAreWhole

\* Trimming cuts at the front only: no remembered answer loses a result.
LEMMA TrimKeepsAnswers ==
  ASSUME NEW messages \in Seq(Message), AnswersAreWhole(messages)
  PROVE  AnswersAreWhole(Trim(messages))
<1> USE TurnAssumption
<1>1. CASE Len(messages) <= MaxHistory
  BY <1>1 DEF Trim
<1>2. CASE Len(messages) > MaxHistory
  <2> DEFINE left == Trim(messages)
  <2>1. PICK kept \in {0, 1}, cut \in Nat : IsSuffix(left, messages, kept, cut)
    BY <1>2, TrimIsSuffix
  <2> USE DEF IsSuffix
  <2> HIDE DEF left
  <2> SUFFICES ASSUME NEW i \in 1..Len(left), left[i].role = "assistant"
               PROVE  LET next == i + left[i].calls + 1
                      IN  /\ next <= Len(left) + 1
                          /\ \A k \in (i + 1)..(next - 1) : left[k] = Tool
                          /\ next <= Len(left) => left[next] # Tool
    BY DEF AnswersAreWhole, left
  <2> DEFINE next == i + left[i].calls + 1
  <2>2. i > kept
    BY <2>1 DEF System
  <2>3. /\ left[i] = messages[i + cut]
        /\ i + cut \in 1..Len(messages)
        /\ left[i].calls \in Nat
    BY <2>1, <2>2, CallsAreCounted
  <2>4. /\ next \in Nat /\ next > i
        /\ next + cut <= Len(messages) + 1
        /\ \A k \in (i + cut + 1)..(next + cut - 1) : messages[k] = Tool
        /\ next + cut <= Len(messages) => messages[next + cut] # Tool
    <3> DEFINE j == i + cut
               behind == next + cut
    <3> HIDE DEF left, IsSuffix
    <3>1. next \in Nat /\ next > i
      BY <2>3
    <3>2. /\ j \in 1..Len(messages)
          /\ messages[j].role = "assistant"
          /\ behind = j + messages[j].calls + 1
      <4>1. messages[j] = left[i] /\ j \in 1..Len(messages)
        BY <2>3
      <4>2. behind = j + left[i].calls + 1
        BY <2>3
      <4> HIDE DEF next, j, behind
      <4> QED  BY <4>1, <4>2
    <3> HIDE DEF next, j, behind
    <3>3. /\ behind <= Len(messages) + 1
          /\ \A k \in (j + 1)..(behind - 1) : messages[k] = Tool
          /\ behind <= Len(messages) => messages[behind] # Tool
      BY <3>2, WholeAt
    <3> QED  BY <3>1, <3>3 DEF j, behind
  <2> HIDE DEF next
  <2>5. next <= Len(left) + 1
    BY <2>1, <2>4
  <2>6. ASSUME NEW k \in (i + 1)..(next - 1) PROVE left[k] = Tool
    <3>1. /\ k \in (kept + 1)..(MaxHistory + kept)
          /\ k + cut \in (i + cut + 1)..(next + cut - 1)
      BY <2>1, <2>2, <2>4, <2>5
    <3> QED  BY <2>1, <2>4, <3>1
  <2>7. ASSUME next <= Len(left) PROVE left[next] # Tool
    <3>1. /\ next \in (kept + 1)..(MaxHistory + kept)
          /\ next + cut <= Len(messages)
      BY <2>1, <2>2, <2>4, <2>7
    <3> QED  BY <2>1, <2>4, <3>1
  <2> QED  BY <2>5, <2>6, <2>7 DEF next
<1> QED  BY <1>1, <1>2

\* What follows a list of whole answers, if it is a message that is no result.
LEMMA AppendKeepsAnswers ==
  ASSUME NEW messages \in Seq(Message), AnswersAreWhole(messages),
         NEW m \in {User, Assistant(0)}
  PROVE  AnswersAreWhole(messages \o <<m>>)
<1> DEFINE all == messages \o <<m>>
<1>1. /\ m \in Message /\ m # Tool
      /\ m.role = "assistant" => m.calls = 0
  BY DEF User, Assistant, Tool, Message
<1>2. /\ Len(all) = Len(messages) + 1
      /\ \A i \in 1..Len(messages) : all[i] = messages[i]
      /\ all[Len(all)] = m
  BY <1>1
<1>3. \A i \in 1..Len(messages) : messages[i].calls \in Nat
  BY CallsAreCounted
<1> HIDE DEF all
<1> SUFFICES ASSUME NEW i \in 1..Len(all), all[i].role = "assistant"
             PROVE  LET next == i + all[i].calls + 1
                    IN  /\ next <= Len(all) + 1
                        /\ \A k \in (i + 1)..(next - 1) : all[k] = Tool
                        /\ next <= Len(all) => all[next] # Tool
  BY DEF AnswersAreWhole, all
<1>4. CASE i <= Len(messages)
  <2> DEFINE next == i + messages[i].calls + 1
  <2>1. /\ next \in Nat
        /\ next <= Len(messages) + 1
        /\ \A k \in (i + 1)..(next - 1) : messages[k] = Tool
        /\ next <= Len(messages) => messages[next] # Tool
    BY <1>2, <1>3, <1>4 DEF AnswersAreWhole
  <2>2. next = i + all[i].calls + 1
    BY <1>2, <1>4
  <2> HIDE DEF next
  <2>3. next <= Len(all) + 1
    BY <1>2, <2>1
  <2>4. ASSUME NEW k \in (i + 1)..(next - 1) PROVE all[k] = Tool
    <3>1. k \in 1..Len(messages)
      BY <2>1
    <3> QED  BY <1>2, <2>1, <3>1
  <2>5. ASSUME next <= Len(all) PROVE all[next] # Tool
    <3>1. CASE next <= Len(messages)
      <4>1. next \in 1..Len(messages)
        BY <2>1, <3>1, <1>3, <1>4 DEF next
      <4> QED  BY <1>2, <2>1, <3>1, <4>1
    <3>2. CASE next = Len(messages) + 1
      BY <1>1, <1>2, <3>2
    <3> QED  BY <2>1, <3>1, <3>2
  <2> QED  BY <2>2, <2>3, <2>4, <2>5
<1>5. CASE i = Len(all)
  BY <1>1, <1>2, <1>5
<1> QED  BY <1>2, <1>4, <1>5

LEMMA GroupKeepsAnswers ==
  ASSUME NEW messages \in Seq(Message), AnswersAreWhole(messages), NEW n \in Nat
  PROVE  AnswersAreWhole(messages \o ToolGroup(n))
<1> DEFINE all == messages \o ToolGroup(n)
<1>1. /\ Len(all) = Len(messages) + n + 1
      /\ \A i \in 1..Len(messages) : all[i] = messages[i]
      /\ all[Len(messages) + 1] = Assistant(n)
      /\ \A i \in (Len(messages) + 2)..Len(all) : all[i] = Tool
  <2> DEFINE group == ToolGroup(n)
  <2>1. /\ group \in Seq(Message) /\ Len(group) = n + 1 /\ group[1] = Assistant(n)
        /\ \A i \in 2..(n + 1) : group[i] = Tool
    BY MessagesAreTyped
  <2> HIDE DEF group
  <2>2. /\ Len(messages \o group) = Len(messages) + n + 1
        /\ \A i \in 1..Len(messages) : (messages \o group)[i] = messages[i]
        /\ \A i \in (Len(messages) + 1)..(Len(messages) + n + 1) :
             (messages \o group)[i] = group[i - Len(messages)]
    BY <2>1
  <2> QED  BY <2>1, <2>2 DEF group
<1>2. /\ Assistant(n) # Tool /\ Assistant(n).calls = n /\ Tool.role # "assistant"
  BY DEF Assistant, Tool
<1>3. \A i \in 1..Len(messages) : messages[i].calls \in Nat
  BY CallsAreCounted
<1> HIDE DEF all
<1> SUFFICES ASSUME NEW i \in 1..Len(all), all[i].role = "assistant"
             PROVE  LET next == i + all[i].calls + 1
                    IN  /\ next <= Len(all) + 1
                        /\ \A k \in (i + 1)..(next - 1) : all[k] = Tool
                        /\ next <= Len(all) => all[next] # Tool
  BY DEF AnswersAreWhole, all
<1>4. CASE i <= Len(messages)
  <2> DEFINE next == i + messages[i].calls + 1
  <2>1. /\ next \in Nat
        /\ next <= Len(messages) + 1
        /\ \A k \in (i + 1)..(next - 1) : messages[k] = Tool
        /\ next <= Len(messages) => messages[next] # Tool
    <3>1. i \in 1..Len(messages) /\ messages[i].role = "assistant"
      BY <1>1, <1>4
    <3>2. next \in Nat /\ next = i + messages[i].calls + 1
      BY <1>3, <3>1
    <3> HIDE DEF next
    <3> QED  BY <3>1, <3>2, WholeAt
  <2>2. next = i + all[i].calls + 1
    BY <1>1, <1>4
  <2> HIDE DEF next
  <2>3. next <= Len(all) + 1
    BY <1>1, <2>1
  <2>4. ASSUME NEW k \in (i + 1)..(next - 1) PROVE all[k] = Tool
    <3>1. k \in 1..Len(messages)
      BY <2>1
    <3> QED  BY <1>1, <2>1, <3>1
  <2>5. ASSUME next <= Len(all) PROVE all[next] # Tool
    <3>1. CASE next <= Len(messages)
      <4>1. next \in 1..Len(messages)
        BY <2>1, <3>1, <1>3, <1>4 DEF next
      <4> QED  BY <1>1, <2>1, <3>1, <4>1
    <3>2. CASE next = Len(messages) + 1
      BY <1>1, <1>2, <3>2
    <3> QED  BY <2>1, <3>1, <3>2
  <2> QED  BY <2>2, <2>3, <2>4, <2>5
<1>5. CASE i = Len(messages) + 1
  BY <1>1, <1>2, <1>5
<1>6. CASE i > Len(messages) + 1
  BY <1>1, <1>2, <1>6
<1> QED  BY <1>4, <1>5, <1>6

\* Trimming keeps the latest messages, as many as the limit allows.
LEMMA TrimKeepsLatest ==
  ASSUME NEW messages \in Seq(Message),
         NEW w \in 1..Len(messages), w <= MaxHistory
  PROVE  /\ Len(Trim(messages)) >= w
         /\ LastOf(Trim(messages), w) = LastOf(messages, w)
<1> USE TurnAssumption
<1> DEFINE left == Trim(messages)
<1>1. CASE Len(messages) <= MaxHistory
  BY <1>1 DEF Trim
<1>2. CASE Len(messages) > MaxHistory
  <2>1. PICK kept \in {0, 1}, cut \in Nat : IsSuffix(left, messages, kept, cut)
    BY <1>2, TrimIsSuffix
  <2> HIDE DEF left
  <2>2. /\ left \in Seq(Message) /\ w \in 1..Len(left)
        /\ Len(messages) = Len(left) + cut
    BY <2>1 DEF IsSuffix
  <2>3. ASSUME NEW i \in 1..w
        PROVE  LastOf(left, w)[i] = LastOf(messages, w)[i]
    <3>1. i + Len(left) - w \in (kept + 1)..(MaxHistory + kept)
      BY <2>1, <2>2 DEF IsSuffix
    <3>2. left[i + Len(left) - w] = messages[i + Len(messages) - w]
      BY <2>1, <2>2, <3>1 DEF IsSuffix
    <3> QED  BY <2>2, <3>2, LastOfElements
  <2>4. /\ LastOf(left, w) \in Seq(Message) /\ Len(LastOf(left, w)) = w
        /\ LastOf(messages, w) \in Seq(Message) /\ Len(LastOf(messages, w)) = w
    BY <2>2, LastOfElements
  <2> HIDE DEF IsSuffix
  <2>5. LastOf(left, w) = LastOf(messages, w)
    BY <2>3, <2>4
  <2> QED  BY <2>2, <2>5 DEF left
<1> QED  BY <1>1, <1>2

\* The latest of a concatenation are the latest of its second part.
LEMMA LatestOfBoth ==
  ASSUME NEW first \in Seq(Message), NEW second \in Seq(Message),
         NEW w \in 1..Len(second)
  PROVE  LastOf(first \o second, w) = LastOf(second, w)
<1> DEFINE both == first \o second
<1>1. /\ both \in Seq(Message) /\ Len(both) = Len(first) + Len(second)
      /\ \A i \in 1..Len(second) : both[i + Len(first)] = second[i]
  OBVIOUS
<1> HIDE DEF both
<1>2. w \in 1..Len(both)
  BY <1>1
<1>3. ASSUME NEW i \in 1..w PROVE LastOf(both, w)[i] = LastOf(second, w)[i]
  <2> DEFINE place == i + Len(second) - w
  <2>0. Len(first) \in Nat /\ Len(second) \in Nat
    OBVIOUS
  <2>1. i + Len(both) - w = place + Len(first)
    BY <1>1, <2>0
  <2>2. place \in 1..Len(second)
    BY <2>0
  <2>3. LastOf(both, w)[i] = both[place + Len(first)]
    <3>1. LastOf(both, w)[i] = both[i + Len(both) - w]
      BY <1>1, <1>2, LastOfElements
    <3> QED  BY <2>1, <3>1
  <2>4. LastOf(second, w)[i] = second[place]
    BY LastOfElements
  <2> HIDE DEF place
  <2> QED  BY <1>1, <2>2, <2>3, <2>4
<1>4. /\ LastOf(both, w) \in Seq(Message) /\ Len(LastOf(both, w)) = w
      /\ LastOf(second, w) \in Seq(Message) /\ Len(LastOf(second, w)) = w
  BY <1>1, <1>2, LastOfElements
<1>5. LastOf(both, w) = LastOf(second, w)
  BY <1>3, <1>4
<1> QED  BY <1>5 DEF both

\* The conversation's invariant: it is bounded, its answers are whole, and what is
\* shown of it is in it.  TypeOK makes it inductive: calls is a number, and owed
\* tells the results stage from the others.
HistoryInv == HistoryIsBounded /\ CallsAreAnswered /\ ShownResultsAreRemembered

LEMMA HistoryInvHolds == Spec => []HistoryInv
<1>1. Init => HistoryInv
  <2> SUFFICES ASSUME Init PROVE HistoryInv
    OBVIOUS
  <2>1. history = <<System>> \/ (history = <<>> /\ ~Prompt)
    BY TurnAssumption DEF Init
  <2>2. HistoryIsBounded
    BY <2>1, TurnAssumption DEF HistoryIsBounded
  <2>3. CallsAreAnswered
    BY <2>1 DEF CallsAreAnswered, AnswersAreWhole, System
  <2> QED  BY <2>2, <2>3 DEF HistoryInv, ShownResultsAreRemembered, Init
<1>2. TypeOK /\ TypeOK' /\ HistoryInv /\ [Next]_vars => HistoryInv'
  <2> SUFFICES ASSUME TypeOK, TypeOK', HistoryInv, [Next]_vars PROVE HistoryInv'
    OBVIOUS
  <2> USE TurnAssumption
  <2>0. history \in Seq(Message) /\ calls \in Nat
    BY DEF TypeOK
  \* A step that remembers nothing, and shows no result for the first time.
  <2>1. ASSUME UNCHANGED history, stage' = "result" => stage = "result" /\ calls' = calls
        PROVE  HistoryInv'
    BY <2>1 DEF HistoryInv, HistoryIsBounded, CallsAreAnswered, ShownResultsAreRemembered
  \* A step that remembers one message
  <2>2. ASSUME NEW m \in {User, Assistant(0)}, Remember(<<m>>), stage' # "result"
        PROVE  HistoryInv'
    <3>1. <<m>> \in Seq(Message) /\ m # System
      BY MessagesAreTyped DEF User, Assistant, System
    <3>2. HistoryIsBounded' /\ history' = Trim(history \o <<m>>)
      <4>1. <<m>> # <<>> /\ \A i \in 1..Len(<<m>>) : <<m>>[i] # System
        BY <3>1
      <4> QED  BY <2>2, <3>1, <4>1, RememberKeepsBound DEF HistoryInv
    <3>3. AnswersAreWhole(history \o <<m>>) /\ history \o <<m>> \in Seq(Message)
      BY <2>0, <3>1, AppendKeepsAnswers DEF HistoryInv, CallsAreAnswered
    <3>4. CallsAreAnswered'
      BY <3>2, <3>3, TrimKeepsAnswers DEF CallsAreAnswered
    <3> QED  BY <2>2, <3>2, <3>4 DEF HistoryInv, ShownResultsAreRemembered
  <2>3. CASE Begin
    BY <2>2, <2>3 DEF Begin
  <2>4. CASE FinishTurn
    BY <2>2, <2>4 DEF FinishTurn
  <2>5. CASE ExecuteTools
    <3> DEFINE group == ToolGroup(calls)
               all == history \o group
    <3>1. Remember(group) /\ calls > 0 /\ calls' = calls
      BY <2>5 DEF ExecuteTools
    <3>2. /\ group \in Seq(Message) /\ Len(group) = calls + 1
          /\ all \in Seq(Message) /\ Len(all) = Len(history) + calls + 1
      <4>1. group \in Seq(Message) /\ Len(group) = calls + 1
        BY <2>0, MessagesAreTyped
      <4> HIDE DEF group
      <4> QED  BY <2>0, <4>1
    <3>3. \A i \in 1..Len(group) : group[i] # System
      <4>1. group[1] = Assistant(calls) /\ \A i \in 2..(calls + 1) : group[i] = Tool
        BY <2>0, MessagesAreTyped
      <4>2. Assistant(calls) # System /\ Tool # System
        BY DEF Assistant, Tool, System
      <4> HIDE DEF group
      <4> QED  BY <2>0, <3>2, <4>1, <4>2
    <3>4. HistoryIsBounded' /\ history' = Trim(all)
      <4> HIDE DEF group
      <4>1. group # <<>>
        BY <2>0, <3>2
      <4> QED  BY <3>1, <3>2, <3>3, <4>1, RememberKeepsBound DEF HistoryInv
    <3>5. CallsAreAnswered'
      <4>1. AnswersAreWhole(all)
        BY <2>0, GroupKeepsAnswers DEF HistoryInv, CallsAreAnswered
      <4> QED  BY <3>2, <3>4, <4>1, TrimKeepsAnswers DEF CallsAreAnswered
    <3>6. ShownResultsAreRemembered'
      <4> DEFINE w == IF calls + 1 < MaxHistory THEN calls + 1 ELSE MaxHistory
      <4>1. w \in 1..Len(group) /\ w \in 1..Len(all) /\ w <= MaxHistory
        BY <2>0, <3>1, <3>2
      <4>2. history' = Trim(all)
        BY <3>4
      <4> HIDE DEF w, group
      <4>3. Len(history') >= w /\ LastOf(history', w) = LastOf(all, w)
        BY <3>2, <4>1, <4>2, TrimKeepsLatest
      <4>4. LastOf(all, w) = LastOf(group, w)
        BY <2>0, <3>2, <4>1, LatestOfBoth
      <4> QED  BY <3>1, <4>3, <4>4 DEF ShownResultsAreRemembered, w, group
    <3> QED  BY <3>4, <3>5, <3>6 DEF HistoryInv
  <2>6. CASE BeginFails
    BY <2>1, <2>6 DEF BeginFails
  <2>7. CASE Chunk \/ ChunkAfterInterrupt \/ StreamFails \/ StreamEnds
    BY <2>1, <2>7 DEF Chunk, ChunkAfterInterrupt, StreamFails, StreamEnds, NeedsChunk,
                      LastResponse
  <2>8. CASE YieldOwed \/ AnswerCompleted \/ ToolsFail \/ AfterResults \/ TurnEnds
    BY <2>1, <2>8 DEF YieldOwed, AnswerCompleted, ToolsFail, AfterResults, TurnEnds,
                      StartIteration, LastResponse, talk
  <2>9. CASE Interrupt \/ Abandon \/ UNCHANGED vars
    BY <2>1, <2>9 DEF Interrupt, Abandon, talk, vars
  <2> QED  BY <2>3, <2>4, <2>5, <2>6, <2>7, <2>8, <2>9 DEF Next, Resume
<1> QED  BY <1>1, <1>2, TurnTypesAreCorrect, PTL DEF Spec

\* However long it gets, what is sent to the model is bounded and begins with the prompt.
THEOREM HistoriesAreBounded == Spec => []HistoryIsBounded
BY HistoryInvHolds, PTL DEF HistoryInv

\* No failure, interrupt, abandoned turn or trimming parts a call from its result.
THEOREM AnswersStayWhole == Spec => []CallsAreAnswered
BY HistoryInvHolds, PTL DEF HistoryInv

\* A consumer that stops at a result it is shown loses none of the commands that ran.
THEOREM ResultsAreRememberedFirst == Spec => []ShownResultsAreRemembered
BY HistoryInvHolds, PTL DEF HistoryInv

\* Whatever is added at any time, trimming after each message, as the code does, leaves what
\* one trim at the end would: the limit cuts by what is newest, not by how it came.
THEOREM OneTrimIsEnough ==
  Spec => [](\A more \in Seq(Message) :
               more # <<>> /\ (\A i \in 1..Len(more) : more[i] # System) =>
                 AddMessages(history, more) = Trim(history \o more))
<1> DEFINE Enough == \A more \in Seq(Message) :
                       more # <<>> /\ (\A i \in 1..Len(more) : more[i] # System) =>
                         AddMessages(history, more) = Trim(history \o more)
<1>1. TypeOK /\ HistoryInv => Enough
  BY AddingIsTrimmed DEF TypeOK, HistoryInv, HistoryIsBounded
<1> QED  BY <1>1, HistoryInvHolds, TurnTypesAreCorrect, PTL
=============================================================================
