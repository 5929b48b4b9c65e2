--------------------------- MODULE ResponseStream ---------------------------
(***************************************************************************)
(* What the consumer of one agent.chat generator may rely on: the order of *)
(* the responses it is given, whatever the model, the tools and the user   *)
(* do.  An answer announces the tool calls it makes; each is answered by   *)
(* one result before the model is asked again; an acknowledged interrupt   *)
(* or an error is the last response of the stream.                         *)
(***************************************************************************)
EXTENDS Naturals

VARIABLES
  said,       \* the kind of the latest response; "nothing" when the stream ended
              \* by itself, "closed" when its consumer closed it
  announced,  \* tool calls announced by the answer being carried out
  answered    \* how many of them have had their result

streamVars == <<said, announced, answered>>

Init == said = "nothing" /\ announced = 0 /\ answered = 0

Say(kind) == said' = kind /\ announced' = 0 /\ answered' = 0

\* The model is asked when a stream begins, and again after the last result.
Ask ==
  /\ said \in {"nothing", "closed"} \/ (said = "result" /\ answered = announced)
  /\ Say("status")

Delta == said \in {"status", "delta"} /\ Say("delta")

Answer ==
  /\ said \in {"status", "delta"}
  /\ said' = "answer" /\ announced' \in Nat /\ answered' = 0

Result ==
  /\ said \in {"answer", "result"}
  /\ answered < announced
  /\ said' = "result" /\ answered' = answered + 1
  /\ UNCHANGED announced

\* An interrupt is acknowledged while the model talks or after all results.
Acknowledge ==
  /\ said \in {"status", "delta"} \/ (said = "result" /\ answered = announced)
  /\ Say("interrupted")

Fail ==
  /\ \/ said \in {"nothing", "closed", "status", "delta"}
     \/ said = "answer" /\ announced > 0
     \/ said = "result" /\ answered = announced
  /\ Say("error")

\* A stream ends by itself only when nothing is owed.
End ==
  /\ said \in {"interrupted", "error"} \/ (said = "answer" /\ announced = 0)
  /\ Say("nothing")

\* The consumer closes the generator, at any response.
Close == said \notin {"nothing", "closed"} /\ Say("closed")

Next == Ask \/ Delta \/ Answer \/ Result \/ Acknowledge \/ Fail \/ End \/ Close

Spec == Init /\ [][Next]_streamVars
=============================================================================
