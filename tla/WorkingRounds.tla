---------------------------- MODULE WorkingRounds ----------------------------
(***************************************************************************)
(* The working memory: WorkingMemoryStore keeps the last rounds of a       *)
(* conversation in a file that it parses, changes and writes anew at each  *)
(* operation.                                                              *)
(*                                                                         *)
(* The title of the file is parsed as a round of its own, which is empty;  *)
(* an empty round is written as a bare marker and is not there when the    *)
(* file is parsed again; of a text the first line is read back.            *)
(***************************************************************************)
EXTENDS Integers, Sequences, SequencesExt, Loops

CONSTANTS
  MaxRounds,  \* WorkingMemoryStore.max_rounds
  MaxAdded    \* bound: rounds added

ASSUME RoundsAssumption == MaxRounds \in Nat \ {0} /\ MaxAdded \in Nat

VARIABLES
  file,   \* the rounds written, [number, text]
  titled, \* the file has its title (it is not missing or blank)
  added,  \* history: the rounds added, since the memory was cleared
  owed    \* history: those among them that no limit has cut off

roundVars == <<file, titled, added, owed>>

Texts == {"line", "lines", "code"}
Round(number, text) == [number |-> number, text |-> text]
Empty == Round(0, "none")

RoundsInit == file = <<>> /\ titled \in BOOLEAN /\ added = <<>> /\ owed = <<>>

\* _filter_code_blocks
Filtered(round) == IF round.text = "code" THEN Empty ELSE round

\* RoundEntry.to_markdown and from_markdown
ReadBack(round) == IF round.text = "lines" THEN [round EXCEPT !.text = "line"] ELSE round

\* The rounds that are more than a marker.
Marked(rounds) == Keeping(rounds, {i \in 1..Len(rounds) : rounds[i] # Empty})

\* _parse_rounds
ParseRounds ==
  LET marked == Marked(file)
  IN  (IF titled THEN <<Empty>> ELSE <<>>) \o [i \in 1..Len(marked) |-> ReadBack(marked[i])]

WriteRounds(rounds) == file' = rounds /\ titled' = TRUE

\* Mutant: the list is cut before the round is appended.
Newest_OneMore(rounds, n) ==
  IF Len(rounds) <= n THEN rounds ELSE SubSeq(rounds, Len(rounds) - n, Len(rounds))
\* rounds[-n:]; with n = 0 all of them.
Newest(rounds, n) ==
  IF n = 0 \/ Len(rounds) <= n THEN rounds
  ELSE SubSeq(rounds, Len(rounds) - n + 1, Len(rounds))

AddRound(text) ==
  /\ Len(added) < MaxAdded
  /\ LET round == Round(Len(added) + 1, text) IN
       /\ added' = Append(added, Filtered(round))
       /\ owed' = Newest(Append(owed, Filtered(round)), MaxRounds)
       /\ WriteRounds(Newest(Append(ParseRounds, Filtered(round)), MaxRounds))

\* trim_to_max_rounds: nothing is written when there are few enough, the title included.
TrimToMaxRounds(n) ==
  IF Len(ParseRounds) > n
  THEN /\ WriteRounds(Newest(ParseRounds, n))
       /\ owed' = Newest(owed, n)
       /\ UNCHANGED added
  ELSE UNCHANGED roundVars

ClearRounds ==
  /\ file' = <<>> /\ titled' = TRUE
  /\ added' = <<>> /\ owed' = <<>>

RoundsNext ==
  \/ \E text \in Texts : AddRound(text)
  \/ \E n \in 0..MaxRounds : TrimToMaxRounds(n)
  \/ ClearRounds

RoundSpec == RoundsInit /\ [][RoundsNext]_roundVars
-----------------------------------------------------------------------------
(* Properties                                                              *)

Numbers(rounds) ==
  LET real == Marked(rounds)
  IN  [i \in 1..Len(real) |-> real[i].number]

\* The title, which counts as a round when the list is cut, costs no round of the
\* conversation: what is read back are the newest rounds in order, all that no limit has
\* cut off among them, and MaxRounds at most, whatever additions and trimmings went before.
RecentRoundsAreKept ==
  /\ IsSuffix(Numbers(ParseRounds), Numbers(added))
  /\ IsSuffix(Numbers(owed), Numbers(ParseRounds))
  /\ Len(Numbers(ParseRounds)) <= MaxRounds
=============================================================================
