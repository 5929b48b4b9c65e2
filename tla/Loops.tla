-------------------------------- MODULE Loops --------------------------------
(***************************************************************************)
(* Loops that make a list of another: what modules about them share.       *)
(***************************************************************************)
EXTENDS Integers, Sequences

\* The loop, or the comprehension, that keeps the elements at these places.
Keeping(list, places) ==
  LET kept[n \in 0..Len(list)] ==
        IF n = 0 THEN <<>>
        ELSE IF n \in places THEN Append(kept[n - 1], list[n]) ELSE kept[n - 1]
  IN  kept[Len(list)]

\* What a loop has joined that appends list by list, as does "".join.
Concatenated(lists) ==
  LET joined[n \in 0..Len(lists)] == IF n = 0 THEN <<>> ELSE joined[n - 1] \o lists[n]
  IN  joined[Len(lists)]
=============================================================================
