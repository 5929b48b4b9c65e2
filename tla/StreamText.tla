------------------------------- MODULE StreamText -------------------------------
(***************************************************************************)
(* The parser that splits the text a model streams into content and        *)
(* thinking: domain/llm/parsers/stream_parser.py, and its deprecated       *)
(* predecessor infrastructure/bridge/stream_manager.py.  Both keep a       *)
(* buffer, look for the earliest start of a block in it, and hold back     *)
(* what could be the beginning of one.                                     *)
(*                                                                         *)
(* A text is a sequence of characters, a block a pair of tags.  The tags,  *)
(* the keywords, the window and the size of the buffer are fields of       *)
(* StreamParserConfig: the constants.                                      *)
(***************************************************************************)
EXTENDS Integers, Sequences, FiniteSets

CONSTANTS
  Characters, \* the characters of texts
  Markers,    \* sequence of [start, end]: the blocks' tags
  Keywords,   \* set of texts that open a block at the start of a line
  Newline,    \* the character that ends a line
  Window,     \* characters held back outside a block (window_size)
  MaxBuffer   \* max_buffer_size

ASSUME TextAssumption ==
  /\ Window \in Nat /\ MaxBuffer \in Nat /\ Newline \in Characters
  /\ Markers \in Seq([start : Seq(Characters), end : Seq(Characters)])
  /\ \A i \in 1..Len(Markers) : Markers[i].start # <<>> /\ Markers[i].end # <<>>
  /\ \A word \in Keywords : word \in Seq(Characters) /\ word # <<>>

-----------------------------------------------------------------------------
(* Texts; positions count from 0, as in the code.                          *)

From(text, n)  == SubSeq(text, n + 1, Len(text))
Until(text, n) == SubSeq(text, 1, n)
OccursAt(tag, text, n) ==
  n + Len(tag) <= Len(text) /\ SubSeq(text, n + 1, n + Len(tag)) = tag
Places(tag, text)      == {n \in 0..Len(text) - 1 : OccursAt(tag, text, n)}
PlacesFrom(tag, text, n) == {p \in Places(tag, text) : p >= n}
First(places)  == CHOOSE n \in places : \A p \in places : n <= p
EndsWith(text, tail) ==
  Len(tail) <= Len(text) /\ From(text, Len(text) - Len(tail)) = tail

\* The longest proper prefix of tag that the text ends with.
HeldPrefix(tag, text) ==
  LET lengths == {n \in 0..Len(tag) - 1 : EndsWith(text, Until(tag, n))}
  IN  CHOOSE n \in lengths : \A m \in lengths : m <= n

Most(numbers) == CHOOSE n \in numbers : \A m \in numbers : m <= n
Blocks == {Markers[i] : i \in 1..Len(Markers)}

-----------------------------------------------------------------------------
(* Where a block starts.                                                   *)

\* re.search for a keyword at the start of the buffer or behind a line break, which
\* then belongs to the start tag.
KeywordStarts(text) ==
  {[at |-> 0, start |-> word] : word \in {w \in Keywords : OccursAt(w, text, 0)}}
    \union
  UNION {{[at |-> n, start |-> <<Newline>> \o word] : n \in Places(<<Newline>> \o word, text)} :
           word \in Keywords}

\* _find_marker: the earliest; at one place a tag before a keyword, and of two tags the
\* first in the list.
NoMarker == [at |-> -1, start |-> <<>>, end |-> <<>>]
FindMarker(text) ==
  LET tagged == {i \in 1..Len(Markers) : Places(Markers[i].start, text) # {}}
      place(i) == First(Places(Markers[i].start, text))
      tags   == {place(i) : i \in tagged}
      words  == KeywordStarts(text)
      starts == tags \union {w.at : w \in words}
  IN  IF starts = {} THEN NoMarker
      ELSE IF First(starts) \in tags
      THEN LET i == First({j \in tagged : place(j) = First(starts)})
           IN  [at |-> First(starts), start |-> Markers[i].start, end |-> Markers[i].end]
      ELSE LET word == CHOOSE w \in words : w.at = First(starts)
           IN  [at |-> word.at, start |-> word.start, end |-> <<Newline, Newline>>]

\* Mutant: only the window is held back, whatever the buffer ends with.
SafeLength_IgnoresTags(text) == IF Window >= Len(text) THEN 0 ELSE Len(text) - Window

\* _calculate_safe_length: what cannot be the beginning of a tag or a keyword.
SafeLength(text) ==
  LET tags == {block.start : block \in Blocks} \union Keywords
      held == Most({Window} \union {HeldPrefix(tag, text) : tag \in tags})
  IN  IF held >= Len(text) THEN 0 ELSE Len(text) - held

-----------------------------------------------------------------------------
(* StreamParser.  out: what the call returns, in order.                    *)

Idle == [buffer |-> <<>>, inside |-> FALSE, end |-> <<>>, entered |-> 0, out |-> <<>>]

Say(p, type, n) ==
  [p EXCEPT !.out = IF n = 0 THEN @ ELSE Append(@, [type |-> type, text |-> Until(p.buffer, n)]),
            !.buffer = From(@, n)]

\* Outside a block: nothing starts in the buffer.
NothingStarts(p, final) ==
  Say(p, "content", IF final THEN Len(p.buffer) ELSE SafeLength(p.buffer))

\* Outside a block: what precedes the tag is content.  entered is the length of the
\* start tag, which the search for the end skips during this call.
EnterBlock(p, marker) ==
  [Say(p, "content", marker.at) EXCEPT !.inside = TRUE, !.end = marker.end,
                                       !.entered = Len(marker.start)]

\* Inside a block: its end is not there yet.
BlockGoesOn(p, final) ==
  Say(p, "thinking",
      IF final THEN Len(p.buffer) ELSE Len(p.buffer) - HeldPrefix(p.end, p.buffer))

LeaveBlock(p, at) ==
  [Say(p, "thinking", at + Len(p.end)) EXCEPT !.inside = FALSE, !.entered = 0]

\* A round of _try_dispatch's loop: the start or the end of a block.
ParserStep(p, final) ==
  LET marker == FindMarker(p.buffer)
      ends   == PlacesFrom(p.end, p.buffer, p.entered)
  IN  IF p.buffer = <<>> THEN [p |-> p, done |-> TRUE]
      ELSE IF ~p.inside
      THEN IF marker = NoMarker THEN [p |-> NothingStarts(p, final), done |-> TRUE]
           ELSE [p |-> EnterBlock(p, marker), done |-> FALSE]
      ELSE IF ends = {} THEN [p |-> BlockGoesOn(p, final), done |-> TRUE]
           ELSE [p |-> LeaveBlock(p, First(ends)), done |-> FALSE]

\* _try_dispatch: round after round, as long as there are any; 2 * Len(buffer) + 1 are
\* enough, as each block takes a character at least.
TryDispatch(parser, final) ==
  LET round[n \in 0..2 * Len(parser.buffer) + 1] ==
        IF n = 0 THEN [p |-> [parser EXCEPT !.out = <<>>, !.entered = 0], done |-> FALSE]
        ELSE LET last == round[n - 1] IN IF last.done THEN last ELSE ParserStep(last.p, final)
  IN  round[2 * Len(parser.buffer) + 1].p

\* process_chunk: a buffer over the limit is given out as it is, and forgotten.
ProcessChunk(parser, text) ==
  LET p == [parser EXCEPT !.buffer = @ \o text]
  IN  IF Len(p.buffer) > MaxBuffer
      THEN [TryDispatch(p, TRUE) EXCEPT !.buffer = <<>>, !.inside = FALSE]
      ELSE TryDispatch(p, FALSE)

Flush(parser) == TryDispatch(parser, TRUE)

-----------------------------------------------------------------------------
(* StreamManager: no window; a buffer that ends with the beginning of a tag is    *)
(* held back whole, and so is a block until it ends.                              *)

\* _should_hold_back_content
HoldsBack(text) ==
  \E tag \in {block.start : block \in Blocks} \union Keywords : HeldPrefix(tag, text) > 0

Outside(p) == [p EXCEPT !.inside = FALSE]

\* The end is not there yet.  A keyword's block ends with what has arrived.
WaitForEnd(p, final) ==
  IF final THEN Say(p, "thinking", Len(p.buffer))
  ELSE IF p.end = <<Newline, Newline>> THEN Outside(Say(p, "thinking", Len(p.buffer)))
  ELSE p

ManagerStep(p, final) ==
  LET marker == FindMarker(p.buffer)
      ends   == PlacesFrom(p.end, p.buffer, p.entered)
  IN  IF p.buffer = <<>> \/ (~p.inside /\ marker = NoMarker /\ ~final /\ HoldsBack(p.buffer))
      THEN [p |-> p, done |-> TRUE]
      ELSE IF ~p.inside
      THEN IF marker = NoMarker THEN [p |-> Say(p, "content", Len(p.buffer)), done |-> TRUE]
           ELSE [p |-> EnterBlock(p, marker), done |-> FALSE]
      ELSE IF ends = {} THEN [p |-> WaitForEnd(p, final), done |-> TRUE]
           ELSE [p |-> Outside(Say(p, "thinking", First(ends) + Len(p.end))), done |-> FALSE]

ManagerDispatch(manager, final) ==
  LET round[n \in 0..2 * Len(manager.buffer) + 1] ==
        IF n = 0 THEN [p |-> [manager EXCEPT !.out = <<>>], done |-> FALSE]
        ELSE LET last == round[n - 1] IN IF last.done THEN last ELSE ManagerStep(last.p, final)
  IN  round[2 * Len(manager.buffer) + 1].p

ManagerProcess(manager, text) ==
  LET p == [manager EXCEPT !.buffer = @ \o text]
  IN  IF Len(p.buffer) > MaxBuffer
      THEN [ManagerDispatch(p, TRUE) EXCEPT !.buffer = <<>>, !.inside = FALSE]
      ELSE ManagerDispatch(p, FALSE)

ManagerFlush(manager) == ManagerDispatch(manager, TRUE)
=============================================================================
