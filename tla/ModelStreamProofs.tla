---------------------------- MODULE ModelStreamProofs ----------------------------
(***************************************************************************)
(* Proofs about the answer of the model.                                   *)
(***************************************************************************)
EXTENDS ModelStream, LoopsProofs, FiniteSetTheorems

-----------------------------------------------------------------------------
(* Texts and places in them.                                               *)

Texts == Seq(Characters)

\* A text cut in two.
LEMMA Cut ==
  ASSUME NEW S, NEW text \in Seq(S), NEW n \in 0..Len(text)
  PROVE  /\ Until(text, n) \in Seq(S) /\ Len(Until(text, n)) = n
         /\ \A i \in 1..n : Until(text, n)[i] = text[i]
         /\ From(text, n) \in Seq(S) /\ Len(From(text, n)) = Len(text) - n
         /\ \A i \in 1..Len(text) - n : From(text, n)[i] = text[n + i]
         /\ Until(text, n) \o From(text, n) = text
<1>1. Len(text) \in Nat /\ n \in Nat /\ n <= Len(text)
  OBVIOUS
<1>2. \A i \in 1..n : text[i] \in S
  BY <1>1
<1>3. /\ Until(text, n) \in Seq(S) /\ Len(Until(text, n)) = n
      /\ \A i \in 1..n : Until(text, n)[i] = text[i]
  BY <1>1, <1>2 DEF Until
<1>4. \A i \in n + 1..Len(text) : text[i] \in S
  BY <1>1
<1>5. /\ From(text, n) \in Seq(S) /\ Len(From(text, n)) = Len(text) - n
      /\ \A i \in 1..Len(text) - n : From(text, n)[i] = text[n + i]
  BY <1>1, <1>4 DEF From
<1>6. Until(text, n) \o From(text, n) = text
  <2>1. 1 \in 1..Len(text) + 1 /\ n \in 1 - 1..Len(text) /\ Len(text) \in n..Len(text)
    BY <1>1
  <2>2. SubSeq(text, 1, n) \o SubSeq(text, n + 1, Len(text)) = SubSeq(text, 1, Len(text))
    BY <2>1, ConcatAdjacentSubSeq
  <2>3. SubSeq(text, 1, Len(text)) = text
    BY SubSeqFull
  <2>4. QED
    BY ONLY <2>2, <2>3 DEF Until, From
<1>7. QED
  BY <1>3, <1>5, <1>6

LEMMA CutAtTheEnds ==
  ASSUME NEW S, NEW text \in Seq(S)
  PROVE  /\ Until(text, 0) = <<>> /\ From(text, 0) = text
         /\ Until(text, Len(text)) = text /\ From(text, Len(text)) = <<>>
<1>1. Until(text, 0) = <<>> /\ From(text, Len(text)) = <<>>
  BY DEF Until, From
<1>2. Until(text, Len(text)) = text /\ From(text, 0) = text
  BY DEF Until, From
<1>3. QED
  BY <1>1, <1>2

\* The least and the greatest of some numbers.
LEMMA FirstOf ==
  ASSUME NEW places \in SUBSET Nat, places # {}
  PROVE  First(places) \in places /\ \A p \in places : First(places) <= p
<1>1. \E n \in places : \A p \in places : n <= p
  BY LeastNumber
<1>2. QED
  BY <1>1 DEF First

LEMMA GreatestNumber ==
  ASSUME NEW b \in Nat, NEW numbers \in SUBSET (0..b), numbers # {}
  PROVE  \E n \in numbers : \A m \in numbers : m <= n
<1> DEFINE rest == {b - n : n \in numbers}
<1>1. rest \in SUBSET Nat /\ rest # {}
  <2>1. \A n \in numbers : b - n \in Nat
    OBVIOUS
  <2>2. QED
    BY <2>1
<1>2. PICK r \in rest : \A q \in rest : r <= q
  BY <1>1, LeastNumber
<1>3. PICK n \in numbers : r = b - n
  BY <1>2
<1>4. ASSUME NEW m \in numbers PROVE m <= n
  <2>1. b - m \in rest
    OBVIOUS
  <2>2. b - n <= b - m
    BY <2>1, <1>2, <1>3
  <2>3. n \in Nat /\ m \in Nat
    OBVIOUS
  <2>4. QED
    BY <2>2, <2>3
<1>5. QED
  BY <1>4

LEMMA MostOf ==
  ASSUME NEW b \in Nat, NEW numbers \in SUBSET (0..b), numbers # {}
  PROVE  Most(numbers) \in numbers /\ \A m \in numbers : m <= Most(numbers)
<1>1. \E n \in numbers : \A m \in numbers : m <= n
  BY GreatestNumber
<1>2. QED
  BY <1>1 DEF Most

\* What a text ends with, of a tag.
LEMMA HeldPrefixIs ==
  ASSUME NEW S, NEW tag \in Seq(S), tag # <<>>, NEW text \in Seq(S)
  PROVE  /\ HeldPrefix(tag, text) \in 0..Len(tag) - 1
         /\ HeldPrefix(tag, text) \in 0..Len(text)
         /\ \A n \in 0..Len(tag) - 1 :
              EndsWith(text, Until(tag, n)) => n <= HeldPrefix(tag, text)
<1> DEFINE b == Len(tag) - 1
           lengths == {n \in 0..b : EndsWith(text, Until(tag, n))}
<1>1. Len(tag) \in Nat /\ Len(tag) >= 1 /\ b \in Nat /\ Len(text) \in Nat
  OBVIOUS
<1>2. 0 \in lengths
  <2>1. Until(tag, 0) = <<>> /\ From(text, Len(text)) = <<>>
    BY CutAtTheEnds
  <2>2. EndsWith(text, <<>>)
    <3>1. Len(<<>>) = 0 /\ Len(text) - 0 = Len(text)
      BY <1>1
    <3>2. QED
      BY <2>1, <3>1, <1>1 DEF EndsWith
  <2>3. 0 \in 0..b
    BY <1>1
  <2>4. QED
    BY <2>1, <2>2, <2>3
<1>3. lengths \in SUBSET (0..b)
  OBVIOUS
<1>4. HeldPrefix(tag, text) = Most(lengths)
  BY DEF HeldPrefix, Most
<1>5. HeldPrefix(tag, text) \in lengths /\ \A m \in lengths : m <= HeldPrefix(tag, text)
  <2> HIDE DEF lengths, b
  <2>1. QED
    BY <1>1, <1>2, <1>3, <1>4, MostOf
<1>6. HeldPrefix(tag, text) <= Len(text)
  <2> DEFINE h == HeldPrefix(tag, text)
  <2>1. h \in 0..b /\ EndsWith(text, Until(tag, h))
    BY <1>5
  <2> HIDE DEF h, lengths
  <2>2. h \in 0..Len(tag)
    BY <2>1, <1>1
  <2>3. Len(Until(tag, h)) = h
    BY <2>2, Cut
  <2>4. QED
    BY <2>1, <2>3 DEF EndsWith, h
<1>7. QED
  <2>1. HeldPrefix(tag, text) \in 0..b
    BY <1>5
  <2>2. HeldPrefix(tag, text) \in 0..Len(text)
    BY <2>1, <1>1, <1>6
  <2>3. QED
    BY <2>1, <2>2, <1>5

-----------------------------------------------------------------------------
(* Where a block starts, and what is held back.                            *)

LEMMA BlockTags ==
  ASSUME NEW block \in Blocks
  PROVE  block.start \in Texts /\ block.start # <<>> /\ block.end \in Texts /\ block.end # <<>>
<1>1. PICK i \in 1..Len(Markers) : block = Markers[i]
  BY DEF Blocks
<1>2. Markers[i] \in [start : Seq(Characters), end : Seq(Characters)]
  <2> DEFINE T == [start : Seq(Characters), end : Seq(Characters)]
  <2>1. Markers \in Seq(T)
    BY TextAssumption
  <2> HIDE DEF T
  <2>2. Markers[i] \in T
    BY <1>1, <2>1
  <2>3. QED
    BY <2>2 DEF T
<1>3. Markers[i].start # <<>> /\ Markers[i].end # <<>>
  BY <1>1, TextAssumption
<1>4. QED
  BY <1>1, <1>2, <1>3 DEF Texts

LEMMA KeywordsStart ==
  ASSUME NEW text \in Texts, NEW w \in KeywordStarts(text)
  PROVE  w.at \in 0..Len(text) - 1 /\ w.start \in Texts
<1>1. Len(text) \in Nat /\ text \in Seq(Characters)
  BY DEF Texts
<1>2. CASE w \in {[at |-> 0, start |-> word] : word \in {k \in Keywords : OccursAt(k, text, 0)}}
  <2>1. PICK word \in Keywords : OccursAt(word, text, 0) /\ w = [at |-> 0, start |-> word]
    BY <1>2
  <2>2. word \in Texts /\ Len(word) \in Nat \ {0}
    BY TextAssumption DEF Texts
  <2>3. 0 + Len(word) <= Len(text)
    BY <2>1 DEF OccursAt
  <2>4. QED
    BY <2>1, <2>2, <2>3, <1>1
<1>3. CASE \E word \in Keywords : \E n \in Places(<<Newline>> \o word, text) :
             w = [at |-> n, start |-> <<Newline>> \o word]
  <2>1. PICK word \in Keywords : \E n \in Places(<<Newline>> \o word, text) :
             w = [at |-> n, start |-> <<Newline>> \o word]
    BY <1>3
  <2>2. word \in Seq(Characters) /\ <<Newline>> \in Seq(Characters)
    BY TextAssumption
  <2>3. <<Newline>> \o word \in Seq(Characters)
    BY <2>2, ConcatProperties
  <2>4. PICK n \in Places(<<Newline>> \o word, text) : w = [at |-> n, start |-> <<Newline>> \o word]
    BY <2>1
  <2>5. n \in 0..Len(text) - 1
    BY DEF Places
  <2>6. QED
    BY <2>3, <2>4, <2>5 DEF Texts
<1>4. QED
  BY <1>2, <1>3 DEF KeywordStarts

\* The earliest start of a block, or none.
LEMMA MarkerIs ==
  ASSUME NEW text \in Texts, NEW marker, marker = FindMarker(text)
  PROVE  IF marker = NoMarker
         THEN \A block \in Blocks : Places(block.start, text) = {}
         ELSE /\ marker.at \in 0..Len(text) - 1
              /\ marker.start \in Texts /\ marker.end \in Texts /\ marker.end # <<>>
              /\ \A block \in Blocks : \A n \in Places(block.start, text) : marker.at <= n
<1> DEFINE tagged == {i \in 1..Len(Markers) : Places(Markers[i].start, text) # {}}
           place(i) == First(Places(Markers[i].start, text))
           tags == {place(i) : i \in tagged}
           words == KeywordStarts(text)
           starts == tags \union {w.at : w \in words}
           first == First(starts)
           chosen == First({j \in tagged : place(j) = first})
           word == CHOOSE w \in words : w.at = first
<1>1. marker = IF starts = {} THEN NoMarker
               ELSE IF first \in tags
               THEN [at |-> first, start |-> Markers[chosen].start, end |-> Markers[chosen].end]
               ELSE [at |-> word.at, start |-> word.start, end |-> <<Newline, Newline>>]
  BY DEF FindMarker
<1>2. Len(text) \in Nat /\ Len(Markers) \in Nat
  BY TextAssumption DEF Texts
<1>3. ASSUME NEW i \in tagged
      PROVE  /\ i \in 1..Len(Markers) /\ place(i) \in 0..Len(text) - 1
             /\ \A n \in Places(Markers[i].start, text) : place(i) <= n
  <2>1. /\ Places(Markers[i].start, text) \in SUBSET Nat
        /\ Places(Markers[i].start, text) \subseteq 0..Len(text) - 1
    BY <1>2 DEF Places
  <2>2. Places(Markers[i].start, text) # {}
    OBVIOUS
  <2>3. QED
    BY <2>1, <2>2, FirstOf
<1>4. \A n \in starts : n \in 0..Len(text) - 1
  <2>1. \A n \in tags : n \in 0..Len(text) - 1
    BY <1>3
  <2>2. \A w \in words : w.at \in 0..Len(text) - 1
    BY KeywordsStart
  <2> HIDE DEF tags, words
  <2>3. QED
    BY <2>1, <2>2
<1>5. starts \in SUBSET Nat
  <2> HIDE DEF starts
  <2>1. QED
    BY <1>2, <1>4
<1>6. ASSUME NEW block \in Blocks, NEW n \in Places(block.start, text)
      PROVE  \E m \in starts : m <= n
  <2>1. PICK i \in 1..Len(Markers) : block = Markers[i]
    BY DEF Blocks
  <2>2. i \in tagged
    BY <2>1
  <2>3. place(i) <= n
    BY <2>1, <2>2, <1>3
  <2>4. place(i) \in starts
    BY <2>2
  <2>5. QED
    BY <2>3, <2>4
<1> HIDE DEF starts
<1>7. CASE starts = {}
  <2>1. marker = NoMarker
    BY <1>1, <1>7
  <2>2. QED
    BY <2>1, <1>6, <1>7
<1>8. CASE starts # {}
  <2>1. first \in starts /\ \A n \in starts : first <= n
    BY <1>5, <1>8, FirstOf
  <2> HIDE DEF first
  <2>2. first \in 0..Len(text) - 1
    BY <2>1, <1>4
  <2>3. /\ marker.at = first /\ marker.start \in Texts /\ marker.end \in Texts
        /\ marker.end # <<>>
    <3>1. CASE first \in tags
      <4>1. PICK j \in tagged : place(j) = first
        BY <3>1
      <4> DEFINE those == {k \in tagged : place(k) = first}
      <4>2. those \in SUBSET Nat /\ those # {}
        BY <4>1
      <4>3. chosen \in those
        <5> HIDE DEF those
        <5>1. First(those) \in those
          BY <4>2, FirstOf
        <5>2. QED
          BY <5>1 DEF those
      <4>4. chosen \in 1..Len(Markers)
        BY <4>3
      <4> HIDE DEF chosen, tags
      <4>5. marker = [at |-> first, start |-> Markers[chosen].start, end |-> Markers[chosen].end]
        BY <1>1, <1>8, <3>1
      <4>6. Markers[chosen] \in Blocks
        BY <4>4 DEF Blocks
      <4>7. QED
        BY <4>5, <4>6, BlockTags
    <3>2. CASE first \notin tags
      <4>1. \E w \in words : w.at = first
        BY <2>1, <3>2 DEF starts
      <4>2. word \in words /\ word.at = first
        BY <4>1
      <4>3. word.start \in Texts
        BY <4>2, KeywordsStart
      <4> HIDE DEF word, words, tags
      <4>4. marker = [at |-> word.at, start |-> word.start, end |-> <<Newline, Newline>>]
        BY <1>1, <1>8, <3>2
      <4>5. <<Newline, Newline>> \in Texts /\ <<Newline, Newline>> # <<>>
        BY TextAssumption DEF Texts
      <4>6. QED
        BY <4>2, <4>3, <4>4, <4>5
    <3>3. QED
      BY <3>1, <3>2
  <2>4. marker # NoMarker
    <3>1. NoMarker.at = -1
      BY DEF NoMarker
    <3>2. QED
      BY <2>2, <2>3, <3>1
  <2>5. \A block \in Blocks : \A n \in Places(block.start, text) : first <= n
    <3>1. \A block \in Blocks : \A n \in Places(block.start, text) : n \in Nat
      BY <1>2 DEF Places
    <3>2. QED
      BY <3>1, <2>1, <1>5, <1>6
  <2>6. QED
    BY <2>2, <2>3, <2>4, <2>5
<1>9. QED
  BY <1>7, <1>8

\* What is said leaves what could be the beginning of a tag.
LEMMA SafeLengthIs ==
  ASSUME NEW text \in Texts
  PROVE  /\ SafeLength(text) \in 0..Len(text)
         /\ \A block \in Blocks : HeldPrefix(block.start, text) <= Len(text) - SafeLength(text)
<1> DEFINE tags == {block.start : block \in Blocks} \union Keywords
           numbers == {Window} \union {HeldPrefix(tag, text) : tag \in tags}
           b == Window + Len(text)
           held == Most(numbers)
<1>1. Len(text) \in Nat /\ Window \in Nat /\ b \in Nat
  BY TextAssumption DEF Texts
<1>2. \A tag \in tags : tag \in Seq(Characters) /\ tag # <<>>
  BY BlockTags, TextAssumption DEF Texts
<1>3. \A tag \in tags : HeldPrefix(tag, text) \in 0..Len(text)
  <2> HIDE DEF tags
  <2>1. QED
    BY <1>2, HeldPrefixIs DEF Texts
<1>4. numbers \in SUBSET (0..b) /\ numbers # {}
  <2> HIDE DEF tags
  <2>1. Window \in 0..b /\ \A h \in 0..Len(text) : h \in 0..b
    BY <1>1
  <2> HIDE DEF b
  <2>2. QED
    BY <2>1, <1>3
<1>5. held \in 0..b /\ \A n \in numbers : n <= held
  <2> HIDE DEF numbers, b
  <2>1. QED
    BY <1>1, <1>4, MostOf
<1>6. SafeLength(text) = IF held >= Len(text) THEN 0 ELSE Len(text) - held
  BY DEF SafeLength
<1>7. \A block \in Blocks : /\ HeldPrefix(block.start, text) <= held
                             /\ HeldPrefix(block.start, text) \in 0..Len(text)
  BY <1>3, <1>5
<1>8. held \in Nat
  BY <1>1, <1>5
<1> HIDE DEF held
<1>9. ASSUME NEW block \in Blocks
      PROVE  HeldPrefix(block.start, text) <= Len(text) - SafeLength(text)
  <2>1. HeldPrefix(block.start, text) <= held /\ HeldPrefix(block.start, text) \in 0..Len(text)
    BY <1>7
  <2>2. CASE held >= Len(text)
    BY <1>1, <1>6, <2>1, <2>2
  <2>3. CASE ~(held >= Len(text))
    <3>1. Len(text) - SafeLength(text) = held
      BY <1>1, <1>6, <1>8, <2>3
    <3>2. QED
      BY <2>1, <3>1
  <2>4. QED
    BY <2>2, <2>3
<1>10. QED
  BY <1>1, <1>6, <1>8, <1>9

-----------------------------------------------------------------------------
(* A round of a parser, either one.                                        *)

Pieces == [type : {"content", "thinking"}, text : Texts]
Parsers ==
  {p \in [buffer : Texts, inside : BOOLEAN, end : Texts, entered : Nat, out : Seq(Pieces)] :
     p.inside => p.end # <<>>}

\* The first n characters of the buffer are given out.
Speaks(p, q, type, n) ==
  /\ q.out = IF n = 0 THEN p.out ELSE Append(p.out, [type |-> type, text |-> Until(p.buffer, n)])
  /\ q.buffer = From(p.buffer, n)

Rests(p, r, final) ==
  /\ r.done /\ r.p.out = p.out /\ r.p.buffer = p.buffer /\ r.p.inside = p.inside
  /\ final => p.buffer = <<>>

\* What is shown as content has no tag, nor the beginning of one that the buffer holds.
Shows(p, r, final) ==
  /\ r.done /\ ~p.inside /\ ~r.p.inside
  /\ \A block \in Blocks : Places(block.start, p.buffer) = {}
  /\ \E n \in 0..Len(p.buffer) :
       /\ Speaks(p, r.p, "content", n)
       /\ IF final THEN n = Len(p.buffer)
          ELSE \A block \in Blocks : HeldPrefix(block.start, p.buffer) <= Len(p.buffer) - n

Enters(p, r) ==
  /\ ~r.done /\ ~p.inside /\ r.p.inside
  /\ \E n \in 0..Len(p.buffer) :
       /\ Speaks(p, r.p, "content", n)
       /\ \A block \in Blocks : \A m \in Places(block.start, p.buffer) : n <= m

Thinks(p, r, final) ==
  /\ p.inside
  /\ \E n \in 0..Len(p.buffer) :
       /\ Speaks(p, r.p, "thinking", n)
       /\ ~r.p.inside => n # 0
       /\ IF r.done THEN final => n = Len(p.buffer) ELSE ~r.p.inside

Moves(p, r, final) ==
  /\ r.p \in Parsers /\ r.done \in BOOLEAN
  /\ Rests(p, r, final) \/ Shows(p, r, final) \/ Enters(p, r) \/ Thinks(p, r, final)

LEMMA ParserFields ==
  ASSUME NEW p \in Parsers
  PROVE  /\ p.buffer \in Texts /\ p.inside \in BOOLEAN /\ p.end \in Texts /\ p.entered \in Nat
         /\ p.out \in Seq(Pieces) /\ (p.inside => p.end # <<>>)
         /\ Len(p.buffer) \in Nat /\ (p.buffer = <<>> <=> Len(p.buffer) = 0)
<1>1. /\ p.buffer \in Texts /\ p.inside \in BOOLEAN /\ p.end \in Texts /\ p.entered \in Nat
      /\ p.out \in Seq(Pieces) /\ (p.inside => p.end # <<>>)
  BY DEF Parsers
<1>2. Len(p.buffer) \in Nat /\ (p.buffer = <<>> <=> Len(p.buffer) = 0)
  BY <1>1 DEF Texts
<1>3. QED
  BY <1>1, <1>2

LEMMA SayIs ==
  ASSUME NEW p \in Parsers, NEW type \in {"content", "thinking"}, NEW n \in 0..Len(p.buffer)
  PROVE  /\ Say(p, type, n) \in Parsers
         /\ Speaks(p, Say(p, type, n), type, n)
         /\ Say(p, type, n).inside = p.inside /\ Say(p, type, n).end = p.end
<1> DEFINE q == Say(p, type, n)
           piece == [type |-> type, text |-> Until(p.buffer, n)]
           said == IF n = 0 THEN p.out ELSE Append(p.out, piece)
<1>1. q = [p EXCEPT !.out = said, !.buffer = From(p.buffer, n)]
  BY DEF Say
<1>2. p.buffer \in Seq(Characters) /\ p.out \in Seq(Pieces)
  BY ParserFields DEF Texts
<1>3. Until(p.buffer, n) \in Texts /\ From(p.buffer, n) \in Texts
  BY <1>2, Cut DEF Texts
<1>4. piece \in Pieces
  BY <1>3 DEF Pieces
<1>5. said \in Seq(Pieces)
  <2> HIDE DEF piece
  <2>1. QED
    BY <1>2, <1>4
<1> DEFINE T == [buffer : Texts, inside : BOOLEAN, end : Texts, entered : Nat, out : Seq(Pieces)]
<1>6. p \in T /\ (p.inside => p.end # <<>>)
  BY DEF Parsers
<1>7. /\ q \in T /\ q.out = said /\ q.buffer = From(p.buffer, n)
      /\ q.inside = p.inside /\ q.end = p.end
  <2> HIDE DEF said, q
  <2>1. QED
    BY <1>1, <1>3, <1>5, <1>6
<1>8. q \in Parsers
  <2> HIDE DEF q
  <2>1. QED
    BY <1>6, <1>7 DEF Parsers
<1>9. Speaks(p, q, type, n)
  BY <1>7 DEF Speaks
<1>10. QED
  BY <1>7, <1>8, <1>9

\* Into a block, and out of one.
LEMMA EnterIs ==
  ASSUME NEW p \in Parsers, NEW marker, marker = FindMarker(p.buffer), marker # NoMarker,
         ~p.inside
  PROVE  /\ EnterBlock(p, marker) \in Parsers
         /\ Enters(p, [p |-> EnterBlock(p, marker), done |-> FALSE])
<1> DEFINE n == marker.at
           q == Say(p, "content", n)
           r == EnterBlock(p, marker)
<1>1. /\ n \in 0..Len(p.buffer) - 1 /\ marker.start \in Texts /\ marker.end \in Texts
      /\ marker.end # <<>>
      /\ \A block \in Blocks : \A m \in Places(block.start, p.buffer) : n <= m
  BY MarkerIs, ParserFields
<1>2. n \in 0..Len(p.buffer) /\ Len(marker.start) \in Nat
  BY <1>1, ParserFields DEF Texts
<1>3. q \in Parsers /\ Speaks(p, q, "content", n)
  BY <1>2, SayIs
<1>4. r = [q EXCEPT !.inside = TRUE, !.end = marker.end, !.entered = Len(marker.start)]
  BY DEF EnterBlock
<1> HIDE DEF q, r
<1>5. r \in Parsers /\ r.out = q.out /\ r.buffer = q.buffer /\ r.inside
  BY <1>1, <1>2, <1>3, <1>4 DEF Parsers
<1>6. Speaks(p, r, "content", n)
  BY <1>3, <1>5 DEF Speaks
<1>7. Enters(p, [p |-> r, done |-> FALSE])
  BY <1>1, <1>2, <1>5, <1>6 DEF Enters
<1>8. QED
  BY <1>5, <1>7 DEF r

LEMMA EndFound ==
  ASSUME NEW p \in Parsers, p.inside, NEW ends, ends = PlacesFrom(p.end, p.buffer, p.entered),
         ends # {}
  PROVE  First(ends) + Len(p.end) \in 1..Len(p.buffer)
<1>1. p.buffer \in Seq(Characters) /\ p.end \in Seq(Characters) /\ p.end # <<>>
  BY ParserFields DEF Texts
<1>2. Len(p.end) \in Nat \ {0} /\ Len(p.buffer) \in Nat
  BY <1>1
<1>3. ends \in SUBSET Nat
  BY <1>2 DEF PlacesFrom, Places
<1>4. First(ends) \in ends
  BY <1>3, FirstOf
<1>5. First(ends) \in Nat /\ First(ends) + Len(p.end) <= Len(p.buffer)
  BY <1>3, <1>4 DEF PlacesFrom, Places, OccursAt
<1>6. QED
  BY <1>2, <1>5

\* Each round of StreamParser is one of these moves.
LEMMA ParserStepMoves ==
  ASSUME NEW p \in Parsers, NEW final \in BOOLEAN
  PROVE  Moves(p, ParserStep(p, final), final)
<1> DEFINE marker == FindMarker(p.buffer)
           ends == PlacesFrom(p.end, p.buffer, p.entered)
           r == ParserStep(p, final)
<1>1. r = IF p.buffer = <<>> THEN [p |-> p, done |-> TRUE]
          ELSE IF ~p.inside
          THEN IF marker = NoMarker THEN [p |-> NothingStarts(p, final), done |-> TRUE]
               ELSE [p |-> EnterBlock(p, marker), done |-> FALSE]
          ELSE IF ends = {} THEN [p |-> BlockGoesOn(p, final), done |-> TRUE]
               ELSE [p |-> LeaveBlock(p, First(ends)), done |-> FALSE]
  BY DEF ParserStep
<1>2. /\ p.buffer \in Texts /\ p.inside \in BOOLEAN /\ Len(p.buffer) \in Nat
      /\ p.buffer \in Seq(Characters)
  BY ParserFields DEF Texts
<1> HIDE DEF r
<1>3. CASE p.buffer = <<>>
  <2>1. r.p = p /\ r.done = TRUE
    BY <1>1, <1>3
  <2>2. Rests(p, r, final)
    BY <2>1, <1>3 DEF Rests
  <2>3. QED
    BY <2>1, <2>2 DEF Moves, r
<1>4. CASE p.buffer # <<>> /\ ~p.inside /\ marker = NoMarker
  <2> DEFINE n == IF final THEN Len(p.buffer) ELSE SafeLength(p.buffer)
  <2>1. n \in 0..Len(p.buffer)
    BY <1>2, SafeLengthIs
  <2>2. r.p = Say(p, "content", n) /\ r.done = TRUE
    BY <1>1, <1>4 DEF NothingStarts
  <2>3. r.p \in Parsers /\ Speaks(p, r.p, "content", n) /\ ~r.p.inside
    <3> HIDE DEF n
    <3>1. QED
      BY <2>1, <2>2, <1>4, SayIs
  <2>4. IF final THEN n = Len(p.buffer)
        ELSE \A block \in Blocks : HeldPrefix(block.start, p.buffer) <= Len(p.buffer) - n
    BY <1>2, SafeLengthIs
  <2>5. \A block \in Blocks : Places(block.start, p.buffer) = {}
    BY <1>2, <1>4, MarkerIs
  <2> HIDE DEF n
  <2>6. Shows(p, r, final)
    BY <2>1, <2>2, <2>3, <2>4, <2>5, <1>4 DEF Shows
  <2>7. QED
    BY <2>2, <2>3, <2>6 DEF Moves, r
<1>5. CASE p.buffer # <<>> /\ ~p.inside /\ marker # NoMarker
  <2>1. r = [p |-> EnterBlock(p, marker), done |-> FALSE]
    BY <1>1, <1>5
  <2>2. EnterBlock(p, marker) \in Parsers /\ Enters(p, r)
    <3> HIDE DEF marker
    <3>1. marker = FindMarker(p.buffer)
      BY DEF marker
    <3>2. QED
      BY <2>1, <3>1, <1>5, EnterIs
  <2>3. r.p \in Parsers /\ r.done \in BOOLEAN
    BY <2>1, <2>2
  <2>4. QED
    BY <2>2, <2>3 DEF Moves, r
<1>6. CASE p.buffer # <<>> /\ p.inside /\ ends = {}
  <2> DEFINE n == IF final THEN Len(p.buffer) ELSE Len(p.buffer) - HeldPrefix(p.end, p.buffer)
  <2>1. n \in 0..Len(p.buffer)
    <3>1. HeldPrefix(p.end, p.buffer) \in 0..Len(p.buffer)
      BY <1>2, <1>6, HeldPrefixIs, ParserFields DEF Texts
    <3>2. QED
      BY <3>1, <1>2
  <2>2. r.p = Say(p, "thinking", n) /\ r.done = TRUE
    BY <1>1, <1>6 DEF BlockGoesOn
  <2>3. final => n = Len(p.buffer)
    OBVIOUS
  <2> HIDE DEF n
  <2>4. r.p \in Parsers /\ Speaks(p, r.p, "thinking", n) /\ r.p.inside
    BY <2>1, <2>2, <1>6, SayIs
  <2>5. Thinks(p, r, final)
    BY <2>1, <2>2, <2>3, <2>4, <1>6 DEF Thinks
  <2>6. QED
    BY <2>2, <2>4, <2>5 DEF Moves, r
<1>7. CASE p.buffer # <<>> /\ p.inside /\ ends # {}
  <2> DEFINE n == First(ends) + Len(p.end)
             q == Say(p, "thinking", n)
  <2>1. n \in 1..Len(p.buffer)
    <3> HIDE DEF ends
    <3>1. ends = PlacesFrom(p.end, p.buffer, p.entered)
      BY DEF ends
    <3>2. QED
      BY <3>1, <1>7, EndFound
  <2>2. r.p = [q EXCEPT !.inside = FALSE, !.entered = 0] /\ r.done = FALSE
    BY <1>1, <1>7 DEF LeaveBlock
  <2> HIDE DEF n
  <2>3. q \in Parsers /\ Speaks(p, q, "thinking", n) /\ n \in 0..Len(p.buffer) /\ n # 0
    BY <2>1, <1>2, SayIs
  <2> HIDE DEF q
  <2> DEFINE T == [buffer : Texts, inside : BOOLEAN, end : Texts, entered : Nat, out : Seq(Pieces)]
             left == [q EXCEPT !.inside = FALSE, !.entered = 0]
  <2>4. r.p \in Parsers /\ r.p.out = q.out /\ r.p.buffer = q.buffer /\ r.p.inside = FALSE
    <3>1. q \in T
      BY <2>3 DEF Parsers
    <3>2. left \in T /\ left.out = q.out /\ left.buffer = q.buffer /\ left.inside = FALSE
      BY ONLY <3>1
    <3>3. r.p = left
      BY <2>2
    <3> HIDE DEF T, left
    <3>4. left \in Parsers
      BY <3>2 DEF Parsers, T
    <3>5. QED
      BY <3>2, <3>3, <3>4
  <2>5. Speaks(p, r.p, "thinking", n)
    BY <2>3, <2>4 DEF Speaks
  <2>6. Thinks(p, r, final)
    BY <2>2, <2>3, <2>4, <2>5, <1>7 DEF Thinks
  <2>7. QED
    BY <2>2, <2>4, <2>6 DEF Moves, r
<1>8. QED
  BY <1>2, <1>3, <1>4, <1>5, <1>6, <1>7 DEF r

\* Each round of StreamManager too.
LEMMA ManagerStepMoves ==
  ASSUME NEW p \in Parsers, NEW final \in BOOLEAN
  PROVE  Moves(p, ManagerStep(p, final), final)
<1> DEFINE marker == FindMarker(p.buffer)
           ends == PlacesFrom(p.end, p.buffer, p.entered)
           holds == ~p.inside /\ marker = NoMarker /\ ~final /\ HoldsBack(p.buffer)
           r == ManagerStep(p, final)
<1>1. r = IF p.buffer = <<>> \/ holds THEN [p |-> p, done |-> TRUE]
          ELSE IF ~p.inside
          THEN IF marker = NoMarker THEN [p |-> Say(p, "content", Len(p.buffer)), done |-> TRUE]
               ELSE [p |-> EnterBlock(p, marker), done |-> FALSE]
          ELSE IF ends = {} THEN [p |-> WaitForEnd(p, final), done |-> TRUE]
               ELSE [p |-> Outside(Say(p, "thinking", First(ends) + Len(p.end))), done |-> FALSE]
  BY DEF ManagerStep
<1>2. /\ p.buffer \in Texts /\ p.inside \in BOOLEAN /\ Len(p.buffer) \in Nat
      /\ p.buffer \in Seq(Characters) /\ (p.buffer = <<>> <=> Len(p.buffer) = 0)
  BY ParserFields DEF Texts
<1> DEFINE T == [buffer : Texts, inside : BOOLEAN, end : Texts, entered : Nat, out : Seq(Pieces)]
<1>3. ASSUME NEW q \in Parsers
      PROVE  /\ Outside(q) \in Parsers /\ Outside(q).out = q.out /\ Outside(q).buffer = q.buffer
             /\ Outside(q).inside = FALSE
  <2>1. q \in T
    BY DEF Parsers
  <2>2. /\ Outside(q) \in T /\ Outside(q).out = q.out /\ Outside(q).buffer = q.buffer
        /\ Outside(q).inside = FALSE
    BY ONLY <2>1 DEF Outside
  <2> HIDE DEF T
  <2>3. QED
    BY <2>2 DEF Parsers, T
<1> HIDE DEF r
<1>4. CASE p.buffer = <<>> \/ holds
  <2>1. r.p = p /\ r.done = TRUE
    BY <1>1, <1>4
  <2>2. final => p.buffer = <<>>
    BY <1>4
  <2>3. Rests(p, r, final)
    BY <2>1, <2>2 DEF Rests
  <2>4. QED
    BY <2>1, <2>3 DEF Moves, r
<1>5. CASE p.buffer # <<>> /\ ~holds /\ ~p.inside /\ marker = NoMarker
  <2> DEFINE n == Len(p.buffer)
  <2>1. n \in 0..Len(p.buffer)
    BY <1>2
  <2>2. r.p = Say(p, "content", n) /\ r.done = TRUE
    <3> HIDE DEF holds
    <3>1. QED
      BY <1>1, <1>5
  <2>3. r.p \in Parsers /\ Speaks(p, r.p, "content", n) /\ ~r.p.inside
    BY <2>1, <2>2, <1>5, SayIs
  <2>4. ASSUME ~final, NEW block \in Blocks
        PROVE  HeldPrefix(block.start, p.buffer) <= Len(p.buffer) - n
    <3>1. ~HoldsBack(p.buffer)
      BY <2>4, <1>5
    <3>2. ~(HeldPrefix(block.start, p.buffer) > 0)
      BY <3>1 DEF HoldsBack
    <3>3. HeldPrefix(block.start, p.buffer) \in 0..Len(p.buffer)
      BY <1>2, BlockTags, HeldPrefixIs DEF Texts
    <3>4. QED
      BY <3>2, <3>3, <1>2
  <2>5. \A block \in Blocks : Places(block.start, p.buffer) = {}
    BY <1>2, <1>5, MarkerIs
  <2>6. Shows(p, r, final)
    BY <2>1, <2>2, <2>3, <2>4, <2>5, <1>5 DEF Shows
  <2>7. QED
    BY <2>2, <2>3, <2>6 DEF Moves, r
<1>6. CASE p.buffer # <<>> /\ ~p.inside /\ marker # NoMarker
  <2>1. r = [p |-> EnterBlock(p, marker), done |-> FALSE]
    BY <1>1, <1>6
  <2>2. EnterBlock(p, marker) \in Parsers /\ Enters(p, r)
    <3> HIDE DEF marker
    <3>1. marker = FindMarker(p.buffer)
      BY DEF marker
    <3>2. QED
      BY <2>1, <3>1, <1>6, EnterIs
  <2>3. r.p \in Parsers /\ r.done \in BOOLEAN
    BY <2>1, <2>2
  <2>4. QED
    BY <2>2, <2>3 DEF Moves, r
<1>7. CASE p.buffer # <<>> /\ p.inside /\ ends = {}
  <2> DEFINE n == Len(p.buffer)
             q == Say(p, "thinking", n)
  <2>1. n \in 0..Len(p.buffer) /\ n # 0
    BY <1>2, <1>7
  <2>2. r.p = WaitForEnd(p, final) /\ r.done = TRUE
    BY <1>1, <1>7
  <2>3. q \in Parsers /\ Speaks(p, q, "thinking", n) /\ q.inside = p.inside
    <3> HIDE DEF n
    <3>1. QED
      BY <2>1, SayIs
  <2> HIDE DEF q
  <2>4. CASE final
    <3>1. r.p = q
      BY <2>2, <2>4 DEF WaitForEnd, q
    <3>2. Thinks(p, r, final)
      BY <2>1, <2>2, <2>3, <3>1, <1>7 DEF Thinks
    <3>3. QED
      BY <2>2, <2>3, <3>1, <3>2 DEF Moves, r
  <2>5. CASE ~final /\ p.end = <<Newline, Newline>>
    <3>1. r.p = Outside(q)
      BY <2>2, <2>5 DEF WaitForEnd, q
    <3>2. r.p \in Parsers /\ r.p.out = q.out /\ r.p.buffer = q.buffer /\ r.p.inside = FALSE
      BY <2>3, <3>1, <1>3
    <3>3. Speaks(p, r.p, "thinking", n)
      BY <2>3, <3>2 DEF Speaks
    <3>4. Thinks(p, r, final)
      BY <2>1, <2>2, <2>5, <3>2, <3>3, <1>7 DEF Thinks
    <3>5. QED
      BY <2>2, <3>2, <3>4 DEF Moves, r
  <2>6. CASE ~final /\ p.end # <<Newline, Newline>>
    <3>1. r.p = p
      BY <2>2, <2>6 DEF WaitForEnd
    <3>2. Rests(p, r, final)
      BY <2>2, <2>6, <3>1 DEF Rests
    <3>3. QED
      BY <2>2, <3>1, <3>2 DEF Moves, r
  <2>7. QED
    BY <2>4, <2>5, <2>6
<1>8. CASE p.buffer # <<>> /\ p.inside /\ ends # {}
  <2> DEFINE n == First(ends) + Len(p.end)
             q == Say(p, "thinking", n)
  <2>1. n \in 1..Len(p.buffer)
    <3> HIDE DEF ends
    <3>1. ends = PlacesFrom(p.end, p.buffer, p.entered)
      BY DEF ends
    <3>2. QED
      BY <3>1, <1>8, EndFound
  <2>2. r.p = Outside(q) /\ r.done = FALSE
    BY <1>1, <1>8
  <2> HIDE DEF n
  <2>3. q \in Parsers /\ Speaks(p, q, "thinking", n) /\ n \in 0..Len(p.buffer) /\ n # 0
    BY <2>1, <1>2, SayIs
  <2> HIDE DEF q
  <2>4. r.p \in Parsers /\ r.p.out = q.out /\ r.p.buffer = q.buffer /\ r.p.inside = FALSE
    BY <2>2, <2>3, <1>3
  <2>5. Speaks(p, r.p, "thinking", n)
    BY <2>3, <2>4 DEF Speaks
  <2>6. Thinks(p, r, final)
    BY <2>2, <2>3, <2>4, <2>5, <1>8 DEF Thinks
  <2>7. QED
    BY <2>2, <2>4, <2>6 DEF Moves, r
<1>9. QED
  <2> HIDE DEF holds, marker, ends
  <2>1. QED
    BY <1>2, <1>4, <1>5, <1>6, <1>7, <1>8 DEF r

-----------------------------------------------------------------------------
(* What messages say.                                                      *)

Letters == Characters \union {Thoughts[n] : n \in 1..MaxCost}
Notes   == [type : {"content", "thinking"}, text : Seq(Letters)]
WholeOf == [m \in Notes |-> m.text]
TextOf(type) == [m \in Notes |-> IF m.type = type THEN m.text ELSE <<>>]
IsFromText(text) == \A i \in 1..Len(text) : text[i] \in Characters
FromTextOf == [m \in Notes |-> IF IsFromText(m.text) THEN m.text ELSE <<>>]

LEMMA TextsAreWritten == ASSUME NEW text \in Texts PROVE text \in Seq(Letters)
<1>1. Characters \subseteq Letters
  BY DEF Letters
<1>2. QED
  BY <1>1, SeqMonotonic DEF Texts

LEMMA PiecesAreNotes == ASSUME NEW list \in Seq(Pieces) PROVE list \in Seq(Notes)
<1>1. Pieces \subseteq Notes
  BY TextsAreWritten DEF Pieces, Notes
<1>2. QED
  BY <1>1, SeqMonotonic

LEMMA NotesSay ==
  /\ WholeOf \in [Notes -> Seq(Letters)] /\ FromTextOf \in [Notes -> Seq(Letters)]
  /\ \A type : TextOf(type) \in [Notes -> Seq(Letters)]
<1>1. \A m \in Notes : m.text \in Seq(Letters)
  BY DEF Notes
<1>2. <<>> \in Seq(Letters)
  OBVIOUS
<1>3. QED
  BY <1>1, <1>2 DEF WholeOf, FromTextOf, TextOf

LEMMA MessagesSay ==
  ASSUME NEW list \in Seq(Notes)
  PROVE  /\ Whole(list) = Gathered(list, WholeOf)
         /\ FromText(list) = Gathered(list, FromTextOf)
         /\ \A type : Text(list, type) = Gathered(list, TextOf(type))
<1>1. \A n \in 1..Len(list) : list[n] \in Notes
  OBVIOUS
<1>2. [n \in 1..Len(list) |-> list[n].text] = SaidOf(list, WholeOf)
  BY <1>1 DEF SaidOf, WholeOf
<1>3. ASSUME NEW type
      PROVE  [n \in 1..Len(list) |-> IF list[n].type = type THEN list[n].text ELSE <<>>]
               = SaidOf(list, TextOf(type))
  BY <1>1 DEF SaidOf, TextOf
<1>4. [n \in 1..Len(list) |-> IF \A i \in 1..Len(list[n].text) : list[n].text[i] \in Characters
                               THEN list[n].text ELSE <<>>]
        = SaidOf(list, FromTextOf)
  BY <1>1 DEF SaidOf, FromTextOf, IsFromText
<1>5. QED
  BY <1>2, <1>3, <1>4 DEF Gathered, Whole, FromText, Text

LEMMA GatheredOne ==
  ASSUME NEW M, NEW S, NEW says \in [M -> Seq(S)], NEW e \in M
  PROVE  Gathered(<<e>>, says) = says[e]
<1>1. <<>> \in Seq(M) /\ Append(<<>>, e) = <<e>>
  OBVIOUS
<1>2. Gathered(Append(<<>>, e), says) = Gathered(<<>>, says) \o says[e]
  BY <1>1, GatheredAppend
<1>3. says[e] \in Seq(S)
  OBVIOUS
<1>4. <<>> \o says[e] = says[e]
  BY <1>3, ConcatEmptySeq
<1>5. QED
  BY <1>1, <1>2, <1>4, GatheredEmpty

\* What two lists of messages say, one behind the other.
LEMMA MessagesJoin ==
  ASSUME NEW a \in Seq(Notes), NEW b \in Seq(Notes)
  PROVE  /\ a \o b \in Seq(Notes)
         /\ Whole(a \o b) = Whole(a) \o Whole(b)
         /\ FromText(a \o b) = FromText(a) \o FromText(b)
         /\ \A type : Text(a \o b, type) = Text(a, type) \o Text(b, type)
<1> DEFINE c == a \o b
<1>1. c \in Seq(Notes)
  BY ConcatProperties
<1>2. ASSUME NEW says \in [Notes -> Seq(Letters)]
      PROVE  Gathered(c, says) = Gathered(a, says) \o Gathered(b, says)
  BY GatheredConcat
<1> HIDE DEF c
<1>3. QED
  BY <1>1, <1>2, NotesSay, MessagesSay DEF c

LEMMA MessagesType ==
  ASSUME NEW a \in Seq(Notes)
  PROVE  /\ Whole(a) \in Seq(Letters) /\ FromText(a) \in Seq(Letters)
         /\ \A type : Text(a, type) \in Seq(Letters)
BY NotesSay, MessagesSay, GatheredType

LEMMA NoMessages ==
  /\ Whole(<<>>) = <<>> /\ FromText(<<>>) = <<>> /\ \A type : Text(<<>>, type) = <<>>
<1>1. <<>> \in Seq(Notes)
  OBVIOUS
<1>2. QED
  BY <1>1, MessagesSay, GatheredEmpty

LEMMA OneMessage ==
  ASSUME NEW m \in Notes
  PROVE  /\ <<m>> \in Seq(Notes) /\ Whole(<<m>>) = m.text
         /\ FromText(<<m>>) = IF IsFromText(m.text) THEN m.text ELSE <<>>
<1>1. <<m>> \in Seq(Notes)
  OBVIOUS
<1>2. /\ Gathered(<<m>>, WholeOf) = WholeOf[m]
      /\ Gathered(<<m>>, FromTextOf) = FromTextOf[m]
  BY NotesSay, GatheredOne
<1>3. WholeOf[m] = m.text /\ FromTextOf[m] = IF IsFromText(m.text) THEN m.text ELSE <<>>
  BY DEF WholeOf, FromTextOf
<1>4. QED
  BY <1>1, <1>2, <1>3, MessagesSay

LEMMA OneMore ==
  ASSUME NEW a \in Seq(Notes), NEW m \in Notes
  PROVE  Append(a, m) \in Seq(Notes) /\ Whole(Append(a, m)) = Whole(a) \o m.text
<1>1. Append(a, m) = a \o <<m>>
  BY AppendIsConcat
<1>2. QED
  BY <1>1, OneMessage, MessagesJoin

\* The pieces of a parser are text.
LEMMA PiecesAreText ==
  ASSUME NEW a \in Seq(Pieces)
  PROVE  FromText(a) = Whole(a) /\ Whole(a) \in Texts
<1>1. a \in Seq(Notes) /\ \A n \in 1..Len(a) : a[n] \in Pieces /\ a[n] \in Notes
  <2>1. a \in Seq(Notes)
    BY PiecesAreNotes
  <2>2. QED
    BY <2>1
<1>2. \A n \in 1..Len(a) : a[n].text \in Texts /\ IsFromText(a[n].text)
  BY <1>1 DEF Pieces, IsFromText, Texts
<1>3. SaidOf(a, FromTextOf) = SaidOf(a, WholeOf)
  BY <1>1, <1>2 DEF SaidOf, FromTextOf, WholeOf
<1>4. FromText(a) = Whole(a)
  BY <1>1, <1>3, MessagesSay DEF Gathered
<1> DEFINE says == [m \in Pieces |-> m.text]
<1>5. says \in [Pieces -> Texts]
  BY DEF Pieces
<1>6. SaidOf(a, WholeOf) = SaidOf(a, says)
  BY <1>1 DEF SaidOf, WholeOf
<1> HIDE DEF says
<1>7. Gathered(a, says) \in Texts
  BY <1>5, GatheredType DEF Texts
<1>8. QED
  BY <1>1, <1>4, <1>6, <1>7, MessagesSay DEF Gathered

-----------------------------------------------------------------------------
(* Round after round: nothing is lost, and there are enough of them.       *)

LEMMA JoinedOver ==
  ASSUME NEW S, NEW a \in Seq(S), NEW b \in Seq(S), NEW c \in Seq(S), NEW text, text = b \o c
  PROVE  (a \o b) \o c = a \o text
BY ConcatAssociative

LEMMA SpeaksTheText ==
  ASSUME NEW p \in Parsers, NEW q \in Parsers, NEW type \in {"content", "thinking"},
         NEW n \in 0..Len(p.buffer), Speaks(p, q, type, n)
  PROVE  /\ Whole(q.out) \o q.buffer = Whole(p.out) \o p.buffer
         /\ Len(q.buffer) = Len(p.buffer) - n
         /\ \E said \in Seq(Pieces) :
              /\ q.out = p.out \o said
              /\ Whole(said) = Until(p.buffer, n)
              /\ said = IF n = 0 THEN <<>> ELSE <<[type |-> type, text |-> Until(p.buffer, n)]>>
<1> DEFINE piece == [type |-> type, text |-> Until(p.buffer, n)]
           said == IF n = 0 THEN <<>> ELSE <<piece>>
<1>1. p.out \in Seq(Pieces) /\ p.buffer \in Seq(Characters) /\ Len(p.buffer) \in Nat
  BY ParserFields DEF Texts
<1>2. /\ Until(p.buffer, n) \in Seq(Characters) /\ From(p.buffer, n) \in Seq(Characters)
      /\ Until(p.buffer, n) \o From(p.buffer, n) = p.buffer
      /\ Len(From(p.buffer, n)) = Len(p.buffer) - n
  <2> DEFINE text == p.buffer
  <2>1. text \in Seq(Characters) /\ n \in 0..Len(text)
    BY <1>1
  <2> HIDE DEF text
  <2>2. /\ Until(text, n) \in Seq(Characters) /\ From(text, n) \in Seq(Characters)
        /\ Until(text, n) \o From(text, n) = text
        /\ Len(From(text, n)) = Len(text) - n
    BY ONLY <2>1, Cut
  <2>3. QED
    BY <2>2 DEF text
<1>3. piece \in Pieces /\ piece.text = Until(p.buffer, n)
  BY <1>2 DEF Pieces, Texts
<1>4. /\ q.out = IF n = 0 THEN p.out ELSE Append(p.out, piece)
      /\ q.buffer = From(p.buffer, n)
  BY DEF Speaks
<1> HIDE DEF piece
<1>5. said \in Seq(Pieces) /\ q.out = p.out \o said
  <2>1. CASE n = 0
    BY <2>1, <1>1, <1>4, ConcatEmptySeq
  <2>2. CASE n # 0
    BY <2>2, <1>1, <1>3, <1>4, AppendIsConcat
  <2>3. QED
    BY <2>1, <2>2
<1>6. Whole(said) = Until(p.buffer, n)
  <2>1. CASE n = 0
    BY <2>1, <1>1, NoMessages, CutAtTheEnds
  <2>2. CASE n # 0
    <3>1. piece \in Notes
      BY <1>3, TextsAreWritten DEF Pieces, Notes
    <3>2. QED
      BY <2>2, <3>1, <1>3, OneMessage
  <2>3. QED
    BY <2>1, <2>2
<1> HIDE DEF said
<1>7. Whole(q.out) = Whole(p.out) \o Until(p.buffer, n)
  BY <1>1, <1>5, <1>6, PiecesAreNotes, MessagesJoin
<1>8. Whole(p.out) \in Seq(Characters)
  BY <1>1, PiecesAreText DEF Texts
<1>9. Whole(q.out) \o q.buffer = Whole(p.out) \o p.buffer
  <2> DEFINE a == Whole(p.out)
             b == Until(p.buffer, n)
             c == From(p.buffer, n)
  <2>1. a \in Seq(Characters) /\ b \in Seq(Characters) /\ c \in Seq(Characters) /\ p.buffer = b \o c
    BY <1>2, <1>8
  <2>2. Whole(q.out) = a \o b /\ q.buffer = c
    BY <1>4, <1>7
  <2> HIDE DEF a, b, c
  <2>3. (a \o b) \o c = a \o p.buffer
    BY ONLY <2>1, JoinedOver
  <2>4. QED
    BY <2>2, <2>3 DEF a
<1>10. QED
  BY <1>2, <1>4, <1>5, <1>6, <1>9 DEF said, piece

\* What is left to do: a character less, or a block entered.
Measure(p) == 2 * Len(p.buffer) + IF p.inside THEN 0 ELSE 1

LEMMA MovesGoOn ==
  ASSUME NEW p \in Parsers, NEW final \in BOOLEAN, NEW r, Moves(p, r, final)
  PROVE  /\ Whole(r.p.out) \o r.p.buffer = Whole(p.out) \o p.buffer
         /\ r.done => (final => r.p.buffer = <<>>)
         /\ ~r.done => Measure(r.p) <= Measure(p) - 1
<1>1. r.p \in Parsers /\ r.done \in BOOLEAN
  BY DEF Moves
<1>2. Len(p.buffer) \in Nat /\ Len(r.p.buffer) \in Nat
  BY <1>1, ParserFields
<1>3. CASE Rests(p, r, final)
  BY <1>3 DEF Rests
<1>4. CASE Shows(p, r, final)
  <2>1. PICK n \in 0..Len(p.buffer) : Speaks(p, r.p, "content", n) /\ (final => n = Len(p.buffer))
    BY <1>4 DEF Shows
  <2>2. /\ Whole(r.p.out) \o r.p.buffer = Whole(p.out) \o p.buffer
        /\ Len(r.p.buffer) = Len(p.buffer) - n
    BY <1>1, <2>1, SpeaksTheText
  <2>3. final => r.p.buffer = <<>>
    BY <1>1, <1>2, <2>1, <2>2, ParserFields
  <2>4. QED
    BY <2>2, <2>3, <1>4 DEF Shows
<1>5. CASE Enters(p, r)
  <2>1. PICK n \in 0..Len(p.buffer) : Speaks(p, r.p, "content", n)
    BY <1>5 DEF Enters
  <2>2. /\ Whole(r.p.out) \o r.p.buffer = Whole(p.out) \o p.buffer
        /\ Len(r.p.buffer) = Len(p.buffer) - n
    BY <1>1, <2>1, SpeaksTheText
  <2>3. ~r.done /\ Measure(r.p) = 2 * Len(r.p.buffer) /\ Measure(p) = 2 * Len(p.buffer) + 1
    BY <1>5, <1>2 DEF Enters, Measure
  <2>4. QED
    BY <2>1, <2>2, <2>3, <1>2
<1>6. CASE Thinks(p, r, final)
  <2>1. PICK n \in 0..Len(p.buffer) :
          /\ Speaks(p, r.p, "thinking", n)
          /\ ~r.p.inside => n # 0
          /\ IF r.done THEN final => n = Len(p.buffer) ELSE ~r.p.inside
    BY <1>6 DEF Thinks
  <2>2. /\ Whole(r.p.out) \o r.p.buffer = Whole(p.out) \o p.buffer
        /\ Len(r.p.buffer) = Len(p.buffer) - n
    BY <1>1, <2>1, SpeaksTheText
  <2>3. r.done => (final => r.p.buffer = <<>>)
    BY <1>1, <1>2, <2>1, <2>2, ParserFields
  <2>4. ASSUME ~r.done PROVE Measure(r.p) <= Measure(p) - 1
    <3>1. Measure(r.p) = 2 * Len(r.p.buffer) + 1 /\ Measure(p) = 2 * Len(p.buffer) /\ n # 0
      <4>1. p.inside /\ ~r.p.inside
        BY <1>6, <2>1, <2>4 DEF Thinks
      <4>2. QED
        BY <4>1, <2>1, <1>2 DEF Measure
    <3>2. QED
      BY <2>1, <2>2, <3>1, <1>2
  <2>5. QED
    BY <2>2, <2>3, <2>4
<1>7. QED
  BY <1>3, <1>4, <1>5, <1>6 DEF Moves

-----------------------------------------------------------------------------
(* Tags that a text has, or could have the beginning of.                   *)

\* The tag stands at this place, or as much of it as there is text.
Meets(tag, text, n) == \A k \in 1..Len(tag) : n + k <= Len(text) => tag[k] = text[n + k]

\* No tag begins in what is shown, whatever follows the rest.
NoneMeets(shown, rest) ==
  \A block \in Blocks : \A n \in 0..Len(shown) - 1 : ~Meets(block.start, shown \o rest, n)

LEMMA OccursMeets ==
  ASSUME NEW S, NEW tag \in Seq(S), NEW text \in Seq(S), NEW n \in Nat, OccursAt(tag, text, n)
  PROVE  /\ n + Len(tag) <= Len(text)
         /\ \A k \in 1..Len(tag) : tag[k] = text[n + k]
<1>1. Len(tag) \in Nat /\ Len(text) \in Nat /\ n + Len(tag) <= Len(text)
      /\ SubSeq(text, n + 1, n + Len(tag)) = tag
  BY DEF OccursAt
<1>2. ASSUME NEW k \in 1..Len(tag) PROVE tag[k] = text[n + k]
  <2>1. \A i \in n + 1..n + Len(tag) : text[i] \in S
    BY <1>1
  <2>2. k \in 1..(n + Len(tag)) - (n + 1) + 1 /\ (n + 1) + k - 1 = n + k
    BY <1>1
  <2>3. SubSeq(text, n + 1, n + Len(tag))[k] = text[(n + 1) + k - 1]
    BY <1>1, <2>1, <2>2, SubSeqProperties
  <2>4. QED
    BY <1>1, <2>2, <2>3
<1>3. QED
  BY <1>1, <1>2

LEMMA MeetsOccurs ==
  ASSUME NEW S, NEW tag \in Seq(S), NEW text \in Seq(S), NEW n \in Nat,
         n + Len(tag) <= Len(text), \A k \in 1..Len(tag) : tag[k] = text[n + k]
  PROVE  OccursAt(tag, text, n)
<1> DEFINE part == SubSeq(text, n + 1, n + Len(tag))
<1>1. Len(tag) \in Nat /\ Len(text) \in Nat
  OBVIOUS
<1>2. \A i \in n + 1..n + Len(tag) : text[i] \in S
  BY <1>1
<1>3. /\ part \in Seq(S) /\ Len(part) = Len(tag)
      /\ \A k \in 1..Len(tag) : part[k] = text[n + k]
  BY <1>1, <1>2
<1> HIDE DEF part
<1>4. part = tag
  BY <1>3, SeqEqual
<1>5. QED
  BY <1>4 DEF OccursAt, part

LEMMA LettersOfTags ==
  ASSUME NEW block \in Blocks
  PROVE  /\ block.start \in Seq(Letters) /\ block.start # <<>> /\ Len(block.start) \in Nat
         /\ Len(block.start) >= 1
<1>1. block.start \in Texts /\ block.start # <<>>
  BY BlockTags
<1>2. block.start \in Seq(Letters)
  BY <1>1, TextsAreWritten
<1>3. QED
  BY <1>1, <1>2

\* What is shown has no tag.
LEMMA NoneOccurs ==
  ASSUME NEW shown \in Seq(Letters), NEW rest \in Seq(Letters), NoneMeets(shown, rest),
         NEW block \in Blocks
  PROVE  Places(block.start, shown) = {}
<1> DEFINE tag == block.start
           text == shown \o rest
<1>1. /\ tag \in Seq(Letters) /\ text \in Seq(Letters) /\ Len(tag) \in Nat
      /\ Len(shown) \in Nat /\ Len(rest) \in Nat
      /\ Len(text) = Len(shown) + Len(rest)
      /\ \A i \in 1..Len(shown) : text[i] = shown[i]
  BY LettersOfTags, ConcatProperties
<1> HIDE DEF tag, text
<1>2. ASSUME NEW n \in 0..Len(shown) - 1, OccursAt(tag, shown, n) PROVE FALSE
  <2>1. /\ n \in Nat /\ n + Len(tag) <= Len(shown)
        /\ \A k \in 1..Len(tag) : tag[k] = shown[n + k]
    BY <1>1, <1>2, OccursMeets
  <2>2. \A k \in 1..Len(tag) : n + k \in 1..Len(shown)
    BY <2>1, <1>1
  <2>3. Meets(tag, text, n)
    BY <2>1, <2>2, <1>1 DEF Meets
  <2>4. QED
    BY <2>3 DEF NoneMeets, tag, text
<1>3. QED
  BY <1>2 DEF Places, tag

\* More text does not change that.
LEMMA NoneMeetsMore ==
  ASSUME NEW shown \in Seq(Letters), NEW rest \in Seq(Letters), NEW more \in Seq(Letters),
         NoneMeets(shown, rest)
  PROVE  NoneMeets(shown, rest \o more)
<1> DEFINE text == shown \o rest
           longer == shown \o (rest \o more)
<1>1. longer = text \o more
  BY ConcatAssociative
<1>2. text \in Seq(Letters) /\ Len(text) \in Nat /\ Len(more) \in Nat
  BY ConcatProperties
<1> HIDE DEF text, longer
<1>3. /\ Len(longer) = Len(text) + Len(more)
      /\ \A i \in 1..Len(text) : longer[i] = text[i]
  BY <1>1, <1>2, ConcatProperties
<1>4. ASSUME NEW block \in Blocks, NEW n \in 0..Len(shown) - 1, Meets(block.start, longer, n)
      PROVE  FALSE
  <2>1. Len(shown) \in Nat /\ n \in Nat /\ Len(block.start) \in Nat
    BY LettersOfTags
  <2>2. ASSUME NEW k \in 1..Len(block.start), n + k <= Len(text)
        PROVE  block.start[k] = text[n + k]
    <3>1. n + k \in 1..Len(text) /\ n + k <= Len(longer)
      BY <2>1, <2>2, <1>2, <1>3
    <3>2. block.start[k] = longer[n + k]
      BY <3>1, <1>4 DEF Meets
    <3>3. QED
      BY <3>1, <3>2, <1>3
  <2>3. Meets(block.start, text, n)
    BY <2>2 DEF Meets
  <2>4. QED
    BY <2>3 DEF NoneMeets, text
<1>5. QED
  BY <1>4 DEF NoneMeets, longer

\* A text behind another: a place in it.
LEMMA MeetsBehind ==
  ASSUME NEW S, NEW shown \in Seq(S), NEW text \in Seq(S), NEW tag \in Seq(S),
         NEW n \in Nat, n >= Len(shown), Meets(tag, shown \o text, n)
  PROVE  Meets(tag, text, n - Len(shown))
<1> DEFINE whole == shown \o text
<1>1. /\ Len(shown) \in Nat /\ Len(text) \in Nat /\ Len(tag) \in Nat
      /\ Len(whole) = Len(shown) + Len(text)
      /\ \A i \in 1..Len(shown) + Len(text) :
           whole[i] = IF i <= Len(shown) THEN shown[i] ELSE text[i - Len(shown)]
  BY ConcatProperties
<1> HIDE DEF whole
<1>2. ASSUME NEW k \in 1..Len(tag), (n - Len(shown)) + k <= Len(text)
      PROVE  tag[k] = text[(n - Len(shown)) + k]
  <2>1. n + k <= Len(whole) /\ n + k \in 1..Len(shown) + Len(text) /\ ~(n + k <= Len(shown))
    BY <1>1, <1>2
  <2>2. tag[k] = whole[n + k]
    BY <2>1 DEF Meets, whole
  <2>3. (n + k) - Len(shown) = (n - Len(shown)) + k
    BY <1>1
  <2>4. QED
    BY <2>1, <2>2, <2>3, <1>1
<1>3. QED
  BY <1>2 DEF Meets

\* What is shown grows by the beginning of the rest.
LEMMA NoneMeetsShown ==
  ASSUME NEW shown \in Seq(Letters), NEW b \in Seq(Letters), NEW c \in Seq(Letters),
         NEW text, text = b \o c, NoneMeets(shown, text), NoneMeets(b, c)
  PROVE  NoneMeets(shown \o b, c)
<1> DEFINE longer == shown \o b
<1>1. longer \o c = shown \o text
  BY ConcatAssociative
<1>2. /\ longer \in Seq(Letters) /\ Len(longer) = Len(shown) + Len(b)
      /\ Len(shown) \in Nat /\ Len(b) \in Nat /\ text \in Seq(Letters)
  BY ConcatProperties
<1> HIDE DEF longer
<1>3. ASSUME NEW block \in Blocks, NEW n \in 0..Len(longer) - 1,
             Meets(block.start, longer \o c, n)
      PROVE  FALSE
  <2>1. n \in Nat /\ block.start \in Seq(Letters)
    BY <1>2, LettersOfTags
  <2>2. Meets(block.start, shown \o text, n)
    BY <1>1, <1>3
  <2>3. CASE n < Len(shown)
    <3>1. n \in 0..Len(shown) - 1
      BY <2>1, <2>3, <1>2
    <3>2. QED
      BY <2>2, <3>1 DEF NoneMeets
  <2>4. CASE n >= Len(shown)
    <3>1. n - Len(shown) \in 0..Len(b) - 1
      BY <2>1, <2>4, <1>2
    <3>2. Meets(block.start, text, n - Len(shown))
      BY <2>1, <2>2, <2>4, <1>2, MeetsBehind
    <3>3. QED
      BY <3>1, <3>2 DEF NoneMeets
  <2>5. QED
    BY <2>1, <2>3, <2>4, <1>2
<1>4. QED
  BY <1>3 DEF NoneMeets, longer

\* What precedes the tags of a text, shown behind what has none.
LEMMA NoneOccursBefore ==
  ASSUME NEW shown \in Seq(Letters), NEW b \in Seq(Letters), NEW c \in Seq(Letters),
         NEW text, text = b \o c, NoneMeets(shown, text), NEW block \in Blocks,
         \A n \in Places(block.start, text) : Len(b) <= n
  PROVE  Places(block.start, shown \o b) = {}
<1> DEFINE longer == shown \o b
           tag == block.start
<1>1. /\ longer \in Seq(Letters) /\ Len(longer) = Len(shown) + Len(b)
      /\ \A i \in 1..Len(shown) + Len(b) :
           longer[i] = IF i <= Len(shown) THEN shown[i] ELSE b[i - Len(shown)]
  BY ConcatProperties
<1>2. /\ text \in Seq(Letters) /\ Len(text) = Len(b) + Len(c)
      /\ \A i \in 1..Len(b) : text[i] = b[i]
  BY ConcatProperties
<1>3. /\ Len(shown) \in Nat /\ Len(b) \in Nat /\ Len(c) \in Nat
      /\ tag \in Seq(Letters) /\ Len(tag) \in Nat /\ Len(tag) >= 1
  BY LettersOfTags
<1> DEFINE whole == shown \o text
<1>4. /\ Len(whole) = Len(shown) + Len(text)
      /\ \A i \in 1..Len(shown) + Len(text) :
           whole[i] = IF i <= Len(shown) THEN shown[i] ELSE text[i - Len(shown)]
  BY <1>2, ConcatProperties
<1> HIDE DEF longer, whole
<1>5. \A i \in 1..Len(longer) : longer[i] = whole[i]
  <2>1. ASSUME NEW i \in 1..Len(longer) PROVE longer[i] = whole[i]
    <3>1. i \in 1..Len(shown) + Len(b) /\ i \in 1..Len(shown) + Len(text)
      BY <1>1, <1>2, <1>3
    <3>2. CASE i <= Len(shown)
      BY <3>1, <3>2, <1>1, <1>4
    <3>3. CASE ~(i <= Len(shown))
      <4>1. i - Len(shown) \in 1..Len(b)
        BY <3>1, <3>3, <1>3
      <4>2. QED
        BY <3>1, <3>3, <4>1, <1>1, <1>2, <1>4
    <3>4. QED
      BY <3>2, <3>3
  <2>2. QED
    BY <2>1
<1> HIDE DEF tag
<1>6. ASSUME NEW n \in 0..Len(longer) - 1, OccursAt(tag, longer, n) PROVE FALSE
  <2>1. /\ n \in Nat /\ n + Len(tag) <= Len(longer)
        /\ \A k \in 1..Len(tag) : tag[k] = longer[n + k]
    BY <1>1, <1>3, <1>6, OccursMeets
  <2>2. \A k \in 1..Len(tag) : n + k \in 1..Len(longer)
    BY <2>1, <1>1, <1>3
  <2>3. Meets(tag, whole, n)
    BY <2>1, <2>2, <1>5 DEF Meets
  <2>4. CASE n < Len(shown)
    <3>1. n \in 0..Len(shown) - 1
      BY <2>1, <2>4, <1>3
    <3>2. QED
      BY <2>3, <3>1 DEF NoneMeets, whole, tag
  <2>5. CASE n >= Len(shown)
    <3> DEFINE m == n - Len(shown)
    <3>1. m \in Nat /\ m + Len(tag) <= Len(b) /\ m + Len(tag) <= Len(text) /\ m \in 0..Len(text) - 1
          /\ m < Len(b)
      BY <2>1, <2>5, <1>1, <1>2, <1>3
    <3>2. Meets(tag, text, m)
      BY <2>1, <2>3, <2>5, <1>2, <1>3, MeetsBehind DEF whole
    <3> HIDE DEF m
    <3>3. \A k \in 1..Len(tag) : tag[k] = text[m + k]
      <4>1. \A k \in 1..Len(tag) : m + k <= Len(text)
        BY <3>1, <1>2, <1>3
      <4>2. QED
        BY <3>2, <4>1 DEF Meets
    <3>4. OccursAt(tag, text, m)
      BY <3>1, <3>3, <1>2, <1>3, MeetsOccurs
    <3>5. m \in Places(block.start, text)
      BY <3>1, <3>4 DEF Places, tag
    <3>6. QED
      BY <3>1, <3>5, <1>3
  <2>6. QED
    BY <2>1, <2>4, <2>5, <1>3
<1>7. QED
  BY <1>6 DEF Places, longer, tag

\* A text without a tag, up to where the beginning of one may stand.
LEMMA NoneMeetsSafe ==
  ASSUME NEW text \in Texts, NEW n \in 0..Len(text),
         \A block \in Blocks : /\ Places(block.start, text) = {}
                               /\ HeldPrefix(block.start, text) <= Len(text) - n
  PROVE  NoneMeets(Until(text, n), From(text, n))
<1>1. /\ Until(text, n) \o From(text, n) = text /\ Len(Until(text, n)) = n
      /\ Len(text) \in Nat /\ n \in Nat /\ n <= Len(text)
  <2>1. text \in Seq(Characters)
    BY DEF Texts
  <2>2. Until(text, n) \o From(text, n) = text /\ Len(Until(text, n)) = n
    BY <2>1, Cut
  <2>3. QED
    BY <2>1, <2>2
<1>2. ASSUME NEW block \in Blocks, NEW m \in 0..n - 1, Meets(block.start, text, m) PROVE FALSE
  <2> DEFINE tag == block.start
  <2>1. tag \in Seq(Characters) /\ tag # <<>> /\ Len(tag) \in Nat /\ m \in Nat /\ m < n
        /\ text \in Seq(Characters)
    BY <1>1, BlockTags DEF Texts
  <2>2. \A k \in 1..Len(tag) : m + k <= Len(text) => tag[k] = text[m + k]
    BY <1>2 DEF Meets
  <2> HIDE DEF tag
  <2>3. CASE m + Len(tag) <= Len(text)
    <3>1. \A k \in 1..Len(tag) : m + k <= Len(text)
      BY <2>1, <2>3, <1>1
    <3>2. OccursAt(tag, text, m)
      BY <2>1, <2>2, <2>3, <3>1, MeetsOccurs
    <3>3. m \in 0..Len(text) - 1
      BY <2>1, <1>1
    <3>4. m \in Places(block.start, text)
      BY <3>2, <3>3 DEF Places, tag
    <3>5. QED
      BY <3>4
  <2>4. CASE m + Len(tag) > Len(text)
    <3> DEFINE h == Len(text) - m
    <3>1. h \in 0..Len(tag) - 1 /\ h \in 0..Len(text) /\ h > Len(text) - n /\ Len(text) - h = m
          /\ h \in 0..Len(tag) /\ m \in 0..Len(text)
      BY <2>1, <2>4, <1>1
    <3>2. /\ Until(tag, h) \in Seq(Characters) /\ Len(Until(tag, h)) = h
          /\ \A i \in 1..h : Until(tag, h)[i] = tag[i]
      BY <2>1, <3>1, Cut
    <3>3. /\ From(text, m) \in Seq(Characters) /\ Len(From(text, m)) = Len(text) - m
          /\ \A i \in 1..Len(text) - m : From(text, m)[i] = text[m + i]
      BY <2>1, <3>1, Cut
    <3>4. \A i \in 1..h : tag[i] = text[m + i]
      <4>1. \A i \in 1..h : i \in 1..Len(tag) /\ m + i <= Len(text)
        BY <2>1, <3>1, <1>1
      <4>2. QED
        BY <4>1, <2>2
    <3>5. From(text, m) = Until(tag, h)
      BY <3>2, <3>3, <3>4, SeqEqual
    <3>6. EndsWith(text, Until(tag, h))
      BY <3>1, <3>2, <3>5, <1>1 DEF EndsWith
    <3>7. h <= HeldPrefix(tag, text)
      BY <2>1, <3>1, <3>6, HeldPrefixIs
    <3>8. HeldPrefix(tag, text) \in 0..Len(text) /\ HeldPrefix(tag, text) <= Len(text) - n
      BY <2>1, HeldPrefixIs DEF tag
    <3> HIDE DEF h
    <3>9. QED
      BY <3>1, <3>7, <3>8, <1>1
  <2>5. QED
    BY <2>1, <2>3, <2>4, <1>1
<1>3. QED
  BY <1>1, <1>2 DEF NoneMeets

-----------------------------------------------------------------------------
(* Runs of content among the messages.                                     *)

AllContent(list, m, n) == \A k \in m..n : list[k].type = "content"
Run(list, m, n) == Whole(SubSeq(list, m, n))

\* The run of content that the list ends with has not begun a tag that the rest completes.
Waiting(list, rest) ==
  \A m \in 1..Len(list) + 1 :
    AllContent(list, m, Len(list)) => NoneMeets(Run(list, m, Len(list)), rest)

LEMMA RunIs ==
  ASSUME NEW list \in Seq(Notes), NEW m \in 1..Len(list) + 1
  PROVE  SubSeq(list, m, Len(list)) \in Seq(Notes) /\ Run(list, m, Len(list)) \in Seq(Letters)
<1> DEFINE N == Len(list)
<1>1. N \in Nat /\ m \in Nat /\ m >= 1 /\ m <= N + 1
  OBVIOUS
<1>2. \A i \in m..N : list[i] \in Notes
  BY <1>1
<1>3. SubSeq(list, m, N) \in Seq(Notes)
  <2> HIDE DEF N
  <2>1. QED
    BY <1>1, <1>2, SubSeqProperties
<1>4. QED
  BY <1>3, MessagesType DEF Run

LEMMA RunGrows ==
  ASSUME NEW list \in Seq(Notes), NEW e \in Notes, NEW m \in 1..Len(list) + 1
  PROVE  Run(Append(list, e), m, Len(list) + 1) = Run(list, m, Len(list)) \o e.text
<1> DEFINE N == Len(list)
           longer == Append(list, e)
           short == SubSeq(list, m, N)
           long == SubSeq(longer, m, N + 1)
<1>1. N \in Nat /\ m \in Nat /\ m >= 1 /\ m <= N + 1
  OBVIOUS
<1>2. /\ longer \in Seq(Notes) /\ Len(longer) = N + 1 /\ longer[N + 1] = e
      /\ \A i \in 1..N : longer[i] = list[i]
  BY AppendProperties
<1>3. /\ short \in Seq(Notes) /\ Len(short) = N - m + 1
      /\ \A i \in 1..N - m + 1 : short[i] = list[m + i - 1]
  <2>1. \A i \in m..N : list[i] \in Notes
    BY <1>1
  <2>2. IF m <= N THEN N - m + 1 = N - m + 1 ELSE N - m + 1 = 0
    BY <1>1
  <2> HIDE DEF N
  <2>3. QED
    BY <1>1, <2>1, <2>2, SubSeqProperties
<1> HIDE DEF longer, short
<1>4. /\ long \in Seq(Notes) /\ Len(long) = N - m + 2
      /\ \A i \in 1..N - m + 2 : long[i] = longer[m + i - 1]
  <2>1. \A i \in m..N + 1 : longer[i] \in Notes
    BY <1>1, <1>2
  <2>2. m <= N + 1 /\ (N + 1) - m + 1 = N - m + 2
    BY <1>1
  <2> HIDE DEF N
  <2>3. QED
    BY <1>1, <2>1, <2>2, SubSeqProperties
<1> HIDE DEF long, N
<1>5. /\ Append(short, e) \in Seq(Notes) /\ Len(Append(short, e)) = N - m + 2
      /\ \A i \in 1..N - m + 1 : Append(short, e)[i] = list[m + i - 1]
      /\ Append(short, e)[N - m + 2] = e
  <2>1. Len(short) + 1 = N - m + 2
    BY <1>1, <1>3
  <2>2. QED
    BY <1>3, <2>1, AppendProperties
<1>6. \A i \in 1..N - m + 2 : long[i] = Append(short, e)[i]
  <2>1. ASSUME NEW i \in 1..N - m + 2 PROVE long[i] = Append(short, e)[i]
    <3>1. CASE i = N - m + 2
      <4>1. m + i - 1 = N + 1
        BY <3>1, <1>1
      <4>2. QED
        BY <3>1, <4>1, <1>2, <1>4, <1>5
    <3>2. CASE i # N - m + 2
      <4>1. i \in 1..N - m + 1 /\ m + i - 1 \in 1..N
        BY <3>2, <1>1
      <4>2. QED
        BY <4>1, <1>2, <1>4, <1>5
    <3>3. QED
      BY <3>1, <3>2
  <2>2. QED
    BY <2>1
<1>7. long = Append(short, e)
  BY <1>4, <1>5, <1>6, SeqEqual
<1>8. Whole(long) = Whole(short) \o e.text
  BY <1>3, <1>7, OneMore
<1>9. QED
  BY <1>8 DEF Run, long, longer, short, N

LEMMA RunStays ==
  ASSUME NEW list \in Seq(Notes), NEW e \in Notes, NEW m \in 1..Len(list) + 1,
         NEW n \in 0..Len(list)
  PROVE  Run(Append(list, e), m, n) = Run(list, m, n)
<1>1. SubSeq(Append(list, e), m, n) = SubSeq(list, m, n)
  <2>1. Len(list) \in Nat /\ m \in Nat /\ n \in Nat
    OBVIOUS
  <2>2. CASE m <= n
    <3>1. m \in 1..Len(list) /\ n \in 1..Len(list) /\ <<e>> \in Seq(Notes)
      BY <2>1, <2>2
    <3>2. SubSeq(list \o <<e>>, m, n) = SubSeq(list, m, n)
      BY <3>1, SubSeqOfConcat1
    <3>3. Append(list, e) = list \o <<e>>
      BY AppendIsConcat
    <3>4. QED
      BY <3>2, <3>3
  <2>3. CASE n < m
    BY <2>1, <2>3, SubSeqEmpty
  <2>4. QED
    BY <2>1, <2>2, <2>3
<1>2. QED
  BY <1>1 DEF Run

\* A message more: no run of content has a tag, if those that end with it have none.
LEMMA NoTagGrows ==
  ASSUME NEW list \in Seq(Notes), NEW e \in Notes, NoTag(list),
         e.type = "content" =>
           \A m \in 1..Len(list) + 1 : AllContent(list, m, Len(list)) =>
             \A block \in Blocks : Places(block.start, Run(list, m, Len(list)) \o e.text) = {}
  PROVE  NoTag(Append(list, e))
<1> DEFINE N == Len(list)
           longer == Append(list, e)
<1>1. /\ N \in Nat /\ longer \in Seq(Notes) /\ Len(longer) = N + 1 /\ longer[N + 1] = e
      /\ \A i \in 1..N : longer[i] = list[i]
  BY AppendProperties
<1> HIDE DEF longer, N
<1>2. ASSUME NEW m \in 1..N + 1, NEW n \in 1..N + 1, m <= n,
             \A k \in m..n : longer[k].type = "content", NEW block \in Blocks
      PROVE  Places(block.start, Run(longer, m, n)) = {}
  <2>1. CASE n = N + 1
    <3>1. n \in m..n
      BY <1>2
    <3>2. e.type = "content"
      BY <2>1, <3>1, <1>1, <1>2
    <3>3. AllContent(list, m, N)
      <4>1. ASSUME NEW k \in m..N PROVE list[k].type = "content"
        <5>1. k \in m..n /\ k \in 1..N
          BY <2>1, <1>1
        <5>2. QED
          BY <5>1, <1>1, <1>2
      <4>2. QED
        BY <4>1 DEF AllContent
    <3>4. Places(block.start, Run(list, m, N) \o e.text) = {}
      BY <3>2, <3>3 DEF N
    <3>5. Run(longer, m, N + 1) = Run(list, m, N) \o e.text
      BY RunGrows DEF longer, N
    <3>6. QED
      BY <2>1, <3>4, <3>5
  <2>2. CASE n # N + 1
    <3>1. n \in 1..N /\ n \in 0..N /\ m \in 1..N
      BY <2>2, <1>1, <1>2
    <3>2. \A k \in m..n : list[k].type = "content"
      <4>1. ASSUME NEW k \in m..n PROVE list[k].type = "content"
        <5>1. k \in 1..N
          BY <3>1, <1>1
        <5>2. QED
          BY <5>1, <1>1, <1>2
      <4>2. QED
        BY <4>1
    <3>3. Places(block.start, Run(list, m, n)) = {}
      BY <3>1, <3>2, <1>2 DEF NoTag, Run, N
    <3>4. Run(longer, m, n) = Run(list, m, n)
      BY <3>1, RunStays DEF longer, N
    <3>5. QED
      BY <3>3, <3>4
  <2>3. QED
    BY <2>1, <2>2
<1>3. QED
  BY <1>1, <1>2 DEF NoTag, Run, longer

LEMMA WaitingGrows ==
  ASSUME NEW list \in Seq(Notes), NEW e \in Notes, NEW rest,
         e.type = "content" =>
           \A m \in 1..Len(list) + 1 : AllContent(list, m, Len(list)) =>
             NoneMeets(Run(list, m, Len(list)) \o e.text, rest)
  PROVE  Waiting(Append(list, e), rest)
<1> DEFINE N == Len(list)
           longer == Append(list, e)
<1>1. /\ N \in Nat /\ longer \in Seq(Notes) /\ Len(longer) = N + 1 /\ longer[N + 1] = e
      /\ \A i \in 1..N : longer[i] = list[i]
  BY AppendProperties
<1> HIDE DEF longer, N
<1>2. ASSUME NEW m \in 1..N + 2, AllContent(longer, m, N + 1)
      PROVE  NoneMeets(Run(longer, m, N + 1), rest)
  <2>1. CASE m = N + 2
    <3>1. SubSeq(longer, m, N + 1) = <<>>
      BY <2>1, <1>1, SubSeqEmpty
    <3>2. Run(longer, m, N + 1) = <<>>
      BY <3>1, NoMessages DEF Run
    <3>3. QED
      BY <3>2 DEF NoneMeets
  <2>2. CASE m # N + 2
    <3>1. m \in 1..N + 1 /\ N + 1 \in m..N + 1
      BY <2>2, <1>1
    <3>2. e.type = "content"
      BY <3>1, <1>1, <1>2 DEF AllContent
    <3>3. AllContent(list, m, N)
      <4>1. ASSUME NEW k \in m..N PROVE list[k].type = "content"
        <5>1. k \in m..N + 1 /\ k \in 1..N
          BY <1>1
        <5>2. QED
          BY <5>1, <1>1, <1>2 DEF AllContent
      <4>2. QED
        BY <4>1 DEF AllContent
    <3>4. NoneMeets(Run(list, m, N) \o e.text, rest)
      BY <3>1, <3>2, <3>3 DEF N
    <3>5. Run(longer, m, N + 1) = Run(list, m, N) \o e.text
      BY <3>1, RunGrows DEF longer, N
    <3>6. QED
      BY <3>4, <3>5
  <2>3. QED
    BY <2>1, <2>2
<1>3. QED
  <2>1. Len(longer) + 1 = N + 2
    BY <1>1
  <2>2. QED
    BY <1>1, <1>2, <2>1 DEF Waiting, longer

\* Nothing of a tag is among the content, nor will be when more text comes.
CleanIn(list, p) == NoTag(list) /\ (~p.inside => Waiting(list, p.buffer))

\* What is given out is appended.
LEMMA SpeaksNotes ==
  ASSUME NEW shown \in Seq(Notes), NEW p \in Parsers, NEW q \in Parsers,
         NEW type \in {"content", "thinking"}, NEW n \in 0..Len(p.buffer), Speaks(p, q, type, n)
  PROVE  LET e == [type |-> type, text |-> Until(p.buffer, n)]
         IN  /\ shown \o p.out \in Seq(Notes) /\ e \in Notes
             /\ shown \o q.out = IF n = 0 THEN shown \o p.out ELSE Append(shown \o p.out, e)
<1> DEFINE e == [type |-> type, text |-> Until(p.buffer, n)]
<1>1. p.out \in Seq(Notes) /\ p.buffer \in Seq(Characters)
  BY ParserFields, PiecesAreNotes DEF Texts
<1>2. Until(p.buffer, n) \in Texts
  BY <1>1, Cut DEF Texts
<1>3. e \in Notes
  BY <1>2, TextsAreWritten DEF Notes
<1>4. shown \o p.out \in Seq(Notes)
  BY <1>1, ConcatProperties
<1>5. q.out = IF n = 0 THEN p.out ELSE Append(p.out, e)
  BY DEF Speaks
<1> HIDE DEF e
<1>6. shown \o Append(p.out, e) = Append(shown \o p.out, e)
  <2> DEFINE a == p.out
             b == shown \o a
  <2>1. a \in Seq(Notes) /\ b \in Seq(Notes) /\ e \in Notes /\ <<e>> \in Seq(Notes)
    BY <1>1, <1>3, <1>4
  <2> HIDE DEF a
  <2>2. shown \o (a \o <<e>>) = b \o <<e>>
    BY <2>1, ConcatAssociative
  <2> HIDE DEF b
  <2>3. Append(a, e) = a \o <<e>> /\ Append(b, e) = b \o <<e>>
    BY <2>1, AppendIsConcat
  <2>4. QED
    BY <2>2, <2>3 DEF a, b
<1>7. QED
  BY <1>3, <1>4, <1>5, <1>6 DEF e

LEMMA MovesClean ==
  ASSUME NEW shown \in Seq(Notes), NEW p \in Parsers, NEW final \in BOOLEAN, NEW r,
         Moves(p, r, final), CleanIn(shown \o p.out, p)
  PROVE  /\ NoTag(shown \o r.p.out)
         /\ ~(r.done /\ final) => CleanIn(shown \o r.p.out, r.p)
<1> DEFINE list == shown \o p.out
           now == shown \o r.p.out
<1>1. r.p \in Parsers /\ r.done \in BOOLEAN
  BY DEF Moves
<1>2. p.buffer \in Texts /\ p.buffer \in Seq(Letters) /\ Len(p.buffer) \in Nat
  <2>1. p.buffer \in Texts
    BY ParserFields
  <2>2. QED
    BY <2>1, TextsAreWritten
<1>3. NoTag(list) /\ (~p.inside => Waiting(list, p.buffer))
  BY DEF CleanIn
<1>4. list \in Seq(Notes)
  BY ParserFields, PiecesAreNotes, ConcatProperties
<1> DEFINE b(n) == Until(p.buffer, n)
           c(n) == From(p.buffer, n)
<1>5. \A n \in 0..Len(p.buffer) :
        /\ b(n) \in Seq(Letters) /\ c(n) \in Seq(Letters) /\ p.buffer = b(n) \o c(n)
        /\ Len(b(n)) = n
  BY <1>2, Cut
<1>6. CASE Rests(p, r, final)
  <2>1. r.p.out = p.out /\ r.p.inside = p.inside /\ r.p.buffer = p.buffer
    BY <1>6 DEF Rests
  <2>2. now = list
    BY <2>1
  <2> HIDE DEF now, list
  <2>3. NoTag(now) /\ CleanIn(now, r.p)
    BY <1>3, <2>1, <2>2 DEF CleanIn
  <2>4. QED
    BY <2>3 DEF now
<1>7. CASE Shows(p, r, final) \/ Enters(p, r)
  <2>1. ~p.inside /\ Waiting(list, p.buffer)
    BY <1>3, <1>7 DEF Shows, Enters
  <2>2. PICK n \in 0..Len(p.buffer) :
          /\ Speaks(p, r.p, "content", n)
          /\ \A block \in Blocks : \A m \in Places(block.start, p.buffer) : n <= m
          /\ \/ r.p.inside
             \/ r.done /\ final
             \/ \A block \in Blocks : /\ Places(block.start, p.buffer) = {}
                                      /\ HeldPrefix(block.start, p.buffer) <= Len(p.buffer) - n
    <3>1. CASE Shows(p, r, final)
      BY <3>1 DEF Shows
    <3>2. CASE Enters(p, r)
      BY <3>2 DEF Enters
    <3>3. QED
      BY <1>7, <3>1, <3>2
  <2> DEFINE e == [type |-> "content", text |-> b(n)]
  <2>3. /\ e \in Notes /\ e.text = b(n) /\ r.p.buffer = c(n)
        /\ now = IF n = 0 THEN list ELSE Append(list, e)
    <3>1. Speaks(p, r.p, "content", n)
      BY <2>2
    <3>2. /\ e \in Notes /\ now = IF n = 0 THEN list ELSE Append(list, e)
      BY <3>1, <1>1, SpeaksNotes
    <3>3. r.p.buffer = c(n)
      BY <3>1 DEF Speaks
    <3>4. QED
      BY <3>2, <3>3
  <2>4. /\ b(n) \in Seq(Letters) /\ c(n) \in Seq(Letters) /\ p.buffer = b(n) \o c(n)
        /\ Len(b(n)) = n
    BY <1>5
  <2> DEFINE bn == b(n)
             cn == c(n)
  <2> HIDE DEF list, now, e, b, c
  <2>5. ASSUME NEW m \in 1..Len(list) + 1, AllContent(list, m, Len(list))
        PROVE  NoneMeets(Run(list, m, Len(list)), p.buffer) /\ Run(list, m, Len(list)) \in Seq(Letters)
    BY <2>1, <2>5, <1>4, RunIs DEF Waiting
  <2>6. NoTag(now)
    <3>1. CASE n = 0
      BY <3>1, <2>3, <1>3
    <3>2. CASE n # 0
      <4>1. ASSUME NEW m \in 1..Len(list) + 1, AllContent(list, m, Len(list)), NEW block \in Blocks
            PROVE  Places(block.start, Run(list, m, Len(list)) \o e.text) = {}
        <5> DEFINE run == Run(list, m, Len(list))
        <5>1. NoneMeets(run, p.buffer) /\ run \in Seq(Letters)
          BY <4>1, <2>5
        <5>2. \A k \in Places(block.start, p.buffer) : Len(bn) <= k
          BY <2>2, <2>4
        <5>3. bn \in Seq(Letters) /\ cn \in Seq(Letters) /\ p.buffer = bn \o cn
          BY <2>4
        <5> HIDE DEF run, bn, cn
        <5>4. Places(block.start, run \o bn) = {}
          BY <5>1, <5>2, <5>3, NoneOccursBefore
        <5>5. QED
          BY <5>4, <2>3 DEF run, bn
      <4>2. NoTag(Append(list, e))
        BY <4>1, <1>3, <1>4, <2>3, NoTagGrows
      <4>3. QED
        BY <3>2, <4>2, <2>3
    <3>3. QED
      BY <3>1, <3>2
  <2>7. ASSUME ~r.p.inside, ~(r.done /\ final) PROVE Waiting(now, r.p.buffer)
    <3>1. CASE n = 0
      <4>1. r.p.buffer = p.buffer
        BY <3>1, <2>3, <1>2, CutAtTheEnds DEF c
      <4>2. QED
        BY <3>1, <4>1, <2>1, <2>3
    <3>2. CASE n # 0
      <4>1. NoneMeets(bn, cn)
        <5>1. \A block \in Blocks : /\ Places(block.start, p.buffer) = {}
                                    /\ HeldPrefix(block.start, p.buffer) <= Len(p.buffer) - n
          BY <2>2, <2>7
        <5>2. QED
          BY <5>1, <1>2, NoneMeetsSafe DEF b, c
      <4>2. ASSUME NEW m \in 1..Len(list) + 1, AllContent(list, m, Len(list))
            PROVE  NoneMeets(Run(list, m, Len(list)) \o e.text, cn)
        <5> DEFINE run == Run(list, m, Len(list))
        <5>1. NoneMeets(run, p.buffer) /\ run \in Seq(Letters)
          BY <4>2, <2>5
        <5>2. bn \in Seq(Letters) /\ cn \in Seq(Letters) /\ p.buffer = bn \o cn
          BY <2>4
        <5> HIDE DEF run, bn, cn
        <5>3. NoneMeets(run \o bn, cn)
          BY <4>1, <5>1, <5>2, NoneMeetsShown
        <5>4. QED
          BY <5>3, <2>3 DEF run, bn
      <4>3. Waiting(Append(list, e), cn)
        BY <4>2, <1>4, <2>3, WaitingGrows
      <4>4. QED
        BY <3>2, <4>3, <2>3
    <3>3. QED
      BY <3>1, <3>2
  <2>8. QED
    BY <2>6, <2>7 DEF CleanIn, now
<1>8. CASE Thinks(p, r, final)
  <2>1. PICK n \in 0..Len(p.buffer) : Speaks(p, r.p, "thinking", n) /\ (~r.p.inside => n # 0)
    BY <1>8 DEF Thinks
  <2> DEFINE e == [type |-> "thinking", text |-> Until(p.buffer, n)]
  <2>2. e \in Notes /\ e.type # "content" /\ now = IF n = 0 THEN list ELSE Append(list, e)
    <3>1. e \in Notes /\ now = IF n = 0 THEN list ELSE Append(list, e)
      BY <1>1, <2>1, SpeaksNotes
    <3>2. QED
      BY <3>1
  <2> HIDE DEF list, now, e
  <2>3. NoTag(now)
    BY <2>2, <1>3, <1>4, NoTagGrows
  <2>4. ~r.p.inside => Waiting(now, r.p.buffer)
    BY <2>1, <2>2, <1>4, WaitingGrows
  <2>5. QED
    BY <2>3, <2>4 DEF CleanIn, now
<1>9. QED
  BY <1>6, <1>7, <1>8 DEF Moves

\* Behind a message that is no content, all is open; more text changes nothing.
LEMMA CleanAfterThinking ==
  ASSUME NEW list \in Seq(Notes), NoTag(list), NEW e \in Notes, e.type # "content", NEW p
  PROVE  CleanIn(Append(list, e), p)
BY NoTagGrows, WaitingGrows DEF CleanIn

LEMMA CleanWithMore ==
  ASSUME NEW list \in Seq(Notes), NEW p \in Parsers, NEW q, NEW text \in Texts, CleanIn(list, p),
         q.inside = p.inside, q.buffer = p.buffer \o text
  PROVE  CleanIn(list, q)
<1>1. p.buffer \in Seq(Letters) /\ text \in Seq(Letters)
  BY ParserFields, TextsAreWritten
<1>2. ASSUME ~p.inside PROVE Waiting(list, q.buffer)
  <2>1. ASSUME NEW m \in 1..Len(list) + 1, AllContent(list, m, Len(list))
        PROVE  NoneMeets(Run(list, m, Len(list)), q.buffer)
    <3>1. Run(list, m, Len(list)) \in Seq(Letters) /\ NoneMeets(Run(list, m, Len(list)), p.buffer)
      BY <1>2, <2>1, RunIs DEF CleanIn, Waiting
    <3>2. QED
      BY <3>1, <1>1, NoneMeetsMore
  <2>2. QED
    BY <2>1 DEF Waiting
<1>3. QED
  BY <1>2 DEF CleanIn

-----------------------------------------------------------------------------
(* The rounds of a call.                                                   *)

Rounds(start) == 2 * Len(start.buffer) + 1

GoesThrough(f, start, final) ==
  /\ f[0] = [p |-> start, done |-> FALSE]
  /\ \A n \in 1..Rounds(start) :
       IF f[n - 1].done THEN f[n] = f[n - 1] ELSE Moves(f[n - 1].p, f[n], final)

\* What a call makes of its buffer.
Gives(start, q, final) ==
  /\ q \in Parsers /\ Whole(q.out) \o q.buffer = start.buffer
  /\ final => q.buffer = <<>>
  /\ \A shown \in Seq(Notes) : CleanIn(shown, start) =>
       NoTag(shown \o q.out) /\ (~final => CleanIn(shown \o q.out, q))

LEMMA NothingLeft == ASSUME NEW p \in Parsers, Measure(p) <= 0 PROVE p.buffer = <<>>
<1> DEFINE L == Len(p.buffer)
           b == IF p.inside THEN 0 ELSE 1
<1>1. L \in Nat /\ (p.buffer = <<>> <=> L = 0)
  BY ParserFields
<1>2. 2 * L + b <= 0 /\ b \in Nat
  BY DEF Measure
<1> HIDE DEF L, b
<1>3. L = 0
  BY <1>1, <1>2
<1>4. QED
  BY <1>1, <1>3

LEMMA Dispatched ==
  ASSUME NEW start \in Parsers, start.out = <<>>, NEW final \in BOOLEAN,
         NEW f, GoesThrough(f, start, final)
  PROVE  Gives(start, f[Rounds(start)].p, final)
<1> DEFINE N == Rounds(start)
           basic(x) == /\ x.p \in Parsers /\ x.done \in BOOLEAN
                       /\ Whole(x.p.out) \o x.p.buffer = start.buffer
                       /\ x.done => (final => x.p.buffer = <<>>)
           G == {n \in 0..N : basic(f[n]) /\ (f[n].done \/ Measure(f[n].p) <= N - n)}
<1>1. start.buffer \in Texts /\ start.inside \in BOOLEAN /\ Len(start.buffer) \in Nat
  BY ParserFields
<1>2. N \in Nat /\ N >= 1 /\ Measure(start) <= N
  BY <1>1 DEF Rounds, Measure
<1> HIDE DEF N
<1>3. /\ f[0].p = start /\ f[0].done = FALSE
      /\ \A n \in 1..N : IF f[n - 1].done THEN f[n] = f[n - 1] ELSE Moves(f[n - 1].p, f[n], final)
  BY DEF GoesThrough, N
<1>4. \A n \in 0..N : n \in G
  <2>1. 0 \in G
    <3>1. Whole(start.out) \o start.buffer = start.buffer
      <4>1. start.buffer \in Seq(Characters)
        BY <1>1 DEF Texts
      <4>2. <<>> \o start.buffer = start.buffer
        BY <4>1, ConcatEmptySeq
      <4>3. QED
        BY <4>2, NoMessages
    <3>2. basic(f[0])
      BY <3>1, <1>3
    <3> HIDE DEF basic
    <3>3. Measure(f[0].p) <= N - 0 /\ 0 \in 0..N
      BY <1>2, <1>3
    <3>4. QED
      BY <3>2, <3>3
  <2>2. ASSUME NEW n \in 1..N, n - 1 \in G PROVE n \in G
    <3> DEFINE x == f[n - 1]
               y == f[n]
    <3>1. basic(x) /\ (x.done \/ Measure(x.p) <= N - (n - 1)) /\ n \in 0..N /\ n \in Nat
      <4>1. n \in 0..N /\ n \in Nat
        BY <1>2
      <4> HIDE DEF basic
      <4>2. basic(x) /\ (x.done \/ Measure(x.p) <= N - (n - 1))
        BY <2>2
      <4>3. QED
        BY <4>1, <4>2
    <3>2. IF x.done THEN y = x ELSE Moves(x.p, y, final)
      BY <1>3
    <3> HIDE DEF x, y
    <3>3. CASE x.done
      BY <3>1, <3>2, <3>3 DEF x, y
    <3>4. CASE ~x.done
      <4>1. x.p \in Parsers /\ Moves(x.p, y, final)
        BY <3>1, <3>2, <3>4
      <4>2. y.p \in Parsers /\ y.done \in BOOLEAN
        BY <4>1 DEF Moves
      <4>3. /\ Whole(y.p.out) \o y.p.buffer = Whole(x.p.out) \o x.p.buffer
            /\ y.done => (final => y.p.buffer = <<>>)
            /\ ~y.done => Measure(y.p) <= Measure(x.p) - 1
        BY <4>1, MovesGoOn
      <4>4. basic(y)
        BY <3>1, <4>2, <4>3
      <4>5. Measure(x.p) \in Int /\ Measure(y.p) \in Int
        BY <4>1, <4>2, ParserFields DEF Measure
      <4>6. y.done \/ Measure(y.p) <= N - n
        <5> HIDE DEF basic
        <5>1. QED
          BY <3>1, <3>4, <4>3, <4>5, <1>2
      <4> HIDE DEF basic
      <4>7. QED
        BY <3>1, <4>4, <4>6 DEF y
    <3>5. QED
      BY <3>3, <3>4
  <2> HIDE DEF G
  <2>3. QED
    BY <2>1, <2>2, <1>2, Counting
<1> DEFINE q == f[N].p
<1>5. N \in 0..N /\ N \in G
  <2> HIDE DEF G
  <2>1. QED
    BY <1>2, <1>4
<1>6. basic(f[N]) /\ (f[N].done \/ Measure(q) <= 0)
  <2> HIDE DEF basic
  <2>1. basic(f[N]) /\ (f[N].done \/ Measure(q) <= N - N)
    BY <1>5
  <2>2. N - N = 0
    BY <1>2
  <2>3. QED
    BY <2>1, <2>2
<1>7. q \in Parsers /\ Whole(q.out) \o q.buffer = start.buffer
  BY <1>6
<1>8. final => q.buffer = <<>>
  <2>1. CASE f[N].done
    BY <2>1, <1>6
  <2>2. CASE Measure(q) <= 0
    <3> HIDE DEF q, basic
    <3>1. QED
      BY <2>2, <1>7, NothingLeft
  <2>3. QED
    BY <1>6, <2>1, <2>2
<1>9. ASSUME NEW shown \in Seq(Notes), CleanIn(shown, start)
      PROVE  NoTag(shown \o q.out) /\ (~final => CleanIn(shown \o q.out, q))
  <2> DEFINE clean(x) == /\ NoTag(shown \o x.p.out)
                         /\ ~(x.done /\ final) => CleanIn(shown \o x.p.out, x.p)
             H == {n \in 0..N : clean(f[n])}
  <2>1. 0 \in H
    <3>1. shown \o start.out = shown
      BY ConcatEmptySeq
    <3>2. clean(f[0])
      BY <3>1, <1>3, <1>9 DEF CleanIn
    <3> HIDE DEF clean
    <3>3. QED
      BY <3>2, <1>2
  <2>2. ASSUME NEW n \in 1..N, n - 1 \in H PROVE n \in H
    <3> DEFINE x == f[n - 1]
               y == f[n]
    <3>1. clean(x) /\ n \in 0..N /\ n - 1 \in 0..N
      BY <2>2, <1>2
    <3>2. IF x.done THEN y = x ELSE Moves(x.p, y, final)
      BY <1>3
    <3>3. x.p \in Parsers
      BY <3>1, <1>4
    <3> HIDE DEF x, y
    <3>4. CASE x.done
      BY <3>1, <3>2, <3>4 DEF x, y
    <3>5. CASE ~x.done
      <4>1. Moves(x.p, y, final) /\ CleanIn(shown \o x.p.out, x.p)
        BY <3>1, <3>2, <3>5
      <4>2. clean(y)
        BY <4>1, <3>3, MovesClean
      <4> HIDE DEF clean
      <4>3. QED
        BY <3>1, <4>2 DEF y
    <3>6. QED
      BY <3>4, <3>5
  <2>3. N \in H
    <3> HIDE DEF H
    <3>1. \A n \in 0..N : n \in H
      BY <2>1, <2>2, <1>2, Counting
    <3>2. QED
      BY <3>1, <1>5
  <2>4. clean(f[N])
    BY <2>3
  <2>5. QED
    BY <2>4
<1>10. QED
  <2> HIDE DEF q, basic, G
  <2>1. Gives(start, q, final)
    BY <1>7, <1>8, <1>9 DEF Gives
  <2>2. QED
    BY <2>1 DEF q, N

LEMMA TryDispatchGives ==
  ASSUME NEW parser \in Parsers, NEW final \in BOOLEAN
  PROVE  Gives([parser EXCEPT !.out = <<>>, !.entered = 0], TryDispatch(parser, final), final)
<1> DEFINE start == [parser EXCEPT !.out = <<>>, !.entered = 0]
           N == Rounds(parser)
           X == [p : Parsers, done : BOOLEAN]
           first == [p |-> start, done |-> FALSE]
           F == [n \in 1..N |-> [x \in X |-> IF x.done THEN x ELSE ParserStep(x.p, final)]]
           Is(g) == g = [n \in 0..N |->
                          IF n = 0 THEN first
                          ELSE LET last == g[n - 1]
                               IN  IF last.done THEN last ELSE ParserStep(last.p, final)]
           round == CHOOSE g : Is(g)
<1>1. start \in Parsers /\ start.out = <<>> /\ start.buffer = parser.buffer
  <2> DEFINE T == [buffer : Texts, inside : BOOLEAN, end : Texts, entered : Nat, out : Seq(Pieces)]
  <2>1. parser \in T
    BY DEF Parsers
  <2>2. /\ start \in T /\ start.out = <<>> /\ start.buffer = parser.buffer
        /\ start.inside = parser.inside /\ start.end = parser.end
    <3>1. <<>> \in Seq(Pieces) /\ 0 \in Nat
      OBVIOUS
    <3> DEFINE Outs == Seq(Pieces)
    <3> HIDE DEF Outs
    <3>2. <<>> \in Outs /\ T = [buffer : Texts, inside : BOOLEAN, end : Texts, entered : Nat, out : Outs]
      BY <3>1 DEF Outs
    <3> HIDE DEF T
    <3>3. QED
      BY ONLY <2>1, <3>1, <3>2
  <2> HIDE DEF T, start
  <2>3. start \in Parsers
    BY <2>2 DEF Parsers, T
  <2>4. QED
    BY <2>2, <2>3
<1>2. N \in Nat /\ N = Rounds(start)
  BY <1>1, ParserFields DEF Rounds
<1>3. TryDispatch(parser, final) = round[N].p
  BY DEF TryDispatch, Rounds
<1> HIDE DEF start, N
<1>4. first \in X
  BY <1>1
<1>5. ASSUME NEW x \in X, ~x.done
      PROVE  ParserStep(x.p, final) \in X /\ Moves(x.p, ParserStep(x.p, final), final)
  <2> DEFINE r == ParserStep(x.p, final)
  <2>1. Moves(x.p, r, final)
    BY ParserStepMoves
  <2>2. r = [p |-> r.p, done |-> r.done]
    BY DEF ParserStep
  <2> HIDE DEF r
  <2>3. r.p \in Parsers /\ r.done \in BOOLEAN
    BY <2>1 DEF Moves
  <2>4. r \in X
    BY <2>2, <2>3
  <2>5. QED
    BY <2>1, <2>4 DEF r
<1> HIDE DEF first, X
<1>6. F \in [1..N -> [X -> X]]
  BY <1>5
<1>7. \A n \in 1..N : \A x \in X : F[n][x] = IF x.done THEN x ELSE ParserStep(x.p, final)
  OBVIOUS
<1> HIDE DEF F
<1>8. \E g : Is(g)
  <2>1. PICK g \in [0..N -> X] : RoundsOf(g, F, N, first)
    BY <1>2, <1>4, <1>6, RoundsExist
  <2>2. ASSUME NEW n \in 0..N
        PROVE  g[n] = IF n = 0 THEN first
                      ELSE IF g[n - 1].done THEN g[n - 1] ELSE ParserStep(g[n - 1].p, final)
    <3>1. g[n] = IF n = 0 THEN first ELSE F[n][g[n - 1]]
      BY <2>1 DEF RoundsOf
    <3>2. n = 0 \/ (n # 0 /\ n \in 1..N /\ g[n - 1] \in X)
      BY <1>2
    <3>3. QED
      BY <3>1, <3>2, <1>7
  <2>3. g = [n \in 0..N |-> g[n]]
    OBVIOUS
  <2>4. Is(g)
    BY <2>2, <2>3
  <2>5. QED
    BY <2>4
<1>9. Is(round)
  <2> HIDE DEF Is
  <2>1. QED
    BY <1>8
<1> HIDE DEF round
<1>10. /\ round[0] = first
       /\ \A n \in 1..N : round[n] = IF round[n - 1].done THEN round[n - 1]
                                      ELSE ParserStep(round[n - 1].p, final)
  <2>1. \A n \in 0..N :
          round[n] = IF n = 0 THEN first
                     ELSE IF round[n - 1].done THEN round[n - 1]
                     ELSE ParserStep(round[n - 1].p, final)
    BY <1>9
  <2>2. 0 \in 0..N /\ \A n \in 1..N : n \in 0..N /\ n # 0
    BY <1>2
  <2> HIDE DEF Is
  <2>3. QED
    BY <2>1, <2>2
<1> HIDE DEF Is
<1> DEFINE G == {n \in 0..N : round[n] \in X}
<1>11. \A n \in 0..N : n \in G
  <2>1. 0 \in G
    BY <1>2, <1>4, <1>10
  <2>2. ASSUME NEW n \in 1..N, n - 1 \in G PROVE n \in G
    <3>1. n \in 0..N /\ round[n - 1] \in X
      BY <2>2, <1>2
    <3>2. round[n] \in X
      BY <3>1, <1>5, <1>10
    <3>3. QED
      BY <3>1, <3>2
  <2> HIDE DEF G
  <2>3. QED
    BY <2>1, <2>2, <1>2, Counting
<1>12. GoesThrough(round, start, final)
  <2>1. ASSUME NEW n \in 1..N
        PROVE  IF round[n - 1].done THEN round[n] = round[n - 1]
               ELSE Moves(round[n - 1].p, round[n], final)
    <3>1. n - 1 \in 0..N
      BY <1>2
    <3>2. round[n - 1] \in X
      BY <3>1, <1>11
    <3>3. QED
      BY <3>2, <1>5, <1>10
  <2>2. QED
    BY <2>1, <1>2, <1>10 DEF GoesThrough, first
<1>13. QED
  BY <1>1, <1>2, <1>3, <1>12, Dispatched DEF start

LEMMA ManagerDispatchGives ==
  ASSUME NEW parser \in Parsers, NEW final \in BOOLEAN
  PROVE  Gives([parser EXCEPT !.out = <<>>], ManagerDispatch(parser, final), final)
<1> DEFINE start == [parser EXCEPT !.out = <<>>]
           N == Rounds(parser)
           X == [p : Parsers, done : BOOLEAN]
           first == [p |-> start, done |-> FALSE]
           F == [n \in 1..N |-> [x \in X |-> IF x.done THEN x ELSE ManagerStep(x.p, final)]]
           Is(g) == g = [n \in 0..N |->
                          IF n = 0 THEN first
                          ELSE LET last == g[n - 1]
                               IN  IF last.done THEN last ELSE ManagerStep(last.p, final)]
           round == CHOOSE g : Is(g)
<1>1. start \in Parsers /\ start.out = <<>> /\ start.buffer = parser.buffer
  <2> DEFINE T == [buffer : Texts, inside : BOOLEAN, end : Texts, entered : Nat, out : Seq(Pieces)]
  <2>1. parser \in T
    BY DEF Parsers
  <2>2. /\ start \in T /\ start.out = <<>> /\ start.buffer = parser.buffer
        /\ start.inside = parser.inside /\ start.end = parser.end
    <3>1. <<>> \in Seq(Pieces) /\ 0 \in Nat
      OBVIOUS
    <3> DEFINE Outs == Seq(Pieces)
    <3> HIDE DEF Outs
    <3>2. <<>> \in Outs /\ T = [buffer : Texts, inside : BOOLEAN, end : Texts, entered : Nat, out : Outs]
      BY <3>1 DEF Outs
    <3> HIDE DEF T
    <3>3. QED
      BY ONLY <2>1, <3>1, <3>2
  <2> HIDE DEF T, start
  <2>3. start \in Parsers
    BY <2>2 DEF Parsers, T
  <2>4. QED
    BY <2>2, <2>3
<1>2. N \in Nat /\ N = Rounds(start)
  BY <1>1, ParserFields DEF Rounds
<1>3. ManagerDispatch(parser, final) = round[N].p
  BY DEF ManagerDispatch, Rounds
<1> HIDE DEF start, N
<1>4. first \in X
  BY <1>1
<1>5. ASSUME NEW x \in X, ~x.done
      PROVE  ManagerStep(x.p, final) \in X /\ Moves(x.p, ManagerStep(x.p, final), final)
  <2> DEFINE r == ManagerStep(x.p, final)
  <2>1. Moves(x.p, r, final)
    BY ManagerStepMoves
  <2>2. r = [p |-> r.p, done |-> r.done]
    BY DEF ManagerStep
  <2> HIDE DEF r
  <2>3. r.p \in Parsers /\ r.done \in BOOLEAN
    BY <2>1 DEF Moves
  <2>4. r \in X
    BY <2>2, <2>3
  <2>5. QED
    BY <2>1, <2>4 DEF r
<1> HIDE DEF first, X
<1>6. F \in [1..N -> [X -> X]]
  BY <1>5
<1>7. \A n \in 1..N : \A x \in X : F[n][x] = IF x.done THEN x ELSE ManagerStep(x.p, final)
  OBVIOUS
<1> HIDE DEF F
<1>8. \E g : Is(g)
  <2>1. PICK g \in [0..N -> X] : RoundsOf(g, F, N, first)
    BY <1>2, <1>4, <1>6, RoundsExist
  <2>2. ASSUME NEW n \in 0..N
        PROVE  g[n] = IF n = 0 THEN first
                      ELSE IF g[n - 1].done THEN g[n - 1] ELSE ManagerStep(g[n - 1].p, final)
    <3>1. g[n] = IF n = 0 THEN first ELSE F[n][g[n - 1]]
      BY <2>1 DEF RoundsOf
    <3>2. n = 0 \/ (n # 0 /\ n \in 1..N /\ g[n - 1] \in X)
      BY <1>2
    <3>3. QED
      BY <3>1, <3>2, <1>7
  <2>3. g = [n \in 0..N |-> g[n]]
    OBVIOUS
  <2>4. Is(g)
    BY <2>2, <2>3
  <2>5. QED
    BY <2>4
<1>9. Is(round)
  <2> HIDE DEF Is
  <2>1. QED
    BY <1>8
<1> HIDE DEF round
<1>10. /\ round[0] = first
       /\ \A n \in 1..N : round[n] = IF round[n - 1].done THEN round[n - 1]
                                      ELSE ManagerStep(round[n - 1].p, final)
  <2>1. \A n \in 0..N :
          round[n] = IF n = 0 THEN first
                     ELSE IF round[n - 1].done THEN round[n - 1]
                     ELSE ManagerStep(round[n - 1].p, final)
    BY <1>9
  <2>2. 0 \in 0..N /\ \A n \in 1..N : n \in 0..N /\ n # 0
    BY <1>2
  <2> HIDE DEF Is
  <2>3. QED
    BY <2>1, <2>2
<1> HIDE DEF Is
<1> DEFINE G == {n \in 0..N : round[n] \in X}
<1>11. \A n \in 0..N : n \in G
  <2>1. 0 \in G
    BY <1>2, <1>4, <1>10
  <2>2. ASSUME NEW n \in 1..N, n - 1 \in G PROVE n \in G
    <3>1. n \in 0..N /\ round[n - 1] \in X
      BY <2>2, <1>2
    <3>2. round[n] \in X
      BY <3>1, <1>5, <1>10
    <3>3. QED
      BY <3>1, <3>2
  <2> HIDE DEF G
  <2>3. QED
    BY <2>1, <2>2, <1>2, Counting
<1>12. GoesThrough(round, start, final)
  <2>1. ASSUME NEW n \in 1..N
        PROVE  IF round[n - 1].done THEN round[n] = round[n - 1]
               ELSE Moves(round[n - 1].p, round[n], final)
    <3>1. n - 1 \in 0..N
      BY <1>2
    <3>2. round[n - 1] \in X
      BY <3>1, <1>11
    <3>3. QED
      BY <3>2, <1>5, <1>10
  <2>2. QED
    BY <2>1, <1>2, <1>10 DEF GoesThrough, first
<1>13. QED
  BY <1>1, <1>2, <1>3, <1>12, Dispatched DEF start

-----------------------------------------------------------------------------
(* A chunk for a parser.                                                   *)

\* What a call makes of its buffer and more text.
Reads(p, text, q) ==
  /\ q \in Parsers /\ Whole(q.out) \o q.buffer = p.buffer \o text
  /\ Len(p.buffer \o text) <= MaxBuffer =>
       \A shown \in Seq(Notes) : CleanIn(shown, p) => CleanIn(shown \o q.out, q)

\* Only the buffer and the side it is on matter.
LEMMA GivesTheSame ==
  ASSUME NEW p, NEW start, start.buffer = p.buffer, start.inside = p.inside,
         NEW q, NEW final \in BOOLEAN, Gives(start, q, final)
  PROVE  Gives(p, q, final)
<1>1. \A shown : CleanIn(shown, p) => CleanIn(shown, start)
  BY DEF CleanIn
<1>2. QED
  BY <1>1 DEF Gives

LEMMA Quiet ==
  ASSUME NEW p \in Parsers
  PROVE  LET q == [p EXCEPT !.out = <<>>]
         IN  /\ q \in Parsers /\ q.out = <<>> /\ q.buffer = p.buffer /\ q.inside = p.inside
             /\ Gives(p, q, FALSE)
<1> DEFINE q == [p EXCEPT !.out = <<>>]
           Outs == Seq(Pieces)
           T == [buffer : Texts, inside : BOOLEAN, end : Texts, entered : Nat, out : Outs]
<1>1. <<>> \in Outs /\ p \in T
  BY DEF Parsers
<1> HIDE DEF Outs
<1>2. /\ q \in T /\ q.out = <<>> /\ q.buffer = p.buffer /\ q.inside = p.inside
      /\ q.end = p.end
  BY ONLY <1>1
<1> HIDE DEF T, q
<1>3. q \in Parsers
  BY <1>2 DEF Parsers, T, Outs
<1>4. Whole(q.out) \o q.buffer = p.buffer
  <2>1. p.buffer \in Seq(Characters)
    BY ParserFields DEF Texts
  <2>2. <<>> \o p.buffer = p.buffer
    BY <2>1, ConcatEmptySeq
  <2>3. QED
    BY <2>2, <1>2, NoMessages
<1>5. ASSUME NEW shown \in Seq(Notes), CleanIn(shown, p)
      PROVE  NoTag(shown \o q.out) /\ CleanIn(shown \o q.out, q)
  <2>1. shown \o q.out = shown
    BY <1>2, ConcatEmptySeq
  <2>2. QED
    BY <2>1, <1>2, <1>5 DEF CleanIn
<1>6. Gives(p, q, FALSE)
  BY <1>3, <1>4, <1>5 DEF Gives
<1>7. QED
  BY <1>2, <1>3, <1>6 DEF q

LEMMA FlushGives == ASSUME NEW p \in Parsers PROVE Gives(p, Flush(p), TRUE)
<1> DEFINE start == [p EXCEPT !.out = <<>>, !.entered = 0]
<1>1. Gives(start, Flush(p), TRUE)
  BY TryDispatchGives DEF Flush
<1>2. start.buffer = p.buffer /\ start.inside = p.inside
  BY DEF Parsers
<1> HIDE DEF start
<1>3. QED
  BY <1>1, <1>2, GivesTheSame

LEMMA ManagerFlushGives == ASSUME NEW p \in Parsers PROVE Gives(p, ManagerFlush(p), TRUE)
<1> DEFINE start == [p EXCEPT !.out = <<>>]
<1>1. Gives(start, ManagerFlush(p), TRUE)
  BY ManagerDispatchGives DEF ManagerFlush
<1>2. start.buffer = p.buffer /\ start.inside = p.inside
  BY DEF Parsers
<1> HIDE DEF start
<1>3. QED
  BY <1>1, <1>2, GivesTheSame

\* More text in the buffer.
LEMMA Fuller ==
  ASSUME NEW p \in Parsers, NEW text \in Texts
  PROVE  LET q == [p EXCEPT !.buffer = @ \o text]
         IN  q \in Parsers /\ q.buffer = p.buffer \o text /\ q.inside = p.inside
<1> DEFINE q == [p EXCEPT !.buffer = @ \o text]
           longer == p.buffer \o text
           T == [buffer : Texts, inside : BOOLEAN, end : Texts, entered : Nat, out : Seq(Pieces)]
<1>1. longer \in Texts
  BY ParserFields, ConcatProperties DEF Texts
<1>2. q = [p EXCEPT !.buffer = longer]
  OBVIOUS
<1> HIDE DEF longer, q
<1>3. p \in T
  BY DEF Parsers
<1>4. q \in T /\ q.buffer = longer /\ q.inside = p.inside /\ q.end = p.end
  BY ONLY <1>1, <1>2, <1>3
<1> HIDE DEF T
<1>5. q \in Parsers
  BY <1>4 DEF Parsers, T
<1>6. QED
  BY <1>4, <1>5 DEF q, longer

\* The two ways to treat a buffer: as usual, or given out whole and forgotten.
LEMMA GivesReads ==
  ASSUME NEW p \in Parsers, NEW text \in Texts, NEW full \in Parsers,
         full.buffer = p.buffer \o text, full.inside = p.inside,
         NEW q, Gives(full, q, FALSE)
  PROVE  Reads(p, text, q)
<1>1. \A shown \in Seq(Notes) : CleanIn(shown, p) => CleanIn(shown, full)
  BY CleanWithMore
<1>2. QED
  BY <1>1 DEF Gives, Reads

LEMMA OverflowReads ==
  ASSUME NEW p \in Parsers, NEW text \in Texts, NEW full \in Parsers,
         full.buffer = p.buffer \o text, Len(full.buffer) > MaxBuffer,
         NEW q, Gives(full, q, TRUE)
  PROVE  Reads(p, text, [q EXCEPT !.buffer = <<>>, !.inside = FALSE])
<1> DEFINE o == [q EXCEPT !.buffer = <<>>, !.inside = FALSE]
           T == [buffer : Texts, inside : BOOLEAN, end : Texts, entered : Nat, out : Seq(Pieces)]
<1>1. q \in Parsers /\ q.buffer = <<>> /\ Whole(q.out) \o q.buffer = full.buffer
  BY DEF Gives
<1>2. q \in T /\ <<>> \in Texts
  BY <1>1 DEF Parsers, Texts
<1>3. o \in T /\ o.out = q.out /\ o.buffer = <<>> /\ o.inside = FALSE
  BY ONLY <1>2
<1> HIDE DEF o, T
<1>4. o \in Parsers
  BY <1>3 DEF Parsers, T
<1>5. Len(full.buffer) \in Nat /\ MaxBuffer \in Nat
  BY ParserFields, TextAssumption
<1>6. ~(Len(p.buffer \o text) <= MaxBuffer)
  BY <1>5
<1>7. Reads(p, text, o)
  BY <1>1, <1>3, <1>4, <1>6 DEF Reads
<1>8. QED
  BY <1>7 DEF o

LEMMA ProcessReads ==
  ASSUME NEW p \in Parsers, NEW text \in Texts
  PROVE  Reads(p, text, ProcessChunk(p, text))
<1> DEFINE full == [p EXCEPT !.buffer = @ \o text]
           start == [full EXCEPT !.out = <<>>, !.entered = 0]
<1>1. full \in Parsers /\ full.buffer = p.buffer \o text /\ full.inside = p.inside
  BY Fuller
<1>2. ProcessChunk(p, text)
        = IF Len(full.buffer) > MaxBuffer
          THEN [TryDispatch(full, TRUE) EXCEPT !.buffer = <<>>, !.inside = FALSE]
          ELSE TryDispatch(full, FALSE)
  BY DEF ProcessChunk
<1> HIDE DEF full
<1>3. start.buffer = full.buffer /\ start.inside = full.inside
  BY <1>1 DEF Parsers
<1>4. \A final \in BOOLEAN : Gives(start, TryDispatch(full, final), final)
  BY <1>1, TryDispatchGives
<1> HIDE DEF start
<1>5. \A final \in BOOLEAN : Gives(full, TryDispatch(full, final), final)
  BY <1>3, <1>4, GivesTheSame
<1>6. CASE Len(full.buffer) > MaxBuffer
  <2> DEFINE q == TryDispatch(full, TRUE)
  <2>1. Gives(full, q, TRUE)
    BY <1>5
  <2>2. ProcessChunk(p, text) = [q EXCEPT !.buffer = <<>>, !.inside = FALSE]
    BY <1>2, <1>6
  <2> HIDE DEF q
  <2>3. Reads(p, text, [q EXCEPT !.buffer = <<>>, !.inside = FALSE])
    BY <2>1, <1>1, <1>6, OverflowReads
  <2>4. QED
    BY <2>2, <2>3
<1>7. CASE ~(Len(full.buffer) > MaxBuffer)
  <2>1. Gives(full, TryDispatch(full, FALSE), FALSE)
    BY <1>5
  <2>2. QED
    BY <2>1, <1>1, <1>2, <1>7, GivesReads
<1>8. QED
  BY <1>6, <1>7

LEMMA ManagerReadsText ==
  ASSUME NEW p \in Parsers, NEW text \in Texts
  PROVE  Reads(p, text, ManagerProcess(p, text))
<1> DEFINE full == [p EXCEPT !.buffer = @ \o text]
           start == [full EXCEPT !.out = <<>>]
<1>1. full \in Parsers /\ full.buffer = p.buffer \o text /\ full.inside = p.inside
  BY Fuller
<1>2. ManagerProcess(p, text)
        = IF Len(full.buffer) > MaxBuffer
          THEN [ManagerDispatch(full, TRUE) EXCEPT !.buffer = <<>>, !.inside = FALSE]
          ELSE ManagerDispatch(full, FALSE)
  BY DEF ManagerProcess
<1> HIDE DEF full
<1>3. start.buffer = full.buffer /\ start.inside = full.inside
  BY <1>1 DEF Parsers
<1>4. \A final \in BOOLEAN : Gives(start, ManagerDispatch(full, final), final)
  BY <1>1, ManagerDispatchGives
<1> HIDE DEF start
<1>5. \A final \in BOOLEAN : Gives(full, ManagerDispatch(full, final), final)
  BY <1>3, <1>4, GivesTheSame
<1>6. CASE Len(full.buffer) > MaxBuffer
  <2> DEFINE q == ManagerDispatch(full, TRUE)
  <2>1. Gives(full, q, TRUE)
    BY <1>5
  <2>2. ManagerProcess(p, text) = [q EXCEPT !.buffer = <<>>, !.inside = FALSE]
    BY <1>2, <1>6
  <2> HIDE DEF q
  <2>3. Reads(p, text, [q EXCEPT !.buffer = <<>>, !.inside = FALSE])
    BY <2>1, <1>1, <1>6, OverflowReads
  <2>4. QED
    BY <2>2, <2>3
<1>7. CASE ~(Len(full.buffer) > MaxBuffer)
  <2>1. Gives(full, ManagerDispatch(full, FALSE), FALSE)
    BY <1>5
  <2>2. QED
    BY <2>1, <1>1, <1>2, <1>7, GivesReads
<1>8. QED
  BY <1>6, <1>7

\* A chunk without text.
LEMMA QuietReads ==
  ASSUME NEW p \in Parsers
  PROVE  Reads(p, <<>>, [p EXCEPT !.out = <<>>])
<1> DEFINE q == [p EXCEPT !.out = <<>>]
<1>1. Gives(p, q, FALSE)
  BY Quiet
<1>2. p.buffer \in Seq(Characters) /\ <<>> \in Texts
  BY ParserFields DEF Texts
<1>3. p.buffer = p.buffer \o <<>>
  BY <1>2, ConcatEmptySeq
<1> HIDE DEF q
<1>4. Reads(p, <<>>, q)
  BY <1>1, <1>2, <1>3, GivesReads
<1>5. QED
  BY <1>4 DEF q

\* What the model thinks, as a message, is no text.
Asides == {<<>>} \union {<<Message("thinking", <<Thoughts[n]>>)>> : n \in 1..MaxCost}

LEMMA AsidesSay ==
  ASSUME NEW think \in Asides
  PROVE  /\ think \in Seq(Notes) /\ FromText(think) = <<>>
         /\ think # <<>> => \E e \in Notes : think = <<e>> /\ e.type # "content"
<1>1. CASE think = <<>>
  BY <1>1, NoMessages
<1>2. CASE think # <<>>
  <2>1. PICK n \in 1..MaxCost : think = <<Message("thinking", <<Thoughts[n]>>)>>
    BY <1>2 DEF Asides
  <2> DEFINE t == <<Thoughts[n]>>
             e == Message("thinking", t)
  <2>2. Thoughts[n] \in Letters /\ Thoughts[n] \notin Characters
    BY StreamAssumption DEF Letters
  <2>3. t \in Seq(Letters) /\ t[1] = Thoughts[n] /\ 1 \in 1..Len(t)
    BY <2>2
  <2> HIDE DEF t
  <2>4. e.text = t /\ e.type = "thinking" /\ e \in Notes
    BY <2>3 DEF Message, Notes
  <2> HIDE DEF e
  <2>5. ~IsFromText(t)
    BY <2>2, <2>3 DEF IsFromText
  <2>6. FromText(<<e>>) = <<>> /\ <<e>> \in Seq(Notes)
    BY <2>4, <2>5, OneMessage
  <2>7. e.type # "content"
    BY <2>4
  <2>8. QED
    BY <2>1, <2>4, <2>6, <2>7 DEF e, t
<1>3. QED
  BY <1>1, <1>2

\* Texts one behind the other.
Written == Seq(Letters)
Join(a, b) == a \o b

LEMMA JoinIs ==
  /\ \A x, y \in Written : Join(x, y) \in Written
  /\ \A x, y, z \in Written : Join(Join(x, y), z) = Join(x, Join(y, z))
<1>1. \A x, y \in Seq(Letters) : x \o y \in Seq(Letters)
  BY ConcatProperties
<1>2. \A x, y, z \in Seq(Letters) : (x \o y) \o z = x \o (y \o z)
  BY ConcatAssociative
<1>3. QED
  BY ONLY <1>1, <1>2 DEF Join, Written

\* The same for messages.
Messages == Seq(Notes)

LEMMA NotesJoin ==
  /\ \A x, y \in Messages : Join(x, y) \in Messages
  /\ \A x, y, z \in Messages : Join(Join(x, y), z) = Join(x, Join(y, z))
<1>1. \A x, y \in Seq(Notes) : x \o y \in Seq(Notes)
  BY ConcatProperties
<1>2. \A x, y, z \in Seq(Notes) : (x \o y) \o z = x \o (y \o z)
  BY ConcatAssociative
<1>3. QED
  BY ONLY <1>1, <1>2 DEF Join, Messages

LEMMA NotesFour ==
  ASSUME NEW a \in Messages, NEW b \in Messages, NEW c \in Messages, NEW d \in Messages
  PROVE  Join(a, Join(Join(b, c), d)) = Join(Join(Join(a, b), c), d)
BY NotesJoin

\* What a list of messages and a buffer have become.
ListWith(before, p, think, q) == Join(Join(Join(before, p.out), think), q.out)

ChunkIsGiven(parser, before, text, p, q, complete, after) ==
  /\ q \in Parsers /\ q.out \in Seq(Pieces) /\ p.out \in Seq(Pieces) /\ after \in Seq(Notes)
  /\ FromText(after) \o q.buffer = (FromText(before) \o parser.buffer) \o text
  /\ complete => q.buffer = <<>>
  /\ Len(parser.buffer \o text) <= MaxBuffer /\ CleanIn(before, parser) =>
       NoTag(after) /\ (~complete => CleanIn(after, q))

LEMMA ChunkForParser ==
  ASSUME NEW parser \in Parsers, NEW before \in Seq(Notes), NEW text \in Texts,
         NEW think \in Asides, NEW p, Reads(parser, text, p),
         NEW q, NEW complete \in BOOLEAN, Gives(p, q, complete),
         NEW after, after = ListWith(before, p, think, q)
  PROVE  ChunkIsGiven(parser, before, text, p, q, complete, after)
<1>1. p \in Parsers /\ q \in Parsers
  BY DEF Reads, Gives
<1>2. /\ p.out \in Seq(Pieces) /\ q.out \in Seq(Pieces)
      /\ p.out \in Seq(Notes) /\ q.out \in Seq(Notes)
  BY <1>1, ParserFields, PiecesAreNotes
<1> DEFINE said == before \o p.out
           thought == said \o think
<1>3. said \in Seq(Notes) /\ think \in Seq(Notes)
  BY <1>2, ConcatProperties, AsidesSay
<1>4. thought \in Seq(Notes) /\ after = thought \o q.out
  BY <1>3, ConcatProperties DEF ListWith, Join
<1>5. after \in Seq(Notes)
  BY <1>2, <1>4, ConcatProperties
<1> DEFINE a == FromText(before)
           w == Whole(p.out)
           v == Whole(q.out)
<1>6. FromText(said) = a \o w
  BY <1>2, MessagesJoin, PiecesAreText
<1>7. FromText(thought) = a \o w
  <2>1. FromText(thought) = FromText(said) \o FromText(think)
    BY <1>3, MessagesJoin
  <2>2. FromText(think) = <<>> /\ FromText(said) \in Seq(Letters)
    BY <1>3, AsidesSay, MessagesType
  <2> HIDE DEF said, thought
  <2>3. QED
    BY <2>1, <2>2, <1>6, ConcatEmptySeq
<1>8. FromText(after) = (a \o w) \o v
  <2> HIDE DEF thought
  <2> DEFINE b == q.out
  <2>0. thought \in Seq(Notes) /\ b \in Seq(Notes) /\ after = thought \o b
    BY <1>2, <1>4
  <2> HIDE DEF b
  <2>1. FromText(thought \o b) = FromText(thought) \o FromText(b)
    BY ONLY <2>0, MessagesJoin
  <2>2. QED
    BY <2>0, <2>1, <1>2, <1>7, PiecesAreText DEF b
<1>9. /\ a \in Seq(Letters) /\ w \in Seq(Letters) /\ v \in Seq(Letters)
      /\ p.buffer \in Seq(Letters) /\ q.buffer \in Seq(Letters) /\ parser.buffer \in Seq(Letters)
      /\ text \in Seq(Letters)
  BY <1>1, <1>2, MessagesType, ParserFields, TextsAreWritten
<1>10. v \o q.buffer = p.buffer /\ w \o p.buffer = parser.buffer \o text
  BY DEF Reads, Gives
<1> HIDE DEF a, w, v, said, thought
<1>11. ((a \o w) \o v) \o q.buffer = (a \o parser.buffer) \o text
  <2> DEFINE held == p.buffer
             left == q.buffer
             begun == parser.buffer
  <2>1. /\ a \in Written /\ w \in Written /\ v \in Written /\ held \in Written
        /\ left \in Written /\ begun \in Written /\ text \in Written
    BY <1>9 DEF Written
  <2>2. Join(v, left) = held /\ Join(w, held) = Join(begun, text)
    BY <1>10 DEF Join
  <2> HIDE DEF held, left, begun
  <2>3. Join(Join(Join(a, w), v), left) = Join(Join(a, begun), text)
    <3>1. Join(a, w) \in Written
      BY ONLY <2>1, <2>2, JoinIs
    <3>2. Join(Join(Join(a, w), v), left) = Join(Join(a, w), held)
      BY ONLY <2>1, <2>2, <3>1, JoinIs
    <3>3. Join(Join(a, w), held) = Join(a, Join(begun, text))
      BY ONLY <2>1, <2>2, JoinIs
    <3>4. Join(Join(a, begun), text) = Join(a, Join(begun, text))
      BY ONLY <2>1, <2>2, JoinIs
    <3>5. QED
      BY ONLY <3>2, <3>3, <3>4
  <2>4. QED
    BY ONLY <2>3 DEF Join, left, begun
<1>12. ASSUME Len(parser.buffer \o text) <= MaxBuffer, CleanIn(before, parser)
       PROVE  NoTag(after) /\ (~complete => CleanIn(after, q))
  <2>1. CleanIn(said, p)
    BY <1>12 DEF Reads, said
  <2>2. CleanIn(thought, p)
    <3>1. CASE think = <<>>
      <4>1. thought = said
        BY <3>1, <1>3, ConcatEmptySeq DEF thought
      <4>2. QED
        BY <4>1, <2>1
    <3>2. CASE think # <<>>
      <4>1. PICK e \in Notes : think = <<e>> /\ e.type # "content"
        BY <3>2, AsidesSay
      <4>2. thought = Append(said, e)
        BY <4>1, <1>3, AppendIsConcat DEF thought
      <4>3. QED
        BY <4>1, <4>2, <2>1, <1>3, CleanAfterThinking DEF CleanIn
    <3>3. QED
      BY <3>1, <3>2
  <2>3. QED
    BY <2>2, <1>4 DEF Gives
<1>13. QED
  BY <1>1, <1>2, <1>5, <1>8, <1>11, <1>12 DEF a, Gives, ChunkIsGiven

-----------------------------------------------------------------------------
(* The text of an answer.                                                  *)

Counts == [chunks : Nat, cost : Nat]

\* Every reader's text is a list of messages; no character is lost, and no tag shown.
TextInv ==
  /\ taken \in Counts /\ taken.chunks <= taken.cost /\ taken.cost <= MaxCost
  /\ parsed \in [parser : Parsers, overflown : BOOLEAN]
  /\ managed \in [manager : Parsers, shown : Seq(Pieces), overflown : BOOLEAN]
  /\ iterated \in Seq(Notes) /\ collected.content \in Texts
  /\ NothingIsLost
  /\ parsed.overflown \/ /\ NoTag(iterated)
                         /\ upstream # "ended" => CleanIn(iterated, parsed.parser)
  /\ managed.overflown \/ /\ NoTag(managed.shown)
                          /\ upstream # "ended" => CleanIn(managed.shown, managed.manager)

Chunks(n) ==
  [content : Texts, thinking : {<<>>, <<Thoughts[n]>>}, calls : Seq(Deltas(n)),
   usage : Usages \union {0}, complete : BOOLEAN]

\* What the provider sends is a chunk.
LEMMA ChunkIs ==
  ASSUME NEW n \in Nat, NEW raw \in RawChunks(n)
  PROVE  FromOpenAI(raw) \in Chunks(n) /\ Cost(FromOpenAI(raw)) \in {1, 2}
<1> DEFINE D == Deltas(n)
           C == Seq(D)
           thinks == {<<>>, <<Thoughts[n]>>}
           all == Usages \union {0}
           R == [choices : BOOLEAN, finish : BOOLEAN, content : Texts, thinking : thinks,
                 calls : C, usage : all]
<1>1. Contents \subseteq Texts /\ <<>> \in Texts /\ <<>> \in thinks /\ <<Thoughts[n]>> \in thinks
  BY StreamAssumption DEF Texts
<1>2. /\ <<>> \in C /\ \A d, e \in D : <<d>> \in C /\ <<d, e>> \in C
  <2> HIDE DEF D
  <2>1. QED
    OBVIOUS
<1>3. 0 \in all /\ Usages \subseteq all
  OBVIOUS
<1> HIDE DEF thinks, all
<1>4. Plain \in R
  BY <1>1, <1>2, <1>3 DEF Plain
<1> HIDE DEF C
<1>5. /\ \A text \in Contents, f \in BOOLEAN : TextChunk(text, f) \in R
      /\ \A text \in Contents \union {<<>>} : ThoughtChunk(n, text) \in R
      /\ \A calls \in C, f \in BOOLEAN : CallChunk(calls, f) \in R
      /\ \A choices \in BOOLEAN, u \in all : LastChunk(choices, u) \in R
  <2>1. ASSUME NEW text \in Contents, NEW f \in BOOLEAN PROVE TextChunk(text, f) \in R
    <3>1. text \in Texts /\ f \in BOOLEAN
      BY <1>1
    <3>2. QED
      BY ONLY <1>4, <3>1 DEF TextChunk
  <2>2. ASSUME NEW text \in Contents \union {<<>>} PROVE ThoughtChunk(n, text) \in R
    <3> DEFINE thought == <<Thoughts[n]>>
    <3>1. text \in Texts /\ thought \in thinks
      BY <1>1
    <3>2. ThoughtChunk(n, text) = [Plain EXCEPT !.thinking = thought, !.content = text]
      BY DEF ThoughtChunk
    <3> HIDE DEF thought
    <3>3. QED
      BY ONLY <1>4, <3>1, <3>2
  <2>3. ASSUME NEW calls \in C, NEW f \in BOOLEAN PROVE CallChunk(calls, f) \in R
    BY ONLY <1>4, calls \in C, f \in BOOLEAN DEF CallChunk
  <2>4. ASSUME NEW choices \in BOOLEAN, NEW u \in all PROVE LastChunk(choices, u) \in R
    BY ONLY <1>4, choices \in BOOLEAN, u \in all DEF LastChunk
  <2> HIDE DEF R
  <2>5. QED
    BY <2>1, <2>2, <2>3, <2>4
<1>6. raw \in R
  <2>1. \A d, e \in D : <<d>> \in C /\ <<d, e>> \in C
    BY <1>2
  <2>2. \/ \E x \in Contents \X BOOLEAN : raw = TextChunk(x[1], x[2])
        \/ \E text \in Contents \union {<<>>} : raw = ThoughtChunk(n, text)
        \/ \E x \in D \X BOOLEAN : raw = CallChunk(<<x[1]>>, x[2])
        \/ \E two \in D \X {d \in D : d.given /\ d.args # <<>>} : raw = CallChunk(two, FALSE)
        \/ \E x \in BOOLEAN \X all : raw = LastChunk(x[1], x[2])
    BY DEF RawChunks, D, all
  <2>3. \A two \in D \X {d \in D : d.given /\ d.args # <<>>} : two \in C
    <3> HIDE DEF D
    <3>1. ASSUME NEW two \in D \X {d \in D : d.given /\ d.args # <<>>} PROVE two \in C
      <4>1. two = <<two[1], two[2]>> /\ two[1] \in D /\ two[2] \in D
        OBVIOUS
      <4>2. QED
        BY <2>1, <4>1
    <3>2. QED
      BY <3>1
  <2> HIDE DEF R, D
  <2>4. QED
    BY <1>5, <2>1, <2>2, <2>3
<1>7. FromOpenAI(raw)
        = [content |-> raw.content, thinking |-> raw.thinking, calls |-> raw.calls,
           usage |-> raw.usage, complete |-> raw.finish \/ ~raw.choices]
  BY DEF FromOpenAI
<1>8. FromOpenAI(raw) \in [content : Texts, thinking : thinks, calls : C, usage : all,
                           complete : BOOLEAN]
  BY <1>6, <1>7
<1>9. Cost(FromOpenAI(raw)) \in {1, 2}
  BY DEF Cost
<1>10. QED
  BY <1>8, <1>9 DEF Chunks, thinks, all, C, D

LEMMA ChunkFields ==
  ASSUME NEW n \in Nat, NEW chunk \in Chunks(n)
  PROVE  /\ chunk.content \in Texts /\ chunk.thinking \in {<<>>, <<Thoughts[n]>>}
         /\ chunk.calls \in Seq(Deltas(n)) /\ chunk.usage \in Usages \union {0}
         /\ chunk.complete \in BOOLEAN
BY DEF Chunks

\* A parser, a chunk behind, and when it is flushed with the last one.
LEMMA ParserTakes ==
  ASSUME NEW parser \in Parsers, NEW text \in Texts, NEW complete \in BOOLEAN, NEW p, NEW q,
         p = IF text = <<>> THEN [parser EXCEPT !.out = <<>>] ELSE ProcessChunk(parser, text),
         q = IF complete THEN Flush(p) ELSE [p EXCEPT !.out = <<>>]
  PROVE  Reads(parser, text, p) /\ Gives(p, q, complete)
<1>1. Reads(parser, text, p)
  <2>1. CASE text = <<>>
    BY <2>1, QuietReads
  <2>2. CASE text # <<>>
    BY <2>2, ProcessReads
  <2>3. QED
    BY <2>1, <2>2
<1>2. p \in Parsers
  BY <1>1 DEF Reads
<1>3. CASE complete
  <2>1. q = Flush(p) /\ complete = TRUE
    BY <1>3
  <2>2. Gives(p, Flush(p), TRUE)
    BY <1>2, FlushGives
  <2>3. QED
    BY <2>1, <2>2, <1>1
<1>4. CASE ~complete
  <2>1. q = [p EXCEPT !.out = <<>>] /\ complete = FALSE
    BY <1>4
  <2>2. Gives(p, [p EXCEPT !.out = <<>>], FALSE)
    BY <1>2, Quiet
  <2>3. QED
    BY <2>1, <2>2, <1>1
<1>5. QED
  BY <1>3, <1>4

LEMMA ManagerTakes ==
  ASSUME NEW parser \in Parsers, NEW text \in Texts, NEW complete \in BOOLEAN, NEW p, NEW q,
         p = IF text = <<>> THEN [parser EXCEPT !.out = <<>>] ELSE ManagerProcess(parser, text),
         q = IF complete THEN ManagerFlush(p) ELSE [p EXCEPT !.out = <<>>]
  PROVE  Reads(parser, text, p) /\ Gives(p, q, complete)
<1>1. Reads(parser, text, p)
  <2>1. CASE text = <<>>
    BY <2>1, QuietReads
  <2>2. CASE text # <<>>
    BY <2>2, ManagerReadsText
  <2>3. QED
    BY <2>1, <2>2
<1>2. p \in Parsers
  BY <1>1 DEF Reads
<1>3. CASE complete
  <2>1. q = ManagerFlush(p) /\ complete = TRUE
    BY <1>3
  <2>2. Gives(p, ManagerFlush(p), TRUE)
    BY <1>2, ManagerFlushGives
  <2>3. QED
    BY <2>1, <2>2, <1>1
<1>4. CASE ~complete
  <2>1. q = [p EXCEPT !.out = <<>>] /\ complete = FALSE
    BY <1>4
  <2>2. Gives(p, [p EXCEPT !.out = <<>>], FALSE)
    BY <1>2, Quiet
  <2>3. QED
    BY <2>1, <2>2, <1>1
<1>5. QED
  BY <1>3, <1>4

\* A step of the readers: what every one of them does with a chunk.
TakeOf(chunk) ==
  /\ upstream = "open" /\ upstream' = IF chunk.complete THEN "ended" ELSE "open"
  /\ taken.chunks + 1 \in 1..MaxCost
  /\ taken' \in Counts /\ taken'.chunks = taken.chunks + 1
  /\ taken'.chunks <= taken'.cost /\ taken'.cost <= MaxCost
  /\ Collect(chunk) /\ ChatReads(chunk) /\ Count(chunk)
  /\ ParserReads(chunk) /\ ManagerReads(chunk)
  /\ RuntimeReads(chunk) \/ (runtime.state = "reading" /\ RuntimeStops)

LEMMA TakeIs ==
  ASSUME TextInv, Take
  PROVE  /\ taken.chunks + 1 \in Nat
         /\ \E chunk \in Chunks(taken.chunks + 1) : TakeOf(chunk)
<1>1. /\ taken \in Counts /\ taken.chunks <= taken.cost /\ taken.cost <= MaxCost
      /\ taken.chunks \in Nat /\ taken.cost \in Nat /\ MaxCost \in Nat
  BY StreamAssumption DEF TextInv, Counts
<1>2. PICK raw \in RawChunks(taken.chunks + 1) :
        LET chunk == FromOpenAI(raw)
        IN  /\ taken' = [chunks |-> taken.chunks + 1, cost |-> taken.cost + Cost(chunk)]
            /\ taken'.cost <= MaxCost
            /\ upstream' = IF chunk.complete THEN "ended" ELSE "open"
            /\ Collect(chunk) /\ ChatReads(chunk) /\ Count(chunk)
            /\ ParserReads(chunk) /\ ManagerReads(chunk)
            /\ \/ RuntimeReads(chunk)
               \/ runtime.state = "reading" /\ RuntimeStops
  BY DEF Take
<1> DEFINE chunk == FromOpenAI(raw)
<1>3. chunk \in Chunks(taken.chunks + 1) /\ Cost(chunk) \in {1, 2}
  BY <1>1, ChunkIs
<1>4. upstream = "open" /\ taken.cost < MaxCost
  BY DEF Take
<1>5. /\ taken' = [chunks |-> taken.chunks + 1, cost |-> taken.cost + Cost(chunk)]
      /\ taken'.cost <= MaxCost
      /\ upstream' = IF chunk.complete THEN "ended" ELSE "open"
      /\ Collect(chunk) /\ ChatReads(chunk) /\ Count(chunk)
      /\ ParserReads(chunk) /\ ManagerReads(chunk)
      /\ RuntimeReads(chunk) \/ (runtime.state = "reading" /\ RuntimeStops)
  BY <1>2
<1> HIDE DEF chunk
<1>6. /\ taken.chunks + 1 \in 1..MaxCost
      /\ taken' \in Counts /\ taken'.chunks = taken.chunks + 1
      /\ taken'.chunks <= taken'.cost /\ taken'.cost <= MaxCost
  BY <1>1, <1>3, <1>4, <1>5 DEF Counts
<1>7. TakeOf(chunk)
  BY <1>4, <1>5, <1>6 DEF TakeOf
<1>8. QED
  BY <1>1, <1>3, <1>7

\* Thinking is an aside.
LEMMA AsideOf ==
  ASSUME NEW n \in 1..MaxCost, NEW chunk \in Chunks(n)
  PROVE  (IF chunk.thinking = <<>> THEN <<>> ELSE <<Message("thinking", chunk.thinking)>>) \in Asides
<1>1. chunk.thinking \in {<<>>, <<Thoughts[n]>>}
  BY ChunkFields
<1>2. CASE chunk.thinking = <<>>
  BY <1>2 DEF Asides
<1>3. CASE chunk.thinking # <<>>
  <2>1. chunk.thinking = <<Thoughts[n]>>
    BY <1>1, <1>3
  <2>2. <<Message("thinking", <<Thoughts[n]>>)>> \in Asides
    BY DEF Asides
  <2>3. QED
    BY <2>1, <2>2, <1>3
<1>4. QED
  BY <1>2, <1>3

\* The messages of a chunk.
LEMMA ParserReadsText ==
  ASSUME TextInv, NEW chunk \in Chunks(taken.chunks + 1), TakeOf(chunk)
  PROVE  /\ parsed' \in [parser : Parsers, overflown : BOOLEAN]
         /\ iterated' \in Seq(Notes)
         /\ FromText(iterated') \o parsed'.parser.buffer = collected'.content
         /\ upstream' = "ended" => parsed'.parser.buffer = <<>>
         /\ parsed'.overflown \/ /\ NoTag(iterated')
                                 /\ upstream' # "ended" => CleanIn(iterated', parsed'.parser)
<1> DEFINE parser == parsed.parser
           text == chunk.content
           think == IF chunk.thinking = <<>> THEN <<>> ELSE <<Message("thinking", chunk.thinking)>>
           p == IF text = <<>> THEN [parser EXCEPT !.out = <<>>] ELSE ProcessChunk(parser, text)
           q == IF chunk.complete THEN Flush(p) ELSE [p EXCEPT !.out = <<>>]
           r == [q EXCEPT !.out = <<>>]
           full == Len(parser.buffer \o text) > MaxBuffer
           after == ListWith(iterated, p, think, q)
<1>1. /\ parser \in Parsers /\ parsed.overflown \in BOOLEAN /\ iterated \in Seq(Notes)
      /\ FromText(iterated) \o parser.buffer = collected.content
      /\ parsed.overflown \/ /\ NoTag(iterated)
                             /\ upstream # "ended" => CleanIn(iterated, parser)
  BY DEF TextInv, NothingIsLost
<1>2. /\ upstream = "open" /\ upstream' = IF chunk.complete THEN "ended" ELSE "open"
      /\ collected'.content = collected.content \o text
  BY DEF TakeOf, Collect
<1>3. text \in Texts /\ chunk.complete \in BOOLEAN /\ think \in Asides
  <2>1. taken.chunks + 1 \in 1..MaxCost
    BY DEF TakeOf
  <2>2. QED
    BY <2>1, ChunkFields, AsideOf
<1>4. /\ parsed' = [parser |-> r, overflown |-> parsed.overflown \/ full]
      /\ iterated' = iterated \o ((p.out \o think) \o q.out)
  BY DEF TakeOf, ParserReads, Iterate, Parsed
<1> HIDE DEF think
<1>5. Reads(parser, text, p) /\ Gives(p, q, chunk.complete)
  BY <1>1, <1>3, ParserTakes
<1> HIDE DEF p, q, r, full
<1>6. p \in Parsers /\ q \in Parsers
  BY <1>5 DEF Reads, Gives
<1>7. iterated' = after
  <2> DEFINE a == p.out
             b == q.out
  <2>1. a \in Messages /\ b \in Messages /\ think \in Messages /\ iterated \in Messages
    BY <1>1, <1>3, <1>6, ParserFields, PiecesAreNotes, AsidesSay DEF Messages
  <2> HIDE DEF a, b
  <2>2. Join(iterated, Join(Join(a, think), b)) = Join(Join(Join(iterated, a), think), b)
    BY ONLY <2>1, NotesFour
  <2>3. iterated' = Join(iterated, Join(Join(a, think), b))
    BY <1>4 DEF a, b, Join
  <2>4. QED
    BY <2>2, <2>3 DEF a, b, ListWith
<1>8. /\ after \in Seq(Notes)
      /\ FromText(after) \o q.buffer = (FromText(iterated) \o parser.buffer) \o text
      /\ chunk.complete => q.buffer = <<>>
      /\ Len(parser.buffer \o text) <= MaxBuffer /\ CleanIn(iterated, parser) =>
           NoTag(after) /\ (~chunk.complete => CleanIn(after, q))
  <2> DEFINE complete == chunk.complete
  <2>1. /\ after = ListWith(iterated, p, think, q)
        /\ parser \in Parsers /\ iterated \in Seq(Notes) /\ text \in Texts /\ think \in Asides
        /\ complete \in BOOLEAN /\ Reads(parser, text, p) /\ Gives(p, q, complete)
    BY <1>1, <1>3, <1>5
  <2> HIDE DEF parser, text, after, complete
  <2>2. ChunkIsGiven(parser, iterated, text, p, q, complete, after)
    BY ONLY <2>1, ChunkForParser
  <2>3. QED
    BY ONLY <2>2 DEF parser, text, complete, ChunkIsGiven
<1> HIDE DEF after
<1>9. r \in Parsers /\ r.buffer = q.buffer /\ r.inside = q.inside
  BY <1>6, Quiet DEF r
<1>10. full \in BOOLEAN /\ (~full => Len(parser.buffer \o text) <= MaxBuffer)
  <2> DEFINE a == parser.buffer
  <2>1. a \in Seq(Characters) /\ text \in Seq(Characters)
    BY <1>1, <1>3, ParserFields DEF Texts
  <2> HIDE DEF a, text
  <2>2. Len(a \o text) \in Nat
    BY ONLY <2>1, ConcatProperties
  <2>3. MaxBuffer \in Nat
    BY TextAssumption
  <2>4. QED
    BY <2>2, <2>3 DEF full, a
<1>11. parsed' \in [parser : Parsers, overflown : BOOLEAN]
  BY <1>1, <1>4, <1>9, <1>10
<1>12. ASSUME ~parsed'.overflown
       PROVE  NoTag(iterated') /\ (upstream' # "ended" => CleanIn(iterated', parsed'.parser))
  <2>1. ~full /\ ~parsed.overflown
    BY <1>4, <1>12
  <2>2. CleanIn(iterated, parser)
    BY <2>1, <1>1, <1>2
  <2>3. NoTag(after) /\ (~chunk.complete => CleanIn(after, q))
    BY <2>1, <2>2, <1>8, <1>10
  <2>4. CleanIn(after, q) => CleanIn(after, r)
    BY <1>9 DEF CleanIn
  <2>5. parsed'.parser = r
    BY <1>4
  <2>6. QED
    BY <2>3, <2>4, <2>5, <1>2, <1>7
<1>13. parsed'.parser.buffer = q.buffer
  BY <1>4, <1>9
<1>14. QED
  BY <1>1, <1>2, <1>7, <1>8, <1>11, <1>12, <1>13

\* Pieces one behind the other.
LEMMA PiecesJoin ==
  ASSUME NEW a \in Seq(Pieces), NEW b \in Seq(Pieces), NEW c \in Seq(Pieces)
  PROVE  Join(Join(a, b), c) \in Seq(Pieces) /\ Join(Join(Join(a, b), <<>>), c) = Join(Join(a, b), c)
<1>1. a \o b \in Seq(Pieces)
  BY ConcatProperties
<1> DEFINE d == a \o b
<1> HIDE DEF d
<1>2. d \in Seq(Pieces)
  BY <1>1 DEF d
<1>3. d \o c \in Seq(Pieces)
  BY ONLY <1>2, c \in Seq(Pieces), ConcatProperties
<1>4. d \o <<>> = d
  BY ONLY <1>2, ConcatEmptySeq
<1>5. QED
  BY <1>3, <1>4 DEF Join, d

\* What the manager has shown.
LEMMA ManagerReadsChunk ==
  ASSUME TextInv, NEW chunk \in Chunks(taken.chunks + 1), TakeOf(chunk)
  PROVE  /\ managed' \in [manager : Parsers, shown : Seq(Pieces), overflown : BOOLEAN]
         /\ Whole(managed'.shown) \o managed'.manager.buffer = collected'.content
         /\ upstream' = "ended" => managed'.manager.buffer = <<>>
         /\ managed'.overflown \/ /\ NoTag(managed'.shown)
                                  /\ upstream' # "ended" => CleanIn(managed'.shown, managed'.manager)
<1> DEFINE parser == managed.manager
           shown == managed.shown
           text == chunk.content
           p == IF text = <<>> THEN [parser EXCEPT !.out = <<>>] ELSE ManagerProcess(parser, text)
           q == IF chunk.complete THEN ManagerFlush(p) ELSE [p EXCEPT !.out = <<>>]
           full == Len(parser.buffer \o text) > MaxBuffer
           after == Join(Join(shown, p.out), q.out)
<1>1. /\ parser \in Parsers /\ managed.overflown \in BOOLEAN /\ shown \in Seq(Pieces)
      /\ Whole(shown) \o parser.buffer = collected.content
      /\ managed.overflown \/ /\ NoTag(shown)
                              /\ upstream # "ended" => CleanIn(shown, parser)
  BY DEF TextInv, NothingIsLost
<1>2. /\ upstream = "open" /\ upstream' = IF chunk.complete THEN "ended" ELSE "open"
      /\ collected'.content = collected.content \o text
  BY DEF TakeOf, Collect
<1>3. text \in Texts /\ chunk.complete \in BOOLEAN
  <2>1. taken.chunks + 1 \in 1..MaxCost
    BY DEF TakeOf
  <2>2. QED
    BY <2>1, ChunkFields
<1>4. managed' = [manager |-> q, shown |-> after, overflown |-> managed.overflown \/ full]
  BY DEF TakeOf, ManagerReads, Join
<1>5. Reads(parser, text, p) /\ Gives(p, q, chunk.complete)
  BY <1>1, <1>3, ManagerTakes
<1> HIDE DEF p, q, full
<1>6. p \in Parsers /\ q \in Parsers
  BY <1>5 DEF Reads, Gives
<1>7. after \in Seq(Pieces) /\ after = ListWith(shown, p, <<>>, q)
  <2> DEFINE a == p.out
             b == q.out
  <2>1. a \in Seq(Pieces) /\ b \in Seq(Pieces)
    BY <1>6, ParserFields
  <2> HIDE DEF a, b, shown
  <2>2. /\ Join(Join(shown, a), b) \in Seq(Pieces)
        /\ Join(Join(Join(shown, a), <<>>), b) = Join(Join(shown, a), b)
    BY <1>1, <2>1, PiecesJoin
  <2>3. QED
    BY <2>2 DEF a, b, ListWith
<1>8. /\ after \in Seq(Notes)
      /\ FromText(after) \o q.buffer = (FromText(shown) \o parser.buffer) \o text
      /\ chunk.complete => q.buffer = <<>>
      /\ Len(parser.buffer \o text) <= MaxBuffer /\ CleanIn(shown, parser) =>
           NoTag(after) /\ (~chunk.complete => CleanIn(after, q))
  <2> DEFINE complete == chunk.complete
             think == <<>>
  <2>1. /\ after = ListWith(shown, p, think, q)
        /\ parser \in Parsers /\ shown \in Seq(Notes) /\ text \in Texts /\ think \in Asides
        /\ complete \in BOOLEAN /\ Reads(parser, text, p) /\ Gives(p, q, complete)
    BY <1>1, <1>3, <1>5, <1>7, PiecesAreNotes DEF Asides
  <2> HIDE DEF parser, text, after, complete, shown, think
  <2>2. ChunkIsGiven(parser, shown, text, p, q, complete, after)
    BY ONLY <2>1, ChunkForParser
  <2>3. QED
    BY ONLY <2>2 DEF parser, text, complete, shown, ChunkIsGiven
<1> HIDE DEF after
<1>9. Whole(after) \o q.buffer = collected'.content
  <2>1. FromText(after) = Whole(after) /\ FromText(shown) = Whole(shown)
    BY <1>1, <1>7, PiecesAreText
  <2>2. QED
    BY <2>1, <1>1, <1>2, <1>8
<1>10. full \in BOOLEAN /\ (~full => Len(parser.buffer \o text) <= MaxBuffer)
  <2> DEFINE a == parser.buffer
  <2>1. a \in Seq(Characters) /\ text \in Seq(Characters)
    BY <1>1, <1>3, ParserFields DEF Texts
  <2> HIDE DEF a, text
  <2>2. Len(a \o text) \in Nat
    BY ONLY <2>1, ConcatProperties
  <2>3. MaxBuffer \in Nat
    BY TextAssumption
  <2>4. QED
    BY <2>2, <2>3 DEF full, a
<1>11. managed' \in [manager : Parsers, shown : Seq(Pieces), overflown : BOOLEAN]
  BY <1>1, <1>4, <1>6, <1>7, <1>10
<1>12. ASSUME ~managed'.overflown
       PROVE  NoTag(managed'.shown) /\ (upstream' # "ended" => CleanIn(managed'.shown, managed'.manager))
  <2>1. ~full /\ ~managed.overflown
    BY <1>4, <1>12
  <2>2. CleanIn(shown, parser)
    BY <2>1, <1>1, <1>2
  <2>3. NoTag(after) /\ (~chunk.complete => CleanIn(after, q))
    BY <2>1, <2>2, <1>8, <1>10
  <2>4. managed'.manager = q /\ managed'.shown = after
    BY <1>4
  <2>5. QED
    BY <2>3, <2>4, <1>2
<1>13. QED
  BY <1>2, <1>4, <1>8, <1>9, <1>11, <1>12

\* A parser that is flushed.
LEMMA Flushed ==
  ASSUME NEW parser \in Parsers, NEW before \in Seq(Notes), NEW q, Gives(parser, q, TRUE),
         NEW after, after = Join(before, q.out)
  PROVE  /\ q \in Parsers /\ q.buffer = <<>> /\ after \in Seq(Notes)
         /\ FromText(after) = FromText(before) \o parser.buffer
         /\ CleanIn(before, parser) => NoTag(after)
<1>1. /\ q \in Parsers /\ q.buffer = <<>> /\ Whole(q.out) \o q.buffer = parser.buffer
      /\ CleanIn(before, parser) => NoTag(after)
  BY DEF Gives, Join
<1>2. q.out \in Seq(Pieces) /\ q.out \in Seq(Notes)
  BY <1>1, ParserFields, PiecesAreNotes
<1>3. Whole(q.out) = parser.buffer
  <2> DEFINE w == Whole(q.out)
  <2>1. w \in Seq(Characters)
    BY <1>2, PiecesAreText DEF Texts
  <2> HIDE DEF w
  <2>2. w \o <<>> = w
    BY ONLY <2>1, ConcatEmptySeq
  <2>3. QED
    BY <2>2, <1>1 DEF w
<1>4. after \in Seq(Notes) /\ FromText(after) = FromText(before) \o FromText(q.out)
  BY <1>2, MessagesJoin DEF Join
<1>5. QED
  BY <1>1, <1>2, <1>3, <1>4, PiecesAreText

LEMMA TextAtTheEnd ==
  ASSUME TextInv, EndOfStream
  PROVE  TextInv'
<1> DEFINE parser == parsed.parser
           manager == managed.manager
           shown == managed.shown
           p == Flush(parser)
           q == ManagerFlush(manager)
           r == [p EXCEPT !.out = <<>>]
           after == Join(shown, q.out)
<1>1. /\ parser \in Parsers /\ parsed.overflown \in BOOLEAN /\ iterated \in Seq(Notes)
      /\ FromText(iterated) \o parser.buffer = collected.content
      /\ manager \in Parsers /\ managed.overflown \in BOOLEAN /\ shown \in Seq(Pieces)
      /\ Whole(shown) \o manager.buffer = collected.content
      /\ parsed \in [parser : Parsers, overflown : BOOLEAN]
      /\ managed \in [manager : Parsers, shown : Seq(Pieces), overflown : BOOLEAN]
  BY DEF TextInv, NothingIsLost
<1>2. /\ upstream = "open" /\ upstream' = "ended" /\ UNCHANGED <<taken, collected>>
      /\ parsed' = [parsed EXCEPT !.parser = r] /\ iterated' = Join(iterated, p.out)
      /\ managed' = [managed EXCEPT !.manager = q, !.shown = @ \o q.out]
  BY DEF EndOfStream, Iterate, Join
<1>3. Gives(parser, p, TRUE) /\ Gives(manager, q, TRUE)
  BY <1>1, FlushGives, ManagerFlushGives
<1>4. managed' = [managed EXCEPT !.manager = q, !.shown = after]
  BY <1>2 DEF Join
<1> HIDE DEF p, q, after
<1>5. /\ p \in Parsers /\ p.buffer = <<>> /\ iterated' \in Seq(Notes)
      /\ FromText(iterated') = FromText(iterated) \o parser.buffer
      /\ CleanIn(iterated, parser) => NoTag(iterated')
  BY <1>1, <1>2, <1>3, Flushed
<1>6. /\ q \in Parsers /\ q.buffer = <<>>
      /\ FromText(after) = FromText(shown) \o manager.buffer
      /\ CleanIn(shown, manager) => NoTag(after)
  BY <1>1, <1>3, Flushed, PiecesAreNotes DEF after
<1>7. r \in Parsers /\ r.buffer = <<>>
  BY <1>5, Quiet
<1>8. after \in Seq(Pieces)
  <2>1. q.out \in Seq(Pieces)
    BY <1>6, ParserFields
  <2> DEFINE out == q.out
  <2>2. out \in Seq(Pieces)
    BY <2>1
  <2> HIDE DEF out
  <2>3. shown \o out \in Seq(Pieces)
    BY <1>1, <2>2, ConcatProperties
  <2>4. QED
    BY <2>3 DEF out, after, Join
<1> HIDE DEF r
<1>9. /\ parsed' \in [parser : Parsers, overflown : BOOLEAN]
      /\ parsed'.parser = r /\ parsed'.overflown = parsed.overflown
  BY <1>1, <1>2, <1>7
<1>10. /\ managed' \in [manager : Parsers, shown : Seq(Pieces), overflown : BOOLEAN]
       /\ managed'.manager = q /\ managed'.shown = after /\ managed'.overflown = managed.overflown
  <2> DEFINE X == Seq(Pieces)
             M == [manager : Parsers, shown : X, overflown : BOOLEAN]
  <2>1. managed \in M /\ q \in Parsers /\ after \in X
    BY <1>1, <1>6, <1>8
  <2> HIDE DEF X
  <2>2. QED
    BY ONLY <2>1, <1>4 DEF X
<1>11. Whole(after) = Whole(shown) \o manager.buffer
  BY <1>1, <1>6, <1>8, PiecesAreText
<1>12. collected.content \in Seq(Characters)
  BY DEF TextInv, Texts
<1>13. FromText(iterated') \o <<>> = collected.content /\ Whole(after) \o <<>> = collected.content
  <2>1. collected.content \o <<>> = collected.content
    BY <1>12, ConcatEmptySeq
  <2>2. QED
    BY <2>1, <1>1, <1>5, <1>11
<1>14. NothingIsLost'
  BY <1>2, <1>6, <1>7, <1>9, <1>10, <1>13 DEF NothingIsLost
<1>15. /\ parsed.overflown \/ NoTag(iterated')
       /\ managed.overflown \/ NoTag(after)
  BY <1>2, <1>5, <1>6 DEF TextInv
<1>16. QED
  BY <1>2, <1>5, <1>9, <1>10, <1>14, <1>15 DEF TextInv

LEMMA CleanAtFirst ==
  ASSUME NEW p, p.buffer = <<>>
  PROVE  NoTag(<<>>) /\ CleanIn(<<>>, p)
<1>1. Len(<<>>) = 0
  OBVIOUS
<1>2. NoTag(<<>>)
  BY <1>1 DEF NoTag
<1>3. NoneMeets(<<>>, <<>>)
  BY <1>1 DEF NoneMeets
<1>4. Run(<<>>, 1, 0) = <<>>
  <2>1. SubSeq(<<>>, 1, 0) = <<>>
    OBVIOUS
  <2>2. QED
    BY <2>1, NoMessages DEF Run
<1>5. Waiting(<<>>, <<>>)
  BY <1>1, <1>3, <1>4 DEF Waiting
<1>6. QED
  BY <1>2, <1>5 DEF CleanIn

LEMMA TextInitially == ASSUME StreamInit PROVE TextInv
<1>1. Idle \in Parsers /\ Idle.buffer = <<>> /\ ~Idle.inside
  <2>1. <<>> \in Texts /\ <<>> \in Seq(Pieces) /\ 0 \in Nat
    BY DEF Texts
  <2>2. QED
    BY <2>1 DEF Idle, Parsers
<1>2. NoTag(<<>>) /\ CleanIn(<<>>, Idle)
  BY <1>1, CleanAtFirst
<1>3. Whole(<<>>) = <<>> /\ FromText(<<>>) = <<>>
  BY NoMessages
<1>4. <<>> \o <<>> = <<>>
  OBVIOUS
<1>5. /\ taken = [chunks |-> 0, cost |-> 0] /\ collected.content = <<>>
      /\ parsed = [parser |-> Idle, overflown |-> FALSE] /\ iterated = <<>>
      /\ managed = [manager |-> Idle, shown |-> <<>>, overflown |-> FALSE] /\ upstream = "none"
  BY DEF StreamInit, NoAnswer
<1>6. /\ taken \in Counts /\ taken.chunks <= taken.cost /\ taken.cost <= MaxCost
  BY <1>5, StreamAssumption DEF Counts
<1>7. <<>> \in Texts /\ <<>> \in Seq(Pieces) /\ <<>> \in Seq(Notes)
  BY DEF Texts
<1>8. /\ parsed \in [parser : Parsers, overflown : BOOLEAN]
      /\ managed \in [manager : Parsers, shown : Seq(Pieces), overflown : BOOLEAN]
  BY <1>1, <1>5, <1>7
<1>9. NothingIsLost
  BY <1>1, <1>3, <1>4, <1>5 DEF NothingIsLost
<1>10. QED
  BY <1>2, <1>5, <1>6, <1>7, <1>8, <1>9 DEF TextInv

LEMMA TextStep == TextInv /\ [StreamNext]_streamVars => TextInv'
<1> SUFFICES ASSUME TextInv, [StreamNext]_streamVars PROVE TextInv'
  OBVIOUS
<1>1. ASSUME Take PROVE TextInv'
  <2>1. PICK chunk \in Chunks(taken.chunks + 1) : TakeOf(chunk)
    BY <1>1, TakeIs
  <2>2. /\ taken' \in Counts /\ taken'.chunks <= taken'.cost /\ taken'.cost <= MaxCost
        /\ collected'.content = collected.content \o chunk.content
        /\ taken.chunks + 1 \in 1..MaxCost
    BY <2>1 DEF TakeOf, Collect
  <2>3. collected'.content \in Texts
    <3>1. collected.content \in Texts /\ chunk.content \in Texts
      BY <2>2, ChunkFields DEF TextInv
    <3>2. QED
      BY <3>1, <2>2, ConcatProperties DEF Texts
  <2>4. /\ parsed' \in [parser : Parsers, overflown : BOOLEAN]
        /\ iterated' \in Seq(Notes)
        /\ FromText(iterated') \o parsed'.parser.buffer = collected'.content
        /\ upstream' = "ended" => parsed'.parser.buffer = <<>>
        /\ parsed'.overflown \/ /\ NoTag(iterated')
                                /\ upstream' # "ended" => CleanIn(iterated', parsed'.parser)
    BY <2>1, ParserReadsText
  <2>5. /\ managed' \in [manager : Parsers, shown : Seq(Pieces), overflown : BOOLEAN]
        /\ Whole(managed'.shown) \o managed'.manager.buffer = collected'.content
        /\ upstream' = "ended" => managed'.manager.buffer = <<>>
        /\ managed'.overflown \/ /\ NoTag(managed'.shown)
                                 /\ upstream' # "ended" => CleanIn(managed'.shown, managed'.manager)
    BY <2>1, ManagerReadsChunk
  <2>6. NothingIsLost'
    BY <2>4, <2>5 DEF NothingIsLost
  <2>7. QED
    BY <2>2, <2>3, <2>4, <2>5, <2>6 DEF TextInv
<1>2. ASSUME Request \/ Breaks \/ UNCHANGED streamVars PROVE TextInv'
  <2>1. UNCHANGED <<taken, collected, parsed, iterated, managed>>
    BY <1>2 DEF Request, Breaks, streamVars, parserReaders
  <2>2. (upstream # "ended" /\ upstream' # "ended") \/ upstream' = upstream
    BY <1>2 DEF Request, Breaks, streamVars, Opened
  <2>3. NothingIsLost'
    BY <2>1, <2>2 DEF TextInv, NothingIsLost
  <2>4. QED
    BY <2>1, <2>2, <2>3 DEF TextInv
<1>3. QED
  BY <1>1, <1>2, TextAtTheEnd DEF StreamNext

\* The start of a block never gets into what is shown as content, however the chunks cut
\* it, as long as the buffer has not overflown: no tag has its characters partly among what
\* a parser has given out as content and partly in its buffer.
THEOREM TagsAreNeverShown == StreamSpec => []BlocksAreNotContent
<1>1. StreamInit => TextInv
  BY TextInitially
<1>2. TextInv => BlocksAreNotContent
  BY DEF TextInv, BlocksAreNotContent
<1>3. QED
  BY <1>1, <1>2, TextStep, PTL DEF StreamSpec

-----------------------------------------------------------------------------
(* The calls of an answer.                                                 *)

Call       == [given : BOOLEAN, args : Seq(Nat)]
CallStates == UNION {[D -> Call] : D \in SUBSET Indices}

LEMMA CallsAre ==
  ASSUME NEW calls
  PROVE  calls \in CallStates <=> DOMAIN calls \subseteq Indices /\ calls \in [DOMAIN calls -> Call]
<1>1. ASSUME calls \in CallStates
      PROVE  DOMAIN calls \subseteq Indices /\ calls \in [DOMAIN calls -> Call]
  <2>1. PICK D \in SUBSET Indices : calls \in [D -> Call]
    BY <1>1 DEF CallStates
  <2>2. QED
    BY <2>1
<1>2. ASSUME DOMAIN calls \subseteq Indices, calls \in [DOMAIN calls -> Call]
      PROVE  calls \in CallStates
  BY <1>2 DEF CallStates
<1>3. QED
  BY <1>1, <1>2

LEMMA DeltaIs ==
  ASSUME NEW n \in Nat, NEW d \in Deltas(n)
  PROVE  d.index \in Indices /\ d.given \in BOOLEAN /\ d.args \in Seq(Nat)
<1>1. <<>> \in Seq(Nat) /\ <<n>> \in Seq(Nat)
  OBVIOUS
<1>2. QED
  BY <1>1 DEF Deltas

\* A fragment is merged into its own call.
LEMMA MergeOne ==
  ASSUME NEW n \in Nat, NEW d \in Deltas(n), NEW calls \in CallStates
  PROVE  LET merged == MergeDelta(calls, d)
             before == IF d.index \in DOMAIN calls THEN calls[d.index].args ELSE <<>>
         IN  /\ merged \in CallStates
             /\ DOMAIN merged = DOMAIN calls \union {d.index}
             /\ merged[d.index].args = before \o d.args
             /\ \A i \in DOMAIN calls : i # d.index => merged[i] = calls[i]
<1> DEFINE merged == MergeDelta(calls, d)
           old == IF d.index \in DOMAIN calls THEN calls[d.index] ELSE [given |-> FALSE, args |-> <<>>]
           before == IF d.index \in DOMAIN calls THEN calls[d.index].args ELSE <<>>
           new == [given |-> old.given \/ d.given, args |-> old.args \o d.args]
           D == DOMAIN calls \union {d.index}
<1>1. DOMAIN calls \subseteq Indices /\ calls \in [DOMAIN calls -> Call]
  BY CallsAre
<1>2. d.index \in Indices /\ d.given \in BOOLEAN /\ d.args \in Seq(Nat)
  BY DeltaIs
<1>3. old \in Call /\ old.args = before
  <2>1. <<>> \in Seq(Nat)
    OBVIOUS
  <2>2. QED
    BY <1>1, <2>1 DEF Call
<1>4. merged = [i \in D |-> IF i = d.index THEN new ELSE calls[i]]
  BY DEF MergeDelta
<1> HIDE DEF old, before
<1>5. new \in Call /\ new.args = before \o d.args
  <2>1. old.given \in BOOLEAN /\ old.args \in Seq(Nat)
    BY <1>3 DEF Call
  <2>2. old.args \o d.args \in Seq(Nat)
    BY <2>1, <1>2, ConcatProperties
  <2>3. QED
    BY <2>1, <2>2, <1>2, <1>3 DEF Call
<1> HIDE DEF new, merged
<1>6. /\ DOMAIN merged = D /\ merged \in [D -> Call] /\ merged[d.index] = new
      /\ \A i \in DOMAIN calls : i # d.index => merged[i] = calls[i]
  BY <1>1, <1>4, <1>5
<1>7. merged \in CallStates
  BY <1>1, <1>2, <1>6, CallsAre
<1>8. QED
  BY <1>5, <1>6, <1>7 DEF merged, before

\* The rounds of a merge.
LEMMA MergedIs ==
  ASSUME NEW n \in Nat, NEW deltas \in Seq(Deltas(n)), NEW calls \in CallStates
  PROVE  \E f \in [0..Len(deltas) -> CallStates] :
           /\ f[0] = calls
           /\ \A k \in 1..Len(deltas) : f[k] = MergeDelta(f[k - 1], deltas[k])
           /\ Merge(calls, deltas) = f[Len(deltas)]
<1> DEFINE N == Len(deltas)
           Is(g) == g = [k \in 0..N |-> IF k = 0 THEN calls ELSE MergeDelta(g[k - 1], deltas[k])]
           merged == CHOOSE g : Is(g)
           F == [k \in 1..N |-> [x \in CallStates |-> MergeDelta(x, deltas[k])]]
<1>1. Merge(calls, deltas) = merged[N]
  BY DEF Merge
<1>2. N \in Nat /\ \A k \in 1..N : deltas[k] \in Deltas(n)
  OBVIOUS
<1> HIDE DEF N
<1>3. F \in [1..N -> [CallStates -> CallStates]]
  BY <1>2, MergeOne
<1>4. \A k \in 1..N : \A x \in CallStates : F[k][x] = MergeDelta(x, deltas[k])
  OBVIOUS
<1> HIDE DEF F
<1>5. \E g : Is(g)
  <2>1. PICK g \in [0..N -> CallStates] : RoundsOf(g, F, N, calls)
    BY <1>2, <1>3, RoundsExist
  <2>2. ASSUME NEW k \in 0..N
        PROVE  g[k] = IF k = 0 THEN calls ELSE MergeDelta(g[k - 1], deltas[k])
    <3>1. g[k] = IF k = 0 THEN calls ELSE F[k][g[k - 1]]
      BY <2>1 DEF RoundsOf
    <3>2. k = 0 \/ (k # 0 /\ k \in 1..N /\ g[k - 1] \in CallStates)
      BY <1>2
    <3>3. QED
      BY <3>1, <3>2, <1>4
  <2>3. g = [k \in 0..N |-> g[k]]
    OBVIOUS
  <2>4. Is(g)
    BY <2>2, <2>3
  <2>5. QED
    BY <2>4
<1>6. Is(merged)
  <2> HIDE DEF Is
  <2>1. QED
    BY <1>5
<1> HIDE DEF merged
<1>7. /\ merged[0] = calls
      /\ \A k \in 1..N : merged[k] = MergeDelta(merged[k - 1], deltas[k])
  <2>1. \A k \in 0..N : merged[k] = IF k = 0 THEN calls ELSE MergeDelta(merged[k - 1], deltas[k])
    BY <1>6
  <2>2. QED
    BY <2>1, <1>2
<1>8. merged \in [0..N -> CallStates]
  <2> DEFINE G == {k \in 0..N : merged[k] \in CallStates}
  <2>1. 0 \in G
    BY <1>2, <1>7
  <2>2. ASSUME NEW k \in 1..N, k - 1 \in G PROVE k \in G
    <3>1. merged[k - 1] \in CallStates /\ deltas[k] \in Deltas(n) /\ k \in 0..N
      BY <2>2, <1>2
    <3>2. MergeDelta(merged[k - 1], deltas[k]) \in CallStates
      BY <3>1, MergeOne
    <3>3. QED
      BY <3>1, <3>2, <1>7
  <2> HIDE DEF G
  <2>3. \A k \in 0..N : k \in G
    BY <1>2, <2>1, <2>2, Counting
  <2>4. \A k \in 0..N : merged[k] \in CallStates
    BY <2>3 DEF G
  <2>5. merged = [k \in 0..N |-> merged[k]]
    BY <1>6
  <2>6. QED
    BY <2>4, <2>5
<1>9. QED
  BY <1>1, <1>7, <1>8 DEF N

LEMMA MergeType ==
  ASSUME NEW n \in Nat, NEW deltas \in Seq(Deltas(n)), NEW calls \in CallStates
  PROVE  Merge(calls, deltas) \in CallStates
<1>1. PICK f \in [0..Len(deltas) -> CallStates] : Merge(calls, deltas) = f[Len(deltas)]
  BY MergedIs
<1>2. Len(deltas) \in 0..Len(deltas)
  OBVIOUS
<1>3. QED
  BY <1>1, <1>2

LEMMA MergeNothing == ASSUME NEW calls \in CallStates PROVE Merge(calls, <<>>) = calls
<1>1. 0 \in Nat /\ <<>> \in Seq(Deltas(0)) /\ Len(<<>>) = 0
  OBVIOUS
<1> DEFINE none == <<>>
<1>2. 0 \in Nat /\ none \in Seq(Deltas(0)) /\ Len(none) = 0
  BY <1>1
<1> HIDE DEF none
<1>3. PICK f \in [0..Len(none) -> CallStates] :
        /\ f[0] = calls
        /\ \A k \in 1..Len(none) : f[k] = MergeDelta(f[k - 1], none[k])
        /\ Merge(calls, none) = f[Len(none)]
  BY <1>2, MergedIs
<1>4. QED
  BY <1>2, <1>3 DEF none

-----------------------------------------------------------------------------
(* What the readers make of one stream.                                    *)

\* What stream_runtime keeps.
IsRuntime(r) ==
  \E S, A, T, E : r \in [state : S, answer : A, started : T, events : E]

\* Its state changes, and events are added.
Now(r, state, events) == [r EXCEPT !.state = state, !.events = events]

LEMMA RuntimeMoves ==
  ASSUME NEW r, IsRuntime(r), NEW state, NEW events
  PROVE  /\ IsRuntime(Now(r, state, events)) /\ Now(r, state, events).state = state
         /\ Now(r, state, events).events = events
         /\ Now(r, state, events).answer = r.answer /\ Now(r, state, events).started = r.started
<1> DEFINE q == [r EXCEPT !.state = state, !.events = events]
<1>1. PICK S, A, T, E : r \in [state : S, answer : A, started : T, events : E]
  BY DEF IsRuntime
<1> DEFINE SS == S \union {state}
           EE == E \union {events}
<1>2. r \in [state : SS, answer : A, started : T, events : EE] /\ state \in SS /\ events \in EE
  BY <1>1
<1> HIDE DEF SS, EE
<1>3. /\ q \in [state : SS, answer : A, started : T, events : EE]
      /\ q.state = state /\ q.events = events /\ q.answer = r.answer /\ q.started = r.started
  BY ONLY <1>2
<1> HIDE DEF q
<1>4. IsRuntime(q)
  BY <1>3 DEF IsRuntime
<1>5. QED
  BY <1>3, <1>4 DEF q, Now

LEMMA RuntimeStays ==
  ASSUME NEW r, IsRuntime(r), NEW state
  PROVE  [r EXCEPT !.state = state] = Now(r, state, r.events)
<1>1. PICK S, A, T, E : r \in [state : S, answer : A, started : T, events : E]
  BY DEF IsRuntime
<1>2. [r EXCEPT !.state = state] = [r EXCEPT !.state = state, !.events = r.events]
  BY ONLY <1>1
<1>3. QED
  BY <1>2 DEF Now

LEMMA RuntimeMade ==
  ASSUME NEW state, NEW answer, NEW started, NEW events, NEW r,
         r = [state |-> state, answer |-> answer, started |-> started, events |-> events]
  PROVE  /\ IsRuntime(r) /\ r.state = state /\ r.answer = answer
         /\ r.started = started /\ r.events = events
<1>1. r \in [state : {state}, answer : {answer}, started : {started}, events : {events}]
  OBVIOUS
<1>2. QED
  BY <1>1 DEF IsRuntime

\* As long as a reader goes on, it has the same answer as the others.
AnswersInv ==
  /\ upstream \in {"none", "open", "ended", "broken"}
  /\ collected.calls \in CallStates /\ IsRuntime(runtime)
  /\ chat = collected /\ counted = collected.usage
  /\ runtime.state # "interrupted" => runtime.answer = collected
  /\ upstream # "ended" /\ (upstream = "broken" => taken.chunks = 0) =>
       runtime.state \in {"reading", "interrupted"}

LEMMA AnswersInitially == ASSUME StreamInit PROVE AnswersInv
<1>1. NoCalls \in CallStates
  <2>1. DOMAIN NoCalls = {} /\ NoCalls \in [{} -> Call]
    BY DEF NoCalls
  <2>2. QED
    BY <2>1, CallsAre
<1>2. QED
  BY <1>1 DEF StreamInit, AnswersInv, NoAnswer, IsRuntime

LEMMA AnswersTake ==
  ASSUME TextInv, AnswersInv, NEW chunk \in Chunks(taken.chunks + 1), TakeOf(chunk)
  PROVE  AnswersInv'
<1> DEFINE answer == [content |-> collected.content \o chunk.content,
                      thinking |-> collected.thinking \o chunk.thinking,
                      calls |-> Merge(collected.calls, chunk.calls),
                      usage |-> LatestUsage(chunk, collected.usage)]
<1>1. taken.chunks + 1 \in Nat /\ chunk.calls \in Seq(Deltas(taken.chunks + 1))
  <2>1. taken.chunks + 1 \in Nat
    BY DEF TakeOf
  <2>2. QED
    BY <2>1, ChunkFields
<1>2. /\ Merge(collected.calls, chunk.calls) \in CallStates
      /\ Merge(collected.calls, <<>>) = collected.calls
  BY <1>1, MergeType, MergeNothing DEF AnswersInv
<1>3. collected' = answer
  BY DEF TakeOf, Collect, LogStreamChunk
<1>4. chat' = answer
  <2>1. chat' = [content |-> chat.content \o chunk.content,
                 thinking |-> chat.thinking \o chunk.thinking,
                 calls |-> IF chunk.calls = <<>> THEN chat.calls ELSE Merge(chat.calls, chunk.calls),
                 usage |-> LatestUsage(chunk, chat.usage)]
    BY DEF TakeOf, ChatReads
  <2>2. chat = collected
    BY DEF AnswersInv
  <2>3. QED
    BY <2>1, <2>2, <1>2
<1>5. counted' = answer.usage
  BY DEF TakeOf, Count, AnswersInv
<1>6. /\ upstream = "open" /\ upstream' \in {"open", "ended"} /\ (upstream' = "ended" <=> chunk.complete)
      /\ runtime.state \in {"reading", "interrupted"}
  BY DEF TakeOf, AnswersInv
<1>7. /\ IsRuntime(runtime')
      /\ runtime'.state # "interrupted" => runtime'.answer = answer
      /\ upstream' # "ended" => runtime'.state \in {"reading", "interrupted"}
  <2>1. CASE RuntimeReads(chunk) /\ runtime.state = "reading"
    <3>1. runtime.answer = collected
      BY <2>1 DEF AnswersInv
    <3> DEFINE now == [content |-> runtime.answer.content \o chunk.content,
                       thinking |-> runtime.answer.thinking \o chunk.thinking,
                       calls |-> Merge(runtime.answer.calls, chunk.calls),
                       usage |-> LatestUsage(chunk, runtime.answer.usage)]
               state == IF chunk.complete THEN "completed" ELSE "reading"
    <3>2. \E t, e : runtime' = [state |-> state, answer |-> now, started |-> t, events |-> e]
      BY <2>1 DEF RuntimeReads
    <3> HIDE DEF now, state
    <3>3. PICK t, e : runtime' = [state |-> state, answer |-> now, started |-> t, events |-> e]
      BY <3>2
    <3>4. IsRuntime(runtime') /\ runtime'.state = state /\ runtime'.answer = now
      BY <3>3, RuntimeMade
    <3>5. now = answer
      BY <3>1 DEF now
    <3>6. QED
      BY <3>4, <3>5, <1>6 DEF state
  <2>2. CASE RuntimeReads(chunk) /\ runtime.state # "reading"
    BY <2>2, <1>6 DEF RuntimeReads, AnswersInv
  <2>3. CASE RuntimeStops
    <3>1. runtime' = Now(runtime, "interrupted",
                         Append(runtime.events, Event("interrupt_ack", 0, <<>>)))
      BY <2>3 DEF RuntimeStops, Now
    <3>2. IsRuntime(runtime') /\ runtime'.state = "interrupted"
      BY <3>1, RuntimeMoves DEF AnswersInv
    <3>3. QED
      BY <3>2, <1>6
  <2>4. QED
    BY <2>1, <2>2, <2>3 DEF TakeOf
<1> HIDE DEF answer
<1>8. answer.calls = Merge(collected.calls, chunk.calls)
  BY DEF answer
<1>9. QED
  BY <1>2, <1>3, <1>4, <1>5, <1>6, <1>7, <1>8 DEF AnswersInv

LEMMA AnswersStep == TextInv /\ AnswersInv /\ [StreamNext]_streamVars => AnswersInv'
<1> SUFFICES ASSUME TextInv, AnswersInv, [StreamNext]_streamVars PROVE AnswersInv'
  OBVIOUS
<1>1. ASSUME Request PROVE AnswersInv'
  <2>1. /\ upstream \in {"none", "broken"} /\ taken.chunks = 0 /\ upstream' \in {"open", "broken"}
        /\ UNCHANGED <<taken, collected, chat, counted, runtime>>
    BY <1>1 DEF Request, Opened
  <2>2. QED
    BY <2>1 DEF AnswersInv
<1>2. ASSUME Take PROVE AnswersInv'
  <2>1. PICK chunk \in Chunks(taken.chunks + 1) : TakeOf(chunk)
    BY <1>2, TakeIs
  <2>2. QED
    BY <2>1, AnswersTake
<1>3. ASSUME EndOfStream PROVE AnswersInv'
  <2>1. /\ upstream' = "ended" /\ UNCHANGED <<collected, chat, counted>>
        /\ runtime' = IF runtime.state # "reading" THEN runtime
                      ELSE Now(runtime, "completed",
                               runtime.events \o FinalEvents(runtime.answer.calls))
    BY <1>3 DEF EndOfStream, Now
  <2>2. CASE runtime.state # "reading"
    BY <2>1, <2>2 DEF AnswersInv
  <2>3. CASE runtime.state = "reading"
    <3>1. IsRuntime(runtime') /\ runtime'.answer = runtime.answer
      BY <2>1, <2>3, RuntimeMoves DEF AnswersInv
    <3>2. QED
      BY <3>1, <2>1, <2>3 DEF AnswersInv
  <2>4. QED
    BY <2>2, <2>3
<1>4. ASSUME Breaks PROVE AnswersInv'
  <2> DEFINE state == IF runtime.state = "reading" THEN "failed" ELSE runtime.state
  <2>1. /\ upstream = "open" /\ taken.chunks > 0 /\ upstream' = "broken"
        /\ UNCHANGED <<taken, collected, chat, counted>>
        /\ runtime' = [runtime EXCEPT !.state = state]
    BY <1>4 DEF Breaks
  <2> HIDE DEF state
  <2>2. IsRuntime(runtime') /\ runtime'.answer = runtime.answer /\ runtime'.state = state
    <3>1. runtime' = Now(runtime, state, runtime.events)
      BY <2>1, RuntimeStays DEF AnswersInv
    <3>2. QED
      BY <3>1, RuntimeMoves DEF AnswersInv
  <2>3. ~(taken.chunks = 0)
    BY <2>1 DEF TextInv, Counts
  <2>4. state # "interrupted" => runtime.state # "interrupted"
    BY DEF state
  <2>5. QED
    BY <2>1, <2>2, <2>3, <2>4 DEF AnswersInv
<1>5. ASSUME UNCHANGED streamVars PROVE AnswersInv'
  BY <1>5 DEF AnswersInv, streamVars
<1>6. QED
  BY <1>1, <1>2, <1>3, <1>4, <1>5 DEF StreamNext

-----------------------------------------------------------------------------
(* What the readers with a parser return, yield and emit.                  *)

Starting == Message("status", <<"thinking">>)
Done     == Message("status", <<"done">>)
Costs    == {Message("tokens", <<u>>) : u \in Usages}
Emits    == Notes \union Costs \union {Starting}
AllEmits == Emits \union {Done}
ModelOf  == [m \in AllEmits |-> IF m.type \in {"content", "thinking"} THEN <<m>> ELSE <<>>]

ShownInv ==
  /\ emitted \in Seq(AllEmits) /\ emitted # <<>> /\ emitted[1] = Starting
  /\ OfModel(emitted) = iterated
  /\ returned = [content |-> Text(iterated, "content"), thinking |-> Text(iterated, "thinking")]
  /\ upstream # "ended" => emitted \in Seq(Emits)
  /\ upstream = "ended" => emitted[Len(emitted)] = Done

LEMMA EmitsAre ==
  /\ Done \notin Emits /\ Notes \subseteq AllEmits /\ Emits \subseteq AllEmits /\ Done \in AllEmits
  /\ \A m \in Notes : ModelOf[m] = <<m>>
  /\ \A m \in Costs \union {Starting, Done} : ModelOf[m] = <<>>
  /\ ModelOf \in [AllEmits -> Seq(AllEmits)]
<1>1. /\ \A m \in Notes : m.type \in {"content", "thinking"}
      /\ \A m \in Costs \union {Starting, Done} : m.type \notin {"content", "thinking"}
  BY DEF Notes, Costs, Starting, Done, Message
<1>2. Starting # Done /\ Done \notin Costs
  <2>1. Starting.text[1] = "thinking" /\ Done.text[1] = "done"
    BY DEF Starting, Done, Message
  <2>2. Done.type = "status" /\ \A m \in Costs : m.type = "tokens"
    BY DEF Costs, Done, Message
  <2>3. QED
    BY <2>1, <2>2
<1> HIDE DEF Notes, Costs, Starting, Done
<1>3. Done \notin Emits
  BY <1>1, <1>2 DEF Emits
<1>4. \A m \in AllEmits : <<m>> \in Seq(AllEmits)
  OBVIOUS
<1>5. <<>> \in Seq(AllEmits)
  OBVIOUS
<1>6. ModelOf \in [AllEmits -> Seq(AllEmits)]
  BY <1>4, <1>5 DEF ModelOf
<1>7. Notes \subseteq AllEmits /\ Emits \subseteq AllEmits /\ Costs \union {Starting, Done} \subseteq AllEmits
  BY DEF AllEmits, Emits
<1>8. QED
  BY <1>1, <1>3, <1>6, <1>7 DEF ModelOf

LEMMA OfModelIs ==
  ASSUME NEW list \in Seq(AllEmits)
  PROVE  OfModel(list) = Gathered(list, ModelOf)
<1> DEFINE places == {n \in 1..Len(list) : list[n].type \in {"content", "thinking"}}
<1>1. \A n \in 1..Len(list) : list[n] \in AllEmits
  OBVIOUS
<1>2. \A n \in 1..Len(list) : ModelOf[list[n]] = IF n \in places THEN <<list[n]>> ELSE <<>>
  BY <1>1 DEF ModelOf
<1> HIDE DEF places
<1>3. Keeping(list, places) = Gathered(list, ModelOf)
  BY <1>2, EmitsAre, KeepingIsGathered
<1>4. QED
  BY <1>3 DEF OfModel, places

\* More is emitted: something that is not of the model, and messages.
LEMMA OfModelGrows ==
  ASSUME NEW list \in Seq(AllEmits), NEW more \in Seq(AllEmits)
  PROVE  OfModel(list \o more) = OfModel(list) \o OfModel(more)
<1>1. list \o more \in Seq(AllEmits)
  BY ConcatProperties
<1>2. Gathered(list \o more, ModelOf) = Gathered(list, ModelOf) \o Gathered(more, ModelOf)
  BY EmitsAre, GatheredConcat
<1>3. QED
  BY <1>1, <1>2, OfModelIs

LEMMA OfModelOne ==
  /\ \A m \in Costs \union {Starting, Done} : <<m>> \in Seq(AllEmits) /\ OfModel(<<m>>) = <<>>
  /\ OfModel(<<>>) = <<>>
<1>1. ASSUME NEW m \in Costs \union {Starting, Done}
      PROVE  <<m>> \in Seq(AllEmits) /\ OfModel(<<m>>) = <<>>
  <2>1. m \in AllEmits
    BY DEF AllEmits, Emits
  <2>2. <<m>> \in Seq(AllEmits)
    BY <2>1
  <2>3. Gathered(<<m>>, ModelOf) = <<>>
    BY <2>1, EmitsAre, GatheredOne
  <2>4. QED
    BY <2>2, <2>3, OfModelIs
<1>2. OfModel(<<>>) = <<>>
  <2>1. <<>> \in Seq(AllEmits)
    OBVIOUS
  <2>2. QED
    BY <2>1, OfModelIs, GatheredEmpty
<1>3. QED
  BY <1>1, <1>2

LEMMA OfModelItself ==
  ASSUME NEW list \in Seq(Notes)
  PROVE  list \in Seq(AllEmits) /\ list \in Seq(Emits) /\ OfModel(list) = list
<1>1. list \in Seq(AllEmits) /\ list \in Seq(Emits)
  BY EmitsAre, SeqMonotonic DEF Emits
<1>2. \A n \in 1..Len(list) : list[n] \in Notes
  OBVIOUS
<1>3. \A n \in 1..Len(list) : ModelOf[list[n]] = <<list[n]>>
  BY <1>2, EmitsAre
<1>4. Gathered(list, ModelOf) = list
  <2>1. list \in Seq(AllEmits) /\ ModelOf \in [AllEmits -> Seq(AllEmits)]
    BY <1>1, EmitsAre
  <2>2. QED
    BY ONLY <1>3, <2>1, GatheredItself
<1>5. QED
  BY <1>1, <1>4, OfModelIs

\* What stream_to_ui emits for a chunk, with the usage in front and the end behind.
LEMMA UiGrows ==
  ASSUME ShownInv, upstream # "ended", NEW messages \in Seq(Notes), NEW usage \in Usages \union {0},
         NEW last \in BOOLEAN, ToUi(usage, messages, last), WithParser(messages), Iterate(messages),
         iterated \in Seq(Notes), upstream' = "ended" <=> last
  PROVE  ShownInv'
<1> DEFINE cost == IF usage = 0 THEN <<>> ELSE <<Message("tokens", <<usage>>)>>
           end == IF last THEN <<Done>> ELSE <<>>
           first == emitted \o cost
           all == first \o messages
<1>1. emitted' = all \o end
  BY DEF ToUi, Done
<1>2. /\ emitted \in Seq(Emits) /\ emitted \in Seq(AllEmits) /\ emitted # <<>>
      /\ emitted[1] = Starting /\ OfModel(emitted) = iterated
  BY DEF ShownInv
<1>3. /\ cost \in Seq(Emits) /\ cost \in Seq(AllEmits) /\ OfModel(cost) = <<>>
  <2>1. CASE usage = 0
    <3>1. cost = <<>> /\ <<>> \in Seq(Emits) /\ <<>> \in Seq(AllEmits)
      BY <2>1
    <3>2. QED
      BY <3>1, OfModelOne
  <2>2. CASE usage # 0
    <3> DEFINE m == Message("tokens", <<usage>>)
    <3>1. m \in Costs /\ cost = <<m>>
      BY <2>2 DEF Costs
    <3> HIDE DEF m, cost
    <3>2. m \in Emits
      BY <3>1 DEF Emits
    <3>3. <<m>> \in Seq(Emits) /\ <<m>> \in Seq(AllEmits) /\ OfModel(<<m>>) = <<>>
      BY <3>1, <3>2, OfModelOne
    <3>4. QED
      BY <3>1, <3>3
  <2>3. QED
    BY <2>1, <2>2
<1>4. /\ end \in Seq(AllEmits) /\ OfModel(end) = <<>>
  <2>1. Done \in Costs \union {Starting, Done}
    OBVIOUS
  <2>2. <<Done>> \in Seq(AllEmits) /\ OfModel(<<Done>>) = <<>> /\ OfModel(<<>>) = <<>>
    BY <2>1, OfModelOne
  <2>3. <<>> \in Seq(AllEmits)
    OBVIOUS
  <2>4. QED
    BY <2>2, <2>3
<1>5. messages \in Seq(AllEmits) /\ messages \in Seq(Emits) /\ OfModel(messages) = messages
  BY OfModelItself
<1> HIDE DEF cost, end
<1>6. first \in Seq(Emits) /\ first \in Seq(AllEmits) /\ OfModel(first) = iterated
  <2>1. first \in Seq(Emits) /\ first \in Seq(AllEmits)
    BY <1>2, <1>3, ConcatProperties
  <2>2. OfModel(first) = iterated \o <<>>
    BY <1>2, <1>3, OfModelGrows
  <2>3. QED
    BY <2>1, <2>2, ConcatEmptySeq
<1>7. Len(first) >= 1 /\ first[1] = Starting
  BY <1>2, <1>3, ConcatProperties
<1> HIDE DEF first
<1>8. all \in Seq(Emits) /\ all \in Seq(AllEmits) /\ OfModel(all) = iterated \o messages
  BY <1>5, <1>6, ConcatProperties, OfModelGrows
<1>9. Len(all) >= 1 /\ all[1] = Starting
  BY <1>5, <1>6, <1>7, ConcatProperties
<1> HIDE DEF all
<1>10. iterated' = iterated \o messages /\ iterated' \in Seq(Notes)
  BY ConcatProperties DEF Iterate
<1>11. OfModel(emitted') = iterated'
  <2>1. OfModel(emitted') = OfModel(all) \o <<>>
    BY <1>1, <1>4, <1>8, OfModelGrows
  <2>2. OfModel(all) = iterated' /\ iterated' \o <<>> = iterated'
    BY <1>8, <1>10, ConcatEmptySeq
  <2>3. QED
    BY <2>1, <2>2
<1>12. /\ emitted' \in Seq(AllEmits) /\ emitted' # <<>> /\ emitted'[1] = Starting
  BY <1>1, <1>4, <1>8, <1>9, ConcatProperties
<1>13. upstream' # "ended" => emitted' \in Seq(Emits)
  <2>1. ASSUME ~last PROVE emitted' \in Seq(Emits)
    <3>1. emitted' = all
      BY <2>1, <1>1, <1>8, ConcatEmptySeq DEF end
    <3>2. QED
      BY <3>1, <1>8
  <2>2. QED
    BY <2>1
<1>14. upstream' = "ended" => emitted'[Len(emitted')] = Done
  <2>1. ASSUME last PROVE emitted'[Len(emitted')] = Done
    <3>1. emitted' = Append(all, Done)
      BY <2>1, <1>1, <1>8, AppendIsConcat DEF end
    <3>2. QED
      BY <3>1, <1>8
  <2>2. QED
    BY <2>1
<1>15. returned' = [content |-> Text(iterated', "content"), thinking |-> Text(iterated', "thinking")]
  <2>1. \A type : Text(iterated \o messages, type) = Text(iterated, type) \o Text(messages, type)
    BY MessagesJoin
  <2>2. QED
    BY <2>1, <1>10 DEF WithParser, ShownInv
<1>16. QED
  BY <1>10, <1>11, <1>12, <1>13, <1>14, <1>15 DEF ShownInv

LEMMA ShownInitially == ASSUME StreamInit PROVE ShownInv
<1>1. /\ emitted = <<Starting>> /\ iterated = <<>> /\ upstream = "none"
      /\ returned = [content |-> <<>>, thinking |-> <<>>]
  BY DEF StreamInit, Starting
<1>2. <<Starting>> \in Seq(Emits) /\ <<Starting>> \in Seq(AllEmits)
  BY DEF Emits, AllEmits
<1>3. OfModel(<<Starting>>) = <<>>
  BY OfModelOne
<1>4. \A type : Text(<<>>, type) = <<>>
  BY NoMessages
<1>5. <<Starting>> # <<>> /\ <<Starting>>[1] = Starting
  OBVIOUS
<1>6. QED
  BY <1>1, <1>2, <1>3, <1>4, <1>5 DEF ShownInv

LEMMA ShownStep == TextInv /\ ShownInv /\ [StreamNext]_streamVars => ShownInv'
<1> SUFFICES ASSUME TextInv, ShownInv, [StreamNext]_streamVars PROVE ShownInv'
  OBVIOUS
<1>1. iterated \in Seq(Notes) /\ parsed.parser \in Parsers
  BY DEF TextInv
<1>2. ASSUME Take PROVE ShownInv'
  <2>1. PICK chunk \in Chunks(taken.chunks + 1) : TakeOf(chunk)
    BY <1>2, TakeIs
  <2>2. taken.chunks + 1 \in 1..MaxCost /\ upstream = "open"
    BY <2>1 DEF TakeOf
  <2>3. /\ chunk.content \in Texts /\ chunk.complete \in BOOLEAN
        /\ chunk.usage \in Usages \union {0} /\ (upstream' = "ended" <=> chunk.complete)
    BY <2>1, <2>2, ChunkFields DEF TakeOf
  <2> DEFINE parser == parsed.parser
             text == chunk.content
             think == IF chunk.thinking = <<>> THEN <<>> ELSE <<Message("thinking", chunk.thinking)>>
             p == IF text = <<>> THEN [parser EXCEPT !.out = <<>>] ELSE ProcessChunk(parser, text)
             q == IF chunk.complete THEN Flush(p) ELSE [p EXCEPT !.out = <<>>]
             messages == (p.out \o think) \o q.out
  <2>4. /\ ToUi(chunk.usage, messages, chunk.complete)
        /\ WithParser(messages) /\ Iterate(messages)
    BY <2>1 DEF TakeOf, ParserReads, Parsed
  <2>5. messages \in Seq(Notes)
    <3>1. Reads(parser, text, p) /\ Gives(p, q, chunk.complete)
      BY <1>1, <2>3, ParserTakes
    <3>2. think \in Seq(Notes)
      BY <2>2, AsideOf, AsidesSay
    <3> HIDE DEF p, q, think
    <3>3. p \in Parsers /\ q \in Parsers
      BY <3>1 DEF Reads, Gives
    <3> DEFINE a == p.out
               b == q.out
    <3>4. a \in Seq(Notes) /\ b \in Seq(Notes)
      BY <3>3, ParserFields, PiecesAreNotes
    <3> HIDE DEF a, b
    <3>5. (a \o think) \o b \in Seq(Notes)
      BY <3>2, <3>4, ConcatProperties
    <3>6. QED
      BY <3>5 DEF a, b
  <2> HIDE DEF messages
  <2>6. QED
    BY <1>1, <2>2, <2>3, <2>4, <2>5, UiGrows
<1>3. ASSUME EndOfStream PROVE ShownInv'
  <2> DEFINE p == Flush(parsed.parser)
             messages == p.out
  <2>1. /\ upstream = "open" /\ upstream' = "ended"
        /\ WithParser(messages) /\ Iterate(messages) /\ ToUi(0, messages, TRUE)
    BY <1>3 DEF EndOfStream
  <2>2. p \in Parsers
    BY <1>1, FlushGives DEF Gives
  <2>3. messages \in Seq(Notes)
    BY <2>2, ParserFields, PiecesAreNotes
  <2> HIDE DEF messages
  <2>4. QED
    BY <1>1, <2>1, <2>3, UiGrows
<1>4. ASSUME Request \/ Breaks \/ UNCHANGED streamVars PROVE ShownInv'
  <2>1. UNCHANGED <<emitted, iterated, returned>>
    BY <1>4 DEF Request, Breaks, streamVars, parserReaders
  <2>2. (upstream # "ended" /\ upstream' # "ended") \/ upstream' = upstream
    BY <1>4 DEF Request, Breaks, streamVars, Opened
  <2>3. QED
    BY <2>1, <2>2 DEF ShownInv
<1>5. QED
  BY <1>2, <1>3, <1>4 DEF StreamNext

LEMMA ShownAgrees == ASSUME ShownInv PROVE ParsersAgree
<1>1. ASSUME upstream # "ended" PROVE emitted[Len(emitted)] # Done
  <2>1. emitted \in Seq(Emits) /\ emitted # <<>>
    BY <1>1 DEF ShownInv
  <2>2. Len(emitted) \in 1..Len(emitted)
    BY <2>1
  <2>3. emitted[Len(emitted)] \in Emits
    BY <2>1, <2>2
  <2>4. QED
    BY <2>3, EmitsAre
<1>2. QED
  BY <1>1 DEF ShownInv, ParsersAgree, Starting, Done

\* Every way of reading the stream makes the same of it: the answers are kept alike as long
\* as their readers go on, the three that parse have the same messages, and their texts with
\* what the parser's buffer holds are the content, character by character.
THEOREM ReadersAlwaysAgree == StreamSpec => []ReadersAgree
<1> DEFINE Inv == TextInv /\ AnswersInv /\ ShownInv
<1>1. StreamInit => Inv
  BY TextInitially, AnswersInitially, ShownInitially
<1>2. Inv /\ [StreamNext]_streamVars => Inv'
  BY TextStep, AnswersStep, ShownStep
<1>3. Inv => ReadersAgree
  BY ShownAgrees DEF TextInv, AnswersInv, AnswersAgree, ReadersAgree
<1>4. QED
  BY <1>1, <1>2, <1>3, PTL DEF StreamSpec

-----------------------------------------------------------------------------
(* The events of stream_runtime.                                           *)

Signs     == Nat \union Letters
Telling   == {"usage_updated", "content_delta", "reasoning_delta",
              "tool_call_started", "tool_call_argument_delta"}
Ending    == {"tool_call_completed", "message_completed", "interrupt_ack"}
Told      == [type : Telling, index : Indices, piece : Seq(Signs)]
Events    == [type : Telling \union Ending, index : Indices, piece : Seq(Signs)]
PieceOf(type) == [x \in Events |-> IF x.type = type THEN x.piece ELSE <<>>]
PieceFor(i)   ==
  [x \in Events |-> IF x.type = "tool_call_argument_delta" /\ x.index = i THEN x.piece ELSE <<>>]

\* A call is announced at one place, before its arguments; one that is not there is nowhere.
Announced(e, i) ==
  \E b \in 1..Len(e) :
    /\ e[b].type = "tool_call_started" /\ e[b].index = i
    /\ \A n \in 1..Len(e) : e[n].index = i =>
         /\ e[n].type = "tool_call_started" => n = b
         /\ e[n].type = "tool_call_argument_delta" => b < n
Unheard(e, i) ==
  \A n \in 1..Len(e) :
    e[n].index = i => e[n].type \notin {"tool_call_started", "tool_call_argument_delta"}

\* What a client that follows the events knows: the two texts, and the calls' arguments.
Follows(content, thinking, args, e) ==
  /\ e \in Seq(Told)
  /\ Gathered(e, PieceOf("content_delta")) = content
  /\ Gathered(e, PieceOf("reasoning_delta")) = thinking
  /\ \A i \in Indices :
       IF i \in DOMAIN args THEN Announced(e, i) /\ Gathered(e, PieceFor(i)) = args[i]
       ELSE Unheard(e, i) /\ Gathered(e, PieceFor(i)) = <<>>

LEMMA EventsSay ==
  /\ \A type : PieceOf(type) \in [Events -> Seq(Signs)]
  /\ \A i : PieceFor(i) \in [Events -> Seq(Signs)]
  /\ Told \subseteq Events
<1>1. \A x \in Events : x.piece \in Seq(Signs)
  BY DEF Events
<1>2. <<>> \in Seq(Signs)
  OBVIOUS
<1>3. Told \subseteq Events
  BY DEF Told, Events
<1>4. QED
  BY <1>1, <1>2, <1>3 DEF PieceOf, PieceFor

LEMMA ToldAreEvents == ASSUME NEW e \in Seq(Told) PROVE e \in Seq(Events)
BY EventsSay, SeqMonotonic

\* One event more.
LEMMA OneEvent ==
  ASSUME NEW e \in Seq(Told), NEW x \in Told
  PROVE  LET longer == Append(e, x)
         IN  /\ longer \in Seq(Told) /\ Len(longer) = Len(e) + 1 /\ longer[Len(e) + 1] = x
             /\ \A n \in 1..Len(e) : longer[n] = e[n]
             /\ \A type : Gathered(longer, PieceOf(type)) =
                            Gathered(e, PieceOf(type)) \o (IF x.type = type THEN x.piece ELSE <<>>)
             /\ \A i : Gathered(longer, PieceFor(i)) =
                         Gathered(e, PieceFor(i)) \o
                           (IF x.type = "tool_call_argument_delta" /\ x.index = i THEN x.piece ELSE <<>>)
<1> DEFINE longer == Append(e, x)
<1>1. /\ longer \in Seq(Told) /\ Len(longer) = Len(e) + 1 /\ longer[Len(e) + 1] = x
      /\ \A n \in 1..Len(e) : longer[n] = e[n]
  BY AppendProperties
<1>2. x \in Events
  BY EventsSay
<1>3. ASSUME NEW says \in [Events -> Seq(Signs)]
      PROVE  Gathered(longer, says) = Gathered(e, says) \o says[x]
  <2>1. e \in Seq(Events)
    BY ToldAreEvents
  <2>2. QED
    BY ONLY <1>2, <2>1, says \in [Events -> Seq(Signs)], GatheredAppend
<1> HIDE DEF longer
<1>4. ASSUME NEW type
      PROVE  Gathered(longer, PieceOf(type)) =
               Gathered(e, PieceOf(type)) \o (IF x.type = type THEN x.piece ELSE <<>>)
  <2>1. PieceOf(type)[x] = IF x.type = type THEN x.piece ELSE <<>>
    BY <1>2 DEF PieceOf
  <2>2. QED
    BY <1>3, <2>1, EventsSay
<1>5. ASSUME NEW i
      PROVE  Gathered(longer, PieceFor(i)) =
               Gathered(e, PieceFor(i)) \o
                 (IF x.type = "tool_call_argument_delta" /\ x.index = i THEN x.piece ELSE <<>>)
  <2>1. PieceFor(i)[x]
          = IF x.type = "tool_call_argument_delta" /\ x.index = i THEN x.piece ELSE <<>>
    BY <1>2 DEF PieceFor
  <2>2. QED
    BY <1>3, <2>1, EventsSay
<1>6. QED
  BY <1>1, <1>4, <1>5 DEF longer

\* Followed so far, with the types of what is known.
LEMMA FollowsTypes ==
  ASSUME NEW content, NEW thinking, NEW args, NEW e, Follows(content, thinking, args, e)
  PROVE  /\ e \in Seq(Told) /\ Len(e) \in Nat
         /\ content \in Seq(Signs) /\ thinking \in Seq(Signs)
         /\ \A i \in Indices : Gathered(e, PieceFor(i)) \in Seq(Signs)
<1>1. e \in Seq(Told)
  BY DEF Follows
<1>2. \A says \in [Events -> Seq(Signs)] : Gathered(e, says) \in Seq(Signs)
  BY <1>1, ToldAreEvents, GatheredType
<1>3. QED
  BY <1>1, <1>2, EventsSay DEF Follows

\* What is announced stays so, when the event is of another call or an argument of it.
LEMMA AnnouncedMore ==
  ASSUME NEW e \in Seq(Told), NEW x \in Told, NEW i, Announced(e, i),
         ~(x.type = "tool_call_started" /\ x.index = i)
  PROVE  Announced(Append(e, x), i)
<1> DEFINE longer == Append(e, x)
           N == Len(e)
<1>1. /\ N \in Nat /\ Len(longer) = N + 1 /\ longer[N + 1] = x
      /\ \A n \in 1..N : longer[n] = e[n]
  BY OneEvent
<1>2. PICK b \in 1..N :
        /\ e[b].type = "tool_call_started" /\ e[b].index = i
        /\ \A n \in 1..N : e[n].index = i =>
             /\ e[n].type = "tool_call_started" => n = b
             /\ e[n].type = "tool_call_argument_delta" => b < n
  BY DEF Announced
<1> HIDE DEF longer, N
<1>3. b \in 1..Len(longer) /\ longer[b] = e[b]
  BY <1>1
<1>4. ASSUME NEW n \in 1..Len(longer), longer[n].index = i
      PROVE  /\ longer[n].type = "tool_call_started" => n = b
             /\ longer[n].type = "tool_call_argument_delta" => b < n
  <2>1. CASE n = N + 1
    <3>1. b < n
      BY <2>1, <1>1
    <3>2. QED
      BY <3>1, <2>1, <1>1, <1>4
  <2>2. CASE n # N + 1
    <3>1. n \in 1..N /\ longer[n] = e[n]
      BY <2>2, <1>1
    <3>2. QED
      BY <3>1, <1>2, <1>4
  <2>3. QED
    BY <2>1, <2>2
<1>5. Announced(longer, i)
  BY <1>2, <1>3, <1>4 DEF Announced
<1>6. QED
  BY <1>5 DEF longer

LEMMA AnnouncedNow ==
  ASSUME NEW e \in Seq(Told), NEW x \in Told, Unheard(e, x.index), x.type = "tool_call_started"
  PROVE  Announced(Append(e, x), x.index)
<1> DEFINE longer == Append(e, x)
           N == Len(e)
<1>1. /\ N \in Nat /\ Len(longer) = N + 1 /\ longer[N + 1] = x
      /\ \A n \in 1..N : longer[n] = e[n]
  BY OneEvent
<1> HIDE DEF longer, N
<1>2. ASSUME NEW n \in 1..Len(longer), longer[n].index = x.index
      PROVE  /\ longer[n].type = "tool_call_started" => n = N + 1
             /\ longer[n].type = "tool_call_argument_delta" => N + 1 < n
  <2>1. CASE n = N + 1
    BY <2>1, <1>1
  <2>2. CASE n # N + 1
    <3>1. n \in 1..N /\ longer[n] = e[n]
      BY <2>2, <1>1
    <3>2. QED
      BY <3>1, <1>2 DEF Unheard, N
  <2>3. QED
    BY <2>1, <2>2
<1>3. N + 1 \in 1..Len(longer)
  BY <1>1
<1>4. Announced(longer, x.index)
  BY <1>1, <1>2, <1>3 DEF Announced
<1>5. QED
  BY <1>4 DEF longer

LEMMA UnheardMore ==
  ASSUME NEW e \in Seq(Told), NEW x \in Told, NEW i, Unheard(e, i),
         x.index = i => x.type \notin {"tool_call_started", "tool_call_argument_delta"}
  PROVE  Unheard(Append(e, x), i)
<1> DEFINE longer == Append(e, x)
           N == Len(e)
<1>1. /\ N \in Nat /\ Len(longer) = N + 1 /\ longer[N + 1] = x
      /\ \A n \in 1..N : longer[n] = e[n]
  BY OneEvent
<1> HIDE DEF longer, N
<1>2. ASSUME NEW n \in 1..Len(longer), longer[n].index = i
      PROVE  longer[n].type \notin {"tool_call_started", "tool_call_argument_delta"}
  <2>1. CASE n = N + 1
    BY <2>1, <1>1, <1>2
  <2>2. CASE n # N + 1
    <3>1. n \in 1..N /\ longer[n] = e[n]
      BY <2>2, <1>1
    <3>2. QED
      BY <3>1, <1>2 DEF Unheard, N
  <2>3. QED
    BY <2>1, <2>2
<1>3. QED
  BY <1>2 DEF Unheard, longer

\* What an event adds to what is known.
Plus(text, x, type) == text \o (IF x.type = type THEN x.piece ELSE <<>>)
Adds(x, args, more) ==
  \/ x.type \notin {"tool_call_started", "tool_call_argument_delta"} /\ more = args
  \/ /\ x.type = "tool_call_started" /\ x.index \notin DOMAIN args
     /\ DOMAIN more = DOMAIN args \union {x.index} /\ more[x.index] = <<>>
     /\ \A i \in DOMAIN args : more[i] = args[i]
  \/ /\ x.type = "tool_call_argument_delta" /\ x.index \in DOMAIN args
     /\ DOMAIN more = DOMAIN args /\ more[x.index] = args[x.index] \o x.piece
     /\ \A i \in DOMAIN args : i # x.index => more[i] = args[i]

LEMMA FollowsMore ==
  ASSUME NEW content, NEW thinking, NEW args, NEW e, Follows(content, thinking, args, e),
         NEW x \in Told, NEW more, Adds(x, args, more)
  PROVE  Follows(Plus(content, x, "content_delta"), Plus(thinking, x, "reasoning_delta"),
                 more, Append(e, x))
<1> DEFINE longer == Append(e, x)
           news(i) == IF x.type = "tool_call_argument_delta" /\ x.index = i THEN x.piece ELSE <<>>
<1>1. /\ e \in Seq(Told) /\ \A i \in Indices : Gathered(e, PieceFor(i)) \in Seq(Signs)
  BY FollowsTypes
<1>2. /\ longer \in Seq(Told)
      /\ \A type : Gathered(longer, PieceOf(type)) =
                     Gathered(e, PieceOf(type)) \o (IF x.type = type THEN x.piece ELSE <<>>)
      /\ \A i : Gathered(longer, PieceFor(i)) = Gathered(e, PieceFor(i)) \o news(i)
  BY <1>1, OneEvent
<1> DEFINE said == Plus(content, x, "content_delta")
           thought == Plus(thinking, x, "reasoning_delta")
<1>3. /\ Gathered(longer, PieceOf("content_delta")) = said
      /\ Gathered(longer, PieceOf("reasoning_delta")) = thought
  BY <1>2 DEF Follows, Plus
<1>4. \A i \in Indices : IF i \in DOMAIN args THEN Announced(e, i) /\ Gathered(e, PieceFor(i)) = args[i]
                         ELSE Unheard(e, i) /\ Gathered(e, PieceFor(i)) = <<>>
  BY DEF Follows
<1>5. \A i \in Indices : news(i) = <<>> => Gathered(longer, PieceFor(i)) = Gathered(e, PieceFor(i))
  <2>1. ASSUME NEW i \in Indices, news(i) = <<>>
        PROVE  Gathered(longer, PieceFor(i)) = Gathered(e, PieceFor(i))
    <3> DEFINE old == Gathered(e, PieceFor(i))
    <3>1. old \in Seq(Signs)
      BY <1>1
    <3> HIDE DEF old
    <3>2. old \o <<>> = old
      BY ONLY <3>1, ConcatEmptySeq
    <3>3. QED
      BY <3>2, <2>1, <1>2 DEF old
  <2>2. QED
    BY <2>1
<1>6. ASSUME NEW i \in Indices
      PROVE  IF i \in DOMAIN more THEN Announced(longer, i) /\ Gathered(longer, PieceFor(i)) = more[i]
             ELSE Unheard(longer, i) /\ Gathered(longer, PieceFor(i)) = <<>>
  <2>1. CASE x.type \notin {"tool_call_started", "tool_call_argument_delta"} /\ more = args
    <3>1. news(i) = <<>>
      BY <2>1
    <3>2. Gathered(longer, PieceFor(i)) = Gathered(e, PieceFor(i))
      BY <3>1, <1>5
    <3>3. CASE i \in DOMAIN args
      <4>1. Announced(longer, i)
        BY <3>3, <2>1, <1>1, <1>4, AnnouncedMore
      <4>2. QED
        BY <4>1, <3>2, <3>3, <2>1, <1>4
    <3>4. CASE i \notin DOMAIN args
      <4>1. Unheard(longer, i)
        BY <3>4, <2>1, <1>1, <1>4, UnheardMore
      <4>2. QED
        BY <4>1, <3>2, <3>4, <2>1, <1>4
    <3>5. QED
      BY <3>3, <3>4
  <2>2. CASE /\ x.type = "tool_call_started" /\ x.index \notin DOMAIN args
             /\ DOMAIN more = DOMAIN args \union {x.index} /\ more[x.index] = <<>>
             /\ \A j \in DOMAIN args : more[j] = args[j]
    <3>1. news(i) = <<>>
      BY <2>2
    <3>2. Gathered(longer, PieceFor(i)) = Gathered(e, PieceFor(i))
      BY <3>1, <1>5
    <3>3. CASE i \in DOMAIN args
      <4>1. Announced(longer, i)
        BY <3>3, <2>2, <1>1, <1>4, AnnouncedMore
      <4>2. QED
        BY <4>1, <3>2, <3>3, <2>2, <1>4
    <3>4. CASE i = x.index
      <4>1. Announced(longer, i)
        BY <3>4, <2>2, <1>1, <1>4, AnnouncedNow
      <4>2. QED
        BY <4>1, <3>2, <3>4, <2>2, <1>4
    <3>5. CASE i \notin DOMAIN args /\ i # x.index
      <4>1. Unheard(longer, i)
        BY <3>5, <2>2, <1>1, <1>4, UnheardMore
      <4>2. QED
        BY <4>1, <3>2, <3>5, <2>2, <1>4
    <3>6. QED
      BY <3>3, <3>4, <3>5
  <2>3. CASE /\ x.type = "tool_call_argument_delta" /\ x.index \in DOMAIN args
             /\ DOMAIN more = DOMAIN args /\ more[x.index] = args[x.index] \o x.piece
             /\ \A j \in DOMAIN args : j # x.index => more[j] = args[j]
    <3>1. CASE i = x.index
      <4>1. Announced(longer, i)
        BY <3>1, <2>3, <1>1, <1>4, AnnouncedMore
      <4>2. Gathered(longer, PieceFor(i)) = Gathered(e, PieceFor(i)) \o x.piece
        BY <3>1, <2>3, <1>2
      <4>3. QED
        BY <4>1, <4>2, <3>1, <2>3, <1>4
    <3>2. CASE i # x.index
      <4>1. Gathered(longer, PieceFor(i)) = Gathered(e, PieceFor(i))
        BY <3>2, <1>5
      <4>2. CASE i \in DOMAIN args
        <5>1. Announced(longer, i)
          BY <4>2, <2>3, <1>1, <1>4, AnnouncedMore
        <5>2. QED
          BY <5>1, <4>1, <4>2, <3>2, <2>3, <1>4
      <4>3. CASE i \notin DOMAIN args
        <5>1. Unheard(longer, i)
          BY <4>3, <3>2, <1>1, <1>4, UnheardMore
        <5>2. QED
          BY <5>1, <4>1, <4>3, <2>3, <1>4
      <4>4. QED
        BY <4>2, <4>3
    <3>3. QED
      BY <3>1, <3>2
  <2>4. QED
    BY <2>1, <2>2, <2>3 DEF Adds
<1> HIDE DEF longer, said, thought
<1>7. Follows(said, thought, more, longer)
  BY <1>2, <1>3, <1>6 DEF Follows
<1>8. QED
  BY <1>7 DEF longer, said, thought

\* An element behind two lists.
LEMMA JoinedWithOne ==
  ASSUME NEW S, NEW a \in Seq(S), NEW b \in Seq(S), NEW x \in S
  PROVE  /\ b \o <<x>> \in Seq(S) /\ a \o (b \o <<x>>) = Append(a \o b, x)
         /\ b \o <<>> = b
<1>1. /\ a \o b \in Seq(S) /\ <<x>> \in Seq(S) /\ b \o <<x>> \in Seq(S)
      /\ b \o <<>> = b
  BY ConcatProperties, ConcatEmptySeq
<1>2. Append(b, x) = b \o <<x>>
  BY AppendIsConcat
<1>3. Append(a \o b, x) = a \o Append(b, x)
  OBVIOUS
<1>4. QED
  BY <1>1, <1>2, <1>3

ToldCalls == {x \in Told : x.type \in {"tool_call_started", "tool_call_argument_delta"}}
Accs      == [started : SUBSET Indices, events : Seq(ToldCalls)]
ArgsOf(calls) == [i \in DOMAIN calls |-> calls[i].args]

\* A fragment is told as it is merged.
LEMMA TellFollows ==
  ASSUME NEW n \in Nat, NEW d \in Deltas(n), NEW calls \in CallStates, NEW final \in CallStates,
         d.index \in DOMAIN final, NEW acc \in Accs, acc.started = DOMAIN calls,
         NEW e0 \in Seq(Told), NEW content, NEW thinking,
         Follows(content, thinking, ArgsOf(calls), e0 \o acc.events)
  PROVE  /\ Tell(acc, d, final) \in Accs
         /\ Tell(acc, d, final).started = DOMAIN MergeDelta(calls, d)
         /\ Follows(content, thinking, ArgsOf(MergeDelta(calls, d)), e0 \o Tell(acc, d, final).events)
<1> DEFINE i == d.index
           new == i \notin acc.started
           x == Event("tool_call_started", i, final[i].args)
           y == Event("tool_call_argument_delta", i, d.args)
           started == acc.started \union {i}
           e == acc.events
           e1 == e \o (IF new THEN <<x>> ELSE <<>>)
           e2 == e1 \o (IF d.args # <<>> THEN <<y>> ELSE <<>>)
           m == MergeDelta(calls, d)
           args == ArgsOf(calls)
           args1 == [j \in DOMAIN calls \union {i} |-> IF j \in DOMAIN calls THEN calls[j].args ELSE <<>>]
           args2 == ArgsOf(m)
<1>1. Tell(acc, d, final) = [started |-> started, events |-> e2]
  BY DEF Tell
<1>2. /\ i \in Indices /\ d.args \in Seq(Nat)
      /\ DOMAIN calls \subseteq Indices /\ final \in [DOMAIN final -> Call] /\ i \in DOMAIN final
      /\ acc.started \subseteq Indices /\ e \in Seq(ToldCalls)
  BY DeltaIs, CallsAre DEF Accs
<1>3. /\ m \in CallStates /\ DOMAIN m = DOMAIN calls \union {i}
      /\ m[i].args = (IF i \in DOMAIN calls THEN calls[i].args ELSE <<>>) \o d.args
      /\ \A j \in DOMAIN calls : j # i => m[j] = calls[j]
  BY MergeOne
<1>4. x \in ToldCalls /\ y \in ToldCalls /\ x \in Told /\ y \in Told
  <2>1. \A list \in Seq(Nat) : list \in Seq(Signs)
    BY SeqMonotonic DEF Signs
  <2>2. final[i].args \in Seq(Nat)
    BY <1>2 DEF Call
  <2>3. final[i].args \in Seq(Signs) /\ d.args \in Seq(Signs)
    BY <2>1, <2>2, <1>2
  <2>4. QED
    BY <2>3, <1>2 DEF ToldCalls, Told, Telling, Event
<1>5. /\ x.type = "tool_call_started" /\ x.index = i
      /\ y.type = "tool_call_argument_delta" /\ y.index = i /\ y.piece = d.args
  BY DEF Event
<1> HIDE DEF x, y, m
<1>6. e \in Seq(Told)
  BY <1>2, SeqMonotonic DEF ToldCalls
<1>7. /\ content \o <<>> = content /\ thinking \o <<>> = thinking
  <2>1. content \in Seq(Signs) /\ thinking \in Seq(Signs)
    BY FollowsTypes
  <2>2. QED
    BY ONLY <2>1, ConcatEmptySeq
<1>8. /\ e1 \in Seq(ToldCalls) /\ e1 \in Seq(Told)
      /\ e0 \o e1 = IF new THEN Append(e0 \o e, x) ELSE e0 \o e
  <2>1. /\ e \o <<x>> \in Seq(Told) /\ e0 \o (e \o <<x>>) = Append(e0 \o e, x) /\ e \o <<>> = e
    BY <1>4, <1>6, JoinedWithOne
  <2>2. e \o <<x>> \in Seq(ToldCalls)
    BY <1>2, <1>4, JoinedWithOne
  <2>3. QED
    BY <2>1, <2>2, <1>2, <1>6
<1>9. Follows(content, thinking, args1, e0 \o e1)
  <2>1. CASE new
    <3>1. /\ i \notin DOMAIN args /\ DOMAIN args = DOMAIN calls
          /\ DOMAIN args1 = DOMAIN args \union {i} /\ args1[i] = <<>>
          /\ \A j \in DOMAIN args : args1[j] = args[j]
      BY <2>1 DEF ArgsOf
    <3> HIDE DEF args, args1, e1, i
    <3>2. Follows(content, thinking, args, e0 \o e) /\ x \in Told
      BY <1>4 DEF args
    <3>3. /\ Adds(x, args, args1)
          /\ Plus(content, x, "content_delta") = content
          /\ Plus(thinking, x, "reasoning_delta") = thinking
      BY <3>1, <1>5, <1>7 DEF Adds, Plus
    <3> HIDE DEF e
    <3>4. Follows(content, thinking, args1, Append(e0 \o e, x))
      BY ONLY <3>2, <3>3, FollowsMore
    <3>5. QED
      BY <3>4, <2>1, <1>8 DEF e, e1
  <2>2. CASE ~new
    <3>1. args1 = args
      <4>1. DOMAIN calls \union {i} = DOMAIN calls
        BY <2>2
      <4>2. QED
        BY <4>1 DEF ArgsOf
    <3>2. QED
      BY <3>1, <2>2, <1>8
  <2>3. QED
    BY <2>1, <2>2
<1>10. /\ e2 \in Seq(ToldCalls)
       /\ e0 \o e2 = IF d.args # <<>> THEN Append(e0 \o e1, y) ELSE e0 \o e1
  <2> HIDE DEF e1
  <2>1. /\ e1 \o <<y>> \in Seq(Told) /\ e0 \o (e1 \o <<y>>) = Append(e0 \o e1, y) /\ e1 \o <<>> = e1
    BY <1>4, <1>8, JoinedWithOne
  <2>2. e1 \o <<y>> \in Seq(ToldCalls)
    BY <1>8, <1>4, JoinedWithOne
  <2>3. QED
    BY <2>1, <2>2, <1>8
<1>11. /\ DOMAIN args1 = DOMAIN m /\ DOMAIN args2 = DOMAIN m /\ i \in DOMAIN m
       /\ args2[i] = args1[i] \o d.args
       /\ \A j \in DOMAIN m : j # i => args2[j] = args1[j]
  BY <1>3 DEF ArgsOf
<1>12. args1 = [j \in DOMAIN m |-> args1[j]] /\ args2 = [j \in DOMAIN m |-> args2[j]]
  BY <1>3 DEF ArgsOf
<1> HIDE DEF args1, args2, e1
<1>13. Follows(content, thinking, args2, e0 \o e2)
  <2>1. CASE d.args # <<>>
    <3>1. Follows(content, thinking, args2, Append(e0 \o e1, y))
      <4>1. /\ y.index \in DOMAIN args1 /\ DOMAIN args2 = DOMAIN args1
            /\ args2[y.index] = args1[y.index] \o y.piece
            /\ \A j \in DOMAIN args1 : j # y.index => args2[j] = args1[j]
        BY <1>5, <1>11
      <4>2. /\ Adds(y, args1, args2)
            /\ Plus(content, y, "content_delta") = content
            /\ Plus(thinking, y, "reasoning_delta") = thinking
        BY <4>1, <1>5, <1>7 DEF Adds, Plus
      <4>3. Follows(content, thinking, args1, e0 \o e1) /\ y \in Told
        BY <1>4, <1>9
      <4> HIDE DEF i, e
      <4>4. QED
        BY ONLY <4>2, <4>3, FollowsMore
    <3>2. QED
      BY <3>1, <2>1, <1>10
  <2>2. CASE d.args = <<>>
    <3>1. args1[i] \in Seq(Signs)
      <4>1. args1[i] = Gathered(e0 \o e1, PieceFor(i))
        BY <1>2, <1>9, <1>11 DEF Follows
      <4>2. QED
        BY <4>1, <1>2, <1>9, FollowsTypes
    <3>2. args2[i] = args1[i]
      BY <3>1, <2>2, <1>11, ConcatEmptySeq
    <3>3. args2 = args1
      BY <3>2, <1>11, <1>12
    <3>4. QED
      BY <3>3, <2>2, <1>9, <1>10
  <2>3. QED
    BY <2>1, <2>2
<1> DEFINE t == Tell(acc, d, final)
<1>14. t \in Accs /\ t.started = started /\ t.events = e2
  <2> HIDE DEF e2
  <2>1. QED
    BY <1>1, <1>2, <1>10 DEF Accs
<1>15. QED
  BY <1>3, <1>13, <1>14 DEF m, args2

LEMMA TellType ==
  ASSUME NEW n \in Nat, NEW d \in Deltas(n), NEW final \in CallStates, d.index \in DOMAIN final,
         NEW acc \in Accs
  PROVE  Tell(acc, d, final) \in Accs
<1> DEFINE i == d.index
           x == Event("tool_call_started", i, final[i].args)
           y == Event("tool_call_argument_delta", i, d.args)
           begun == IF i \notin acc.started THEN <<x>> ELSE <<>>
           said == IF d.args # <<>> THEN <<y>> ELSE <<>>
           e == acc.events
<1>1. Tell(acc, d, final) = [started |-> acc.started \union {i}, events |-> (e \o begun) \o said]
  BY DEF Tell
<1>2. /\ i \in Indices /\ d.args \in Seq(Nat)
      /\ final \in [DOMAIN final -> Call] /\ i \in DOMAIN final
      /\ acc.started \subseteq Indices /\ e \in Seq(ToldCalls)
  BY DeltaIs, CallsAre DEF Accs
<1>3. x \in ToldCalls /\ y \in ToldCalls
  <2>1. \A list \in Seq(Nat) : list \in Seq(Signs)
    BY SeqMonotonic DEF Signs
  <2>2. final[i].args \in Seq(Nat)
    BY <1>2 DEF Call
  <2>3. final[i].args \in Seq(Signs) /\ d.args \in Seq(Signs)
    BY <2>1, <2>2, <1>2
  <2>4. QED
    BY <2>3, <1>2 DEF ToldCalls, Told, Telling, Event
<1> HIDE DEF x, y
<1>4. begun \in Seq(ToldCalls) /\ said \in Seq(ToldCalls)
  BY <1>3
<1> HIDE DEF begun, said, e
<1>5. (e \o begun) \o said \in Seq(ToldCalls)
  <2>1. e \o begun \in Seq(ToldCalls)
    BY <1>2, <1>4, ConcatProperties
  <2>2. QED
    BY <2>1, <1>4, ConcatProperties
<1>6. QED
  BY <1>1, <1>2, <1>5 DEF Accs

\* The fragments of a chunk are told one by one, with the calls as they are behind it.
LEMMA CallsAreTold ==
  ASSUME NEW n \in Nat, NEW chunk, chunk.calls \in Seq(Deltas(n)), NEW calls \in CallStates,
         NEW final, final = Merge(calls, chunk.calls), NEW started, started = DOMAIN calls,
         NEW e0 \in Seq(Told), NEW content, NEW thinking,
         Follows(content, thinking, ArgsOf(calls), e0)
  PROVE  /\ final \in CallStates
         /\ CallEvents(chunk, started, final) \in Accs
         /\ CallEvents(chunk, started, final).started = DOMAIN final
         /\ Follows(content, thinking, ArgsOf(final),
                    e0 \o CallEvents(chunk, started, final).events)
<1> DEFINE deltas == chunk.calls
           N == Len(deltas)
           first == [started |-> started, events |-> <<>>]
           Is(g) == g = [k \in 0..N |-> IF k = 0 THEN first ELSE Tell(g[k - 1], deltas[k], final)]
           told == CHOOSE g : Is(g)
           F == [k \in 1..N |-> [x \in Accs |-> Tell(x, deltas[k], final)]]
<1>1. CallEvents(chunk, started, final) = told[N]
  BY DEF CallEvents
<1>2. PICK f \in [0..N -> CallStates] :
        /\ f[0] = calls
        /\ \A k \in 1..N : f[k] = MergeDelta(f[k - 1], deltas[k])
        /\ final = f[N]
  BY MergedIs
<1>3. deltas \in Seq(Deltas(n)) /\ N \in Nat /\ \A k \in 1..N : deltas[k] \in Deltas(n)
  OBVIOUS
<1> HIDE DEF N, deltas
<1>4. final \in CallStates /\ \A k \in 0..N : f[k] \in CallStates
  BY <1>2, <1>3
<1>5. \A k \in 1..N : deltas[k].index \in DOMAIN final
  <2> DEFINE G == {k \in 0..N : \A j \in 1..k : deltas[j].index \in DOMAIN f[k]}
  <2>1. 0 \in G
    BY <1>3
  <2>2. ASSUME NEW k \in 1..N, k - 1 \in G PROVE k \in G
    <3>1. k \in 0..N /\ k - 1 \in 0..N /\ f[k - 1] \in CallStates /\ deltas[k] \in Deltas(n)
      BY <1>3, <1>4
    <3>2. DOMAIN f[k] = DOMAIN f[k - 1] \union {deltas[k].index}
      <4> DEFINE before == f[k - 1]
                 d == deltas[k]
      <4>1. before \in CallStates /\ d \in Deltas(n) /\ f[k] = MergeDelta(before, d)
        BY <3>1, <1>2
      <4> HIDE DEF before, d
      <4>2. DOMAIN MergeDelta(before, d) = DOMAIN before \union {d.index}
        BY <4>1, MergeOne
      <4>3. QED
        BY <4>1, <4>2 DEF before, d
    <3>3. \A j \in 1..k : j = k \/ j \in 1..k - 1
      BY <1>3
    <3>4. \A j \in 1..k - 1 : deltas[j].index \in DOMAIN f[k - 1]
      BY <2>2
    <3>5. \A j \in 1..k : deltas[j].index \in DOMAIN f[k]
      BY <3>2, <3>3, <3>4
    <3>6. QED
      BY <3>1, <3>5
  <2> HIDE DEF G
  <2>3. \A k \in 0..N : k \in G
    BY <1>3, <2>1, <2>2, Counting
  <2>4. QED
    BY <2>3, <1>2, <1>3 DEF G
<1>6. first \in Accs /\ first.started = started /\ first.events = <<>>
  <2>1. started \subseteq Indices /\ <<>> \in Seq(ToldCalls)
    BY CallsAre
  <2>2. QED
    BY <2>1 DEF Accs
<1> HIDE DEF first
<1>7. F \in [1..N -> [Accs -> Accs]]
  BY <1>3, <1>4, <1>5, TellType
<1>8. \A k \in 1..N : \A x \in Accs : F[k][x] = Tell(x, deltas[k], final)
  OBVIOUS
<1> HIDE DEF F
<1>9. \E g : Is(g)
  <2>1. PICK g \in [0..N -> Accs] : RoundsOf(g, F, N, first)
    BY <1>3, <1>6, <1>7, RoundsExist
  <2>2. ASSUME NEW k \in 0..N
        PROVE  g[k] = IF k = 0 THEN first ELSE Tell(g[k - 1], deltas[k], final)
    <3>1. g[k] = IF k = 0 THEN first ELSE F[k][g[k - 1]]
      BY <2>1 DEF RoundsOf
    <3>2. k = 0 \/ (k # 0 /\ k \in 1..N /\ g[k - 1] \in Accs)
      BY <1>3
    <3>3. QED
      BY <3>1, <3>2, <1>8
  <2>3. g = [k \in 0..N |-> g[k]]
    OBVIOUS
  <2>4. Is(g)
    BY <2>2, <2>3
  <2>5. QED
    BY <2>4
<1>10. Is(told)
  <2> HIDE DEF Is
  <2>1. QED
    BY <1>9
<1> HIDE DEF told
<1>11. /\ told[0] = first
       /\ \A k \in 1..N : told[k] = Tell(told[k - 1], deltas[k], final)
  <2>1. \A k \in 0..N : told[k] = IF k = 0 THEN first ELSE Tell(told[k - 1], deltas[k], final)
    BY <1>10
  <2>2. QED
    BY <2>1, <1>3
<1> HIDE DEF Is
<1> DEFINE Good(k) == /\ told[k] \in Accs /\ told[k].started = DOMAIN f[k]
                      /\ Follows(content, thinking, ArgsOf(f[k]), e0 \o told[k].events)
           G == {k \in 0..N : Good(k)}
<1>12. \A k \in 0..N : k \in G
  <2>1. 0 \in G
    <3>1. e0 \o <<>> = e0
      BY ConcatEmptySeq
    <3>2. Good(0)
      BY <3>1, <1>2, <1>6, <1>11
    <3>3. QED
      BY <3>2, <1>3
  <2>2. ASSUME NEW k \in 1..N, k - 1 \in G PROVE k \in G
    <3> DEFINE acc == told[k - 1]
               before == f[k - 1]
               d == deltas[k]
    <3>1. /\ acc \in Accs /\ acc.started = DOMAIN before
          /\ Follows(content, thinking, ArgsOf(before), e0 \o acc.events)
      BY <2>2
    <3>2. /\ k \in 0..N /\ k - 1 \in 0..N /\ before \in CallStates /\ d \in Deltas(n)
          /\ d.index \in DOMAIN final
      BY <1>3, <1>4, <1>5
    <3>3. told[k] = Tell(acc, d, final) /\ f[k] = MergeDelta(before, d)
      BY <1>2, <1>11
    <3> HIDE DEF acc, before, d
    <3>4. /\ Tell(acc, d, final) \in Accs
          /\ Tell(acc, d, final).started = DOMAIN MergeDelta(before, d)
          /\ Follows(content, thinking, ArgsOf(MergeDelta(before, d)),
                     e0 \o Tell(acc, d, final).events)
      BY <1>4, <3>1, <3>2, TellFollows
    <3>5. QED
      BY <3>2, <3>3, <3>4
  <2> HIDE DEF G
  <2>3. QED
    BY <1>3, <2>1, <2>2, Counting
<1>13. Good(N)
  BY <1>3, <1>12
<1>14. QED
  BY <1>1, <1>2, <1>4, <1>13

\* Something said, with the events before it.
LEMMA SaidMore ==
  ASSUME NEW content, NEW thinking, NEW args, NEW e, Follows(content, thinking, args, e),
         NEW x \in Told, x.type \notin {"tool_call_started", "tool_call_argument_delta"}
  PROVE  /\ Join(e, <<x>>) \in Seq(Told)
         /\ Follows(Plus(content, x, "content_delta"), Plus(thinking, x, "reasoning_delta"),
                    args, Join(e, <<x>>))
<1>1. e \in Seq(Told)
  BY DEF Follows
<1>2. Join(e, <<x>>) = Append(e, x) /\ Append(e, x) \in Seq(Told)
  BY <1>1, AppendIsConcat, AppendProperties DEF Join
<1>3. Adds(x, args, args)
  BY DEF Adds
<1>4. Follows(Plus(content, x, "content_delta"), Plus(thinking, x, "reasoning_delta"),
              args, Append(e, x))
  BY ONLY <1>3, Follows(content, thinking, args, e), x \in Told, FollowsMore
<1>5. QED
  BY <1>2, <1>4

\* The four kinds of events of a chunk, behind those of the chunks before.
Tellings == Seq(Told)

LEMMA TellingsJoin ==
  /\ \A x, y \in Tellings : Join(x, y) \in Tellings
  /\ \A x, y, z \in Tellings : Join(Join(x, y), z) = Join(x, Join(y, z))
<1>1. \A x, y \in Seq(Told) : x \o y \in Seq(Told)
  BY ConcatProperties
<1>2. \A x, y, z \in Seq(Told) : (x \o y) \o z = x \o (y \o z)
  BY ConcatAssociative
<1>3. QED
  BY ONLY <1>1, <1>2 DEF Join, Tellings

LEMMA TellingsFive ==
  ASSUME NEW a \in Tellings, NEW b \in Tellings, NEW c \in Tellings, NEW d \in Tellings,
         NEW e \in Tellings
  PROVE  /\ Join(Join(Join(Join(a, b), c), d), e) = Join(a, Join(Join(Join(b, c), d), e))
         /\ Join(Join(Join(Join(a, b), c), d), e) \in Tellings
<1>1. Join(b, c) \in Tellings /\ Join(Join(b, c), d) \in Tellings
  BY TellingsJoin
<1>2. Join(Join(a, b), c) = Join(a, Join(b, c))
  BY TellingsJoin
<1>3. Join(Join(a, Join(b, c)), d) = Join(a, Join(Join(b, c), d))
  BY <1>1, TellingsJoin
<1>4. Join(Join(a, Join(Join(b, c), d)), e) = Join(a, Join(Join(Join(b, c), d), e))
  BY <1>1, TellingsJoin
<1>5. Join(Join(Join(b, c), d), e) \in Tellings
  BY <1>1, TellingsJoin
<1>6. QED
  BY <1>2, <1>3, <1>4, <1>5, TellingsJoin

\* What a chunk says is told behind what was.
SaysNow(type, piece) == IF piece = <<>> THEN <<>> ELSE <<Event(type, 0, piece)>>

LEMMA SaysMore ==
  ASSUME NEW content, NEW thinking, NEW args, NEW e, Follows(content, thinking, args, e),
         NEW type \in {"usage_updated", "content_delta", "reasoning_delta"},
         NEW piece \in Seq(Signs)
  PROVE  /\ SaysNow(type, piece) \in Tellings
         /\ Follows(Join(content, IF type = "content_delta" THEN piece ELSE <<>>),
                    Join(thinking, IF type = "reasoning_delta" THEN piece ELSE <<>>),
                    args, Join(e, SaysNow(type, piece)))
<1>1. content \in Seq(Signs) /\ thinking \in Seq(Signs) /\ e \in Seq(Told)
  BY FollowsTypes
<1>2. CASE piece = <<>>
  <2>1. SaysNow(type, piece) = <<>> /\ e \o <<>> = e
    BY <1>2, <1>1, ConcatEmptySeq DEF SaysNow
  <2>2. content \o <<>> = content /\ thinking \o <<>> = thinking
    BY <1>1, ConcatEmptySeq
  <2>3. <<>> \in Seq(Told)
    OBVIOUS
  <2>4. /\ (IF type = "content_delta" THEN piece ELSE <<>>) = <<>>
        /\ (IF type = "reasoning_delta" THEN piece ELSE <<>>) = <<>>
    BY <1>2
  <2>5. QED
    BY <2>1, <2>2, <2>3, <2>4 DEF Join, Tellings
<1>3. CASE piece # <<>>
  <2> DEFINE x == Event(type, 0, piece)
  <2>1. 0 \in Indices
    BY StreamAssumption DEF Indices
  <2>2. x \in Told /\ x.type = type /\ x.piece = piece
    BY <2>1 DEF Told, Telling, Event
  <2>3. SaysNow(type, piece) = <<x>>
    BY <1>3 DEF SaysNow
  <2> HIDE DEF x
  <2>4. Follows(Plus(content, x, "content_delta"), Plus(thinking, x, "reasoning_delta"),
                args, Join(e, <<x>>))
    BY <2>2, SaidMore
  <2>5. /\ Plus(content, x, "content_delta")
             = Join(content, IF type = "content_delta" THEN piece ELSE <<>>)
        /\ Plus(thinking, x, "reasoning_delta")
             = Join(thinking, IF type = "reasoning_delta" THEN piece ELSE <<>>)
    BY <2>2 DEF Plus, Join
  <2>6. <<x>> \in Seq(Told)
    BY <2>2
  <2>7. QED
    BY <2>3, <2>4, <2>5, <2>6 DEF Tellings
<1>4. QED
  BY <1>2, <1>3

\* A chunk is told: the usage, the calls, the content, the thinking.
LEMMA ChunkIsTold ==
  ASSUME NEW n \in 1..MaxCost, NEW chunk \in Chunks(n), NEW calls \in CallStates,
         runtime.started = DOMAIN calls,
         NEW final, final = Merge(calls, chunk.calls), NEW e, NEW content, NEW thinking,
         Follows(content, thinking, ArgsOf(calls), e)
  PROVE  /\ final \in CallStates
         /\ CallEvents(chunk, runtime.started, final).started = DOMAIN final
         /\ ChunkEvents(chunk, final) \in Tellings
         /\ Follows(Join(content, chunk.content), Join(thinking, chunk.thinking), ArgsOf(final),
                    Join(e, ChunkEvents(chunk, final)))
<1> DEFINE used == IF chunk.usage = 0 THEN <<>> ELSE <<chunk.usage>>
           usage == SaysNow("usage_updated", used)
           told == CallEvents(chunk, runtime.started, final).events
           say == SaysNow("content_delta", chunk.content)
           think == SaysNow("reasoning_delta", chunk.thinking)
           e1 == Join(e, usage)
           e2 == Join(e1, told)
           e3 == Join(e2, say)
           e4 == Join(e3, think)
<1>1. n \in Nat /\ chunk.calls \in Seq(Deltas(n))
  <2>1. n \in Nat
    BY StreamAssumption
  <2>2. QED
    BY <2>1, ChunkFields
<1>2. used \in Seq(Signs) /\ chunk.content \in Seq(Signs) /\ chunk.thinking \in Seq(Signs)
  <2>1. n \in Nat /\ Usages \subseteq Nat
    BY <1>1, StreamAssumption
  <2>2. /\ chunk.content \in Texts /\ chunk.thinking \in {<<>>, <<Thoughts[n]>>}
        /\ chunk.usage \in Usages \union {0}
    BY <2>1, ChunkFields
  <2>3. Characters \subseteq Signs /\ Thoughts[n] \in Signs /\ Nat \subseteq Signs
    BY DEF Signs, Letters
  <2>4. chunk.content \in Seq(Signs)
    BY <2>2, <2>3, SeqMonotonic DEF Texts
  <2>5. <<>> \in Seq(Signs) /\ \A x \in Signs : <<x>> \in Seq(Signs)
    OBVIOUS
  <2>6. chunk.usage \in Signs
    BY <2>1, <2>2, <2>3
  <2>7. used \in Seq(Signs)
    BY <2>5, <2>6
  <2>8. chunk.thinking \in Seq(Signs)
    BY <2>2, <2>3, <2>5
  <2>9. QED
    BY <2>4, <2>7, <2>8
<1>3. e \in Tellings /\ content \in Seq(Signs) /\ thinking \in Seq(Signs)
  BY FollowsTypes DEF Tellings
<1>4. Join(content, <<>>) = content /\ Join(thinking, <<>>) = thinking
  BY <1>3, ConcatEmptySeq DEF Join
<1> HIDE DEF used
<1>5. usage \in Tellings /\ Follows(content, thinking, ArgsOf(calls), e1)
  BY <1>2, <1>4, SaysMore
<1> HIDE DEF e1
<1>6. e1 \in Seq(Told)
  BY <1>5, FollowsTypes
<1>7. /\ final \in CallStates
      /\ CallEvents(chunk, runtime.started, final) \in Accs
      /\ CallEvents(chunk, runtime.started, final).started = DOMAIN final
      /\ Follows(content, thinking, ArgsOf(final), e1 \o told)
  BY <1>1, <1>5, <1>6, CallsAreTold
<1>8. told \in Tellings
  BY <1>7, SeqMonotonic DEF Accs, ToldCalls, Tellings
<1>9. Follows(content, thinking, ArgsOf(final), e2)
  BY <1>7 DEF Join
<1> HIDE DEF e2, told
<1>10. /\ say \in Tellings
       /\ Follows(Join(content, chunk.content), thinking, ArgsOf(final), e3)
  BY <1>2, <1>4, <1>9, SaysMore
<1> DEFINE said == Join(content, chunk.content)
<1>11. said \in Seq(Signs) /\ Join(said, <<>>) = said
  BY <1>2, <1>3, ConcatProperties, ConcatEmptySeq DEF Join
<1> HIDE DEF e3, said
<1>12. /\ think \in Tellings
       /\ Follows(said, Join(thinking, chunk.thinking), ArgsOf(final), e4)
  <2>1. Follows(said, thinking, ArgsOf(final), e3)
    BY <1>10 DEF said
  <2>2. QED
    BY <1>2, <1>11, <2>1, SaysMore
<1>13. ChunkEvents(chunk, final) = Join(Join(Join(usage, told), say), think)
  BY DEF ChunkEvents, Join, told, SaysNow, used
<1> HIDE DEF usage, say, think
<1>14. Join(Join(usage, told), say) \in Tellings /\ Join(Join(Join(usage, told), say), think) \in Tellings
  <2>1. Join(usage, told) \in Tellings
    BY <1>5, <1>8, TellingsJoin
  <2>2. Join(Join(usage, told), say) \in Tellings
    BY <2>1, <1>10, TellingsJoin
  <2>3. QED
    BY <2>2, <1>12, TellingsJoin
<1>15. e4 = Join(e, ChunkEvents(chunk, final))
  BY <1>3, <1>5, <1>8, <1>10, <1>12, <1>13, TellingsFive DEF e1, e2, e3
<1> HIDE DEF e4
<1>16. QED
  BY <1>7, <1>12, <1>13, <1>14, <1>15 DEF said

\* What the events are by the state: those of the chunks, and how the stream ended.
EventsAre(state, calls, e, events) ==
  /\ state \in {"reading", "failed"} => events = e
  /\ state = "interrupted" => events = Append(e, Event("interrupt_ack", 0, <<>>))
  /\ state = "completed" => events = e \o FinalEvents(calls)

IsTold(state, answer, started, events) ==
  /\ state \in {"reading", "completed", "interrupted", "failed"}
  /\ answer.calls \in CallStates /\ started = DOMAIN answer.calls
  /\ \E e : /\ Follows(answer.content, answer.thinking, ArgsOf(answer.calls), e)
            /\ EventsAre(state, answer.calls, e, events)

RuntimeInv ==
  IsRuntime(runtime) /\ IsTold(runtime.state, runtime.answer, runtime.started, runtime.events)

LEMMA RuntimeInitially == ASSUME StreamInit PROVE RuntimeInv
<1> DEFINE none == <<>>
<1>1. /\ NoCalls \in CallStates /\ DOMAIN NoCalls = {} /\ NoAnswer.calls = NoCalls
      /\ NoAnswer.content = none /\ NoAnswer.thinking = none
  <2>1. DOMAIN NoCalls = {} /\ NoCalls \in [{} -> Call]
    BY DEF NoCalls
  <2>2. QED
    BY <2>1, CallsAre DEF NoAnswer
<1>2. /\ none \in Seq(Told) /\ Len(none) = 0 /\ none \in Seq(Events)
  OBVIOUS
<1>3. \A says : Gathered(none, says) = none
  BY GatheredEmpty
<1>4. \A i : Unheard(none, i)
  BY <1>2 DEF Unheard
<1>5. DOMAIN ArgsOf(NoCalls) = {}
  BY <1>1 DEF ArgsOf
<1>6. Follows(none, none, ArgsOf(NoCalls), none)
  <2> HIDE DEF none
  <2>1. \A i \in Indices : Unheard(none, i) /\ Gathered(none, PieceFor(i)) = <<>>
    BY <1>3, <1>4 DEF none
  <2>2. QED
    BY <1>2, <1>3, <1>5, <2>1 DEF Follows
<1>7. runtime = [state |-> "reading", answer |-> NoAnswer, started |-> {}, events |-> none]
  BY DEF StreamInit
<1> HIDE DEF none
<1>8. /\ IsRuntime(runtime) /\ runtime.state = "reading" /\ runtime.answer = NoAnswer
      /\ runtime.started = {} /\ runtime.events = none
  BY <1>7, RuntimeMade
<1>9. EventsAre("reading", NoCalls, none, none)
  BY DEF EventsAre
<1>10. QED
  BY <1>1, <1>6, <1>8, <1>9 DEF RuntimeInv, IsTold

LEMMA RuntimeTakes ==
  ASSUME RuntimeInv, NEW n \in 1..MaxCost, NEW chunk \in Chunks(n),
         runtime.state = "reading", RuntimeReads(chunk)
  PROVE  RuntimeInv'
<1> DEFINE final == Merge(runtime.answer.calls, chunk.calls)
           answer == [content |-> runtime.answer.content \o chunk.content,
                      thinking |-> runtime.answer.thinking \o chunk.thinking,
                      calls |-> final,
                      usage |-> LatestUsage(chunk, runtime.answer.usage)]
           state == IF chunk.complete THEN "completed" ELSE "reading"
           started == CallEvents(chunk, runtime.started, final).started
           news == ChunkEvents(chunk, final)
           events == runtime.events \o news \o (IF chunk.complete THEN FinalEvents(final) ELSE <<>>)
<1>1. runtime' = [state |-> state, answer |-> answer, started |-> started, events |-> events]
  BY DEF RuntimeReads
<1>2. /\ answer.content = Join(runtime.answer.content, chunk.content)
      /\ answer.thinking = Join(runtime.answer.thinking, chunk.thinking)
      /\ answer.calls = final
  BY DEF Join
<1>3. /\ runtime.answer.calls \in CallStates /\ runtime.started = DOMAIN runtime.answer.calls
  BY DEF RuntimeInv, IsTold
<1>4. Follows(runtime.answer.content, runtime.answer.thinking, ArgsOf(runtime.answer.calls),
              runtime.events)
  BY DEF RuntimeInv, IsTold, EventsAre
<1>5. /\ final \in CallStates /\ started = DOMAIN final /\ news \in Tellings
      /\ Follows(Join(runtime.answer.content, chunk.content),
                 Join(runtime.answer.thinking, chunk.thinking), ArgsOf(final),
                 Join(runtime.events, news))
  BY <1>3, <1>4, ChunkIsTold
<1> DEFINE e == Join(runtime.events, news)
<1>6. e \in Seq(Told)
  BY <1>5 DEF Follows
<1>7. events = e \o (IF chunk.complete THEN FinalEvents(final) ELSE <<>>)
  BY DEF Join
<1> HIDE DEF answer, started, events, e
<1>8. EventsAre(state, final, e, events)
  <2>1. CASE chunk.complete
    BY <2>1, <1>7 DEF EventsAre
  <2>2. CASE ~chunk.complete
    <3>1. e \o <<>> = e
      BY <1>6, ConcatEmptySeq
    <3>2. QED
      BY <2>2, <3>1, <1>7 DEF EventsAre
  <2>3. QED
    BY <2>1, <2>2
<1>9. Follows(answer.content, answer.thinking, ArgsOf(answer.calls), e)
  BY <1>2, <1>5 DEF e
<1>10. state \in {"reading", "completed", "interrupted", "failed"}
  OBVIOUS
<1> HIDE DEF state, final
<1>11. IsTold(state, answer, started, events)
  BY <1>2, <1>5, <1>8, <1>9, <1>10 DEF IsTold
<1>12. /\ IsRuntime(runtime') /\ runtime'.state = state /\ runtime'.answer = answer
       /\ runtime'.started = started /\ runtime'.events = events
  BY <1>1, RuntimeMade
<1>13. QED
  BY <1>11, <1>12 DEF RuntimeInv

LEMMA RuntimeEnds ==
  ASSUME RuntimeInv, runtime.state = "reading", NEW state, NEW events,
         \/ state = "failed" /\ events = runtime.events
         \/ state = "interrupted" /\ events = Append(runtime.events, Event("interrupt_ack", 0, <<>>))
         \/ state = "completed" /\ events = runtime.events \o FinalEvents(runtime.answer.calls),
         runtime' = Now(runtime, state, events)
  PROVE  RuntimeInv'
<1>1. IsTold(state, runtime.answer, runtime.started, events)
  <2>1. PICK e : /\ Follows(runtime.answer.content, runtime.answer.thinking,
                            ArgsOf(runtime.answer.calls), e)
                 /\ EventsAre("reading", runtime.answer.calls, e, runtime.events)
    BY DEF RuntimeInv, IsTold
  <2>2. e = runtime.events
    BY <2>1 DEF EventsAre
  <2>3. EventsAre(state, runtime.answer.calls, e, events)
    BY <2>2 DEF EventsAre
  <2>4. QED
    BY <2>1, <2>3 DEF RuntimeInv, IsTold
<1>2. /\ IsRuntime(runtime') /\ runtime'.state = state /\ runtime'.answer = runtime.answer
      /\ runtime'.started = runtime.started /\ runtime'.events = events
  BY RuntimeMoves DEF RuntimeInv
<1>3. QED
  BY <1>1, <1>2 DEF RuntimeInv

LEMMA RuntimeStep == TextInv /\ RuntimeInv /\ [StreamNext]_streamVars => RuntimeInv'
<1> SUFFICES ASSUME TextInv, RuntimeInv, [StreamNext]_streamVars PROVE RuntimeInv'
  OBVIOUS
<1>1. ASSUME UNCHANGED runtime PROVE RuntimeInv'
  BY <1>1 DEF RuntimeInv
<1>2. ASSUME Take PROVE RuntimeInv'
  <2>1. PICK chunk \in Chunks(taken.chunks + 1) : TakeOf(chunk)
    BY <1>2, TakeIs
  <2>2. taken.chunks + 1 \in 1..MaxCost
    BY <2>1 DEF TakeOf
  <2>3. CASE RuntimeReads(chunk) /\ runtime.state = "reading"
    BY <2>2, <2>3, RuntimeTakes
  <2>4. CASE RuntimeReads(chunk) /\ runtime.state # "reading"
    BY <2>4, <1>1 DEF RuntimeReads
  <2>5. CASE runtime.state = "reading" /\ RuntimeStops
    <3>1. runtime' = Now(runtime, "interrupted",
                         Append(runtime.events, Event("interrupt_ack", 0, <<>>)))
      BY <2>5 DEF RuntimeStops, Now
    <3>2. QED
      BY <3>1, <2>5, RuntimeEnds
  <2>6. QED
    BY <2>1, <2>3, <2>4, <2>5 DEF TakeOf
<1>3. ASSUME EndOfStream PROVE RuntimeInv'
  <2>1. runtime' = IF runtime.state # "reading" THEN runtime
                   ELSE Now(runtime, "completed",
                            runtime.events \o FinalEvents(runtime.answer.calls))
    BY <1>3 DEF EndOfStream, Now
  <2>2. CASE runtime.state # "reading"
    BY <2>1, <2>2, <1>1
  <2>3. CASE runtime.state = "reading"
    BY <2>1, <2>3, RuntimeEnds
  <2>4. QED
    BY <2>2, <2>3
<1>4. ASSUME Breaks PROVE RuntimeInv'
  <2> DEFINE state == IF runtime.state = "reading" THEN "failed" ELSE runtime.state
  <2>1. runtime' = Now(runtime, state, runtime.events)
    <3>1. runtime' = [runtime EXCEPT !.state = state]
      BY <1>4 DEF Breaks
    <3> HIDE DEF state
    <3>2. QED
      BY <3>1, RuntimeStays DEF RuntimeInv
  <2>2. CASE runtime.state = "reading"
    <3>1. runtime' = Now(runtime, "failed", runtime.events)
      BY <2>1, <2>2
    <3>2. QED
      BY <3>1, <2>2, RuntimeEnds
  <2>3. CASE runtime.state # "reading"
    <3>1. runtime' = Now(runtime, runtime.state, runtime.events)
      BY <2>1, <2>3
    <3>2. /\ IsRuntime(runtime') /\ runtime'.state = runtime.state
          /\ runtime'.answer = runtime.answer
          /\ runtime'.started = runtime.started /\ runtime'.events = runtime.events
      BY <3>1, RuntimeMoves DEF RuntimeInv
    <3>3. QED
      BY <3>2 DEF RuntimeInv
  <2>4. QED
    BY <2>2, <2>3
<1>5. Request \/ UNCHANGED streamVars => UNCHANGED runtime
  BY DEF Request, streamVars
<1>6. QED
  BY <1>1, <1>2, <1>3, <1>4, <1>5 DEF StreamNext

-----------------------------------------------------------------------------
(* What the events say of the answer.                                      *)

\* The calls of an answer as a list: each of them once.
ListsCalls(list, calls) ==
  /\ Len(list) \in Nat
  /\ \A n \in 1..Len(list) :
       /\ list[n].index \in DOMAIN calls /\ list[n].given = calls[list[n].index].given
       /\ list[n].args = calls[list[n].index].args
  /\ \A m, n \in 1..Len(list) : m # n => list[m].index # list[n].index
  /\ \A i \in DOMAIN calls : \E n \in 1..Len(list) : list[n].index = i

LEMMA AggregatedIs == ASSUME NEW calls \in CallStates PROVE ListsCalls(Aggregated(calls), calls)
<1> DEFINE upwards == [n \in 1..LastIndex + 1 |-> n - 1]
           places == {n \in DOMAIN upwards : upwards[n] \in DOMAIN calls}
           order == Keeping(upwards, places)
           list == Aggregated(calls)
<1>1. LastIndex \in Nat
  BY StreamAssumption
<1>2. upwards \in Seq(Indices) /\ Len(upwards) = LastIndex + 1 /\ DOMAIN upwards = 1..LastIndex + 1
  <2>1. \A n \in 1..LastIndex + 1 : n - 1 \in Indices
    BY <1>1 DEF Indices
  <2>2. upwards \in [1..LastIndex + 1 -> Indices]
    BY <2>1
  <2>3. LastIndex + 1 \in Nat
    BY <1>1
  <2>4. QED
    BY <2>2, <2>3
<1>3. list = [n \in 1..Len(order) |-> Normalized(calls, order[n])]
  BY DEF Aggregated
<1>4. \A n \in 1..LastIndex + 1 : upwards[n] = n - 1
  OBVIOUS
<1>5. \A n : n \in places <=> n \in DOMAIN upwards /\ upwards[n] \in DOMAIN calls
  OBVIOUS
<1> HIDE DEF upwards, places, list
<1>6. Len(order) \in Nat
  BY <1>2, KeepingFrom, LenProperties
<1>7. PICK at \in [1..Len(order) -> 1..Len(upwards)] :
        /\ \A k \in DOMAIN at : at[k] \in places /\ order[k] = upwards[at[k]]
        /\ \A k, l \in DOMAIN at : k < l => at[k] < at[l]
        /\ \A n \in 1..Len(upwards) : n \in places => \E k \in DOMAIN at : at[k] = n
  <2>1. upwards \in Seq(Indices)
    BY <1>2
  <2>2. QED
    BY ONLY <2>1, KeepingPlaces
<1> HIDE DEF order
<1>8. Len(list) = Len(order) /\ \A n \in 1..Len(order) : list[n] = Normalized(calls, order[n])
  BY <1>3, <1>6
<1>9. ASSUME NEW n \in 1..Len(order)
      PROVE  /\ order[n] \in DOMAIN calls /\ order[n] = at[n] - 1 /\ at[n] \in 1..LastIndex + 1
             /\ list[n].index = order[n]
             /\ list[n].given = calls[order[n]].given /\ list[n].args = calls[order[n]].args
  <2>1. at[n] \in 1..Len(upwards) /\ at[n] \in places /\ order[n] = upwards[at[n]]
    BY <1>7
  <2>2. order[n] \in DOMAIN calls /\ order[n] = at[n] - 1 /\ at[n] \in 1..LastIndex + 1
    BY <2>1, <1>2, <1>4, <1>5
  <2>3. list[n] = Normalized(calls, order[n])
    BY <1>8
  <2>4. QED
    BY <2>2, <2>3 DEF Normalized
<1>10. ASSUME NEW m \in 1..Len(order), NEW n \in 1..Len(order), m # n
       PROVE  list[m].index # list[n].index
  <2>1. m < n \/ n < m
    BY <1>6, <1>10
  <2>2. at[m] < at[n] \/ at[n] < at[m]
    BY <2>1, <1>7
  <2>3. at[m] # at[n] /\ at[m] \in Nat /\ at[n] \in Nat
    BY <2>2, <1>9
  <2>4. QED
    BY <2>3, <1>9
<1>11. ASSUME NEW i \in DOMAIN calls PROVE \E n \in 1..Len(order) : list[n].index = i
  <2>1. i \in Indices
    BY CallsAre
  <2>2. i + 1 \in 1..LastIndex + 1 /\ i + 1 - 1 = i /\ i \in Nat
    BY <2>1, <1>1 DEF Indices
  <2>3. i + 1 \in places
    <3>1. upwards[i + 1] = i
      <4>1. upwards[i + 1] = i + 1 - 1
        BY <2>2, <1>4
      <4>2. QED
        BY <4>1, <2>2
    <3>2. i + 1 \in DOMAIN upwards
      BY <2>2, <1>2
    <3>3. QED
      BY <3>1, <3>2, <1>5
  <2>4. PICK k \in DOMAIN at : at[k] = i + 1
    BY <2>2, <2>3, <1>2, <1>7
  <2>5. k \in 1..Len(order)
    BY <2>4, <1>7
  <2>6. list[k].index = i
    <3>1. list[k].index = order[k] /\ order[k] = at[k] - 1
      BY <2>5, <1>9
    <3>2. at[k] - 1 = i
      BY <2>2, <2>4
    <3>3. QED
      BY <3>1, <3>2
  <2>7. QED
    BY <2>5, <2>6
<1>12. ListsCalls(list, calls)
  BY <1>6, <1>8, <1>9, <1>10, <1>11 DEF ListsCalls
<1>13. QED
  BY <1>12 DEF list

\* What comes behind the chunks' events.
Completes(tail, calls) ==
  LET list == Aggregated(calls)
  IN  /\ Len(tail) = Len(list) + 1
      /\ \A k \in 1..Len(list) :
           /\ tail[k].type = "tool_call_completed" /\ tail[k].index = list[k].index
           /\ tail[k].piece = list[k].args
      /\ tail[Len(list) + 1].type = "message_completed"

ClosesAs(state, tail, calls) ==
  /\ tail \in Seq(Events) /\ \A k \in 1..Len(tail) : tail[k].type \in Ending
  /\ state \in {"reading", "failed"} => Len(tail) = 0
  /\ state = "interrupted" => Len(tail) = 1 /\ tail[1].type = "interrupt_ack"
  /\ state = "completed" => Completes(tail, calls)

LEMMA FinalIs ==
  ASSUME NEW calls \in CallStates
  PROVE  ClosesAs("completed", FinalEvents(calls), calls)
<1> DEFINE list == Aggregated(calls)
           L == Len(list)
           a == [n \in 1..L |-> Event("tool_call_completed", list[n].index, list[n].args)]
           x == Event("message_completed", 0, <<>>)
           tail == a \o <<x>>
<1>1. FinalEvents(calls) = tail
  BY DEF FinalEvents
<1>2. ListsCalls(list, calls)
  BY AggregatedIs
<1> HIDE DEF list
<1>3. L \in Nat /\ \A n \in 1..L : list[n].index \in Indices /\ list[n].args \in Seq(Signs)
  <2>1. DOMAIN calls \subseteq Indices /\ calls \in [DOMAIN calls -> Call]
    BY CallsAre
  <2>2. \A i \in DOMAIN calls : calls[i].args \in Seq(Nat)
    BY <2>1 DEF Call
  <2>3. \A s \in Seq(Nat) : s \in Seq(Signs)
    BY SeqMonotonic DEF Signs
  <2>4. QED
    BY <1>2, <2>1, <2>2, <2>3 DEF ListsCalls
<1> HIDE DEF L
<1>4. /\ \A n \in 1..L : /\ a[n] \in Events /\ a[n].type = "tool_call_completed"
                         /\ a[n].index = list[n].index /\ a[n].piece = list[n].args
      /\ x \in Events /\ x.type = "message_completed"
  <2>1. <<>> \in Seq(Signs)
    OBVIOUS
  <2>2. 0 \in Indices
    BY StreamAssumption DEF Indices
  <2>3. ASSUME NEW n \in 1..L
        PROVE  /\ a[n] \in Events /\ a[n].type = "tool_call_completed"
               /\ a[n].index = list[n].index /\ a[n].piece = list[n].args
    <3>1. a[n] = [type |-> "tool_call_completed", index |-> list[n].index, piece |-> list[n].args]
      BY DEF Event
    <3>2. QED
      BY <3>1, <1>3 DEF Events, Ending
  <2>4. x \in Events /\ x.type = "message_completed"
    BY <2>1, <2>2 DEF Events, Ending, Event
  <2>5. QED
    BY <2>3, <2>4
<1>5. a \in Seq(Events) /\ Len(a) = L
  <2>1. Len(a) = L
    BY <1>3
  <2>2. a = [n \in 1..L |-> a[n]]
    OBVIOUS
  <2> HIDE DEF a
  <2>3. a \in [1..L -> Events]
    BY <2>2, <1>4
  <2>4. a \in Seq(Events)
    BY <2>3, <1>3
  <2>5. QED
    BY <2>1, <2>4
<1> HIDE DEF a, x
<1>6. <<x>> \in Seq(Events) /\ Len(<<x>>) = 1 /\ <<x>>[1] = x
  BY <1>4
<1> DEFINE one == <<x>>
<1> HIDE DEF one
<1>7. /\ tail \in Seq(Events) /\ Len(tail) = L + 1 /\ tail[L + 1] = x
      /\ \A n \in 1..L : tail[n] = a[n]
  <2>1. one \in Seq(Events) /\ Len(one) = 1 /\ one[1] = x
    BY <1>6 DEF one
  <2>2. tail = a \o one
    BY DEF one
  <2>3. /\ a \o one \in Seq(Events) /\ Len(a \o one) = L + 1
        /\ \A n \in 1..L + 1 : (a \o one)[n] = IF n <= L THEN a[n] ELSE one[n - L]
    <3>1. /\ a \o one \in Seq(Events) /\ Len(a \o one) = Len(a) + Len(one)
          /\ \A n \in 1..Len(a) + Len(one) :
               (a \o one)[n] = IF n <= Len(a) THEN a[n] ELSE one[n - Len(a)]
      BY ONLY <2>1, <1>5, ConcatProperties
    <3>2. QED
      BY <3>1, <2>1, <1>5
  <2> HIDE DEF tail
  <2>4. ASSUME NEW n \in 1..L PROVE tail[n] = a[n]
    <3>1. n \in 1..L + 1 /\ n <= L
      BY <1>3
    <3>2. QED
      BY <3>1, <2>2, <2>3
  <2>5. tail[L + 1] = x
    <3>1. L + 1 \in 1..L + 1 /\ ~(L + 1 <= L) /\ L + 1 - L = 1
      BY <1>3
    <3> DEFINE m == L + 1
    <3>2. m \in 1..L + 1 /\ ~(m <= L) /\ m - L = 1
      BY <3>1, <1>3
    <3> HIDE DEF m
    <3>3. tail[m] = one[m - L]
      BY <3>2, <2>2, <2>3
    <3>4. QED
      BY <3>2, <3>3, <2>1 DEF m
  <2>6. QED
    BY <2>2, <2>3, <2>4, <2>5
<1> HIDE DEF tail
<1>8. \A k \in 1..Len(tail) : tail[k].type \in Ending
  <2>1. ASSUME NEW k \in 1..Len(tail) PROVE tail[k].type \in Ending
    <3>1. k = L + 1 \/ k \in 1..L
      BY <1>3, <1>7
    <3>2. QED
      BY <3>1, <1>4, <1>7 DEF Ending
  <2>2. QED
    BY <2>1
<1>9. Completes(tail, calls)
  BY <1>4, <1>7 DEF Completes, list, L
<1>10. ClosesAs("completed", tail, calls)
  BY <1>7, <1>8, <1>9 DEF ClosesAs
<1>11. QED
  BY <1>1, <1>10

\* The events are those of the chunks and then those of the end.
LEMMA EventsAreTwo ==
  ASSUME NEW state, NEW calls \in CallStates, NEW e \in Seq(Told), NEW events,
         state \in {"reading", "completed", "interrupted", "failed"},
         EventsAre(state, calls, e, events)
  PROVE  \E tail : ClosesAs(state, tail, calls) /\ events = Join(e, tail)
<1>1. CASE state \in {"reading", "failed"}
  <2> DEFINE tail == <<>>
  <2>1. tail \in Seq(Events) /\ Len(tail) = 0 /\ e \o <<>> = e
    BY ConcatEmptySeq
  <2>2. events = e \o tail
    BY <1>1, <2>1 DEF EventsAre
  <2> HIDE DEF tail
  <2>3. ClosesAs(state, tail, calls)
    BY <1>1, <2>1 DEF ClosesAs
  <2>4. QED
    BY <2>2, <2>3 DEF Join
<1>2. CASE state = "interrupted"
  <2> DEFINE x == Event("interrupt_ack", 0, <<>>)
             tail == <<x>>
  <2>1. 0 \in Indices /\ <<>> \in Seq(Signs)
    BY StreamAssumption DEF Indices
  <2>2. x \in Events /\ x.type = "interrupt_ack"
    BY <2>1 DEF Events, Ending, Event
  <2>3. events = Append(e, x)
    BY <1>2 DEF EventsAre
  <2> HIDE DEF x
  <2>4. tail \in Seq(Events) /\ Len(tail) = 1 /\ tail[1] = x
    BY <2>2
  <2>5. e \in Seq(Events)
    BY ToldAreEvents
  <2>6. Append(e, x) = e \o tail
    BY <2>2, <2>5, AppendIsConcat
  <2> HIDE DEF tail
  <2>7. ClosesAs(state, tail, calls)
    <3>1. \A k \in 1..Len(tail) : tail[k].type \in Ending
      BY <2>2, <2>4 DEF Ending
    <3>2. QED
      BY <1>2, <2>2, <2>4, <3>1 DEF ClosesAs
  <2>8. QED
    BY <2>3, <2>6, <2>7 DEF Join
<1>3. CASE state = "completed"
  <2>1. events = e \o FinalEvents(calls)
    BY <1>3 DEF EventsAre
  <2>2. ClosesAs(state, FinalEvents(calls), calls)
    BY <1>3, FinalIs
  <2>3. QED
    BY <2>1, <2>2 DEF Join
<1>4. QED
  BY <1>1, <1>2, <1>3

\* Where they are in the list, and that those of the end say nothing more.
TwoParts(events, e, tail) ==
  /\ events \in Seq(Events) /\ Len(e) \in Nat /\ Len(tail) \in Nat
  /\ Len(events) = Len(e) + Len(tail)
  /\ \A n \in 1..Len(e) : events[n] = e[n] /\ e[n].type \in Telling
  /\ \A n \in 1..Len(events) : n \notin 1..Len(e) => n - Len(e) \in 1..Len(tail)
  /\ \A k \in 1..Len(tail) :
       /\ Len(e) + k \in 1..Len(events) /\ Len(e) + k \notin 1..Len(e)
       /\ events[Len(e) + k] = tail[k] /\ tail[k].type \in Ending
  /\ \A type \in Telling : Gathered(events, PieceOf(type)) = Gathered(e, PieceOf(type))
  /\ \A i \in Indices : Gathered(events, PieceFor(i)) = Gathered(e, PieceFor(i))

LEMMA TwoPartsAre ==
  ASSUME NEW e \in Seq(Told), NEW tail \in Seq(Events), NEW events, events = Join(e, tail),
         \A k \in 1..Len(tail) : tail[k].type \in Ending
  PROVE  TwoParts(events, e, tail)
<1> DEFINE N == Len(e)
           K == Len(tail)
<1>1. e \in Seq(Events) /\ N \in Nat /\ K \in Nat
  BY ToldAreEvents, LenProperties
<1>2. /\ e \o tail \in Seq(Events) /\ Len(e \o tail) = Len(e) + Len(tail)
      /\ \A n \in 1..Len(e) + Len(tail) :
           (e \o tail)[n] = IF n <= Len(e) THEN e[n] ELSE tail[n - Len(e)]
  BY ONLY <1>1, tail \in Seq(Events), ConcatProperties
<1>3. /\ events \in Seq(Events) /\ Len(events) = N + K
      /\ \A n \in 1..N + K : events[n] = IF n <= N THEN e[n] ELSE tail[n - N]
  BY <1>2 DEF Join
<1>4. \A n \in 1..N : e[n].type \in Telling
  <2>1. \A n \in 1..N : e[n] \in Told
    OBVIOUS
  <2>2. QED
    BY <2>1 DEF Told
<1>5. ASSUME NEW says \in [Events -> Seq(Signs)], \A k \in 1..Len(tail) : says[tail[k]] = <<>>
      PROVE  Gathered(events, says) = Gathered(e, says)
  <2>1. Gathered(e \o tail, says) = Gathered(e, says) \o Gathered(tail, says)
    BY ONLY <1>1, tail \in Seq(Events), says \in [Events -> Seq(Signs)], GatheredConcat
  <2>2. Gathered(tail, says) = <<>>
    BY ONLY <1>5, tail \in Seq(Events), says \in [Events -> Seq(Signs)], GatheredNone
  <2> DEFINE g == Gathered(e, says)
  <2>3. g \in Seq(Signs)
    BY ONLY <1>1, says \in [Events -> Seq(Signs)], GatheredType
  <2> HIDE DEF g
  <2>4. g \o <<>> = g
    BY ONLY <2>3, ConcatEmptySeq
  <2>5. QED
    BY <2>1, <2>2, <2>4 DEF Join, g
<1>6. \A k \in 1..Len(tail) : tail[k] \in Events
  OBVIOUS
<1>7. ASSUME NEW type \in Telling
      PROVE  Gathered(events, PieceOf(type)) = Gathered(e, PieceOf(type))
  <2>1. \A k \in 1..Len(tail) : PieceOf(type)[tail[k]] = <<>>
    <3>1. \A x \in Events : x.type \in Ending => PieceOf(type)[x] = <<>>
      BY DEF PieceOf, Ending, Telling
    <3>2. QED
      BY <3>1, <1>6
  <2>2. QED
    BY <2>1, <1>5, EventsSay
<1>8. ASSUME NEW i \in Indices
      PROVE  Gathered(events, PieceFor(i)) = Gathered(e, PieceFor(i))
  <2>1. \A k \in 1..Len(tail) : PieceFor(i)[tail[k]] = <<>>
    <3>1. \A x \in Events : x.type \in Ending => PieceFor(i)[x] = <<>>
      BY DEF PieceFor, Ending
    <3>2. QED
      BY <3>1, <1>6
  <2>2. QED
    BY <2>1, <1>5, EventsSay
<1> HIDE DEF N, K
<1>9. \A n \in 1..N : events[n] = e[n]
  <2>1. ASSUME NEW n \in 1..N PROVE events[n] = e[n]
    <3>1. n \in 1..N + K /\ n <= N
      BY <1>1
    <3>2. QED
      BY <3>1, <1>3
  <2>2. QED
    BY <2>1
<1>10. \A n \in 1..N + K : n \notin 1..N => n - N \in 1..K
  BY <1>1
<1>11. \A k \in 1..K : N + k \in 1..N + K /\ N + k \notin 1..N /\ events[N + k] = tail[k]
  <2>1. ASSUME NEW k \in 1..K
        PROVE  N + k \in 1..N + K /\ N + k \notin 1..N /\ events[N + k] = tail[k]
    <3> DEFINE m == N + k
    <3>1. m \in 1..N + K /\ ~(m <= N) /\ m \notin 1..N /\ m - N = k
      BY <1>1
    <3> HIDE DEF m
    <3>2. events[m] = tail[m - N]
      BY <3>1, <1>3
    <3>3. QED
      BY <3>1, <3>2 DEF m
  <2>2. QED
    BY <2>1
<1>12. QED
  BY <1>1, <1>3, <1>4, <1>7, <1>8, <1>9, <1>10, <1>11 DEF TwoParts, N, K

\* What the pieces at the places of some events are.
LEMMA PiecesAre ==
  ASSUME NEW events \in Seq(Events)
  PROVE  /\ \A type : PiecesAt(events, {n \in 1..Len(events) : events[n].type = type})
                        = Gathered(events, PieceOf(type))
         /\ \A i : PiecesAt(events, {n \in 1..Len(events) :
                                       /\ events[n].type = "tool_call_argument_delta"
                                       /\ events[n].index = i})
                     = Gathered(events, PieceFor(i))
<1>1. \A n \in 1..Len(events) : events[n] \in Events
  OBVIOUS
<1>2. ASSUME NEW type
      PROVE  PiecesAt(events, {n \in 1..Len(events) : events[n].type = type})
               = Gathered(events, PieceOf(type))
  <2> DEFINE places == {n \in 1..Len(events) : events[n].type = type}
             a == [n \in 1..Len(events) |-> IF n \in places THEN events[n].piece ELSE <<>>]
             b == [n \in 1..Len(events) |-> PieceOf(type)[events[n]]]
  <2>1. \A n \in 1..Len(events) : a[n] = b[n]
    BY <1>1 DEF PieceOf
  <2>2. a = b
    <3>1. a = [n \in 1..Len(events) |-> a[n]] /\ b = [n \in 1..Len(events) |-> b[n]]
      OBVIOUS
    <3> HIDE DEF a, b
    <3>2. QED
      BY <2>1, <3>1
  <2>3. PiecesAt(events, places) = Concatenated(a)
    BY DEF PiecesAt
  <2>4. Gathered(events, PieceOf(type)) = Concatenated(b)
    BY DEF Gathered, SaidOf
  <2> HIDE DEF a, b
  <2>5. QED
    BY <2>2, <2>3, <2>4
<1>3. ASSUME NEW i
      PROVE  PiecesAt(events, {n \in 1..Len(events) :
                                 /\ events[n].type = "tool_call_argument_delta"
                                 /\ events[n].index = i})
               = Gathered(events, PieceFor(i))
  <2> DEFINE places == {n \in 1..Len(events) :
                          /\ events[n].type = "tool_call_argument_delta"
                          /\ events[n].index = i}
             a == [n \in 1..Len(events) |-> IF n \in places THEN events[n].piece ELSE <<>>]
             b == [n \in 1..Len(events) |-> PieceFor(i)[events[n]]]
  <2>1. \A n \in 1..Len(events) : a[n] = b[n]
    BY <1>1 DEF PieceFor
  <2>2. a = b
    <3>1. a = [n \in 1..Len(events) |-> a[n]] /\ b = [n \in 1..Len(events) |-> b[n]]
      OBVIOUS
    <3> HIDE DEF a, b
    <3>2. QED
      BY <2>1, <3>1
  <2>3. PiecesAt(events, places) = Concatenated(a)
    BY DEF PiecesAt
  <2>4. Gathered(events, PieceFor(i)) = Concatenated(b)
    BY DEF Gathered, SaidOf
  <2> HIDE DEF a, b
  <2>5. QED
    BY <2>2, <2>3, <2>4
<1>4. QED
  BY <1>2, <1>3

\* One call: announced at one place, its arguments behind it, completed behind them all.
At(events, type, i) == {n \in 1..Len(events) : events[n].type = type /\ events[n].index = i}

CallRebuilds(events, state, calls, i) ==
  LET deltas    == At(events, "tool_call_argument_delta", i)
      begins    == At(events, "tool_call_started", i)
      completes == At(events, "tool_call_completed", i)
  IN  /\ Cardinality(begins) = IF i \in DOMAIN calls THEN 1 ELSE 0
      /\ \A b \in begins, d \in deltas : b < d
      /\ deltas # {} => begins # {}
      /\ state = "completed" => Cardinality(completes) = Cardinality(begins)
      /\ \A c \in completes :
           /\ \A n \in deltas \union begins : n < c
           /\ events[c].piece = PiecesAt(events, deltas)

LEMMA CallIsTold ==
  ASSUME NEW i \in Indices, NEW calls \in CallStates,
         NEW state, state \in {"reading", "completed", "interrupted", "failed"},
         NEW tail, ClosesAs(state, tail, calls), NEW e \in Seq(Told),
         NEW events, TwoParts(events, e, tail),
         IF i \in DOMAIN calls THEN Announced(e, i) /\ Gathered(e, PieceFor(i)) = calls[i].args
         ELSE Unheard(e, i) /\ Gathered(e, PieceFor(i)) = <<>>
  PROVE  CallRebuilds(events, state, calls, i)
<1> DEFINE deltas == At(events, "tool_call_argument_delta", i)
           begins == At(events, "tool_call_started", i)
           completes == At(events, "tool_call_completed", i)
           list == Aggregated(calls)
           N == Len(e)
<1>1. ListsCalls(list, calls)
  BY AggregatedIs
<1> HIDE DEF list
<1>2. /\ N \in Nat /\ Len(list) \in Nat /\ Len(tail) \in Nat
      /\ \A n \in 1..N : events[n] = e[n] /\ e[n].type \in Telling
      /\ \A n \in 1..Len(events) : n \notin 1..N => n - N \in 1..Len(tail)
      /\ \A k \in 1..Len(tail) :
           /\ N + k \in 1..Len(events) /\ N + k \notin 1..N
           /\ events[N + k] = tail[k] /\ tail[k].type \in Ending
      /\ Len(events) = N + Len(tail) /\ events \in Seq(Events)
  BY <1>1 DEF TwoParts, ListsCalls
<1> HIDE DEF N
<1>3. ASSUME NEW n \in deltas \union begins
      PROVE  n \in 1..N /\ e[n] = events[n] /\ e[n].index = i /\ n \in Nat
  <2>1. /\ n \in 1..Len(events) /\ events[n].index = i
        /\ events[n].type \in {"tool_call_argument_delta", "tool_call_started"}
    BY DEF At
  <2>2. n \in 1..N
    <3>1. ASSUME n \notin 1..N PROVE FALSE
      <4> DEFINE k == n - N
      <4>1. k \in 1..Len(tail) /\ n = N + k
        BY <3>1, <2>1, <1>2
      <4> HIDE DEF k
      <4>2. events[n].type \in Ending
        BY <4>1, <1>2
      <4>3. QED
        BY <4>2, <2>1 DEF Ending
    <3>2. QED
      BY <3>1
  <2>3. QED
    BY <2>1, <2>2, <1>2
<1>4. \A n \in 1..N : /\ e[n].index = i /\ e[n].type = "tool_call_started" => n \in begins
                      /\ e[n].index = i /\ e[n].type = "tool_call_argument_delta" => n \in deltas
  <2>1. ASSUME NEW n \in 1..N PROVE n \in 1..Len(events) /\ events[n] = e[n]
    BY <1>2
  <2>2. QED
    BY <2>1 DEF At
<1>5. ASSUME NEW c \in completes
      PROVE  \E k \in 1..Len(list) : /\ c = N + k /\ state = "completed" /\ list[k].index = i
                                     /\ events[c].piece = list[k].args
  <2>1. c \in 1..Len(events) /\ events[c].index = i /\ events[c].type = "tool_call_completed"
    BY DEF At
  <2>2. c \notin 1..N
    <3>1. c \in 1..N => events[c].type \in Telling
      BY <1>2
    <3>2. QED
      BY <3>1, <2>1 DEF Telling
  <2> DEFINE k == c - N
  <2>3. k \in 1..Len(tail) /\ c = N + k
    BY <2>1, <2>2, <1>2
  <2> HIDE DEF k
  <2>4. tail[k] = events[c]
    BY <2>3, <1>2
  <2>5. tail[k].type = "tool_call_completed" /\ tail[k].index = i
    BY <2>1, <2>4
  <2>6. state = "completed"
    <3>1. ~(state \in {"reading", "failed"})
      BY <2>3, <1>2 DEF ClosesAs
    <3>2. state # "interrupted"
      <4>1. ASSUME state = "interrupted" PROVE FALSE
        <5>1. Len(tail) = 1 /\ tail[1].type = "interrupt_ack"
          BY <4>1 DEF ClosesAs
        <5>2. k = 1
          BY <5>1, <2>3
        <5>3. QED
          BY <5>1, <5>2, <2>5
      <4>2. QED
        BY <4>1
    <3>3. QED
      BY <3>1, <3>2
  <2>7. /\ Len(tail) = Len(list) + 1 /\ tail[Len(list) + 1].type = "message_completed"
        /\ \A j \in 1..Len(list) : tail[j].index = list[j].index /\ tail[j].piece = list[j].args
    BY <2>6 DEF ClosesAs, Completes, list
  <2>8. k \in 1..Len(list)
    <3>1. k = Len(list) + 1 \/ k \in 1..Len(list)
      BY <2>3, <2>7, <1>2
    <3>2. k # Len(list) + 1
      <4>1. ASSUME k = Len(list) + 1 PROVE FALSE
        <5>1. tail[k].type = "message_completed"
          BY <4>1, <2>7
        <5>2. QED
          BY <5>1, <2>5
      <4>2. QED
        BY <4>1
    <3>3. QED
      BY <3>1, <3>2
  <2>9. list[k].index = i /\ events[c].piece = list[k].args
    BY <2>4, <2>5, <2>7, <2>8
  <2>10. QED
    BY <2>3, <2>6, <2>8, <2>9
<1>6. ASSUME NEW k \in 1..Len(list), state = "completed", list[k].index = i
      PROVE  N + k \in completes
  <2>1. /\ Len(tail) = Len(list) + 1
        /\ tail[k].type = "tool_call_completed" /\ tail[k].index = list[k].index
    BY <1>6 DEF ClosesAs, Completes, list
  <2>2. k \in 1..Len(tail)
    BY <2>1, <1>2
  <2>3. N + k \in 1..Len(events) /\ events[N + k] = tail[k]
    BY <2>2, <1>2
  <2>4. events[N + k].type = "tool_call_completed" /\ events[N + k].index = i
    BY <2>1, <2>3, <1>6
  <2>5. QED
    BY <2>3, <2>4 DEF At
<1>7. PiecesAt(events, deltas) = Gathered(e, PieceFor(i))
  <2>1. PiecesAt(events, deltas) = Gathered(events, PieceFor(i))
    BY <1>2, PiecesAre DEF At
  <2>2. QED
    BY <2>1 DEF TwoParts
<1> HIDE DEF deltas, begins, completes
<1>8. ASSUME NEW c \in completes
      PROVE  (\A n \in deltas \union begins : n < c) /\ events[c].piece = PiecesAt(events, deltas)
  <2>1. PICK k \in 1..Len(list) : /\ c = N + k /\ list[k].index = i
                                  /\ events[c].piece = list[k].args
    BY <1>5
  <2>2. list[k].args = calls[i].args /\ i \in DOMAIN calls
    BY <2>1, <1>1 DEF ListsCalls
  <2>3. events[c].piece = PiecesAt(events, deltas)
    BY <2>1, <2>2, <1>7
  <2>4. \A n \in deltas \union begins : n < c
    BY <2>1, <1>2, <1>3
  <2>5. QED
    BY <2>3, <2>4
<1>9. CASE i \in DOMAIN calls
  <2>1. PICK b \in 1..N :
          /\ e[b].type = "tool_call_started" /\ e[b].index = i
          /\ \A n \in 1..N : e[n].index = i =>
               /\ e[n].type = "tool_call_started" => n = b
               /\ e[n].type = "tool_call_argument_delta" => b < n
    BY <1>9 DEF Announced, N
  <2>2. begins = {b}
    <3>1. b \in begins
      BY <2>1, <1>4
    <3>2. ASSUME NEW n \in begins PROVE n = b
      <4>1. n \in 1..N /\ e[n].index = i /\ e[n] = events[n]
        BY <1>3
      <4>2. events[n].type = "tool_call_started"
        BY DEF begins, At
      <4>3. QED
        BY <4>1, <4>2, <2>1
    <3>3. QED
      BY <3>1, <3>2
  <2>3. ASSUME NEW d \in deltas PROVE b < d
    <3>1. d \in 1..N /\ e[d].index = i /\ e[d] = events[d]
      BY <1>3
    <3>2. events[d].type = "tool_call_argument_delta"
      BY DEF deltas, At
    <3>3. QED
      BY <3>1, <3>2, <2>1
  <2>4. Cardinality(begins) = 1
    BY <2>2, FS_Singleton
  <2>5. ASSUME state = "completed" PROVE Cardinality(completes) = 1
    <3>1. PICK k \in 1..Len(list) : list[k].index = i
      BY <1>9, <1>1 DEF ListsCalls
    <3>2. N + k \in completes
      BY <3>1, <2>5, <1>6
    <3>3. ASSUME NEW c \in completes PROVE c = N + k
      <4>1. PICK j \in 1..Len(list) : c = N + j /\ list[j].index = i
        BY <1>5
      <4>2. \A m, n \in 1..Len(list) : m # n => list[m].index # list[n].index
        BY <1>1 DEF ListsCalls
      <4>3. list[j].index = list[k].index
        BY <4>1, <3>1
      <4>4. j = k
        BY ONLY <4>2, <4>3, j \in 1..Len(list), k \in 1..Len(list)
      <4>5. QED
        BY <4>1, <4>4
    <3>4. completes = {N + k}
      BY <3>2, <3>3
    <3>5. QED
      BY <3>4, FS_Singleton
  <2>6. QED
    BY <1>8, <1>9, <2>2, <2>3, <2>4, <2>5 DEF CallRebuilds, deltas, begins, completes
<1>10. CASE i \notin DOMAIN calls
  <2>1. \A n \in 1..N :
          e[n].index = i => e[n].type \notin {"tool_call_started", "tool_call_argument_delta"}
    BY <1>10 DEF Unheard, N
  <2>2. begins = {} /\ deltas = {}
    <3>1. ASSUME NEW n \in deltas \union begins PROVE FALSE
      <4>1. n \in 1..N /\ e[n].index = i /\ e[n] = events[n]
        BY <1>3
      <4>2. events[n].type \in {"tool_call_started", "tool_call_argument_delta"}
        BY DEF deltas, begins, At
      <4>3. QED
        BY <4>1, <4>2, <2>1
    <3>2. QED
      BY <3>1
  <2>3. completes = {}
    <3>1. ASSUME NEW c \in completes PROVE FALSE
      <4>1. PICK k \in 1..Len(list) : list[k].index = i
        BY <1>5
      <4>2. QED
        BY <4>1, <1>10, <1>1 DEF ListsCalls
    <3>2. QED
      BY <3>1
  <2>4. Cardinality(begins) = 0 /\ Cardinality(completes) = 0
    BY <2>2, <2>3, FS_EmptySet
  <2>5. QED
    BY <1>8, <1>10, <2>2, <2>4 DEF CallRebuilds, deltas, begins, completes
<1>11. QED
  BY <1>9, <1>10

\* The last event, and where message_completed is.
LastType(events) == IF events = <<>> THEN "none" ELSE events[Len(events)].type
EndIsTold(events, state) ==
  /\ Cardinality({n \in 1..Len(events) : events[n].type = "message_completed"})
       = IF state = "completed" THEN 1 ELSE 0
  /\ (state = "completed") <=> (LastType(events) = "message_completed")
  /\ (state = "interrupted") <=> (LastType(events) = "interrupt_ack")

LEMMA LastIsTold ==
  ASSUME NEW calls \in CallStates,
         NEW state, state \in {"reading", "completed", "interrupted", "failed"},
         NEW tail, ClosesAs(state, tail, calls), NEW e \in Seq(Told),
         NEW events, TwoParts(events, e, tail)
  PROVE  EndIsTold(events, state)
<1> DEFINE N == Len(e)
           list == Aggregated(calls)
           done == {n \in 1..Len(events) : events[n].type = "message_completed"}
           last == LastType(events)
<1>1. Len(list) \in Nat
  BY AggregatedIs DEF ListsCalls
<1>2. /\ N \in Nat /\ Len(tail) \in Nat
      /\ \A n \in 1..N : events[n].type \in Telling
      /\ \A n \in 1..Len(events) : n \notin 1..N => n - N \in 1..Len(tail)
      /\ \A k \in 1..Len(tail) : N + k \in 1..Len(events) /\ events[N + k] = tail[k]
      /\ Len(events) = N + Len(tail) /\ events \in Seq(Events)
  BY DEF TwoParts
<1>3. /\ events = <<>> <=> Len(events) = 0
      /\ last = IF events = <<>> THEN "none" ELSE events[Len(events)].type
  BY <1>2, EmptySeq DEF LastType
<1> HIDE DEF N, list, last
<1>4. ASSUME NEW n \in done
      PROVE  \E k \in 1..Len(tail) : n = N + k /\ tail[k].type = "message_completed"
  <2>1. n \in 1..Len(events) /\ events[n].type = "message_completed"
    OBVIOUS
  <2>2. n \notin 1..N
    <3>1. n \in 1..N => events[n].type \in Telling
      BY <1>2
    <3>2. QED
      BY <3>1, <2>1 DEF Telling
  <2> DEFINE k == n - N
  <2>3. k \in 1..Len(tail) /\ n = N + k
    BY <2>1, <2>2, <1>2
  <2> HIDE DEF k
  <2>4. tail[k] = events[n]
    BY <2>3, <1>2
  <2>5. QED
    BY <2>1, <2>3, <2>4
<1>5. Len(tail) = 0 => last \notin Ending
  <2>1. ASSUME Len(tail) = 0 PROVE last \notin Ending
    <3>1. CASE Len(events) = 0
      BY <3>1, <1>3 DEF Ending
    <3>2. CASE Len(events) # 0
      <4>1. Len(events) \in 1..N /\ Len(events) = N
        BY <2>1, <3>2, <1>2
      <4>2. last = events[Len(events)].type
        BY <3>2, <1>3
      <4>3. events[Len(events)].type \in Telling
        BY <4>1, <1>2
      <4>4. QED
        BY <4>2, <4>3 DEF Telling, Ending
    <3>3. QED
      BY <3>1, <3>2
  <2>2. QED
    BY <2>1
<1>6. Len(tail) # 0 => last = tail[Len(tail)].type
  <2>1. ASSUME Len(tail) # 0 PROVE last = tail[Len(tail)].type
    <3>1. Len(tail) \in 1..Len(tail) /\ Len(events) # 0
      BY <2>1, <1>2
    <3>2. events[Len(events)] = tail[Len(tail)]
      BY <3>1, <1>2
    <3>3. QED
      BY <3>1, <3>2, <1>3
  <2>2. QED
    BY <2>1
<1> HIDE DEF done
<1>7. CASE state \in {"reading", "failed"}
  <2>1. Len(tail) = 0
    BY <1>7 DEF ClosesAs
  <2>2. done = {}
    BY <2>1, <1>4
  <2>3. Cardinality(done) = 0
    BY <2>2, FS_EmptySet
  <2>4. QED
    BY <1>5, <1>7, <2>1, <2>3 DEF done, last, EndIsTold, Ending
<1>8. CASE state = "interrupted"
  <2>1. Len(tail) = 1 /\ tail[1].type = "interrupt_ack"
    BY <1>8 DEF ClosesAs
  <2>2. done = {}
    <3>1. ASSUME NEW n \in done PROVE FALSE
      <4>1. PICK k \in 1..Len(tail) : tail[k].type = "message_completed"
        BY <1>4
      <4>2. k = 1
        BY <4>1, <2>1
      <4>3. QED
        BY <4>1, <4>2, <2>1
    <3>2. QED
      BY <3>1
  <2>3. Cardinality(done) = 0
    BY <2>2, FS_EmptySet
  <2>4. last = "interrupt_ack"
    BY <2>1, <1>6
  <2>5. QED
    BY <1>8, <2>3, <2>4 DEF done, last, EndIsTold
<1>9. CASE state = "completed"
  <2> DEFINE K == Len(list) + 1
  <2>1. /\ Len(tail) = K /\ tail[K].type = "message_completed"
        /\ \A k \in 1..Len(list) : tail[k].type = "tool_call_completed"
    BY <1>9 DEF ClosesAs, Completes, list
  <2>2. K \in 1..Len(tail) /\ Len(tail) # 0
    BY <2>1, <1>1
  <2>3. \A k \in 1..Len(tail) : k = K \/ k \in 1..Len(list)
    BY <2>1, <1>1
  <2> HIDE DEF K
  <2>4. N + K \in done
    <3>1. N + K \in 1..Len(events) /\ events[N + K].type = "message_completed"
      BY <2>1, <2>2, <1>2
    <3>2. QED
      BY <3>1 DEF done
  <2>5. ASSUME NEW n \in done PROVE n = N + K
    <3>1. PICK k \in 1..Len(tail) : n = N + k /\ tail[k].type = "message_completed"
      BY <1>4
    <3>2. k = K
      BY <3>1, <2>1, <2>3
    <3>3. QED
      BY <3>1, <3>2
  <2>6. done = {N + K}
    BY <2>4, <2>5
  <2>7. Cardinality(done) = 1
    BY <2>6, FS_Singleton
  <2>8. last = "message_completed"
    BY <2>1, <2>2, <1>6
  <2>9. QED
    BY <1>9, <2>7, <2>8 DEF done, last, EndIsTold
<1>10. QED
  BY <1>7, <1>8, <1>9

\* The results of the calls have names of their own.
LEMMA ResultsAreNamed ==
  ASSUME NEW calls \in CallStates, NEW list, list = Aggregated(calls)
  PROVE  /\ \A m, n \in 1..Len(list) : m # n => ResultName(list[m]) # ResultName(list[n])
         /\ \A n \in 1..Len(list) : list[n].given => ResultName(list[n]) = CallName(list[n])
<1>1. \A m, n \in 1..Len(list) : m # n => list[m].index # list[n].index
  BY AggregatedIs DEF ListsCalls
<1>2. \A m, n \in 1..Len(list) : m # n => ResultName(list[m])[2] # ResultName(list[n])[2]
  BY <1>1 DEF ResultName
<1>3. \A n \in 1..Len(list) : list[n].given => ResultName(list[n]) = CallName(list[n])
  BY DEF ResultName, CallName
<1>4. QED
  BY <1>2, <1>3

LEMMA RuntimeRebuilds == RuntimeInv => EventsRebuildTheMessage
<1> SUFFICES ASSUME RuntimeInv PROVE EventsRebuildTheMessage
  OBVIOUS
<1> DEFINE answer == runtime.answer
           events == runtime.events
           state == runtime.state
           calls == answer.calls
           list == Aggregated(calls)
<1>1. /\ state \in {"reading", "completed", "interrupted", "failed"} /\ calls \in CallStates
      /\ \E e : Follows(answer.content, answer.thinking, ArgsOf(calls), e)
                /\ EventsAre(state, calls, e, events)
  BY DEF RuntimeInv, IsTold
<1>2. \A type : Said(type) = PiecesAt(events, {n \in 1..Len(events) : events[n].type = type})
  BY DEF Said
<1>3. \A type, i : Times(type, i) = At(events, type, i)
  BY DEF Times, At
<1> HIDE DEF events, state, calls
<1>4. PICK e : Follows(answer.content, answer.thinking, ArgsOf(calls), e)
               /\ EventsAre(state, calls, e, events)
  BY <1>1
<1>5. e \in Seq(Told)
  BY <1>4 DEF Follows
<1>6. PICK tail : ClosesAs(state, tail, calls) /\ events = Join(e, tail)
  BY <1>1, <1>4, <1>5, EventsAreTwo
<1>7. TwoParts(events, e, tail)
  BY <1>5, <1>6, TwoPartsAre DEF ClosesAs
<1>8. events \in Seq(Events)
  BY <1>7 DEF TwoParts
<1>9. Said("content_delta") = answer.content /\ Said("reasoning_delta") = answer.thinking
  <2>1. \A type : Said(type) = Gathered(events, PieceOf(type))
    BY <1>2, <1>8, PiecesAre
  <2>2. \A type \in Telling : Gathered(events, PieceOf(type)) = Gathered(e, PieceOf(type))
    BY <1>7 DEF TwoParts
  <2>3. QED
    BY <2>1, <2>2, <1>4 DEF Follows, Telling
<1>10. \A i \in Indices : CallRebuilds(events, state, calls, i)
  <2>1. ASSUME NEW i \in Indices PROVE CallRebuilds(events, state, calls, i)
    <3>1. IF i \in DOMAIN calls THEN Announced(e, i) /\ Gathered(e, PieceFor(i)) = calls[i].args
          ELSE Unheard(e, i) /\ Gathered(e, PieceFor(i)) = <<>>
      BY <1>4 DEF Follows, ArgsOf
    <3>2. QED
      BY <3>1, <1>1, <1>5, <1>6, <1>7, CallIsTold
  <2>2. QED
    BY <2>1
<1>11. EndIsTold(events, state)
  <2>1. state \in {"reading", "completed", "interrupted", "failed"} /\ calls \in CallStates
    BY <1>1
  <2>2. ClosesAs(state, tail, calls)
    BY <1>6
  <2>3. QED
    BY ONLY <2>1, <2>2, <1>5, <1>7, LastIsTold
<1>12. /\ \A m, n \in 1..Len(list) : m # n => ResultName(list[m]) # ResultName(list[n])
       /\ \A n \in 1..Len(list) : list[n].given => ResultName(list[n]) = CallName(list[n])
  BY <1>1, ResultsAreNamed
<1>13. \A i \in Indices :
         LET deltas    == Times("tool_call_argument_delta", i)
             begins    == Times("tool_call_started", i)
             completes == Times("tool_call_completed", i)
         IN  /\ Cardinality(begins) = IF i \in DOMAIN answer.calls THEN 1 ELSE 0
             /\ \A b \in begins, d \in deltas : b < d
             /\ deltas # {} => begins # {}
             /\ runtime.state = "completed" => Cardinality(completes) = Cardinality(begins)
             /\ \A c \in completes :
                  /\ \A n \in deltas \union begins : n < c
                  /\ runtime.events[c].piece = PiecesAt(runtime.events, deltas)
  BY <1>3, <1>10 DEF CallRebuilds, events, state, calls
<1>14. QED
  BY <1>9, <1>11, <1>12, <1>13 DEF EventsRebuildTheMessage, EndIsTold, LastType, events, state,
    calls

\* A client that only follows the events of stream_runtime has the message: after every
\* chunk the deltas together are the texts and the calls' arguments, and each call that is
\* in the answer has been announced once, before them; what the end adds is behind all that.
THEOREM EventsAlwaysRebuild == StreamSpec => []EventsRebuildTheMessage
<1>1. StreamInit => TextInv /\ RuntimeInv
  BY TextInitially, RuntimeInitially
<1>2. TextInv /\ RuntimeInv /\ [StreamNext]_streamVars => TextInv' /\ RuntimeInv'
  BY TextStep, RuntimeStep
<1>3. QED
  BY <1>1, <1>2, RuntimeRebuilds, PTL DEF StreamSpec
==================================================================================
