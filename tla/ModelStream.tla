------------------------------- MODULE ModelStream -------------------------------
(***************************************************************************)
(* One answer of the model, from the provider's chunks to what is made of  *)
(* them: OpenAIProvider opens the stream and converts its chunks, and the  *)
(* ways of StreamService and ChatService to read one put the answer        *)
(* together, each in its own loop.  Here they all read the same stream,    *)
(* so that what they make of it can be compared.                           *)
(*                                                                         *)
(* The provider's own order of chunks is not trusted: a chunk may carry    *)
(* any part of the answer, with or without a reason to finish.             *)
(***************************************************************************)
EXTENDS StreamText, Loops

CONSTANTS
  LastIndex,  \* bound: index of a tool call
  Contents,   \* texts that a chunk carries
  Thoughts,   \* the characters of thinking, chunk by chunk, in no text and no tag
  Usages,     \* token counts, positive numbers
  MaxCost,    \* bound: chunks of a stream, those with calls or thinking counted double
  Profiles,   \* request header profiles configured
  MaxRequests \* bound: requests of the provider

ASSUME StreamAssumption ==
  /\ MaxCost \in Nat /\ Profiles \in Nat /\ MaxRequests \in Nat
  /\ LastIndex \in Nat /\ Usages \subseteq Nat \ {0}
  /\ Contents \subseteq Seq(Characters)
  /\ \A n \in 1..MaxCost : Thoughts[n] \notin Characters

VARIABLES
  upstream,   \* the provider's stream: none, open, ended or broken
  requests,   \* request_count, and the profile of the last request's headers
  taken,      \* chunks taken, and their cost
  collected,  \* stream_collect: the answer so far
  chat,       \* ChatService.stream_chat: the answer so far
  parsed,     \* the parser of the next three, and whether its buffer has overflown
  returned,   \* stream_with_parser: the two texts it returns
  iterated,   \* stream_iter: the messages it has yielded
  emitted,    \* stream_to_ui: what it has emitted
  counted,    \* count_tokens_streaming: the usage
  managed,    \* the deprecated StreamManager on the same text, and what it has shown
  runtime     \* stream_runtime: its state, answer and events

parserReaders == <<parsed, returned, iterated, emitted>>
streamVars ==
  <<upstream, requests, taken, collected, chat, parserReaders, counted, managed, runtime>>

-----------------------------------------------------------------------------
(* Chunks                                                                  *)

Indices == 0..LastIndex

\* A fragment of a tool call.  given: id and name are in it.  args is empty, or names
\* the chunk it came with.
Deltas(n) == [index : Indices, given : BOOLEAN, args : {<<>>, <<n>>}]

Plain == [choices |-> TRUE, finish |-> FALSE, content |-> <<>>, thinking |-> <<>>,
          calls |-> <<>>, usage |-> 0]

TextChunk(text, finish)   == [Plain EXCEPT !.content = text, !.finish = finish]
ThoughtChunk(n, text)     == [Plain EXCEPT !.thinking = <<Thoughts[n]>>, !.content = text]
CallChunk(calls, finish)  == [Plain EXCEPT !.calls = calls, !.finish = finish]
LastChunk(choices, usage) == [Plain EXCEPT !.choices = choices, !.finish = choices, !.usage = usage]

\* What the provider may send as its n-th chunk.
RawChunks(n) ==
  {TextChunk(x[1], x[2]) : x \in Contents \X BOOLEAN}
    \union {ThoughtChunk(n, text) : text \in Contents \union {<<>>}}
    \union {CallChunk(<<x[1]>>, x[2]) : x \in Deltas(n) \X BOOLEAN}
    \union {CallChunk(two, FALSE) : two \in Deltas(n) \X {d \in Deltas(n) : d.given /\ d.args # <<>>}}
    \union {LastChunk(x[1], x[2]) : x \in BOOLEAN \X (Usages \union {0})}

\* StreamChunk.from_openai_chunk: a chunk without choices is the last one.
FromOpenAI(raw) ==
  [content |-> raw.content, thinking |-> raw.thinking, calls |-> raw.calls, usage |-> raw.usage,
   complete |-> raw.finish \/ ~raw.choices]

Cost(chunk) == IF chunk.calls = <<>> /\ chunk.thinking = <<>> THEN 1 ELSE 2

-----------------------------------------------------------------------------
(* Tool calls                                                              *)

NoCalls == [i \in {} |-> [given |-> FALSE, args |-> <<>>]]

\* One round of _merge_tool_call_state: id and name are taken over when given, the
\* arguments are appended.
MergeDelta(calls, d) ==
  LET old == IF d.index \in DOMAIN calls THEN calls[d.index] ELSE [given |-> FALSE, args |-> <<>>]
  IN  [i \in DOMAIN calls \union {d.index} |->
         IF i = d.index THEN [given |-> old.given \/ d.given, args |-> old.args \o d.args]
         ELSE calls[i]]

Merge(calls, deltas) ==
  LET merged[n \in 0..Len(deltas)] ==
        IF n = 0 THEN calls ELSE MergeDelta(merged[n - 1], deltas[n])
  IN  merged[Len(deltas)]

\* normalize_tool_call, on an entry of the state.
Normalized(calls, i) == [index |-> i, given |-> calls[i].given, args |-> calls[i].args]

\* _normalize_aggregated_tool_calls: in the order of the indices.
Aggregated(calls) ==
  LET upwards == [n \in 1..LastIndex + 1 |-> n - 1]
      order == Keeping(upwards, {n \in DOMAIN upwards : upwards[n] \in DOMAIN calls})
  IN  [n \in 1..Len(order) |-> Normalized(calls, order[n])]

-----------------------------------------------------------------------------
(* Readers of the stream                                                   *)

NoAnswer == [content |-> <<>>, thinking |-> <<>>, calls |-> NoCalls, usage |-> 0]
LatestUsage(chunk, usage) == IF chunk.usage # 0 THEN chunk.usage ELSE usage

\* _log_stream_chunk: what it logs of the calls, it merges first; some readers have
\* no other place where they do.
LogStreamChunk(calls, chunk) == Merge(calls, chunk.calls)

\* The loop of stream_collect.
Collect(chunk) ==
  collected' = [content |-> collected.content \o chunk.content,
                thinking |-> collected.thinking \o chunk.thinking,
                calls |-> LogStreamChunk(collected.calls, chunk),
                usage |-> LatestUsage(chunk, collected.usage)]

\* The loop of count_tokens_streaming.
Count(chunk) == counted' = LatestUsage(chunk, counted)

\* Mutant: the loop ends before it takes the last chunk's calls.
ChatReads_StopsEarly(chunk) ==
  chat' = [content |-> chat.content \o chunk.content,
           thinking |-> chat.thinking \o chunk.thinking,
           calls |-> IF chunk.complete THEN chat.calls ELSE Merge(chat.calls, chunk.calls),
           usage |-> LatestUsage(chunk, chat.usage)]

\* The loop of ChatService.stream_chat.
ChatReads(chunk) ==
  chat' = [content |-> chat.content \o chunk.content,
           thinking |-> chat.thinking \o chunk.thinking,
           calls |-> IF chunk.calls = <<>> THEN chat.calls ELSE Merge(chat.calls, chunk.calls),
           usage |-> LatestUsage(chunk, chat.usage)]

Message(type, text) == [type |-> type, text |-> text]
Text(messages, type) ==
  Concatenated([n \in 1..Len(messages) |->
                  IF messages[n].type = type THEN messages[n].text ELSE <<>>])

\* The messages of stream_with_parser, stream_to_ui and stream_iter for one chunk, p and q
\* being the parser behind it and when it has been flushed: content goes through the
\* parser, thinking goes past it, and the parser is flushed when the loop has ended.
Parsed(p, chunk, q) ==
  p.out \o (IF chunk.thinking = <<>> THEN <<>> ELSE <<Message("thinking", chunk.thinking)>>) \o q.out

\* stream_with_parser
WithParser(messages) ==
  returned' = [content |-> returned.content \o Text(messages, "content"),
               thinking |-> returned.thinking \o Text(messages, "thinking")]

\* stream_iter
Iterate(messages) == iterated' = iterated \o messages

\* stream_to_ui: done is emitted behind the loop, and not when the stream has broken.
ToUi(usage, messages, done) ==
  emitted' = emitted \o (IF usage = 0 THEN <<>> ELSE <<Message("tokens", <<usage>>)>>)
                     \o messages
                     \o (IF done THEN <<Message("status", <<"done">>)>> ELSE <<>>)

ParserReads(chunk) ==
  LET p == IF chunk.content = <<>> THEN [parsed.parser EXCEPT !.out = <<>>]
           ELSE ProcessChunk(parsed.parser, chunk.content)
      q == IF chunk.complete THEN Flush(p) ELSE [p EXCEPT !.out = <<>>]
      messages == Parsed(p, chunk, q)
  IN  /\ parsed' = [parser |-> [q EXCEPT !.out = <<>>],
                    overflown |-> parsed.overflown
                                  \/ Len(parsed.parser.buffer \o chunk.content) > MaxBuffer]
      /\ WithParser(messages)
      /\ Iterate(messages)
      /\ ToUi(chunk.usage, messages, chunk.complete)

ManagerReads(chunk) ==
  LET p == IF chunk.content = <<>> THEN [managed.manager EXCEPT !.out = <<>>]
           ELSE ManagerProcess(managed.manager, chunk.content)
      q == IF chunk.complete THEN ManagerFlush(p) ELSE [p EXCEPT !.out = <<>>]
  IN  managed' = [manager |-> q, shown |-> managed.shown \o p.out \o q.out,
                  overflown |-> managed.overflown
                                \/ Len(managed.manager.buffer \o chunk.content) > MaxBuffer]

Event(type, index, piece) == [type |-> type, index |-> index, piece |-> piece]

\* A call is announced with its first fragment; the state is already merged.
Tell(acc, d, calls) ==
  [started |-> acc.started \union {d.index},
   events |-> acc.events
     \o (IF d.index \notin acc.started
           THEN <<Event("tool_call_started", d.index, calls[d.index].args)>> ELSE <<>>)
     \o (IF d.args # <<>> THEN <<Event("tool_call_argument_delta", d.index, d.args)>> ELSE <<>>)]

\* Mutant: a call is announced when its id and name are there, not before anything else.
CallEvents_WhenNamed(chunk, started, calls) ==
  LET told[n \in 0..Len(chunk.calls)] ==
        IF n = 0 THEN [started |-> started, events |-> <<>>]
        ELSE LET acc == told[n - 1]
                 d == chunk.calls[n]
             IN  IF d.given THEN Tell(acc, d, calls)
                 ELSE IF d.args = <<>> THEN acc
                 ELSE [acc EXCEPT !.events = Append(@, Event("tool_call_argument_delta", d.index, d.args))]
  IN  told[Len(chunk.calls)]

\* The loop over a chunk's calls.
CallEvents(chunk, started, calls) ==
  LET told[n \in 0..Len(chunk.calls)] ==
        IF n = 0 THEN [started |-> started, events |-> <<>>]
        ELSE Tell(told[n - 1], chunk.calls[n], calls)
  IN  told[Len(chunk.calls)]

ChunkEvents(chunk, calls) ==
  (IF chunk.usage = 0 THEN <<>> ELSE <<Event("usage_updated", 0, <<chunk.usage>>)>>)
    \o CallEvents(chunk, runtime.started, calls).events
    \o (IF chunk.content = <<>> THEN <<>> ELSE <<Event("content_delta", 0, chunk.content)>>)
    \o (IF chunk.thinking = <<>> THEN <<>> ELSE <<Event("reasoning_delta", 0, chunk.thinking)>>)

\* What stream_runtime yields behind its loop.
FinalEvents(calls) ==
  LET list == Aggregated(calls)
  IN  [n \in 1..Len(list) |-> Event("tool_call_completed", list[n].index, list[n].args)]
        \o <<Event("message_completed", 0, <<>>)>>

\* The loop of stream_runtime, unless it has stopped.
RuntimeReads(chunk) ==
  LET answer == [content |-> runtime.answer.content \o chunk.content,
                 thinking |-> runtime.answer.thinking \o chunk.thinking,
                 calls |-> Merge(runtime.answer.calls, chunk.calls),
                 usage |-> LatestUsage(chunk, runtime.answer.usage)]
  IN  IF runtime.state # "reading" THEN UNCHANGED runtime
      ELSE runtime' =
             [state |-> IF chunk.complete THEN "completed" ELSE "reading",
              answer |-> answer,
              started |-> CallEvents(chunk, runtime.started, answer.calls).started,
              events |-> runtime.events \o ChunkEvents(chunk, answer.calls)
                           \o (IF chunk.complete THEN FinalEvents(answer.calls) ELSE <<>>)]

\* should_stop() at the next chunk: nothing of it is read.
RuntimeStops ==
  runtime' = [runtime EXCEPT !.state = "interrupted",
                             !.events = Append(@, Event("interrupt_ack", 0, <<>>))]

-----------------------------------------------------------------------------
StreamInit ==
  /\ upstream = "none"
  /\ requests = [count |-> 0, profile |-> 0]
  /\ taken = [chunks |-> 0, cost |-> 0]
  /\ collected = NoAnswer /\ chat = NoAnswer
  /\ parsed = [parser |-> Idle, overflown |-> FALSE]
  /\ returned = [content |-> <<>>, thinking |-> <<>>]
  /\ iterated = <<>> /\ counted = 0
  /\ emitted = <<Message("status", <<"thinking">>)>>
  /\ managed = [manager |-> Idle, shown |-> <<>>, overflown |-> FALSE]
  /\ runtime = [state |-> "reading", answer |-> NoAnswer, started |-> {}, events |-> <<>>]

\* RequestHeaderRotator.next_profile: the profiles in turn.
NextProfile == IF Profiles = 0 THEN 0 ELSE requests.count % Profiles

\* _make_chat_request: the client retries on its own, and raises when it gives up.
Opened == {"open", "broken"}

\* BaseLLMProvider.stream_chat up to the first chunk: the request is counted, and sent
\* with the next profile's headers.  A reader that got an exception may try again.
Request ==
  /\ upstream \in {"none", "broken"}
  /\ taken.chunks = 0 /\ requests.count < MaxRequests
  /\ requests' = [count |-> requests.count + 1, profile |-> NextProfile]
  /\ upstream' \in Opened
  /\ UNCHANGED <<taken, collected, chat, parserReaders, counted, managed, runtime>>

\* A chunk arrives, and every reader takes it; stream_runtime may be told to stop.
Take ==
  /\ upstream = "open" /\ taken.cost < MaxCost
  /\ \E raw \in RawChunks(taken.chunks + 1) :
       LET chunk == FromOpenAI(raw)
       IN  /\ taken' = [chunks |-> taken.chunks + 1, cost |-> taken.cost + Cost(chunk)]
           /\ taken'.cost <= MaxCost
           /\ upstream' = IF chunk.complete THEN "ended" ELSE "open"
           /\ Collect(chunk) /\ ChatReads(chunk) /\ Count(chunk)
           /\ ParserReads(chunk) /\ ManagerReads(chunk)
           /\ \/ RuntimeReads(chunk)
              \/ runtime.state = "reading" /\ RuntimeStops
  /\ UNCHANGED requests

\* The stream ends without a last chunk.
EndOfStream ==
  /\ upstream = "open"
  /\ upstream' = "ended"
  /\ LET p == Flush(parsed.parser)
     IN  /\ parsed' = [parsed EXCEPT !.parser = [p EXCEPT !.out = <<>>]]
         /\ WithParser(p.out) /\ Iterate(p.out) /\ ToUi(0, p.out, TRUE)
  /\ LET q == ManagerFlush(managed.manager)
     IN  managed' = [managed EXCEPT !.manager = q, !.shown = @ \o q.out]
  /\ runtime' = IF runtime.state # "reading" THEN runtime
                ELSE [runtime EXCEPT !.state = "completed",
                                     !.events = @ \o FinalEvents(runtime.answer.calls)]
  /\ UNCHANGED <<requests, taken, collected, chat, counted>>

\* The connection breaks, and every reader raises.
Breaks ==
  /\ upstream = "open" /\ taken.chunks > 0
  /\ upstream' = "broken"
  /\ runtime' = [runtime EXCEPT !.state = IF @ = "reading" THEN "failed" ELSE @]
  /\ UNCHANGED <<requests, taken, collected, chat, parserReaders, counted, managed>>

StreamNext == Request \/ Take \/ EndOfStream \/ Breaks
StreamSpec == StreamInit /\ [][StreamNext]_streamVars

-----------------------------------------------------------------------------
(* Properties                                                              *)

Whole(messages) == Concatenated([n \in 1..Len(messages) |-> messages[n].text])
PiecesAt(events, places) ==
  Concatenated([n \in 1..Len(events) |-> IF n \in places THEN events[n].piece ELSE <<>>])
Said(type) ==
  PiecesAt(runtime.events, {n \in 1..Len(runtime.events) : runtime.events[n].type = type})
Times(type, i) == {n \in 1..Len(runtime.events) :
                     runtime.events[n].type = type /\ runtime.events[n].index = i}

\* FunctionCallingOrchestrator: the name under which a call is remembered in the answer,
\* and that of its result.
CallName(call)   == IF call.given THEN <<"id", call.index>> ELSE <<"empty">>
ResultName(call) == IF call.given THEN <<"id", call.index>> ELSE <<"tool-call", call.index>>

\* A client that only follows stream_runtime's events has the answer: what the deltas say
\* is the message, in order; a call is announced once, before its arguments, and completed
\* once, behind them and with all of them; message_completed is the last event of a stream
\* that was read to its end and of no other, interrupt_ack that of one that was stopped.
\* The results then carry names of their own, and those of their calls where these have any.
EventsRebuildTheMessage ==
  LET answer == runtime.answer
      events == runtime.events
      last   == IF events = <<>> THEN "none" ELSE events[Len(events)].type
      list   == Aggregated(answer.calls)
  IN  /\ Said("content_delta") = answer.content
      /\ Said("reasoning_delta") = answer.thinking
      /\ \A i \in Indices :
           LET deltas    == Times("tool_call_argument_delta", i)
               begins    == Times("tool_call_started", i)
               completes == Times("tool_call_completed", i)
           IN  /\ Cardinality(begins) = IF i \in DOMAIN answer.calls THEN 1 ELSE 0
               /\ \A b \in begins, d \in deltas : b < d
               /\ deltas # {} => begins # {}
               /\ runtime.state = "completed" => Cardinality(completes) = Cardinality(begins)
               /\ \A c \in completes :
                    /\ \A n \in deltas \union begins : n < c
                    /\ events[c].piece = PiecesAt(events, deltas)
      /\ Cardinality({n \in 1..Len(events) : events[n].type = "message_completed"})
           = IF runtime.state = "completed" THEN 1 ELSE 0
      /\ (runtime.state = "completed") <=> (last = "message_completed")
      /\ (runtime.state = "interrupted") <=> (last = "interrupt_ack")
      /\ \A m, n \in 1..Len(list) : m # n => ResultName(list[m]) # ResultName(list[n])
      /\ \A n \in 1..Len(list) : list[n].given => ResultName(list[n]) = CallName(list[n])

\* Every way of reading the stream makes the same of it: the same text, calls and usage.
AnswersAgree ==
  /\ chat = collected
  /\ counted = collected.usage
  /\ runtime.state # "interrupted" => runtime.answer = collected

\* The three that parse return, yield and emit the same messages.  A block in the text and
\* the model's own thinking end up in one: what is neither shows that no character is
\* lost or moved.
OfModel(messages) ==
  Keeping(messages, {n \in 1..Len(messages) : messages[n].type \in {"content", "thinking"}})
ParsersAgree ==
  /\ OfModel(emitted) = iterated
  /\ returned = [content |-> Text(iterated, "content"), thinking |-> Text(iterated, "thinking")]
  /\ emitted[1] = Message("status", <<"thinking">>)
  /\ (upstream = "ended") <=> (emitted[Len(emitted)] = Message("status", <<"done">>))

\* The parsers keep every character in its place, whatever they take it for and however
\* the text is cut, also when their buffer overflows.
FromText(messages) ==
  Concatenated([n \in 1..Len(messages) |->
                  IF \A i \in 1..Len(messages[n].text) : messages[n].text[i] \in Characters
                  THEN messages[n].text ELSE <<>>])
NothingIsLost ==
  /\ FromText(iterated) \o parsed.parser.buffer = collected.content
  /\ Whole(managed.shown) \o managed.manager.buffer = collected.content
  /\ upstream = "ended" => parsed.parser.buffer = <<>> /\ managed.manager.buffer = <<>>

ReadersAgree == AnswersAgree /\ ParsersAgree /\ NothingIsLost

\* The start of a block never gets into what is shown as content, however the chunks cut
\* it, as long as the buffer has not overflown.
NoTag(shown) ==
  \A m, n \in 1..Len(shown) :
    (m <= n /\ \A k \in m..n : shown[k].type = "content") =>
      \A block \in Blocks : Places(block.start, Whole(SubSeq(shown, m, n))) = {}
BlocksAreNotContent ==
  /\ parsed.overflown \/ NoTag(iterated)
  /\ managed.overflown \/ NoTag(managed.shown)
=============================================================================
