------------------------------ MODULE Translate ------------------------------
(***************************************************************************)
(* The translation of claude's events into OpenAI chunks (internal/        *)
(* translate), inside the loop of streamChat, and NonStreamingResponse as  *)
(* a function of the same events.                                          *)
(*                                                                         *)
(* Text is a sequence of pieces, numbered as claude says them.  Of what    *)
(* else a chunk shows only its kind is kept.  claude itself is external:   *)
(* with --include-partial-messages it sends the pieces of a text block in  *)
(* deltas and then the block in an assistant event; a block may also come  *)
(* without deltas.                                                         *)
(***************************************************************************)
EXTENDS Naturals, FiniteSets, Sequences, SequencesExt

CONSTANT MaxEvents  \* bound: the events of one stream

ASSUME TranslateAssumption == MaxEvents \in Nat

VARIABLES
  tr,          \* the Translator
  at,          \* streamChat: "streaming", "left" (client gone) or "done" ([DONE] sent)
  events,      \* the events received, which bufferedChat keeps
  out,         \* the chunks written
  stage,       \* claude: "talking", "finished" (result sent), "exiting" or "ended"
  said,        \* the number of pieces claude has said
  block,       \* pieces sent in deltas whose block is not complete
  unannounced  \* history: a block came without deltas after others with them

claudeVars == <<stage, said, block, unannounced>>
vars == <<tr, at, events, out, claudeVars>>

Verbosities == {"text-only", "verbose", "narrated"}

Init ==
  /\ tr \in [verbosity : Verbosities, roleEmitted : {FALSE}, partialTextSeen : {FALSE},
             toolCallIndex : {0}]
  /\ at = "streaming"
  /\ events = <<>> /\ out = <<>>
  /\ stage = "talking" /\ said = 0 /\ block = <<>> /\ unannounced = FALSE

-----------------------------------------------------------------------------
(* Events: what parseLine makes of a line, and the reader's own.           *)

Item(kind, text) == [kind |-> kind, text |-> text]

StreamEvent(text) == [type |-> "stream_event", text |-> text]
Assistant(content) == [type |-> "assistant", content |-> content]
User(results) == [type |-> "user", results |-> results]
Result(stop, usage, text) ==
  [type |-> "result", stop |-> stop, usage |-> usage, text |-> text]
StreamError == [type |-> "stream_error"]
Other == [type |-> "other"]

StopReasons == {"end_turn", "max_tokens", "tool_use", "refusal"}

\* The result's own text, which need not be one of the pieces.
Summary == <<0>>

-----------------------------------------------------------------------------
(* EventToChunks.                                                          *)

\* Mutant: the stop reason is passed on.
MapNothing(stop) == stop

MapStopReason(stop) ==
  CASE stop = "max_tokens" -> "length"
    [] stop = "tool_use" -> "tool_calls"
    [] OTHER -> "stop"

\* The text of items, or of chunks.
ContentText(content) ==
  FlattenSeq([i \in DOMAIN content |->
                IF content[i].kind = "text" THEN content[i].text ELSE <<>>])

\* assistantText: one chunk for all the text.
AssistantText(t, content) ==
  LET text == ContentText(content)
  IN IF t.partialTextSeen \/ text = <<>> THEN <<>> ELSE <<Item("text", text)>>

\* assistantVerbose and assistantNarrated: a chunk for every item that shows.
Shows(t, item) ==
  CASE item.kind = "text" -> item.text # <<>> /\ ~t.partialTextSeen
    [] item.kind = "tool_use" -> TRUE
    [] item.kind = "thinking" -> t.verbosity = "verbose" /\ item.text # <<>>

AssistantItems(t, content) ==
  FlattenSeq([i \in DOMAIN content |-> IF Shows(t, content[i]) THEN <<content[i]>> ELSE <<>>])

\* What of an event becomes content: streamDelta, assistant..., user...
Bodies(t, ev) ==
  CASE ev.type = "stream_event" /\ ev.text # <<>> -> <<Item("text", ev.text)>>
    [] ev.type = "assistant" /\ t.verbosity = "text-only" -> AssistantText(t, ev.content)
    [] ev.type = "assistant" /\ t.verbosity # "text-only" -> AssistantItems(t, ev.content)
    [] ev.type = "user" /\ t.verbosity # "text-only" ->
         [i \in 1..ev.results |-> Item("tool_result", <<>>)]
    [] OTHER -> <<>>

\* The finish reason of a chunk without content.
Finish(t, ev) ==
  IF ev.type = "stream_error" THEN "error"
  ELSE LET finish == MapStopReason(ev.stop)
       IN IF t.verbosity = "verbose" /\ t.toolCallIndex > 0 /\ finish = "stop"
            THEN "tool_calls" ELSE finish

\* terminalChunk, and its like in verbose.
TerminalChunk(t, ev) ==
  [role |-> FALSE, kind |-> "end", text |-> <<>>, finish |-> Finish(t, ev),
   usage |-> ev.type = "result" /\ ev.usage]

EventToChunks(t, ev) ==
  IF ev.type \in {"result", "stream_error"} THEN <<TerminalChunk(t, ev)>>
  ELSE LET bodies == Bodies(t, ev)
       IN [i \in DOMAIN bodies |->
             [role |-> i = 1 /\ ~t.roleEmitted, kind |-> bodies[i].kind,
              text |-> bodies[i].text, finish |-> "none", usage |-> FALSE]]

RoleEmitted(t, ev) == t.roleEmitted \/ Bodies(t, ev) # <<>>

\* Mutants: the flag is not set; it is set by deltas of other kinds too.
PartialNeverSeen(t, ev) == FALSE
AnyPartialSeen(t, ev) == t.partialTextSeen \/ ev.type = "stream_event"

PartialTextSeen(t, ev) ==
  t.partialTextSeen \/ (ev.type = "stream_event" /\ ev.text # <<>>)

ToolCallIndex(t, ev) ==
  IF t.verbosity = "verbose" /\ ev.type = "assistant"
    THEN t.toolCallIndex + Cardinality({i \in DOMAIN ev.content : ev.content[i].kind = "tool_use"})
    ELSE t.toolCallIndex

\* The Translator after an event.
Translated(t, ev) ==
  [verbosity |-> t.verbosity, roleEmitted |-> RoleEmitted(t, ev),
   partialTextSeen |-> PartialTextSeen(t, ev), toolCallIndex |-> ToolCallIndex(t, ev)]

-----------------------------------------------------------------------------
(* NonStreamingResponse.                                                   *)

Has(evs, type) == \E ev \in ToSet(evs) : ev.type = type

LastOf(evs, type) == evs[SelectLastInSeq(evs, LAMBDA ev : ev.type = type)]

\* Mutant: every message replaces the text of the one before.
LastMessageText(evs) ==
  IF Has(evs, "assistant") THEN ContentText(LastOf(evs, "assistant").content) ELSE <<>>

AggregatedText(evs) ==
  FlattenSeq([i \in DOMAIN evs |->
                IF evs[i].type = "assistant" THEN ContentText(evs[i].content) ELSE <<>>])

\* Mutant: an error counts only if there is no result.
ResultFirst(evs) ==
  IF Has(evs, "result") THEN MapStopReason(LastOf(evs, "result").stop)
  ELSE IF Has(evs, "stream_error") THEN "error" ELSE "stop"

\* The messages of the reader's errors are not empty.
AggregatedFinish(evs) ==
  IF Has(evs, "stream_error") THEN "error"
  ELSE IF Has(evs, "result") THEN MapStopReason(LastOf(evs, "result").stop) ELSE "stop"

NonStreamingResponse(evs) ==
  LET text == AggregatedText(evs)
      finish == AggregatedFinish(evs)
  IN [finish |-> finish,
      text   |-> IF finish # "error" /\ Has(evs, "result") /\ text = <<>>
                   THEN LastOf(evs, "result").text ELSE text,
      usage  |-> Has(evs, "result") /\ LastOf(evs, "result").usage]

-----------------------------------------------------------------------------
(* streamChat.                                                             *)

\* An event comes: translated, and its chunks written, all or up to the one
\* that WriteChunk fails on.  (captureSessionID is InitEvent of Session; the
\* usage that is recorded is not read by the request.)
Receive(ev) ==
  /\ at = "streaming"
  /\ Len(events) < MaxEvents
  /\ events' = Append(events, ev)
  /\ tr' = Translated(tr, ev)
  /\ LET chunks == EventToChunks(tr, ev)
     IN \/ out' = out \o chunks /\ UNCHANGED at
        \/ /\ \E n \in 1..Len(chunks) : out' = out \o SubSeq(chunks, 1, n - 1)
           /\ at' = "left"

\* r.Context() is done.
Disconnect ==
  /\ at = "streaming"
  /\ at' = "left"
  /\ UNCHANGED <<tr, events, out, claudeVars>>

\* The channel is closed: WriteDone.
ChannelClosed ==
  /\ at = "streaming" /\ stage = "ended"
  /\ at' = "done"
  /\ UNCHANGED <<tr, events, out, claudeVars>>

-----------------------------------------------------------------------------
(* claude and the reader of its output.                                    *)

TextDelta ==
  /\ stage = "talking"
  /\ said' = said + 1 /\ block' = Append(block, said + 1)
  /\ Receive(StreamEvent(<<said + 1>>))
  /\ UNCHANGED <<stage, unannounced>>

\* Input of a tool, thinking, or the frame of a message.
OtherDelta ==
  /\ stage = "talking"
  /\ Receive(StreamEvent(<<>>))
  /\ UNCHANGED claudeVars

\* The block that the deltas were of, perhaps with a tool call.
BlockComplete(items) ==
  /\ stage = "talking" /\ block # <<>>
  /\ block' = <<>>
  /\ Receive(Assistant(<<Item("text", block)>> \o items))
  /\ UNCHANGED <<stage, said, unannounced>>

\* A block of which no deltas came, perhaps after a tool call; an empty one
\* beside it.
BlockWhole(items) ==
  /\ stage = "talking" /\ block = <<>>
  /\ said' = said + 1
  /\ unannounced' = (unannounced \/ \E ev \in ToSet(events) : ev.type = "stream_event" /\ ev.text # <<>>)
  /\ Receive(Assistant(items \o <<Item("text", <<said + 1>>), Item("text", <<>>)>>))
  /\ UNCHANGED <<stage, block>>

WithoutText(items) ==
  /\ stage = "talking"
  /\ Receive(Assistant(items))
  /\ UNCHANGED claudeVars

ToolResult ==
  /\ stage = "talking"
  /\ Receive(User(2))
  /\ UNCHANGED claudeVars

\* system, rate_limit_event, user without tool results, and what parseLine
\* does not know.
OtherEvent ==
  /\ stage = "talking"
  /\ Receive(Other)
  /\ UNCHANGED claudeVars

\* A line that does not parse: a text delta, a complete block, one of which no
\* deltas came, or anything else.  What it said is not in the events.
Malformed ==
  /\ stage = "talking"
  /\ \/ said' = said + 1 /\ block' = Append(block, said + 1)
     \/ said' = said + 1 /\ block = <<>> /\ UNCHANGED block
     \/ block' \in {block, <<>>} /\ UNCHANGED said
  /\ Receive(StreamError)
  /\ UNCHANGED <<stage, unannounced>>

Finished ==
  /\ stage = "talking"
  /\ stage' = "finished"
  /\ \E stop \in StopReasons, usage \in BOOLEAN : Receive(Result(stop, usage, Summary))
  /\ UNCHANGED <<said, block, unannounced>>

ReadFails ==
  /\ stage \in {"talking", "finished"}
  /\ stage' = "exiting"
  /\ Receive(StreamError)
  /\ UNCHANGED <<said, block, unannounced>>

ExitFails ==
  /\ stage # "ended"
  /\ stage' = "ended"
  /\ Receive(StreamError)
  /\ UNCHANGED <<said, block, unannounced>>

ExitSucceeds ==
  /\ stage # "ended"
  /\ stage' = "ended"
  /\ UNCHANGED <<tr, at, events, out, said, block, unannounced>>

-----------------------------------------------------------------------------

Tool == Item("tool_use", <<>>)

Claude ==
  \/ TextDelta \/ OtherDelta
  \/ \E items \in {<<>>, <<Tool>>} : BlockComplete(items) \/ BlockWhole(items)
  \/ WithoutText(<<Item("thinking", <<0>>), Item("thinking", <<>>), Tool, Tool>>)
  \/ ToolResult \/ OtherEvent
  \/ Malformed \/ Finished \/ ReadFails \/ ExitFails \/ ExitSucceeds

\* The handler has returned.
Over == at # "streaming" /\ UNCHANGED vars

Next == Claude \/ Disconnect \/ ChannelClosed \/ Over

Spec == Init /\ [][Next]_vars

-----------------------------------------------------------------------------
(* What must hold.                                                         *)

\* The chunks are well-formed: content has no finish reason, and a finish
\* reason is one that OpenAI's clients know, or "error".
TypeOK ==
  /\ tr \in [verbosity : Verbosities, roleEmitted : BOOLEAN, partialTextSeen : BOOLEAN,
             toolCallIndex : Nat]
  /\ at \in {"streaming", "left", "done"}
  /\ stage \in {"talking", "finished", "exiting", "ended"}
  /\ Len(events) <= MaxEvents
  /\ said \in Nat /\ unannounced \in BOOLEAN
  /\ \A c \in ToSet(out) :
       IF c.kind = "end" THEN c.finish \in {"stop", "length", "tool_calls", "error"}
                         ELSE c.finish = "none" /\ ~c.usage

StreamedText == ContentText(out)

\* No piece of text reaches the client twice or out of order, although claude
\* says most of it twice, in deltas and in the message they add up to.
TextOnce == IsSorted(StreamedText, <)

\* No piece is lost in silence on a client that stays: without an error in the
\* stream it gets them all, as long as claude does not send a block without
\* deltas after others with them.  partialTextSeen is never reset, and the text
\* of such a block is suppressed; so is, in the block's assistant event, that of
\* a delta that did not parse, but then the client is told (EndAgrees).
TextComplete ==
  (at # "left" /\ ~unannounced /\ ~Has(events, "stream_error")) =>
    StreamedText = [i \in 1..said |-> i]

\* If nothing went wrong, the client that does not stream gets the text that the
\* streaming one got, less a block that is not complete; only where there was
\* no text does it get the result's own.
BufferedAgrees ==
  (at = "done" /\ ~unannounced /\ ~Has(events, "stream_error")) =>
    LET text == NonStreamingResponse(events).text
    IN /\ ToSet(text) \subseteq ToSet(StreamedText) \cup ToSet(Summary)
       /\ block = <<>> => text = StreamedText \/ StreamedText = <<>>

\* Both clients see the stream end alike: an error if and only if there was
\* one, the same finish reason otherwise (but for the tool_calls of verbose),
\* and the usage.  A stream without result or error has no terminal chunk.
EndAgrees ==
  at = "done" =>
    LET resp == NonStreamingResponse(events)
        finishes == {c.finish : c \in ToSet(out)} \ {"none"}
    IN /\ resp.finish = "error" <=> "error" \in finishes
       /\ (resp.finish # "error" /\ finishes # {}) =>
            \/ finishes = {resp.finish}
            \/ tr.toolCallIndex > 0 /\ resp.finish = "stop" /\ finishes = {"tool_calls"}
       /\ resp.usage <=> \E c \in ToSet(out) : c.usage

=============================================================================
