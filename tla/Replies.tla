------------------------------- MODULE Replies -------------------------------
(***************************************************************************)
(* The reply to a request that is not streamed: the body each dialect      *)
(* makes of the engine's answer (anthropic/out.rs, openai_responses/out.rs *)
(* and ChatResponse itself), and what the client reads in it               *)
(* (the resp_in.rs of each).                                               *)
(***************************************************************************)
EXTENDS Items

(* An id of a tool call: the upstream's own, Anthropic's, or one minted    *)
(* from the id of the response                                             *)
CallId(kind, msg, slug) == [kind |-> kind, msg |-> msg, slug |-> slug]

(* Mutant: only what was read from the cache is taken off *)
Fresh_unwritten(u) == IF u.cached_read > u.input THEN 0 ELSE u.input - u.cached_read

(* Token counts as the canonical usage has them: input is cache-inclusive  *)
Fresh(u) == LET cached == u.cached_read + u.cache_write
            IN  IF cached > u.input THEN 0 ELSE u.input - cached

Orelse(x, otherwise) == IF x = Null THEN otherwise ELSE x

-----------------------------------------------------------------------------
(* The Anthropic body *)
map_stop_reason_outbound(fr) ==
  CASE fr = "stop" -> "end_turn"
    [] fr = "length" -> "max_tokens"
    [] fr = "tool_calls" -> "tool_use"
    [] fr = "content_filter" -> "refusal"
    [] fr \in {"max_tokens", "stop_sequence", "tool_use", "pause_turn", "refusal"} -> fr
    [] OTHER -> "end_turn"

anthropic_tool_use_id(id, msg, index) ==
  IF id = Null THEN CallId("minted", msg, ToString(index))
  ELSE IF id.kind = "toolu" THEN id
  ELSE CallId("minted", msg, id.slug)

ToolUse(tc, msg, index) ==
  [type |-> "tool_use", id |-> anthropic_tool_use_id(tc.id, msg, index), name |-> tc.name,
   input |-> IF Is(tc.arguments, "string") /\ tc.arguments.value # Garbled
             THEN tc.arguments.value ELSE "{}"]

response_from_canonical(r) ==
  LET calls == Orelse(r.tool_calls, <<>>) IN
  [content |-> Orelse(r.thinking_blocks, <<>>)
               \o (IF r.content = <<>> THEN <<>> ELSE <<[type |-> "text", text |-> r.content]>>)
               \o [k \in DOMAIN calls |-> ToolUse(calls[k], r.id, k - 1)],
   stop_reason |-> IF r.finish = Null THEN Null ELSE map_stop_reason_outbound(r.finish),
   stop_sequence |-> Null,
   usage |-> [input |-> Fresh(r.usage), output |-> r.usage.output,
              cached_read |-> r.usage.cached_read, cache_write |-> r.usage.cache_write]]

(* The words of a block that may end with a stop sequence *)
Field(b) == IF b.type \in {"text", "thinking"} THEN b[b.type] ELSE <<>>

CutShort(b, stop) ==
  IF IsSuffix(stop, Field(b))
  THEN [b EXCEPT ![b.type] = SubSeq(@, 1, Len(@) - Len(stop))] ELSE b

(* The sequence is cut off every block that ends with it, and a text left  *)
(* empty goes                                                              *)
strip_stop_from_blocks(blocks, stop) ==
  FlattenSeq([k \in DOMAIN blocks |->
    LET b == CutShort(blocks[k], stop)
    IN  IF b.type = "text" /\ b.text = <<>> THEN <<>> ELSE <<b>>])

(* Mutant: the sequence is cut off, but not reported *)
mark_stop_sequence_mute(out, stop) == [out EXCEPT !.stop_reason = "stop_sequence"]

mark_stop_sequence(out, stop) ==
  [out EXCEPT !.stop_sequence = stop, !.stop_reason = "stop_sequence"]

Echoes(out, stop) == \E b \in ToSet(out.content) : IsSuffix(stop, Field(b))

apply_stop_sequence_echo(out, r, stop_sequences) ==
  LET stops == Orelse(stop_sequences, <<>>)
      hits == {k \in DOMAIN stops : stops[k] # <<>> /\ Echoes(out, stops[k])}
      first == {k \in hits : \A j \in hits : k <= j}
  IN  IF r.finish # "stop" THEN out
      ELSE IF r.matched_stop # <<>> /\ r.matched_stop \in ToSet(stops)
           THEN mark_stop_sequence(out, r.matched_stop)
      ELSE IF first = {} THEN out
      ELSE LET s == stops[CHOOSE k \in first : TRUE]
           IN  mark_stop_sequence([out EXCEPT !.content = strip_stop_from_blocks(@, s)], s)

-----------------------------------------------------------------------------
(* The Responses body *)
Summary(t) == [type |-> "reasoning", summary |-> <<t>>, encrypted |-> Null]

ReasoningItems(r) ==
  LET blocks == Orelse(r.thinking_blocks, <<>>) IN
  FlattenSeq([k \in DOMAIN blocks |->
    IF blocks[k].type = "thinking" /\ blocks[k].thinking # <<>>
    THEN <<Summary(blocks[k].thinking)>> ELSE <<>>])
  \o (IF r.reasoning_content \in {Null, <<>>} THEN <<>> ELSE <<Summary(r.reasoning_content)>>)

responses_body_from_chat(r) ==
  LET calls == Orelse(r.tool_calls, <<>>) IN
  [output |-> ReasoningItems(r)
              \o (IF r.content = <<>> THEN <<>>
                  ELSE <<[type |-> "message", parts |-> <<[type |-> "output_text", text |-> r.content]>>]>>)
              \o [k \in DOMAIN calls |->
                    [type |-> "function_call", call_id |-> calls[k].id, name |-> calls[k].name,
                     arguments |-> IF Is(calls[k].arguments, "string")
                                   THEN calls[k].arguments ELSE Encoded("{}"),
                     id |-> CallId("fc", r.id, ToString(k))]],
   status |-> IF r.finish \in {"length", "content_filter"} THEN "incomplete" ELSE "completed",
   reason |-> CASE r.finish = "length" -> "max_output_tokens"
                [] r.finish = "content_filter" -> "content_filter"
                [] OTHER -> Null,
   usage |-> [input |-> r.usage.input, output |-> r.usage.output, reasoning |-> r.usage.reasoning]]

-----------------------------------------------------------------------------
(* Reading them *)
map_stop_reason_inbound(reason) ==
  CASE reason = "max_tokens" -> "length"
    [] reason = "tool_use" -> "tool_calls"
    [] OTHER -> "stop"

BlockItem(b) ==
  CASE b.type = "text" -> Text(b.text)
    [] b.type = "thinking" -> Thinking(b.thinking, b.signature, Null, Null)
    [] b.type = "redacted_thinking" -> Thinking(<<>>, Null, Null, b.data)
    [] b.type = "tool_use" -> ToolCall(b.id, b.name, IF b.input = "null" THEN "{}" ELSE b.input)

AnthropicReply(body) ==
  [message |-> Message("assistant", [k \in DOMAIN body.content |-> BlockItem(body.content[k])]),
   usage |-> [input |-> body.usage.input + body.usage.cached_read + body.usage.cache_write,
              output |-> body.usage.output, cached_read |-> body.usage.cached_read,
              cache_write |-> body.usage.cache_write, reasoning |-> Null],
   finish |-> IF body.stop_reason = Null THEN Null ELSE map_stop_reason_inbound(body.stop_reason),
   stop_sequence |-> body.stop_sequence]

OutputItems(o) ==
  CASE o.type = "message" ->
         [k \in DOMAIN o.parts |-> IF o.parts[k].type = "refusal" THEN Refusal(o.parts[k].text)
                                   ELSE Text(o.parts[k].text)]
    [] o.type = "function_call" ->
         <<ToolCall(IF o.call_id = Null THEN o.id ELSE o.call_id, o.name,
                    Decoded(o.arguments))>>
    [] o.type = "reasoning" -> <<Thinking(Join(o.summary, <<NL>>), Null, o.encrypted, Null)>>

ResponsesReply(body) ==
  LET items == FlattenSeq([k \in DOMAIN body.output |-> OutputItems(body.output[k])]) IN
  [message |-> Message("assistant", items),
   usage |-> [input |-> body.usage.input, output |-> body.usage.output,
              cached_read |-> 0, cache_write |-> 0, reasoning |-> body.usage.reasoning],
   finish |-> CASE body.status = "completed" ->
                     (IF CallIds(items) # {} THEN "tool_calls" ELSE "stop")
                [] body.reason = "max_output_tokens" -> "length"
                [] body.reason = "content_filter" -> "content_filter"
                [] OTHER -> "stop",
   stop_sequence |-> Null]

(* The chat body is the answer itself, less the count of reasoning tokens; *)
(* the caller makes a turn of it the way the request parser would          *)
ChatReply(body) ==
  [message |->
     Message("assistant",
       (IF body.reasoning_content \in {Null, <<>>} THEN <<>>
        ELSE <<Thinking(body.reasoning_content, Null, Null, Null)>>)
       \o (IF body.content = <<>> THEN <<>> ELSE <<Text(body.content)>>)
       \o [k \in DOMAIN Orelse(body.tool_calls, <<>>) |->
             ToolCall(body.tool_calls[k].id, body.tool_calls[k].name,
                      Decoded(body.tool_calls[k].arguments))]),
   usage |-> [body.usage EXCEPT !.reasoning = Null],
   finish |-> body.finish, stop_sequence |-> Null]

-----------------------------------------------------------------------------
ReplyBody(dialect, r, req) ==
  CASE dialect = "Anthropic" ->
         apply_stop_sequence_echo(response_from_canonical(r), r, req.stop_sequences)
    [] dialect = "OpenAiResponses" -> responses_body_from_chat(r)
    [] OTHER -> r

ReadReply(dialect, body) ==
  CASE dialect = "Anthropic" -> AnthropicReply(body)
    [] dialect = "OpenAiResponses" -> ResponsesReply(body)
    [] OTHER -> ChatReply(body)
=============================================================================
