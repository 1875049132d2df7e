------------------------- MODULE AnthropicDeframer --------------------------
(***************************************************************************)
(* Anthropic SSE frames in, canonical chunks out                           *)
(* (dialect/anthropic/deframe.rs).  A frame whose ev is "garbage" has data *)
(* that is not JSON, one whose ev is no event of the protocol ("ping") is  *)
(* skipped.                                                                *)
(***************************************************************************)
EXTENDS AnthropicWire, DeframeOut

(* blocks: the indices of the open blocks; pending: message_delta was seen *)
New == [blocks |-> {}, started |-> FALSE, pending |-> FALSE, done |-> FALSE]

map_stop_reason_inbound(reason) ==
  CASE reason = "max_tokens" -> "length"
    [] reason = "tool_use"   -> "tool_calls"
    [] OTHER                 -> "stop"

(* The prompt count surfaces at once, if the upstream reports one: a count *)
(* of 0 does, a preamble without a count (NoTokens) does not.              *)
message_start(d, f) ==
  IF d.started THEN Transport(d)
  ELSE SurfaceIf(f.usage.input # NoTokens, [d EXCEPT !.started = TRUE],
                 [EmptyChunk EXCEPT !.input_tokens = f.usage.input])

content_block_start(d, f) == Nothing([d EXCEPT !.blocks = @ \cup {f.index}])

(* Arguments surface under index 0: the id, the name and the index of the  *)
(* call stay behind in content_block_start.                                *)
Delta(f) ==
  CASE f.kind = "text_delta" -> [EmptyChunk EXCEPT !.delta_text = f.text]
    [] f.kind = "thinking_delta" ->
         [EmptyChunk EXCEPT !.thinking = [kind |-> "thinking", text |-> f.text]]
    [] f.kind = "signature_delta" ->
         [EmptyChunk EXCEPT !.thinking = [kind |-> "signature", text |-> f.text]]
    [] f.kind = "input_json_delta" ->
         [EmptyChunk EXCEPT !.has_calls = TRUE,
            !.calls = <<[index |-> 0, id |-> NoId, name |-> FALSE, args |-> f.text]>>]
    [] OTHER -> EmptyChunk

(* Mutant: deltas of any block are let through *)
content_block_delta_lax(d, f) == SurfaceIf(HasPayload(Delta(f)), d, Delta(f))

content_block_delta(d, f) ==
  IF f.index \notin d.blocks THEN Transport(d)
  ELSE SurfaceIf(HasPayload(Delta(f)), d, Delta(f))

content_block_stop(d, f) ==
  IF f.index \notin d.blocks THEN Transport(d)
  ELSE Nothing([d EXCEPT !.blocks = @ \ {f.index}])

(* Canonical usage is cache-inclusive: fresh + read + write *)
inclusive(w) ==
  [given |-> TRUE, input |-> w.input + w.cached_read + w.cache_write, output |-> w.output,
   cached_read |-> w.cached_read, cache_write |-> w.cache_write]

message_delta(d, f) ==
  IF d.pending THEN Transport(d)
  ELSE Surface([d EXCEPT !.pending = TRUE],
               [EmptyChunk EXCEPT !.finish = map_stop_reason_inbound(f.kind),
                                  !.usage = inclusive(f.usage)])

push(d, f) ==
  CASE d.done \/ f.ev = "garbage"      -> Transport(d)
    [] OTHER ->
       CASE f.ev = "message_start"       -> message_start(d, f)
         [] f.ev = "content_block_start" -> content_block_start(d, f)
         [] f.ev = "content_block_delta" -> content_block_delta(d, f)
         [] f.ev = "content_block_stop"  -> content_block_stop(d, f)
         [] f.ev = "message_delta"       -> message_delta(d, f)
         [] f.ev = "message_stop"        -> Nothing([d EXCEPT !.done = TRUE])
         [] f.ev = "error"               -> Upstream([d EXCEPT !.done = TRUE])
         [] OTHER                        -> Nothing(d)

(* TRUE for Ok: a stream that never started has nothing to close *)
finalize(d) == d.started => d.done
=============================================================================
