----------------------------- MODULE MCChatRelay -----------------------------
(* The chunks of a chat-completions turn *)
EXTENDS ChatRelay

CONSTANTS a, b

MCChar == {a, b}

U == [given |-> TRUE, input |-> 3, output |-> 1, cached_read |-> 1, cache_write |-> 0]

Call(q) == [EmptyChunk EXCEPT !.has_calls = TRUE, !.calls = q]

MCChunks ==
  {EmptyChunk, [EmptyChunk EXCEPT !.delta_text = <<a>>], [EmptyChunk EXCEPT !.input_tokens = 2],
   [EmptyChunk EXCEPT !.delta_text = <<b>>, !.usage = U],
   [EmptyChunk EXCEPT !.thinking = [kind |-> "signature", text |-> <<b>>]],
   Call(<<>>), Call(<<[index |-> 1, id |-> 1, name |-> TRUE, args |-> <<a>>]>>),
   [EmptyChunk EXCEPT !.finish = "stop", !.usage = U], [EmptyChunk EXCEPT !.usage = U]}
=============================================================================
