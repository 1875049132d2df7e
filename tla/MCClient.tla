------------------------------ MODULE MCClient ------------------------------
(* Event alphabets for the client's stream *)
EXTENDS ClientContent

CONSTANTS a, b

MCChar == {a, b}

AllDialects == {"Anthropic", "OpenAiChat", "OpenAiResponses"}

Fresh(n) == [input |-> n, output |-> 1, cached_read |-> 1, cache_write |-> 0]

AnthropicEvents ==
  {Anthropic!MessageStart(2), Anthropic!MessageStart(0), Anthropic!MessageStart(NoTokens),
   Anthropic!BlockStart(0, "text"),
   Anthropic!BlockStart(1, "tool_use"), Anthropic!BlockDelta(0, "text_delta", <<a>>),
   Anthropic!BlockDelta(0, "thinking_delta", <<b>>),
   Anthropic!BlockDelta(1, "input_json_delta", <<b>>), Anthropic!BlockStop(0),
   Anthropic!MessageDelta("max_tokens", <<>>, Fresh(1)), Anthropic!MessageStop,
   Anthropic!ErrorFrame,
   Anthropic!Frame("ping", 0, "none", <<>>, Fresh(0)),
   Anthropic!Frame("garbage", 0, "none", <<>>, Fresh(0))}

Call(name) == [EmptyChunk EXCEPT !.has_calls = TRUE,
                 !.calls = <<[index |-> 1, id |-> 1, name |-> name, args |-> <<b>>]>>]

ChatEvents ==
  {Chat!RoleFrame, Chat!DeltaFrame([EmptyChunk EXCEPT !.delta_text = <<a>>]),
   Chat!DeltaFrame([Call(TRUE) EXCEPT !.delta_text = <<b>>]),
   Chat!DeltaFrame([EmptyChunk EXCEPT !.finish = "stop"]), Chat!DeltaFrame(EmptyChunk),
   Chat!UsageFrame([Chat!Absent EXCEPT !.given = TRUE, !.prompt = 2, !.cached = 1]),
   Chat!UsageFrame(Chat!Absent), Chat!DoneFrame, Chat!ErrorFrame,
   Chat!Frame("garbage", FALSE, FALSE, EmptyChunk, Chat!Absent)}

Unnumbered(f) == [f EXCEPT !.seq = -1]
Numbered(f, n) == [f EXCEPT !.seq = n]
R(ev, pos, text) == Responses!Frame(ev, pos, text)

(* A terminal event, whose name and the status it reports may differ *)
Ends(ev, status, reason) ==
  [Unnumbered(R(ev, 0, <<>>)) EXCEPT !.status = status, !.reason = reason]

ResponsesEvents ==
  {Numbered(R("created", 0, <<>>), 0),
   Unnumbered(Responses!Added(1, Responses!Item("message", NoId))),
   Unnumbered(Responses!Added(3, Responses!Item("function_call", 1))),
   Unnumbered(Responses!Added(2, Responses!Item("reasoning", NoId))),
   Unnumbered(Responses!Added(1, Responses!Item("function_call", 2))),
   Numbered(R("output_text.delta", 1, <<a>>), 1), Numbered(R("output_text.delta", 1, <<b>>), 2),
   Unnumbered(R("output_text.delta", 1, <<>>)),
   Unnumbered(R("reasoning_summary_text.delta", 2, <<b>>)),
   Unnumbered(R("function_call_arguments.delta", 3, <<a>>)),
   Numbered(R("output_item.done", 1, <<>>), 2),
   Ends("completed", "completed", "none"),
   Ends("incomplete", "incomplete", "max_output_tokens"),
   Ends("incomplete", "incomplete", "none"),
   Ends("completed", "incomplete", "content_filter"),
   Ends("incomplete", "completed", "max_tokens"),
   Unnumbered(R("failed", 0, <<>>)), Unnumbered(R("garbage", 0, <<>>))}

MCEvents ==
  [d \in AllDialects |->
     CASE d = "Anthropic"       -> AnthropicEvents
       [] d = "OpenAiChat"      -> ChatEvents
       [] d = "OpenAiResponses" -> ResponsesEvents]
=============================================================================
