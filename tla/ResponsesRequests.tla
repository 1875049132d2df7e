-------------------------- MODULE ResponsesRequests --------------------------
(***************************************************************************)
(* The OpenAI Responses request: to_openai_responses                       *)
(* (openai_responses/req_out.rs) and from_openai_responses                 *)
(* (openai_responses/req.rs).  The input is a string or a list of items.   *)
(***************************************************************************)
EXTENDS Items

ResponsesExtras ==
  {"store", "metadata", "service_tier", "truncation", "parallel_tool_calls", "stream_options",
   "previous_response_id", "conversation", "include", "user"}

MessageItem(role, parts) == [type |-> "message", role |-> role, content |-> Arr(parts)]

-----------------------------------------------------------------------------
(* Rendering *)

(* Only a string can be the output of a call, and null is an empty one *)
Outputable(content) == content = Null \/ Is(content, "string")

render_tool_result(it) ==
  [type |-> "function_call_output", call_id |-> it.tool_call_id,
   output |-> IF it.content = Null THEN Str(<<>>) ELSE it.content]

(* Signed and redacted thinking has no channel here *)
Flat(it) ==
  CASE it.type = "thinking" ->
         (IF it.redacted_data # Null \/ it.signature # Null THEN <<>>
          ELSE <<[type |-> "reasoning", encrypted |-> it.encrypted,
                  summary |-> IF it.text = <<>> THEN Null ELSE Lines(it.text)]>>)
    [] it.type = "tool_call" ->
         <<[type |-> "function_call", call_id |-> it.id, name |-> it.name,
            arguments |-> Encoded(it.arguments)]>>
    [] it.type = "tool_result" -> <<render_tool_result(it)>>
    [] OTHER -> <<>>

Part(role, it) ==
  [type |-> IF it.type = "refusal" THEN "refusal"
            ELSE IF role = "assistant" THEN "output_text" ELSE "input_text",
   text |-> it.text]

(* The calls, results and thinking of a message, then its texts as one     *)
(* message item                                                            *)
flatten_message(m) ==
  LET said == OfType(m.items, {"text", "refusal"})
      parts == [k \in DOMAIN said |-> Part(m.role, said[k])]
  IN  FlattenSeq([k \in DOMAIN m.items |-> Flat(m.items[k])])
      \o (IF parts = <<>> THEN <<>>
          ELSE <<MessageItem(IF m.role = "assistant" THEN "assistant" ELSE "user", parts)>>)

(* A lone user text is a plain string, and no item at all an empty message *)
InputOf(items) ==
  IF items = <<>> THEN Arr(<<MessageItem("user", <<>>)>>)
  ELSE IF /\ Len(items) = 1
          /\ items[1].type = "message" /\ items[1].role = "user"
          /\ Len(items[1].content.parts) = 1
          /\ items[1].content.parts[1].type = "input_text"
  THEN Str(items[1].content.parts[1].text)
  ELSE Arr(items)

to_openai_responses(req) ==
  LET spoken == Filter(req.messages, LAMBDA m : m.role # "system")
      system == SystemText(req.messages)
  IN  IF \/ ~Valid(req)
         \/ \E m \in ToSet(spoken) : \E it \in ToSet(m.items) :
               it.type = "tool_result" /\ ~Outputable(it.content)
      THEN BadRequest
      ELSE Ok(Merged(Present([
        model |-> req.model, stream |-> IF req.stream THEN TRUE ELSE Null,
        temperature |-> req.temperature, top_p |-> req.top_p,
        max_output_tokens |-> req.max_tokens,
        stop |-> IF req.stop_sequences \in {Null, <<>>} THEN Null ELSE Arr(req.stop_sequences),
        instructions |-> IF system = <<>> THEN Null ELSE system,
        input |-> InputOf(FlattenSeq([k \in DOMAIN spoken |-> flatten_message(spoken[k])])),
        tools |-> IF req.tools = <<>> THEN Null ELSE req.tools,
        tool_choice |-> req.tool_choice, format |-> req.response_format,
        reasoning |-> req.thinking]),
        Only(req.extra, ResponsesExtras)))

-----------------------------------------------------------------------------
(* Parsing *)
CallsNamed(input, k) ==
  {it.call_id : it \in {x \in ToSet(SubSeq(input, 1, k - 1)) : x.type = "function_call"}}

BadOutput(output) ==
  \/ output = Null
  \/ output.json \notin {"string", "array"}
  \/ Is(output, "array") /\ \E p \in ToSet(output.parts) : p.type # "input_text"

BadItem(input, k) ==
  LET it == input[k] IN
  CASE it.type = "message" ->
         \/ it.role \notin {"user", "assistant", "system", "developer"}
         \/ it.content # Null /\ it.content.json \notin {"string", "array"}
         \/ /\ Is(it.content, "array")
            /\ \E p \in ToSet(it.content.parts) :
                  p.type \notin {"input_text", "output_text", "refusal"}
    [] it.type = "function_call" -> it.name = Null \/ it.call_id = Null
    [] it.type = "function_call_output" ->
         it.call_id \notin CallsNamed(input, k) \/ BadOutput(it.output)
    [] OTHER -> it.type # "reasoning"

PartItems(content) ==
  LET parts == Filter(content.parts, LAMBDA p : p.text # Null) IN
  CASE Is(content, "string") -> <<Text(content.text)>>
    [] Is(content, "array") ->
         [k \in DOMAIN parts |-> IF parts[k].type = "refusal" THEN Refusal(parts[k].text)
                                 ELSE Text(parts[k].text)]
    [] OTHER -> <<>>

(* Every item is a message of its own; empty ones are dropped *)
parse_item(it) ==
  LET role == IF it.role = "developer" THEN "system" ELSE it.role
      summary == IF it.summary = Null THEN <<>> ELSE Join(it.summary, <<NL>>)
      output == IF Is(it.output, "array") THEN Str(Join(PartTexts(it.output.parts), <<NL>>))
                ELSE it.output
  IN  CASE it.type = "message" ->
             (IF PartItems(it.content) = <<>> /\ role # "system" THEN <<>>
              ELSE <<Message(role, PartItems(it.content))>>)
        [] it.type = "function_call" ->
             <<Message("assistant", <<ToolCall(it.call_id, it.name, Decoded(it.arguments))>>)>>
        [] it.type = "function_call_output" ->
             <<Message("tool", <<ToolResult(it.call_id, output, FALSE)>>)>>
        [] it.type = "reasoning" ->
             (IF it.encrypted = Null /\ summary = <<>> THEN <<>>
              ELSE <<Message("assistant", <<Thinking(summary, Null, it.encrypted, Null)>>)>>)

(* unwrap_or(u32::MAX): the budget is clamped where the cap is cast *)
Clamp(n) == IF n # Null /\ n >= U32 THEN U32 - 1 ELSE n

from_openai_responses(v) ==
  LET input == Get(v, "input")
      items == IF Is(input, "array") THEN input.parts ELSE <<>>
      system == Get(v, "instructions")
      tools == Get(v, "tools")
      th == Get(v, "reasoning")
      cap == FirstOf(Get(v, "max_output_tokens"), Get(v, "max_tokens"))
      messages ==
        (IF system \in {Null, <<>>} THEN <<>> ELSE <<Message("system", <<Text(system)>>)>>)
        \o (IF Is(input, "string") THEN <<Message("user", <<Text(input.text)>>)>>
            ELSE FlattenSeq([k \in DOMAIN items |-> parse_item(items[k])]))
  IN  IF \/ Get(v, "model") = Null \/ input = Null
         \/ \E k \in DOMAIN items : BadItem(items, k)
         \/ messages = <<>>
      THEN BadRequest
      ELSE Validated(
        [model |-> v["model"], messages |-> messages, stream |-> Get(v, "stream") = TRUE,
         max_tokens |-> Cast(cap),
         temperature |-> Get(v, "temperature"), top_p |-> Get(v, "top_p"),
         stop_sequences |-> StopList(Get(v, "stop")),
         tools |-> IF tools = Null THEN <<>> ELSE SelectSeq(tools, LAMBDA t : t.name # Null),
         tool_choice |-> Get(v, "tool_choice"),
         thinking |-> IF th = Null THEN Null
                      ELSE [budget_tokens |-> Clamp(th.budget_tokens), effort |-> th.effort],
         response_format |-> Get(v, "format"),
         extra |-> Only(v, ResponsesExtras \cup {"background"})])
=============================================================================
