-------------------------- MODULE AnthropicRequests --------------------------
(***************************************************************************)
(* The Anthropic Messages request: to_anthropic (anthropic/req_out.rs) and *)
(* from_anthropic (anthropic/req.rs).  A block's cc is its cache_control   *)
(* marker.  Temperatures are in tenths.                                    *)
(***************************************************************************)
EXTENDS Items

DefaultMaxTokens == 4096
MinBudget == 1024

Passthrough == {"container", "mcp_servers", "service_tier", "top_k", "cache_control"}

-----------------------------------------------------------------------------
(* Rendering *)

(* to_string of a JSON value that is not a string: one word, which stands  *)
(* for the value with its keys and quotes                                  *)
JsonText(content) == <<ToString(content)>>

(* The block of an item; unsigned thinking and refusals have none *)
Renderable(it) ==
  /\ it.type # "refusal"
  /\ it.type = "thinking" => it.redacted_data # Null \/ it.signature # Null

Block(it, cc) ==
  CASE it.type = "text" -> [type |-> "text", text |-> it.text, cc |-> cc]
    [] it.type = "thinking" /\ it.redacted_data # Null ->
         [type |-> "redacted_thinking", data |-> it.redacted_data, cc |-> cc]
    [] it.type = "thinking" /\ it.redacted_data = Null ->
         [type |-> "thinking", thinking |-> it.text, signature |-> it.signature, cc |-> cc]
    [] it.type = "tool_call" ->
         [type |-> "tool_use", id |-> it.id, name |-> it.name, input |-> it.arguments, cc |-> cc]
    [] it.type = "tool_result" ->
         [type |-> "tool_result", tool_use_id |-> it.tool_call_id, is_error |-> it.is_error,
          content |-> IF Is(it.content, "string") THEN it.content ELSE Str(JsonText(it.content)),
          cc |-> cc]

Marker(m, i) == IF i \in DOMAIN m.cc THEN m.cc[i] ELSE Null

(* Mutant: markers are counted with the blocks, not with the items *)
Blocks_compact(m) ==
  LET items == SelectSeq(m.items, Renderable)
  IN  [i \in DOMAIN items |-> Block(items[i], Marker(m, i))]

Blocks(m) ==
  FlattenSeq([i \in DOMAIN m.items |->
    IF Renderable(m.items[i]) THEN <<Block(m.items[i], Marker(m, i))>> ELSE <<>>])

(* Mutant: whatever follows a first text is forgotten *)
Shorthand_leading(m) == m.items[1].type = "text" /\ m.cc = <<>> /\ m.name = Null

(* A lone text without markers is a plain string *)
Shorthand(m) ==
  Len(m.items) = 1 /\ m.items[1].type = "text" /\ m.cc = <<>> /\ m.name = Null

render_message(m) ==
  [role |-> m.role, content |-> IF Shorthand(m) THEN Str(m.items[1].text) ELSE Arr(Blocks(m))]

render_system(req) ==
  LET text == SystemText(req.messages) IN
  IF "_sys_blocks" \in DOMAIN req.extra THEN req.extra["_sys_blocks"]
  ELSE IF text = <<>> THEN Null ELSE Str(text)

ThinkingObject(th) ==
  [json |-> "object", type |-> "enabled", budget_tokens |-> th.budget_tokens, effort |-> th.effort]

to_anthropic(req) ==
  LET spoken == Filter(req.messages, LAMBDA m : m.role # "system") IN
  IF ~Valid(req) \/ (\E m \in ToSet(spoken) : m.role = "tool") THEN BadRequest
  ELSE Ok(Merged(Present([
    model |-> req.model,
    max_tokens |-> IF req.max_tokens = Null THEN DefaultMaxTokens ELSE req.max_tokens,
    stream |-> IF req.stream THEN TRUE ELSE Null,
    temperature |-> req.temperature, top_p |-> req.top_p,
    stop_sequences |-> IF req.stop_sequences = <<>> THEN Null ELSE req.stop_sequences,
    system |-> render_system(req),
    messages |-> [k \in DOMAIN spoken |-> render_message(spoken[k])],
    tools |-> IF req.tools = <<>> THEN Null ELSE req.tools,
    tool_choice |-> IF Is(req.tool_choice, "auto") THEN Null ELSE req.tool_choice,
    response_format |-> req.response_format,
    thinking |-> IF "thinking" \in DOMAIN req.extra THEN req.extra["thinking"]
                 ELSE IF req.thinking = Null THEN Null ELSE ThinkingObject(req.thinking),
    user_id |-> IF Is(Get(req.extra, "user"), "string") THEN req.extra["user"] ELSE Null]),
    Only(req.extra, Passthrough)))

-----------------------------------------------------------------------------
(* Parsing *)

(* String or text blocks, joined; anything else says nothing *)
PlainText(content) ==
  IF Is(content, "string") THEN content.text
  ELSE IF Is(content, "array")
  THEN Join(PartTexts(SelectSeq(content.parts, LAMBDA b : b.type = "text")), <<NL>>)
  ELSE <<>>

SystemTurn(content) ==
  IF PlainText(content) = <<>> THEN <<>>
  ELSE <<Message("system", <<Text(PlainText(content))>>)>>

BlocksOf(m) == IF Is(m.content, "array") THEN m.content.parts ELSE <<>>

(* Mutant: the ids are forgotten with every message *)
Registered_locally(ms, i, j) ==
  {b.id : b \in {x \in ToSet(SubSeq(BlocksOf(ms[i]), 1, j - 1)) : x.type = "tool_use"}}

(* tool_use ids the parser has met before block j of message i *)
Registered(ms, i, j) ==
  LET before == FlattenSeq([k \in 1 .. i - 1 |->
                              IF ms[k].role = "system" THEN <<>> ELSE BlocksOf(ms[k])])
                \o SubSeq(BlocksOf(ms[i]), 1, j - 1)
  IN  {b.id : b \in {x \in ToSet(before) : x.type = "tool_use"}}

BadBlock(ms, i, j) ==
  LET b == BlocksOf(ms[i])[j] IN
  CASE b.type \in {"thinking", "redacted_thinking"} -> ms[i].role = "user"
    [] b.type = "tool_use" -> ms[i].role # "assistant" \/ b.id = Null \/ b.name = Null
    [] b.type = "tool_result" ->
         \/ b.tool_use_id \notin Registered(ms, i, j)
         \/ /\ Is(b.content, "array")
            /\ \E p \in ToSet(b.content.parts) : p.type \in {"image", "document"}
    [] OTHER -> b.type \in {"image", "document"}

BadMessage(ms, i) ==
  LET m == ms[i] IN
  /\ m.role # "system"
  /\ \/ m.role \notin {"user", "assistant"}
     \/ m.content # Null /\ m.content.json \notin {"string", "array"}
     \/ m.role = "user" /\ (m.content = Null \/ m.content = Arr(<<>>))
     \/ \E j \in DOMAIN BlocksOf(m) : BadBlock(ms, i, j)

(* The budget of a thinking object, if it is a number *)
BudgetOf(v) == IF Is(Get(v, "thinking"), "object") THEN v["thinking"].budget_tokens ELSE Null

BadSettings(v) ==
  LET cap == Get(v, "max_tokens") IN
  \/ Get(v, "model") = Null
  \/ cap # Null /\ cap \notin 1 .. U32 - 1
  \/ \E k \in {"temperature", "top_p"} : Get(v, k) # Null /\ v[k] \notin 0 .. 10
  \/ /\ BudgetOf(v) # Null
     /\ \/ BudgetOf(v) \notin MinBudget .. U32 - 1
        \/ cap # Null /\ BudgetOf(v) >= cap

(* The item of a block; unknown types and texts without a text are dropped *)
Kept(b) ==
  \/ b.type \in {"thinking", "redacted_thinking", "tool_use", "tool_result"}
  \/ b.type = "text" /\ b.text # Null

ItemOf(b) ==
  CASE b.type = "text" -> Text(b.text)
    [] b.type = "redacted_thinking" -> Thinking(<<>>, Null, Null, b.data)
    [] b.type = "thinking" -> Thinking(b.thinking, b.signature, Null, Null)
    [] b.type = "tool_use" -> ToolCall(b.id, b.name, b.input)
    [] b.type = "tool_result" -> ToolResult(b.tool_use_id, Str(PlainText(b.content)), b.is_error)

parse_message(m) ==
  LET blocks == Filter(BlocksOf(m), Kept)
      cc == [k \in DOMAIN blocks |-> blocks[k].cc]
      items == IF Is(m.content, "string") THEN <<Text(m.content.text)>>
               ELSE [k \in DOMAIN blocks |-> ItemOf(blocks[k])]
  IN  IF m.role = "system" THEN SystemTurn(m.content)
      ELSE <<[role |-> m.role, name |-> Null,
              items |-> IF items = <<>> THEN <<Text(<<>>)>> ELSE items,
              cc |-> IF ToSet(cc) \subseteq {Null} THEN <<>> ELSE cc]>>

(* Which keys of the body become extras *)
ParsedExtra(v) ==
  LET system == Get(v, "system")
      cached == Is(system, "array") /\ \E b \in ToSet(system.parts) : b.cc # Null
  IN  Only(v, Passthrough \cup {"thinking"})
      @@ Present([user |-> Get(v, "user_id"),
                  parallel_tool_calls |-> IF Get(v, "disable_parallel") = TRUE THEN FALSE ELSE Null])
      @@ (IF cached THEN "_sys_blocks" :> system ELSE <<>>)

(* Objects without a type; the others are the server's own, or no tools *)
Untyped(tools) == SelectSeq(FirstOf(tools, <<>>), LAMBDA t : t # Null /\ Get(t, "type") = Null)

(* The keys of a tool's map are indexed, which panics where one is missing; *)
(* the schema is looked at only if the name is a string                     *)
Indexable(t) == "name" \in DOMAIN t /\ (t.name # Null => "input_schema" \in DOMAIN t)

ClientTools(tools) ==
  LET named == SelectSeq(Untyped(tools), LAMBDA t : t.name # Null)
  IN  [k \in DOMAIN named |->
         [name |-> named[k].name, description |-> Get(named[k], "description"),
          input_schema |-> FirstOf(named[k].input_schema, "{}"), type |-> Null]]

from_anthropic(v) ==
  LET ms == Get(v, "messages")
      th == Get(v, "thinking")
      choice == Get(v, "tool_choice")
      stops == Get(v, "stop_sequences")
      system == Get(v, "system")
      messages == SystemTurn(system) \o FlattenSeq([i \in DOMAIN ms |-> parse_message(ms[i])])
  IN  IF \/ BadSettings(v) \/ ms = Null \/ ms = <<>>
         \/ \E i \in DOMAIN ms : BadMessage(ms, i)
         \/ messages = <<>>
      THEN BadRequest
      ELSE IF \E t \in ToSet(Untyped(Get(v, "tools"))) : ~Indexable(t) THEN Panic
      ELSE Validated(
        [model |-> v["model"], messages |-> messages, stream |-> Get(v, "stream") = TRUE,
         max_tokens |-> Get(v, "max_tokens"),
         temperature |-> Get(v, "temperature"), top_p |-> Get(v, "top_p"),
         stop_sequences |-> IF stops = <<>> THEN Null ELSE stops,
         tools |-> ClientTools(Get(v, "tools")),
         tool_choice |-> IF choice = Null \/ Is(choice, "auto") THEN Null ELSE choice,
         thinking |-> IF Is(th, "object")
                      THEN [budget_tokens |-> th.budget_tokens, effort |-> th.effort] ELSE Null,
         response_format |-> Get(v, "response_format"),
         extra |-> ParsedExtra(v)])

(* The /v1/messages handler's own check, which count_tokens does without *)
require_max_tokens(req) == IF req.max_tokens = Null THEN BadRequest ELSE Ok(req)
=============================================================================
