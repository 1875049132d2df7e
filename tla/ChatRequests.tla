----------------------------- MODULE ChatRequests -----------------------------
(***************************************************************************)
(* The chat-completions request: from_openai_chat (openai_chat/req.rs).    *)
(* What the client renders is the deflated request itself.                 *)
(***************************************************************************)
EXTENDS Items

Role(name) == IF name = "developer" THEN "system" ELSE name

(* The items of a content value: a bare null keeps an assistant turn alive *)
ContentItems(m) ==
  LET parts == Filter(m.content.parts, LAMBDA p : p.text # Null) IN
  CASE Is(m.content, "string") ->
         (IF m.content.text # <<>> \/ m.role = "assistant" THEN <<Text(m.content.text)>> ELSE <<>>)
    [] Is(m.content, "array") ->
         [k \in DOMAIN parts |-> IF parts[k].type = "text" THEN Text(parts[k].text)
                                 ELSE Refusal(parts[k].text)]
    [] OTHER -> (IF m.role = "assistant" /\ m.tool_calls = Null THEN <<Text(<<>>)>> ELSE <<>>)

SideCalls(m) == IF m.tool_calls = Null THEN <<>> ELSE m.tool_calls

parse_chat_message(m) ==
  LET thinking == IF m.reasoning_content \in {Null, <<>>} THEN <<>>
                  ELSE <<Thinking(m.reasoning_content, Null, Null, Null)>>
      calls == [k \in DOMAIN SideCalls(m) |->
                  ToolCall(SideCalls(m)[k].id, SideCalls(m)[k].name,
                           Decoded(SideCalls(m)[k].arguments))]
      result == ToolResult(m.tool_call_id,
                           IF Is(m.content, "array") THEN Str(Join(PartTexts(m.content.parts), <<NL>>))
                           ELSE m.content, FALSE)
  IN  [role |-> Role(m.role), cc |-> <<>>, name |-> m.name,
       items |-> IF m.role = "tool" THEN <<result>> ELSE thinking \o ContentItems(m) \o calls]

(* Calls named up to and including message i *)
Named(ms, i) == UNION {{tc.id : tc \in ToSet(SideCalls(ms[k]))} : k \in 1 .. i}

BadChatMessage(ms, i) ==
  LET m == ms[i] IN
  \/ Role(m.role) \notin Roles
  \/ m.content # Null /\ m.content.json \notin {"string", "array"}
  \/ /\ Is(m.content, "array")
     /\ \E p \in ToSet(m.content.parts) : p.type \notin {"text", "refusal"}
  \/ \E tc \in ToSet(SideCalls(m)) : tc.id = Null \/ tc.name = Null
  \/ m.role = "tool" /\ (m.content = Null \/ m.tool_call_id \notin Named(ms, i))

ChatExtras ==
  {"stream_options", "metadata", "user", "store", "presence_penalty", "frequency_penalty",
   "logit_bias", "logprobs", "top_logprobs", "seed", "n", "parallel_tool_calls", "service_tier"}

from_openai_chat(v) ==
  LET ms == Get(v, "messages")
      effort == Get(v, "reasoning_effort")
      tools == Get(v, "tools")
  IN  IF \/ Get(v, "model") = Null \/ ms = Null \/ ms = <<>>
         \/ \E i \in DOMAIN ms : BadChatMessage(ms, i)
      THEN BadRequest
      ELSE Validated(
        [model |-> v["model"], messages |-> [i \in DOMAIN ms |-> parse_chat_message(ms[i])],
         stream |-> Get(v, "stream") = TRUE,
         max_tokens |-> Cast(FirstOf(Get(v, "max_tokens"), Get(v, "max_completion_tokens"))),
         temperature |-> Get(v, "temperature"), top_p |-> Get(v, "top_p"),
         stop_sequences |-> StopList(Get(v, "stop")),
         tools |-> IF tools = Null THEN <<>> ELSE SelectSeq(tools, LAMBDA t : t.name # Null),
         tool_choice |-> Get(v, "tool_choice"),
         thinking |-> IF effort = Null THEN Null ELSE [budget_tokens |-> Null, effort |-> effort],
         response_format |-> Get(v, "response_format"),
         extra |-> Only(v, ChatExtras)])
=============================================================================
