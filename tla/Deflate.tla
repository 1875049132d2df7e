------------------------------- MODULE Deflate -------------------------------
(***************************************************************************)
(* The items canonical deflated into the chat request the engine consumes  *)
(* (deflate.rs, ChatRequest in canonical.rs).                              *)
(***************************************************************************)
EXTENDS Items

(* The words of a tool result *)
Deflatable(content) == Is(content, "string") \/ Is(content, "array")

ToolText(it) ==
  (IF it.is_error THEN <<"[tool error]">> ELSE <<>>)
    \o (IF Is(it.content, "string") THEN it.content.text
        ELSE Join(PartTexts(it.content.parts), <<NL>>))

(* A chat message; a Null field is not serialised *)
ChatMessage(role, content) ==
  [role |-> role, content |-> content, name |-> Null, tool_calls |-> Null,
   tool_call_id |-> Null, thinking_blocks |-> Null, reasoning_content |-> Null]

NonEmpty(q) == IF q = <<>> THEN Null ELSE q

ToolMessages(items) ==
  LET results == OfType(items, {"tool_result"})
  IN  [k \in DOMAIN results |->
         [ChatMessage("tool", Str(ToolText(results[k])))
            EXCEPT !.tool_call_id = results[k].tool_call_id]]

(* The thinking that can be signed for, and the rest *)
Attested(it) == it.redacted_data # Null \/ it.signature # Null

ThinkingBlock(it) ==
  IF it.redacted_data # Null
  THEN [type |-> "redacted_thinking", data |-> it.redacted_data]
  ELSE [type |-> "thinking", thinking |-> it.text, signature |-> it.signature]

ThinkingBlocks(items) ==
  LET some == SelectSeq(OfType(items, {"thinking"}), Attested)
  IN  [k \in DOMAIN some |-> ThinkingBlock(some[k])]

(* Mutant: signed thinking is reasoning too *)
Reasoning_whole(items) == TextOf(items, {"thinking"})

Reasoning(items) ==
  LET some == SelectSeq(OfType(items, {"thinking"}), LAMBDA it : ~Attested(it))
  IN  FlattenSeq([k \in DOMAIN some |-> some[k].text])

WireCalls(items) ==
  LET calls == OfType(items, {"tool_call"})
  IN  [k \in DOMAIN calls |-> [id |-> calls[k].id, name |-> calls[k].name,
                               arguments |-> Encoded(calls[k].arguments)]]

(* Mutant: a message with words forgets its calls *)
finish_wordy(role, m) ==
  LET text == TextOf(m.items, {"text", "refusal"})
  IN  IF \A k \in DOMAIN m.items : m.items[k].type = "tool_result" THEN <<>>
      ELSE <<[ChatMessage(role, Str(text)) EXCEPT
                !.tool_calls = IF text = <<>> THEN NonEmpty(WireCalls(m.items)) ELSE Null]>>

(* MsgAcc folded and finished: the tool messages first, then the message   *)
(* of what is left, if anything is                                         *)
finish(role, m) ==
  LET text == TextOf(m.items, {"text", "refusal"})
      calls == WireCalls(m.items)
      bare == [ChatMessage(role, Str(text)) EXCEPT !.name = m.name]
  IN  IF \A k \in DOMAIN m.items : m.items[k].type = "tool_result" THEN <<>>
      ELSE IF role # "assistant" THEN <<bare>>
      ELSE <<[bare EXCEPT
                !.content = IF text = <<>> /\ calls # <<>> THEN Null ELSE @,
                !.reasoning_content = NonEmpty(Reasoning(m.items)),
                !.tool_calls = NonEmpty(calls),
                !.thinking_blocks = NonEmpty(ThinkingBlocks(m.items))]>>

(* Mutant: the message first, then its results *)
deflate_message_late(m) ==
  finish(IF m.role = "tool" THEN "user" ELSE m.role, m) \o ToolMessages(m.items)

deflate_message(m) ==
  ToolMessages(m.items) \o finish(IF m.role = "tool" THEN "user" ELSE m.role, m)

(* A trailing assistant turn the model is to continue *)
Prefill(messages) ==
  /\ messages # <<>>
  /\ LET m == Last(messages) IN
     /\ m.role = "assistant"
     /\ \E k \in DOMAIN m.items : m.items[k].type = "text" /\ ~Blank(m.items[k].text)
     /\ OfType(m.items, {"tool_call"}) = <<>>

ResponsesOnly ==
  {"background", "conversation", "include", "previous_response_id", "truncation"}

(* Keys whose value ChatRequest wants to be a number *)
TypedKeys == {"temperature", "top_p", "max_tokens"}

Computed(req) ==
  LET verbatim == Is(Get(req.extra, "thinking"), "object")
      typed == IF verbatim THEN Null ELSE req.thinking
  IN  Merged(Present([model |-> req.model,
        messages |-> FlattenSeq([k \in DOMAIN req.messages |-> deflate_message(req.messages[k])]),
        stream |-> req.stream, max_tokens |-> req.max_tokens,
        temperature |-> req.temperature, top_p |-> req.top_p,
        stop |-> IF req.stop_sequences = Null THEN Null ELSE Arr(req.stop_sequences),
        tools |-> NonEmpty(req.tools),
        tool_choice |-> req.tool_choice, response_format |-> req.response_format,
        thinking |-> IF verbatim THEN req.extra["thinking"]
                     ELSE IF typed = Null \/ typed.budget_tokens = Null THEN Null
                     ELSE [json |-> "object", type |-> "enabled",
                           budget_tokens |-> typed.budget_tokens, effort |-> Null],
        reasoning_effort |-> IF typed = Null THEN Null ELSE typed.effort]),
      IF Prefill(req.messages) THEN "_prefill" :> TRUE ELSE <<>>)

(* Mutant: every extra goes along *)
deflated_whole(req) == Merged(Computed(req), req.extra)

(* Extras fill gaps, and never replace a computed key *)
deflated(req) ==
  Merged(Computed(req), [k \in DOMAIN req.extra \ ResponsesOnly |-> req.extra[k]])

items_to_chat_request(req) ==
  IF \E m \in ToSet(req.messages) : \E it \in ToSet(m.items) :
        it.type = "tool_result" /\ ~Deflatable(it.content)
  THEN BadRequest
  ELSE IF \E k \in (TypedKeys \cap DOMAIN req.extra) \ DOMAIN Computed(req) :
             ~Is(req.extra[k], "number")
  THEN Err(Error("Internal"))
  ELSE Ok(deflated(req))
=============================================================================
