------------------------------ MODULE MCExchange ------------------------------
(* Conversations, answers, failures and bodies of other clients *)
EXTENDS ExchangeContent

AllDialects == {"Anthropic", "OpenAiChat", "OpenAiResponses"}
ChatAlone == {"OpenAiChat"}
ResponsesAlone == {"OpenAiResponses"}

-----------------------------------------------------------------------------
(* The caller's conversations *)
User(t) == Message("user", <<Text(t)>>)
Marks(m, cc) == [m EXCEPT !.cc = cc]
Tool == [name |-> "Read", description |-> "d", input_schema |-> "{}", type |-> Null]

Plain ==
  [DefaultRequest EXCEPT
     !.messages = <<User(<<"hi", NL, "you">>)>>, !.tools = <<Tool>>,
     !.stop_sequences = << <<"q">>, <<"z">> >>]

(* A history with failed calls, markers after thinking that has no block,  *)
(* and the extras of three dialects                                        *)
History ==
  [DefaultRequest EXCEPT
     !.messages = << Message("system", <<Text(<<"be", " ">>), Text(<<"brief">>)>>), User(<<"hi">>),
        Marks(Message("assistant",
          <<Thinking(<<"hm">>, Null, Null, Null), Text(<<"reading">>),
            ToolCall(CallId("upstream", 0, "0"), "Read", "x"),
            ToolCall(CallId("toolu", 0, "b"), "Read", "null")>>), <<"a", Null, "b", "c">>),
        Marks(Message("user",
          <<Text(<<"well">>), ToolResult(CallId("upstream", 0, "0"), Str(<<"r1">>), TRUE),
            ToolResult(CallId("toolu", 0, "b"), Str(<<"r2">>), FALSE)>>), <<Null, Null, "d">>) >>,
     !.max_tokens = 100, !.temperature = 7, !.tools = <<Tool>>,
     !.tool_choice = [json |-> "tool", name |-> "Read"],
     !.extra = [user |-> Str(<<"u">>), top_k |-> [json |-> "number"], store |-> [json |-> "boolean"],
                conversation |-> Str(<<"c">>), background |-> [json |-> "boolean"]]]

(* An exotic thinking object, a cached system prompt, a turn to go on with *)
Prefilled ==
  [DefaultRequest EXCEPT
     !.messages = << Message("system", <<Text(<<"be">>)>>), User(<<"once">>),
        Message("assistant", <<Refusal(<<"no">>)>>), User(<<"please">>),
        Message("assistant", <<Text(<<"so">>)>>) >>,
     !.max_tokens = 3000, !.thinking = [budget_tokens |-> 2000, effort |-> "low"],
     !.tool_choice = [json |-> "auto"], !.response_format = [json |-> "object", type |-> "text"],
     !.extra = [thinking |-> [json |-> "object", type |-> "exotic", budget_tokens |-> 2000,
                              effort |-> "high"],
                _sys_blocks |-> Arr(<<[type |-> "text", text |-> <<"be">>, cc |-> "s"]>>)]]

(* A budget beyond Anthropic's default cap *)
Pensive ==
  [Plain EXCEPT !.thinking = [budget_tokens |-> 5000, effort |-> Null], !.temperature = 12,
                !.messages = <<User(<<"hi">>), User(<<"there">>)>>]

Parted ==
  [Plain EXCEPT !.stop_sequences = <<>>, !.messages =
     << User(<<"go">>), Message("assistant", <<ToolCall(CallId("toolu", 0, "a"), "Read", "x")>>),
        Message("user", <<ToolResult(CallId("toolu", 0, "a"),
          Arr(<<[type |-> "text", text |-> <<"p1">>], [type |-> "text", text |-> <<"p2">>]>>),
          FALSE)>>) >>]

PlainRequest == {Plain}

SomeRequests == {Plain, History, Prefilled, Pensive, Parted, [Plain EXCEPT !.stream = TRUE]}

Style(remark, first, failed, mark) ==
  [remark |-> remark, first |-> first, failed |-> failed, mark |-> mark]

AllStyles == {Style(<<>>, FALSE, FALSE, FALSE), Style(<<"and">>, TRUE, FALSE, TRUE),
              Style(<<"now">>, FALSE, TRUE, FALSE)}

-----------------------------------------------------------------------------
(* The engine *)
Usage(n) == [input |-> 10 * n, output |-> n, cached_read |-> 3, cache_write |-> 2, reasoning |-> n]

Silence ==
  [id |-> Null, thinking_blocks |-> Null, reasoning_content |-> Null, content |-> <<>>,
   tool_calls |-> Null, finish |-> "stop", matched_stop |-> Null, usage |-> Usage(1)]

Signed(t) == [type |-> "thinking", thinking |-> t, signature |-> "sig"]
Call(id, args) == [id |-> id, name |-> "Read", arguments |-> args]

Said == [Silence EXCEPT !.content = <<"ok">>]

(* Two calls with the ids of their places, after thinking of all kinds *)
Calling ==
  [Silence EXCEPT
     !.thinking_blocks = <<[type |-> "redacted_thinking", data |-> "opaque"], Signed(<<"t", "z">>),
                           [type |-> "thinking", thinking |-> <<"u">>, signature |-> Null]>>,
     !.content = <<"let">>, !.finish = "tool_calls",
     !.tool_calls = <<Call(CallId("upstream", 0, "0"), Encoded("x")),
                      Call(CallId("upstream", 0, "1"), Encoded("{}"))>>]

Mulling ==
  [Silence EXCEPT
     !.reasoning_content = <<"r", NL, "s">>, !.finish = "tool_calls", !.usage = Usage(0),
     !.tool_calls = <<Call(CallId("toolu", 0, "b"), Encoded("x"))>>]

Nameless ==
  [Silence EXCEPT !.finish = "tool_calls", !.content = <<"as">>,
     !.tool_calls = <<Call(Null, Encoded(Garbled)), Call(CallId("upstream", 0, "7"), Null),
                      Call(CallId("upstream", 0, "8"), Encoded("null")),
                      Call(CallId("upstream", 0, "9"), [json |-> "object", value |-> "x"])>>]

Stopped == [Silence EXCEPT !.thinking_blocks = <<Signed(<<"t", "z">>)>>, !.content = <<"w", "z">>]
Matched == [Silence EXCEPT !.thinking_blocks = <<Signed(<<"v">>)>>, !.content = <<"z">>,
                                !.matched_stop = <<"z">>, !.usage.cached_read = 30]
Cut == [Silence EXCEPT !.content = <<"so">>, !.finish = "length", !.reasoning_content = <<"y">>]
Filtered == [Silence EXCEPT !.finish = "content_filter"]
Paused == [Silence EXCEPT !.content = <<"wait", "z">>, !.finish = "pause_turn"]

AllAnswers == {Said, Calling, Mulling, Nameless, Stopped, Matched, Cut, Filtered, Paused}

(* What it answers to each call; number 0 is another client's *)
SomeAnswers == [n \in 0 .. MaxSends |->
                  CASE n = 1 -> AllAnswers
                    [] n = 2 -> {Calling, Stopped, Cut}
                    [] OTHER -> {Said}]

AllFailures ==
  {Error(k) : k \in Kinds} \cup {Upstream(s, "secret", Null) : s \in {400, 401, 429, 503, 1000}}

SomeFailures == [n \in 0 .. MaxSends |-> IF n = 1 THEN AllFailures ELSE {Error("RateLimited")}]

-----------------------------------------------------------------------------
(* Bodies of other clients *)
Posted(messages) == [model |-> "m", max_tokens |-> 50, messages |-> messages]
Says(role, content) == [role |-> role, content |-> content]
TextBlock(t) == [type |-> "text", text |-> t, cc |-> Null]
Use(id) == [type |-> "tool_use", id |-> id, name |-> "Read", input |-> "x", cc |-> Null]
Result(id, content) == [type |-> "tool_result", tool_use_id |-> id, content |-> content,
                        is_error |-> FALSE, cc |-> Null]
Image == [type |-> "image", cc |-> Null]
Hi == Says("user", Str(<<"hi">>))

AnthropicBodies ==
  {Posted(ms) : ms \in
     {<<>>, <<Says("user", Null)>>, <<Says("user", Arr(<<>>))>>, <<Says("tool", Str(<<"x">>))>>,
      <<Says("user", [json |-> "object"])>>, <<Says("user", Arr(<<Image>>))>>,
      <<Hi, Says("assistant", Null)>>,
      <<Says("user", Arr(<<[type |-> "thinking", thinking |-> <<"t">>, signature |-> "s", cc |-> Null]>>))>>,
      <<Says("user", Arr(<<Use("a")>>))>>, <<Hi, Says("assistant", Arr(<<Use(Null)>>))>>,
      <<Hi, Says("user", Arr(<<Result("a", Str(<<"r">>))>>))>>,
      <<Hi, Says("assistant", Arr(<<Use("a")>>)), Says("user", Arr(<<Result("a", Arr(<<Image>>))>>))>>,
      <<Hi, Says("assistant", Arr(<<Use("a"), Use("b")>>)), Says("system", Arr(<<TextBlock(<<"note">>)>>)),
        Says("user", Arr(<<Result("a", Arr(<<[type |-> "text", text |-> <<"p">>]>>)),
                           Result("b", Null), Says("web", Null) @@ [type |-> "web", cc |-> "m"]>>))>>,
      <<Hi, Says("assistant", Arr(<<Use("a"), Result("a", Str(<<"r">>))>>))>>}}
  \cup {[Posted(<<Hi>>) EXCEPT !.max_tokens = n] : n \in {0, Null, U32}}
  \cup {Posted(<<Hi>>) @@ v : v \in
          {[temperature |-> 11], [top_p |-> 11], [disable_parallel |-> TRUE, stream |-> TRUE],
           [thinking |-> [json |-> "object", type |-> "enabled", budget_tokens |-> 1023, effort |-> Null]],
           [tools |-> <<[description |-> "d", input_schema |-> "{}"]>>], [tools |-> <<[name |-> "Read"]>>],
           [tools |-> <<Null, [name |-> Null], [type |-> "bash"], [name |-> "Read", input_schema |-> Null]>>],
           [thinking |-> [json |-> "object", type |-> "disabled", budget_tokens |-> Null, effort |-> Null],
            system |-> Arr(<<[type |-> "text", text |-> <<"be">>, cc |-> "m"]>>),
            tools |-> <<Tool, [Tool EXCEPT !.type = "web_search"]>>, stop_sequences |-> <<>>,
            user_id |-> Str(<<"u">>), top_k |-> [json |-> "number"]]}}

Speaks(role, content, calls) ==
  [ChatMessage(role, content) EXCEPT !.tool_calls = calls]
Answering(id, content) == [ChatMessage("tool", content) EXCEPT !.tool_call_id = id]
Asking(ids) == [k \in DOMAIN ids |-> Call(ids[k], Encoded("x"))]
ChatHi == Speaks("user", Str(<<"hi">>), Null)

ChatBodies ==
  {[model |-> "m", messages |-> ms] : ms \in
     {<<>>, <<Speaks("robot", Str(<<"x">>), Null)>>, <<Speaks("user", [json |-> "object"], Null)>>,
      <<Speaks("user", Arr(<<[type |-> "image_url", text |-> Null]>>), Null)>>,
      <<ChatHi, Speaks("assistant", Null, Asking(<<Null>>))>>, <<ChatHi, Answering("a", Str(<<"r">>))>>,
      <<ChatHi, Speaks("assistant", Null, Asking(<<"a">>)), Answering("a", Null)>>,
      <<Speaks("developer", Str(<<"be">>), Null), ChatHi,
        [Speaks("assistant", Arr(<<[type |-> "refusal", text |-> <<"no">>]>>), Asking(<<"a", "b">>))
           EXCEPT !.reasoning_content = <<"r">>],
        Answering("b", Arr(<<[type |-> "text", text |-> <<"p">>]>>)), Answering("a", Str(<<"r">>))>>,
      <<Speaks("user", Null, Asking(<<"a">>)), Answering("a", Str(<<"r">>))>>,
      <<ChatHi, Speaks("assistant", Null, Null)>>, <<Speaks("user", Str(<<>>), Null)>>}}
  \cup {[model |-> "m", messages |-> <<ChatHi>>, max_completion_tokens |-> U32 + 1,
         stop |-> Str(<<"z">>), reasoning_effort |-> "low", seed |-> [json |-> "number"],
         tools |-> <<[Tool EXCEPT !.name = Null]>>, stream |-> TRUE],
        [model |-> "m", messages |-> <<ChatHi>>, max_tokens |-> U32]}

Item(type) == [type |-> type, role |-> Null, content |-> Null, call_id |-> Null, name |-> Null,
               arguments |-> Null, output |-> Null, summary |-> Null, encrypted |-> Null]
Saying(role, content) == [Item("message") EXCEPT !.role = role, !.content = content]
Calls(id) == [Item("function_call") EXCEPT !.call_id = id, !.name = "Read", !.arguments = Encoded("x")]
Output(id, out) == [Item("function_call_output") EXCEPT !.call_id = id, !.output = out]
Reasons(summary, enc) == [Item("reasoning") EXCEPT !.summary = summary, !.encrypted = enc]

ResponsesBodies ==
  {[model |-> "m", input |-> Arr(items)] : items \in
     {<<>>, <<Saying("robot", Str(<<"x">>))>>, <<Saying("user", [json |-> "object"])>>,
      <<Saying("user", Arr(<<[type |-> "input_image", text |-> Null]>>))>>, <<Calls(Null)>>,
      <<Output("a", Str(<<"r">>))>>, <<Calls("a"), Output("a", Null)>>, <<Item("web_search_call")>>,
      <<Saying("user", Arr(<<>>))>>, <<Reasons(Null, Null)>>, <<Saying("developer", Str(<<"be">>))>>,
      <<Saying("user", Str(<<"hi">>)), Reasons(<< <<"r">>, <<"s">> >>, "enc"), Calls("a"),
        Output("a", Arr(<<[type |-> "input_text", text |-> <<"p">>]>>)),
        Saying("assistant", Arr(<<[type |-> "refusal", text |-> <<"no">>]>>))>>}}
  \cup {[model |-> "m", input |-> Str(<<"hi">>), instructions |-> <<"be">>, max_output_tokens |-> U32,
         reasoning |-> [budget_tokens |-> U32, effort |-> Null]],
        [model |-> "m", input |-> Str(<<"hi">>), max_tokens |-> 5, stop |-> Arr(<< <<"z">> >>),
         reasoning |-> [budget_tokens |-> U32, effort |-> "low"],
         truncation |-> Str(<<"auto">>), previous_response_id |-> Str(<<"p">>)]}

AllForeign == [d \in AllDialects |->
                 CASE d = "Anthropic" -> AnthropicBodies
                   [] d = "OpenAiChat" -> ChatBodies
                   [] OTHER -> ResponsesBodies]

NoForeign == [d \in {} |-> {}]
=============================================================================
