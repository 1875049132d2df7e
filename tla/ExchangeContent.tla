--------------------------- MODULE ExchangeContent ---------------------------
(***************************************************************************)
(* What a caller of Exchange may rely on: the engine is asked what the     *)
(* caller said, and the caller is told what the engine answered.  What a   *)
(* translation is documented to lose is named where it is excepted.        *)
(***************************************************************************)
EXTENDS Exchange

(* The words of a text, without the marks a translation adds *)
Words(t) == SelectSeq(t, LAMBDA w : w \notin {NL, "[tool error]"})

OfRole(messages, roles) == Filter(messages, LAMBDA m : m.role \in roles)

AllItems(messages, types) ==
  FlattenSeq([k \in DOMAIN messages |-> OfType(messages[k].items, types)])

Asked == own /\ chat # Null
Told == own /\ phase = "returned" /\ outcome # Null /\ outcome.ok

-----------------------------------------------------------------------------
(* The conversation the engine sees *)
Body(c) == IF c = Null THEN <<>> ELSE IF Is(c, "string") THEN c.text ELSE Join(PartTexts(c.parts), <<>>)

Utterances(said) == SelectSeq(said, LAMBDA u : u.words # <<>>)

(* What was said, by whom.  Anthropic has no block for a refusal.  *)
SpokenTo(d, messages) ==
  LET ms == OfRole(messages, {"user", "assistant"})
      types == IF d = "Anthropic" THEN {"text"} ELSE {"text", "refusal"}
  IN  Utterances([k \in DOMAIN ms |->
                    [role |-> ms[k].role, words |-> Words(TextOf(ms[k].items, types))]])

HeardBy(messages) ==
  LET ms == OfRole(messages, {"user", "assistant"})
  IN  Utterances([k \in DOMAIN ms |-> [role |-> ms[k].role, words |-> Words(Body(ms[k].content))]])

CallsOf(messages) ==
  LET calls == AllItems(messages, {"tool_call"})
  IN  [k \in DOMAIN calls |-> <<calls[k].id, calls[k].name, calls[k].arguments>>]

CallsHeard(messages) ==
  LET calls == FlattenSeq([k \in DOMAIN messages |-> Orelse(messages[k].tool_calls, <<>>)])
  IN  [k \in DOMAIN calls |-> <<calls[k].id, calls[k].name, Decoded(calls[k].arguments)>>]

(* What a result says.  Anthropic's is a string: of anything else the      *)
(* engine sees the JSON (req_out.rs:231-235).                              *)
SaidBy(d, content) ==
  IF d = "Anthropic" /\ ~Is(content, "string") THEN JsonText(content) ELSE Words(Body(content))

ResultsOf(d, messages) ==
  LET results == AllItems(messages, {"tool_result"})
  IN  [k \in DOMAIN results |-> <<results[k].tool_call_id, SaidBy(d, results[k].content)>>]

ResultsHeard(messages) ==
  LET ms == OfRole(messages, {"tool"})
  IN  [k \in DOMAIN ms |-> <<ms[k].tool_call_id, Words(Body(ms[k].content))>>]

FailuresOf(messages) ==
  LET results == AllItems(messages, {"tool_result"})
  IN  [k \in DOMAIN results |-> results[k].is_error]

FailuresHeard(messages) ==
  LET ms == OfRole(messages, {"tool"})
  IN  [k \in DOMAIN ms |-> IsPrefix(<<"[tool error]">>, ms[k].content.text)]

(* The messages from k on, as long as they are results *)
AnswersTo(ms, k) ==
  {ms[j].tool_call_id : j \in {j \in k + 1 .. Len(ms) :
                                 \A i \in k + 1 .. j : ms[i].role = "tool"}}

(* Every assistant message with calls is directly followed by the results  *)
(* of all of them, and no result stands anywhere else: chat upstreams      *)
(* refuse any other order (deflate.rs:80-82)                               *)
ResultsFollowCalls ==
  Asked =>
    LET ms == chat.messages IN
    /\ \A k \in DOMAIN ms : ms[k].tool_calls # Null =>
         {tc.id : tc \in ToSet(ms[k].tool_calls)} = AnswersTo(ms, k)
    /\ \A k \in DOMAIN ms : ms[k].role = "tool" =>
         \E j \in 1 .. k - 1 : /\ ms[j].tool_calls # Null
                               /\ \A i \in j + 1 .. k : ms[i].role = "tool"

(* Results directly follow the message that holds their calls, with the    *)
(* remarks of the same turn after them, and in a conversation held over    *)
(* Anthropic no two calls share an id, although the engine numbers its     *)
(* calls anew in every message (deflate.rs:80-82, stream.rs:561-568).      *)
(* Responses splits a turn into items: see ResultsFollowCalls.             *)
ResultsUnambiguous ==
  /\ dialect # "OpenAiResponses" /\ (\A t \in ToSet(told) : t.dialect # "OpenAiResponses")
       => ResultsFollowCalls
  /\ (\A t \in ToSet(told) : t.dialect = "Anthropic") =>
       LET calls == CallsHeard(chat.messages)
       IN  \A i, j \in DOMAIN calls : calls[i][1] = calls[j][1] => i = j

(* Whatever dialect a conversation is sent over, and however often it has  *)
(* been over others, the engine sees every word of the user and of the     *)
(* assistant in order, the system's words, every call with its arguments,  *)
(* every result under its call's id, unambiguously, in its words (over     *)
(* Anthropic parts arrive as the JSON they are), and which results are     *)
(* failures; Responses has no field for the last (render_message and       *)
(* flatten_message of the req_out.rs, the parsers, deflate.rs:30-150).     *)
ConversationKept ==
  Asked =>
    /\ HeardBy(chat.messages) = SpokenTo(dialect, req.messages)
    /\ CallsHeard(chat.messages) = CallsOf(req.messages)
    /\ ResultsHeard(chat.messages) = ResultsOf(dialect, req.messages)
    /\ LET sys == OfRole(chat.messages, {"system"})
       IN  Words(FlattenSeq([k \in DOMAIN sys |-> sys[k].content.text]))
             = Words(SystemText(req.messages))
    /\ dialect # "OpenAiResponses" =>
         FailuresHeard(chat.messages) = FailuresOf(req.messages)
    /\ ResultsUnambiguous

(* A result beside a call, or a call of somebody other than the assistant *)
Mixed(messages) ==
  \E m \in ToSet(messages) :
    /\ CallIds(m.items) # {}
    /\ m.role # "assistant" \/ \E it \in ToSet(m.items) : it.type = "tool_result"

(* No body of any client makes the engine see a result before its call,    *)
(* unless a message of it is Mixed: the parsers accept a call in a message *)
(* of the user's, which deflate drops, and a result that refers to it      *)
(* (ItemRequest::validate; openai_chat/req.rs:107-127; deflate.rs:120-155) *)
ResultsAfterCalls ==
  chat # Null /\ ~Mixed(parsed.messages) =>
    \A k \in DOMAIN chat.messages : chat.messages[k].role = "tool" =>
      \E j \in 1 .. k - 1 : \E tc \in ToSet(Orelse(chat.messages[j].tool_calls, <<>>)) :
        tc.id = chat.messages[k].tool_call_id

-----------------------------------------------------------------------------
(* Thinking *)
BlocksTold(t) ==
  SelectSeq(Orelse(t.answer.thinking_blocks, <<>>),
            LAMBDA b : b.type = "redacted_thinking" \/ b.signature # Null)

(* The block, or what the stop sequence leaves of it *)
Genuine(b, original) ==
  \/ b = original
  \/ /\ b.type = "thinking" /\ original.type = "thinking"
     /\ b.signature = original.signature
     /\ \E s \in ToSet(Orelse(req.stop_sequences, <<>>)) : original.thinking = b.thinking \o s

(* No signature is forged: a signed or redacted block that reaches the     *)
(* engine is one it gave, and a conversation held over Anthropic alone     *)
(* brings back all of them, in order; the words it signed are never passed *)
(* off as its unsigned reasoning, except by Responses, which has no other  *)
(* place for them (ARCHITECTURE.md, "none is fabricated").  A stop         *)
(* sequence at the end of a signed block is cut off it (out.rs:151-178).   *)
ThinkingUnforged ==
  Asked =>
    LET ms == chat.messages
        blocks == FlattenSeq([k \in DOMAIN ms |-> Orelse(ms[k].thinking_blocks, <<>>)])
        given == FlattenSeq([k \in DOMAIN told |-> BlocksTold(told[k])])
    IN  /\ \A b \in ToSet(blocks) : \E g \in ToSet(given) : Genuine(b, g)
        /\ dialect = "Anthropic" /\ (\A t \in ToSet(told) : t.dialect = "Anthropic") =>
             /\ Len(blocks) = Len(given)
             /\ \A k \in DOMAIN blocks : Genuine(blocks[k], given[k])
        /\ (\A t \in ToSet(told) : t.dialect # "OpenAiResponses") =>
             \A m \in ToSet(ms) : m.reasoning_content # Null =>
               \A g \in ToSet(given) : g.type = "thinking" => m.reasoning_content # g.thinking

(* An item with the marker it carries *)
Label(it) ==
  [type |-> it.type,
   of |-> CASE it.type = "tool_call" -> it.id
            [] it.type = "tool_result" -> it.tool_call_id
            [] it.type = "thinking" /\ it.redacted_data # Null -> <<it.redacted_data>>
            [] OTHER -> Words(it.text)]

Marked(m) ==
  FlattenSeq([i \in DOMAIN m.cc |->
    IF m.cc[i] # Null /\ Renderable(m.items[i])
    THEN << <<Label(m.items[i]), m.cc[i]>> >> ELSE <<>>])

MarkedItems(messages) == FlattenSeq([k \in DOMAIN messages |-> Marked(messages[k])])

(* Over Anthropic each cache marker stays on the item the caller put it    *)
(* on, whatever items before it have no block; only a marker whose own     *)
(* item has none is lost (req_out.rs:196-252, req.rs:131-358)              *)
MarkersOnTheirBlocks ==
  own /\ parsed # Null /\ dialect = "Anthropic" =>
    MarkedItems(OfRole(parsed.messages, {"user", "assistant"}))
      = MarkedItems(OfRole(req.messages, {"user", "assistant"}))

-----------------------------------------------------------------------------
(* Settings *)
Effective(stops) == IF stops = <<>> THEN Null ELSE stops

(* A verbatim thinking object and typed settings, as each dialect can say  *)
(* them: chat has only the effort, Responses no verbatim object            *)
ThinkingDue ==
  LET verbatim == Get(req.extra, "thinking") IN
  CASE dialect = "Anthropic" /\ Is(verbatim, "object") -> Get(chat, "thinking") = verbatim
    [] dialect = "OpenAiChat" ->
         /\ Get(chat, "thinking") = Null
         /\ Get(chat, "reasoning_effort")
              = (IF req.thinking = Null \/ Is(verbatim, "object") THEN Null ELSE req.thinking.effort)
    [] OTHER ->
         BudgetOf(chat) = (IF req.thinking = Null THEN Null ELSE req.thinking.budget_tokens)

(* The settings of the request reach the engine as they were set: the cap, *)
(* or the 4096 Anthropic must be given, the stop sequences, the tools and  *)
(* the choice among them, the temperature, the format and the thinking     *)
(* budget; what only the Responses API knows is dropped; and the engine is *)
(* told to go on with the last turn exactly if it is the assistant's, with *)
(* words and no calls (deflate.rs:215-320).                                *)
SettingsKept ==
  Asked =>
    /\ Get(chat, "max_tokens") = IF req.max_tokens = Null /\ dialect = "Anthropic"
                                 THEN DefaultMaxTokens ELSE req.max_tokens
    /\ StopList(Get(chat, "stop")) = Effective(req.stop_sequences)
    /\ Orelse(Get(chat, "tools"), <<>>) = req.tools
    /\ Is(req.tool_choice, "auto") \/ Get(chat, "tool_choice") = req.tool_choice
    /\ \A k \in {"temperature", "response_format"} : Get(chat, k) = req[k]
    /\ ThinkingDue
    /\ DOMAIN chat \cap ResponsesOnly = {}
    /\ dialect # "OpenAiResponses" => ("_prefill" \in DOMAIN chat <=>
         LET last == Last(req.messages) IN
         /\ last.role = "assistant"
         /\ Words(TextOf(last.items, {"text"})) # <<>>
         /\ CallIds(last.items) = {})

(* Why a server may refuse what to_anthropic renders: limits of Anthropic  *)
(* that the canonical request does not have                                *)
Compatible ==
  dialect = "Anthropic" =>
    LET cap == FirstOf(req.max_tokens, DefaultMaxTokens)
        th == FirstOf(Get(req.extra, "thinking"), req.thinking)
    IN  /\ req.temperature # Null => req.temperature <= 10
        /\ th # Null /\ th.budget_tokens # Null =>
             th.budget_tokens >= MinBudget /\ th.budget_tokens < cap

(* What the client itself refuses: a turn of nothing but what its dialect  *)
(* had no channel for, and results in parts over Responses                 *)
Unsayable ==
  \/ \E m \in ToSet(req.messages) : m.items = <<>>
  \/ /\ dialect = "OpenAiResponses"
     /\ \E it \in ToSet(AllItems(req.messages, {"tool_result"})) : Is(it.content, "array")

(* A conversation that grew from the turns the client read is accepted     *)
(* again: the client renders it unless a turn is unsayable, and the server *)
(* then finds the calls of every result and nothing else to object to      *)
(* (ItemRequest::validate, the parsers; resp_in.rs calls a turn "ready to  *)
(* push")                                                                  *)
ReplayAccepted ==
  own /\ Compatible /\ ~req.stream =>
    /\ phase = "replied" => answer # Null
    /\ phase = "returned" /\ outcome # Null /\ wire = Null => Unsayable

-----------------------------------------------------------------------------
(* The reply *)
(* What the caller may read for the arguments of a call: the value their  *)
(* JSON has, if it has one                                                 *)
Readable(args) ==
  IF Is(args, "string") /\ args.value \notin {Garbled, "null"} THEN {args.value}
  ELSE {"{}", "null"} \cup (IF Is(args, "object") THEN {args.value} ELSE {})

(* What the caller reads is what the engine said: the text, less a stop    *)
(* sequence that is then reported, every call with its arguments, and, on  *)
(* Anthropic, the signed thinking first (the out.rs and resp_in.rs of each *)
(* dialect)                                                                *)
ReplyTrue ==
  Told =>
    LET got == outcome.value.message.items
        said == answer.value
        text == TextOf(got, {"text"})
        calls == OfType(got, {"tool_call"})
        made == Orelse(said.tool_calls, <<>>)
        stop == outcome.value.stop_sequence
    IN  /\ text = said.content \/ (stop # Null /\ text \o stop = said.content)
        /\ Len(calls) = Len(made)
        /\ \A k \in DOMAIN calls :
             /\ calls[k].name = made[k].name
             /\ calls[k].arguments \in Readable(made[k].arguments)
        /\ \A i, j \in DOMAIN got :
             got[i].type = "thinking" /\ got[j].type # "thinking" => i < j
        /\ dialect = "Anthropic" =>
             Len(OfType(got, {"thinking"})) = Len(Orelse(said.thinking_blocks, <<>>))

UsageTrue ==
  LET got == outcome.value.usage
      said == answer.value.usage
      cached == said.cached_read + said.cache_write
  IN  /\ got.output = said.output
      /\ got.input = IF dialect = "Anthropic" /\ cached > said.input THEN cached ELSE said.input
      /\ dialect # "OpenAiResponses" =>
           got.cached_read = said.cached_read /\ got.cache_write = said.cache_write

VerdictTrue ==
  LET stop == outcome.value.stop_sequence IN
  /\ outcome.value.finish = "length" <=> answer.value.finish = "length"
  /\ IF dialect = "Anthropic"
     THEN answer.value.finish = "content_filter" => outcome.value.finish = "stop"
     ELSE outcome.value.finish = "content_filter" <=> answer.value.finish = "content_filter"
  /\ stop # Null => /\ answer.value.finish = "stop"
                    /\ stop \in ToSet(Orelse(parsed.stop_sequences, <<>>))

(* The tokens the engine counted are the tokens the caller is told of, in  *)
(* every dialect, the cache classes in all but Responses (a count that     *)
(* leaves the cache out comes back from Anthropic as the cache alone).  A  *)
(* turn cut at the cap is never read as finished, nor a finished one as    *)
(* cut; a filtered one is read as filtered, and no other is, except over   *)
(* Anthropic, where its refusal is read as a stop; and a stop sequence is  *)
(* reported only if it was asked for and the engine stopped (the out.rs    *)
(* and resp_in.rs of each dialect).                                        *)
OutcomeTrue == Told => UsageTrue /\ VerdictTrue

(* Which failure it was.  Anthropic's clients read a spent budget as a     *)
(* rate limit (out.rs:183-188).                                            *)
Meant(e) ==
  IF e.kind \in {"Unauthorized", "RateLimited"} THEN e.kind
  ELSE IF e.kind = "BudgetExceeded" \/ (e.kind = "Upstream" /\ e.status = 429) THEN "RateLimited"
  ELSE IF e.kind = "Upstream" /\ e.status = 401 THEN "Unauthorized"
  ELSE "Upstream"

(* Over Anthropic the client's typed error is the failure of the engine:   *)
(* unauthorized, rate limited, or an upstream's with its status; in every  *)
(* dialect what the upstream had said stays with the server                *)
(* (error.rs:118-170, out.rs:181-206)                                      *)
ErrorsTyped ==
  own /\ phase = "returned" /\ resp # Null /\ ~outcome.ok /\ answer # Null /\ ~answer.ok
      /\ outcome.error.kind # "Transport" =>
    LET e == answer.error
        got == outcome.error
    IN  /\ dialect = "Anthropic" =>
             /\ got.kind = Meant(e)
             /\ got.kind = "Upstream" => got.status = http_status(e)
        /\ e.kind = "Upstream" /\ got.kind = "Upstream" => got.body # e.body

(* A rate limit of the engine is RateLimited to the client, in every       *)
(* dialect (client.rs:141-143, error.rs:134-141)                           *)
RateLimitTold ==
  own /\ phase = "returned" /\ resp # Null /\ answer # Null /\ ~answer.ok
      /\ answer.error.kind = "RateLimited" /\ ~outcome.ok /\ outcome.error.kind # "Transport" =>
    outcome.error.kind = "RateLimited"
=============================================================================
