------------------------------- MODULE Exchange -------------------------------
(***************************************************************************)
(* A conversation over requests that are not streamed.  A caller keeps an  *)
(* items conversation and sends it with DialectClient::send (client.rs)    *)
(* over a dialect of its choice; a server built on this crate parses,      *)
(* validates and deflates it, an engine answers or fails, the server       *)
(* renders the answer or the error, the client reads it, and the caller    *)
(* pushes the assistant's turn onto the conversation, answers its tool     *)
(* calls, and sends again.  Bodies of other clients arrive too.            *)
(***************************************************************************)
EXTENDS Deflate, AnthropicRequests, ChatRequests, ResponsesRequests, Replies, Errors

CONSTANTS Dialects,  \* the dialects the caller has clients for
          Requests,  \* the conversations it may begin with
          Foreign,   \* bodies of other clients, by dialect
          Answers,   \* what the engine may answer, by the number of the call
          Failures,  \* how it may fail, by the same number
          Styles,    \* how the caller may go on after a turn
          MaxSends   \* bound on the calls of send

ASSUME SendsAssumption == MaxSends \in Nat

ASSUME DialectsAssumption ==
  Dialects \cup DOMAIN Foreign \subseteq {"Anthropic", "OpenAiChat", "OpenAiResponses"}

(* A missing value is none of the values that are told apart from it *)
ASSUME NullAssumption ==
  /\ Null \notin {"length", "end_turn", "max_tokens", "tool_use", "refusal", "stop_sequence",
                  "pause_turn", "max_output_tokens", "content_filter"}
  /\ Null \notin Seq(STRING)

(* Option<Vec<String>> *)
StopLists == {Null} \cup Seq(Seq(STRING))

(* What the types of the code make of an item and of a message: text is    *)
(* text, and there is one marker for each item, or none                    *)
WellMade(it) ==
  /\ it.type \in {"text", "refusal", "thinking", "tool_call", "tool_result"}
  /\ it.type = "text" => it.text # Null

Parallel(m) ==
  /\ m.role \in Roles
  /\ m.items \in Seq(ToSet(m.items)) /\ \A it \in ToSet(m.items) : WellMade(it)
  /\ m.cc \in Seq(ToSet(m.cc)) /\ Len(m.cc) \in {0, Len(m.items)}

Conversation(ms) == ms \in Seq(ToSet(ms)) /\ \A m \in ToSet(ms) : Parallel(m)

ASSUME RequestsAssumption ==
  \A r \in Requests : /\ {"messages", "stop_sequences"} \subseteq DOMAIN r
                      /\ Conversation(r.messages) /\ r.stop_sequences \in StopLists

(* The arrays of a body are lists *)
Listed(q) == q \in Seq(ToSet(q))

ListedParts(x) == Is(x, "array") => Listed(x.parts)

ListedBody(d, v) ==
  LET ms == Get(v, "messages")
      input == Get(v, "input")
  IN  IF d = "OpenAiResponses"
      THEN /\ ListedParts(input)
           /\ Is(input, "array") =>
                \A it \in ToSet(input.parts) : it.type = "message" => ListedParts(it.content)
      ELSE ms # Null =>
           /\ Listed(ms)
           /\ \A m \in ToSet(ms) :
                /\ ListedParts(m.content)
                /\ d = "OpenAiChat" /\ m.tool_calls # Null => Listed(m.tool_calls)

ASSUME ForeignAssumption == \A d \in DOMAIN Foreign : \A v \in Foreign[d] : ListedBody(d, v)

ASSUME StylesAssumption == \A style \in Styles : style.remark \in Seq(STRING)

(* The blocks of thinking an answer may hold *)
EngineBlocks ==
  [type : {"thinking"}, thinking : Seq(STRING), signature : {Null} \cup STRING]
  \cup [type : {"redacted_thinking"}, data : STRING]

(* max_tokens is Anthropic's word for what the canonical answer calls length *)
ASSUME AnswersAssumption ==
  \A n \in 0 .. MaxSends : \A a \in Answers[n] :
    /\ {"id", "thinking_blocks", "reasoning_content", "content", "tool_calls", "usage",
        "finish", "matched_stop"} \subseteq DOMAIN a
    /\ a.content \in Seq(STRING)
    /\ a.thinking_blocks \in {Null} \cup Seq(EngineBlocks)
    /\ a.tool_calls # Null => a.tool_calls \in Seq(ToSet(a.tool_calls))
    /\ a.usage \in [input : Nat, output : Nat, cached_read : Nat, cache_write : Nat,
                    reasoning : Nat \cup {Null}]
    /\ a.finish # "max_tokens"

(* What the upstream had said is never the crate's own wording *)
ASSUME FailuresAssumption ==
  \A n \in 0 .. MaxSends : \A e \in Failures[n] :
    \/ e.kind \in Kinds
    \/ /\ e.kind = "Upstream" /\ e.body # "upstream returned status"
       /\ e.status \in Nat /\ e.status \notin 200 .. 299

VARIABLES req,      \* the caller's conversation
          dialect,  \* the dialect of the call
          phase,    \* where the call is
          own,      \* whether the body is the caller's
          wire,     \* the body posted
          parsed,   \* what the server parsed it to
          chat,     \* and deflated it to
          answer,   \* the engine's result
          resp,     \* the status and body of the response
          outcome,  \* what send returned
          told,     \* the turns the caller has accepted, with their dialects
          sends     \* calls of send so far

caller == <<req, told>>
server == <<parsed, chat, answer>>
vars == <<req, dialect, phase, own, wire, parsed, chat, answer, resp, outcome, told, sends>>

Render(d, r) ==
  CASE d = "Anthropic" -> to_anthropic(r)
    [] d = "OpenAiChat" -> items_to_chat_request(r)
    [] d = "OpenAiResponses" -> to_openai_responses(r)

Parse(d, body) ==
  CASE d = "Anthropic" ->
         (LET p == from_anthropic(body) IN IF p.ok THEN require_max_tokens(p.value) ELSE p)
    [] d = "OpenAiChat" -> from_openai_chat(body)
    [] d = "OpenAiResponses" -> from_openai_responses(body)

Init ==
  /\ req \in Requests
  /\ dialect \in Dialects
  /\ phase = "idle" /\ own = TRUE /\ told = <<>> /\ sends = 0
  /\ wire = Null /\ resp = Null /\ outcome = Null
  /\ parsed = Null /\ chat = Null /\ answer = Null

-----------------------------------------------------------------------------
(* The caller *)
Resting == phase = "idle" \/ (phase = "returned" /\ own /\ ~outcome.ok)

(* A request to be streamed, or one that cannot be rendered, goes nowhere *)
Send(d) ==
  LET body == IF req.stream THEN BadRequest ELSE Render(d, req) IN
  /\ Resting /\ sends < MaxSends
  /\ sends' = sends + 1 /\ dialect' = d
  /\ IF body.ok
     THEN phase' = "posted" /\ wire' = body.value /\ outcome' = Null
     ELSE phase' = "returned" /\ wire' = Null /\ outcome' = body
  /\ parsed' = Null /\ chat' = Null /\ answer' = Null /\ resp' = Null
  /\ UNCHANGED <<caller, own>>

(* The connection breaks, or what comes back is no reply *)
Lose ==
  /\ phase \in {"posted", "asked", "replied"} /\ own
  /\ phase' = "returned" /\ outcome' = Err(Error("Transport"))
  /\ UNCHANGED <<caller, server, dialect, own, wire, resp, sends>>

Receive ==
  /\ phase = "replied" /\ own
  /\ outcome' = IF resp.status \in 200 .. 299 THEN Ok(ReadReply(dialect, resp.body))
                ELSE Err(error_from_wire(resp.status, resp.body))
  /\ phase' = "returned"
  /\ UNCHANGED <<caller, server, dialect, own, wire, resp, sends>>

(* What the caller says to a turn.  A style is what the user remarks, <<>> *)
(* for nothing; whether that comes before the results of the calls;        *)
(* whether the calls failed; and whether the turn is marked for caching.   *)
Results(calls, failed) ==
  [k \in DOMAIN calls |-> ToolResult(calls[k].id, Str(<<"out", ToString(k)>>), failed)]

Follow(turn, style) ==
  LET results == Results(OfType(turn.items, {"tool_call"}), style.failed)
      said == IF style.remark = <<>> THEN <<>> ELSE <<Text(style.remark)>>
      items == IF style.first THEN said \o results ELSE results \o said
  IN  IF items = <<>> THEN <<>> ELSE <<Message("user", items)>>

(* The marker goes on the last item of the turn *)
Keeping(turn, style) ==
  IF style.mark
  THEN [turn EXCEPT !.cc =
          [k \in DOMAIN turn.items |-> IF k = Len(turn.items) THEN "mark" ELSE Null]]
  ELSE turn

(* A call without an id cannot be answered; to say nothing is to ask for   *)
(* more of a turn that was cut                                             *)
Continue(style) ==
  LET turn == outcome.value.message
      calls == OfType(turn.items, {"tool_call"})
  IN  /\ phase = "returned" /\ own /\ outcome.ok /\ sends < MaxSends
      /\ Null \notin CallIds(turn.items)
      /\ calls # <<>> \/ style.remark # <<>> \/ outcome.value.finish = "length"
      /\ req' = [req EXCEPT !.messages = @ \o <<Keeping(turn, style)>> \o Follow(turn, style)]
      /\ told' = Append(told, [dialect |-> dialect, answer |-> answer.value])
      /\ phase' = "idle" /\ outcome' = Null /\ wire' = Null /\ resp' = Null
      /\ parsed' = Null /\ chat' = Null /\ answer' = Null
      /\ UNCHANGED <<dialect, own, sends>>

(* A body some other client posts *)
Arrive(d, body) ==
  /\ phase = "idle" /\ sends = 0
  /\ phase' = "posted" /\ own' = FALSE /\ dialect' = d /\ wire' = body
  /\ UNCHANGED <<caller, server, resp, outcome, sends>>

-----------------------------------------------------------------------------
(* The server *)
Refuse(e) == resp' = Envelope(dialect, e) /\ phase' = "replied" /\ UNCHANGED <<chat, answer>>

(* A handler that panics sends no response, and its connection is gone *)
Ingest ==
  LET p == Parse(dialect, wire)
      c == IF p.ok THEN items_to_chat_request(p.value) ELSE p
  IN  /\ phase = "posted"
      /\ parsed' = IF p.ok THEN p.value ELSE Null
      /\ \/ c.ok /\ chat' = c.value /\ phase' = "asked" /\ UNCHANGED <<answer, resp, outcome>>
         \/ ~c.ok /\ c # Panic /\ Refuse(c.error) /\ UNCHANGED outcome
         \/ /\ c = Panic /\ phase' = "returned" /\ outcome' = Err(Error("Transport"))
            /\ UNCHANGED <<chat, answer, resp>>
      /\ UNCHANGED <<caller, dialect, own, wire, sends>>

(* Response ids are unique, and so are the ids of Anthropic's calls; other *)
(* upstreams count their calls anew in every message                       *)
Stamped(a) ==
  [a EXCEPT !.id = sends,
            !.tool_calls = IF @ = Null THEN Null
                           ELSE [k \in DOMAIN @ |->
                                   IF @[k].id # Null /\ @[k].id.kind = "toolu"
                                   THEN [@[k] EXCEPT !.id.msg = sends] ELSE @[k]]]

Answer(a) ==
  /\ phase = "asked"
  /\ answer' = Ok(Stamped(a))
  /\ resp' = [status |-> 200, body |-> ReplyBody(dialect, Stamped(a), parsed)]
  /\ phase' = "replied"
  /\ UNCHANGED <<caller, dialect, own, wire, parsed, chat, outcome, sends>>

Fail(e) ==
  /\ phase = "asked"
  /\ answer' = Err(e)
  /\ resp' = Envelope(dialect, e)
  /\ phase' = "replied"
  /\ UNCHANGED <<caller, dialect, own, wire, parsed, chat, outcome, sends>>

Next ==
  \/ \E d \in Dialects : Send(d)
  \/ \E d \in DOMAIN Foreign : \E body \in Foreign[d] : Arrive(d, body)
  \/ Ingest
  \/ \E a \in Answers[sends] : Answer(a)
  \/ \E e \in Failures[sends] : Fail(e)
  \/ Receive
  \/ Lose
  \/ \E style \in Styles : Continue(style)

Spec == Init /\ [][Next]_vars
=============================================================================
