---------------------------- MODULE Exchange_proofs ----------------------------
(***************************************************************************)
(* What a caller of DialectClient::send may rely on in every conversation, *)
(* whatever is said, answered or posted, and however many calls it takes:  *)
(* the turn, the tokens, the verdict and the failure it is told of are the *)
(* engine's, its cache markers arrive where it put them, and the engine    *)
(* sees no result before its call.                                         *)
(***************************************************************************)
EXTENDS ExchangeContent, StopWindowLemmas

-----------------------------------------------------------------------------
(* Failures *)
Failure(e) ==
  \/ e.kind \in Kinds
  \/ /\ e.kind = "Upstream" /\ e.body # "upstream returned status"
     /\ e.status \in Nat /\ e.status \notin 200 .. 299

LEMMA KindStatus ==
  ASSUME NEW e, e.kind \in Kinds
  PROVE  /\ http_status(e) \in {401, 429, 403, 404, 503, 502, 400, 500}
         /\ http_status(e) = 401 <=> e.kind = "Unauthorized"
         /\ http_status(e) = 429 <=> e.kind = "RateLimited"
<1>1. PICK k : k = e.kind
  OBVIOUS
<1>2. PICK n : n = http_status(e)
  OBVIOUS
<1>3. n = CASE k = "Unauthorized" -> 401
            [] k = "RateLimited" -> 429
            [] k \in {"BudgetExceeded", "ModelNotAllowed"} -> 403
            [] k = "UnknownModel" -> 404
            [] k = "NoHealthyDeployment" -> 503
            [] k = "Transport" -> 502
            [] k = "Upstream" -> e.status
            [] k = "BadRequest" -> 400
            [] k = "Internal" -> 500
  BY <1>1, <1>2, Zenon DEF http_status
<1>4. k \in Kinds
  BY <1>1
<1>5. \/ k = "Unauthorized" /\ n = 401
      \/ k = "RateLimited" /\ n = 429
      \/ k \in Kinds \ {"Unauthorized", "RateLimited"} /\ n \in {403, 404, 503, 502, 400, 500}
  BY <1>3, <1>4 DEF Kinds
<1> QED
  BY <1>1, <1>2, <1>5

LEMMA UpstreamStatus ==
  ASSUME NEW e, e.kind = "Upstream"
  PROVE  http_status(e) = e.status
BY DEF http_status

(* The statuses of failures are not those of replies *)
LEMMA FailureStatus ==
  ASSUME NEW e, Failure(e)
  PROVE  http_status(e) \in Nat /\ http_status(e) \notin 200 .. 299
<1>1. CASE e.kind \in Kinds
  BY <1>1, KindStatus
<1>2. CASE e.kind = "Upstream" /\ e.status \in Nat /\ e.status \notin 200 .. 299
  BY <1>2, UpstreamStatus
<1> QED
  BY <1>1, <1>2 DEF Failure

LEMMA EnvelopeStatus ==
  ASSUME NEW e, Failure(e), NEW d
  PROVE  Envelope(d, e).status \notin 200 .. 299
<1>1. error_json(e).status \notin 200 .. 299
  BY FailureStatus DEF error_json
<1>2. error_response(e).status \notin 200 .. 299
  BY FailureStatus DEF error_response
<1> QED
  BY <1>1, <1>2 DEF Envelope

(* The message of an envelope is the crate's own *)
LEMMA EnvelopeMessage ==
  ASSUME NEW e, Failure(e), NEW d, e.kind = "Upstream"
  PROVE  Envelope(d, e).body.message # e.body
<1>1. Wording(e) # e.body
  BY DEF Failure, Wording, Kinds
<1>2. error_json(e).body.message = Wording(e) /\ error_response(e).body.message = Wording(e)
  BY DEF error_json, error_response
<1> QED
  BY <1>1, <1>2 DEF Envelope

(* What a client of Anthropic makes of an envelope *)
LEMMA AnthropicKinds ==
  ASSUME NEW e, Failure(e), NEW w, w = error_json(e),
         NEW got, got = error_from_wire(w.status, w.body)
  PROVE  got.kind = Meant(e) /\ (got.kind = "Upstream" => got.status = http_status(e))
<1> DEFINE type == anthropic_error_type(w.status)
<1>1. /\ w.status = (IF e.kind = "BudgetExceeded" THEN 429 ELSE http_status(e))
      /\ w.body.type = type
  BY DEF error_json
<1>2. /\ type = "authentication_error" <=> w.status = 401
      /\ type = "rate_limit_error" <=> w.status = 429
      /\ type \notin {"invalid_api_key", "rate_limit_exceeded", "tokens", "requests"}
  BY DEF anthropic_error_type
<1> HIDE DEF type
<1>3. /\ w.status = 401 => got.kind = "Unauthorized"
      /\ w.status = 429 => got.kind = "RateLimited"
      /\ w.status \notin {401, 429} => got.kind = "Upstream" /\ got.status = w.status
  BY <1>1, <1>2 DEF error_from_wire, Error, Upstream
<1>4. CASE e.kind = "Upstream"
  <2>1. http_status(e) = e.status /\ w.status = e.status
    BY <1>1, <1>4, UpstreamStatus
  <2>2. Meant(e) = IF e.status = 429 THEN "RateLimited"
                   ELSE IF e.status = 401 THEN "Unauthorized" ELSE "Upstream"
    BY <1>4 DEF Meant
  <2>3. CASE e.status \in {401, 429}
    BY <1>3, <2>1, <2>2, <2>3
  <2>4. CASE e.status \notin {401, 429}
    BY <1>3, <2>1, <2>2, <2>4
  <2> QED
    BY <2>3, <2>4
<1>5. CASE e.kind \in Kinds
  <2>1. e.kind = "BudgetExceeded" => w.status = 429 /\ Meant(e) = "RateLimited"
    BY <1>1 DEF Meant
  <2>2. e.kind # "BudgetExceeded" =>
          /\ w.status = http_status(e)
          /\ Meant(e) = IF e.kind \in {"Unauthorized", "RateLimited"} THEN e.kind ELSE "Upstream"
    BY <1>1, <1>5 DEF Meant, Kinds
  <2>3. /\ http_status(e) = 401 <=> e.kind = "Unauthorized"
        /\ http_status(e) = 429 <=> e.kind = "RateLimited"
    BY <1>5, KindStatus
  <2> QED
    BY <1>3, <2>1, <2>2, <2>3
<1> QED
  BY <1>4, <1>5 DEF Failure

-----------------------------------------------------------------------------
(* Replies *)
Counts == [input : Nat, output : Nat, cached_read : Nat, cache_write : Nat,
           reasoning : Nat \cup {Null}]

(* What an answer is made of *)
Worth(a) ==
  /\ a.content \in Seq(STRING)
  /\ a.thinking_blocks \in {Null} \cup Seq(EngineBlocks)
  /\ a.tool_calls # Null => a.tool_calls \in Seq(ToSet(a.tool_calls))

Good(a) == Worth(a) /\ a.usage \in Counts /\ a.finish # "max_tokens"

(* The response id and the ids of the calls are all that is stamped *)
LEMMA StampedKeeps ==
  ASSUME NEW n \in 0 .. MaxSends, NEW a \in Answers[n]
  PROVE  Good(Stamped(a))
<1>1. /\ {"id", "thinking_blocks", "content", "tool_calls", "usage", "finish"} \subseteq DOMAIN a
      /\ a.usage \in Counts /\ a.finish # "max_tokens"
      /\ Worth(a)
  BY AnswersAssumption DEF Counts, Worth
<1>2. PICK calls :
        calls = IF a.tool_calls = Null THEN Null
                ELSE [k \in DOMAIN a.tool_calls |->
                        IF a.tool_calls[k].id # Null /\ a.tool_calls[k].id.kind = "toolu"
                        THEN [a.tool_calls[k] EXCEPT !.id.msg = sends] ELSE a.tool_calls[k]]
  OBVIOUS
<1>3. Stamped(a) = [a EXCEPT !.id = sends, !.tool_calls = calls]
  BY <1>1, <1>2 DEF Stamped
<1>4. /\ Stamped(a).usage = a.usage /\ Stamped(a).finish = a.finish
      /\ Stamped(a).content = a.content /\ Stamped(a).thinking_blocks = a.thinking_blocks
      /\ Stamped(a).tool_calls = calls
  BY <1>1, <1>3
<1>5. calls # Null => calls \in Seq(ToSet(calls))
  <2>1. CASE a.tool_calls # Null
    <3>1. PICK n1 \in Nat : DOMAIN a.tool_calls = 1 .. n1
      BY <1>1, <2>1 DEF Worth
    <3>2. DOMAIN calls = 1 .. n1 /\ calls = [k \in 1 .. n1 |-> calls[k]]
      BY <1>2, <2>1, <3>1
    <3>3. calls \in [1 .. n1 -> ToSet(calls)]
      BY <3>2 DEF ToSet
    <3> QED
      BY <3>3
  <2> QED
    BY <1>2, <2>1
<1> QED
  BY <1>1, <1>4, <1>5 DEF Good, Worth

(* Marking a stop sequence leaves the usage alone *)
LEMMA MarkKeeps ==
  ASSUME NEW out, {"content", "stop_reason", "stop_sequence", "usage"} \subseteq DOMAIN out,
         NEW s, NEW body, body = mark_stop_sequence(out, s)
  PROVE  /\ body.usage = out.usage
         /\ body.stop_sequence = s /\ body.stop_reason = "stop_sequence"
BY DEF mark_stop_sequence

LEMMA EchoKeeps ==
  ASSUME NEW out, {"content", "stop_reason", "stop_sequence", "usage"} \subseteq DOMAIN out,
         NEW r, NEW stop_sequences,
         NEW body, body = apply_stop_sequence_echo(out, r, stop_sequences)
  PROVE  /\ body.usage = out.usage
         /\ \/ body = out
            \/ /\ r.finish = "stop" /\ body.stop_reason = "stop_sequence"
               /\ body.stop_sequence \in ToSet(Orelse(stop_sequences, <<>>))
<1> DEFINE stops == Orelse(stop_sequences, <<>>)
           hits == {k \in DOMAIN stops : stops[k] # <<>> /\ Echoes(out, stops[k])}
           first == {k \in hits : \A j \in hits : k <= j}
           s == stops[CHOOSE k \in first : TRUE]
           cut == [out EXCEPT !.content = strip_stop_from_blocks(@, s)]
<1>1. \/ body = out
      \/ /\ r.finish = "stop" /\ r.matched_stop \in ToSet(stops)
         /\ body = mark_stop_sequence(out, r.matched_stop)
      \/ r.finish = "stop" /\ first # {} /\ body = mark_stop_sequence(cut, s)
  BY Zenon DEF apply_stop_sequence_echo
<1>2. CASE /\ r.finish = "stop" /\ r.matched_stop \in ToSet(stops)
           /\ body = mark_stop_sequence(out, r.matched_stop)
  <2>1. /\ body.usage = out.usage
        /\ body.stop_sequence = r.matched_stop /\ body.stop_reason = "stop_sequence"
    BY <1>2, MarkKeeps
  <2> QED
    BY <1>2, <2>1
<1>3. CASE r.finish = "stop" /\ first # {} /\ body = mark_stop_sequence(cut, s)
  <2>1. (CHOOSE k \in first : TRUE) \in DOMAIN stops
    BY <1>3
  <2>2. s \in ToSet(stops)
    BY <2>1, Zenon DEF ToSet
  <2>3. DOMAIN cut = DOMAIN out /\ cut.usage = out.usage
    OBVIOUS
  <2> HIDE DEF s, cut
  <2>4. /\ body.usage = cut.usage
        /\ body.stop_sequence = s /\ body.stop_reason = "stop_sequence"
    <3>1. {"content", "stop_reason", "stop_sequence", "usage"} \subseteq DOMAIN cut
      BY <2>3
    <3> QED
      BY <1>3, <3>1, MarkKeeps
  <2> QED
    BY <1>3, <2>2, <2>3, <2>4, Zenon
<1> QED
  BY <1>1, <1>2, <1>3

UsageKept(d, got, said) ==
  LET cached == said.cached_read + said.cache_write
  IN  /\ got.output = said.output
      /\ got.input = IF d = "Anthropic" /\ cached > said.input THEN cached ELSE said.input
      /\ d # "OpenAiResponses" =>
           got.cached_read = said.cached_read /\ got.cache_write = said.cache_write

VerdictKept(d, got, a, stop_sequences) ==
  /\ got.finish = "length" <=> a.finish = "length"
  /\ IF d = "Anthropic"
     THEN a.finish = "content_filter" => got.finish = "stop"
     ELSE got.finish = "content_filter" <=> a.finish = "content_filter"
  /\ got.stop_sequence # Null => /\ a.finish = "stop"
                                 /\ got.stop_sequence \in ToSet(Orelse(stop_sequences, <<>>))

(* Taking the cache off the input and adding it again *)
LEMMA FreshRoundTrip ==
  ASSUME NEW u \in Counts
  PROVE  /\ Fresh(u) \in Nat
         /\ Fresh(u) + u.cached_read + u.cache_write
              = IF u.cached_read + u.cache_write > u.input
                THEN u.cached_read + u.cache_write ELSE u.input
<1>1. PICK i \in Nat, r \in Nat, w \in Nat :
        u.input = i /\ u.cached_read = r /\ u.cache_write = w
  BY DEF Counts
<1>2. Fresh(u) = IF r + w > i THEN 0 ELSE i - (r + w)
  BY <1>1 DEF Fresh
<1> QED
  BY <1>1, <1>2

(* A stop reason of Anthropic is max_tokens for a turn cut at the cap      *)
(* only, and a refusal, which the client reads as a stop, for a filtered   *)
(* one                                                                     *)
LEMMA StopReasonRoundTrip ==
  ASSUME NEW fr, fr # "max_tokens", fr # Null,
         NEW reason, reason = map_stop_reason_outbound(fr)
  PROVE  /\ reason # Null
         /\ map_stop_reason_inbound(reason) = "length" <=> fr = "length"
         /\ fr = "content_filter" => map_stop_reason_inbound(reason) = "stop"
<1>1. /\ reason \in {"end_turn", "max_tokens", "tool_use", "refusal", "stop_sequence", "pause_turn"}
      /\ reason = "max_tokens" <=> fr = "length"
      /\ fr = "content_filter" => reason = "refusal"
  BY DEF map_stop_reason_outbound
<1>2. /\ map_stop_reason_inbound(reason) = "length" <=> reason = "max_tokens"
      /\ reason = "refusal" => map_stop_reason_inbound(reason) = "stop"
  BY DEF map_stop_reason_inbound
<1> QED
  BY <1>1, <1>2, NullAssumption

LEMMA AnthropicKept ==
  ASSUME NEW a, Good(a), NEW stop_sequences,
         NEW body,
         body = apply_stop_sequence_echo(response_from_canonical(a), a, stop_sequences),
         NEW got, got = AnthropicReply(body)
  PROVE  /\ UsageKept("Anthropic", got.usage, a.usage)
         /\ VerdictKept("Anthropic", got, a, stop_sequences)
<1> DEFINE u == a.usage
<1>1. PICK out : out = response_from_canonical(a)
  OBVIOUS
<1>2. /\ DOMAIN out = {"content", "stop_reason", "stop_sequence", "usage"}
      /\ out.stop_reason = (IF a.finish = Null THEN Null ELSE map_stop_reason_outbound(a.finish))
      /\ out.stop_sequence = Null
      /\ out.usage = [input |-> Fresh(u), output |-> u.output,
                      cached_read |-> u.cached_read, cache_write |-> u.cache_write]
  BY <1>1 DEF response_from_canonical
<1>3. /\ body.usage = out.usage
      /\ \/ body = out
         \/ /\ a.finish = "stop" /\ body.stop_reason = "stop_sequence"
            /\ body.stop_sequence \in ToSet(Orelse(stop_sequences, <<>>))
  <2>1. {"content", "stop_reason", "stop_sequence", "usage"} \subseteq DOMAIN out
    BY <1>2
  <2>2. body = apply_stop_sequence_echo(out, a, stop_sequences)
    BY <1>1
  <2> QED
    BY <2>1, <2>2, EchoKeeps
<1>4. UsageKept("Anthropic", got.usage, u)
  <2>1. /\ got.usage.input = Fresh(u) + u.cached_read + u.cache_write
        /\ got.usage.output = u.output
        /\ got.usage.cached_read = u.cached_read /\ got.usage.cache_write = u.cache_write
    BY <1>2, <1>3 DEF AnthropicReply
  <2>2. u \in Counts
    BY DEF Good
  <2> QED
    BY <2>1, <2>2, FreshRoundTrip DEF UsageKept
<1>5. /\ got.stop_sequence = body.stop_sequence
      /\ got.finish = (IF body.stop_reason = Null THEN Null
                       ELSE map_stop_reason_inbound(body.stop_reason))
  BY DEF AnthropicReply
<1>6. CASE body = out
  <2>1. CASE a.finish = Null
    <3>1. got.finish = Null /\ got.stop_sequence = Null
      BY <1>2, <1>5, <1>6, <2>1
    <3> QED
      BY <1>4, <2>1, <3>1, NullAssumption DEF VerdictKept
  <2>2. CASE a.finish # Null
    <3>1. PICK reason : reason = map_stop_reason_outbound(a.finish)
      OBVIOUS
    <3>2. /\ reason # Null
          /\ map_stop_reason_inbound(reason) = "length" <=> a.finish = "length"
          /\ a.finish = "content_filter" => map_stop_reason_inbound(reason) = "stop"
      BY <2>2, <3>1, StopReasonRoundTrip DEF Good
    <3>3. body.stop_reason = reason /\ body.stop_sequence = Null
      BY <1>2, <1>6, <2>2, <3>1
    <3>4. got.finish = map_stop_reason_inbound(reason) /\ got.stop_sequence = Null
      BY <1>5, <3>2, <3>3
    <3> QED
      BY <1>4, <3>2, <3>4 DEF VerdictKept
  <2> QED
    BY <1>4, <2>1, <2>2
<1>7. CASE /\ a.finish = "stop" /\ body.stop_reason = "stop_sequence"
           /\ body.stop_sequence \in ToSet(Orelse(stop_sequences, <<>>))
  <2>1. got.finish = "stop"
    BY <1>5, <1>7, NullAssumption DEF map_stop_reason_inbound
  <2> QED
    BY <1>4, <1>5, <1>7, <2>1 DEF VerdictKept
<1> QED
  BY <1>3, <1>6, <1>7

LEMMA ResponsesKept ==
  ASSUME NEW a, Good(a), NEW stop_sequences,
         NEW body, body = responses_body_from_chat(a),
         NEW got, got = ResponsesReply(body)
  PROVE  /\ UsageKept("OpenAiResponses", got.usage, a.usage)
         /\ VerdictKept("OpenAiResponses", got, a, stop_sequences)
<1>1. /\ body.usage.input = a.usage.input /\ body.usage.output = a.usage.output
      /\ body.status = (IF a.finish \in {"length", "content_filter"} THEN "incomplete" ELSE "completed")
      /\ body.reason = (CASE a.finish = "length" -> "max_output_tokens"
                          [] a.finish = "content_filter" -> "content_filter"
                          [] OTHER -> Null)
  BY DEF responses_body_from_chat
<1>2. /\ got.usage.input = body.usage.input /\ got.usage.output = body.usage.output
      /\ got.stop_sequence = Null
      /\ body.status = "completed" => got.finish \in {"tool_calls", "stop"}
      /\ body.status # "completed" =>
           /\ got.finish = "length" <=> body.reason = "max_output_tokens"
           /\ got.finish = "content_filter" <=> body.reason = "content_filter"
  <2> DEFINE items == FlattenSeq([k \in DOMAIN body.output |-> OutputItems(body.output[k])])
             verdict == CASE body.status = "completed" ->
                              (IF CallIds(items) # {} THEN "tool_calls" ELSE "stop")
                         [] body.reason = "max_output_tokens" -> "length"
                         [] body.reason = "content_filter" -> "content_filter"
                         [] OTHER -> "stop"
  <2>1. got = [message |-> Message("assistant", items),
               usage |-> [input |-> body.usage.input, output |-> body.usage.output,
                          cached_read |-> 0, cache_write |-> 0, reasoning |-> body.usage.reasoning],
               finish |-> verdict, stop_sequence |-> Null]
    BY Zenon DEF ResponsesReply
  <2> HIDE DEF items
  <2>2. /\ body.status = "completed" => verdict \in {"tool_calls", "stop"}
        /\ body.status # "completed" =>
             /\ verdict = "length" <=> body.reason = "max_output_tokens"
             /\ verdict = "content_filter" <=> body.reason = "content_filter"
    <3>1. PICK called, st, rs : called = CallIds(items) /\ st = body.status /\ rs = body.reason
      OBVIOUS
    <3>2. verdict = CASE st = "completed" -> (IF called # {} THEN "tool_calls" ELSE "stop")
                     [] rs = "max_output_tokens" -> "length"
                     [] rs = "content_filter" -> "content_filter"
                     [] OTHER -> "stop"
      BY <3>1, Zenon
    <3> HIDE DEF verdict
    <3>3. st = "completed" => rs \notin {"max_output_tokens", "content_filter"}
      BY <1>1, <3>1, NullAssumption
    <3> QED
      BY <3>1, <3>2, <3>3
  <2> HIDE DEF verdict
  <2> QED
    BY <2>1, <2>2
<1> QED
  BY <1>1, <1>2, NullAssumption DEF UsageKept, VerdictKept

LEMMA ChatKept ==
  ASSUME NEW a, Good(a), NEW stop_sequences, NEW got, got = ChatReply(a)
  PROVE  /\ UsageKept("OpenAiChat", got.usage, a.usage)
         /\ VerdictKept("OpenAiChat", got, a, stop_sequences)
<1>1. /\ got.usage = [a.usage EXCEPT !.reasoning = Null]
      /\ got.finish = a.finish /\ got.stop_sequence = Null
  BY DEF ChatReply
<1>2. a.usage \in Counts
  BY DEF Good
<1>3. /\ got.usage.input = a.usage.input /\ got.usage.output = a.usage.output
      /\ got.usage.cached_read = a.usage.cached_read /\ got.usage.cache_write = a.usage.cache_write
  BY <1>1, <1>2 DEF Counts
<1> QED
  BY <1>1, <1>3 DEF UsageKept, VerdictKept

(* Whatever the dialect, the reply the client reads keeps the engine's     *)
(* counts and verdict                                                      *)
LEMMA ReplyKept ==
  ASSUME NEW d \in {"Anthropic", "OpenAiChat", "OpenAiResponses"}, NEW a, Good(a), NEW r,
         NEW got, got = ReadReply(d, ReplyBody(d, a, r))
  PROVE  UsageKept(d, got.usage, a.usage) /\ VerdictKept(d, got, a, r.stop_sequences)
<1>1. CASE d = "Anthropic"
  <2>1. PICK body :
          body = apply_stop_sequence_echo(response_from_canonical(a), a, r.stop_sequences)
    OBVIOUS
  <2>2. got = AnthropicReply(body)
    BY <1>1, <2>1 DEF ReadReply, ReplyBody
  <2> QED
    BY <1>1, <2>1, <2>2, AnthropicKept
<1>2. CASE d = "OpenAiResponses"
  <2>1. PICK body : body = responses_body_from_chat(a)
    OBVIOUS
  <2>2. got = ResponsesReply(body)
    BY <1>2, <2>1 DEF ReadReply, ReplyBody
  <2> QED
    BY <1>2, <2>1, <2>2, ResponsesKept
<1>3. CASE d = "OpenAiChat"
  <2>1. got = ChatReply(a)
    BY <1>3 DEF ReadReply, ReplyBody
  <2> QED
    BY <1>3, <2>1, ChatKept
<1> QED
  BY <1>1, <1>2, <1>3

-----------------------------------------------------------------------------
(* Turns *)
(* What the types of the code make of the items of a turn *)
Sound(items) == \E S : Of(items, S) /\ \A it \in S : WellMade(it)

(* What a turn says: t in words and c in calls, after n thoughts *)
Shows(items, t, c, n) ==
  /\ Sound(items)
  /\ TextOf(items, {"text"}) = t
  /\ OfType(items, {"tool_call"}) = c
  /\ Len(OfType(items, {"thinking"})) = n
  /\ \A i, j \in DOMAIN items : items[i].type = "thinking" /\ items[j].type # "thinking" => i < j

(* Texts of X are texts *)
NoNull(X) == Null \notin Seq(X)

(* OfType, item by item *)
Pick(types, S) == [it \in S |-> IF it.type \in types THEN One(it) ELSE Nil]

LEMMA PickMaps ==
  ASSUME NEW S, NEW types
  PROVE  MapsTo(Pick(types, S), S, S)
<1>1. ASSUME NEW it \in S PROVE (IF it.type \in types THEN One(it) ELSE Nil) \in Seq(S)
  BY OneOf DEF Of
<1> QED
  BY <1>1 DEF MapsTo, Pick

LEMMA OfTypeIs ==
  ASSUME NEW S, NEW types, NEW q, Of(q, S)
  PROVE  OfType(q, types) = Along(Pick(types, S), q)
<1> DEFINE h == [k \in DOMAIN q |-> IF q[k].type \in types THEN <<q[k]>> ELSE <<>>]
           g == [k \in DOMAIN q |-> Pick(types, S)[q[k]]]
<1>1. ASSUME NEW k \in DOMAIN q PROVE h[k] = g[k]
  <2>1. q[k] \in S
    BY DEF Of
  <2> QED
    BY <2>1 DEF Pick, One, Nil
<1>2. h = g
  BY <1>1
<1>3. FlattenSeq(g) = Along(Pick(types, S), q)
  BY AlongIs
<1> QED
  BY <1>2, <1>3 DEF OfType, Filter

LEMMA OfTypeNone ==
  ASSUME NEW S, NEW types, NEW T, T \subseteq S, NEW q, Of(q, T),
         \A it \in T : it.type \notin types
  PROVE  Along(Pick(types, S), q) = Nil
<1>1. \A it \in T : Pick(types, S)[it] = Nil
  BY DEF Pick
<1>2. MapsTo(Pick(types, S), S, S)
  BY PickMaps
<1> QED
  BY <1>1, <1>2, AlongNone

LEMMA OfTypeSame ==
  ASSUME NEW S, NEW types, NEW T, T \subseteq S, NEW q, Of(q, T),
         \A it \in T : it.type \in types
  PROVE  Along(Pick(types, S), q) = q
<1>1. \A it \in T : Pick(types, S)[it] = One(it)
  BY DEF Pick
<1>2. MapsTo(Pick(types, S), S, S)
  BY PickMaps
<1> QED
  BY <1>1, <1>2, AlongSame

LEMMA TextOfOne ==
  ASSUME NEW X, NEW t, Of(t, X), NEW some, some = One(Text(t))
  PROVE  FlattenSeq([k \in DOMAIN some |-> some[k].text]) = t
<1> DEFINE W == [it \in {Text(t)} |-> t]
<1>1. MapsTo(W, {Text(t)}, X)
  BY DEF MapsTo, Of
<1>2. Of(some, {Text(t)})
  BY OneOf
<1>3. [k \in DOMAIN some |-> some[k].text] = [k \in DOMAIN some |-> W[some[k]]]
  BY DEF One, Text
<1>4. FlattenSeq([k \in DOMAIN some |-> W[some[k]]]) = Along(W, some)
  BY AlongIs
<1>5. Along(W, some) = W[Text(t)]
  <2> HIDE DEF W
  <2> QED
    BY <1>1, AlongSingle
<1> QED
  BY <1>3, <1>4, <1>5

LEMMA TextOfNone ==
  ASSUME NEW some, some = Nil
  PROVE  FlattenSeq([k \in DOMAIN some |-> some[k].text]) = Nil
<1> DEFINE W == [it \in {} |-> Nil]
<1>1. [k \in DOMAIN some |-> some[k].text] = [k \in DOMAIN some |-> W[some[k]]]
  BY DEF Nil
<1>2. FlattenSeq([k \in DOMAIN some |-> W[some[k]]]) = Along(W, some)
  BY AlongIs
<1> QED
  BY <1>1, <1>2, AlongNil

LEMMA TurnShows ==
  ASSUME NEW P, NEW a, Of(a, P), \A it \in P : it.type = "thinking",
         NEW R, NEW c, Of(c, R), \A it \in R : it.type = "tool_call",
         NEW X, NoNull(X), NEW t, Of(t, X), NEW b, b = (IF t = Nil THEN Nil ELSE One(Text(t))),
         NEW items, items = Cat(Cat(a, b), c)
  PROVE  Shows(items, t, c, Len(a))
<1> DEFINE Q == {Text(t)}
           S == P \cup Q \cup R
<1>1. P \subseteq S /\ Q \subseteq S /\ R \subseteq S /\ Q \cup R \subseteq S
  OBVIOUS
<1>2. \A it \in Q : it.type = "text"
  BY DEF Text
<1>3. Of(b, Q)
  BY OneOf
<1> HIDE DEF Q, S
<1>4. Of(a, S) /\ Of(b, S) /\ Of(c, S)
  BY <1>1, <1>3, OfWider
<1>5. Of(Cat(a, b), S) /\ Of(Cat(b, c), S) /\ Of(items, S)
  BY <1>4, CatOf
<1>6. ASSUME NEW types
      PROVE  OfType(items, types) = Cat(Cat(Along(Pick(types, S), a), Along(Pick(types, S), b)),
                                        Along(Pick(types, S), c))
  <2>1. MapsTo(Pick(types, S), S, S)
    BY PickMaps
  <2>2. OfType(items, types) = Along(Pick(types, S), items)
    BY <1>5, OfTypeIs
  <2>3. Along(Pick(types, S), items) = Cat(Along(Pick(types, S), Cat(a, b)), Along(Pick(types, S), c))
    BY <1>4, <1>5, <2>1, AlongCat
  <2>4. Along(Pick(types, S), Cat(a, b)) = Cat(Along(Pick(types, S), a), Along(Pick(types, S), b))
    BY <1>4, <2>1, AlongCat
  <2> QED
    BY <2>2, <2>3, <2>4
<1>7. Cat(Nil, Nil) = Nil
  <2>1. Of(Nil, S)
    BY NilOf
  <2> QED
    BY <2>1, CatNil
<1>8. OfType(items, {"tool_call"}) = c
  <2>1. Along(Pick({"tool_call"}, S), a) = Nil
    <3>1. \A it \in P : it.type \notin {"tool_call"}
      OBVIOUS
    <3> QED
      BY <1>1, <3>1, OfTypeNone
  <2>2. Along(Pick({"tool_call"}, S), b) = Nil
    <3>1. \A it \in Q : it.type \notin {"tool_call"}
      BY <1>2
    <3> QED
      BY <1>1, <1>3, <3>1, OfTypeNone
  <2>3. Along(Pick({"tool_call"}, S), c) = c
    <3>1. \A it \in R : it.type \in {"tool_call"}
      OBVIOUS
    <3> QED
      BY <1>1, <3>1, OfTypeSame
  <2>4. Cat(Nil, c) = c
    BY <1>4, CatNil
  <2> QED
    BY <1>6, <1>7, <2>1, <2>2, <2>3, <2>4
<1>9. OfType(items, {"thinking"}) = a
  <2>1. Along(Pick({"thinking"}, S), a) = a
    <3>1. \A it \in P : it.type \in {"thinking"}
      OBVIOUS
    <3> QED
      BY <1>1, <3>1, OfTypeSame
  <2>2. Along(Pick({"thinking"}, S), b) = Nil
    <3>1. \A it \in Q : it.type \notin {"thinking"}
      BY <1>2
    <3> QED
      BY <1>1, <1>3, <3>1, OfTypeNone
  <2>3. Along(Pick({"thinking"}, S), c) = Nil
    <3>1. \A it \in R : it.type \notin {"thinking"}
      OBVIOUS
    <3> QED
      BY <1>1, <3>1, OfTypeNone
  <2>4. Cat(a, Nil) = a
    BY <1>4, CatNil
  <2> QED
    BY <1>6, <2>1, <2>2, <2>3, <2>4
<1>10. OfType(items, {"text"}) = b
  <2>1. Along(Pick({"text"}, S), a) = Nil
    <3>1. \A it \in P : it.type \notin {"text"}
      OBVIOUS
    <3> QED
      BY <1>1, <3>1, OfTypeNone
  <2>2. Along(Pick({"text"}, S), b) = b
    <3>1. \A it \in Q : it.type \in {"text"}
      BY <1>2
    <3> QED
      BY <1>1, <1>3, <3>1, OfTypeSame
  <2>3. Along(Pick({"text"}, S), c) = Nil
    <3>1. \A it \in R : it.type \notin {"text"}
      OBVIOUS
    <3> QED
      BY <1>1, <3>1, OfTypeNone
  <2>4. Cat(Nil, b) = b /\ Cat(b, Nil) = b
    BY <1>4, CatNil
  <2> QED
    BY <1>6, <2>1, <2>2, <2>3, <2>4
<1>11. TextOf(items, {"text"}) = t
  <2>1. TextOf(items, {"text"}) = FlattenSeq([k \in DOMAIN b |-> b[k].text])
    BY <1>10 DEF TextOf
  <2>2. CASE t = Nil
    BY <2>1, <2>2, TextOfNone
  <2>3. CASE t # Nil
    BY <2>1, <2>3, TextOfOne
  <2> QED
    BY <2>2, <2>3
<1>12. \A i, j \in DOMAIN items : items[i].type = "thinking" /\ items[j].type # "thinking" => i < j
  <2>1. items = Cat(a, Cat(b, c))
    BY <1>4, CatAssoc
  <2>2. Of(Cat(b, c), Q \cup R)
    <3>1. Q \subseteq Q \cup R /\ R \subseteq Q \cup R
      OBVIOUS
    <3>2. Of(b, Q \cup R) /\ Of(c, Q \cup R)
      BY <1>3, <3>1, OfWider
    <3> QED
      BY <3>2, CatOf
  <2>3. P \cap (Q \cup R) = {}
    BY <1>2
  <2>4. \A i, j \in DOMAIN items : items[i] \in P /\ items[j] \notin P => i < j
    BY <1>4, <1>5, <2>1, <2>2, <2>3, CatOrdered
  <2>5. \A i \in DOMAIN items : items[i] \in P <=> items[i].type = "thinking"
    <3>1. \A i \in DOMAIN items : items[i] \in S
      BY <1>5 DEF Of
    <3> QED
      BY <1>2, <3>1 DEF S
  <2> QED
    BY <2>4, <2>5
<1>13. Sound(items)
  <2>1. \A it \in S : WellMade(it)
    <3>1. t # Null
      BY DEF Of, NoNull
    <3>2. \A it \in Q : WellMade(it)
      BY <3>1 DEF Q, WellMade, Text
    <3>3. \A it \in P \cup R : WellMade(it)
      BY DEF WellMade
    <3> QED
      BY <3>2, <3>3 DEF S
  <2> QED
    BY <1>5, <2>1 DEF Sound
<1> QED
  BY <1>8, <1>9, <1>11, <1>12, <1>13 DEF Shows

(* The singletons of what g makes of the elements of S *)
Ones(g, S) == [x \in S |-> One(g[x])]

LEMMA OnesMap ==
  ASSUME NEW S, NEW Y, NEW g \in [S -> Y]
  PROVE  MapsTo(Ones(g, S), S, Y) /\ OneEach(Ones(g, S), g, S, Y)
<1>1. ASSUME NEW x \in S PROVE g[x] \in Y /\ One(g[x]) \in Seq(Y)
  BY OneOf DEF Of
<1> QED
  BY <1>1 DEF MapsTo, OneEach, Ones

(* A text, unless it is empty *)
Worded(t, x) == IF t = Nil THEN Nil ELSE One(x)

LEMMA WordedAlong ==
  ASSUME NEW S, NEW Y, NEW I, MapsTo(I, S, Y), NEW x, x \in S, NEW t, NEW y, I[x] = One(y)
  PROVE  Along(I, Worded(t, x)) = Worded(t, y)
<1>1. CASE t = Nil
  BY <1>1, AlongNil DEF Worded
<1>2. CASE t # Nil
  <2>1. Along(I, One(x)) = I[x]
    BY AlongSingle
  <2> QED
    BY <1>2, <2>1 DEF Worded
<1> QED
  BY <1>1, <1>2

ThinkingOnly(B) == \A b \in B : "type" \in DOMAIN b /\ b.type \in {"thinking", "redacted_thinking"}

UsesOnly(U) == \A u \in U : u.type = "tool_use"

TextBlockOf(t) == [type |-> "text", text |-> t]

(* Items that say t and make the calls us, after n thoughts *)
Presents(items, t, us, U, n) ==
  \E c : /\ Shows(items, t, c, n) /\ Of(c, {BlockItem(u) : u \in U})
         /\ Mirrors(c, us, [u \in U |-> BlockItem(u)])

(* The body of an Anthropic message: thinking, a text, calls *)
LEMMA BodyShows ==
  ASSUME NEW B, NEW bs, Of(bs, B), ThinkingOnly(B),
         NEW U, NEW us, Of(us, U), UsesOnly(U),
         NEW X, NoNull(X), NEW t, Of(t, X), NEW xs, xs = Worded(t, TextBlockOf(t)),
         NEW content, content = Cat(Cat(bs, xs), us),
         NEW items, items = [k \in DOMAIN content |-> BlockItem(content[k])]
  PROVE  Presents(items, t, us, U, Len(bs))
<1> DEFINE x == TextBlockOf(t)
           S == B \cup {x} \cup U
           Y == {BlockItem(b) : b \in S}
           g == [b \in S |-> BlockItem(b)]
           I == Ones(g, S)
<1>1. B \subseteq S /\ {x} \subseteq S /\ U \subseteq S /\ S \subseteq S /\ x \in S
  OBVIOUS
<1>2. g \in [S -> Y]
  OBVIOUS
<1>3. Of(xs, {x})
  BY OneOf, NilOf DEF Worded
<1>4. /\ \A b \in B : BlockItem(b).type = "thinking"
      /\ \A u \in U : BlockItem(u).type = "tool_call"
      /\ BlockItem(x) = Text(t)
  BY DEF BlockItem, Thinking, ToolCall, ThinkingOnly, UsesOnly, TextBlockOf
<1>5. \A b \in S : g[b] = BlockItem(b)
  OBVIOUS
<1>0. xs = Worded(t, x)
  OBVIOUS
<1> HIDE DEF x, S, Y, g
<1>6. MapsTo(I, S, Y) /\ OneEach(I, g, S, Y)
  BY <1>2, OnesMap
<1>7. \A b \in S : I[b] = One(g[b])
  BY DEF Ones
<1> HIDE DEF I
<1>8. Of(bs, S) /\ Of(xs, S) /\ Of(us, S)
  BY <1>1, <1>3, OfWider
<1>9. Of(Cat(bs, xs), S) /\ Of(content, S)
  BY <1>8, CatOf
<1>10. items = Along(I, content)
  <2>1. PICK h : h = [k \in DOMAIN content |-> g[content[k]]]
    OBVIOUS
  <2>2. \A k \in DOMAIN content : content[k] \in S
    BY <1>9 DEF Of
  <2>3. h = items
    BY <1>5, <2>1, <2>2
  <2>4. h = Along(I, content)
    BY <1>1, <1>6, <1>9, <2>1, EachIs
  <2> QED
    BY <2>3, <2>4
<1>11. items = Cat(Cat(Along(I, bs), Along(I, xs)), Along(I, us))
  <2>1. Along(I, content) = Cat(Along(I, Cat(bs, xs)), Along(I, us))
    BY <1>6, <1>8, <1>9, AlongCat
  <2>2. Along(I, Cat(bs, xs)) = Cat(Along(I, bs), Along(I, xs))
    BY <1>6, <1>8, AlongCat
  <2> QED
    BY <1>10, <2>1, <2>2
<1>15. Along(I, xs) = Worded(t, Text(t))
  <2>1. I[x] = One(g[x]) /\ g[x] = BlockItem(x)
    BY <1>1, <1>5, <1>7
  <2>2. I[x] = One(Text(t))
    BY <1>4, <2>1
  <2>3. MapsTo(I, S, Y) /\ x \in S
    BY <1>1, <1>6
  <2>4. Along(I, Worded(t, x)) = Worded(t, Text(t))
    BY <2>2, <2>3, WordedAlong
  <2> QED
    BY <1>0, <2>4
<1>12. PICK a, c : a = Along(I, bs) /\ c = Along(I, us)
  OBVIOUS
<1> DEFINE P == {BlockItem(b) : b \in B}
           R == {BlockItem(u) : u \in U}
           gu == [u \in U |-> BlockItem(u)]
<1>13. Of(a, P) /\ Len(a) = Len(bs)
  <2>1. \A b \in B : g[b] \in P /\ I[b] = One(g[b])
    BY <1>1, <1>5, <1>7
  <2> HIDE DEF P
  <2>2. OneEach(I, g, B, P)
    BY <2>1 DEF OneEach
  <2>3. Of(a, P) /\ Mirrors(a, bs, g)
    BY <1>1, <1>6, <1>12, <2>2, AlongEach
  <2> QED
    BY <2>3 DEF Mirrors
<1>14. Of(c, R) /\ Mirrors(c, us, gu)
  <2>1. \A u \in U : gu[u] \in R /\ I[u] = One(gu[u])
    BY <1>1, <1>5, <1>7
  <2> HIDE DEF R, gu
  <2>2. OneEach(I, gu, U, R)
    BY <2>1 DEF OneEach
  <2> QED
    BY <1>1, <1>6, <1>12, <2>2, AlongEach
<1>16. /\ \A it \in P : it.type = "thinking"
       /\ \A it \in R : it.type = "tool_call"
  BY <1>4
<1> HIDE DEF P, R
<1>17. Shows(items, t, c, Len(a))
  <2>1. PICK b : b = Worded(t, Text(t))
    OBVIOUS
  <2>2. items = Cat(Cat(a, b), c)
    BY <1>11, <1>12, <1>15, <2>1
  <2> QED
    BY <1>13, <1>14, <1>16, <2>1, <2>2, TurnShows DEF Worded
<1> QED
  BY <1>13, <1>14, <1>17 DEF R, Presents

(* What a suffix leaves, and the suffix, are the whole *)
LEMMA SuffixCut ==
  ASSUME NEW X, NEW s \in Seq(X), NEW t \in Seq(X), IsSuffix(s, t)
  PROVE  /\ Len(s) <= Len(t)
         /\ SubSeq(t, 1, Len(t) - Len(s)) \in Seq(X)
         /\ SubSeq(t, 1, Len(t) - Len(s)) \o s = t
<1>1. PICK m \in Nat, n \in Nat : m = Len(s) /\ n = Len(t)
  OBVIOUS
<1>2. PICK a, b : a = Reverse(s) /\ b = Reverse(t)
  OBVIOUS
<1>3. /\ a \in Seq(X) /\ Len(a) = m /\ \A i \in 1 .. m : a[i] = s[m - i + 1]
      /\ b \in Seq(X) /\ Len(b) = n /\ \A i \in 1 .. n : b[i] = t[n - i + 1]
  <2>1. a = [i \in 1 .. m |-> s[m - i + 1]] /\ b = [i \in 1 .. n |-> t[n - i + 1]]
    BY <1>1, <1>2 DEF Reverse
  <2>2. a \in [1 .. m -> X] /\ b \in [1 .. n -> X]
    <3>1. \A i \in 1 .. m : m - i + 1 \in 1 .. m
      OBVIOUS
    <3>2. \A i \in 1 .. n : n - i + 1 \in 1 .. n
      OBVIOUS
    <3> QED
      BY <1>1, <2>1, <3>1, <3>2
  <2>3. a \in Seq(X) /\ Len(a) = m
    BY <2>2
  <2>4. b \in Seq(X) /\ Len(b) = n
    BY <2>2
  <2> QED
    BY <2>1, <2>3, <2>4
<1>4. m <= n /\ SubSeq(a, 1, m) = SubSeq(b, 1, m)
  BY <1>2, <1>3 DEF IsSuffix, IsPrefix
<1>5. \A i \in 1 .. m : a[i] = b[i]
  <2>1. \A i \in 1 .. m : SubSeq(a, 1, m)[i] = a[i]
    BY <1>3, SubSeqProperties
  <2>2. \A i \in 1 .. m : SubSeq(b, 1, m)[i] = b[i]
    BY <1>3, <1>4, SubSeqProperties
  <2> QED
    BY <1>4, <2>1, <2>2
<1>6. ASSUME NEW j \in 1 .. m PROVE s[j] = t[n - m + j]
  <2>1. m - j + 1 \in 1 .. m /\ m - j + 1 \in 1 .. n
    BY <1>4
  <2>2. a[m - j + 1] = s[m - (m - j + 1) + 1] /\ b[m - j + 1] = t[n - (m - j + 1) + 1]
    BY <1>3, <2>1
  <2>3. m - (m - j + 1) + 1 = j /\ n - (m - j + 1) + 1 = n - m + j
    OBVIOUS
  <2> QED
    BY <1>5, <2>1, <2>2, <2>3
<1>7. PICK c : c = SubSeq(t, 1, n - m)
  OBVIOUS
<1>8. c \in Seq(X) /\ Len(c) = n - m /\ \A k \in 1 .. n - m : c[k] = t[k]
  <2>1. n - m \in 0 .. n
    BY <1>4
  <2> QED
    BY <1>1, <1>7, <2>1, SubSeqProperties
<1>9. /\ c \o s \in Seq(X) /\ Len(c \o s) = n
      /\ \A k \in 1 .. n : (c \o s)[k] = IF k <= n - m THEN c[k] ELSE s[k - (n - m)]
  <2>1. /\ c \o s \in Seq(X) /\ Len(c \o s) = Len(c) + Len(s)
        /\ \A k \in 1 .. Len(c) + Len(s) :
             (c \o s)[k] = IF k <= Len(c) THEN c[k] ELSE s[k - Len(c)]
    BY <1>8, ConcatProperties
  <2>2. Len(c) = n - m /\ Len(s) = m /\ n - m + m = n
    BY <1>1, <1>8
  <2> QED
    BY <2>1, <2>2
<1>10. ASSUME NEW k \in 1 .. n PROVE (c \o s)[k] = t[k]
  <2>1. CASE k <= n - m
    BY <1>8, <1>9, <2>1
  <2>2. CASE ~(k <= n - m)
    <3>1. k - (n - m) \in 1 .. m /\ n - m + (k - (n - m)) = k
      BY <1>4, <2>2
    <3>2. s[k - (n - m)] = t[n - m + (k - (n - m))]
      BY <1>6, <3>1
    <3> QED
      BY <1>9, <2>2, <3>1, <3>2
  <2> QED
    BY <2>1, <2>2
<1>11. c \o s = t
  <2>1. PICK d : d = c \o s
    OBVIOUS
  <2>2. d \in Seq(X) /\ Len(d) = n /\ \A k \in 1 .. n : d[k] = t[k]
    BY <1>9, <1>10, <2>1
  <2>3. d = t
    BY <1>1, <2>2, SeqEqual
  <2> QED
    BY <2>1, <2>3
<1> QED
  BY <1>1, <1>4, <1>7, <1>8, <1>11

(* How the stop sequence is cut off each kind of block *)
LEMMA CutThinking ==
  ASSUME NEW b, "type" \in DOMAIN b, b.type \in {"thinking", "redacted_thinking"}, NEW s
  PROVE  CutShort(b, s).type = b.type
BY DEF CutShort

LEMMA CutUse ==
  ASSUME NEW b, b.type = "tool_use", NEW X, NEW s, Of(s, X), s # Nil
  PROVE  CutShort(b, s) = b
<1>1. Field(b) = <<>>
  BY DEF Field
<1>2. ~IsSuffix(s, <<>>)
  <2>1. SUFFICES ASSUME IsSuffix(s, <<>>) PROVE FALSE
    OBVIOUS
  <2>2. s \in Seq(X) /\ <<>> \in Seq(X) /\ Len(<<>>) = 0
    BY EmptySeq DEF Of
  <2>3. Len(s) <= 0
    BY <2>1, <2>2, SuffixCut
  <2>4. s = <<>>
    BY <2>2, <2>3, EmptySeq
  <2> QED
    BY <2>4 DEF Nil
<1> QED
  BY <1>1, <1>2 DEF CutShort

LEMMA CutText ==
  ASSUME NEW X, NEW t, Of(t, X), NEW s, Of(s, X),
         NEW b, b = [type |-> "text", text |-> t]
  PROVE  \E u : /\ Of(u, X) /\ CutShort(b, s) = [type |-> "text", text |-> u]
                /\ u = t \/ Cat(u, s) = t
<1>1. Field(b) = t /\ b.type = "text"
  BY DEF Field
<1>2. CASE ~IsSuffix(s, t)
  BY <1>1, <1>2 DEF CutShort
<1>3. CASE IsSuffix(s, t)
  <2>1. PICK u : u = SubSeq(t, 1, Len(t) - Len(s))
    OBVIOUS
  <2>2. u \in Seq(X) /\ u \o s = t
    BY <1>3, <2>1, SuffixCut DEF Of
  <2>3. CutShort(b, s) = [b EXCEPT !["text"] = u]
    BY <1>1, <1>3, <2>1 DEF CutShort
  <2>4. [b EXCEPT !["text"] = u] = [type |-> "text", text |-> u]
    OBVIOUS
  <2> QED
    BY <2>2, <2>3, <2>4 DEF Of, Cat
<1> QED
  BY <1>2, <1>3

(* What is left of a block *)
Left(b, s) ==
  IF CutShort(b, s).type = "text" /\ CutShort(b, s).text = <<>> THEN Nil ELSE One(CutShort(b, s))

LEMMA CutDomain ==
  ASSUME NEW b, NEW s
  PROVE  DOMAIN CutShort(b, s) = DOMAIN b
BY DEF CutShort

LEMMA StripShows ==
  ASSUME NEW B, NEW bs, Of(bs, B), ThinkingOnly(B),
         NEW U, NEW us, Of(us, U), UsesOnly(U),
         NEW X, NoNull(X), NEW t, Of(t, X), NEW xs, xs = Worded(t, TextBlockOf(t)),
         NEW content, content = Cat(Cat(bs, xs), us),
         NEW s, Of(s, X), s # Nil,
         NEW cut, cut = strip_stop_from_blocks(content, s),
         NEW items, items = [k \in DOMAIN cut |-> BlockItem(cut[k])]
  PROVE  \E u : Presents(items, u, us, U, Len(bs)) /\ (u = t \/ Cat(u, s) = t)
<1> DEFINE x == TextBlockOf(t)
           S == B \cup {x} \cup U
           Y == {CutShort(b, s) : b \in S}
           g == [b \in S |-> CutShort(b, s)]
           K == [b \in S |-> Left(b, s)]
           C == {CutShort(b, s) : b \in B}
<1>1. B \subseteq S /\ {x} \subseteq S /\ U \subseteq S /\ S \subseteq S /\ x \in S
  OBVIOUS
<1>2. MapsTo(K, S, Y)
  <2>1. ASSUME NEW b \in S PROVE Left(b, s) \in Seq(Y)
    <3>1. CutShort(b, s) \in Y
      OBVIOUS
    <3> HIDE DEF Y
    <3>2. Of(One(CutShort(b, s)), Y) /\ Of(Nil, Y)
      BY <3>1, OneOf
    <3> QED
      BY <3>2 DEF Left, Of
  <2> QED
    BY <2>1 DEF MapsTo
<1>3. Of(xs, {x})
  BY OneOf, NilOf DEF Worded
<1>4. xs = Worded(t, x)
  OBVIOUS
<1>5. \A b \in B : CutShort(b, s).type \in {"thinking", "redacted_thinking"}
  BY CutThinking DEF ThinkingOnly
<1>6. \A v \in U : CutShort(v, s) = v
  BY CutUse DEF UsesOnly
<1>7. \A b \in S : K[b] = Left(b, s) /\ g[b] = CutShort(b, s)
  OBVIOUS
<1>8. /\ \A b \in B : g[b] \in C /\ K[b] = One(g[b])
      /\ ThinkingOnly(C)
  <2>1. \A b \in B : CutShort(b, s).type # "text"
    BY <1>5
  <2>2. \A b \in B : "type" \in DOMAIN CutShort(b, s)
    BY CutDomain DEF ThinkingOnly
  <2> QED
    BY <1>1, <1>5, <1>7, <2>1, <2>2 DEF Left, ThinkingOnly
<1>9. \A v \in U : K[v] = One(v)
  <2>1. \A v \in U : CutShort(v, s).type # "text"
    BY <1>6 DEF UsesOnly
  <2> QED
    BY <1>1, <1>6, <1>7, <2>1 DEF Left
<1>10. PICK u : /\ Of(u, X) /\ CutShort(x, s) = TextBlockOf(u)
                /\ u = t \/ Cat(u, s) = t
  BY CutText DEF TextBlockOf
<1>11. K[x] = Worded(u, TextBlockOf(u))
  BY <1>1, <1>7, <1>10 DEF Left, TextBlockOf, Worded, Nil
<1>12. \A k \in DOMAIN content : content[k] \in S => Left(content[k], s) = K[content[k]]
  BY <1>7
<1> HIDE DEF x, S, Y, g, K, C
<1>13. Of(bs, S) /\ Of(xs, S) /\ Of(us, S)
  BY <1>1, <1>3, OfWider
<1>14. Of(Cat(bs, xs), S) /\ Of(content, S)
  BY <1>13, CatOf
<1>15. cut = Along(K, content)
  <2>1. PICK h : h = [k \in DOMAIN content |-> K[content[k]]]
    OBVIOUS
  <2>2. PICK f : f = [k \in DOMAIN content |-> Left(content[k], s)]
    OBVIOUS
  <2>3. \A k \in DOMAIN content : content[k] \in S
    BY <1>14 DEF Of
  <2>4. h = f
    BY <1>12, <2>1, <2>2, <2>3
  <2>5. f = [k \in DOMAIN content |->
               LET b == CutShort(content[k], s)
               IN  IF b.type = "text" /\ b.text = <<>> THEN <<>> ELSE <<b>>]
    BY <2>2 DEF Left, Nil, One
  <2>6. cut = FlattenSeq(f)
    BY <2>5, Zenon DEF strip_stop_from_blocks
  <2>7. FlattenSeq(h) = Along(K, content)
    BY <2>1, AlongIs
  <2> QED
    BY <2>4, <2>6, <2>7
<1>16. cut = Cat(Cat(Along(K, bs), Along(K, xs)), us)
  <2>1. Along(K, content) = Cat(Along(K, Cat(bs, xs)), Along(K, us))
    BY <1>2, <1>13, <1>14, AlongCat
  <2>2. Along(K, Cat(bs, xs)) = Cat(Along(K, bs), Along(K, xs))
    BY <1>2, <1>13, AlongCat
  <2>3. Along(K, us) = us
    BY <1>1, <1>2, <1>9, AlongSame
  <2> QED
    BY <1>15, <2>1, <2>2, <2>3
<1>17. PICK a : a = Along(K, bs)
  OBVIOUS
<1>18. Of(a, C) /\ Len(a) = Len(bs)
  <2>1. OneEach(K, g, B, C)
    BY <1>8 DEF OneEach
  <2>2. Of(a, C) /\ Mirrors(a, bs, g)
    BY <1>1, <1>2, <1>17, <2>1, AlongEach
  <2> QED
    BY <2>2 DEF Mirrors
<1>19. \E w : /\ Of(w, X) /\ Along(K, xs) = Worded(w, TextBlockOf(w))
              /\ w = t \/ Cat(w, s) = t
  <2>1. CASE t = Nil
    <3>1. Along(K, xs) = Worded(t, TextBlockOf(t))
      BY <1>4, <2>1, AlongNil DEF Worded
    <3> QED
      BY <3>1
  <2>2. CASE t # Nil
    <3>1. xs = One(x)
      BY <1>4, <2>2 DEF Worded
    <3>2. MapsTo(K, S, Y) /\ x \in S
      BY <1>1, <1>2
    <3>3. Along(K, One(x)) = K[x]
      BY <3>2, AlongSingle
    <3>4. Along(K, xs) = Worded(u, TextBlockOf(u))
      BY <1>11, <3>1, <3>3
    <3> QED
      BY <1>10, <3>4
  <2> QED
    BY <2>1, <2>2
<1>20. PICK w : /\ Of(w, X) /\ Along(K, xs) = Worded(w, TextBlockOf(w))
                /\ w = t \/ Cat(w, s) = t
  BY <1>19
<1>21. Presents(items, w, us, U, Len(a))
  <2>1. PICK ys : ys = Worded(w, TextBlockOf(w))
    OBVIOUS
  <2>2. cut = Cat(Cat(a, ys), us)
    BY <1>16, <1>17, <1>20, <2>1
  <2>3. ThinkingOnly(C)
    BY <1>8
  <2> QED
    BY <1>18, <1>20, <2>1, <2>2, <2>3, BodyShows
<1> QED
  BY <1>18, <1>20, <1>21

Made(a) == Orelse(a.tool_calls, <<>>)

Thoughts(a) == Orelse(a.thinking_blocks, <<>>)

Reported(d, got, said) ==
  LET items == got.message.items
      text == TextOf(items, {"text"})
      calls == OfType(items, {"tool_call"})
      stop == got.stop_sequence
  IN  /\ Sound(items)
      /\ text = said.content \/ (stop # Null /\ text \o stop = said.content)
      /\ Len(calls) = Len(Made(said))
      /\ \A k \in DOMAIN calls :
           /\ calls[k].name = Made(said)[k].name
           /\ calls[k].arguments \in Readable(Made(said)[k].arguments)
      /\ \A i, j \in DOMAIN items :
           items[i].type = "thinking" /\ items[j].type # "thinking" => i < j
      /\ d = "Anthropic" => Len(OfType(items, {"thinking"})) = Len(Thoughts(said))

LEMMA MadeOf ==
  ASSUME NEW a, Worth(a)
  PROVE  \E n \in Nat : DOMAIN Made(a) = 1 .. n /\ Len(Made(a)) = n
<1>1. CASE a.tool_calls = Null
  <2>1. Made(a) = <<>> /\ <<>> \in Seq({}) /\ Len(<<>>) = 0
    BY <1>1, EmptySeq DEF Made, Orelse
  <2> QED
    BY <2>1
<1>2. CASE a.tool_calls # Null
  <2>1. PICK S : Made(a) \in Seq(S)
    BY <1>2 DEF Made, Orelse, Worth
  <2> QED
    BY <2>1
<1> QED
  BY <1>1, <1>2

(* Calls made one for one *)
LEMMA MadeEach ==
  ASSUME NEW a, Worth(a), NEW us, DOMAIN us = DOMAIN Made(a), us = [k \in DOMAIN us |-> us[k]]
  PROVE  Of(us, {us[k] : k \in DOMAIN us}) /\ Len(us) = Len(Made(a))
<1>1. PICK n \in Nat : DOMAIN Made(a) = 1 .. n /\ Len(Made(a)) = n
  BY MadeOf
<1>2. us \in [1 .. n -> {us[k] : k \in DOMAIN us}]
  BY <1>1
<1>3. us \in Seq({us[k] : k \in DOMAIN us}) /\ Len(us) = n
  BY <1>2
<1> QED
  BY <1>1, <1>3 DEF Of

(* What each dialect makes of the arguments of a call *)
LEMMA AnthropicArguments ==
  ASSUME NEW tc, NEW msg, NEW index, NEW it, it = BlockItem(ToolUse(tc, msg, index))
  PROVE  it.name = tc.name /\ it.arguments \in Readable(tc.arguments)
<1>1. PICK u, input : /\ u = ToolUse(tc, msg, index)
                      /\ input = IF Is(tc.arguments, "string") /\ tc.arguments.value # Garbled
                                 THEN tc.arguments.value ELSE "{}"
  OBVIOUS
<1>0. u.type = "tool_use" /\ u.name = tc.name /\ u.input = input
  BY <1>1 DEF ToolUse
<1>2. PICK w : w = IF u.input = "null" THEN "{}" ELSE u.input
  OBVIOUS
<1>7. it = ToolCall(u.id, u.name, w)
  BY <1>0, <1>1, <1>2 DEF BlockItem
<1>8. it.name = u.name /\ it.arguments = w
  BY <1>7 DEF ToolCall
<1>3. it.name = tc.name /\ it.arguments = IF input = "null" THEN "{}" ELSE input
  BY <1>0, <1>2, <1>8
<1>4. PICK args : args = tc.arguments
  OBVIOUS
<1>5. CASE Is(args, "string") /\ args.value # Garbled
  <2>1. input = args.value
    BY <1>1, <1>4, <1>5
  <2>2. CASE args.value = "null"
    BY <1>3, <1>4, <1>5, <2>1, <2>2 DEF Readable
  <2>3. CASE args.value # "null"
    BY <1>3, <1>4, <1>5, <2>1, <2>3 DEF Readable
  <2> QED
    BY <2>2, <2>3
<1>6. CASE ~(Is(args, "string") /\ args.value # Garbled)
  <2>1. it.arguments = "{}"
    BY <1>1, <1>3, <1>4, <1>6
  <2> QED
    BY <1>3, <1>4, <1>6, <2>1 DEF Readable
<1> QED
  BY <1>5, <1>6

LEMMA DecodedArguments ==
  ASSUME NEW args
  PROVE  /\ Decoded(args) \in Readable(args)
         /\ Decoded(IF Is(args, "string") THEN args ELSE Encoded("{}")) \in Readable(args)
<1>1. Decoded(args) \in Readable(args)
  BY DEF Decoded, Readable, Is, Garbled
<1>2. Decoded(Encoded("{}")) \in {"{}", "null"}
  BY DEF Decoded, Encoded, Garbled
<1>3. CASE Is(args, "string")
  BY <1>1, <1>3
<1>4. CASE ~Is(args, "string")
  BY <1>1, <1>2, <1>4 DEF Readable
<1> QED
  BY <1>3, <1>4

LEMMA ThoughtsOf ==
  ASSUME NEW a, Worth(a)
  PROVE  Of(Thoughts(a), EngineBlocks)
BY EmptySeq DEF Worth, Thoughts, Orelse, Of

LEMMA EngineTypes ==
  ASSUME NEW b \in EngineBlocks
  PROVE  "type" \in DOMAIN b /\ b.type \in {"thinking", "redacted_thinking"}
BY DEF EngineBlocks

(* The calls of an answer as Anthropic's blocks *)
Uses(a, us, U) ==
  /\ Of(us, U) /\ UsesOnly(U) /\ Len(us) = Len(Made(a))
  /\ \A k \in DOMAIN us : us[k] \in U /\ us[k] = ToolUse(Made(a)[k], a.id, k - 1)

LEMMA UseType ==
  ASSUME NEW tc, NEW msg, NEW index, NEW u, u = ToolUse(tc, msg, index)
  PROVE  u.type = "tool_use"
BY DEF ToolUse

LEMMA UsesExist ==
  ASSUME NEW a, Worth(a), NEW us, us = [k \in DOMAIN Made(a) |-> ToolUse(Made(a)[k], a.id, k - 1)]
  PROVE  \E U : Uses(a, us, U)
<1>1. DOMAIN us = DOMAIN Made(a) /\ us = [k \in DOMAIN us |-> us[k]]
  OBVIOUS
<1>2. PICK U : U = {us[k] : k \in DOMAIN us}
  OBVIOUS
<1>3. Of(us, U) /\ Len(us) = Len(Made(a))
  BY <1>1, <1>2, MadeEach
<1>4. \A k \in DOMAIN us : us[k] \in U /\ us[k] = ToolUse(Made(a)[k], a.id, k - 1)
  BY <1>2
<1>5. UsesOnly(U)
  <2>1. \A k \in DOMAIN us : us[k].type = "tool_use"
    BY <1>4, UseType
  <2> QED
    BY <1>2, <2>1 DEF UsesOnly
<1> QED
  BY <1>3, <1>4, <1>5 DEF Uses

(* The parts of the Anthropic body *)
LEMMA BodyParts ==
  ASSUME NEW a, Worth(a), NEW out, out = response_from_canonical(a)
  PROVE  \E us, U, xs : /\ out.content = Cat(Cat(Thoughts(a), xs), us)
                        /\ xs = Worded(a.content, TextBlockOf(a.content))
                        /\ Uses(a, us, U)
<1>1. PICK us : us = [k \in DOMAIN Made(a) |-> ToolUse(Made(a)[k], a.id, k - 1)]
  OBVIOUS
<1>2. PICK U : Uses(a, us, U)
  BY <1>1, UsesExist
<1>3. out.content = (Thoughts(a)
                     \o (IF a.content = <<>> THEN <<>> ELSE <<[type |-> "text", text |-> a.content]>>))
                    \o us
  BY <1>1, Zenon DEF response_from_canonical, Thoughts, Made
<1>4. out.content = Cat(Cat(Thoughts(a), Worded(a.content, TextBlockOf(a.content))), us)
  BY <1>3, Zenon DEF Cat, Worded, TextBlockOf, Nil, One
<1> QED
  BY <1>2, <1>4

(* A body is the canonical one, or what a stop sequence leaves of it *)
LEMMA EchoContent ==
  ASSUME NEW out, {"content", "stop_reason", "stop_sequence"} \subseteq DOMAIN out,
         NEW r, NEW stop_sequences,
         NEW body, body = apply_stop_sequence_echo(out, r, stop_sequences)
  PROVE  \/ body.content = out.content
         \/ /\ body.stop_sequence \in ToSet(Orelse(stop_sequences, <<>>))
            /\ body.stop_sequence # <<>>
            /\ body.content = strip_stop_from_blocks(out.content, body.stop_sequence)
<1> DEFINE stops == Orelse(stop_sequences, <<>>)
           hits == {k \in DOMAIN stops : stops[k] # <<>> /\ Echoes(out, stops[k])}
           first == {k \in hits : \A j \in hits : k <= j}
           s == stops[CHOOSE k \in first : TRUE]
           cut == [out EXCEPT !.content = strip_stop_from_blocks(@, s)]
<1>1. \/ body = out
      \/ body = mark_stop_sequence(out, r.matched_stop)
      \/ first # {} /\ body = mark_stop_sequence(cut, s)
  BY Zenon DEF apply_stop_sequence_echo
<1>2. CASE body = mark_stop_sequence(out, r.matched_stop)
  <2>1. body.content = out.content
    BY <1>2 DEF mark_stop_sequence
  <2> QED
    BY <2>1
<1>3. CASE first # {} /\ body = mark_stop_sequence(cut, s)
  <2>1. (CHOOSE k \in first : TRUE) \in DOMAIN stops /\ s # <<>>
    BY <1>3
  <2>2. s \in ToSet(stops)
    BY <2>1, Zenon DEF ToSet
  <2>3. PICK left : left = strip_stop_from_blocks(out.content, s)
    OBVIOUS
  <2>4. DOMAIN cut = DOMAIN out /\ cut.content = left
    BY <2>3
  <2>5. s # <<>>
    BY <2>1
  <2> HIDE DEF s, cut
  <2>6. body.content = left /\ body.stop_sequence = s
    BY <1>3, <2>4 DEF mark_stop_sequence
  <2> QED
    BY <2>2, <2>3, <2>5, <2>6, Zenon
<1> QED
  BY <1>1, <1>2, <1>3

LEMMA StopTyped ==
  ASSUME NEW stops \in StopLists, NEW s \in ToSet(Orelse(stops, <<>>))
  PROVE  s \in Seq(STRING) /\ s # Null
<1>1. stops \in Seq(Seq(STRING))
  <2>1. CASE stops = Null
    <3>1. Orelse(stops, <<>>) = <<>>
      BY <2>1 DEF Orelse
    <3>2. ToSet(<<>>) = {}
      BY DEF ToSet
    <3> QED
      BY <3>1, <3>2
  <2> QED
    BY <2>1 DEF StopLists
<1>2. stops # Null => Orelse(stops, <<>>) = stops
  BY DEF Orelse
<1>3. CASE stops = Null
  <2>1. Orelse(stops, <<>>) = <<>> /\ ToSet(<<>>) = {}
    BY <1>3 DEF Orelse, ToSet
  <2> QED
    BY <2>1
<1>4. CASE stops # Null
  <2>1. s \in ToSet(stops)
    BY <1>2, <1>4
  <2>2. s \in Seq(STRING)
    BY <1>1, <2>1 DEF ToSet
  <2> QED
    BY <2>2, NullAssumption
<1> QED
  BY <1>3, <1>4

LEMMA ShownReported ==
  ASSUME NEW a, NEW got, NEW items, got.message.items = items, NEW t, NEW c, NEW n,
         Shows(items, t, c, n),
         t = a.content \/ (got.stop_sequence # Null /\ t \o got.stop_sequence = a.content),
         Len(c) = Len(Made(a)),
         \A k \in DOMAIN c : /\ c[k].name = Made(a)[k].name
                             /\ c[k].arguments \in Readable(Made(a)[k].arguments),
         NEW d, d = "Anthropic" => n = Len(Thoughts(a))
  PROVE  Reported(d, got, a)
<1>1. /\ Sound(items) /\ TextOf(items, {"text"}) = t /\ OfType(items, {"tool_call"}) = c
      /\ Len(OfType(items, {"thinking"})) = n
      /\ \A i, j \in DOMAIN items : items[i].type = "thinking" /\ items[j].type # "thinking" => i < j
  BY DEF Shows
<1>2. d = "Anthropic" => Len(OfType(items, {"thinking"})) = Len(Thoughts(a))
  BY <1>1
<1> QED
  BY <1>1, <1>2, Zenon DEF Reported

LEMMA AnthropicReported ==
  ASSUME NEW a, Worth(a), NEW stops \in StopLists,
         NEW body, body = apply_stop_sequence_echo(response_from_canonical(a), a, stops),
         NEW got, got = AnthropicReply(body)
  PROVE  Reported("Anthropic", got, a)
<1>1. PICK out : out = response_from_canonical(a)
  OBVIOUS
<1>2. DOMAIN out = {"content", "stop_reason", "stop_sequence", "usage"}
  BY <1>1 DEF response_from_canonical
<1>3. PICK items : /\ items = [k \in DOMAIN body.content |-> BlockItem(body.content[k])]
                   /\ got.message.items = items /\ got.stop_sequence = body.stop_sequence
  BY Zenon DEF AnthropicReply, Message
<1>4. PICK us, U, xs : /\ out.content = Cat(Cat(Thoughts(a), xs), us)
                      /\ xs = Worded(a.content, TextBlockOf(a.content))
                      /\ Uses(a, us, U)
  BY <1>1, BodyParts
<1>5. Of(us, U) /\ UsesOnly(U)
  BY <1>4 DEF Uses
<1>6. /\ Of(Thoughts(a), EngineBlocks) /\ ThinkingOnly(EngineBlocks) /\ Of(a.content, STRING)
      /\ NoNull(STRING)
  BY ThoughtsOf, EngineTypes, NullAssumption DEF Worth, Of, ThinkingOnly, NoNull
<1>9. \E t : /\ Presents(items, t, us, U, Len(Thoughts(a)))
             /\ t = a.content \/ (got.stop_sequence # Null /\ t \o got.stop_sequence = a.content)
  <2>1. \/ body.content = out.content
        \/ /\ body.stop_sequence \in ToSet(Orelse(stops, <<>>))
           /\ body.stop_sequence # <<>>
           /\ body.content = strip_stop_from_blocks(out.content, body.stop_sequence)
    <3>1. {"content", "stop_reason", "stop_sequence"} \subseteq DOMAIN out
      BY <1>2
    <3> QED
      BY <1>1, <3>1, EchoContent
  <2>2. CASE body.content = out.content
    <3>1. PICK content : content = out.content
      OBVIOUS
    <3>2. items = [k \in DOMAIN content |-> BlockItem(content[k])]
      BY <1>3, <2>2, <3>1
    <3>3. content = Cat(Cat(Thoughts(a), xs), us)
      BY <1>4, <3>1
    <3>4. Presents(items, a.content, us, U, Len(Thoughts(a)))
      BY <1>4, <1>5, <1>6, <3>2, <3>3, BodyShows
    <3> QED
      BY <3>4
  <2>3. CASE /\ body.stop_sequence \in ToSet(Orelse(stops, <<>>))
             /\ body.stop_sequence # <<>>
             /\ body.content = strip_stop_from_blocks(out.content, body.stop_sequence)
    <3>1. PICK s, cut : s = body.stop_sequence /\ cut = body.content
      OBVIOUS
    <3>2. s \in Seq(STRING) /\ s # Null /\ s # <<>>
      BY <2>3, <3>1, StopTyped
    <3>3. Of(s, STRING) /\ s # Nil
      BY <3>2 DEF Of, Nil
    <3>4. PICK content : content = Cat(Cat(Thoughts(a), xs), us)
      OBVIOUS
    <3>5. cut = strip_stop_from_blocks(content, s) /\ items = [k \in DOMAIN cut |-> BlockItem(cut[k])]
      BY <1>3, <1>4, <2>3, <3>1, <3>4
    <3>8. PICK bs, w : bs = Thoughts(a) /\ w = a.content
      OBVIOUS
    <3>9. /\ Of(bs, EngineBlocks) /\ Of(w, STRING) /\ xs = Worded(w, TextBlockOf(w))
          /\ content = Cat(Cat(bs, xs), us)
      BY <1>4, <1>6, <3>4, <3>8
    <3>11. PICK B, X : B = EngineBlocks /\ X = STRING
      OBVIOUS
    <3>12. Of(bs, B) /\ ThinkingOnly(B) /\ NoNull(X) /\ Of(w, X) /\ Of(s, X)
      BY <1>6, <3>3, <3>9, <3>11
    <3>10. \E t : Presents(items, t, us, U, Len(bs)) /\ (t = w \/ Cat(t, s) = w)
      BY <1>5, <3>3, <3>5, <3>9, <3>12, StripShows
    <3>6. \E t : /\ Presents(items, t, us, U, Len(Thoughts(a)))
                 /\ t = a.content \/ Cat(t, s) = a.content
      BY <3>8, <3>10
    <3>7. got.stop_sequence = s
      BY <1>3, <3>1
    <3> QED
      BY <3>2, <3>6, <3>7, Zenon DEF Cat
  <2> QED
    BY <2>1, <2>2, <2>3
<1>10. PICK t : /\ Presents(items, t, us, U, Len(Thoughts(a)))
                /\ t = a.content \/ (got.stop_sequence # Null /\ t \o got.stop_sequence = a.content)
  BY <1>9
<1>11. PICK c : /\ Shows(items, t, c, Len(Thoughts(a))) /\ Of(c, {BlockItem(u) : u \in U})
                /\ Mirrors(c, us, [u \in U |-> BlockItem(u)])
  BY <1>10 DEF Presents
<1>12. Len(c) = Len(Made(a))
  BY <1>4, <1>11 DEF Mirrors, Uses
<1>13. ASSUME NEW k \in DOMAIN c
       PROVE  c[k].name = Made(a)[k].name /\ c[k].arguments \in Readable(Made(a)[k].arguments)
  <2>1. k \in 1 .. Len(us) /\ k \in DOMAIN us
    BY <1>5, <1>11 DEF Mirrors, Of
  <2>2. us[k] \in U /\ us[k] = ToolUse(Made(a)[k], a.id, k - 1)
    BY <1>4, <2>1 DEF Uses
  <2>3. c[k] = BlockItem(us[k])
    BY <1>11, <2>1, <2>2 DEF Mirrors
  <2>4. c[k] = BlockItem(ToolUse(Made(a)[k], a.id, k - 1))
    BY <2>2, <2>3
  <2> QED
    BY <2>4, AnthropicArguments
<1>14. t = a.content \/ (got.stop_sequence # Null /\ t \o got.stop_sequence = a.content)
  BY <1>10
<1> QED
  BY <1>3, <1>11, <1>12, <1>13, <1>14, ShownReported

(* The turn a caller makes of a chat body *)
LEMMA ChatReported ==
  ASSUME NEW a, Worth(a), NEW got, got = ChatReply(a)
  PROVE  Reported("OpenAiChat", got, a)
<1>1. PICK rs, xs, cs :
        /\ rs = (IF a.reasoning_content \in {Null, <<>>} THEN <<>>
                 ELSE <<Thinking(a.reasoning_content, Null, Null, Null)>>)
        /\ xs = (IF a.content = <<>> THEN <<>> ELSE <<Text(a.content)>>)
        /\ cs = [k \in DOMAIN Made(a) |->
                   ToolCall(a.tool_calls[k].id, a.tool_calls[k].name,
                            Decoded(a.tool_calls[k].arguments))]
  OBVIOUS
<1>2. PICK items : items = Cat(Cat(rs, xs), cs)
  OBVIOUS
<1>3. got.message.items = items
  <2>1. items = (rs \o xs) \o cs
    BY <1>2 DEF Cat
  <2>2. got.message = Message("assistant", (rs \o xs) \o cs)
    BY <1>1, Zenon DEF ChatReply, Made
  <2> QED
    BY <2>1, <2>2 DEF Message
<1>4. PICK P : P = {Thinking(a.reasoning_content, Null, Null, Null)}
  OBVIOUS
<1>5. Of(rs, P) /\ \A it \in P : it.type = "thinking"
  <2>1. Of(Nil, P) /\ \A it \in P : Of(One(it), P)
    BY NilOf, OneOf
  <2>2. \A it \in P : it.type = "thinking"
    BY <1>4 DEF Thinking
  <2>3. rs = Nil \/ rs = One(Thinking(a.reasoning_content, Null, Null, Null))
    BY <1>1 DEF Nil, One
  <2> QED
    BY <1>4, <2>1, <2>2, <2>3
<1>6. xs = IF a.content = Nil THEN Nil ELSE One(Text(a.content))
  BY <1>1 DEF Nil, One
<1>7. PICK R : R = {cs[k] : k \in DOMAIN cs}
  OBVIOUS
<1>8. Of(cs, R) /\ Len(cs) = Len(Made(a))
  <2>1. DOMAIN cs = DOMAIN Made(a) /\ cs = [k \in DOMAIN cs |-> cs[k]]
    BY <1>1
  <2> QED
    BY <1>7, <2>1, MadeEach
<1>9. ASSUME NEW k \in DOMAIN cs
      PROVE  cs[k] = ToolCall(Made(a)[k].id, Made(a)[k].name, Decoded(Made(a)[k].arguments))
  <2>1. k \in DOMAIN Made(a)
    BY <1>1
  <2>2. a.tool_calls # Null
    <3>1. a.tool_calls = Null => Made(a) = <<>>
      BY DEF Made, Orelse
    <3> QED
      BY <2>1, <3>1
  <2>3. Made(a) = a.tool_calls
    BY <2>2 DEF Made, Orelse
  <2> QED
    BY <1>1, <2>1, <2>3
<1>10. \A k \in DOMAIN cs : /\ cs[k].type = "tool_call" /\ cs[k].name = Made(a)[k].name
                            /\ cs[k].arguments \in Readable(Made(a)[k].arguments)
  <2>1. ASSUME NEW k \in DOMAIN cs
        PROVE  /\ cs[k].type = "tool_call" /\ cs[k].name = Made(a)[k].name
               /\ cs[k].arguments = Decoded(Made(a)[k].arguments)
    BY <1>9 DEF ToolCall
  <2> QED
    BY <2>1, DecodedArguments
<1>11. \A it \in R : it.type = "tool_call"
  BY <1>7, <1>10
<1>12. Of(a.content, STRING) /\ NoNull(STRING)
  BY NullAssumption DEF Worth, Of, NoNull
<1>13. Shows(items, a.content, cs, Len(rs))
  BY <1>2, <1>5, <1>6, <1>8, <1>11, <1>12, TurnShows
<1> QED
  BY <1>3, <1>8, <1>10, <1>13, ShownReported

-----------------------------------------------------------------------------
(* The item of an output that has one *)
OnlyItem(o) ==
  CASE o.type = "message" -> Text(o.parts[1].text)
    [] o.type = "function_call" ->
         ToolCall(IF o.call_id = Null THEN o.id ELSE o.call_id, o.name, Decoded(o.arguments))
    [] o.type = "reasoning" -> Thinking(Join(o.summary, <<NL>>), Null, o.encrypted, Null)

Output(t) == [type |-> "message", parts |-> <<[type |-> "output_text", text |-> t]>>]

FunctionCall(tc, id) ==
  [type |-> "function_call", call_id |-> tc.id, name |-> tc.name,
   arguments |-> IF Is(tc.arguments, "string") THEN tc.arguments ELSE Encoded("{}"), id |-> id]

LEMMA OutputOne ==
  ASSUME NEW t
  PROVE  OutputItems(Output(t)) = One(Text(t)) /\ OnlyItem(Output(t)) = Text(t)
<1>1. PICK o, p : o = Output(t) /\ p = [type |-> "output_text", text |-> t]
  OBVIOUS
<1>2. o.type = "message" /\ o.parts = <<p>>
  BY <1>1 DEF Output
<1>3. OutputItems(o) = [k \in DOMAIN o.parts |-> IF o.parts[k].type = "refusal" THEN Refusal(o.parts[k].text)
                                                 ELSE Text(o.parts[k].text)]
  BY <1>2 DEF OutputItems
<1>4. DOMAIN <<p>> = {1} /\ <<p>>[1] = p
  OBVIOUS
<1>5. PICK y : y = Text(t)
  OBVIOUS
<1>6. OutputItems(o) = [k \in {1} |-> y]
  BY <1>1, <1>2, <1>3, <1>4, <1>5
<1>7. [k \in {1} |-> y] = <<y>>
  OBVIOUS
<1>8. OnlyItem(o) = Text(t)
  BY <1>1, <1>2, <1>4 DEF OnlyItem
<1> QED
  BY <1>1, <1>5, <1>6, <1>7, <1>8 DEF One

LEMMA CallOne ==
  ASSUME NEW tc, NEW id, NEW o, o = FunctionCall(tc, id)
  PROVE  /\ o.type = "function_call" /\ OutputItems(o) = One(OnlyItem(o))
         /\ OnlyItem(o).type = "tool_call" /\ OnlyItem(o).name = tc.name
         /\ OnlyItem(o).arguments \in Readable(tc.arguments)
<1>1. PICK args : args = IF Is(tc.arguments, "string") THEN tc.arguments ELSE Encoded("{}")
  OBVIOUS
<1>2. o.type = "function_call" /\ o.name = tc.name /\ o.arguments = args
  BY <1>1 DEF FunctionCall
<1>3. PICK id2 : id2 = IF o.call_id = Null THEN o.id ELSE o.call_id
  OBVIOUS
<1>4. OutputItems(o) = <<ToolCall(id2, o.name, Decoded(o.arguments))>>
  BY <1>2, <1>3 DEF OutputItems
<1>5. OnlyItem(o) = ToolCall(id2, o.name, Decoded(o.arguments))
  BY <1>2, <1>3 DEF OnlyItem
<1>6. /\ OnlyItem(o).type = "tool_call" /\ OnlyItem(o).name = o.name
      /\ OnlyItem(o).arguments = Decoded(o.arguments)
  BY <1>5 DEF ToolCall
<1>7. Decoded(args) \in Readable(tc.arguments)
  BY <1>1, DecodedArguments
<1> QED
  BY <1>2, <1>4, <1>5, <1>6, <1>7 DEF One

LEMMA SummaryOne ==
  ASSUME NEW t, NEW o, o = Summary(t)
  PROVE  OutputItems(o) = One(OnlyItem(o)) /\ OnlyItem(o).type = "thinking"
<1>1. o.type = "reasoning"
  BY DEF Summary
<1>2. OutputItems(o) = <<Thinking(Join(o.summary, <<NL>>), Null, o.encrypted, Null)>>
  BY <1>1 DEF OutputItems
<1>3. OnlyItem(o) = Thinking(Join(o.summary, <<NL>>), Null, o.encrypted, Null)
  BY <1>1 DEF OnlyItem
<1>4. OnlyItem(o).type = "thinking"
  BY <1>3 DEF Thinking
<1> QED
  BY <1>2, <1>3, <1>4 DEF One

(* The summaries of an answer's thoughts *)
Summaries(a) == {Summary(b.thinking) : b \in EngineBlocks} \cup {Summary(a.reasoning_content)}

LEMMA ReasoningOf ==
  ASSUME NEW a, Worth(a)
  PROVE  Of(ReasoningItems(a), Summaries(a))
<1> DEFINE S == Summaries(a)
           G == [b \in EngineBlocks |-> IF b.type = "thinking" /\ b.thinking # <<>>
                                        THEN One(Summary(b.thinking)) ELSE Nil]
<1>1. Summary(a.reasoning_content) \in S /\ \A b \in EngineBlocks : Summary(b.thinking) \in S
  BY DEF Summaries
<1> HIDE DEF S
<1>2. MapsTo(G, EngineBlocks, S)
  <2>1. \A b \in EngineBlocks : Of(One(Summary(b.thinking)), S) /\ Of(Nil, S)
    BY <1>1, OneOf, NilOf
  <2>2. \A b \in EngineBlocks : One(Summary(b.thinking)) \in Seq(S) /\ Nil \in Seq(S)
    BY <2>1 DEF Of
  <2>3. \A b \in EngineBlocks : (IF b.type = "thinking" /\ b.thinking # <<>>
                                 THEN One(Summary(b.thinking)) ELSE Nil) \in Seq(S)
    BY <2>2
  <2> QED
    BY <2>3 DEF MapsTo
<1>3. Of(Thoughts(a), EngineBlocks)
  BY ThoughtsOf
<1>4. PICK h, f :
        /\ h = [k \in DOMAIN Thoughts(a) |-> G[Thoughts(a)[k]]]
        /\ f = [k \in DOMAIN Thoughts(a) |->
                  IF Thoughts(a)[k].type = "thinking" /\ Thoughts(a)[k].thinking # <<>>
                  THEN <<Summary(Thoughts(a)[k].thinking)>> ELSE <<>>]
  OBVIOUS
<1>5. h = f
  <2>1. \A k \in DOMAIN Thoughts(a) : Thoughts(a)[k] \in EngineBlocks
    BY <1>3 DEF Of
  <2>2. \A k \in DOMAIN Thoughts(a) : h[k] = f[k]
    BY <1>4, <2>1 DEF One, Nil
  <2> QED
    BY <1>4, <2>2
<1> HIDE DEF G
<1>6. PICK r, y : /\ r = FlattenSeq(f)
                  /\ y = (IF a.reasoning_content \in {Null, <<>>} THEN <<>>
                          ELSE <<Summary(a.reasoning_content)>>)
  OBVIOUS
<1>7. Of(r, S)
  <2>1. FlattenSeq(h) = Along(G, Thoughts(a))
    BY <1>4, AlongIs
  <2>2. Of(Along(G, Thoughts(a)), S)
    BY <1>2, <1>3, AlongOf
  <2> QED
    BY <1>5, <1>6, <2>1, <2>2
<1>8. Of(y, S)
  <2>1. Of(One(Summary(a.reasoning_content)), S) /\ Of(Nil, S)
    BY <1>1, OneOf, NilOf
  <2>2. y = Nil \/ y = One(Summary(a.reasoning_content))
    BY <1>6 DEF Nil, One
  <2> QED
    BY <2>1, <2>2
<1>9. ReasoningItems(a) = Cat(r, y)
  BY <1>4, <1>6, Zenon DEF ReasoningItems, Thoughts, Cat
<1>10. Of(ReasoningItems(a), S)
  BY <1>7, <1>8, <1>9, CatOf
<1> QED
  BY <1>10 DEF S

(* Outputs that hold one item each *)
Single(S) == \A o \in S : OutputItems(o) = One(OnlyItem(o))

Holds(S, type) == Single(S) /\ \A o \in S : OnlyItem(o).type = type

(* Items that say t and make the calls us *)
Tells(items, t, us, U) ==
  \E c, n : /\ Shows(items, t, c, n) /\ Of(c, {OnlyItem(u) : u \in U})
            /\ Mirrors(c, us, [u \in U |-> OnlyItem(u)])

LEMMA OutputAlong ==
  ASSUME NEW S, Single(S), NEW Y, Y = {OnlyItem(o) : o \in S},
         NEW g, g = [o \in S |-> OnlyItem(o)],
         NEW q, Of(q, S),
         NEW items, items = FlattenSeq([k \in DOMAIN q |-> OutputItems(q[k])])
  PROVE  /\ items = Along(Ones(g, S), q)
         /\ MapsTo(Ones(g, S), S, Y) /\ OneEach(Ones(g, S), g, S, Y)
<1>1. g \in [S -> Y]
  OBVIOUS
<1>2. PICK I : I = Ones(g, S)
  OBVIOUS
<1>3. MapsTo(I, S, Y) /\ OneEach(I, g, S, Y)
  BY <1>1, <1>2, OnesMap
<1>4. \A o \in S : I[o] = OutputItems(o)
  BY <1>2 DEF Ones, Single
<1>5. PICK h : h = [k \in DOMAIN q |-> I[q[k]]]
  OBVIOUS
<1>6. h = [k \in DOMAIN q |-> OutputItems(q[k])]
  <2>1. \A k \in DOMAIN q : q[k] \in S
    BY DEF Of
  <2> QED
    BY <1>4, <1>5, <2>1
<1>7. FlattenSeq(h) = Along(I, q)
  BY <1>5, AlongIs
<1> QED
  BY <1>2, <1>3, <1>6, <1>7

(* The output of an answer: reasoning, a message, calls *)
LEMMA OutputShows ==
  ASSUME NEW B, NEW bs, Of(bs, B), Holds(B, "thinking"),
         NEW U, NEW us, Of(us, U), Holds(U, "tool_call"),
         NEW X, NoNull(X), NEW t, Of(t, X), NEW xs, xs = Worded(t, Output(t)),
         NEW output, output = Cat(Cat(bs, xs), us),
         NEW items, items = FlattenSeq([k \in DOMAIN output |-> OutputItems(output[k])])
  PROVE  Tells(items, t, us, U)
<1> DEFINE x == Output(t)
           S == B \cup {x} \cup U
           Y == {OnlyItem(o) : o \in S}
           g == [o \in S |-> OnlyItem(o)]
           I == Ones(g, S)
<1>1. B \subseteq S /\ {x} \subseteq S /\ U \subseteq S /\ x \in S
  OBVIOUS
<1>2. xs = Worded(t, x)
  OBVIOUS
<1>3. Of(xs, {x})
  BY OneOf, NilOf DEF Worded
<1>4. OutputItems(x) = One(OnlyItem(x)) /\ OnlyItem(x) = Text(t)
  BY OutputOne
<1>5. Single(S)
  BY <1>4 DEF Single, Holds
<1>6. \A o \in S : g[o] = OnlyItem(o)
  OBVIOUS
<1>7. Y = {OnlyItem(o) : o \in S} /\ g = [o \in S |-> OnlyItem(o)]
  OBVIOUS
<1> HIDE DEF x, S, Y, g
<1>8. Of(bs, S) /\ Of(xs, S) /\ Of(us, S)
  BY <1>1, <1>3, OfWider
<1>9. Of(Cat(bs, xs), S) /\ Of(output, S)
  BY <1>8, CatOf
<1>10. items = Along(I, output) /\ MapsTo(I, S, Y) /\ OneEach(I, g, S, Y)
  BY <1>5, <1>7, <1>9, OutputAlong
<1>11. \A o \in S : I[o] = One(g[o])
  BY DEF Ones
<1> HIDE DEF I
<1>12. items = Cat(Cat(Along(I, bs), Along(I, xs)), Along(I, us))
  <2>1. Along(I, output) = Cat(Along(I, Cat(bs, xs)), Along(I, us))
    BY <1>8, <1>9, <1>10, AlongCat
  <2>2. Along(I, Cat(bs, xs)) = Cat(Along(I, bs), Along(I, xs))
    BY <1>8, <1>10, AlongCat
  <2> QED
    BY <1>10, <2>1, <2>2
<1>13. Along(I, xs) = Worded(t, Text(t))
  <2>1. I[x] = One(g[x]) /\ g[x] = OnlyItem(x)
    BY <1>1, <1>6, <1>11
  <2>2. I[x] = One(Text(t))
    BY <1>4, <2>1
  <2>3. MapsTo(I, S, Y) /\ x \in S
    BY <1>1, <1>10
  <2>4. Along(I, Worded(t, x)) = Worded(t, Text(t))
    BY <2>2, <2>3, WordedAlong
  <2> QED
    BY <1>2, <2>4
<1>14. PICK a, c : a = Along(I, bs) /\ c = Along(I, us)
  OBVIOUS
<1> DEFINE P == {OnlyItem(b) : b \in B}
           R == {OnlyItem(u) : u \in U}
           gu == [u \in U |-> OnlyItem(u)]
<1>15. Of(a, P)
  <2>1. \A b \in B : g[b] \in P /\ I[b] = One(g[b])
    BY <1>1, <1>6, <1>11
  <2> HIDE DEF P
  <2>2. OneEach(I, g, B, P)
    BY <2>1 DEF OneEach
  <2> QED
    BY <1>1, <1>10, <1>14, <2>2, AlongEach
<1>16. Of(c, R) /\ Mirrors(c, us, gu)
  <2>1. \A u \in U : gu[u] \in R /\ I[u] = One(gu[u])
    BY <1>1, <1>6, <1>11
  <2> HIDE DEF R, gu
  <2>2. OneEach(I, gu, U, R)
    BY <2>1 DEF OneEach
  <2> QED
    BY <1>1, <1>10, <1>14, <2>2, AlongEach
<1>17. /\ \A it \in P : it.type = "thinking"
       /\ \A it \in R : it.type = "tool_call"
  BY DEF Holds
<1> HIDE DEF P, R
<1>18. Shows(items, t, c, Len(a))
  <2>1. PICK b : b = Worded(t, Text(t))
    OBVIOUS
  <2>2. items = Cat(Cat(a, b), c)
    BY <1>12, <1>13, <1>14, <2>1
  <2> QED
    BY <1>15, <1>16, <1>17, <2>1, <2>2, TurnShows DEF Worded
<1> QED
  BY <1>16, <1>18 DEF R, Tells

LEMMA ResponsesReported ==
  ASSUME NEW a, Worth(a), NEW body, body = responses_body_from_chat(a),
         NEW got, got = ResponsesReply(body)
  PROVE  Reported("OpenAiResponses", got, a)
<1>1. PICK us : us = [k \in DOMAIN Made(a) |-> FunctionCall(Made(a)[k], CallId("fc", a.id, ToString(k)))]
  OBVIOUS
<1>2. PICK xs : xs = Worded(a.content, Output(a.content))
  OBVIOUS
<1>3. PICK output : output = Cat(Cat(ReasoningItems(a), xs), us)
  OBVIOUS
<1>4. body.output = output
  <2>1. us = [k \in DOMAIN Made(a) |->
                [type |-> "function_call", call_id |-> Made(a)[k].id, name |-> Made(a)[k].name,
                 arguments |-> IF Is(Made(a)[k].arguments, "string")
                               THEN Made(a)[k].arguments ELSE Encoded("{}"),
                 id |-> CallId("fc", a.id, ToString(k))]]
    BY <1>1, Zenon DEF FunctionCall
  <2>2. xs = IF a.content = <<>> THEN <<>>
             ELSE <<[type |-> "message",
                     parts |-> <<[type |-> "output_text", text |-> a.content]>>]>>
    BY <1>2, Zenon DEF Worded, Output, Nil, One
  <2>3. output = (ReasoningItems(a) \o xs) \o us
    BY <1>3 DEF Cat
  <2> QED
    BY <2>1, <2>2, <2>3, Zenon DEF responses_body_from_chat, Made
<1>5. PICK items : items = FlattenSeq([k \in DOMAIN output |-> OutputItems(output[k])])
  OBVIOUS
<1>6. got.message.items = items /\ got.stop_sequence = Null
  BY <1>4, <1>5, Zenon DEF ResponsesReply, Message
<1>7. PICK U : U = {us[k] : k \in DOMAIN us}
  OBVIOUS
<1>8. Of(us, U) /\ Len(us) = Len(Made(a))
  <2>1. DOMAIN us = DOMAIN Made(a) /\ us = [k \in DOMAIN us |-> us[k]]
    BY <1>1
  <2> QED
    BY <1>7, <2>1, MadeEach
<1>9. \A k \in DOMAIN us : /\ us[k] \in U
                           /\ OutputItems(us[k]) = One(OnlyItem(us[k]))
                           /\ OnlyItem(us[k]).type = "tool_call"
                           /\ OnlyItem(us[k]).name = Made(a)[k].name
                           /\ OnlyItem(us[k]).arguments \in Readable(Made(a)[k].arguments)
  BY <1>1, <1>7, CallOne
<1>10. Holds(U, "tool_call")
  BY <1>7, <1>9 DEF Single, Holds
<1>11. Holds(Summaries(a), "thinking")
  BY SummaryOne DEF Single, Summaries, Holds
<1>12. Of(ReasoningItems(a), Summaries(a))
  BY ReasoningOf
<1>13. Of(a.content, STRING) /\ NoNull(STRING)
  BY NullAssumption DEF Worth, Of, NoNull
<1>17. Tells(items, a.content, us, U)
  BY <1>2, <1>3, <1>5, <1>8, <1>10, <1>11, <1>12, <1>13, OutputShows
<1>14. PICK c, n : /\ Shows(items, a.content, c, n) /\ Of(c, {OnlyItem(u) : u \in U})
                   /\ Mirrors(c, us, [u \in U |-> OnlyItem(u)])
  BY <1>17 DEF Tells
<1>15. Len(c) = Len(Made(a))
  BY <1>8, <1>14 DEF Mirrors
<1>16. ASSUME NEW k \in DOMAIN c
       PROVE  c[k].name = Made(a)[k].name /\ c[k].arguments \in Readable(Made(a)[k].arguments)
  <2>1. k \in 1 .. Len(us) /\ k \in DOMAIN us
    BY <1>8, <1>14 DEF Mirrors, Of
  <2>2. c[k] = OnlyItem(us[k])
    BY <1>9, <1>14, <2>1 DEF Mirrors
  <2> QED
    BY <1>9, <2>1, <2>2
<1> QED
  BY <1>6, <1>14, <1>15, <1>16, ShownReported

-----------------------------------------------------------------------------
(* Requests the server refuses *)
LEMMA RefusalFails ==
  ASSUME NEW k \in {"BadRequest", "Internal"}, NEW p, p = Err(Error(k))
  PROVE  ~p.ok /\ Failure(p.error)
<1>1. ~p.ok /\ p.error = Error(k) /\ p.error.kind = k
  BY DEF Err, Error
<1> QED
  BY <1>1, Zenon DEF Failure, Kinds

LEMMA RefusedParse ==
  ASSUME NEW d \in {"Anthropic", "OpenAiChat", "OpenAiResponses"}, NEW body,
         ~Parse(d, body).ok, Parse(d, body) # Panic
  PROVE  Failure(Parse(d, body).error)
<1> DEFINE Accepts(p) == p = Panic \/ p = BadRequest \/ \E x : p = Ok(x)
<1>1. ASSUME NEW x PROVE Accepts(Validated(x))
  BY DEF Validated
<1>2. Accepts(from_anthropic(body))
  BY <1>1, ZenonT(90) DEF from_anthropic
<1>3. Accepts(from_openai_chat(body))
  BY <1>1, ZenonT(90) DEF from_openai_chat
<1>4. Accepts(from_openai_responses(body))
  <2>1. \/ from_openai_responses(body) = BadRequest
        \/ \E x : from_openai_responses(body) = Validated(x)
    BY ZenonT(90) DEF from_openai_responses
  <2> QED
    BY <1>1, <2>1, Zenon
<1>5. ASSUME NEW x PROVE Accepts(require_max_tokens(x))
  BY Zenon DEF require_max_tokens
<1>6. Accepts(Parse(d, body))
  <2>1. CASE d = "Anthropic"
    <3>1. \/ Parse(d, body) = require_max_tokens(from_anthropic(body).value)
          \/ Parse(d, body) = from_anthropic(body)
      BY <2>1 DEF Parse
    <3> QED
      BY <1>2, <1>5, <3>1, Zenon
  <2>2. CASE d = "OpenAiChat"
    <3>1. Parse(d, body) = from_openai_chat(body)
      BY <2>2 DEF Parse
    <3> QED
      BY <1>3, <3>1, Zenon
  <2>3. CASE d = "OpenAiResponses"
    <3>1. Parse(d, body) = from_openai_responses(body)
      BY <2>3 DEF Parse
    <3> QED
      BY <1>4, <3>1, Zenon
  <2> QED
    BY <2>1, <2>2, <2>3
<1>7. Parse(d, body) = BadRequest
  BY <1>6 DEF Ok
<1> QED
  BY <1>7, RefusalFails, Zenon DEF BadRequest

LEMMA RefusedDeflate ==
  ASSUME NEW r, ~items_to_chat_request(r).ok
  PROVE  Failure(items_to_chat_request(r).error)
<1>1. \/ items_to_chat_request(r) = BadRequest
      \/ items_to_chat_request(r) = Err(Error("Internal"))
      \/ items_to_chat_request(r) = Ok(deflated(r))
  BY Zenon DEF items_to_chat_request
<1>2. ~(items_to_chat_request(r) = Ok(deflated(r)))
  BY DEF Ok
<1> QED
  BY <1>1, <1>2, RefusalFails, Zenon DEF BadRequest

-----------------------------------------------------------------------------
(* The response is the engine's answer, and the outcome is what the client *)
(* reads in the response.  A refusal of the server's own never has the     *)
(* status of a reply.                                                      *)
Replied ==
  /\ Good(answer.value)
  /\ resp = [status |-> 200, body |-> ReplyBody(dialect, answer.value, parsed)]

Linked ==
  /\ sends \in 0 .. MaxSends
  /\ dialect \in {"Anthropic", "OpenAiChat", "OpenAiResponses"}
  /\ phase \in {"idle", "posted"} => answer = Null
  /\ phase = "replied" /\ resp.status \in 200 .. 299 => Replied
  /\ answer # Null /\ ~answer.ok =>
       Failure(answer.error) /\ resp = Envelope(dialect, answer.error)
  /\ phase = "returned" /\ outcome.ok =>
       Replied /\ outcome = Ok(ReadReply(dialect, resp.body))
  /\ phase = "returned" /\ ~outcome.ok /\ answer # Null =>
       \/ outcome.error.kind = "Transport"
       \/ outcome = Err(error_from_wire(resp.status, resp.body))

LEMMA InitLinked == Init => Linked
BY SendsAssumption, DialectsAssumption DEF Init, Linked

LEMMA SendLinked ==
  ASSUME Linked, NEW d \in Dialects, Send(d)
  PROVE  Linked'
<1>1. PICK body : body = IF req.stream THEN BadRequest ELSE Render(d, req)
  OBVIOUS
<1>2. /\ sends < MaxSends /\ sends' = sends + 1 /\ dialect' = d /\ answer' = Null
      /\ \/ phase' = "posted"
         \/ phase' = "returned" /\ outcome' = body /\ ~body.ok
  BY <1>1 DEF Send
<1> QED
  BY <1>2, SendsAssumption, DialectsAssumption DEF Linked

LEMMA LoseLinked ==
  ASSUME Linked, Lose
  PROVE  Linked'
<1>1. /\ phase' = "returned" /\ outcome' = Err(Error("Transport"))
      /\ UNCHANGED <<parsed, answer, resp, dialect, sends>>
  BY DEF Lose, server
<1>2. ~outcome'.ok /\ outcome'.error.kind = "Transport"
  BY <1>1 DEF Err, Error
<1> QED
  BY <1>1, <1>2 DEF Linked

LEMMA ReceiveLinked ==
  ASSUME Linked, Receive
  PROVE  Linked'
<1>1. /\ phase = "replied" /\ phase' = "returned"
      /\ UNCHANGED <<parsed, answer, resp, dialect, sends>>
  BY DEF Receive, server
<1>2. CASE resp.status \in 200 .. 299
  <2>1. Replied /\ Replied'
    BY <1>1, <1>2 DEF Linked, Replied
  <2>2. outcome' = Ok(ReadReply(dialect, resp.body)) /\ outcome'.ok
    BY <1>2 DEF Receive, Ok
  <2> QED
    BY <1>1, <2>1, <2>2 DEF Linked
<1>3. CASE resp.status \notin 200 .. 299
  <2>1. outcome' = Err(error_from_wire(resp.status, resp.body)) /\ ~outcome'.ok
    BY <1>3 DEF Receive, Err
  <2> QED
    BY <1>1, <2>1 DEF Linked
<1> QED
  BY <1>2, <1>3

LEMMA ContinueLinked ==
  ASSUME Linked, NEW style \in Styles, Continue(style)
  PROVE  Linked'
<1>1. phase' = "idle" /\ answer' = Null /\ UNCHANGED <<dialect, sends>>
  BY DEF Continue
<1> QED
  BY <1>1 DEF Linked

LEMMA ArriveLinked ==
  ASSUME Linked, NEW d \in DOMAIN Foreign, NEW body \in Foreign[d], Arrive(d, body)
  PROVE  Linked'
<1>1. /\ phase = "idle" /\ phase' = "posted" /\ dialect' = d
      /\ UNCHANGED <<answer, sends>>
  BY DEF Arrive, server
<1> QED
  BY <1>1, DialectsAssumption DEF Linked

LEMMA IngestStatus ==
  ASSUME Linked, Ingest
  PROVE  /\ phase = "posted" /\ phase' \in {"asked", "replied", "returned"}
         /\ UNCHANGED <<dialect, answer, sends>> /\ answer = Null
         /\ phase' = "replied" => resp'.status \notin 200 .. 299
         /\ phase' = "returned" => ~outcome'.ok
<1> DEFINE p == Parse(dialect, wire)
           c == IF p.ok THEN items_to_chat_request(p.value) ELSE p
<1>1. /\ phase = "posted" /\ UNCHANGED <<dialect, answer, sends>>
      /\ \/ phase' = "asked"
         \/ ~c.ok /\ c # Panic /\ phase' = "replied" /\ resp' = Envelope(dialect, c.error)
         \/ phase' = "returned" /\ outcome' = Err(Error("Transport"))
  BY Zenon DEF Ingest, Refuse
<1>2. answer = Null
  BY <1>1 DEF Linked
<1>3. ~c.ok /\ c # Panic => Failure(c.error)
  <2>1. dialect \in {"Anthropic", "OpenAiChat", "OpenAiResponses"}
    BY DEF Linked
  <2>2. CASE p.ok
    BY <2>2, RefusedDeflate, Zenon
  <2>3. CASE ~p.ok
    <3>1. c = p
      BY <2>3
    <3> QED
      BY <2>1, <2>3, <3>1, RefusedParse, Zenon
  <2> QED
    BY <2>2, <2>3
<1> HIDE DEF p, c
<1>4. phase' = "replied" => resp'.status \notin 200 .. 299
  BY <1>1, <1>3, EnvelopeStatus
<1>5. phase' = "returned" => ~outcome'.ok
  BY <1>1 DEF Err
<1> QED
  BY <1>1, <1>2, <1>4, <1>5

LEMMA IngestLinked ==
  ASSUME Linked, Ingest
  PROVE  Linked'
BY IngestStatus DEF Linked

LEMMA AnswerLinked ==
  ASSUME Linked, NEW a \in Answers[sends], Answer(a)
  PROVE  Linked'
<1>1. /\ answer' = Ok(Stamped(a)) /\ phase' = "replied"
      /\ resp' = [status |-> 200, body |-> ReplyBody(dialect, Stamped(a), parsed)]
      /\ UNCHANGED <<dialect, parsed, sends>>
  BY DEF Answer
<1>2. answer'.ok /\ answer'.value = Stamped(a)
  BY <1>1 DEF Ok
<1>3. Good(Stamped(a))
  BY StampedKeeps DEF Linked
<1>4. Replied'
  BY <1>1, <1>2, <1>3 DEF Replied
<1> QED
  BY <1>1, <1>2, <1>4 DEF Linked

LEMMA FailLinked ==
  ASSUME Linked, NEW e \in Failures[sends], Fail(e)
  PROVE  Linked'
<1>1. /\ answer' = Err(e) /\ phase' = "replied"
      /\ resp' = Envelope(dialect, e)
      /\ UNCHANGED <<dialect, sends>>
  BY DEF Fail
<1>2. ~answer'.ok /\ answer'.error = e
  BY <1>1 DEF Err
<1>3. Failure(e)
  BY FailuresAssumption DEF Linked, Failure
<1>4. resp'.status \notin 200 .. 299
  BY <1>1, <1>3, EnvelopeStatus
<1> QED
  BY <1>1, <1>2, <1>3, <1>4 DEF Linked

(* The invariant the properties rest on: at every point of a conversation  *)
(* the response is the answer's, and the outcome the response's.           *)
THEOREM LinkedAlways == Spec => []Linked
<1>1. ASSUME Linked, [Next]_vars PROVE Linked'
  <2>1. CASE Next
    BY <1>1, <2>1, SendLinked, ArriveLinked, IngestLinked, AnswerLinked, FailLinked,
       ReceiveLinked, LoseLinked, ContinueLinked DEF Next
  <2>2. CASE UNCHANGED vars
    BY <1>1, <2>2 DEF vars, Linked, Replied
  <2> QED
    BY <1>1, <2>1, <2>2
<1> QED
  BY <1>1, InitLinked, PTL DEF Spec

-----------------------------------------------------------------------------
(* The stop sequences *)
(* All but the system's *)
NotSystem(q) == Filter(q, LAMBDA m : m.role # "system")

Rendering(q) == [k \in DOMAIN q |-> render_message(q[k])]

Parsing(q) == FlattenSeq([k \in DOMAIN q |-> parse_message(q[k])])

LEMMA RenderedBody ==
  ASSUME NEW r, NEW body, body = to_anthropic(r), body.ok
  PROVE  /\ ~\E m \in ToSet(NotSystem(r.messages)) : m.role = "tool"
         /\ \E f, g :
              /\ body.value = Merged(Present(f), Only(g, Passthrough))
              /\ {"stop_sequences", "messages"} \subseteq DOMAIN f
              /\ f.stop_sequences = IF r.stop_sequences = <<>> THEN Null ELSE r.stop_sequences
              /\ f.messages = Rendering(NotSystem(r.messages))
<1> DEFINE spoken == NotSystem(r.messages)
           stops == IF r.stop_sequences = <<>> THEN Null ELSE r.stop_sequences
           f == [model |-> r.model,
                 max_tokens |-> IF r.max_tokens = Null THEN DefaultMaxTokens ELSE r.max_tokens,
                 stream |-> IF r.stream THEN TRUE ELSE Null,
                 temperature |-> r.temperature, top_p |-> r.top_p, stop_sequences |-> stops,
                 system |-> render_system(r), messages |-> Rendering(spoken),
                 tools |-> IF r.tools = <<>> THEN Null ELSE r.tools,
                 tool_choice |-> IF Is(r.tool_choice, "auto") THEN Null ELSE r.tool_choice,
                 response_format |-> r.response_format,
                 thinking |-> IF "thinking" \in DOMAIN r.extra THEN r.extra["thinking"]
                              ELSE IF r.thinking = Null THEN Null ELSE ThinkingObject(r.thinking),
                 user_id |-> IF Is(Get(r.extra, "user"), "string") THEN r.extra["user"] ELSE Null]
<1>1. body = IF ~Valid(r) \/ (\E m \in ToSet(spoken) : m.role = "tool") THEN BadRequest
             ELSE Ok(Merged(Present(f), Only(r.extra, Passthrough)))
  BY Zenon DEF to_anthropic, NotSystem, Rendering
<1>2. body # BadRequest
  BY DEF BadRequest, Err
<1>3. ~\E m \in ToSet(spoken) : m.role = "tool"
  BY <1>1, <1>2, Zenon
<1>4. body = Ok(Merged(Present(f), Only(r.extra, Passthrough)))
  BY <1>1, <1>2, Zenon
<1> HIDE DEF spoken, stops
<1>5. /\ {"stop_sequences", "messages"} \subseteq DOMAIN f
      /\ f.stop_sequences = stops /\ f.messages = Rendering(spoken)
  OBVIOUS
<1> HIDE DEF f
<1>6. body.value = Merged(Present(f), Only(r.extra, Passthrough))
  BY <1>4 DEF Ok
<1> QED
  BY <1>3, <1>5, <1>6 DEF stops, spoken

(* A field of a body, as long as no extra has its name *)
LEMMA MergedField ==
  ASSUME NEW f, NEW g, NEW keys, NEW k \in DOMAIN f, k \notin keys,
         NEW v, v = Merged(Present(f), Only(g, keys))
  PROVE  Get(v, k) = f[k]
<1>1. k \notin DOMAIN Only(g, keys)
  BY DEF Only, Present
<1>2. CASE f[k] = Null
  <2>1. k \notin DOMAIN Present(f)
    BY <1>2 DEF Present
  <2> QED
    BY <1>1, <1>2, <2>1 DEF Get, Merged
<1>3. CASE f[k] # Null
  <2>1. k \in DOMAIN Present(f) /\ Present(f)[k] = f[k]
    BY <1>3 DEF Present
  <2> QED
    BY <2>1 DEF Get, Merged
<1> QED
  BY <1>2, <1>3

LEMMA RenderedStops ==
  ASSUME NEW r, r.stop_sequences \in StopLists, NEW body, body = to_anthropic(r), body.ok
  PROVE  Get(body.value, "stop_sequences") \in StopLists
<1>1. PICK f, g :
        /\ body.value = Merged(Present(f), Only(g, Passthrough))
        /\ {"stop_sequences", "messages"} \subseteq DOMAIN f
        /\ f.stop_sequences = IF r.stop_sequences = <<>> THEN Null ELSE r.stop_sequences
  BY RenderedBody
<1>2. "stop_sequences" \notin Passthrough /\ "stop_sequences" \in DOMAIN f
  BY <1>1 DEF Passthrough
<1>3. Get(body.value, "stop_sequences") = f.stop_sequences
  BY <1>1, <1>2, MergedField
<1>4. f.stop_sequences \in StopLists
  BY <1>1 DEF StopLists
<1> QED
  BY <1>3, <1>4

LEMMA RenderedMessages ==
  ASSUME NEW r, NEW body, body = to_anthropic(r), body.ok
  PROVE  /\ Get(body.value, "messages") = Rendering(NotSystem(r.messages))
         /\ ~\E m \in ToSet(NotSystem(r.messages)) : m.role = "tool"
<1>1. PICK f, g :
        /\ body.value = Merged(Present(f), Only(g, Passthrough))
        /\ {"stop_sequences", "messages"} \subseteq DOMAIN f
        /\ f.messages = Rendering(NotSystem(r.messages))
  BY RenderedBody
<1>2. "messages" \notin Passthrough /\ "messages" \in DOMAIN f
  BY <1>1 DEF Passthrough
<1>3. Get(body.value, "messages") = f.messages
  BY <1>1, <1>2, MergedField
<1>4. ~\E m \in ToSet(NotSystem(r.messages)) : m.role = "tool"
  BY RenderedBody
<1> QED
  BY <1>1, <1>3, <1>4

LEMMA ParsedBody ==
  ASSUME NEW v, NEW p, p = Parse("Anthropic", v), p.ok
  PROVE  /\ Valid(p.value) /\ Get(v, "messages") # Null
         /\ p.value.stop_sequences = (IF Get(v, "stop_sequences") = <<>> THEN Null
                                      ELSE Get(v, "stop_sequences"))
         /\ p.value.messages = Cat(SystemTurn(Get(v, "system")), Parsing(Get(v, "messages")))
<1>1. PICK q : q = from_anthropic(v)
  OBVIOUS
<1>2. p = IF q.ok THEN require_max_tokens(q.value) ELSE q
  BY <1>1 DEF Parse
<1>3. q.ok /\ p.value = q.value
  BY <1>2 DEF require_max_tokens, BadRequest, Err, Ok
<1>4. PICK x : /\ q = Validated(x)
               /\ x.stop_sequences = (IF Get(v, "stop_sequences") = <<>> THEN Null
                                      ELSE Get(v, "stop_sequences"))
               /\ x.messages = Cat(SystemTurn(Get(v, "system")), Parsing(Get(v, "messages")))
  <2> DEFINE ms == Get(v, "messages")
             th == Get(v, "thinking")
             choice == Get(v, "tool_choice")
             asked == Get(v, "stop_sequences")
             stops == IF asked = <<>> THEN Null ELSE asked
             messages == Cat(SystemTurn(Get(v, "system")), Parsing(ms))
             x == [model |-> v["model"], messages |-> messages, stream |-> Get(v, "stream") = TRUE,
                   max_tokens |-> Get(v, "max_tokens"),
                   temperature |-> Get(v, "temperature"), top_p |-> Get(v, "top_p"),
                   stop_sequences |-> stops, tools |-> ClientTools(Get(v, "tools")),
                   tool_choice |-> IF choice = Null \/ Is(choice, "auto") THEN Null ELSE choice,
                   thinking |-> IF Is(th, "object")
                                THEN [budget_tokens |-> th.budget_tokens, effort |-> th.effort]
                                ELSE Null,
                   response_format |-> Get(v, "response_format"), extra |-> ParsedExtra(v)]
  <2>1. q = BadRequest \/ q = Panic \/ q = Validated(x)
    BY <1>1, Zenon DEF from_anthropic, Cat, Parsing
  <2>2. q # BadRequest /\ q # Panic
    BY <1>3 DEF BadRequest, Panic, Err
  <2>3. stops = IF Get(v, "stop_sequences") = <<>> THEN Null ELSE Get(v, "stop_sequences")
    OBVIOUS
  <2>4. messages = Cat(SystemTurn(Get(v, "system")), Parsing(Get(v, "messages")))
    OBVIOUS
  <2> HIDE DEF ms, th, choice, stops, messages
  <2>5. x.stop_sequences = stops /\ x.messages = messages
    OBVIOUS
  <2> HIDE DEF x
  <2> QED
    BY <2>1, <2>2, <2>3, <2>4, <2>5
<1>5. q = Ok(x) /\ Valid(x)
  BY <1>3, <1>4 DEF Validated, BadRequest, Err
<1>6. Get(v, "messages") # Null
  <2>1. Get(v, "messages") = Null => q = BadRequest
    BY <1>1, Zenon DEF from_anthropic
  <2> QED
    BY <1>3, <2>1 DEF BadRequest, Err
<1>7. p.value = x
  BY <1>3, <1>5 DEF Ok
<1> QED
  BY <1>4, <1>5, <1>6, <1>7

LEMMA ParsedStops ==
  ASSUME NEW v, Get(v, "stop_sequences") \in StopLists,
         NEW p, p = Parse("Anthropic", v), p.ok
  PROVE  p.value.stop_sequences \in StopLists
BY ParsedBody DEF StopLists

(* The server has parsed a request it does not refuse *)
Served ==
  \/ phase = "asked"
  \/ phase = "replied" /\ resp.status \in 200 .. 299
  \/ phase = "returned" /\ outcome.ok

(* Over Anthropic the stop sequences the server has of the caller's own    *)
(* call are a list, at every stage                                         *)
StopsKept ==
  /\ {"messages", "stop_sequences"} \subseteq DOMAIN req
  /\ req.stop_sequences \in StopLists
  /\ own /\ dialect = "Anthropic" =>
       /\ phase = "posted" => Get(wire, "stop_sequences") \in StopLists
       /\ Served => parsed.stop_sequences \in StopLists

LEMMA InitStops == Init => StopsKept
BY RequestsAssumption DEF Init, StopsKept, Served

LEMMA SendStops ==
  ASSUME StopsKept, NEW d \in Dialects, Send(d)
  PROVE  StopsKept'
<1>1. PICK body : body = IF req.stream THEN BadRequest ELSE Render(d, req)
  OBVIOUS
<1>2. /\ dialect' = d /\ UNCHANGED req
      /\ \/ body.ok /\ phase' = "posted" /\ wire' = body.value
         \/ ~body.ok /\ phase' = "returned" /\ outcome' = body
  BY <1>1 DEF Send, caller
<1>3. ASSUME d = "Anthropic", phase' = "posted"
      PROVE  Get(wire', "stop_sequences") \in StopLists
  <2>1. body.ok /\ wire' = body.value
    BY <1>2, <1>3
  <2>2. body = to_anthropic(req)
    BY <1>1, <1>3, <2>1 DEF Render, BadRequest, Err
  <2>3. req.stop_sequences \in StopLists
    BY DEF StopsKept
  <2> QED
    BY <2>1, <2>2, <2>3, RenderedStops
<1> QED
  BY <1>2, <1>3 DEF StopsKept, Served

LEMMA IngestStops ==
  ASSUME Linked, StopsKept, Ingest
  PROVE  StopsKept'
<1>1. PICK p : p = Parse(dialect, wire)
  OBVIOUS
<1>2. PICK c : c = IF p.ok THEN items_to_chat_request(p.value) ELSE p
  OBVIOUS
<1>3. /\ UNCHANGED <<req, dialect, own>>
      /\ parsed' = IF p.ok THEN p.value ELSE Null
      /\ \/ c.ok /\ phase' = "asked"
         \/ ~c.ok /\ phase' \in {"replied", "returned"}
  <2>1. /\ UNCHANGED <<req, dialect, own>> /\ phase = "posted"
        /\ parsed' = IF p.ok THEN p.value ELSE Null
        /\ \/ c.ok /\ phase' = "asked"
           \/ ~c.ok /\ phase' = "replied"
           \/ c = Panic /\ phase' = "returned"
    BY <1>1, <1>2, Zenon DEF Ingest, Refuse, caller
  <2> QED
    BY <2>1 DEF Panic, Err
<1>4. phase = "posted" /\ (Served' => phase' = "asked")
  BY IngestStatus DEF Served
<1>5. ASSUME own, dialect = "Anthropic", phase' = "asked"
      PROVE  parsed'.stop_sequences \in StopLists
  <2>1. p.ok /\ parsed' = p.value
    BY <1>2, <1>3, <1>5
  <2>2. Get(wire, "stop_sequences") \in StopLists
    BY <1>4, <1>5 DEF StopsKept
  <2>3. p = Parse("Anthropic", wire)
    BY <1>1, <1>5
  <2> QED
    BY <2>1, <2>2, <2>3, ParsedStops
<1> QED
  BY <1>3, <1>4, <1>5 DEF StopsKept

(* Once it is served a call stays with what was parsed *)
LEMMA LaterStops ==
  ASSUME StopsKept, Served' => Served, phase' # "posted",
         UNCHANGED <<req, dialect, own, parsed>>
  PROVE  StopsKept'
BY DEF StopsKept

LEMMA ReceiveStops ==
  ASSUME StopsKept, Receive
  PROVE  StopsKept'
<1>1. /\ phase = "replied" /\ phase' = "returned" /\ UNCHANGED <<req, dialect, own, parsed>>
  BY DEF Receive, caller, server
<1>2. outcome'.ok => resp.status \in 200 .. 299
  BY DEF Receive, Err
<1> QED
  BY <1>1, <1>2, LaterStops DEF Served

LEMMA LoseStops ==
  ASSUME StopsKept, Lose
  PROVE  StopsKept'
<1>1. /\ phase' = "returned" /\ ~outcome'.ok /\ UNCHANGED <<req, dialect, own, parsed>>
  BY DEF Lose, caller, server, Err
<1> QED
  BY <1>1, LaterStops DEF Served

LEMMA ContinueStops ==
  ASSUME StopsKept, NEW style \in Styles, Continue(style)
  PROVE  StopsKept'
<1>1. PICK ms : req' = [req EXCEPT !.messages = ms]
  BY DEF Continue
<1>2. phase' = "idle"
  BY DEF Continue
<1>3. DOMAIN req' = DOMAIN req /\ req'.stop_sequences = req.stop_sequences
  BY <1>1 DEF StopsKept
<1> QED
  BY <1>2, <1>3 DEF StopsKept, Served

(* At every point of a conversation the stop sequences a reply is read     *)
(* against are those of the caller's request, or none                      *)
LEMMA StopsAlways == Spec => []StopsKept
<1>1. ASSUME Linked, StopsKept, [Next]_vars PROVE StopsKept'
  <2>1. ASSUME NEW d \in DOMAIN Foreign, NEW body \in Foreign[d], Arrive(d, body)
        PROVE  StopsKept'
    BY <1>1, <2>1 DEF Arrive, caller, StopsKept
  <2>2. ASSUME NEW a \in Answers[sends], Answer(a) PROVE StopsKept'
    BY <1>1, <2>2, LaterStops DEF Answer, caller, Served
  <2>3. ASSUME NEW e \in Failures[sends], Fail(e) PROVE StopsKept'
    BY <1>1, <2>3, LaterStops DEF Fail, caller, Served
  <2>4. CASE UNCHANGED vars
    BY <1>1, <2>4 DEF vars, StopsKept, Served
  <2> QED
    BY <1>1, <2>1, <2>2, <2>3, <2>4, SendStops, IngestStops, ReceiveStops, LoseStops,
       ContinueStops DEF Next
<1> QED
  BY <1>1, InitStops, LinkedAlways, PTL DEF Spec

-----------------------------------------------------------------------------
LEMMA LinkedOutcome == Linked => OutcomeTrue
<1> SUFFICES ASSUME Linked, Told PROVE UsageTrue /\ VerdictTrue
  BY DEF OutcomeTrue
<1>1. /\ Good(answer.value) /\ dialect \in {"Anthropic", "OpenAiChat", "OpenAiResponses"}
      /\ outcome = Ok(ReadReply(dialect, ReplyBody(dialect, answer.value, parsed)))
  BY DEF Linked, Told, Replied
<1>2. PICK got : got = ReadReply(dialect, ReplyBody(dialect, answer.value, parsed))
  OBVIOUS
<1>3. outcome.value = got
  BY <1>1, <1>2 DEF Ok
<1>4. UsageKept(dialect, got.usage, answer.value.usage)
      /\ VerdictKept(dialect, got, answer.value, parsed.stop_sequences)
  BY <1>1, <1>2, ReplyKept
<1> QED
  BY <1>3, <1>4, Zenon DEF UsageTrue, VerdictTrue, UsageKept, VerdictKept

(* The counts the caller reads are those of the engine, as far as the      *)
(* dialect has them; length and content_filter stay what they were, except *)
(* that a filtered turn is a stop over Anthropic; and a stop sequence is   *)
(* named only if one was asked for and the engine stopped.                 *)
THEOREM OutcomeKept == Spec => []OutcomeTrue
  BY LinkedAlways, LinkedOutcome, PTL

LEMMA ReportedAll ==
  ASSUME NEW d \in {"Anthropic", "OpenAiChat", "OpenAiResponses"}, NEW a, Worth(a), NEW r,
         d = "Anthropic" => r.stop_sequences \in StopLists,
         NEW got, got = ReadReply(d, ReplyBody(d, a, r))
  PROVE  Reported(d, got, a)
<1>1. CASE d = "Anthropic"
  <2>1. PICK body :
          body = apply_stop_sequence_echo(response_from_canonical(a), a, r.stop_sequences)
    OBVIOUS
  <2>2. got = AnthropicReply(body)
    BY <1>1, <2>1 DEF ReadReply, ReplyBody
  <2> QED
    BY <1>1, <2>1, <2>2, AnthropicReported
<1>2. CASE d = "OpenAiResponses"
  <2>1. PICK body : body = responses_body_from_chat(a)
    OBVIOUS
  <2>2. got = ResponsesReply(body)
    BY <1>2, <2>1 DEF ReadReply, ReplyBody
  <2> QED
    BY <1>2, <2>1, <2>2, ResponsesReported
<1>3. CASE d = "OpenAiChat"
  <2>1. got = ChatReply(a)
    BY <1>3 DEF ReadReply, ReplyBody
  <2> QED
    BY <1>3, <2>1, ChatReported
<1> QED
  BY <1>1, <1>2, <1>3

LEMMA LinkedReply == Linked /\ StopsKept => ReplyTrue
<1> SUFFICES ASSUME Linked, StopsKept, Told PROVE Reported(dialect, outcome.value, answer.value)
  BY Zenon DEF ReplyTrue, Reported, Made, Thoughts
<1>1. /\ Good(answer.value) /\ dialect \in {"Anthropic", "OpenAiChat", "OpenAiResponses"}
      /\ outcome = Ok(ReadReply(dialect, ReplyBody(dialect, answer.value, parsed)))
  BY DEF Linked, Told, Replied
<1>2. PICK got : got = ReadReply(dialect, ReplyBody(dialect, answer.value, parsed))
  OBVIOUS
<1>3. outcome.value = got
  BY <1>1, <1>2 DEF Ok
<1>4. dialect = "Anthropic" => parsed.stop_sequences \in StopLists
  BY DEF StopsKept, Told, Served
<1>5. Worth(answer.value)
  BY <1>1 DEF Good
<1> QED
  BY <1>1, <1>2, <1>3, <1>4, <1>5, ReportedAll

(* What the caller reads is what the engine said, in every dialect: the    *)
(* words, less a stop sequence it is told of, every call in its order with *)
(* the name and the arguments it was made with, and the thinking first,    *)
(* which Anthropic keeps block for block.                                  *)
THEOREM ReplyKeptTrue == Spec => []ReplyTrue
  BY LinkedAlways, StopsAlways, LinkedReply, PTL

-----------------------------------------------------------------------------
(* Cache markers *)
(* Null is no JSON array and no list.  A model value is neither, but TLC   *)
(* cannot evaluate the formula, so it is a hypothesis and no assumption of *)
(* Exchange.                                                               *)
NullApart ==
  /\ \A q : Arr(q) # Null
  /\ \A q : Listed(q) => q # Null

LEMMA BlockBack ==
  ASSUME NEW it, WellMade(it), Renderable(it), NEW cc, NEW b, b = Block(it, cc)
  PROVE  /\ Kept(b) /\ b.cc = cc
         /\ Renderable(ItemOf(b)) /\ Label(ItemOf(b)) = Label(it)
<1>1. PICK t, c : /\ t = it.type
                  /\ c = IF Is(it.content, "string") THEN it.content ELSE Str(JsonText(it.content))
  OBVIOUS
<1>6. b = CASE t = "text" -> [type |-> "text", text |-> it.text, cc |-> cc]
            [] t = "thinking" /\ it.redacted_data # Null ->
                 [type |-> "redacted_thinking", data |-> it.redacted_data, cc |-> cc]
            [] t = "thinking" /\ it.redacted_data = Null ->
                 [type |-> "thinking", thinking |-> it.text, signature |-> it.signature, cc |-> cc]
            [] t = "tool_call" ->
                 [type |-> "tool_use", id |-> it.id, name |-> it.name, input |-> it.arguments, cc |-> cc]
            [] t = "tool_result" ->
                 [type |-> "tool_result", tool_use_id |-> it.tool_call_id, is_error |-> it.is_error,
                  content |-> c, cc |-> cc]
  BY <1>1, Zenon DEF Block
<1>2. CASE t = "text"
  <2>1. b = [type |-> "text", text |-> it.text, cc |-> cc]
    BY <1>2, <1>6
  <2>2. ItemOf(b) = [type |-> "text", text |-> it.text]
    BY <2>1 DEF ItemOf, Text
  <2> QED
    BY <1>1, <1>2, <2>1, <2>2 DEF Kept, Renderable, Label, WellMade
<1>3. CASE t = "thinking"
  <2>1. CASE it.redacted_data # Null
    <3>1. b = [type |-> "redacted_thinking", data |-> it.redacted_data, cc |-> cc]
      BY <1>3, <1>6, <2>1
    <3>2. ItemOf(b) = Thinking(<<>>, Null, Null, it.redacted_data)
      BY <3>1 DEF ItemOf
    <3> QED
      BY <1>1, <1>3, <2>1, <3>1, <3>2 DEF Kept, Renderable, Label, Thinking
  <2>2. CASE it.redacted_data = Null
    <3>1. b = [type |-> "thinking", thinking |-> it.text, signature |-> it.signature, cc |-> cc]
      BY <1>3, <1>6, <2>2
    <3>2. ItemOf(b) = Thinking(it.text, it.signature, Null, Null)
      BY <3>1 DEF ItemOf
    <3> QED
      BY <1>1, <1>3, <2>2, <3>1, <3>2 DEF Kept, Renderable, Label, Thinking
  <2> QED
    BY <2>1, <2>2
<1>4. CASE t = "tool_call"
  <2>1. b = [type |-> "tool_use", id |-> it.id, name |-> it.name, input |-> it.arguments, cc |-> cc]
    BY <1>4, <1>6
  <2>2. ItemOf(b) = ToolCall(it.id, it.name, it.arguments)
    BY <2>1 DEF ItemOf
  <2> QED
    BY <1>1, <1>4, <2>1, <2>2 DEF Kept, Renderable, Label, ToolCall
<1>5. CASE t = "tool_result"
  <2>1. b = [type |-> "tool_result", tool_use_id |-> it.tool_call_id,
             is_error |-> it.is_error, content |-> c, cc |-> cc]
    BY <1>5, <1>6
  <2>2. ItemOf(b) = ToolResult(it.tool_call_id, Str(PlainText(c)), it.is_error)
    BY <2>1 DEF ItemOf
  <2>3. PICK r : r = Str(PlainText(c))
    OBVIOUS
  <2> QED
    BY <1>1, <1>5, <2>1, <2>2, <2>3 DEF Kept, Renderable, Label, ToolResult
<1> QED
  BY <1>1, <1>2, <1>3, <1>4, <1>5 DEF WellMade, Renderable

(* The markers of a block, as its item's *)
Tag(it, c) == <<Label(it), c>>
BlockTags(B) == [b \in B |-> IF b.cc # Null /\ Renderable(ItemOf(b))
                             THEN One(Tag(ItemOf(b), b.cc)) ELSE Nil]

(* The blocks a message is rendered in, and the markers of those, by item *)
BlockAt(m) == [i \in 1 .. Len(m.items) |->
                 IF Renderable(m.items[i]) THEN One(Block(m.items[i], Marker(m, i))) ELSE Nil]
TagAt(m) == [i \in 1 .. Len(m.items) |->
               IF Marker(m, i) # Null /\ Renderable(m.items[i])
               THEN One(Tag(m.items[i], Marker(m, i))) ELSE Nil]
BlocksAt(m) ==
  {Block(m.items[i], Marker(m, i)) : i \in {j \in 1 .. Len(m.items) : Renderable(m.items[j])}}
TagsAt(m) == {Tag(m.items[i], Marker(m, i)) : i \in 1 .. Len(m.items)}
Places(m) == [i \in 1 .. Len(m.items) |-> i]

LEMMA PlacesOf ==
  ASSUME NEW m, Parallel(m)
  PROVE  Of(Places(m), 1 .. Len(m.items))
<1>1. Len(m.items) \in Nat
  BY DEF Parallel
<1> QED
  BY <1>1 DEF Places, Of

LEMMA BlocksMap ==
  ASSUME NEW m, Parallel(m)
  PROVE  /\ MapsTo(BlockAt(m), 1 .. Len(m.items), BlocksAt(m))
         /\ MapsTo(TagAt(m), 1 .. Len(m.items), TagsAt(m))
<1>1. ASSUME NEW i \in 1 .. Len(m.items)
      PROVE  /\ BlockAt(m)[i] \in Seq(BlocksAt(m))
             /\ TagAt(m)[i] \in Seq(TagsAt(m))
  <2>1. Nil \in Seq(BlocksAt(m)) /\ Nil \in Seq(TagsAt(m))
    BY NilOf DEF Of
  <2>2. Renderable(m.items[i]) => One(Block(m.items[i], Marker(m, i))) \in Seq(BlocksAt(m))
    <3>1. Renderable(m.items[i]) => Block(m.items[i], Marker(m, i)) \in BlocksAt(m)
      BY DEF BlocksAt
    <3> QED
      BY <3>1, OneOf DEF Of
  <2>3. One(Tag(m.items[i], Marker(m, i))) \in Seq(TagsAt(m))
    <3>1. Tag(m.items[i], Marker(m, i)) \in TagsAt(m)
      BY DEF TagsAt
    <3> QED
      BY <3>1, OneOf DEF Of
  <2> QED
    BY <2>1, <2>2, <2>3 DEF BlockAt, TagAt
<1> QED
  BY <1>1 DEF MapsTo, BlockAt, TagAt

LEMMA ItemsAt ==
  ASSUME NEW m, Parallel(m), NEW i \in 1 .. Len(m.items)
  PROVE  WellMade(m.items[i])
<1>1. m.items[i] \in ToSet(m.items)
  BY DEF Parallel, ToSet
<1> QED
  BY <1>1 DEF Parallel

(* The markers of the blocks are those of the items *)
LEMMA TagsThrough ==
  ASSUME NEW m, Parallel(m)
  PROVE  /\ MapsTo(BlockTags(BlocksAt(m)), BlocksAt(m), TagsAt(m))
         /\ Through(TagAt(m), BlockAt(m), BlockTags(BlocksAt(m)), 1 .. Len(m.items))
<1> DEFINE B == BlocksAt(m)
           M == BlockTags(B)
           X == TagsAt(m)
<1>1. ASSUME NEW i \in 1 .. Len(m.items), Renderable(m.items[i]),
             NEW b, b = Block(m.items[i], Marker(m, i))
      PROVE  /\ b \in B
             /\ M[b] = IF Marker(m, i) # Null THEN One(Tag(m.items[i], Marker(m, i))) ELSE Nil
             /\ M[b] \in Seq(X)
  <2>1. b \in B
    BY <1>1 DEF BlocksAt
  <2>2. WellMade(m.items[i])
    BY ItemsAt
  <2>3. /\ b.cc = Marker(m, i)
        /\ Renderable(ItemOf(b)) /\ Label(ItemOf(b)) = Label(m.items[i])
    BY <1>1, <2>2, BlockBack
  <2>4. M[b] = IF b.cc # Null /\ Renderable(ItemOf(b)) THEN One(Tag(ItemOf(b), b.cc)) ELSE Nil
    BY <2>1 DEF BlockTags
  <2>5. Tag(ItemOf(b), b.cc) = Tag(m.items[i], Marker(m, i))
    BY <2>3 DEF Tag
  <2>6. Tag(m.items[i], Marker(m, i)) \in X
    BY DEF TagsAt
  <2>7. One(Tag(m.items[i], Marker(m, i))) \in Seq(X) /\ Nil \in Seq(X)
    BY <2>6, OneOf DEF Of
  <2> QED
    BY <2>1, <2>3, <2>4, <2>5, <2>7
<1>2. MapsTo(M, B, X)
  <2>1. ASSUME NEW b \in B PROVE M[b] \in Seq(X)
    <3>1. PICK i \in 1 .. Len(m.items) :
            Renderable(m.items[i]) /\ b = Block(m.items[i], Marker(m, i))
      BY DEF BlocksAt
    <3> QED
      BY <1>1, <3>1
  <2> QED
    BY <2>1 DEF MapsTo, BlockTags
<1>3. ASSUME NEW i \in 1 .. Len(m.items) PROVE TagAt(m)[i] = Along(M, BlockAt(m)[i])
  <2>1. CASE Renderable(m.items[i])
    <3>1. PICK b : b = Block(m.items[i], Marker(m, i))
      OBVIOUS
    <3>2. BlockAt(m)[i] = One(b)
      BY <2>1, <3>1 DEF BlockAt
    <3>3. b \in B /\ M[b] = IF Marker(m, i) # Null THEN One(Tag(m.items[i], Marker(m, i))) ELSE Nil
      BY <1>1, <2>1, <3>1
    <3>4. TagAt(m)[i] = M[b]
      BY <2>1, <3>3 DEF TagAt
    <3> HIDE DEF M, B, X
    <3>5. Along(M, One(b)) = M[b]
      BY <1>2, <3>3, AlongSingle
    <3> QED
      BY <3>2, <3>4, <3>5
  <2>2. CASE ~Renderable(m.items[i])
    <3>1. BlockAt(m)[i] = Nil /\ TagAt(m)[i] = Nil
      BY <2>2 DEF BlockAt, TagAt
    <3> QED
      BY <3>1, AlongNil
  <2> QED
    BY <2>1, <2>2
<1> QED
  BY <1>2, <1>3 DEF Through

LEMMA FlattenNone ==
  ASSUME NEW h, DOMAIN h = {}, h = [k \in DOMAIN h |-> h[k]]
  PROVE  FlattenSeq(h) = Nil
<1>1. PICK W : W = [x \in {} |-> Nil]
  OBVIOUS
<1>2. DOMAIN Nil = {}
  BY DEF Nil
<1>3. h = [k \in DOMAIN Nil |-> W[Nil[k]]]
  BY <1>2
<1>4. FlattenSeq(h) = Along(W, Nil)
  BY <1>3, AlongIs
<1> QED
  BY <1>4, AlongNil

LEMMA MarkedNone ==
  ASSUME NEW m, m.cc = <<>>
  PROVE  Marked(m) = Nil
<1>1. PICK h : h = [i \in DOMAIN m.cc |-> IF m.cc[i] # Null /\ Renderable(m.items[i])
                                          THEN << <<Label(m.items[i]), m.cc[i]>> >> ELSE <<>>]
  OBVIOUS
<1>2. DOMAIN h = {} /\ h = [k \in DOMAIN h |-> h[k]]
  BY <1>1
<1>3. Marked(m) = FlattenSeq(h)
  BY <1>1 DEF Marked
<1> QED
  BY <1>2, <1>3, FlattenNone

LEMMA BlocksAlong ==
  ASSUME NEW m, Parallel(m)
  PROVE  Blocks(m) = Along(BlockAt(m), Places(m)) /\ Of(Blocks(m), BlocksAt(m))
<1>1. PICK h : h = [i \in DOMAIN m.items |->
                      IF Renderable(m.items[i]) THEN <<Block(m.items[i], Marker(m, i))>> ELSE <<>>]
  OBVIOUS
<1>2. DOMAIN m.items = 1 .. Len(m.items)
  BY DEF Parallel
<1>3. h = [k \in DOMAIN Places(m) |-> BlockAt(m)[Places(m)[k]]]
  <2>1. DOMAIN Places(m) = 1 .. Len(m.items)
    BY DEF Places
  <2>2. \A k \in 1 .. Len(m.items) : h[k] = BlockAt(m)[Places(m)[k]]
    BY <1>1, <1>2 DEF Places, BlockAt, One, Nil
  <2> QED
    BY <1>1, <1>2, <2>1, <2>2
<1>4. Blocks(m) = FlattenSeq(h)
  BY <1>1 DEF Blocks
<1>5. Blocks(m) = Along(BlockAt(m), Places(m))
  BY <1>3, <1>4, AlongIs
<1> QED
  BY <1>5, BlocksMap, PlacesOf, AlongOf

LEMMA MarkedAlong ==
  ASSUME NEW m, Parallel(m)
  PROVE  Marked(m) = Along(TagAt(m), Places(m)) /\ Of(Marked(m), TagsAt(m))
<1> DEFINE I == 1 .. Len(m.items)
<1>1. Of(Places(m), I) /\ MapsTo(TagAt(m), I, TagsAt(m))
  BY PlacesOf, BlocksMap
<1>2. Marked(m) = Along(TagAt(m), Places(m))
  <2>1. CASE Len(m.cc) = 0
    <3>1. m.cc = <<>> /\ DOMAIN m.cc = {}
      BY <2>1, EmptySeq DEF Parallel
    <3>2. \A i \in I : TagAt(m)[i] = Nil
      BY <3>1 DEF TagAt, Marker
    <3>3. Along(TagAt(m), Places(m)) = Nil
      BY <1>1, <3>2, AlongNone
    <3> QED
      BY <3>1, <3>3, MarkedNone
  <2>2. CASE Len(m.cc) = Len(m.items)
    <3>1. DOMAIN m.cc = I
      BY <2>2 DEF Parallel
    <3>2. PICK h : h = [i \in DOMAIN m.cc |-> IF m.cc[i] # Null /\ Renderable(m.items[i])
                                              THEN << <<Label(m.items[i]), m.cc[i]>> >> ELSE <<>>]
      OBVIOUS
    <3>3. h = [k \in DOMAIN Places(m) |-> TagAt(m)[Places(m)[k]]]
      <4>1. DOMAIN Places(m) = I
        BY DEF Places
      <4>2. \A k \in I : h[k] = TagAt(m)[Places(m)[k]]
        BY <3>1, <3>2 DEF Places, TagAt, Tag, Marker, One, Nil
      <4> QED
        BY <3>1, <3>2, <4>1, <4>2
    <3>4. Marked(m) = FlattenSeq(h)
      BY <3>2 DEF Marked
    <3> QED
      BY <3>3, <3>4, AlongIs
  <2> QED
    BY <2>1, <2>2 DEF Parallel
<1> QED
  BY <1>1, <1>2, AlongOf

LEMMA MarkedBlocks ==
  ASSUME NEW m, Parallel(m)
  PROVE  Marked(m) = Along(BlockTags(BlocksAt(m)), Blocks(m))
<1> DEFINE I == 1 .. Len(m.items)
           M == BlockTags(BlocksAt(m))
<1>1. /\ Of(Places(m), I)
      /\ MapsTo(BlockAt(m), I, BlocksAt(m)) /\ MapsTo(TagAt(m), I, TagsAt(m))
      /\ MapsTo(M, BlocksAt(m), TagsAt(m)) /\ Through(TagAt(m), BlockAt(m), M, I)
  BY PlacesOf, BlocksMap, TagsThrough
<1> HIDE DEF I, M
<1>2. Along(M, Along(BlockAt(m), Places(m))) = Along(TagAt(m), Places(m))
  BY <1>1, AlongAlong
<1> QED
  BY <1>2, BlocksAlong, MarkedAlong DEF M

LEMMA BlocksKept ==
  ASSUME NEW m, Parallel(m)
  PROVE  Filter(Blocks(m), Kept) = Blocks(m)
<1>1. PICK q, B : q = Blocks(m) /\ B = BlocksAt(m)
  OBVIOUS
<1>2. Of(q, B)
  BY <1>1, BlocksAlong
<1>3. \A b \in B : Kept(b)
  <2>1. ASSUME NEW i \in 1 .. Len(m.items), Renderable(m.items[i])
        PROVE  Kept(Block(m.items[i], Marker(m, i)))
    <3>1. WellMade(m.items[i])
      BY ItemsAt
    <3> QED
      BY <2>1, <3>1, BlockBack
  <2> QED
    BY <1>1, <2>1 DEF BlocksAt
<1>4. PICK G : G = [b \in B |-> One(b)]
  OBVIOUS
<1>5. \A b \in B : G[b] = One(b)
  BY <1>4
<1>6. MapsTo(G, B, B)
  <2>1. \A b \in B : One(b) \in Seq(B)
    BY OneOf DEF Of
  <2> QED
    BY <1>4, <2>1 DEF MapsTo
<1>7. PICK h : h = [k \in DOMAIN q |-> G[q[k]]]
  OBVIOUS
<1>8. h = [k \in DOMAIN q |-> IF Kept(q[k]) THEN <<q[k]>> ELSE <<>>]
  <2>1. ASSUME NEW k \in DOMAIN q PROVE q[k] \in B
    BY <1>2 DEF Of
  <2>2. ASSUME NEW k \in DOMAIN q PROVE h[k] = IF Kept(q[k]) THEN <<q[k]>> ELSE <<>>
    BY <1>3, <1>5, <1>7, <2>1 DEF One
  <2> QED
    BY <1>7, <2>2
<1>9. Filter(q, Kept) = FlattenSeq(h)
  BY <1>8, Zenon DEF Filter
<1>10. FlattenSeq(h) = Along(G, q)
  BY <1>7, AlongIs
<1>11. Along(G, q) = q
  BY <1>2, <1>5, <1>6, AlongSame
<1> QED
  BY <1>1, <1>9, <1>10, <1>11

LEMMA NothingKept == Filter(<<>>, Kept) = <<>>
<1>1. PICK h : h = [k \in DOMAIN <<>> |-> IF Kept(<<>>[k]) THEN << <<>>[k] >> ELSE <<>>]
  OBVIOUS
<1>2. DOMAIN h = {} /\ h = [k \in DOMAIN h |-> h[k]]
  BY <1>1
<1>3. FlattenSeq(h) = Nil
  BY <1>2, FlattenNone
<1>4. Filter(<<>>, Kept) = FlattenSeq(h)
  BY <1>1, Zenon DEF Filter
<1> QED
  BY <1>3, <1>4 DEF Nil

(* A message that is rendered is parsed to one of the same role, with the  *)
(* same markers on the same items                                          *)
Returns(m) == \E pm : /\ parse_message(render_message(m)) = One(pm)
                      /\ pm.role = m.role /\ Marked(pm) = Marked(m)

LEMMA MessageBack ==
  ASSUME NullApart, NEW m, Parallel(m), m.role \in {"user", "assistant"}
  PROVE  Returns(m)
<1>1. PICK content : content = IF Shorthand(m) THEN Str(m.items[1].text) ELSE Arr(Blocks(m))
  OBVIOUS
<1>2. PICK r : r = [role |-> m.role, content |-> content]
  OBVIOUS
<1>3. render_message(m) = r /\ r.role = m.role /\ r.content = content
  BY <1>1, <1>2 DEF render_message
<1>4. PICK blocks : blocks = Filter(BlocksOf(r), Kept)
  OBVIOUS
<1>5. PICK cc, items : /\ cc = [k \in DOMAIN blocks |-> blocks[k].cc]
                       /\ items = IF Is(r.content, "string") THEN <<Text(r.content.text)>>
                                  ELSE [k \in DOMAIN blocks |-> ItemOf(blocks[k])]
  OBVIOUS
<1>6. PICK got, marks : /\ got = IF items = <<>> THEN <<Text(<<>>)>> ELSE items
                        /\ marks = IF ToSet(cc) \subseteq {Null} THEN <<>> ELSE cc
  OBVIOUS
<1>7. PICK pm : pm = [role |-> r.role, name |-> Null, items |-> got, cc |-> marks]
  OBVIOUS
<1>8. pm.role = m.role /\ pm.items = got /\ pm.cc = marks
  BY <1>3, <1>7
<1>9. parse_message(r) = One(pm)
  <2>1. parse_message(r) = IF r.role = "system" THEN SystemTurn(r.content) ELSE <<pm>>
    BY <1>4, <1>5, <1>6, <1>7, Zenon DEF parse_message
  <2>2. r.role # "system"
    BY <1>3
  <2> QED
    BY <2>1, <2>2 DEF One
<1>10. Marked(pm) = Marked(m)
  <2>1. CASE Shorthand(m)
    <3>1. ~Is(content, "array")
      BY <1>1, <2>1 DEF Is, Str
    <3>2. BlocksOf(r) = <<>>
      BY <1>3, <3>1 DEF BlocksOf
    <3>3. blocks = <<>>
      BY <1>4, <3>2, NothingKept
    <3>4. ToSet(cc) = {}
      BY <1>5, <3>3 DEF ToSet
    <3>5. marks = <<>> /\ m.cc = <<>>
      BY <1>6, <2>1, <3>4 DEF Shorthand
    <3> QED
      BY <1>8, <3>5, MarkedNone
  <2>2. CASE ~Shorthand(m)
    <3>1. PICK q : q = Blocks(m)
      OBVIOUS
    <3>2. content = Arr(q) /\ Is(content, "array") /\ content.parts = q /\ ~Is(content, "string")
      BY <1>1, <2>2, <3>1 DEF Is, Arr, NullApart
    <3>3. BlocksOf(r) = q
      BY <1>3, <3>2 DEF BlocksOf
    <3>4. blocks = q
      BY <1>4, <3>1, <3>3, BlocksKept
    <3>5. items = [k \in DOMAIN q |-> ItemOf(q[k])] /\ cc = [k \in DOMAIN q |-> q[k].cc]
      BY <1>3, <1>5, <3>2, <3>4
    <3>6. PICK B : B = BlocksAt(m) /\ Of(q, B)
      BY <3>1, BlocksAlong
    <3>7. MapsTo(BlockTags(B), B, TagsAt(m)) /\ Marked(m) = Along(BlockTags(B), q)
      BY <3>1, <3>6, TagsThrough, MarkedBlocks
    <3>8. \A k \in DOMAIN q : q[k] \in B
      BY <3>6 DEF Of
    <3>9. CASE ToSet(cc) \subseteq {Null}
      <4>1. PICK T : T = {b \in B : b.cc = Null}
        OBVIOUS
      <4>2. \A k \in DOMAIN q : q[k].cc = Null
        BY <3>5, <3>9 DEF ToSet
      <4>3. Of(q, T)
        <5>1. PICK n \in Nat : DOMAIN q = 1 .. n /\ q = [k \in 1 .. n |-> q[k]]
          BY <3>6 DEF Of
        <5>2. \A k \in 1 .. n : q[k] \in T
          BY <3>8, <4>1, <4>2, <5>1
        <5> QED
          BY <5>1, <5>2 DEF Of
      <4>4. T \subseteq B /\ \A b \in T : BlockTags(B)[b] = Nil
        BY <4>1 DEF BlockTags
      <4>5. Along(BlockTags(B), q) = Nil
        BY <3>7, <4>3, <4>4, AlongNone
      <4>6. marks = <<>>
        BY <1>6, <3>9
      <4> QED
        BY <1>8, <3>7, <4>5, <4>6, MarkedNone
    <3>10. CASE ~(ToSet(cc) \subseteq {Null})
      <4>1. marks = cc /\ DOMAIN cc # {}
        BY <1>6, <3>10 DEF ToSet
      <4>2. items # <<>>
        BY <3>5, <4>1
      <4>3. pm.items = items /\ pm.cc = cc
        BY <1>6, <1>8, <4>1, <4>2
      <4>4. PICK h : h = [i \in DOMAIN cc |-> IF cc[i] # Null /\ Renderable(items[i])
                                              THEN << <<Label(items[i]), cc[i]>> >> ELSE <<>>]
        OBVIOUS
      <4>5. Marked(pm) = FlattenSeq(h)
        BY <4>3, <4>4, Zenon DEF Marked
      <4>6. ASSUME NEW k \in DOMAIN q PROVE h[k] = BlockTags(B)[q[k]]
        <5>1. k \in DOMAIN cc /\ cc[k] = q[k].cc /\ items[k] = ItemOf(q[k])
          BY <3>5
        <5>2. h[k] = IF q[k].cc # Null /\ Renderable(ItemOf(q[k]))
                     THEN << <<Label(ItemOf(q[k])), q[k].cc>> >> ELSE <<>>
          BY <4>4, <5>1
        <5>3. q[k] \in B
          BY <3>8
        <5> QED
          BY <5>2, <5>3 DEF BlockTags, Tag, One, Nil
      <4>7. h = [k \in DOMAIN q |-> BlockTags(B)[q[k]]]
        BY <3>5, <4>4, <4>6
      <4>8. FlattenSeq(h) = Along(BlockTags(B), q)
        BY <4>7, AlongIs
      <4> QED
        BY <3>7, <4>5, <4>8
    <3> QED
      BY <3>9, <3>10
  <2> QED
    BY <2>1, <2>2
<1> QED
  BY <1>3, <1>8, <1>9, <1>10 DEF Returns

LEMMA OfEach ==
  ASSUME NEW S, NEW T, NEW q, Of(q, S), \A k \in DOMAIN q : q[k] \in T
  PROVE  Of(q, T)
<1>1. PICK n \in Nat : DOMAIN q = 1 .. n /\ q = [k \in 1 .. n |-> q[k]]
  BY DEF Of
<1>2. q \in [1 .. n -> T]
  BY <1>1
<1> QED
  BY <1>1, <1>2 DEF Of

LEMMA ConversationOf ==
  ASSUME NEW ms, NEW S, Of(ms, S), \A m \in S : Parallel(m)
  PROVE  Conversation(ms)
<1>1. PICK n \in Nat : DOMAIN ms = 1 .. n /\ ms = [k \in 1 .. n |-> ms[k]]
  BY DEF Of
<1>2. \A k \in 1 .. n : ms[k] \in S /\ ms[k] \in ToSet(ms)
  BY <1>1 DEF Of, ToSet
<1>3. ms \in Seq(ToSet(ms))
  BY <1>1, <1>2
<1>4. ToSet(ms) \subseteq S
  BY <1>1, <1>2 DEF ToSet
<1> QED
  BY <1>3, <1>4 DEF Conversation

(* Filters, element by element *)
Choose(S, T) == [x \in S |-> IF x \in T THEN One(x) ELSE Nil]

LEMMA ChooseMap ==
  ASSUME NEW S, NEW T
  PROVE  MapsTo(Choose(S, T), S, T)
<1>1. ASSUME NEW x \in S PROVE (IF x \in T THEN One(x) ELSE Nil) \in Seq(T)
  <2>1. Nil \in Seq(T) /\ (x \in T => One(x) \in Seq(T))
    BY OneOf, NilOf DEF Of
  <2> QED
    BY <2>1
<1> QED
  BY <1>1 DEF MapsTo, Choose

LEMMA ChooseOne ==
  ASSUME NEW S, NEW T, NEW x \in S
  PROVE  Along(Choose(S, T), One(x)) = Choose(S, T)[x]
<1>1. PICK G : G = Choose(S, T)
  OBVIOUS
<1>2. MapsTo(G, S, T)
  BY <1>1, ChooseMap
<1>3. Along(G, One(x)) = G[x]
  BY <1>2, AlongSingle
<1> QED
  BY <1>1, <1>3

LEMMA OfRoleIs ==
  ASSUME NEW S, NEW q, Of(q, S), NEW roles, NEW T, T = {m \in S : m.role \in roles}
  PROVE  OfRole(q, roles) = Along(Choose(S, T), q) /\ Of(OfRole(q, roles), T)
<1>1. PICK h : h = [k \in DOMAIN q |-> IF q[k].role \in roles THEN <<q[k]>> ELSE <<>>]
  OBVIOUS
<1>2. ASSUME NEW k \in DOMAIN q PROVE h[k] = Choose(S, T)[q[k]]
  <2>1. q[k] \in S
    BY DEF Of
  <2> QED
    BY <1>1, <2>1 DEF Choose, One, Nil
<1>3. h = [k \in DOMAIN q |-> Choose(S, T)[q[k]]]
  BY <1>1, <1>2
<1>4. OfRole(q, roles) = FlattenSeq(h)
  BY <1>1 DEF OfRole, Filter
<1>5. OfRole(q, roles) = Along(Choose(S, T), q)
  BY <1>3, <1>4, AlongIs
<1> QED
  BY <1>5, ChooseMap, AlongOf

LEMMA SpokenIs ==
  ASSUME NEW S, NEW q, Of(q, S), NEW T, T = {m \in S : m.role # "system"},
         NEW spoken, spoken = NotSystem(q)
  PROVE  spoken = Along(Choose(S, T), q) /\ Of(spoken, T)
<1>1. PICK h : h = [k \in DOMAIN q |-> IF q[k].role # "system" THEN <<q[k]>> ELSE <<>>]
  OBVIOUS
<1>2. ASSUME NEW k \in DOMAIN q PROVE h[k] = Choose(S, T)[q[k]]
  <2>1. q[k] \in S
    BY DEF Of
  <2> QED
    BY <1>1, <2>1 DEF Choose, One, Nil
<1>3. h = [k \in DOMAIN q |-> Choose(S, T)[q[k]]]
  BY <1>1, <1>2
<1>4. spoken = FlattenSeq(h)
  BY <1>1 DEF NotSystem, Filter
<1>5. spoken = Along(Choose(S, T), q)
  BY <1>3, <1>4, AlongIs
<1> QED
  BY <1>5, ChooseMap, AlongOf

(* The messages a dialogue has *)
Talk == {"user", "assistant"}

(* Who is spoken for, if nothing is in the role of a tool *)
LEMMA SpokenTalk ==
  ASSUME NEW q, Conversation(q), NEW spoken, spoken = NotSystem(q),
         ~\E m \in ToSet(spoken) : m.role = "tool",
         NEW T, T = {m \in ToSet(q) : m.role \in Talk}
  PROVE  OfRole(q, Talk) = spoken /\ Of(spoken, T)
<1>1. PICK S : S = ToSet(q) /\ Of(q, S)
  BY DEF Conversation, Of
<1>2. PICK U : U = {m \in S : m.role # "system"}
  OBVIOUS
<1>3. spoken = Along(Choose(S, U), q) /\ Of(spoken, U)
  BY <1>1, <1>2, SpokenIs
<1>4. \A m \in S : m.role \in Roles
  BY <1>1 DEF Conversation, Parallel
<1>5. Of(spoken, T)
  <2>1. ASSUME NEW k \in DOMAIN spoken PROVE spoken[k] \in T
    <3>1. PICK m : m = spoken[k]
      OBVIOUS
    <3>2. m \in U
      BY <1>3, <3>1 DEF Of
    <3>3. m \in ToSet(spoken)
      BY <3>1 DEF ToSet
    <3>4. m \in S /\ m.role # "system" /\ m.role # "tool"
      BY <1>2, <3>2, <3>3
    <3>5. m.role \in Talk
      BY <1>4, <3>4 DEF Roles, Talk
    <3> QED
      BY <1>1, <3>1, <3>4, <3>5
  <2> QED
    BY <1>3, <2>1, OfEach
<1>6. OfRole(q, Talk) = Along(Choose(S, T), q)
  BY <1>1, OfRoleIs
<1>7. T \subseteq U
  BY <1>1, <1>2 DEF Talk
<1>8. Through(Choose(S, T), Choose(S, U), Choose(U, T), S)
  <2>1. ASSUME NEW x \in S PROVE Choose(S, T)[x] = Along(Choose(U, T), Choose(S, U)[x])
    <3>1. CASE x \in U
      <4>0. Choose(S, U)[x] = One(x)
        BY <2>1, <3>1 DEF Choose
      <4>1. Choose(S, T)[x] = Choose(U, T)[x]
        BY <2>1, <3>1 DEF Choose
      <4>3. Along(Choose(U, T), One(x)) = Choose(U, T)[x]
        BY <3>1, ChooseOne
      <4> QED
        BY <4>0, <4>1, <4>3
    <3>2. CASE x \notin U
      <4>1. Choose(S, U)[x] = Nil /\ Choose(S, T)[x] = Nil
        BY <1>7, <3>2 DEF Choose
      <4> QED
        BY <4>1, AlongNil
    <3> QED
      BY <3>1, <3>2
  <2> QED
    BY <2>1 DEF Through
<1>9. Along(Choose(U, T), spoken) = Along(Choose(S, T), q)
  <2>1. MapsTo(Choose(S, U), S, U) /\ MapsTo(Choose(U, T), U, T) /\ MapsTo(Choose(S, T), S, T)
    BY ChooseMap
  <2>2. Along(Choose(U, T), Along(Choose(S, U), q)) = Along(Choose(S, T), q)
    BY <1>1, <1>8, <2>1, AlongAlong
  <2> QED
    BY <1>3, <2>2
<1>10. Along(Choose(U, T), spoken) = spoken
  <2>1. \A x \in T : Choose(U, T)[x] = One(x)
    BY <1>7 DEF Choose
  <2>2. MapsTo(Choose(U, T), U, T)
    BY ChooseMap
  <2> QED
    BY <1>5, <1>7, <2>1, <2>2, AlongSame
<1> QED
  BY <1>5, <1>6, <1>9, <1>10

MarksOf(S) == [m \in S |-> Marked(m)]

LEMMA MarksOne ==
  ASSUME NEW S, NEW X, MapsTo(MarksOf(S), S, X), NEW m \in S
  PROVE  Along(MarksOf(S), One(m)) = MarksOf(S)[m]
<1>1. PICK G : G = MarksOf(S)
  OBVIOUS
<1>2. MapsTo(G, S, X)
  BY <1>1
<1>3. Along(G, One(m)) = G[m]
  BY <1>2, AlongSingle
<1> QED
  BY <1>1, <1>3

LEMMA MarkedIs ==
  ASSUME NEW S, NEW q, Of(q, S)
  PROVE  MarkedItems(q) = Along(MarksOf(S), q)
<1>1. PICK h : h = [k \in DOMAIN q |-> Marked(q[k])]
  OBVIOUS
<1>2. ASSUME NEW k \in DOMAIN q PROVE h[k] = MarksOf(S)[q[k]]
  <2>1. q[k] \in S
    BY DEF Of
  <2> QED
    BY <1>1, <2>1 DEF MarksOf
<1>3. h = [k \in DOMAIN q |-> MarksOf(S)[q[k]]]
  BY <1>1, <1>2
<1>4. MarkedItems(q) = FlattenSeq(h)
  BY <1>1 DEF MarkedItems
<1> QED
  BY <1>3, <1>4, AlongIs

(* What the parser makes of what the renderer makes of a message *)
There(T) == [m \in T |-> parse_message(render_message(m))]

(* The conversation as the server has it, after the turn of the system *)
LEMMA ConversationBack ==
  ASSUME NEW T, \A m \in T : Returns(m) /\ Parallel(m) /\ m.role \in Talk,
         NEW spoken, Of(spoken, T),
         NEW sys, NEW x, sys = Nil \/ sys = One(x), x.role = "system",
         NEW got, got = Cat(sys, Along(There(T), spoken))
  PROVE  MarkedItems(OfRole(got, Talk)) = MarkedItems(spoken)
<1>1. PICK back : back = [m \in T |-> CHOOSE pm : /\ parse_message(render_message(m)) = One(pm)
                                                  /\ pm.role = m.role /\ Marked(pm) = Marked(m)]
  OBVIOUS
<1>2. \A m \in T : /\ There(T)[m] = One(back[m])
                   /\ back[m].role = m.role /\ Marked(back[m]) = Marked(m)
  BY <1>1 DEF Returns, There
<1>3. PICK Y : Y = {back[m] : m \in T}
  OBVIOUS
<1>4. \A m \in T : back[m] \in Y
  BY <1>3
<1>5. MapsTo(There(T), T, Y)
  <2>1. ASSUME NEW m \in T PROVE There(T)[m] \in Seq(Y)
    <3>1. back[m] \in Y /\ There(T)[m] = One(back[m])
      BY <1>2, <1>4
    <3> QED
      BY <3>1, OneOf DEF Of
  <2>2. There(T) = [m \in T |-> There(T)[m]]
    BY DEF There
  <2> QED
    BY <2>1, <2>2 DEF MapsTo
<1>6. \A y \in Y : y.role \in Talk
  BY <1>2, <1>3
<1>7. PICK p : p = Along(There(T), spoken)
  OBVIOUS
<1>8. Of(p, Y)
  BY <1>5, <1>7, AlongOf
<1>9. OfRole(got, Talk) = p
  <2>1. PICK S, U : S = Y \cup {x} /\ U = {m \in S : m.role \in Talk}
    OBVIOUS
  <2>2. Y \subseteq S /\ Y \subseteq U /\ x \in S /\ x \notin U /\ U \subseteq S
    BY <1>6, <2>1 DEF Talk
  <2>3. Of(sys, S) /\ Of(p, S)
    BY <1>8, <2>2, OneOf, NilOf, OfWider
  <2>4. Of(got, S)
    BY <1>7, <2>3, CatOf
  <2>5. PICK G : G = Choose(S, U)
    OBVIOUS
  <2>6. MapsTo(G, S, U)
    BY <2>5, ChooseMap
  <2>7. OfRole(got, Talk) = Along(G, got)
    BY <2>1, <2>4, <2>5, OfRoleIs
  <2>8. Along(G, got) = Cat(Along(G, sys), Along(G, p))
    BY <1>7, <2>3, <2>6, AlongCat
  <2>9. G[x] = Nil /\ \A y \in Y : G[y] = One(y)
    BY <2>2, <2>5 DEF Choose
  <2>10. Along(G, sys) = Nil
    <3>1. Along(G, Nil) = Nil
      BY AlongNil
    <3>2. Along(G, One(x)) = G[x]
      BY <2>2, <2>6, AlongSingle
    <3> QED
      BY <2>9, <3>1, <3>2
  <2>11. Along(G, p) = p
    BY <1>8, <2>2, <2>6, <2>9, AlongSame
  <2> QED
    BY <1>8, <2>7, <2>8, <2>10, <2>11, CatNil
<1>10. PICK X : X = UNION {TagsAt(m) : m \in T}
  OBVIOUS
<1>11. \A m \in T : Marked(m) \in Seq(X)
  <2>1. ASSUME NEW m \in T PROVE Marked(m) \in Seq(X)
    <3>1. Of(Marked(m), TagsAt(m)) /\ TagsAt(m) \subseteq X
      BY <1>10, MarkedAlong
    <3> QED
      BY <3>1, OfWider DEF Of
  <2> QED
    BY <2>1
<1>12. MapsTo(MarksOf(T), T, X)
  BY <1>11 DEF MapsTo, MarksOf
<1>13. MapsTo(MarksOf(Y), Y, X)
  <2>1. ASSUME NEW y \in Y PROVE Marked(y) \in Seq(X)
    <3>1. PICK m \in T : y = back[m]
      BY <1>3
    <3> QED
      BY <1>2, <1>11, <3>1
  <2> QED
    BY <2>1 DEF MapsTo, MarksOf
<1>14. Through(MarksOf(T), There(T), MarksOf(Y), T)
  <2>1. ASSUME NEW m \in T PROVE MarksOf(T)[m] = Along(MarksOf(Y), There(T)[m])
    <3>1. PICK y : y = back[m] /\ y \in Y
      BY <1>4
    <3>2. Along(MarksOf(Y), One(y)) = MarksOf(Y)[y]
      BY <1>13, <3>1, MarksOne
    <3>3. MarksOf(Y)[y] = Marked(m) /\ MarksOf(T)[m] = Marked(m)
      BY <1>2, <3>1 DEF MarksOf
    <3> QED
      BY <1>2, <3>1, <3>2, <3>3
  <2> QED
    BY <2>1 DEF Through
<1>15. Along(MarksOf(Y), p) = Along(MarksOf(T), spoken)
  BY <1>5, <1>7, <1>12, <1>13, <1>14, AlongAlong
<1> QED
  BY <1>8, <1>9, <1>15, MarkedIs

LEMMA SystemShape ==
  ASSUME NEW c, NEW sys, sys = SystemTurn(c)
  PROVE  \E x : (sys = Nil \/ sys = One(x)) /\ x.role = "system"
<1>1. PICK x : x = Message("system", <<Text(PlainText(c))>>)
  OBVIOUS
<1>2. sys = IF PlainText(c) = <<>> THEN <<>> ELSE <<x>>
  BY <1>1, Zenon DEF SystemTurn
<1>3. x.role = "system"
  BY <1>1 DEF Message
<1>4. sys = Nil \/ sys = One(x)
  BY <1>2 DEF Nil, One
<1> QED
  BY <1>3, <1>4

LEMMA ParsingRendering ==
  ASSUME NEW T, NEW q, Of(q, T)
  PROVE  Parsing(Rendering(q)) = Along(There(T), q)
<1>1. PICK h : h = [k \in DOMAIN q |-> There(T)[q[k]]]
  OBVIOUS
<1>2. PICK r : r = Rendering(q)
  OBVIOUS
<1>3. DOMAIN r = DOMAIN q /\ \A k \in DOMAIN q : r[k] = render_message(q[k])
  BY <1>2 DEF Rendering
<1>4. \A k \in DOMAIN q : q[k] \in T
  BY DEF Of
<1>5. \A k \in DOMAIN q : h[k] = parse_message(r[k])
  BY <1>1, <1>3, <1>4 DEF There
<1>6. h = [k \in DOMAIN r |-> parse_message(r[k])]
  BY <1>1, <1>3, <1>5
<1>7. Parsing(r) = FlattenSeq(h)
  BY <1>6 DEF Parsing
<1>8. FlattenSeq(h) = Along(There(T), q)
  BY <1>1, AlongIs
<1> QED
  BY <1>2, <1>7, <1>8

LEMMA MarkersBack ==
  ASSUME NullApart, NEW r, Conversation(r.messages),
         NEW body, body = to_anthropic(r), body.ok,
         NEW p, p = Parse("Anthropic", body.value), p.ok
  PROVE  MarkedItems(OfRole(p.value.messages, Talk)) = MarkedItems(OfRole(r.messages, Talk))
<1>1. PICK q, spoken : q = r.messages /\ spoken = NotSystem(q)
  OBVIOUS
<1>2. /\ Get(body.value, "messages") = Rendering(spoken)
      /\ ~\E m \in ToSet(spoken) : m.role = "tool"
  BY <1>1, RenderedMessages
<1>3. PICK T : T = {m \in ToSet(q) : m.role \in Talk}
  OBVIOUS
<1>4. OfRole(q, Talk) = spoken /\ Of(spoken, T)
  BY <1>1, <1>2, <1>3, SpokenTalk
<1>5. PICK sys : sys = SystemTurn(Get(body.value, "system"))
  OBVIOUS
<1>6. p.value.messages = Cat(sys, Along(There(T), spoken))
  <2>1. p.value.messages = Cat(sys, Parsing(Get(body.value, "messages")))
    BY <1>5, ParsedBody
  <2>2. Parsing(Rendering(spoken)) = Along(There(T), spoken)
    BY <1>4, ParsingRendering
  <2> QED
    BY <1>2, <2>1, <2>2
<1>7. PICK x : (sys = Nil \/ sys = One(x)) /\ x.role = "system"
  BY <1>5, SystemShape
<1>8. \A m \in T : Returns(m) /\ Parallel(m) /\ m.role \in Talk
  <2>1. ASSUME NEW m \in T PROVE Returns(m) /\ Parallel(m) /\ m.role \in Talk
    <3>1. Parallel(m) /\ m.role \in Talk
      BY <1>1, <1>3 DEF Conversation
    <3>2. m.role \in {"user", "assistant"}
      BY <3>1 DEF Talk
    <3> QED
      BY <3>1, <3>2, MessageBack
  <2> QED
    BY <2>1
<1>9. MarkedItems(OfRole(p.value.messages, Talk)) = MarkedItems(spoken)
  BY <1>4, <1>6, <1>7, <1>8, ConversationBack
<1> QED
  BY <1>1, <1>4, <1>9

-----------------------------------------------------------------------------
(* The conversation keeps to its types as it grows *)
LEMMA SoundParallel ==
  ASSUME NEW m, m.role \in Roles, Sound(m.items), m.cc = <<>>
  PROVE  Parallel(m)
<1>1. PICK S : Of(m.items, S) /\ \A it \in S : WellMade(it)
  BY DEF Sound
<1>2. \A k \in DOMAIN m.items : m.items[k] \in S
  BY <1>1 DEF Of
<1>3. Of(m.items, ToSet(m.items))
  <2>1. \A k \in DOMAIN m.items : m.items[k] \in ToSet(m.items)
    BY DEF ToSet
  <2> QED
    BY <1>1, <2>1, OfEach
<1>4. \A it \in ToSet(m.items) : WellMade(it)
  BY <1>1, <1>2 DEF ToSet
<1>5. m.cc \in Seq(ToSet(m.cc)) /\ Len(m.cc) = 0
  BY EmptySeq
<1> QED
  BY <1>3, <1>4, <1>5 DEF Parallel, Of

LEMMA KeepingParallel ==
  ASSUME NEW items, Sound(items), NEW turn, turn = Message("assistant", items), NEW style
  PROVE  Parallel(Keeping(turn, style))
<1>1. /\ turn.role = "assistant" /\ turn.items = items /\ turn.cc = <<>>
      /\ DOMAIN turn = {"role", "items", "cc", "name"}
  BY DEF Message
<1>2. Parallel(turn)
  BY <1>1, SoundParallel DEF Roles
<1>3. PICK f : f = [k \in DOMAIN items |-> IF k = Len(items) THEN "mark" ELSE Null]
  OBVIOUS
<1>4. PICK m : m = [turn EXCEPT !.cc = f]
  OBVIOUS
<1>5. m.role = "assistant" /\ m.items = items /\ m.cc = f
  BY <1>1, <1>4
<1>6. f \in Seq(ToSet(f)) /\ Len(f) = Len(items)
  <2>1. PICK n \in Nat : DOMAIN items = 1 .. n /\ Len(items) = n
    BY DEF Sound, Of
  <2>2. DOMAIN f = 1 .. n /\ \A k \in 1 .. n : f[k] \in ToSet(f)
    BY <1>3, <2>1 DEF ToSet
  <2>3. f \in [1 .. n -> ToSet(f)]
    BY <1>3, <2>1, <2>2
  <2>4. f \in Seq(ToSet(f))
    BY <2>1, <2>3
  <2> QED
    BY <2>1, <2>2, <2>4
<1>7. Parallel(m)
  BY <1>1, <1>2, <1>5, <1>6 DEF Parallel
<1>8. Keeping(turn, style) = IF style.mark THEN m ELSE turn
  BY <1>1, <1>3, <1>4, Zenon DEF Keeping
<1> QED
  BY <1>2, <1>7, <1>8

LEMMA SoundCat ==
  ASSUME NEW p, NEW q, Sound(p), Sound(q)
  PROVE  Sound(Cat(p, q))
<1>1. PICK S : Of(p, S) /\ \A it \in S : WellMade(it)
  BY DEF Sound
<1>2. PICK T : Of(q, T) /\ \A it \in T : WellMade(it)
  BY DEF Sound
<1>3. PICK U : U = S \cup T
  OBVIOUS
<1>4. S \subseteq U /\ T \subseteq U /\ \A it \in U : WellMade(it)
  BY <1>1, <1>2, <1>3
<1>5. Of(p, U) /\ Of(q, U)
  BY <1>1, <1>2, <1>4, OfWider
<1>6. Of(Cat(p, q), U)
  BY <1>5, CatOf
<1> QED
  BY <1>4, <1>6 DEF Sound

LEMMA FollowShape ==
  ASSUME NEW turn, Sound(turn.items), NEW style, style.remark \in Seq(STRING),
         NEW ms, ms = Follow(turn, style)
  PROVE  ms = Nil \/ \E m : ms = One(m) /\ Parallel(m)
<1>1. PICK calls : calls = OfType(turn.items, {"tool_call"})
  OBVIOUS
<1>2. PICK results, said :
        /\ results = Results(calls, style.failed)
        /\ said = IF style.remark = <<>> THEN <<>> ELSE <<Text(style.remark)>>
  OBVIOUS
<1>3. PICK items : items = IF style.first THEN said \o results ELSE results \o said
  OBVIOUS
<1>4. ms = IF items = <<>> THEN <<>> ELSE <<Message("user", items)>>
  BY <1>1, <1>2, <1>3, Zenon DEF Follow
<1>5. Sound(results)
  <2>1. PICK S : Of(turn.items, S)
    BY DEF Sound
  <2>2. Of(calls, S)
    <3>1. PICK G : G = Pick({"tool_call"}, S) /\ MapsTo(G, S, S)
      BY PickMaps
    <3>2. calls = Along(G, turn.items)
      BY <1>1, <2>1, <3>1, OfTypeIs
    <3> QED
      BY <2>1, <3>1, <3>2, AlongOf
  <2>3. PICK n \in Nat : DOMAIN calls = 1 .. n
    BY <2>2 DEF Of
  <2>4. DOMAIN results = 1 .. n /\ results = [k \in 1 .. n |-> results[k]]
    BY <1>2, <2>3 DEF Results
  <2>5. \A k \in 1 .. n : results[k].type = "tool_result"
    BY <1>2, <2>3 DEF Results, ToolResult
  <2>6. PICK R : R = {results[k] : k \in 1 .. n}
    OBVIOUS
  <2>7. results \in [1 .. n -> R] /\ \A it \in R : it.type = "tool_result"
    BY <2>4, <2>5, <2>6
  <2>8. Of(results, R)
    BY <2>7 DEF Of
  <2>9. \A it \in R : WellMade(it)
    BY <2>7 DEF WellMade
  <2> QED
    BY <2>8, <2>9 DEF Sound
<1>6. Sound(said)
  <2>1. PICK y : y = Text(style.remark)
    OBVIOUS
  <2>2. WellMade(y)
    BY <2>1, NullAssumption DEF WellMade, Text
  <2>3. Of(One(y), {y}) /\ Of(Nil, {y})
    BY OneOf
  <2>4. said = Nil \/ said = One(y)
    BY <1>2, <2>1 DEF Nil, One
  <2> QED
    BY <2>2, <2>3, <2>4 DEF Sound
<1>7. Sound(items)
  <2>1. items = Cat(said, results) \/ items = Cat(results, said)
    BY <1>3 DEF Cat
  <2> QED
    BY <1>5, <1>6, <2>1, SoundCat
<1>8. PICK m : m = Message("user", items)
  OBVIOUS
<1>9. m.role = "user" /\ m.items = items /\ m.cc = <<>>
  BY <1>8 DEF Message
<1>10. Parallel(m)
  BY <1>7, <1>9, SoundParallel DEF Roles
<1> QED
  BY <1>4, <1>8, <1>10 DEF Nil, One

LEMMA ReplyTurn ==
  ASSUME NEW d, NEW body, NEW got, got = ReadReply(d, body)
  PROVE  got.message = Message("assistant", got.message.items)
<1>1. PICK items : got.message = Message("assistant", items)
  <2>1. \E items : AnthropicReply(body).message = Message("assistant", items)
    BY Zenon DEF AnthropicReply
  <2>2. \E items : ResponsesReply(body).message = Message("assistant", items)
    BY Zenon DEF ResponsesReply
  <2>3. \E items : ChatReply(body).message = Message("assistant", items)
    BY Zenon DEF ChatReply
  <2> QED
    BY <2>1, <2>2, <2>3, Zenon DEF ReadReply
<1>2. got.message.items = items
  BY <1>1 DEF Message
<1> QED
  BY <1>1, <1>2

LEMMA ConversationGrows ==
  ASSUME NEW ms, Conversation(ms), NEW m, Parallel(m),
         NEW f, f = Nil \/ \E x : f = One(x) /\ Parallel(x),
         NEW more, more = Cat(Cat(ms, One(m)), f)
  PROVE  Conversation(more)
<1>1. PICK S : S = ToSet(ms) /\ Of(ms, S) /\ \A y \in S : Parallel(y)
  BY DEF Conversation, Of
<1>2. PICK x : Parallel(x) /\ (f = Nil \/ f = One(x))
  OBVIOUS
<1>3. PICK T : T = S \cup {m, x}
  OBVIOUS
<1>4. S \subseteq T /\ m \in T /\ x \in T /\ \A y \in T : Parallel(y)
  BY <1>1, <1>2, <1>3
<1>5. Of(ms, T) /\ Of(One(m), T) /\ Of(f, T)
  BY <1>1, <1>2, <1>4, OfWider, OneOf
<1>6. Of(more, T)
  BY <1>5, CatOf
<1> QED
  BY <1>4, <1>6, ConversationOf

Renders(r, w) == LET b == to_anthropic(r) IN b.ok /\ w = b.value

(* The caller's conversation keeps to its types, what is posted over       *)
(* Anthropic is what the renderer makes of it, and what was parsed of that *)
(* has its markers                                                         *)
MarksKept ==
  /\ Conversation(req.messages)
  /\ own /\ dialect = "Anthropic" /\ phase = "posted" => Renders(req, wire)
  /\ MarkersOnTheirBlocks

LEMMA InitMarks == Init => MarksKept
BY RequestsAssumption DEF Init, MarksKept, MarkersOnTheirBlocks

LEMMA SendMarks ==
  ASSUME MarksKept, NEW d \in Dialects, Send(d)
  PROVE  MarksKept'
<1>1. PICK body : body = IF req.stream THEN BadRequest ELSE Render(d, req)
  OBVIOUS
<1>2. /\ dialect' = d /\ UNCHANGED req /\ parsed' = Null
      /\ \/ body.ok /\ phase' = "posted" /\ wire' = body.value
         \/ ~body.ok /\ phase' = "returned" /\ outcome' = body
  BY <1>1 DEF Send, caller
<1>3. ASSUME d = "Anthropic", phase' = "posted" PROVE Renders(req, wire')
  <2>1. body.ok /\ wire' = body.value
    BY <1>2, <1>3
  <2>2. body = to_anthropic(req)
    BY <1>1, <1>3, <2>1 DEF Render, BadRequest, Err
  <2> QED
    BY <2>1, <2>2 DEF Renders
<1>4. Conversation(req'.messages)
  BY <1>2 DEF MarksKept
<1>5. MarkersOnTheirBlocks'
  BY <1>2 DEF MarkersOnTheirBlocks
<1>6. (own /\ dialect = "Anthropic" /\ phase = "posted" => Renders(req, wire))'
  BY <1>2, <1>3
<1> QED
  BY <1>4, <1>5, <1>6 DEF MarksKept

LEMMA IngestMarks ==
  ASSUME NullApart, MarksKept, Ingest
  PROVE  MarksKept'
<1>1. PICK p : p = Parse(dialect, wire)
  OBVIOUS
<1>2. PICK c : c = IF p.ok THEN items_to_chat_request(p.value) ELSE p
  OBVIOUS
<1>3. /\ UNCHANGED <<req, dialect, own>> /\ phase = "posted"
      /\ parsed' = IF p.ok THEN p.value ELSE Null
      /\ \/ c.ok /\ phase' = "asked"
         \/ ~c.ok /\ phase' \in {"replied", "returned"}
  <2>1. /\ UNCHANGED <<req, dialect, own>> /\ phase = "posted"
        /\ parsed' = IF p.ok THEN p.value ELSE Null
        /\ \/ c.ok /\ phase' = "asked"
           \/ ~c.ok /\ phase' = "replied"
           \/ c = Panic /\ phase' = "returned"
    BY <1>1, <1>2, Zenon DEF Ingest, Refuse, caller
  <2> QED
    BY <2>1 DEF Panic, Err
<1>4. ASSUME own, parsed' # Null, dialect = "Anthropic"
      PROVE  MarkedItems(OfRole(parsed'.messages, Talk)) = MarkedItems(OfRole(req.messages, Talk))
  <2>1. p.ok /\ parsed' = p.value
    BY <1>3, <1>4
  <2>2. PICK body : body = to_anthropic(req)
    OBVIOUS
  <2>3. body.ok /\ wire = body.value
    BY <1>3, <1>4, <2>2 DEF MarksKept, Renders
  <2>4. p = Parse("Anthropic", body.value) /\ Conversation(req.messages)
    BY <1>1, <1>4, <2>3 DEF MarksKept
  <2>5. MarkedItems(OfRole(p.value.messages, Talk)) = MarkedItems(OfRole(req.messages, Talk))
    BY <2>1, <2>2, <2>3, <2>4, MarkersBack
  <2> QED
    BY <2>1, <2>5
<1>5. MarkersOnTheirBlocks'
  BY <1>3, <1>4 DEF MarkersOnTheirBlocks, Talk
<1> QED
  BY <1>3, <1>5 DEF MarksKept

(* What was parsed stays until the next call *)
LEMMA LaterMarks ==
  ASSUME MarksKept, phase' # "posted", UNCHANGED <<req, dialect, own, parsed>>
  PROVE  MarksKept'
BY DEF MarksKept, MarkersOnTheirBlocks

LEMMA ContinueMarks ==
  ASSUME Linked, StopsKept, MarksKept, NEW style \in Styles, Continue(style)
  PROVE  MarksKept'
<1>1. PICK turn : turn = outcome.value.message
  OBVIOUS
<1>2. PICK kept, f, more :
        /\ kept = Keeping(turn, style) /\ f = Follow(turn, style)
        /\ more = Cat(Cat(req.messages, One(kept)), f)
  OBVIOUS
<1>3. /\ phase = "returned" /\ own /\ outcome.ok
      /\ phase' = "idle" /\ parsed' = Null
      /\ req' = [req EXCEPT !.messages = more]
  BY <1>1, <1>2, Zenon DEF Continue, Cat, One
<1>4. Reported(dialect, outcome.value, answer.value)
      /\ turn = Message("assistant", turn.items)
  <2>1. /\ Good(answer.value) /\ dialect \in {"Anthropic", "OpenAiChat", "OpenAiResponses"}
        /\ outcome = Ok(ReadReply(dialect, ReplyBody(dialect, answer.value, parsed)))
    BY <1>3 DEF Linked, Replied
  <2>2. PICK body, got : /\ body = ReplyBody(dialect, answer.value, parsed)
                         /\ got = ReadReply(dialect, body)
    OBVIOUS
  <2>3. outcome.value = got
    BY <2>1, <2>2 DEF Ok
  <2>4. dialect = "Anthropic" => parsed.stop_sequences \in StopLists
    BY <1>3 DEF StopsKept, Served
  <2>5. Worth(answer.value)
    BY <2>1 DEF Good
  <2>6. Reported(dialect, got, answer.value)
    BY <2>1, <2>2, <2>4, <2>5, ReportedAll
  <2>7. got.message = Message("assistant", got.message.items)
    BY <2>2, ReplyTurn
  <2> QED
    BY <1>1, <2>3, <2>6, <2>7
<1>5. PICK items : items = turn.items /\ Sound(items)
  BY <1>1, <1>4 DEF Reported
<1>6. Parallel(kept)
  BY <1>2, <1>4, <1>5, KeepingParallel
<1>7. f = Nil \/ \E x : f = One(x) /\ Parallel(x)
  <2>1. style.remark \in Seq(STRING)
    BY StylesAssumption
  <2> QED
    BY <1>2, <1>5, <2>1, FollowShape
<1>8. Conversation(more)
  <2>1. PICK ms : ms = req.messages /\ Conversation(ms)
    BY DEF MarksKept
  <2> QED
    BY <1>2, <1>6, <1>7, <2>1, ConversationGrows
<1>9. req'.messages = more
  BY <1>3 DEF StopsKept
<1>10. MarkersOnTheirBlocks'
  BY <1>3 DEF MarkersOnTheirBlocks
<1> QED
  BY <1>3, <1>8, <1>9, <1>10 DEF MarksKept

LEMMA MarksAlways == NullApart => (Spec => []MarksKept)
<1> SUFFICES ASSUME NullApart PROVE Spec => []MarksKept
  OBVIOUS
<1>1. ASSUME Linked, StopsKept, MarksKept, [Next]_vars PROVE MarksKept'
  <2>1. ASSUME NEW d \in DOMAIN Foreign, NEW body \in Foreign[d], Arrive(d, body)
        PROVE  MarksKept'
    BY <1>1, <2>1 DEF Arrive, caller, MarksKept, MarkersOnTheirBlocks
  <2>2. ASSUME NEW a \in Answers[sends], Answer(a) PROVE MarksKept'
    BY <1>1, <2>2, LaterMarks DEF Answer, caller
  <2>3. ASSUME NEW e \in Failures[sends], Fail(e) PROVE MarksKept'
    BY <1>1, <2>3, LaterMarks DEF Fail, caller
  <2>4. CASE Receive
    BY <1>1, <2>4, LaterMarks DEF Receive, caller, server
  <2>5. CASE Lose
    BY <1>1, <2>5, LaterMarks DEF Lose, caller, server
  <2>6. CASE UNCHANGED vars
    BY <1>1, <2>6 DEF vars, MarksKept, MarkersOnTheirBlocks
  <2> QED
    BY <1>1, <2>1, <2>2, <2>3, <2>4, <2>5, <2>6, SendMarks, IngestMarks, ContinueMarks DEF Next
<1> QED
  BY <1>1, InitMarks, LinkedAlways, StopsAlways, PTL DEF Spec

(* Over Anthropic every cache marker arrives on the item it was put on, in *)
(* every message of a conversation however long, whoever put it there and  *)
(* whatever items without a block stand before it.                         *)
THEOREM MarkersKeptThere == NullApart => (Spec => []MarkersOnTheirBlocks)
<1>1. MarksKept => MarkersOnTheirBlocks
  BY DEF MarksKept
<1> QED
  BY <1>1, MarksAlways, PTL

-----------------------------------------------------------------------------
(* The elements of sequences *)
LEMMA CatSet ==
  ASSUME NEW S, NEW p, NEW q, Of(p, S), Of(q, S)
  PROVE  ToSet(Cat(p, q)) = ToSet(p) \cup ToSet(q)
<1>1. PICK c : c = Cat(p, q) /\ Adjoins(c, p, q)
  BY CatShape
<1>2. PICK m \in Nat, n \in Nat :
        /\ DOMAIN c = 1 .. m + n /\ DOMAIN p = 1 .. m /\ DOMAIN q = 1 .. n
        /\ \A k \in 1 .. m : c[k] = p[k]
        /\ \A k \in m + 1 .. m + n : c[k] = q[k - m]
  BY <1>1 DEF Adjoins
<1>3. ToSet(c) \subseteq ToSet(p) \cup ToSet(q)
  <2>1. ASSUME NEW k \in 1 .. m + n PROVE c[k] \in ToSet(p) \cup ToSet(q)
    <3>1. CASE k <= m
      BY <1>2, <3>1 DEF ToSet
    <3>2. CASE ~(k <= m)
      <4>1. k \in m + 1 .. m + n /\ k - m \in 1 .. n
        BY <3>2
      <4> QED
        BY <1>2, <4>1 DEF ToSet
    <3> QED
      BY <3>1, <3>2
  <2> QED
    BY <1>2, <2>1 DEF ToSet
<1>4. ToSet(p) \subseteq ToSet(c)
  BY <1>2 DEF ToSet
<1>5. ToSet(q) \subseteq ToSet(c)
  <2>1. ASSUME NEW k \in 1 .. n PROVE q[k] \in ToSet(c)
    <3>1. k + m \in m + 1 .. m + n /\ (k + m) - m = k /\ k + m \in 1 .. m + n
      OBVIOUS
    <3>2. c[k + m] = q[k]
      BY <1>2, <3>1
    <3> QED
      BY <1>2, <3>1, <3>2 DEF ToSet
  <2> QED
    BY <1>2, <2>1 DEF ToSet
<1> QED
  BY <1>1, <1>3, <1>4, <1>5

LEMMA OfListed ==
  ASSUME NEW S, NEW q, Of(q, S)
  PROVE  Listed(q)
<1>1. PICK n \in Nat : DOMAIN q = 1 .. n /\ q = [k \in 1 .. n |-> q[k]]
  BY DEF Of
<1> QED
  BY <1>1 DEF Listed, ToSet

LEMMA OneSet ==
  /\ ToSet(Nil) = {}
  /\ \A x : ToSet(One(x)) = {x}
BY DEF ToSet, Nil, One

LEMMA OfSet ==
  ASSUME NEW S, NEW q, Of(q, S)
  PROVE  ToSet(q) \subseteq S
BY DEF Of, ToSet

(* What a join is made of *)
AllOf(G, T) == UNION {ToSet(G[x]) : x \in T}

LEMMA AlongSet ==
  ASSUME NEW X, NEW S, NEW G, MapsTo(G, S, X), NEW q, Of(q, S)
  PROVE  ToSet(Along(G, q)) = AllOf(G, ToSet(q))
<1> DEFINE Goods == {r \in Seq(S) : ToSet(Along(G, r)) = AllOf(G, ToSet(r))}
<1>1. Nil \in Goods
  <2>1. Along(G, Nil) = Nil /\ Nil \in Seq(S)
    BY AlongNil DEF Nil
  <2> QED
    BY <2>1, OneSet DEF AllOf
<1>2. ASSUME NEW r, Of(r, S), r \in Goods, NEW x \in S PROVE Cat(r, One(x)) \in Goods
  <2>1. Of(One(x), S) /\ Of(Cat(r, One(x)), S) /\ Of(Along(G, r), X) /\ Of(G[x], X)
    BY <1>2, OneOf, CatOf, AlongOf, MapsToOf
  <2>2. Along(G, Cat(r, One(x))) = Cat(Along(G, r), G[x])
    BY <1>2, AlongLonger
  <2>3. ToSet(Cat(Along(G, r), G[x])) = ToSet(Along(G, r)) \cup ToSet(G[x])
    BY <2>1, CatSet
  <2>4. ToSet(Cat(r, One(x))) = ToSet(r) \cup {x}
    BY <1>2, <2>1, CatSet, OneSet
  <2>5. AllOf(G, ToSet(r) \cup {x}) = AllOf(G, ToSet(r)) \cup ToSet(G[x])
    BY DEF AllOf
  <2>6. ToSet(Along(G, r)) = AllOf(G, ToSet(r))
    BY <1>2
  <2>7. Cat(r, One(x)) \in Seq(S)
    BY <2>1 DEF Of
  <2> QED
    BY <2>2, <2>3, <2>4, <2>5, <2>6, <2>7
<1>3. q \in Goods
  <2> HIDE DEF Goods
  <2> QED
    BY <1>1, <1>2, OfInduction
<1> QED
  BY <1>3

LEMMA OfTypeSet ==
  ASSUME NEW S, NEW types, NEW q, Of(q, S)
  PROVE  /\ ToSet(OfType(q, types)) = {it \in ToSet(q) : it.type \in types}
         /\ Of(OfType(q, types), S)
<1>1. PICK G : G = Pick(types, S) /\ MapsTo(G, S, S)
  BY PickMaps
<1>2. OfType(q, types) = Along(G, q)
  BY <1>1, OfTypeIs
<1>3. ToSet(Along(G, q)) = AllOf(G, ToSet(q))
  BY <1>1, AlongSet
<1>4. ToSet(q) \subseteq S
  BY OfSet
<1>5. \A it \in ToSet(q) : ToSet(G[it]) = IF it.type \in types THEN {it} ELSE {}
  BY <1>1, <1>4, OneSet DEF Pick
<1>6. AllOf(G, ToSet(q)) = {it \in ToSet(q) : it.type \in types}
  <2>1. ASSUME NEW y \in AllOf(G, ToSet(q)) PROVE y \in ToSet(q) /\ y.type \in types
    <3>1. PICK it \in ToSet(q) : y \in ToSet(G[it])
      BY <2>1 DEF AllOf
    <3> QED
      BY <1>5, <3>1
  <2>2. ASSUME NEW y \in ToSet(q), y.type \in types PROVE y \in AllOf(G, ToSet(q))
    <3>1. y \in ToSet(G[y])
      BY <1>5, <2>2
    <3> QED
      BY <3>1 DEF AllOf
  <2> QED
    BY <2>1, <2>2
<1>7. Of(Along(G, q), S)
  BY <1>1, AlongOf
<1> QED
  BY <1>2, <1>3, <1>6, <1>7

LEMMA CallIdsAre ==
  ASSUME NEW S, NEW q, Of(q, S)
  PROVE  CallIds(q) = {it.id : it \in {x \in ToSet(q) : x.type = "tool_call"}}
<1>1. ToSet(OfType(q, {"tool_call"})) = {it \in ToSet(q) : it.type \in {"tool_call"}}
  BY OfTypeSet
<1> QED
  BY <1>1 DEF CallIds


-----------------------------------------------------------------------------
(* The calls somebody hears of *)

CallsIn(x) == Orelse(x.tool_calls, <<>>)
IdsIn(x) == {tc.id : tc \in ToSet(CallsIn(x))}
HeardIds(D) == UNION {IdsIn(x) : x \in ToSet(D)}

(* Every result comes after its call *)
Backed(D) ==
  \A k \in DOMAIN D : D[k].role = "tool" =>
    \E j \in 1 .. k - 1 : D[k].tool_call_id \in IdsIn(D[j])

(* What is added answers what is there *)
BackedBy(E, ids) == \A x \in ToSet(E) : x.role = "tool" => x.tool_call_id \in ids

LEMMA BackedLonger ==
  ASSUME NEW X, NEW D, NEW E, Of(D, X), Of(E, X), Backed(D), BackedBy(E, HeardIds(D))
  PROVE  /\ Backed(Cat(D, E))
         /\ HeardIds(Cat(D, E)) = HeardIds(D) \cup HeardIds(E)
<1>1. PICK c : c = Cat(D, E) /\ Adjoins(c, D, E)
  BY CatShape
<1>2. PICK m \in Nat, n \in Nat :
        /\ DOMAIN c = 1 .. m + n /\ DOMAIN D = 1 .. m /\ DOMAIN E = 1 .. n
        /\ \A k \in 1 .. m : c[k] = D[k]
        /\ \A k \in m + 1 .. m + n : c[k] = E[k - m]
  BY <1>1 DEF Adjoins
<1>3. ASSUME NEW k \in 1 .. m + n, c[k].role = "tool"
      PROVE  \E j \in 1 .. k - 1 : c[k].tool_call_id \in IdsIn(c[j])
  <2>1. CASE k <= m
    <3>1. k \in DOMAIN D /\ D[k] = c[k]
      BY <1>2, <2>1
    <3>2. PICK j \in 1 .. k - 1 : c[k].tool_call_id \in IdsIn(D[j])
      BY <1>3, <3>1 DEF Backed
    <3>3. c[j] = D[j]
      BY <1>2, <2>1
    <3> QED
      BY <3>2, <3>3
  <2>2. CASE ~(k <= m)
    <3>1. k \in m + 1 .. m + n /\ k - m \in 1 .. n
      BY <2>2
    <3>2. c[k] \in ToSet(E)
      BY <1>2, <3>1 DEF ToSet
    <3>3. c[k].tool_call_id \in HeardIds(D)
      BY <1>3, <3>2 DEF BackedBy
    <3>4. PICK x \in ToSet(D) : c[k].tool_call_id \in IdsIn(x)
      BY <3>3 DEF HeardIds
    <3>5. PICK j \in 1 .. m : x = D[j]
      BY <1>2, <3>4 DEF ToSet
    <3>6. j \in 1 .. k - 1 /\ c[j] = D[j]
      BY <1>2, <2>2, <3>5
    <3> QED
      BY <3>4, <3>5, <3>6
  <2> QED
    BY <2>1, <2>2
<1>4. Backed(c)
  BY <1>2, <1>3 DEF Backed
<1>5. ToSet(c) = ToSet(D) \cup ToSet(E)
  BY <1>1, CatSet
<1>6. HeardIds(c) = HeardIds(D) \cup HeardIds(E)
  BY <1>5 DEF HeardIds
<1> QED
  BY <1>1, <1>4, <1>6

(* A message of the chat request as the deflation makes it *)
Plainly(x) ==
  /\ ~Is(x.content, "array")
  /\ x.tool_calls = Null \/ Listed(x.tool_calls)

LEMMA ToolMessagesAre ==
  ASSUME NEW items, Listed(items), NEW D, D = ToolMessages(items)
  PROVE  /\ Listed(D)
         /\ \A x \in ToSet(D) :
              /\ Plainly(x) /\ x.role = "tool" /\ IdsIn(x) = {}
              /\ \E it \in ToSet(items) : it.type = "tool_result" /\ x.tool_call_id = it.tool_call_id
<1>1. PICK results : results = OfType(items, {"tool_result"})
  OBVIOUS
<1>2. /\ ToSet(results) = {it \in ToSet(items) : it.type \in {"tool_result"}}
      /\ Of(results, ToSet(items))
  BY <1>1, OfTypeSet DEF Listed, Of
<1>3. PICK n \in Nat : DOMAIN results = 1 .. n
  BY <1>2 DEF Of
<1>4. /\ DOMAIN D = 1 .. n /\ D = [k \in 1 .. n |-> D[k]]
      /\ \A k \in 1 .. n : D[k] = [ChatMessage("tool", Str(ToolText(results[k])))
                                    EXCEPT !.tool_call_id = results[k].tool_call_id]
  BY <1>1, <1>3 DEF ToolMessages
<1>5. ASSUME NEW k \in 1 .. n
      PROVE  /\ D[k].role = "tool" /\ D[k].tool_calls = Null
             /\ D[k].tool_call_id = results[k].tool_call_id
             /\ \E t : D[k].content = Str(t)
  <2>1. PICK t, id : t = ToolText(results[k]) /\ id = results[k].tool_call_id
    OBVIOUS
  <2>2. D[k] = [ChatMessage("tool", Str(t)) EXCEPT !.tool_call_id = id]
    BY <1>4, <2>1
  <2> QED
    BY <2>1, <2>2 DEF ChatMessage
<1>6. ASSUME NEW k \in 1 .. n
      PROVE  /\ Plainly(D[k]) /\ D[k].role = "tool" /\ IdsIn(D[k]) = {}
             /\ \E it \in ToSet(items) : it.type = "tool_result"
                                       /\ D[k].tool_call_id = it.tool_call_id
  <2>1. IdsIn(D[k]) = {}
    <3>1. CallsIn(D[k]) = Nil
      BY <1>5 DEF CallsIn, Orelse, Nil
    <3> QED
      BY <3>1, OneSet DEF IdsIn
  <2>2. Plainly(D[k])
    <3>1. PICK t : D[k].content = Str(t) /\ D[k].tool_calls = Null
      BY <1>5
    <3>2. ~Is(D[k].content, "array")
      BY <3>1 DEF Is, Str
    <3> QED
      BY <3>1, <3>2 DEF Plainly
  <2>3. results[k] \in ToSet(results)
    BY <1>3 DEF ToSet
  <2> QED
    BY <1>2, <1>5, <2>1, <2>2, <2>3
<1>7. Listed(D)
  BY <1>4 DEF Listed, ToSet
<1> QED
  BY <1>4, <1>6, <1>7 DEF ToSet

LEMMA WireCallsAre ==
  ASSUME NEW items, Listed(items), NEW calls, calls = WireCalls(items)
  PROVE  /\ Listed(calls) /\ {tc.id : tc \in ToSet(calls)} = CallIds(items)
         /\ calls # <<>> => \E it \in ToSet(items) : it.type = "tool_call"
<1>1. PICK q : q = OfType(items, {"tool_call"})
  OBVIOUS
<1>2. /\ ToSet(q) = {it \in ToSet(items) : it.type \in {"tool_call"}}
      /\ Of(q, ToSet(items))
  BY <1>1, OfTypeSet DEF Listed, Of
<1>3. PICK n \in Nat : DOMAIN q = 1 .. n
  BY <1>2 DEF Of
<1>4. /\ DOMAIN calls = 1 .. n /\ calls = [k \in 1 .. n |-> calls[k]]
      /\ \A k \in 1 .. n : calls[k].id = q[k].id
  BY <1>1, <1>3 DEF WireCalls
<1>5. Listed(calls)
  BY <1>4 DEF Listed, ToSet
<1>6. ToSet(calls) = {calls[k] : k \in 1 .. n} /\ ToSet(q) = {q[k] : k \in 1 .. n}
  BY <1>3, <1>4 DEF ToSet
<1>7. {tc.id : tc \in ToSet(calls)} = {it.id : it \in ToSet(q)}
  <2>1. \A k \in 1 .. n : calls[k].id = q[k].id
    BY <1>4
  <2>2. PICK C, Q : C = ToSet(calls) /\ Q = ToSet(q)
    OBVIOUS
  <2>3. \A tc \in C : \E it \in Q : tc.id = it.id
    BY <1>6, <2>1, <2>2
  <2>4. \A it \in Q : \E tc \in C : tc.id = it.id
    BY <1>6, <2>1, <2>2
  <2> QED
    BY <2>2, <2>3, <2>4
<1>8. CallIds(items) = {it.id : it \in ToSet(q)}
  BY <1>1 DEF CallIds
<1>9. ASSUME calls # <<>> PROVE \E it \in ToSet(items) : it.type = "tool_call"
  <2>1. n # 0
    BY <1>4, <1>9
  <2>2. 1 \in 1 .. n /\ q[1] \in ToSet(q)
    BY <1>6, <2>1
  <2> QED
    BY <1>2, <2>2
<1> QED
  BY <1>5, <1>7, <1>8, <1>9

(* The message an accumulator is finished to, if any *)
LEMMA FinishIs ==
  ASSUME NullApart, NEW m, Listed(m.items), NEW role, NEW F, F = finish(role, m)
  PROVE  \/ F = Nil /\ CallIds(m.items) = {}
         \/ \E x : /\ F = One(x) /\ x.role = role /\ Plainly(x)
                   /\ IdsIn(x) = IF role = "assistant" THEN CallIds(m.items) ELSE {}
<1> DEFINE text == TextOf(m.items, {"text", "refusal"})
           calls == WireCalls(m.items)
           bare == [ChatMessage(role, Str(text)) EXCEPT !.name = m.name]
           full == [bare EXCEPT
                      !.content = IF text = <<>> /\ calls # <<>> THEN Null ELSE @,
                      !.reasoning_content = NonEmpty(Reasoning(m.items)),
                      !.tool_calls = NonEmpty(calls),
                      !.thinking_blocks = NonEmpty(ThinkingBlocks(m.items))]
<1>2. /\ Listed(calls) /\ {tc.id : tc \in ToSet(calls)} = CallIds(m.items)
      /\ calls # <<>> => \E it \in ToSet(m.items) : it.type = "tool_call"
  BY WireCallsAre
<1>6. F = IF \A k \in DOMAIN m.items : m.items[k].type = "tool_result" THEN <<>>
          ELSE IF role # "assistant" THEN <<bare>> ELSE <<full>>
  BY Zenon DEF finish
<1>7. /\ bare.role = role /\ bare.content = Str(text) /\ bare.tool_calls = Null
      /\ full.role = role /\ full.tool_calls = NonEmpty(calls)
      /\ full.content = IF text = <<>> /\ calls # <<>> THEN Null ELSE Str(text)
  <2> HIDE DEF text, calls
  <2> QED
    BY DEF ChatMessage
<1> HIDE DEF text, calls, bare, full
<1>8. Plainly(bare) /\ IdsIn(bare) = {}
  BY <1>7, OneSet DEF Plainly, Is, Str, IdsIn, CallsIn, Orelse, Nil
<1>9. Plainly(full)
  BY <1>2, <1>7 DEF Plainly, Is, Str, NonEmpty
<1>10. IdsIn(full) = CallIds(m.items)
  <2>1. CASE calls = <<>>
    <3>1. full.tool_calls = Null
      BY <1>7, <2>1 DEF NonEmpty
    <3> QED
      BY <1>2, <2>1, <3>1 DEF IdsIn, CallsIn, Orelse
  <2>2. CASE calls # <<>>
    <3>1. full.tool_calls = calls /\ calls # Null
      BY <1>2, <1>7, <2>2 DEF NonEmpty, NullApart
    <3> QED
      BY <1>2, <3>1 DEF IdsIn, CallsIn, Orelse
  <2> QED
    BY <2>1, <2>2
<1>11. CASE \A k \in DOMAIN m.items : m.items[k].type = "tool_result"
  <2>1. ~\E it \in ToSet(m.items) : it.type = "tool_call"
    BY <1>11 DEF ToSet
  <2>2. CallIds(m.items) = {}
    BY <1>2, <2>1, OneSet DEF Nil
  <2> QED
    BY <1>6, <1>11, <2>2 DEF Nil
<1>12. CASE ~\A k \in DOMAIN m.items : m.items[k].type = "tool_result"
  <2>1. CASE role = "assistant"
    BY <1>6, <1>7, <1>9, <1>10, <1>12, <2>1 DEF One
  <2>2. CASE role # "assistant"
    BY <1>6, <1>7, <1>8, <1>12, <2>2 DEF One
  <2> QED
    BY <2>1, <2>2
<1> QED
  BY <1>11, <1>12

(* Of a message in which nobody but the assistant calls and nothing stands *)
(* beside a call that answers it                                           *)
Unmixed(m) ==
  CallIds(m.items) = {} \/ (m.role = "assistant" /\ \A it \in ToSet(m.items) : it.type # "tool_result")

Answered(m) == {it.tool_call_id : it \in {x \in ToSet(m.items) : x.type = "tool_result"}}

LEMMA DeflatedMessage ==
  ASSUME NullApart, NEW m, Listed(m.items), NEW D, D = deflate_message(m)
  PROVE  /\ Listed(D) /\ \A x \in ToSet(D) : Plainly(x)
         /\ BackedBy(D, Answered(m))
         /\ Unmixed(m) => HeardIds(D) = CallIds(m.items)
<1>1. PICK role, T, F : /\ role = IF m.role = "tool" THEN "user" ELSE m.role
                        /\ T = ToolMessages(m.items) /\ F = finish(role, m)
  OBVIOUS
<1>2. D = Cat(T, F)
  BY <1>1 DEF deflate_message, Cat
<1>3. /\ Listed(T)
      /\ \A x \in ToSet(T) :
           /\ Plainly(x) /\ x.role = "tool" /\ IdsIn(x) = {}
           /\ \E it \in ToSet(m.items) : it.type = "tool_result" /\ x.tool_call_id = it.tool_call_id
  BY <1>1, ToolMessagesAre
<1>4. PICK x : \/ F = Nil /\ CallIds(m.items) = {}
               \/ /\ F = One(x) /\ x.role = role /\ Plainly(x)
                  /\ IdsIn(x) = IF role = "assistant" THEN CallIds(m.items) ELSE {}
  BY <1>1, FinishIs
<1>5. PICK S : S = ToSet(T) \cup {x}
  OBVIOUS
<1>6. Of(T, S) /\ Of(F, S)
  <2>1. Of(T, ToSet(T)) /\ ToSet(T) \subseteq S /\ x \in S
    BY <1>3, <1>5 DEF Of, Listed
  <2> QED
    BY <1>4, <2>1, OfWider, OneOf
<1>7. Of(D, S) /\ ToSet(D) = ToSet(T) \cup ToSet(F)
  BY <1>2, <1>6, CatOf, CatSet
<1>8. ToSet(F) = {} \/ ToSet(F) = {x}
  BY <1>4, OneSet
<1>9. Listed(D)
  BY <1>7, OfListed DEF Listed, Of
<1>10. \A y \in ToSet(D) : Plainly(y)
  BY <1>3, <1>4, <1>7, OneSet
<1>11. BackedBy(D, Answered(m))
  <2>1. F = One(x) => x.role # "tool"
    BY <1>1, <1>4, OneSet
  <2> QED
    BY <1>3, <1>4, <1>7, <2>1, OneSet DEF BackedBy, Answered
<1>12. ASSUME Unmixed(m) PROVE HeardIds(D) = CallIds(m.items)
  <2>1. HeardIds(D) = UNION {IdsIn(y) : y \in ToSet(F)}
    BY <1>3, <1>7 DEF HeardIds
  <2>2. CASE F = Nil /\ CallIds(m.items) = {}
    BY <2>1, <2>2, OneSet
  <2>3. CASE F = One(x) /\ IdsIn(x) = IF role = "assistant" THEN CallIds(m.items) ELSE {}
    <3>1. IdsIn(x) = CallIds(m.items)
      BY <1>1, <1>12, <2>3 DEF Unmixed
    <3>2. ToSet(F) = {x}
      BY <2>3, OneSet
    <3> QED
      BY <2>1, <3>1, <3>2
  <2> QED
    BY <1>4, <2>2, <2>3
<1> QED
  BY <1>9, <1>10, <1>11, <1>12

-----------------------------------------------------------------------------
(* A conversation in which every result has its call in an earlier message *)
Deflating(S) == [m \in S |-> deflate_message(m)]

Asking(q) == UNION {CallIds(m.items) : m \in ToSet(q)}

InOrder(q) ==
  \A i \in DOMAIN q : Answered(q[i]) \subseteq UNION {CallIds(q[h].items) : h \in 1 .. i - 1}

LEMMA InOrderLonger ==
  ASSUME NEW S, NEW q, Of(q, S), NEW x \in S, InOrder(Cat(q, One(x)))
  PROVE  InOrder(q) /\ Answered(x) \subseteq Asking(q)
<1>1. PICK c : c = Cat(q, One(x)) /\ Adjoins(c, q, One(x))
  BY CatShape, OneOf
<1>2. PICK m \in Nat :
        /\ DOMAIN c = 1 .. m + 1 /\ DOMAIN q = 1 .. m
        /\ \A k \in 1 .. m : c[k] = q[k]
        /\ c[m + 1] = x
  <2>1. PICK o : o = One(x) /\ Len(o) = 1 /\ o[1] = x
    BY DEF One
  <2>2. PICK m \in Nat : m = Len(q)
    BY <1>1 DEF Adjoins
  <2>3. /\ DOMAIN c = 1 .. m + 1 /\ DOMAIN q = 1 .. m
        /\ \A k \in 1 .. m : c[k] = q[k]
        /\ \A k \in m + 1 .. m + 1 : c[k] = o[k - m]
    BY <1>1, <2>1, <2>2 DEF Adjoins
  <2>4. m + 1 \in m + 1 .. m + 1 /\ (m + 1) - m = 1
    OBVIOUS
  <2>5. c[m + 1] = x
    BY <2>1, <2>3, <2>4
  <2> QED
    BY <2>3, <2>5
<1>3. ASSUME NEW i \in 1 .. m
      PROVE  Answered(q[i]) \subseteq UNION {CallIds(q[h].items) : h \in 1 .. i - 1}
  <2>1. i \in DOMAIN c /\ c[i] = q[i] /\ \A h \in 1 .. i - 1 : c[h] = q[h]
    BY <1>2
  <2>2. Answered(c[i]) \subseteq UNION {CallIds(c[h].items) : h \in 1 .. i - 1}
    BY <1>1, <2>1 DEF InOrder
  <2> QED
    BY <2>1, <2>2
<1>4. Answered(x) \subseteq Asking(q)
  <2>1. m + 1 \in DOMAIN c /\ 1 .. (m + 1) - 1 = 1 .. m
    BY <1>2
  <2>2. Answered(c[m + 1]) \subseteq UNION {CallIds(c[h].items) : h \in 1 .. m}
    BY <1>1, <2>1 DEF InOrder
  <2>3. ASSUME NEW h \in 1 .. m PROVE CallIds(c[h].items) \subseteq Asking(q)
    <3>1. c[h] = q[h] /\ q[h] \in ToSet(q)
      BY <1>2 DEF ToSet
    <3> QED
      BY <3>1 DEF Asking
  <2> QED
    BY <1>2, <2>2, <2>3
<1> QED
  BY <1>2, <1>3, <1>4 DEF InOrder

LEMMA DeflatingMaps ==
  ASSUME NullApart, NEW S, \A m \in S : Listed(m.items)
  PROVE  \E X : /\ MapsTo(Deflating(S), S, X) /\ \A x \in X : Plainly(x)
<1>1. PICK X : X = UNION {ToSet(deflate_message(m)) : m \in S}
  OBVIOUS
<1>2. ASSUME NEW m \in S
      PROVE  deflate_message(m) \in Seq(X) /\ \A x \in ToSet(deflate_message(m)) : Plainly(x)
  <2>1. PICK D : D = deflate_message(m)
    OBVIOUS
  <2>2. Listed(D) /\ \A x \in ToSet(D) : Plainly(x)
    BY <2>1, DeflatedMessage
  <2>3. Of(D, ToSet(D)) /\ ToSet(D) \subseteq X
    BY <1>1, <2>1, <2>2 DEF Of, Listed
  <2>4. Of(D, X)
    BY <2>3, OfWider
  <2> QED
    BY <2>1, <2>2, <2>4 DEF Of
<1>3. \A x \in X : Plainly(x)
  BY <1>1, <1>2
<1>4. MapsTo(Deflating(S), S, X)
  BY <1>2 DEF Deflating, MapsTo
<1> QED
  BY <1>3, <1>4

LEMMA DeflatedInOrder ==
  ASSUME NullApart, NEW S, \A m \in S : Listed(m.items) /\ Unmixed(m),
         NEW q, Of(q, S), InOrder(q)
  PROVE  Backed(Along(Deflating(S), q))
<1> DEFINE Kept0(r) == InOrder(r) => /\ Backed(Along(Deflating(S), r))
                                     /\ HeardIds(Along(Deflating(S), r)) = Asking(r)
           Goods == {r \in Seq(S) : Kept0(r)}
<1>0. PICK X : MapsTo(Deflating(S), S, X)
  BY DeflatingMaps
<1>1. Nil \in Goods
  <2>1. Along(Deflating(S), Nil) = Nil /\ Nil \in Seq(S)
    BY AlongNil DEF Nil
  <2>2. Backed(Nil)
    BY DEF Backed, Nil
  <2>3. HeardIds(Nil) = {} /\ Asking(Nil) = {}
    BY OneSet DEF HeardIds, Asking
  <2> QED
    BY <2>1, <2>2, <2>3
<1>2. ASSUME NEW r, Of(r, S), r \in Goods, NEW x \in S PROVE Cat(r, One(x)) \in Goods
  <2>1. Of(One(x), S) /\ Of(Cat(r, One(x)), S)
    BY <1>2, OneOf, CatOf
  <2>2. ASSUME InOrder(Cat(r, One(x)))
        PROVE  /\ Backed(Along(Deflating(S), Cat(r, One(x))))
               /\ HeardIds(Along(Deflating(S), Cat(r, One(x)))) = Asking(Cat(r, One(x)))
    <3>1. InOrder(r) /\ Answered(x) \subseteq Asking(r)
      BY <1>2, <2>2, InOrderLonger
    <3>2. PICK D : D = Along(Deflating(S), r)
      OBVIOUS
    <3>3. Backed(D) /\ HeardIds(D) = Asking(r)
      BY <1>2, <3>1, <3>2
    <3>4. PICK E : E = deflate_message(x)
      OBVIOUS
    <3>5. Deflating(S)[x] = E
      BY <3>4 DEF Deflating
    <3>6. BackedBy(E, Answered(x)) /\ HeardIds(E) = CallIds(x.items)
      BY <3>4, DeflatedMessage
    <3>7. BackedBy(E, HeardIds(D))
      BY <3>1, <3>3, <3>6 DEF BackedBy
    <3>8. Of(D, X) /\ Of(E, X)
      BY <1>0, <1>2, <3>2, <3>5, AlongOf, MapsToOf
    <3>9. Along(Deflating(S), Cat(r, One(x))) = Cat(D, E)
      <4>1. Along(Deflating(S), Cat(r, One(x))) = Cat(Along(Deflating(S), r), Deflating(S)[x])
        BY <1>0, <1>2, AlongLonger
      <4> QED
        BY <3>2, <3>5, <4>1
    <3>10. Backed(Cat(D, E)) /\ HeardIds(Cat(D, E)) = HeardIds(D) \cup HeardIds(E)
      BY <3>3, <3>7, <3>8, BackedLonger
    <3>11. ToSet(Cat(r, One(x))) = ToSet(r) \cup {x}
      BY <1>2, <2>1, CatSet, OneSet
    <3>12. Asking(Cat(r, One(x))) = Asking(r) \cup CallIds(x.items)
      BY <3>11 DEF Asking
    <3> QED
      BY <3>3, <3>6, <3>9, <3>10, <3>12
  <2>3. Cat(r, One(x)) \in Seq(S)
    BY <2>1 DEF Of
  <2> QED
    BY <2>2, <2>3
<1>3. q \in Goods
  <2> HIDE DEF Goods
  <2> QED
    BY <1>1, <1>2, OfInduction
<1> QED
  BY <1>3

LEMMA EarlierItems ==
  ASSUME NEW ms, NEW n \in Nat, DOMAIN ms = 1 .. n, NEW i \in 1 .. n,
         \A h \in 1 .. n : Listed(ms[h].items),
         NEW S, S = UNION {ToSet(ms[h].items) : h \in 1 .. i - 1}
  PROVE  Of(FlattenSeq([h \in 1 .. i - 1 |-> ms[h].items]), S)
<1>1. PICK I : I = 1 .. i - 1
  OBVIOUS
<1>2. PICK G : G = [h \in I |-> ms[h].items]
  OBVIOUS
<1>3. PICK q : q = [h \in I |-> h]
  OBVIOUS
<1>4. Of(q, I)
  BY <1>1, <1>3 DEF Of
<1>5. ASSUME NEW h \in I PROVE G[h] \in Seq(S)
  <2>1. PICK p : p = ms[h].items
    OBVIOUS
  <2>2. Listed(p)
    BY <1>1, <1>5, <2>1
  <2>3. Of(p, ToSet(p)) /\ ToSet(p) \subseteq S
    BY <1>1, <1>5, <2>1, <2>2 DEF Of, Listed
  <2>4. Of(p, S)
    BY <2>3, OfWider
  <2> QED
    BY <1>2, <2>1, <2>4 DEF Of
<1>6. MapsTo(G, I, S)
  BY <1>2, <1>5 DEF MapsTo
<1>7. [h \in I |-> ms[h].items] = [k \in DOMAIN q |-> G[q[k]]]
  BY <1>2, <1>3
<1>8. FlattenSeq([h \in I |-> ms[h].items]) = Along(G, q)
  BY <1>7, AlongIs
<1> QED
  BY <1>1, <1>4, <1>6, <1>8, AlongOf

LEMMA FrontOf ==
  ASSUME NEW U, NEW s, Of(s, U), NEW j \in DOMAIN s
  PROVE  Of(SubSeq(s, 1, j - 1), U)
<1>1. j \in 1 .. Len(s) /\ \A k \in 1 .. Len(s) : s[k] \in U
  BY DEF Of
<1>2. \A k \in 1 .. j - 1 : s[k] \in U
  BY <1>1 DEF Of
<1>3. SubSeq(s, 1, j - 1) = [k \in 1 .. j - 1 |-> s[k]]
  BY <1>1 DEF Of
<1> QED
  BY <1>1, <1>2, <1>3 DEF Of

(* What validate asks for *)
LEMMA ValidInOrder ==
  ASSUME NEW r, Valid(r), Listed(r.messages),
         \A m \in ToSet(r.messages) : Listed(m.items) /\ Unmixed(m)
  PROVE  InOrder(r.messages)
<1>1. PICK ms, n : ms = r.messages /\ n \in Nat /\ DOMAIN ms = 1 .. n
  BY DEF Listed
<1>2. \A i \in 1 .. n : ms[i] \in ToSet(ms)
  BY <1>1 DEF ToSet
<1>3. ASSUME NEW i \in 1 .. n, NEW id \in Answered(ms[i])
      PROVE  id \in UNION {CallIds(ms[h].items) : h \in 1 .. i - 1}
  <2>1. Listed(ms[i].items) /\ Unmixed(ms[i])
    BY <1>1, <1>2
  <2>2. PICK j \in DOMAIN ms[i].items :
          ms[i].items[j].type = "tool_result" /\ id = ms[i].items[j].tool_call_id
    BY <1>3 DEF Answered, ToSet
  <2>3. id \in CallIds(Before(ms, i, j))
    BY <1>1, <2>2 DEF Valid
  <2>4. PICK S : S = UNION {ToSet(ms[h].items) : h \in 1 .. i - 1}
    OBVIOUS
  <2>5. PICK p : p = FlattenSeq([h \in 1 .. i - 1 |-> ms[h].items])
    OBVIOUS
  <2>6. Of(p, S)
    <3>1. \A h \in 1 .. n : Listed(ms[h].items)
      BY <1>1, <1>2
    <3>2. Of(FlattenSeq([h \in 1 .. i - 1 |-> ms[h].items]), S)
      BY <1>1, <2>4, <3>1, EarlierItems
    <3> QED
      BY <2>5, <3>2
  <2>8. PICK s : s = ms[i].items
    OBVIOUS
  <2>7. PICK U, t : U = ToSet(s) /\ t = SubSeq(s, 1, j - 1)
    OBVIOUS
  <2>13. Of(t, U)
    <3>1. Of(s, U) /\ j \in DOMAIN s
      BY <2>1, <2>7, <2>8 DEF Listed, Of
    <3>2. Of(SubSeq(s, 1, j - 1), U)
      BY <3>1, FrontOf
    <3> QED
      BY <2>7, <3>2
  <2>9. Of(Before(ms, i, j), S \cup U)
    <3>1. Of(p, S \cup U) /\ Of(t, S \cup U)
      <4>1. PICK V : V = S \cup U
        OBVIOUS
      <4>2. S \subseteq V /\ U \subseteq V
        BY <4>1
      <4> QED
        BY <2>6, <2>13, <4>1, <4>2, OfWider
    <3>2. Before(ms, i, j) = Cat(p, t)
      BY <2>5, <2>7, <2>8 DEF Before, Cat
    <3> QED
      BY <3>1, <3>2, CatOf
  <2>10. PICK it : it \in S \cup U /\ it.type = "tool_call" /\ it.id = id
    <3>1. PICK b : b = Before(ms, i, j) /\ Of(b, S \cup U)
      BY <2>9
    <3>2. CallIds(b) = {x.id : x \in {y \in ToSet(b) : y.type = "tool_call"}}
      BY <3>1, CallIdsAre
    <3>3. ToSet(b) \subseteq S \cup U
      BY <3>1, OfSet
    <3> QED
      BY <2>3, <3>1, <3>2, <3>3
  <2>11. it \notin U
    <3>1. ASSUME it \in U PROVE FALSE
      <4>1. CallIds(ms[i].items) = {x.id : x \in {y \in U : y.type = "tool_call"}}
        BY <2>1, <2>7, <2>8, CallIdsAre DEF Listed, Of
      <4>2. id \in CallIds(ms[i].items)
        BY <2>10, <3>1, <4>1
      <4>3. ms[i].items[j] \in U
        BY <2>7, <2>8 DEF ToSet
      <4> QED
        BY <2>1, <2>2, <2>7, <2>8, <4>2, <4>3 DEF Unmixed
    <3> QED
      BY <3>1
  <2>12. PICK h \in 1 .. i - 1 : it \in ToSet(ms[h].items)
    BY <2>4, <2>10, <2>11
  <2>14. id \in CallIds(ms[h].items)
    <3>1. Listed(ms[h].items)
      BY <1>1, <1>2
    <3>2. CallIds(ms[h].items) = {x.id : x \in {y \in ToSet(ms[h].items) : y.type = "tool_call"}}
      BY <3>1, CallIdsAre DEF Listed, Of
    <3> QED
      BY <2>10, <2>12, <3>2
  <2> QED
    BY <2>14
<1> QED
  BY <1>1, <1>3 DEF InOrder

-----------------------------------------------------------------------------
LEMMA PresentField ==
  ASSUME NEW f, NEW k \in DOMAIN f, f[k] # Null
  PROVE  k \in DOMAIN Present(f) /\ Present(f)[k] = f[k]
BY DEF Present

(* The chat request of an items request *)
LEMMA DeflatedIs ==
  ASSUME NullApart, NEW r, NEW S, Of(r.messages, S), \A m \in S : Listed(m.items),
         NEW c, c = items_to_chat_request(r), c.ok
  PROVE  Get(c.value, "messages") = Along(Deflating(S), r.messages)
         /\ "messages" \in DOMAIN c.value
<1> DEFINE verbatim == Is(Get(r.extra, "thinking"), "object")
           typed == IF verbatim THEN Null ELSE r.thinking
           D == FlattenSeq([k \in DOMAIN r.messages |-> deflate_message(r.messages[k])])
           f == [model |-> r.model, messages |-> D,
                 stream |-> r.stream, max_tokens |-> r.max_tokens,
                 temperature |-> r.temperature, top_p |-> r.top_p,
                 stop |-> IF r.stop_sequences = Null THEN Null ELSE Arr(r.stop_sequences),
                 tools |-> NonEmpty(r.tools),
                 tool_choice |-> r.tool_choice, response_format |-> r.response_format,
                 thinking |-> IF verbatim THEN r.extra["thinking"]
                              ELSE IF typed = Null \/ typed.budget_tokens = Null THEN Null
                              ELSE [json |-> "object", type |-> "enabled",
                                    budget_tokens |-> typed.budget_tokens, effort |-> Null],
                 reasoning_effort |-> IF typed = Null THEN Null ELSE typed.effort]
           g == IF Prefill(r.messages) THEN "_prefill" :> TRUE ELSE <<>>
<1>1. Computed(r) = Merged(Present(f), g)
  BY Zenon DEF Computed
<1>2. f.messages = D /\ "messages" \in DOMAIN f
  <2> HIDE DEF verbatim, typed, D
  <2> QED
    OBVIOUS
<1>3. D = Along(Deflating(S), r.messages)
  <2>1. PICK h : h = [k \in DOMAIN r.messages |-> deflate_message(r.messages[k])]
    OBVIOUS
  <2>2. \A k \in DOMAIN r.messages : r.messages[k] \in S
    BY DEF Of
  <2>3. h = [k \in DOMAIN r.messages |-> Deflating(S)[r.messages[k]]]
    BY <2>1, <2>2 DEF Deflating
  <2> QED
    BY <2>1, <2>3, AlongIs
<1> HIDE DEF f, g, D, verbatim, typed
<1>4. D # Null
  <2>1. PICK X : MapsTo(Deflating(S), S, X)
    BY DeflatingMaps
  <2>2. Of(D, X)
    BY <1>3, <2>1, AlongOf
  <2>3. Listed(D)
    BY <2>2, OfListed
  <2> QED
    BY <2>3 DEF NullApart
<1>5. PICK p : p = Present(f) /\ "messages" \in DOMAIN p /\ p["messages"] = D
  BY <1>2, <1>4, PresentField
<1>6. PICK e : deflated(r) = Merged(Computed(r), e)
  BY Zenon DEF deflated
<1>7. PICK v : v = Merged(Merged(p, g), e) /\ c = Ok(v)
  <2>1. c = Ok(deflated(r)) \/ c = BadRequest \/ c = Err(Error("Internal"))
    BY Zenon DEF items_to_chat_request
  <2>2. c = Ok(deflated(r))
    BY <2>1 DEF BadRequest, Err
  <2>3. Computed(r) = Merged(p, g)
    BY <1>1, <1>5
  <2> QED
    BY <1>6, <2>2, <2>3
<1>8. "messages" \in DOMAIN v /\ v["messages"] = D
  <2>1. "messages" \in DOMAIN Merged(p, g) /\ Merged(p, g)["messages"] = D
    BY <1>5 DEF Merged
  <2> QED
    BY <1>7, <2>1 DEF Merged
<1>9. c.value = v
  BY <1>7 DEF Ok
<1> QED
  BY <1>3, <1>8, <1>9 DEF Get

-----------------------------------------------------------------------------
(* Lists of messages whose items are lists *)
Neat(ms) == Listed(ms) /\ \A m \in ToSet(ms) : Listed(m.items)

LEMMA MappedListed ==
  ASSUME NEW n \in Nat, NEW q, DOMAIN q = 1 .. n, q = [k \in 1 .. n |-> q[k]]
  PROVE  Listed(q)
BY DEF Listed, ToSet

LEMMA ListedIs ==
  ASSUME NEW q, Listed(q)
  PROVE  \E n \in Nat : DOMAIN q = 1 .. n /\ \A k \in 1 .. n : q[k] \in ToSet(q)
BY DEF Listed, ToSet

LEMMA JoinOf ==
  ASSUME NEW n \in Nat, NEW h, DOMAIN h = 1 .. n, h = [k \in 1 .. n |-> h[k]],
         NEW X, \A k \in 1 .. n : Of(h[k], X)
  PROVE  Of(FlattenSeq(h), X)
<1>1. PICK I : I = 1 .. n
  OBVIOUS
<1>2. PICK q : q = [k \in I |-> k]
  OBVIOUS
<1>3. Of(q, I)
  BY <1>1, <1>2 DEF Of
<1>4. MapsTo(h, I, X)
  BY <1>1 DEF MapsTo, Of
<1>5. h = [k \in DOMAIN q |-> h[q[k]]]
  BY <1>1, <1>2
<1>6. FlattenSeq(h) = Along(h, q)
  BY <1>5, AlongIs
<1> QED
  BY <1>3, <1>4, <1>6, AlongOf

LEMMA JoinListed ==
  ASSUME NEW n \in Nat, NEW h, DOMAIN h = 1 .. n, h = [k \in 1 .. n |-> h[k]],
         \A k \in 1 .. n : Listed(h[k])
  PROVE  Of(FlattenSeq(h), UNION {ToSet(h[k]) : k \in 1 .. n})
<1>1. PICK X : X = UNION {ToSet(h[k]) : k \in 1 .. n}
  OBVIOUS
<1>2. ASSUME NEW k \in 1 .. n PROVE Of(h[k], X)
  <2>1. Of(h[k], ToSet(h[k])) /\ ToSet(h[k]) \subseteq X
    BY <1>1 DEF Of, Listed
  <2> QED
    BY <2>1, OfWider
<1> QED
  BY <1>1, <1>2, JoinOf

LEMMA JoinNeat ==
  ASSUME NEW n \in Nat, NEW h, DOMAIN h = 1 .. n, h = [k \in 1 .. n |-> h[k]],
         \A k \in 1 .. n : Neat(h[k])
  PROVE  Neat(FlattenSeq(h))
<1>1. PICK X : X = UNION {ToSet(h[k]) : k \in 1 .. n}
  OBVIOUS
<1>2. PICK q : q = FlattenSeq(h)
  OBVIOUS
<1>3. Of(q, X)
  BY <1>1, <1>2, JoinListed DEF Neat
<1>4. Listed(q) /\ ToSet(q) \subseteq X
  BY <1>3, OfListed, OfSet
<1>5. \A m \in X : Listed(m.items)
  BY <1>1 DEF Neat
<1> QED
  BY <1>2, <1>4, <1>5 DEF Neat

LEMMA NeatNil == Neat(Nil) /\ Listed(Nil) /\ \A x : Listed(One(x))
BY OneSet DEF Neat, Listed, Nil, One

LEMMA NeatOne ==
  ASSUME NEW m, Listed(m.items)
  PROVE  Neat(One(m))
BY NeatNil, OneSet DEF Neat

LEMMA CatListed ==
  ASSUME NEW p, NEW q, Listed(p), Listed(q)
  PROVE  Listed(Cat(p, q)) /\ ToSet(Cat(p, q)) = ToSet(p) \cup ToSet(q)
<1>1. PICK S : S = ToSet(p) \cup ToSet(q)
  OBVIOUS
<1>2. Of(p, ToSet(p)) /\ ToSet(p) \subseteq S /\ Of(q, ToSet(q)) /\ ToSet(q) \subseteq S
  BY <1>1 DEF Listed, Of
<1>3. Of(p, S) /\ Of(q, S)
  BY <1>2, OfWider
<1>4. Of(Cat(p, q), S)
  BY <1>3, CatOf
<1> QED
  BY <1>3, <1>4, CatSet, OfListed

LEMMA CatNeat ==
  ASSUME NEW p, NEW q, Neat(p), Neat(q)
  PROVE  Neat(Cat(p, q))
BY CatListed DEF Neat

(* What is chosen of a list *)
LEMMA ChosenListed ==
  ASSUME NEW q, Listed(q), NEW h, h = [k \in DOMAIN q |-> h[k]],
         \A k \in DOMAIN q : h[k] = Nil \/ \E x : h[k] = One(x)
  PROVE  Listed(FlattenSeq(h))
<1>1. PICK n \in Nat : DOMAIN q = 1 .. n
  BY ListedIs
<1>2. \A k \in 1 .. n : Listed(h[k])
  BY <1>1, NeatNil
<1>3. DOMAIN h = 1 .. n /\ h = [k \in 1 .. n |-> h[k]]
  BY <1>1
<1>4. PICK X : X = UNION {ToSet(h[k]) : k \in 1 .. n}
  OBVIOUS
<1>5. Of(FlattenSeq(h), X)
  BY <1>2, <1>3, <1>4, JoinListed
<1> QED
  BY <1>5, OfListed

-----------------------------------------------------------------------------
(* The parsers make lists of lists *)
WithText(q) == Filter(q, LAMBDA p : p.text # Null)

LEMMA WithTextListed ==
  ASSUME NEW q, Listed(q)
  PROVE  Listed(WithText(q))
<1>1. PICK h : h = [k \in DOMAIN q |-> IF q[k].text # Null THEN <<q[k]>> ELSE <<>>]
  OBVIOUS
<1>2. \A k \in DOMAIN q : h[k] = Nil \/ \E x : h[k] = One(x)
  BY <1>1 DEF Nil, One
<1>3. h = [k \in DOMAIN q |-> h[k]]
  BY <1>1
<1>4. WithText(q) = FlattenSeq(h)
  BY <1>1 DEF WithText, Filter
<1> QED
  BY <1>2, <1>3, <1>4, ChosenListed

LEMMA ContentListed ==
  ASSUME NEW m, ListedParts(m.content), NEW c, c = ContentItems(m)
  PROVE  Listed(c)
<1> DEFINE parts == WithText(m.content.parts)
           many == [k \in DOMAIN parts |-> IF parts[k].type = "text" THEN Text(parts[k].text)
                                            ELSE Refusal(parts[k].text)]
           said == m.content.text # <<>> \/ m.role = "assistant"
           kept == m.role = "assistant" /\ m.tool_calls = Null
<1>1. c = CASE Is(m.content, "string") -> (IF said THEN <<Text(m.content.text)>> ELSE <<>>)
            [] Is(m.content, "array") -> many
            [] OTHER -> (IF kept THEN <<Text(<<>>)>> ELSE <<>>)
  BY Zenon DEF ContentItems, WithText
<1>2. Is(m.content, "array") => Listed(many)
  <2>1. ASSUME Is(m.content, "array") PROVE Listed(parts)
    BY <2>1, WithTextListed DEF ListedParts
  <2>2. ASSUME Listed(parts) PROVE Listed(many)
    <3> HIDE DEF parts
    <3>1. PICK n \in Nat : DOMAIN parts = 1 .. n
      BY <2>2, ListedIs
    <3>2. DOMAIN many = 1 .. n /\ many = [k \in 1 .. n |-> many[k]]
      BY <3>1
    <3> HIDE DEF many
    <3> QED
      BY <3>2, MappedListed
  <2> QED
    BY <2>1, <2>2
<1>3. Is(m.content, "string") => ~Is(m.content, "array")
  BY DEF Is
<1> HIDE DEF many, said, kept
<1>4. c = Nil \/ (\E x : c = One(x)) \/ (Is(m.content, "array") /\ c = many)
  BY <1>1, <1>3 DEF Nil, One
<1> QED
  BY <1>2, <1>4, NeatNil

LEMMA ChatItemsListed ==
  ASSUME NEW m, ListedParts(m.content), m.tool_calls # Null => Listed(m.tool_calls)
  PROVE  Listed(parse_chat_message(m).items)
<1> DEFINE thinking == IF m.reasoning_content \in {Null, <<>>} THEN <<>>
                       ELSE <<Thinking(m.reasoning_content, Null, Null, Null)>>
           calls == [k \in DOMAIN SideCalls(m) |->
                       ToolCall(SideCalls(m)[k].id, SideCalls(m)[k].name,
                                Decoded(SideCalls(m)[k].arguments))]
           result == ToolResult(m.tool_call_id,
                       IF Is(m.content, "array") THEN Str(Join(PartTexts(m.content.parts), <<NL>>))
                       ELSE m.content, FALSE)
           items == IF m.role = "tool" THEN <<result>> ELSE thinking \o ContentItems(m) \o calls
<1>1. parse_chat_message(m) = [role |-> Role(m.role), cc |-> <<>>, name |-> m.name, items |-> items]
  BY Zenon DEF parse_chat_message
<1>2. Listed(thinking)
  BY NeatNil DEF Nil, One
<1>3. Listed(calls)
  <2>1. PICK side : side = SideCalls(m)
    OBVIOUS
  <2>2. Listed(side)
    BY <2>1, NeatNil DEF SideCalls, Nil
  <2>3. PICK n \in Nat : DOMAIN side = 1 .. n
    BY <2>2, ListedIs
  <2>4. DOMAIN calls = 1 .. n /\ calls = [k \in 1 .. n |-> calls[k]]
    BY <2>1, <2>3
  <2> HIDE DEF calls
  <2> QED
    BY <2>4, MappedListed
<1>4. PICK c : c = ContentItems(m) /\ Listed(c)
  BY ContentListed
<1>5. items = One(result) \/ items = Cat(Cat(thinking, c), calls)
  <2> HIDE DEF thinking, calls, result
  <2> QED
    BY <1>4 DEF One, Cat
<1> HIDE DEF thinking, calls, result, items
<1>6. Listed(Cat(Cat(thinking, c), calls))
  BY <1>2, <1>3, <1>4, CatListed
<1>7. Listed(items)
  BY <1>5, <1>6, NeatNil
<1> QED
  BY <1>1, <1>7

LEMMA ChatParsed ==
  ASSUME NEW v, ListedBody("OpenAiChat", v), NEW p, p = Parse("OpenAiChat", v), p.ok
  PROVE  Valid(p.value) /\ Neat(p.value.messages)
<1>1. p = from_openai_chat(v)
  BY DEF Parse
<1>2. PICK ms : ms = Get(v, "messages")
  OBVIOUS
<1>3. PICK h : h = [i \in DOMAIN ms |-> parse_chat_message(ms[i])]
  OBVIOUS
<1>4. PICK x : p = Validated(x) /\ x.messages = h
  <2> DEFINE effort == Get(v, "reasoning_effort")
             tools == Get(v, "tools")
             y == [model |-> v["model"],
                   messages |-> [i \in DOMAIN Get(v, "messages") |-> parse_chat_message(Get(v, "messages")[i])],
                   stream |-> Get(v, "stream") = TRUE,
                   max_tokens |-> Cast(FirstOf(Get(v, "max_tokens"), Get(v, "max_completion_tokens"))),
                   temperature |-> Get(v, "temperature"), top_p |-> Get(v, "top_p"),
                   stop_sequences |-> StopList(Get(v, "stop")),
                   tools |-> IF tools = Null THEN <<>> ELSE SelectSeq(tools, LAMBDA t : t.name # Null),
                   tool_choice |-> Get(v, "tool_choice"),
                   thinking |-> IF effort = Null THEN Null ELSE [budget_tokens |-> Null, effort |-> effort],
                   response_format |-> Get(v, "response_format"),
                   extra |-> Only(v, ChatExtras)]
  <2>1. p = BadRequest \/ p = Validated(y)
    BY <1>1, Zenon DEF from_openai_chat
  <2>2. p # BadRequest
    BY DEF BadRequest, Err
  <2> HIDE DEF effort, tools
  <2>3. y.messages = [i \in DOMAIN Get(v, "messages") |-> parse_chat_message(Get(v, "messages")[i])]
    BY Zenon
  <2> HIDE DEF y
  <2> QED
    BY <1>2, <1>3, <2>1, <2>2, <2>3
<1>5. Valid(x) /\ p.value = x
  BY <1>4 DEF Validated, BadRequest, Err, Ok
<1>6. ms # Null
  <2>1. Get(v, "messages") = Null => p = BadRequest
    BY <1>1, Zenon DEF from_openai_chat
  <2> QED
    BY <1>2, <2>1 DEF BadRequest, Err
<1>7. /\ Listed(ms)
      /\ \A m \in ToSet(ms) : ListedParts(m.content) /\ (m.tool_calls # Null => Listed(m.tool_calls))
  BY <1>2, <1>6 DEF ListedBody
<1>8. PICK n \in Nat : DOMAIN ms = 1 .. n /\ \A i \in 1 .. n : ms[i] \in ToSet(ms)
  BY <1>7, ListedIs
<1>9. ASSUME NEW i \in 1 .. n PROVE Listed(h[i].items)
  <2>1. Listed(parse_chat_message(ms[i]).items)
    BY <1>7, <1>8, ChatItemsListed
  <2> QED
    BY <1>3, <1>8, <2>1
<1>10. DOMAIN h = 1 .. n /\ h = [i \in 1 .. n |-> h[i]]
  BY <1>3, <1>8
<1>11. Listed(h)
  BY <1>10, MappedListed
<1>12. \A m \in ToSet(h) : Listed(m.items)
  BY <1>9, <1>10 DEF ToSet
<1> QED
  BY <1>4, <1>5, <1>11, <1>12 DEF Neat

LEMMA MessageNeat == \A role, it : Neat(One(Message(role, <<it>>)))
<1>1. ASSUME NEW role, NEW it PROVE Neat(One(Message(role, <<it>>)))
  <2>1. PICK m : m = Message(role, <<it>>)
    OBVIOUS
  <2>2. m.items = One(it)
    BY <2>1 DEF Message, One
  <2> QED
    BY <2>1, <2>2, NeatNil, NeatOne
<1> QED
  BY <1>1

LEMMA SystemNeat ==
  ASSUME NEW c, NEW t, t = SystemTurn(c)
  PROVE  Neat(t)
<1>1. t = Nil \/ t = One(Message("system", <<Text(PlainText(c))>>))
  BY Zenon DEF SystemTurn, Nil, One
<1> QED
  BY <1>1, NeatNil, MessageNeat

LEMMA MessageParsed ==
  ASSUME NEW m, ListedParts(m.content), NEW t, t = parse_message(m)
  PROVE  Neat(t)
<1> DEFINE blocks == Filter(BlocksOf(m), Kept)
           cc == [k \in DOMAIN blocks |-> blocks[k].cc]
           items == IF Is(m.content, "string") THEN <<Text(m.content.text)>>
                    ELSE [k \in DOMAIN blocks |-> ItemOf(blocks[k])]
           held == IF items = <<>> THEN <<Text(<<>>)>> ELSE items
           x == [role |-> m.role, name |-> Null, items |-> held,
                 cc |-> IF ToSet(cc) \subseteq {Null} THEN <<>> ELSE cc]
<1>1. t = IF m.role = "system" THEN SystemTurn(m.content) ELSE <<x>>
  BY Zenon DEF parse_message
<1>2. Listed(blocks)
  <2>1. PICK q : q = BlocksOf(m)
    OBVIOUS
  <2>2. Listed(q)
    BY <2>1, NeatNil DEF BlocksOf, ListedParts, Nil
  <2>3. PICK h : h = [k \in DOMAIN q |-> IF Kept(q[k]) THEN <<q[k]>> ELSE <<>>]
    OBVIOUS
  <2>4. \A k \in DOMAIN q : h[k] = Nil \/ \E y : h[k] = One(y)
    BY <2>3 DEF Nil, One
  <2>5. h = [k \in DOMAIN q |-> h[k]]
    BY <2>3
  <2>6. Filter(q, Kept) = FlattenSeq(h)
    BY <2>3 DEF Filter
  <2> QED
    BY <2>1, <2>2, <2>4, <2>5, <2>6, ChosenListed
<1>3. Listed(held)
  <2>1. PICK n \in Nat : DOMAIN blocks = 1 .. n
    BY <1>2, ListedIs
  <2> HIDE DEF blocks
  <2>2. PICK r : r = [k \in DOMAIN blocks |-> ItemOf(blocks[k])]
    OBVIOUS
  <2>3. DOMAIN r = 1 .. n /\ r = [k \in 1 .. n |-> r[k]]
    BY <2>1, <2>2
  <2>4. Listed(r)
    BY <2>3, MappedListed
  <2>5. held = r \/ \E y : held = One(y)
    BY <2>2 DEF One
  <2> HIDE DEF held
  <2> QED
    BY <2>4, <2>5, NeatNil
<1> HIDE DEF held
<1>4. x.items = held
  OBVIOUS
<1> HIDE DEF x
<1>5. Neat(One(x))
  BY <1>3, <1>4, NeatOne
<1> QED
  BY <1>1, <1>5, SystemNeat DEF One

LEMMA AnthropicParsed ==
  ASSUME NEW v, ListedBody("Anthropic", v), NEW p, p = Parse("Anthropic", v), p.ok
  PROVE  Valid(p.value) /\ Neat(p.value.messages)
<1>1. PICK ms, sys : ms = Get(v, "messages") /\ sys = SystemTurn(Get(v, "system"))
  OBVIOUS
<1>2. Valid(p.value) /\ ms # Null /\ p.value.messages = Cat(sys, Parsing(ms))
  BY <1>1, ParsedBody
<1>3. Listed(ms) /\ \A m \in ToSet(ms) : ListedParts(m.content)
  BY <1>1, <1>2 DEF ListedBody
<1>4. PICK n \in Nat : DOMAIN ms = 1 .. n /\ \A i \in 1 .. n : ms[i] \in ToSet(ms)
  BY <1>3, ListedIs
<1>5. PICK h : h = [k \in DOMAIN ms |-> parse_message(ms[k])]
  OBVIOUS
<1>6. ASSUME NEW k \in 1 .. n PROVE Neat(h[k])
  <2>1. Neat(parse_message(ms[k]))
    BY <1>3, <1>4, MessageParsed
  <2> QED
    BY <1>4, <1>5, <2>1
<1>7. DOMAIN h = 1 .. n /\ h = [k \in 1 .. n |-> h[k]]
  BY <1>4, <1>5
<1>8. Neat(FlattenSeq(h))
  BY <1>6, <1>7, JoinNeat
<1>9. Parsing(ms) = FlattenSeq(h)
  BY <1>5 DEF Parsing
<1> QED
  BY <1>1, <1>2, <1>8, <1>9, SystemNeat, CatNeat

LEMMA PartsListed ==
  ASSUME NEW content, ListedParts(content), NEW c, c = PartItems(content)
  PROVE  Listed(c)
<1> DEFINE parts == WithText(content.parts)
           many == [k \in DOMAIN parts |-> IF parts[k].type = "refusal" THEN Refusal(parts[k].text)
                                            ELSE Text(parts[k].text)]
<1>1. c = CASE Is(content, "string") -> <<Text(content.text)>>
            [] Is(content, "array") -> many
            [] OTHER -> <<>>
  BY Zenon DEF PartItems, WithText
<1>2. Is(content, "array") => Listed(many)
  <2>1. ASSUME Is(content, "array") PROVE Listed(parts)
    BY <2>1, WithTextListed DEF ListedParts
  <2>2. ASSUME Listed(parts) PROVE Listed(many)
    <3> HIDE DEF parts
    <3>1. PICK n \in Nat : DOMAIN parts = 1 .. n
      BY <2>2, ListedIs
    <3>2. DOMAIN many = 1 .. n /\ many = [k \in 1 .. n |-> many[k]]
      BY <3>1
    <3> HIDE DEF many
    <3> QED
      BY <3>2, MappedListed
  <2> QED
    BY <2>1, <2>2
<1>3. Is(content, "string") => ~Is(content, "array")
  BY DEF Is
<1> HIDE DEF many
<1>4. c = Nil \/ (\E x : c = One(x)) \/ (Is(content, "array") /\ c = many)
  BY <1>1, <1>3 DEF Nil, One
<1> QED
  BY <1>2, <1>4, NeatNil

Spoken == {"message", "function_call", "function_call_output", "reasoning"}

LEMMA ItemParsed ==
  ASSUME NEW it, it.type \in Spoken, it.type = "message" => ListedParts(it.content),
         NEW t, t = parse_item(it)
  PROVE  Neat(t)
<1> DEFINE role == IF it.role = "developer" THEN "system" ELSE it.role
           summary == IF it.summary = Null THEN <<>> ELSE Join(it.summary, <<NL>>)
           output == IF Is(it.output, "array") THEN Str(Join(PartTexts(it.output.parts), <<NL>>))
                     ELSE it.output
           whole == Message(role, PartItems(it.content))
           call == Message("assistant", <<ToolCall(it.call_id, it.name, Decoded(it.arguments))>>)
           result == Message("tool", <<ToolResult(it.call_id, output, FALSE)>>)
           thought == Message("assistant", <<Thinking(summary, Null, it.encrypted, Null)>>)
           empty == PartItems(it.content) = <<>> /\ role # "system"
           quiet == it.encrypted = Null /\ summary = <<>>
<1>1. t = CASE it.type = "message" -> (IF empty THEN <<>> ELSE <<whole>>)
            [] it.type = "function_call" -> <<call>>
            [] it.type = "function_call_output" -> <<result>>
            [] it.type = "reasoning" -> (IF quiet THEN <<>> ELSE <<thought>>)
  BY Zenon DEF parse_item
<1>2. Neat(One(call)) /\ Neat(One(result)) /\ Neat(One(thought))
  BY MessageNeat
<1>3. ASSUME it.type = "message" PROVE Neat(One(whole))
  <2>1. PICK c : c = PartItems(it.content)
    OBVIOUS
  <2>2. Listed(c)
    BY <1>3, <2>1, PartsListed
  <2> HIDE DEF role
  <2>3. whole.items = c
    BY <2>1 DEF Message
  <2> HIDE DEF whole
  <2> QED
    BY <2>2, <2>3, NeatOne
<1> HIDE DEF whole, call, result, thought, empty, quiet
<1>4. \/ t = Nil
      \/ it.type = "message" /\ t = One(whole)
      \/ t = One(call) \/ t = One(result) \/ t = One(thought)
  BY <1>1 DEF Spoken, Nil, One
<1> QED
  BY <1>2, <1>3, <1>4, NeatNil

LEMMA ResponsesParsed ==
  ASSUME NEW v, ListedBody("OpenAiResponses", v), NEW p, p = Parse("OpenAiResponses", v), p.ok
  PROVE  Valid(p.value) /\ Neat(p.value.messages)
<1>1. p = from_openai_responses(v)
  BY DEF Parse
<1>2. PICK input, items : input = Get(v, "input") /\ items = IF Is(input, "array") THEN input.parts ELSE <<>>
  OBVIOUS
<1>3. PICK h : h = [k \in DOMAIN items |-> parse_item(items[k])]
  OBVIOUS
<1>4. PICK front, back, x :
        /\ front = Nil \/ \E t : front = One(Message("system", <<t>>))
        /\ back = FlattenSeq(h) \/ \E t : back = One(Message("user", <<t>>))
        /\ p = Validated(x) /\ x.messages = Cat(front, back)
  <2> DEFINE system == Get(v, "instructions")
             tools == Get(v, "tools")
             th == Get(v, "reasoning")
             cap == FirstOf(Get(v, "max_output_tokens"), Get(v, "max_tokens"))
             list == IF Is(Get(v, "input"), "array") THEN Get(v, "input").parts ELSE <<>>
             first == IF system \in {Null, <<>>} THEN <<>> ELSE <<Message("system", <<Text(system)>>)>>
             rest == IF Is(Get(v, "input"), "string")
                     THEN <<Message("user", <<Text(Get(v, "input").text)>>)>>
                     ELSE FlattenSeq([k \in DOMAIN list |-> parse_item(list[k])])
             messages == first \o rest
             y == [model |-> v["model"], messages |-> messages, stream |-> Get(v, "stream") = TRUE,
                   max_tokens |-> Cast(cap),
                   temperature |-> Get(v, "temperature"), top_p |-> Get(v, "top_p"),
                   stop_sequences |-> StopList(Get(v, "stop")),
                   tools |-> IF tools = Null THEN <<>> ELSE SelectSeq(tools, LAMBDA t : t.name # Null),
                   tool_choice |-> Get(v, "tool_choice"),
                   thinking |-> IF th = Null THEN Null
                                ELSE [budget_tokens |-> Clamp(th.budget_tokens), effort |-> th.effort],
                   response_format |-> Get(v, "format"),
                   extra |-> Only(v, ResponsesExtras \cup {"background"})]
  <2>1. p = BadRequest \/ p = Validated(y)
    BY <1>1, Zenon DEF from_openai_responses
  <2>2. p # BadRequest
    BY DEF BadRequest, Err
  <2>3. first = Nil \/ \E t : first = One(Message("system", <<t>>))
    BY Zenon DEF Nil, One
  <2>4. rest = FlattenSeq(h) \/ \E t : rest = One(Message("user", <<t>>))
    BY <1>2, <1>3, Zenon DEF One
  <2> HIDE DEF system, tools, th, cap, first, rest
  <2>5. y.messages = Cat(first, rest)
    BY DEF Cat
  <2> HIDE DEF y
  <2> QED
    BY <2>1, <2>2, <2>3, <2>4, <2>5
<1>5. Valid(x) /\ p.value = x
  BY <1>4 DEF Validated, BadRequest, Err, Ok
<1>6. \A k \in DOMAIN items : ~BadItem(items, k)
  <2> DEFINE list == IF Is(Get(v, "input"), "array") THEN Get(v, "input").parts ELSE <<>>
  <2>1. (\E k \in DOMAIN list : BadItem(list, k)) => p = BadRequest
    BY <1>1, Zenon DEF from_openai_responses
  <2>2. p # BadRequest
    BY DEF BadRequest, Err
  <2>3. list = items
    BY <1>2
  <2> HIDE DEF list
  <2> QED
    BY <2>1, <2>2, <2>3
<1>7. Listed(items) /\ \A it \in ToSet(items) : it.type = "message" => ListedParts(it.content)
  <2>1. CASE Is(input, "array")
    BY <1>2, <2>1 DEF ListedBody, ListedParts
  <2>2. CASE ~Is(input, "array")
    BY <1>2, <2>2, NeatNil, OneSet DEF Nil
  <2> QED
    BY <2>1, <2>2
<1>8. PICK n \in Nat : DOMAIN items = 1 .. n /\ \A k \in 1 .. n : items[k] \in ToSet(items)
  BY <1>7, ListedIs
<1>9. ASSUME NEW k \in 1 .. n PROVE Neat(h[k])
  <2>1. PICK it : it = items[k]
    OBVIOUS
  <2>2. it.type = "message" => ListedParts(it.content)
    BY <1>7, <1>8, <2>1
  <2>3. it.type \in Spoken
    <3>1. ~BadItem(items, k)
      BY <1>6, <1>8
    <3> QED
      BY <2>1, <3>1 DEF BadItem, Spoken
  <2>4. Neat(parse_item(it))
    BY <2>2, <2>3, ItemParsed
  <2> QED
    BY <1>3, <1>8, <2>1, <2>4
<1>10. DOMAIN h = 1 .. n /\ h = [k \in 1 .. n |-> h[k]]
  BY <1>3, <1>8
<1>11. Neat(FlattenSeq(h))
  BY <1>9, <1>10, JoinNeat
<1>12. Neat(front) /\ Neat(back)
  BY <1>4, <1>11, NeatNil, MessageNeat
<1> QED
  BY <1>4, <1>5, <1>12, CatNeat

-----------------------------------------------------------------------------
(* And what the renderers make are lists of lists *)
LEMMA PartsOf ==
  /\ \A t : ListedParts(Str(t))
  /\ \A q : Listed(q) => ListedParts(Arr(q))
BY DEF ListedParts, Is, Str, Arr

LEMMA AnthropicRendered ==
  ASSUME NEW r, Conversation(r.messages), NEW body, body = to_anthropic(r), body.ok
  PROVE  ListedBody("Anthropic", body.value)
<1>1. PICK q, spoken : q = r.messages /\ spoken = NotSystem(q)
  OBVIOUS
<1>2. PICK ms : ms = Get(body.value, "messages") /\ ms = Rendering(spoken)
  BY <1>1, RenderedMessages
<1>3. PICK S, T : S = ToSet(q) /\ T = {m \in S : m.role # "system"}
  OBVIOUS
<1>4. Of(q, S) /\ \A m \in T : Parallel(m)
  BY <1>1, <1>3 DEF Conversation, Of
<1>5. Of(spoken, T)
  BY <1>1, <1>3, <1>4, SpokenIs
<1>6. PICK n \in Nat : DOMAIN spoken = 1 .. n /\ \A k \in 1 .. n : spoken[k] \in T
  BY <1>5 DEF Of
<1>7. DOMAIN ms = 1 .. n /\ ms = [k \in 1 .. n |-> render_message(spoken[k])]
  BY <1>2, <1>6 DEF Rendering
<1>8. ASSUME NEW k \in 1 .. n PROVE ListedParts(ms[k].content)
  <2>1. PICK m : m = spoken[k] /\ Parallel(m)
    BY <1>4, <1>6
  <2>2. PICK B : B = Blocks(m) /\ Listed(B)
    BY <2>1, BlocksAlong, OfListed
  <2>3. \/ render_message(m).content = Arr(B)
        \/ \E t : render_message(m).content = Str(t)
    <3>1. PICK c : c = IF Shorthand(m) THEN Str(m.items[1].text) ELSE Arr(B)
      OBVIOUS
    <3>2. render_message(m).content = c
      BY <2>2, <3>1 DEF render_message
    <3> QED
      BY <3>1, <3>2
  <2>4. ms[k] = render_message(m)
    BY <1>7, <2>1
  <2> QED
    BY <2>2, <2>3, <2>4, PartsOf
<1>9. Listed(ms)
  BY <1>7, MappedListed
<1>10. \A m \in ToSet(ms) : ListedParts(m.content)
  BY <1>7, <1>8 DEF ToSet
<1> QED
  BY <1>2, <1>9, <1>10 DEF ListedBody

LEMMA ConversationItems ==
  ASSUME NEW ms, Conversation(ms)
  PROVE  Of(ms, ToSet(ms)) /\ \A m \in ToSet(ms) : Listed(m.items)
BY DEF Conversation, Parallel, Of, Listed

LEMMA ChatRendered ==
  ASSUME NullApart, NEW r, Conversation(r.messages),
         NEW body, body = items_to_chat_request(r), body.ok
  PROVE  ListedBody("OpenAiChat", body.value)
<1>1. PICK q, S : q = r.messages /\ S = ToSet(q)
  OBVIOUS
<1>2. Of(q, S) /\ \A m \in S : Listed(m.items)
  BY <1>1, ConversationItems
<1>3. PICK X : MapsTo(Deflating(S), S, X) /\ \A x \in X : Plainly(x)
  BY <1>2, DeflatingMaps
<1>4. PICK ms : ms = Get(body.value, "messages") /\ ms = Along(Deflating(S), q)
  BY <1>1, <1>2, DeflatedIs
<1>5. Of(ms, X)
  BY <1>2, <1>3, <1>4, AlongOf
<1>6. Listed(ms) /\ ToSet(ms) \subseteq X
  BY <1>5, OfListed, OfSet
<1>7. ASSUME NEW x \in ToSet(ms)
      PROVE  ListedParts(x.content) /\ (x.tool_calls # Null => Listed(x.tool_calls))
  BY <1>3, <1>6 DEF Plainly, ListedParts
<1> QED
  BY <1>4, <1>6, <1>7 DEF ListedBody

(* Items of a Responses request *)
Tidy(q) ==
  Listed(q) /\ \A it \in ToSet(q) : it.type = "message" => ListedParts(it.content)

LEMMA TidyNil == Tidy(Nil)
BY NeatNil, OneSet DEF Tidy

LEMMA TidyOne ==
  ASSUME NEW it, it.type = "message" => ListedParts(it.content)
  PROVE  Tidy(One(it))
BY NeatNil, OneSet DEF Tidy

LEMMA CatTidy ==
  ASSUME NEW p, NEW q, Tidy(p), Tidy(q)
  PROVE  Tidy(Cat(p, q))
BY CatListed DEF Tidy

LEMMA JoinTidy ==
  ASSUME NEW n \in Nat, NEW h, DOMAIN h = 1 .. n, h = [k \in 1 .. n |-> h[k]],
         \A k \in 1 .. n : Tidy(h[k])
  PROVE  Tidy(FlattenSeq(h))
<1>1. PICK X : X = UNION {ToSet(h[k]) : k \in 1 .. n}
  OBVIOUS
<1>2. PICK q : q = FlattenSeq(h)
  OBVIOUS
<1>3. Of(q, X)
  BY <1>1, <1>2, JoinListed DEF Tidy
<1>4. Listed(q) /\ ToSet(q) \subseteq X
  BY <1>3, OfListed, OfSet
<1>5. \A it \in X : it.type = "message" => ListedParts(it.content)
  BY <1>1 DEF Tidy
<1> QED
  BY <1>2, <1>4, <1>5 DEF Tidy

LEMMA FlatTidy ==
  ASSUME NEW it, NEW f, f = Flat(it)
  PROVE  Tidy(f)
<1> DEFINE thought == [type |-> "reasoning", encrypted |-> it.encrypted,
                       summary |-> IF it.text = <<>> THEN Null ELSE Lines(it.text)]
           call == [type |-> "function_call", call_id |-> it.id, name |-> it.name,
                    arguments |-> Encoded(it.arguments)]
           output == [type |-> "function_call_output", call_id |-> it.tool_call_id,
                      output |-> IF it.content = Null THEN Str(<<>>) ELSE it.content]
           closed == it.redacted_data # Null \/ it.signature # Null
<1>1. f = CASE it.type = "thinking" -> (IF closed THEN <<>> ELSE <<thought>>)
            [] it.type = "tool_call" -> <<call>>
            [] it.type = "tool_result" -> <<output>>
            [] OTHER -> <<>>
  BY Zenon DEF Flat, render_tool_result
<1>2. thought.type # "message" /\ call.type # "message" /\ output.type # "message"
  OBVIOUS
<1> HIDE DEF thought, call, output, closed
<1>3. f \in {Nil, One(thought), One(call), One(output)}
  BY <1>1 DEF Nil, One
<1> QED
  BY <1>2, <1>3, TidyNil, TidyOne

LEMMA FlattenedTidy ==
  ASSUME NEW m, Listed(m.items), NEW f, f = flatten_message(m)
  PROVE  Tidy(f)
<1>1. PICK items : items = m.items
  OBVIOUS
<1>2. PICK h : h = [k \in DOMAIN items |-> Flat(items[k])]
  OBVIOUS
<1>3. PICK n \in Nat : DOMAIN items = 1 .. n
  BY <1>1, ListedIs
<1>4. DOMAIN h = 1 .. n /\ h = [k \in 1 .. n |-> h[k]] /\ \A k \in 1 .. n : h[k] = Flat(items[k])
  BY <1>2, <1>3
<1>5. \A k \in 1 .. n : Tidy(h[k])
  BY <1>4, FlatTidy
<1>6. Tidy(FlattenSeq(h))
  BY <1>4, <1>5, JoinTidy
<1>7. PICK said : said = OfType(items, {"text", "refusal"})
  OBVIOUS
<1>8. PICK parts : parts = [k \in DOMAIN said |-> Part(m.role, said[k])]
  OBVIOUS
<1>9. Listed(parts)
  <2>1. Of(said, ToSet(items))
    BY <1>1, <1>7, OfTypeSet DEF Listed, Of
  <2>2. PICK l \in Nat : DOMAIN said = 1 .. l
    BY <2>1 DEF Of
  <2>3. DOMAIN parts = 1 .. l /\ parts = [k \in 1 .. l |-> parts[k]]
    BY <1>8, <2>2
  <2> QED
    BY <2>3, MappedListed
<1>10. PICK role : role = IF m.role = "assistant" THEN "assistant" ELSE "user"
  OBVIOUS
<1>11. PICK x : x = MessageItem(role, parts)
  OBVIOUS
<1>12. ListedParts(x.content)
  BY <1>9, <1>11, PartsOf DEF MessageItem
<1>13. f = Cat(FlattenSeq(h), IF parts = <<>> THEN <<>> ELSE <<x>>)
  BY <1>1, <1>2, <1>7, <1>8, <1>10, <1>11 DEF flatten_message, Cat
<1>14. f = Cat(FlattenSeq(h), Nil) \/ f = Cat(FlattenSeq(h), One(x))
  BY <1>13 DEF Nil, One
<1>15. Tidy(Nil) /\ Tidy(One(x))
  BY <1>12, TidyNil, TidyOne
<1> QED
  BY <1>6, <1>14, <1>15, CatTidy

LEMMA InputTidy ==
  ASSUME NEW items, Tidy(items), NEW i, i = InputOf(items)
  PROVE  ListedParts(i) /\ (Is(i, "array") => Tidy(i.parts))
<1>1. PICK e : e = MessageItem("user", Nil)
  OBVIOUS
<1>2. ListedParts(e.content)
  BY <1>1, PartsOf, NeatNil DEF MessageItem
<1>3. i = Arr(One(e)) \/ i = Arr(items) \/ \E t : i = Str(t)
  <2> DEFINE alone == /\ Len(items) = 1
                      /\ items[1].type = "message" /\ items[1].role = "user"
                      /\ Len(items[1].content.parts) = 1
                      /\ items[1].content.parts[1].type = "input_text"
             word == items[1].content.parts[1].text
  <2>1. i = IF items = <<>> THEN Arr(One(e)) ELSE IF alone THEN Str(word) ELSE Arr(items)
    BY <1>1, Zenon DEF InputOf, One, Nil
  <2> HIDE DEF alone, word
  <2> QED
    BY <2>1
<1>4. Tidy(One(e))
  BY <1>2, TidyOne
<1>5. ASSUME NEW q, Tidy(q), i = Arr(q) PROVE ListedParts(i) /\ (Is(i, "array") => Tidy(i.parts))
  <2>1. i.parts = q
    BY <1>5 DEF Arr
  <2> QED
    BY <1>5, <2>1, PartsOf DEF Tidy
<1>6. ASSUME NEW t, i = Str(t) PROVE ListedParts(i) /\ (Is(i, "array") => Tidy(i.parts))
  BY <1>6 DEF ListedParts, Is, Str
<1> QED
  BY <1>3, <1>4, <1>5, <1>6

LEMMA ResponsesRendered ==
  ASSUME NEW r, Conversation(r.messages), NEW body, body = to_openai_responses(r), body.ok
  PROVE  ListedBody("OpenAiResponses", body.value)
<1>1. PICK q, spoken : q = r.messages /\ spoken = NotSystem(q)
  OBVIOUS
<1>2. PICK h : h = [k \in DOMAIN spoken |-> flatten_message(spoken[k])]
  OBVIOUS
<1>3. PICK f, g :
        /\ body.value = Merged(Present(f), Only(g, ResponsesExtras))
        /\ "input" \in DOMAIN f /\ f.input = InputOf(FlattenSeq(h))
  <2> DEFINE said == NotSystem(r.messages)
             system == SystemText(r.messages)
             input == InputOf(FlattenSeq([k \in DOMAIN said |-> flatten_message(said[k])]))
             f == [model |-> r.model, stream |-> IF r.stream THEN TRUE ELSE Null,
                   temperature |-> r.temperature, top_p |-> r.top_p,
                   max_output_tokens |-> r.max_tokens,
                   stop |-> IF r.stop_sequences \in {Null, <<>>} THEN Null ELSE Arr(r.stop_sequences),
                   instructions |-> IF system = <<>> THEN Null ELSE system,
                   input |-> input,
                   tools |-> IF r.tools = <<>> THEN Null ELSE r.tools,
                   tool_choice |-> r.tool_choice, format |-> r.response_format,
                   reasoning |-> r.thinking]
  <2>1. body = BadRequest \/ body = Ok(Merged(Present(f), Only(r.extra, ResponsesExtras)))
    BY Zenon DEF to_openai_responses, NotSystem
  <2>2. body # BadRequest
    BY DEF BadRequest, Err
  <2>3. input = InputOf(FlattenSeq(h))
    BY <1>1, <1>2
  <2> HIDE DEF input, system
  <2>4. "input" \in DOMAIN f /\ f.input = input
    OBVIOUS
  <2> HIDE DEF f
  <2>5. body.value = Merged(Present(f), Only(r.extra, ResponsesExtras))
    BY <2>1, <2>2 DEF Ok
  <2> QED
    BY <2>3, <2>4, <2>5
<1>4. PICK S, T : S = ToSet(q) /\ T = {m \in S : m.role # "system"}
  OBVIOUS
<1>5. Of(q, S) /\ \A m \in T : Listed(m.items)
  BY <1>1, <1>4, ConversationItems
<1>6. Of(spoken, T)
  BY <1>1, <1>4, <1>5, SpokenIs
<1>7. PICK n \in Nat : DOMAIN spoken = 1 .. n /\ \A k \in 1 .. n : spoken[k] \in T
  BY <1>6 DEF Of
<1>8. /\ DOMAIN h = 1 .. n /\ h = [k \in 1 .. n |-> h[k]]
      /\ \A k \in 1 .. n : h[k] = flatten_message(spoken[k])
  BY <1>2, <1>7
<1>9. \A k \in 1 .. n : Tidy(h[k])
  BY <1>5, <1>7, <1>8, FlattenedTidy
<1>10. PICK i : i = InputOf(FlattenSeq(h)) /\ ListedParts(i) /\ (Is(i, "array") => Tidy(i.parts))
  BY <1>8, <1>9, JoinTidy, InputTidy
<1>11. Get(body.value, "input") = i
  <2>1. "input" \notin ResponsesExtras
    BY DEF ResponsesExtras
  <2> QED
    BY <1>3, <1>10, <2>1, MergedField
<1> QED
  BY <1>10, <1>11 DEF ListedBody, Tidy

-----------------------------------------------------------------------------
(* What the server has parsed *)
LEMMA ParsedNeat ==
  ASSUME NEW d \in {"Anthropic", "OpenAiChat", "OpenAiResponses"}, NEW v, ListedBody(d, v),
         NEW p, p = Parse(d, v), p.ok
  PROVE  Valid(p.value) /\ Neat(p.value.messages)
BY AnthropicParsed, ChatParsed, ResponsesParsed

LEMMA RenderedListed ==
  ASSUME NullApart, NEW d \in {"Anthropic", "OpenAiChat", "OpenAiResponses"},
         NEW r, Conversation(r.messages), NEW body, body = Render(d, r), body.ok
  PROVE  ListedBody(d, body.value)
<1>1. CASE d = "Anthropic"
  BY <1>1, AnthropicRendered DEF Render
<1>2. CASE d = "OpenAiChat"
  BY <1>2, ChatRendered DEF Render
<1>3. CASE d = "OpenAiResponses"
  BY <1>3, ResponsesRendered DEF Render
<1> QED
  BY <1>1, <1>2, <1>3

LEMMA DeflatedBacked ==
  ASSUME NullApart, NEW r, Valid(r), Neat(r.messages), ~Mixed(r.messages),
         NEW c, c = items_to_chat_request(r), c.ok
  PROVE  Backed(c.value.messages)
<1>1. PICK ms, S : ms = r.messages /\ S = ToSet(ms)
  OBVIOUS
<1>2. Of(ms, S) /\ \A m \in S : Listed(m.items)
  BY <1>1 DEF Neat, Listed, Of
<1>3. \A m \in S : Unmixed(m)
  BY <1>1 DEF Mixed, Unmixed
<1>4. InOrder(ms)
  BY <1>1, <1>2, <1>3, ValidInOrder DEF Neat
<1>5. Get(c.value, "messages") = Along(Deflating(S), ms) /\ "messages" \in DOMAIN c.value
  BY <1>1, <1>2, DeflatedIs
<1>6. Backed(Along(Deflating(S), ms))
  BY <1>2, <1>3, <1>4, DeflatedInOrder
<1> QED
  BY <1>5, <1>6 DEF Get

(* What is posted has lists for its arrays, and the engine is asked only   *)
(* after a call of it has been parsed                                      *)
CallsFirst ==
  /\ phase \in {"idle", "posted"} => chat = Null
  /\ phase = "posted" => ListedBody(dialect, wire)
  /\ ResultsAfterCalls

LEMMA InitOrder == Init => CallsFirst
BY DEF Init, CallsFirst, ResultsAfterCalls

LEMMA SendOrder ==
  ASSUME NullApart, MarksKept, NEW d \in Dialects, Send(d)
  PROVE  CallsFirst'
<1>1. PICK body : body = IF req.stream THEN BadRequest ELSE Render(d, req)
  OBVIOUS
<1>2. /\ dialect' = d /\ chat' = Null
      /\ \/ body.ok /\ phase' = "posted" /\ wire' = body.value
         \/ ~body.ok /\ phase' = "returned"
  BY <1>1 DEF Send
<1>3. ASSUME phase' = "posted" PROVE ListedBody(d, wire')
  <2>1. body.ok /\ wire' = body.value
    BY <1>2, <1>3
  <2>2. body = Render(d, req)
    BY <1>1, <2>1 DEF BadRequest, Err
  <2>3. d \in {"Anthropic", "OpenAiChat", "OpenAiResponses"} /\ Conversation(req.messages)
    BY DialectsAssumption DEF MarksKept
  <2> QED
    BY <2>1, <2>2, <2>3, RenderedListed
<1>4. (phase = "posted" => ListedBody(dialect, wire))'
  BY <1>2, <1>3
<1> QED
  BY <1>2, <1>4 DEF CallsFirst, ResultsAfterCalls

LEMMA ArriveOrder ==
  ASSUME CallsFirst, NEW d \in DOMAIN Foreign, NEW body \in Foreign[d], Arrive(d, body)
  PROVE  CallsFirst'
<1>1. phase = "idle" /\ chat' = chat /\ phase' = "posted" /\ dialect' = d /\ wire' = body
  BY DEF Arrive, server
<1>2. ListedBody(d, body)
  BY ForeignAssumption
<1>3. chat' = Null
  BY <1>1 DEF CallsFirst
<1>4. (phase = "posted" => ListedBody(dialect, wire))'
  BY <1>1, <1>2
<1> QED
  BY <1>3, <1>4 DEF CallsFirst, ResultsAfterCalls

LEMMA IngestOrder ==
  ASSUME NullApart, Linked, CallsFirst, Ingest
  PROVE  CallsFirst'
<1>1. PICK p : p = Parse(dialect, wire)
  OBVIOUS
<1>2. PICK c : c = IF p.ok THEN items_to_chat_request(p.value) ELSE p
  OBVIOUS
<1>3. /\ phase = "posted" /\ parsed' = IF p.ok THEN p.value ELSE Null
      /\ \/ c.ok /\ chat' = c.value /\ phase' = "asked"
         \/ ~c.ok /\ chat' = chat /\ phase' \in {"replied", "returned"}
  <2>1. /\ phase = "posted" /\ parsed' = IF p.ok THEN p.value ELSE Null
        /\ \/ c.ok /\ chat' = c.value /\ phase' = "asked"
           \/ ~c.ok /\ chat' = chat /\ phase' = "replied"
           \/ c = Panic /\ chat' = chat /\ phase' = "returned"
    BY <1>1, <1>2, Zenon DEF Ingest, Refuse
  <2> QED
    BY <2>1 DEF Panic, Err
<1>4. CASE ~c.ok
  <2>1. chat' = Null /\ phase' \in {"replied", "returned"}
    BY <1>3, <1>4 DEF CallsFirst
  <2> QED
    BY <2>1 DEF CallsFirst, ResultsAfterCalls
<1>5. CASE c.ok
  <2>1. p.ok /\ c = items_to_chat_request(p.value)
    BY <1>2, <1>5
  <2>2. PICK r : r = p.value
    OBVIOUS
  <2>3. Valid(r) /\ Neat(r.messages)
    BY <1>1, <1>3, <2>1, <2>2, ParsedNeat DEF Linked, CallsFirst
  <2>4. parsed' = r /\ chat' = c.value /\ phase' = "asked"
    BY <1>3, <1>5, <2>1, <2>2
  <2>5. ~Mixed(r.messages) => Backed(chat'.messages)
    BY <1>5, <2>1, <2>2, <2>3, <2>4, DeflatedBacked
  <2>6. ResultsAfterCalls'
    <3>1. PICK D : D = chat'.messages
      OBVIOUS
    <3>2. ~Mixed(parsed'.messages) => Backed(D)
      BY <2>4, <2>5, <3>1
    <3> QED
      BY <3>1, <3>2 DEF ResultsAfterCalls, Backed, IdsIn, CallsIn
  <2> QED
    BY <2>4, <2>6 DEF CallsFirst
<1> QED
  BY <1>4, <1>5

LEMMA LaterOrder ==
  ASSUME CallsFirst, phase' \notin {"idle", "posted"}, UNCHANGED <<parsed, chat>>
  PROVE  CallsFirst'
BY DEF CallsFirst, ResultsAfterCalls

(* Whatever body any client posts, and however a conversation grows, the   *)
(* engine never sees a result of a tool before its call, unless a message  *)
(* of the body mixes calls with results or with the words of somebody      *)
(* other than the assistant.                                               *)
THEOREM ResultsKeptBehind == NullApart => (Spec => []ResultsAfterCalls)
<1> SUFFICES ASSUME NullApart PROVE Spec => []ResultsAfterCalls
  OBVIOUS
<1>1. ASSUME Linked, MarksKept, CallsFirst, [Next]_vars PROVE CallsFirst'
  <2>1. ASSUME NEW a \in Answers[sends], Answer(a) PROVE CallsFirst'
    BY <1>1, <2>1, LaterOrder DEF Answer
  <2>2. ASSUME NEW e \in Failures[sends], Fail(e) PROVE CallsFirst'
    BY <1>1, <2>2, LaterOrder DEF Fail
  <2>3. CASE Receive
    BY <1>1, <2>3, LaterOrder DEF Receive, server
  <2>4. CASE Lose
    BY <1>1, <2>4, LaterOrder DEF Lose, server
  <2>5. ASSUME NEW style \in Styles, Continue(style) PROVE CallsFirst'
    <3>1. chat' = Null /\ phase' = "idle"
      BY <2>5 DEF Continue
    <3> QED
      BY <3>1 DEF CallsFirst, ResultsAfterCalls
  <2>6. CASE UNCHANGED vars
    BY <1>1, <2>6 DEF vars, CallsFirst, ResultsAfterCalls
  <2> QED
    BY <1>1, <2>1, <2>2, <2>3, <2>4, <2>5, <2>6, SendOrder, ArriveOrder, IngestOrder DEF Next
<1>2. CallsFirst => ResultsAfterCalls
  BY DEF CallsFirst
<1> QED
  BY <1>1, <1>2, InitOrder, LinkedAlways, MarksAlways, PTL DEF Spec

-----------------------------------------------------------------------------
LEMMA LinkedErrors == Linked => ErrorsTyped
<1> SUFFICES ASSUME Linked, phase = "returned", ~outcome.ok, answer # Null, ~answer.ok,
                    outcome.error.kind # "Transport"
             PROVE  /\ dialect = "Anthropic" =>
                         /\ outcome.error.kind = Meant(answer.error)
                         /\ outcome.error.kind = "Upstream" =>
                              outcome.error.status = http_status(answer.error)
                    /\ answer.error.kind = "Upstream" /\ outcome.error.kind = "Upstream" =>
                         outcome.error.body # answer.error.body
  BY DEF ErrorsTyped
<1>1. /\ Failure(answer.error) /\ resp = Envelope(dialect, answer.error)
      /\ outcome = Err(error_from_wire(resp.status, resp.body))
  BY DEF Linked
<1>2. PICK got : got = error_from_wire(resp.status, resp.body)
  OBVIOUS
<1>3. outcome.error = got
  BY <1>1, <1>2 DEF Err
<1>4. dialect = "Anthropic" => /\ got.kind = Meant(answer.error)
                               /\ got.kind = "Upstream" => got.status = http_status(answer.error)
  <2>1. dialect = "Anthropic" => resp = error_json(answer.error)
    BY <1>1 DEF Envelope
  <2> QED
    BY <1>1, <1>2, <2>1, AnthropicKinds
<1>5. got.kind = "Upstream" => got.body = resp.body.message
  BY <1>2 DEF error_from_wire, Error, Upstream
<1>6. answer.error.kind = "Upstream" => resp.body.message # answer.error.body
  BY <1>1, EnvelopeMessage
<1> QED
  BY <1>3, <1>4, <1>5, <1>6

(* Over Anthropic the failure a client is told of is the engine's, and in  *)
(* no dialect do the upstream's own words reach it.                        *)
THEOREM ErrorsKept == Spec => []ErrorsTyped
  BY LinkedAlways, LinkedErrors, PTL
================================================================================
