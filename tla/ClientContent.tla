--------------------------- MODULE ClientContent ----------------------------
(***************************************************************************)
(* What the caller of DialectClient::stream can rely on, whatever the      *)
(* upstream sends and wherever the connection breaks off.                  *)
(***************************************************************************)
EXTENDS ClientStream, SequencesExt

Failed == items # <<>> /\ Last(items).kind \in Errors

(* The events the deframer took: all of them, or all but the one it failed on *)
Taken == {body} \cup (IF Failed /\ body # <<>> THEN {Front(body)} ELSE {})

Terminals ==
  CASE dialect = "Anthropic"       -> {"message_stop"}
    [] dialect = "OpenAiChat"      -> {"done"}
    [] dialect = "OpenAiResponses" -> {"completed", "incomplete"}

(* A body that can end in silence has not begun: no message_start was seen *)
Begun == dialect = "Anthropic" => \E k \in DOMAIN body : body[k].ev = "message_start"

EndsAtTerminal == body # <<>> /\ Last(body).ev \in Terminals

TypeOK ==
  /\ dialect \in Dialects
  /\ phase \in {"sending", "streaming", "ended"}
  /\ \A k \in DOMAIN items : items[k].chunk \in CanonChunk

Wordless(c) == c.delta_text = <<>> /\ c.thinking.kind = "none" /\ ~c.has_calls

(* How far the caller can trust the way a stream ends.  An error is its    *)
(* last item.  A stream that ends without one has come to the terminal     *)
(* event of its dialect, the only one of the body ("a truncated body (EOF  *)
(* without the terminal frame)" surfaces as Err, client.rs:192), or, over  *)
(* Anthropic alone, has met the end or an event that surfaces nothing, a   *)
(* ping say, before any message_start (client.rs:276 takes finalize's      *)
(* word): then it brought no text, no thinking and no call.  The terminal  *)
(* of Anthropic is message_stop by itself: no message_delta need precede   *)
(* it, although the comment of finalize wants both (deframe.rs:210).       *)
HonestEnd ==
  /\ \A k \in DOMAIN items :
       items[k].kind \in Errors => k = Len(items) /\ phase = "ended"
  /\ phase = "ended" /\ ~Failed /\ Begun =>
       /\ EndsAtTerminal
       /\ \A k \in DOMAIN body : body[k].ev \in Terminals => k = Len(body)
  /\ ~Begun => \A k \in DOMAIN items : Wordless(items[k].chunk)

(* Block i is open after the first k events of body q *)
OpenAfter(q, i, k) ==
  \E j \in 1 .. k :
    /\ q[j].ev = "content_block_start" /\ q[j].index = i
    /\ \A m \in j + 1 .. k : ~(q[m].ev = "content_block_stop" /\ q[m].index = i)

NamesOpen(q) ==
  \A k \in DOMAIN q : q[k].ev \in {"content_block_delta", "content_block_stop"} =>
    OpenAfter(q, q[k].index, k - 1)

Sequenced(q) ==
  \A j, k \in DOMAIN q : j < k /\ q[j].seq # -1 /\ q[k].seq # -1 => q[j].seq < q[k].seq

AtMostOnce(q, ev) ==
  \A j, k \in DOMAIN q : q[j].ev = ev /\ q[k].ev = ev => j = k

(* What the deframers check of a body: its data parses, deltas and stops   *)
(* name an open block and there is one message_start and one message_delta *)
(* at most (Anthropic), the numbers given count up (Responses)             *)
Acceptable(d, q) ==
  /\ \A k \in DOMAIN q : q[k].ev # "garbage"
  /\ d = "Anthropic" =>
       NamesOpen(q) /\ AtMostOnce(q, "message_start") /\ AtMostOnce(q, "message_delta")
  /\ d = "OpenAiResponses" => Sequenced(q)

(* A body that breaks one of these rules ends in an error where it does:   *)
(* what was taken before is acceptable, in any order of events (push of    *)
(* the three deframers).  The Anthropic deframer validates less than "block *)
(* nesting and the terminal pair" (anthropic/deframe.rs:10): a second      *)
(* start of an open block, blocks after message_delta or still open at     *)
(* message_stop and a message_stop without message_delta are taken.        *)
OnlyAcceptable == \E q \in Taken : Acceptable(dialect, q)

ItemText ==
  FlattenSeq([k \in DOMAIN items |-> items[k].chunk.delta_text])

(* The words an event of dialect d brings *)
Said(d, f) ==
  CASE d = "Anthropic" ->
         IF f.ev = "content_block_delta" /\ f.kind = "text_delta" THEN f.text ELSE <<>>
    [] d = "OpenAiChat"      -> f.delta.delta_text
    [] d = "OpenAiResponses" -> IF f.ev = "output_text.delta" THEN f.text ELSE <<>>

SaidText(q) == FlattenSeq([k \in DOMAIN q |-> Said(dialect, q[k])])

(* Text as it comes, and no chunk that carries nothing but Anthropic's     *)
(* prompt count                                                            *)
TextOnce ==
  /\ \E q \in Taken : ItemText = SaidText(q)
  /\ \A k \in DOMAIN items : items[k].kind = "chunk" =>
       HasPayload(items[k].chunk) \/ items[k].chunk.input_tokens # NoTokens

(* The event puts an item of a type we know at position p *)
Adding(f, p) ==
  f.ev = "output_item.added" /\ f.pos = p /\ f.type \in Responses!Types

(* The item at p after the events q is the one their k-th event put there *)
Placed(q, p, k) ==
  Adding(q[k], p) /\ \A j \in k + 1 .. Len(q) : ~Adding(q[j], p)

(* The positions whose item is of a type, in output order *)
PlacedAs(q, type) ==
  Responses!InOrder({q[k].pos : k \in {k \in DOMAIN q :
                                         Placed(q, q[k].pos, k) /\ q[k].type = type}})

(* The deltas for position p since its item was put there *)
Since(q, p, ev) ==
  FlattenSeq([k \in DOMAIN q |->
    IF q[k].ev = ev /\ q[k].pos = p /\ \E j \in 1 .. k : Placed(q, p, j)
    THEN q[k].text ELSE <<>>])

(* What the caller is told of an answer with or without calls: the status  *)
(* of the response f counts, not the name of its event, and a reason that  *)
(* is neither of the two known ones is none.                               *)
Verdict(f, calls) ==
  LET cut == f.status \in {"incomplete", "failed"}
  IN  CASE cut /\ f.reason \in {"max_output_tokens", "max_tokens"} -> "length"
        [] cut /\ f.reason = "content_filter"                      -> "content_filter"
        [] OTHER -> IF calls = <<>> THEN "stop" ELSE "tool_calls"

(* c has what the items of the body q came to, q ending in its terminal *)
Collected(c, q) ==
  LET calls == PlacedAs(q, "function_call")
      reasons == PlacedAs(q, "reasoning")
  IN  /\ [m \in DOMAIN c.calls |-> c.calls[m].args]
           = [m \in DOMAIN calls |-> Since(q, calls[m], "function_call_arguments.delta")]
      /\ c.thinking.text
           = FlattenSeq([m \in DOMAIN reasons |->
                          Since(q, reasons[m], "reasoning_summary_text.delta")])
      /\ c.finish = Verdict(Last(q), calls)

FirstTerminal(n) ==
  body[n].ev \in Terminals /\ \A m \in 1 .. n - 1 : body[m].ev \notin Terminals

PublishedAtTheEnd ==
  dialect = "OpenAiResponses" =>
    \A k \in DOMAIN items : items[k].kind = "chunk" =>
      IF items[k].chunk.finish = "none"
      THEN items[k].chunk.thinking.kind = "none" /\ items[k].chunk.calls = <<>>
      ELSE /\ \A j \in DOMAIN items : j > k => items[j].kind \in Errors
           /\ \E n \in DOMAIN body :
                FirstTerminal(n) /\ Collected(items[k].chunk, SubSeq(body, 1, n))

(* Text reaches the caller once and at once, also where the terminal event *)
(* could repeat it, and no chunk is empty.  Responses publishes reasoning  *)
(* and calls once, with the terminal, whole and in output order.  An       *)
(* answer whose status is incomplete or failed for a reason the code knows *)
(* is never passed for a finished set of calls (the comment at             *)
(* openai_responses/deframe.rs:218); for another reason, or none, it is.   *)
ContentOnce == TextOnce /\ PublishedAtTheEnd
=============================================================================
