------------------------- MODULE ResponsesDeframer --------------------------
(***************************************************************************)
(* OpenAI Responses events in, canonical chunks out                        *)
(* (dialect/openai_responses/deframe.rs).  Text surfaces with each delta,  *)
(* reasoning and calls are accumulated per output item and surface with    *)
(* the terminal event.  A seq of NoSeq stands for a frame without one.     *)
(***************************************************************************)
EXTENDS ResponsesWire, DeframeOut, SequencesExt

(* None, below every number of the wire *)
NoSeq == -1

(* items: the accumulated items by output position *)
New == [items |-> [p \in {} |-> Item("message", NoId)],
        last_seq |-> NoSeq, terminal_seen |-> FALSE]

(* BTreeMap::insert: an item added again starts over *)
output_item_added(d, f) ==
  IF f.type \notin Types THEN Nothing(d)
  ELSE Nothing([d EXCEPT
         !.items = [p \in DOMAIN @ \cup {f.pos} |->
                      IF p = f.pos THEN Item(f.type, f.id) ELSE @[p]]])

(* A delta is kept if its item is one of its type *)
Accumulate(d, f, type) ==
  IF f.pos \in DOMAIN d.items /\ d.items[f.pos].type = type
  THEN [d EXCEPT !.items[f.pos].text = @ \o f.text]
  ELSE d

output_text_delta(d, f) ==
  SurfaceIf(f.text # <<>>, Accumulate(d, f, "message"),
            [EmptyChunk EXCEPT !.delta_text = f.text])

(* Mutant: the event's name decides, not the status of the response *)
finish_reason_by_name(f) ==
  IF f.ev # "incomplete" THEN "stop"
  ELSE CASE f.reason \in {"max_output_tokens", "max_tokens"} -> "length"
         [] f.reason = "content_filter"                      -> "content_filter"
         [] OTHER                                            -> "stop"

(* The status of the response decides, not the name of the event; a reason *)
(* it does not know passes for a stop.                                     *)
finish_reason(f) ==
  IF f.status \notin {"incomplete", "failed"} THEN "stop"
  ELSE CASE f.reason \in {"max_output_tokens", "max_tokens"} -> "length"
         [] f.reason = "content_filter"                      -> "content_filter"
         [] OTHER                                            -> "stop"

(* Positions in output order *)
InOrder(S) == FlattenSeq([p \in 1 .. Max(S \cup {0}) |-> IF p \in S THEN <<p>> ELSE <<>>])

ItemsOf(d, type) == InOrder({p \in DOMAIN d.items : d.items[p].type = type})

JoinedTexts(d, ps) == FlattenSeq([k \in DOMAIN ps |-> d.items[ps[k]].text])

(* The calls of the terminal carry no index: readers take 0 for it *)
FinalCalls(d) ==
  LET ps == ItemsOf(d, "function_call")
  IN  [k \in DOMAIN ps |->
         [index |-> 0, id |-> d.items[ps[k]].id, name |-> TRUE,
          args |-> d.items[ps[k]].text]]

(* Mutant: calls override an answer that was cut off *)
terminal_chunk_overriding(d, f) ==
  LET thinking == JoinedTexts(d, ItemsOf(d, "reasoning"))
      calls == FinalCalls(d)
  IN  [EmptyChunk EXCEPT
         !.usage = [f.usage EXCEPT !.given = TRUE, !.cache_write = 0],
         !.thinking = IF thinking = <<>> THEN @ ELSE [kind |-> "thinking", text |-> thinking],
         !.has_calls = calls # <<>>, !.calls = calls,
         !.finish = IF calls # <<>> THEN "tool_calls" ELSE finish_reason(f)]

(* Text was published with its deltas and is not repeated; calls turn a    *)
(* stop (that of an unknown reason too) into tool_calls, but not a length  *)
(* or a content_filter.                                                    *)
terminal_chunk(d, f) ==
  LET thinking == JoinedTexts(d, ItemsOf(d, "reasoning"))
      calls == FinalCalls(d)
      finish == finish_reason(f)
  IN  [EmptyChunk EXCEPT
         !.usage = [f.usage EXCEPT !.given = TRUE, !.cache_write = 0],
         !.thinking = IF thinking = <<>> THEN @ ELSE [kind |-> "thinking", text |-> thinking],
         !.has_calls = calls # <<>>, !.calls = calls,
         !.finish = IF calls # <<>> /\ finish = "stop" THEN "tool_calls" ELSE finish]

dispatch(d, f) ==
  CASE f.ev = "output_item.added"                 -> output_item_added(d, f)
    [] f.ev = "output_text.delta"                 -> output_text_delta(d, f)
    [] f.ev = "reasoning_summary_text.delta"      -> Nothing(Accumulate(d, f, "reasoning"))
    [] f.ev = "function_call_arguments.delta"     -> Nothing(Accumulate(d, f, "function_call"))
    [] f.ev \in {"completed", "incomplete"}       ->
         Surface([d EXCEPT !.terminal_seen = TRUE], terminal_chunk(d, f))
    [] f.ev = "failed"                            -> Upstream([d EXCEPT !.terminal_seen = TRUE])
    [] OTHER                                      -> Nothing(d)

(* Sequence numbers, where given, must increase strictly *)
push(d, f) ==
  IF \/ d.terminal_seen
     \/ f.ev = "garbage"
     \/ f.seq # NoSeq /\ f.seq <= d.last_seq
  THEN Transport(d)
  ELSE dispatch([d EXCEPT !.last_seq = IF f.seq = NoSeq THEN @ ELSE f.seq], f)

(* TRUE for Ok: the terminal event is mandatory *)
finalize(d) == d.terminal_seen
=============================================================================
