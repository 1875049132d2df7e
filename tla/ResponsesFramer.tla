-------------------------- MODULE ResponsesFramer ---------------------------
(***************************************************************************)
(* The OpenAI Responses surface: canonical chunks in, item-lifecycle SSE   *)
(* events out (dialect/openai_responses/stream.rs), pumped by the shared   *)
(* SSE driver.  Output positions count from 1, as in st.out of this        *)
(* module; the wire's output_index is one less.  The field wire is the     *)
(* response body so far, each frame stamped with its sequence number.      *)
(***************************************************************************)
EXTENDS ResponsesWire

CONSTANTS Chunks,     \* the canonical chunks the upstream may send
          Turn(_),    \* Turn(q): q may be the beginning of an upstream turn
          MaxChunks,  \* bound on the chunks of a turn
          LateErrors  \* may the source fail after its turn was completed?

ASSUME ChunksAssumption == Chunks \subseteq CanonChunk
ASSUME BoundsAssumption == MaxChunks \in Nat /\ LateErrors \in BOOLEAN

VARIABLES st,     \* ResponsesStreamState and the body so far
          heard,  \* history: the chunks the source has yielded
          pump    \* the SSE driver: "open", "failed" (an Err passed), "closed"

vars == <<st, heard, pump>>

NewState ==
  [first |-> TRUE, out |-> <<>>, current |-> NoPos,
   tool_items |-> [i \in {} |-> NoPos], tool_ids |-> [i \in {} |-> NoPos],
   open_tools |-> <<>>, usage |-> NoUsage, saw_finish |-> "none",
   completed_sent |-> FALSE, seq |-> 0, wire |-> <<>>]

(* HashMap::insert *)
Insert(f, key, val) ==
  [k \in DOMAIN f \cup {key} |-> IF k = key THEN val ELSE f[k]]

(* Mutant: the sequence number is not advanced *)
PushAll_unstamped(s, fs) ==
  [s EXCEPT !.wire = @ \o [k \in DOMAIN fs |-> [fs[k] EXCEPT !.seq = s.seq]]]

(* Every frame leaves through stamp *)
PushAll(s, fs) ==
  [s EXCEPT !.wire = @ \o [k \in DOMAIN fs |-> [fs[k] EXCEPT !.seq = s.seq + k - 1]],
            !.seq = @ + Len(fs)]

Push(s, f) == PushAll(s, <<f>>)

-----------------------------------------------------------------------------
(* Closing and opening items *)

(* The events that end an item, by its type *)
Closers(type) ==
  CASE type = "message"       -> <<"output_text.done", "content_part.done">>
    [] type = "reasoning"     -> <<"reasoning_summary_part.done">>
    [] type = "function_call" -> <<"function_call_arguments.done">>

done(s, pos) ==
  LET item == s.out[pos]
      evs == Append(Closers(item.type), "output_item.done")
      t == [s EXCEPT !.out[pos].status = IF @ = "none" THEN @ ELSE "completed"]
  IN  PushAll(t, [k \in DOMAIN evs |-> Frame(evs[k], pos, item.text)])

close_current(s) ==
  IF s.current = NoPos THEN s ELSE done([s EXCEPT !.current = NoPos], s.current)

(* Every call still open, in the order they were opened *)
close_tools(s) ==
  LET after[n \in 0 .. Len(s.open_tools)] ==
        IF n = 0 THEN [s EXCEPT !.open_tools = <<>>]
        ELSE done(after[n - 1], s.open_tools[n])
  IN  after[Len(s.open_tools)]

(* Mutant: open calls are forgotten *)
close_all_current(s) == close_current(s)

close_all(s) == close_tools(close_current(s))

(* open_text_item and open_reasoning_item: an open item of the type is     *)
(* continued, any other closes.                                            *)
open_item(s, type) ==
  IF s.current # NoPos /\ s.out[s.current].type = type THEN s
  ELSE LET t == close_current(s)
           pos == Len(t.out) + 1
           part == IF type = "message" THEN "content_part.added"
                   ELSE "reasoning_summary_part.added"
       IN  PushAll([t EXCEPT !.out = Append(@, Item(type, NoId)), !.current = pos],
                   <<Added(pos, Item(type, NoId)), Frame(part, pos, <<>>)>>)

(* Mutant: the delta is sent but not kept *)
append_text_sent(s, pos, ev, text) == Push(s, Frame(ev, pos, text))

append_text(s, pos, ev, text) ==
  Push([s EXCEPT !.out[pos].text = @ \o text], Frame(ev, pos, text))

(* Usage is always present on the wire, as zeros if none was reported, and *)
(* says nothing of the cache.                                              *)
wire_usage(u) == [u EXCEPT !.given = TRUE, !.cached_read = 0, !.cache_write = 0]

Incomplete(finish) == finish \in {"length", "content_filter"}

incomplete_reason(finish) ==
  CASE finish = "length"         -> "max_output_tokens"
    [] finish = "content_filter" -> "content_filter"
    [] OTHER                     -> "none"

(* Mutant: items keep their status in the terminal frame *)
rx_terminal_frame_unlabelled(s) ==
  [Frame(IF Incomplete(s.saw_finish) THEN "incomplete" ELSE "completed", NoPos, <<>>)
     EXCEPT !.output = s.out, !.usage = wire_usage(s.usage),
            !.status = IF Incomplete(s.saw_finish) THEN "incomplete" ELSE "completed",
            !.reason = incomplete_reason(s.saw_finish)]

(* Mutant: an answer is cut off for its length, whatever cut it off *)
rx_terminal_frame_mislabelled(s) ==
  LET ev == IF Incomplete(s.saw_finish) THEN "incomplete" ELSE "completed"
      final(item) == IF item.status = "none" THEN item ELSE [item EXCEPT !.status = ev]
  IN  [Frame(ev, NoPos, <<>>) EXCEPT
         !.output = [k \in DOMAIN s.out |-> final(s.out[k])],
         !.usage = wire_usage(s.usage), !.status = ev,
         !.reason = IF Incomplete(s.saw_finish) THEN "max_output_tokens" ELSE "none"]

(* The terminal frame relabels the status of every item that has one *)
rx_terminal_frame(s) ==
  LET ev == IF Incomplete(s.saw_finish) THEN "incomplete" ELSE "completed"
      final(item) == IF item.status = "none" THEN item ELSE [item EXCEPT !.status = ev]
  IN  [Frame(ev, NoPos, <<>>) EXCEPT
         !.output = [k \in DOMAIN s.out |-> final(s.out[k])],
         !.usage = wire_usage(s.usage), !.status = ev,
         !.reason = incomplete_reason(s.saw_finish)]

-----------------------------------------------------------------------------
(* frame_item, in the order of its sections *)

created(s) ==
  IF s.first THEN Push([s EXCEPT !.first = FALSE], Frame("created", NoPos, <<>>)) ELSE s

text_section(s, c) ==
  IF c.delta_text = <<>> THEN s
  ELSE LET t == open_item(s, "message")
       IN  append_text(t, t.current, "output_text.delta", c.delta_text)

(* Signatures have no channel on this surface *)
thinking_section(s, c) ==
  IF c.thinking.kind # "thinking" THEN s
  ELSE LET t == open_item(s, "reasoning")
       IN  append_text(t, t.current, "reasoning_summary_text.delta", c.thinking.text)

Lookup(f, key) == IF key \in DOMAIN f THEN f[key] ELSE NoPos

(* Mutant: a call is known by its index first *)
open_call_indexed(s, tc) ==
  LET pos == Len(s.out) + 1
      t == [s EXCEPT
              !.out = Append(@, Item("function_call", tc.id)),
              !.tool_items = Insert(@, tc.index, pos),
              !.tool_ids = IF tc.id # NoId THEN Insert(@, tc.id, pos) ELSE @,
              !.open_tools = Append(@, pos)]
  IN  IF Lookup(s.tool_items, tc.index) # NoPos THEN s
      ELSE Push(close_current(t), Added(pos, Item("function_call", tc.id)))

(* A name opens a call unless its id, or without one its index, is known *)
open_call(s, tc) ==
  LET known == IF tc.id # NoId THEN Lookup(s.tool_ids, tc.id)
               ELSE Lookup(s.tool_items, tc.index)
      pos == Len(s.out) + 1
      t == [s EXCEPT
              !.out = Append(@, Item("function_call", tc.id)),
              !.tool_items = Insert(@, tc.index, pos),
              !.tool_ids = IF tc.id # NoId THEN Insert(@, tc.id, pos) ELSE @,
              !.open_tools = Append(@, pos)]
  IN  IF known # NoPos THEN s
      ELSE Push(close_current(t), Added(pos, Item("function_call", tc.id)))

(* Arguments go to the call of their id, else to that of their index *)
resolved(s, tc) ==
  LET byId == IF tc.id # NoId THEN Lookup(s.tool_ids, tc.id) ELSE NoPos
  IN  IF byId # NoPos THEN byId ELSE Lookup(s.tool_items, tc.index)

tool_delta(s, tc) ==
  LET t == IF tc.name THEN open_call(s, tc) ELSE s
      pos == resolved(t, tc)
  IN  IF tc.args = <<>> \/ pos = NoPos THEN t
      ELSE append_text(t, pos, "function_call_arguments.delta", tc.args)

tool_section(s, c) ==
  LET after[n \in 0 .. Len(c.calls)] ==
        IF n = 0 THEN s ELSE tool_delta(after[n - 1], c.calls[n])
  IN  after[Len(c.calls)]

terminal(s) ==
  LET t == close_all([s EXCEPT !.completed_sent = TRUE])
  IN  Push(t, rx_terminal_frame(t))

(* Mutant: the terminal does not wait for the usage *)
ending_section_eager(s, c) ==
  LET t == [s EXCEPT
              !.usage = IF c.usage.given THEN c.usage ELSE @,
              !.saw_finish = IF c.finish # "none" THEN c.finish ELSE @]
  IN  IF t.saw_finish # "none" /\ ~t.completed_sent THEN terminal(t) ELSE t

(* The turn is over once a finish and a usage have both been seen *)
ending_section(s, c) ==
  LET t == [s EXCEPT
              !.usage = IF c.usage.given THEN c.usage ELSE @,
              !.saw_finish = IF c.finish # "none" THEN c.finish ELSE @]
  IN  IF t.saw_finish # "none" /\ t.usage.given /\ ~t.completed_sent
      THEN terminal(t) ELSE t

frame_item(s, c) ==
  ending_section(
    tool_section(thinking_section(text_section(created(s), c), c), c), c)

frame_error(s) ==
  Push([created(s) EXCEPT !.completed_sent = TRUE], Frame("failed", NoPos, <<>>))

(* Mutant: the finalizer never speaks *)
finish_silent(s) == [s EXCEPT !.completed_sent = TRUE]

finish(s) == IF s.completed_sent \/ s.first THEN s ELSE terminal(s)

-----------------------------------------------------------------------------
(* responses_stream_response on top of sse_response *)

Init ==
  /\ st = NewState
  /\ heard = <<>>
  /\ pump = "open"

(* The source yields Ok(chunk) *)
Chunk(c) ==
  /\ pump = "open"
  /\ Len(heard) < MaxChunks
  /\ Turn(Append(heard, c))
  /\ st' = frame_item(st, c)
  /\ heard' = Append(heard, c)
  /\ UNCHANGED pump

(* The source yields Err and, by its contract, nothing after it *)
Fail ==
  /\ pump = "open"
  /\ LateErrors \/ ~st.completed_sent
  /\ st' = frame_error(st)
  /\ pump' = "failed"
  /\ UNCHANGED heard

(* The source is exhausted: the chained finalizer runs once *)
End ==
  /\ pump # "closed"
  /\ st' = finish(st)
  /\ pump' = "closed"
  /\ UNCHANGED heard

Next == (\E c \in Chunks : Chunk(c)) \/ Fail \/ End

(* A source ends sooner or later: it is finite, or its idle timeout cuts it *)
Spec == Init /\ [][Next]_vars /\ WF_vars(End)
=============================================================================
