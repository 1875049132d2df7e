-------------------------- MODULE AnthropicFramer ---------------------------
(***************************************************************************)
(* The Anthropic Messages surface: canonical chunks in, typed SSE frames   *)
(* out (dialect/anthropic/stream.rs), pumped by the shared SSE driver      *)
(* (dialect/sse.rs).  The StreamState of the code is a record that the     *)
(* operators below pass on, each named after the function it models; its   *)
(* field out is the response body so far, every frame ever pushed.         *)
(***************************************************************************)
EXTENDS StopWindow, AnthropicWire, FiniteSets

CONSTANTS Chunks,     \* the canonical chunks the upstream may send
          Turn(_),    \* Turn(q): q may be the beginning of an upstream turn
          MaxChunks,  \* bound on the chunks of a turn
          LateErrors  \* may the source fail after its turn was completed?

ASSUME ChunksAssumption == Chunks \subseteq CanonChunk
ASSUME BoundsAssumption == MaxChunks \in Nat /\ LateErrors \in BOOLEAN

VARIABLES st,     \* StreamState and the body so far
          heard,  \* history: the chunks received before the message stopped
          pump    \* the SSE driver: "open", "failed" (an Err passed), "closed"

vars == <<st, heard, pump>>

-----------------------------------------------------------------------------
NoIndex == -1

NewState ==
  [first |-> TRUE, blocks |-> <<>>,
   thinking_index |-> NoIndex, text_index |-> NoIndex,
   tool_base_index |-> NoIndex, input_tokens |-> 0,
   stop_reason |-> "none", pending_usage |-> NoUsage,
   message_stopped |-> FALSE, win |-> NewWindow, out |-> <<>>]

Push(s, f) == [s EXCEPT !.out = Append(@, f)]

BlockOpen(s, i) == i \in 0 .. Len(s.blocks) - 1 /\ s.blocks[i + 1]

(* Mutant: the last slot is handed out again *)
next_index_last(s) == IF s.blocks = <<>> THEN 0 ELSE Len(s.blocks) - 1

(* Slots are never given back: the next free index is the vector's length *)
next_index(s) == Len(s.blocks)

(* Mutant: closing a block forgets what the window withheld *)
flush_stop_tail_nothing(s) == s

flush_stop_tail(s) ==
  IF ~HasTail(s.win) THEN s
  ELSE LET w == s.win
           t == [s EXCEPT !.win = TakeTail(w)]
       IN  IF ~BlockOpen(s, w.block) THEN t
           ELSE Push(t, BlockDelta(w.block,
                          IF w.kind = "thinking" THEN "thinking_delta" ELSE "text_delta",
                          w.tail))

(* The elements of a finite set of numbers in ascending order *)
Ascending(S) ==
  CHOOSE q \in [1 .. Cardinality(S) -> S] :
    \A a, b \in 1 .. Cardinality(S) : a < b => q[a] < q[b]

(* The closing loop shared by open_block and close_block *)
StopBelow(s, n) ==
  LET stopped == Ascending({i \in 0 .. n - 1 : BlockOpen(s, i)})
  IN  [s EXCEPT
         !.blocks = [k \in DOMAIN @ |-> IF k <= n THEN FALSE ELSE @[k]],
         !.out = @ \o [k \in DOMAIN stopped |-> BlockStop(stopped[k])]]

close_block(s, upto) == StopBelow(flush_stop_tail(s), upto)

(* The vector, grown if need be, with slot idx open *)
Opened(blocks, idx) ==
  LET n == IF Len(blocks) <= idx THEN idx + 1 ELSE Len(blocks)
  IN  [k \in 1 .. n |-> k = idx + 1 \/ (k <= Len(blocks) /\ blocks[k])]

(* Mutant: the blocks below stay open *)
open_block_overlapping(s, idx, kind) ==
  LET t == flush_stop_tail(s)
  IN  [t EXCEPT !.blocks = Opened(@, idx), !.out = Append(@, BlockStart(idx, kind))]

open_block(s, idx, kind) ==
  LET t == StopBelow(flush_stop_tail(s), idx)
  IN  [t EXCEPT !.blocks = Opened(@, idx), !.out = Append(@, BlockStart(idx, kind))]

(* Mutant: a subtraction that does not saturate *)
wire_input_bare(u, fallback) ==
  (IF u.input > 0 THEN u.input ELSE fallback) - (u.cached_read + u.cache_write)

(* Anthropic's wire reports fresh-only input; canonical is cache-inclusive *)
wire_input(u, fallback) ==
  LET total == IF u.input > 0 THEN u.input ELSE fallback
      cached == u.cached_read + u.cache_write
  IN  IF total >= cached THEN total - cached ELSE 0

(* Mutant: the message is not marked as stopped *)
emit_terminal_unlatched(s, reason, u) ==
  LET t == close_block(s, Len(s.blocks))
  IN  [t EXCEPT !.out = @ \o <<MessageDelta(reason, t.win.matched, NoWireUsage), MessageStop>>]

(* Mutant: the upstream's verdict stands although a stop sequence fired *)
emit_terminal_upstream(s, reason, u) ==
  LET t == close_block(s, Len(s.blocks))
  IN  [t EXCEPT !.out = @ \o <<MessageDelta(reason, t.win.matched, NoWireUsage), MessageStop>>,
                !.message_stopped = TRUE]

emit_terminal(s, reason, u) ==
  LET t == close_block(s, Len(s.blocks))
      verdict == IF t.win.matched # <<>> THEN "stop_sequence" ELSE reason
      usage == [input |-> wire_input(u, t.input_tokens), output |-> u.output,
                cached_read |-> u.cached_read, cache_write |-> u.cache_write]
  IN  [t EXCEPT
         !.out = @ \o <<MessageDelta(verdict, t.win.matched, usage), MessageStop>>,
         !.message_stopped = TRUE]

map_stop_reason_outbound(fr) ==
  CASE fr = "stop"           -> "end_turn"
    [] fr = "length"         -> "max_tokens"
    [] fr = "tool_calls"     -> "tool_use"
    [] fr = "content_filter" -> "refusal"
    [] fr \in StopReasons    -> fr
    [] OTHER                 -> "end_turn"

-----------------------------------------------------------------------------
(* chunk_to_sse_events, in the order of its sections *)

preamble(s, c) ==
  LET n == IF c.input_tokens > 0 THEN c.input_tokens ELSE s.input_tokens
      t == [s EXCEPT !.input_tokens = n]
  IN  IF s.first THEN Push([t EXCEPT !.first = FALSE], MessageStart(n)) ELSE t

is_trailer(c) ==
  /\ c.finish = "none"
  /\ c.usage.given
  /\ c.delta_text = <<>>
  /\ c.thinking.kind = "none"
  /\ ~c.has_calls

(* A usage-only chunk ends the turn when a finish chunk came before it, and *)
(* otherwise is kept for the terminal frame.                               *)
trailer(s, c) ==
  IF s.stop_reason = "none"
  THEN [s EXCEPT !.pending_usage = c.usage]
  ELSE emit_terminal([s EXCEPT !.stop_reason = "none"], s.stop_reason, c.usage)

(* The still-open block of a channel, or a fresh one *)
reopen(s, idx, kind) == IF BlockOpen(s, idx) THEN s ELSE open_block(s, next_index(s), kind)

slot(s, idx) == IF BlockOpen(s, idx) THEN idx ELSE next_index(s)

(* Text of a block passes through the window; what it releases is a delta *)
filtered(s, idx, channel, kind, text) ==
  IF ~HasWindow THEN Push(s, BlockDelta(idx, kind, text))
  ELSE LET r == Feed(s.win, idx, channel, text)
           t == [s EXCEPT !.win = r.win]
       IN  IF r.emit = <<>> THEN t ELSE Push(t, BlockDelta(idx, kind, r.emit))

thinking_section(s, c) ==
  IF c.thinking.kind = "none" THEN s
  ELSE LET i == slot(s, s.thinking_index)
           t == [reopen(s, s.thinking_index, "thinking") EXCEPT !.thinking_index = i]
       IN  IF c.thinking.kind = "signature"
           THEN Push(t, BlockDelta(i, "signature_delta", c.thinking.text))
           ELSE filtered(t, i, "thinking", "thinking_delta", c.thinking.text)

text_section(s, c) ==
  IF c.delta_text = <<>> THEN s
  ELSE LET i == slot(s, s.text_index)
           t == [reopen(s, s.text_index, "text") EXCEPT !.text_index = i]
       IN  filtered(t, i, "text", "text_delta", c.delta_text)

(* Mutant: arguments are sent whether or not their block is open *)
tool_delta_blind(s, tc) ==
  LET idx == s.tool_base_index + tc.index
      t == IF tc.name THEN open_block(s, idx, "tool_use") ELSE s
  IN  IF tc.args # <<>> THEN Push(t, BlockDelta(idx, "input_json_delta", tc.args)) ELSE t

(* Mutant: late arguments reopen their block *)
tool_delta_reopening(s, tc) ==
  LET idx == s.tool_base_index + tc.index
      t == IF tc.name \/ ~BlockOpen(s, idx) THEN open_block(s, idx, "tool_use") ELSE s
  IN  IF tc.args # <<>> THEN Push(t, BlockDelta(idx, "input_json_delta", tc.args)) ELSE t

(* One tool-call delta: a name opens the call's block, arguments for a     *)
(* block that is not open are dropped.                                     *)
tool_delta(s, tc) ==
  LET idx == s.tool_base_index + tc.index
      t == IF tc.name THEN open_block(s, idx, "tool_use") ELSE s
  IN  IF tc.args # <<>> /\ BlockOpen(t, idx)
      THEN Push(t, BlockDelta(idx, "input_json_delta", tc.args))
      ELSE t

tool_loop(s, calls) ==
  LET after[n \in 0 .. Len(calls)] ==
        IF n = 0 THEN s ELSE tool_delta(after[n - 1], calls[n])
  IN  after[Len(calls)]

tool_section(s, c) ==
  IF ~c.has_calls THEN s
  ELSE LET base == IF s.tool_base_index = NoIndex THEN next_index(s)
                   ELSE s.tool_base_index
       IN  tool_loop([s EXCEPT !.tool_base_index = base], c.calls)

finish_section(s, c) ==
  IF c.finish = "none" THEN s
  ELSE LET sr == map_stop_reason_outbound(c.finish)
       IN  IF c.usage.given THEN emit_terminal(s, sr, c.usage)
           ELSE [s EXCEPT !.stop_reason = sr]

(* Mutant: text is framed before the thinking that preceded it *)
chunk_to_sse_events_swapped(s, c) ==
  IF s.message_stopped THEN s
  ELSE LET t == preamble(s, c)
       IN  IF is_trailer(c) THEN trailer(t, c)
           ELSE finish_section(
                  tool_section(thinking_section(text_section(t, c), c), c), c)

chunk_to_sse_events(s, c) ==
  IF s.message_stopped THEN s
  ELSE LET t == preamble(s, c)
       IN  IF is_trailer(c) THEN trailer(t, c)
           ELSE finish_section(
                  tool_section(text_section(thinking_section(t, c), c), c), c)

(* Mutant: the finalizer only latches the state *)
finalize_stream_silent(s) == [s EXCEPT !.message_stopped = TRUE]

(* Mutant: the finalizer forgets the usage kept for the terminal frame *)
finalize_stream_unbilled(s) ==
  IF s.message_stopped THEN s
  ELSE IF s.first THEN [s EXCEPT !.message_stopped = TRUE]
  ELSE emit_terminal(s, IF s.stop_reason = "none" THEN "end_turn" ELSE s.stop_reason, NoUsage)

finalize_stream(s) ==
  IF s.message_stopped THEN s
  ELSE IF s.first THEN [s EXCEPT !.message_stopped = TRUE]
  ELSE emit_terminal([s EXCEPT !.stop_reason = "none", !.pending_usage = NoUsage],
                     IF s.stop_reason = "none" THEN "end_turn" ELSE s.stop_reason,
                     s.pending_usage)

-----------------------------------------------------------------------------
(* anthropic_stream_response on top of sse_response *)

Init ==
  /\ st = NewState
  /\ heard = <<>>
  /\ pump = "open"

(* The source yields Ok(chunk).  What arrives once the message has stopped *)
(* is framed to nothing, and not recorded.                                 *)
Chunk(c) ==
  /\ pump = "open"
  /\ Len(heard) < MaxChunks
  /\ Turn(Append(heard, c))
  /\ st' = chunk_to_sse_events(st, c)
  /\ heard' = IF st.message_stopped THEN heard ELSE Append(heard, c)
  /\ UNCHANGED pump

(* The source yields Err and, by its contract, nothing after it.  The shell *)
(* pushes the error frame whatever came before.                            *)
Fail ==
  /\ pump = "open"
  /\ LateErrors \/ ~st.message_stopped
  /\ st' = Push([st EXCEPT !.message_stopped = TRUE], ErrorFrame)
  /\ pump' = "failed"
  /\ UNCHANGED heard

(* The source is exhausted: the chained finalizer runs once *)
End ==
  /\ pump # "closed"
  /\ st' = finalize_stream(st)
  /\ pump' = "closed"
  /\ UNCHANGED heard

Next == (\E c \in Chunks : Chunk(c)) \/ Fail \/ End

(* A source ends sooner or later: it is finite, or its idle timeout cuts it *)
Spec == Init /\ [][Next]_vars /\ WF_vars(End)

-----------------------------------------------------------------------------
(* What a client can observe *)

out == st.out

(* Block i has been started and not stopped again by the first k frames *)
OpenAfter(o, i, k) ==
  \E j \in 1 .. k :
    /\ o[j].ev = "content_block_start" /\ o[j].index = i
    /\ \A m \in j + 1 .. k : ~(o[m].ev = "content_block_stop" /\ o[m].index = i)

IsTerminal(f) == f.ev \in {"message_stop", "error"}

(* The state of the framer is well formed *)
StateSet ==
  [first : BOOLEAN, blocks : Seq(BOOLEAN),
   thinking_index : Nat \cup {NoIndex}, text_index : Nat \cup {NoIndex},
   tool_base_index : Nat \cup {NoIndex}, input_tokens : Nat,
   stop_reason : StopReasons \cup {"none"}, pending_usage : Usages,
   message_stopped : BOOLEAN, win : Windows, out : Seq(Frames)]

TypeOK ==
  /\ st \in StateSet
  /\ heard \in Seq(Chunks)
  /\ pump \in {"open", "failed", "closed"}

(* A stream that said anything ends with exactly one terminal, the last    *)
(* frame of the body, and has it when the body closes.                     *)
OneTerminal ==
  /\ \A k \in DOMAIN out : IsTerminal(out[k]) => k = Len(out)
  /\ pump = "closed" /\ out # <<>> => IsTerminal(out[Len(out)])
=============================================================================
