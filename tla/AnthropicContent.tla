-------------------------- MODULE AnthropicContent ---------------------------
(***************************************************************************)
(* What the Anthropic surface does to the content of a turn: the deltas a  *)
(* client receives against the chunks the upstream sent, and the surface   *)
(* as an implementation of TurnStream.                                     *)
(***************************************************************************)
EXTENDS AnthropicFramer, SequencesExt

(* All the text of one delta kind, in the order of the body *)
Shown(kind) ==
  FlattenSeq([k \in DOMAIN out |-> IF out[k].kind = kind THEN out[k].text ELSE <<>>])

HeardText == FlattenSeq([k \in DOMAIN heard |-> heard[k].delta_text])

HeardThinking ==
  FlattenSeq([k \in DOMAIN heard |->
    IF heard[k].thinking.kind = "thinking" THEN heard[k].thinking.text ELSE <<>>])

Withheld(channel) == IF st.win.kind = channel THEN st.win.tail ELSE <<>>

Completed == out # <<>> /\ out[Len(out)].ev = "message_stop"

(* The thinking, signature and text deltas of a chunk, and the one a frame *)
(* shows                                                                   *)
Delta(kind, text) == <<[kind |-> kind, text |-> text]>>

Content(c) ==
  (IF c.thinking.kind = "none" THEN <<>>
   ELSE Delta(IF c.thinking.kind = "signature" THEN "signature_delta" ELSE "thinking_delta",
              c.thinking.text))
  \o (IF c.delta_text = <<>> THEN <<>> ELSE Delta("text_delta", c.delta_text))

Displayed(f) ==
  IF f.kind \in {"text_delta", "thinking_delta", "signature_delta"}
  THEN Delta(f.kind, f.text) ELSE <<>>

-----------------------------------------------------------------------------
(* The places of the calls that a chunk names *)
NamedIn(c) == {n \in 1 .. Len(c.calls) : c.has_calls /\ c.calls[n].name}

(* An orderly turn: calls are named in ascending order of their indices,   *)
(* and once text, thinking or a signature has followed a chunk with calls  *)
(* no call is named.                                                       *)
Orderly(q) ==
  /\ \A k, l \in 1 .. Len(q) : \A m \in NamedIn(q[k]), n \in NamedIn(q[l]) :
       k < l \/ (k = l /\ m < n) => q[k].calls[m].index < q[l].calls[n].index
  /\ \A i, j, k \in 1 .. Len(q) :
       i < j /\ j <= k /\ q[i].has_calls /\ Content(q[j]) # <<>> => NamedIn(q[k]) = {}

Starting(k) == out[k].ev = "content_block_start"

(* One block after the other: each start has a higher index than those     *)
(* before it and finds all of their blocks stopped.                        *)
Sequential ==
  \A j, k \in DOMAIN out : j < k /\ Starting(j) /\ Starting(k) =>
    out[j].index < out[k].index /\ ~OpenAfter(out, out[j].index, k - 1)

(* The body is one message.  A delta and a stop name a block that was      *)
(* started and not stopped since; a start finds no block below its own     *)
(* open; message_start comes first and once; one message_delta with the    *)
(* message_stop right after it ends the message when nothing is open.  In  *)
(* an orderly turn the blocks are sequential ("SSE blocks are sequential", *)
(* stream.rs:225).  In other turns the code does not keep that word:       *)
(* open_block stops the blocks below the new one and no other, so that a   *)
(* call named again starts its block again while it is open, and a call    *)
(* below one already named starts while the other's block is open.         *)
BlocksBracketed ==
  /\ \A k \in DOMAIN out :
       /\ out[k].ev \in {"content_block_delta", "content_block_stop"} =>
            OpenAfter(out, out[k].index, k - 1)
       /\ Starting(k) => \A i \in 0 .. out[k].index - 1 : ~OpenAfter(out, i, k - 1)
       /\ out[k].ev = "message_start" <=> k = 1 /\ out[1].ev # "error"
       /\ out[k].ev = "message_delta" => k + 1 \in DOMAIN out /\ out[k + 1].ev = "message_stop"
       /\ out[k].ev = "message_stop" =>
            /\ k > 1 /\ out[k - 1].ev = "message_delta"
            /\ \A i \in 0 .. Len(st.blocks) - 1 : ~OpenAfter(out, i, k)
  /\ Orderly(heard) => Sequential

-----------------------------------------------------------------------------
(* Stop sequences never cost the client text it is owed: on each channel   *)
(* the client sees a prefix of what the upstream said; until a sequence    *)
(* fires only the withheld tail is missing, and a completed turn in which  *)
(* none fired was shown whole (filtered, flush_stop_tail and the closing   *)
(* of blocks by other channels).                                           *)
TextSurvives ==
  /\ IsPrefix(Shown("text_delta"), HeardText)
  /\ IsPrefix(Shown("thinking_delta"), HeardThinking)
  /\ st.win.matched = <<>> =>
       /\ Shown("text_delta") \o Withheld("text") = HeardText
       /\ Shown("thinking_delta") \o Withheld("thinking") = HeardThinking
       /\ Completed => st.win.tail = <<>>

(* Without stop sequences the client receives every thinking, signature    *)
(* and text delta, unaltered, once and in the upstream's order, however    *)
(* the channels alternate.                                                 *)
OrderKept ==
  ~HasWindow =>
    FlattenSeq([k \in DOMAIN out |-> Displayed(out[k])])
      = FlattenSeq([k \in DOMAIN heard |-> Content(heard[k])])

(* The tool calls of the turn as one sequence of deltas *)
HeardCalls ==
  FlattenSeq([k \in DOMAIN heard |-> IF heard[k].has_calls THEN heard[k].calls ELSE <<>>])

Positions(q, Test(_)) ==
  FlattenSeq([k \in DOMAIN q |-> IF Test(q[k]) THEN <<k>> ELSE <<>>])

(* Frame j is the last to have started block i among the first k *)
Starts(j, i, k) ==
  /\ out[j].ev = "content_block_start" /\ out[j].index = i
  /\ \A m \in j + 1 .. k : ~(out[m].ev = "content_block_start" /\ out[m].index = i)

(* The arguments streamed into the block that frame j started *)
ArgsOfBlock(j) ==
  FlattenSeq([k \in DOMAIN out |->
    IF k > j /\ out[k].kind = "input_json_delta" /\ Starts(j, out[k].index, k)
    THEN out[k].text ELSE <<>>])

(* What the upstream said for call n from its naming on *)
ArgsOfCall(n) ==
  LET i == HeardCalls[n].index
  IN  FlattenSeq([m \in DOMAIN HeardCalls |->
        IF /\ m >= n /\ HeardCalls[m].index = i
           /\ \A l \in n + 1 .. m : ~(HeardCalls[l].name /\ HeardCalls[l].index = i)
        THEN HeardCalls[m].args ELSE <<>>])

(* A client never assembles arguments with a hole in them: the JSON        *)
(* streamed into a tool block is a prefix of what the upstream sent for    *)
(* the call that opened it, although arguments that come too late for      *)
(* their block are dropped (the tool loop).                                *)
ArgsWithoutHoles ==
  LET starts == Positions(out, LAMBDA f : f.kind = "tool_use" /\ f.ev = "content_block_start")
      names == Positions(HeardCalls, LAMBDA tc : tc.name)
  IN  /\ Len(starts) = Len(names)
      /\ \A n \in DOMAIN starts :
           IsPrefix(ArgsOfBlock(starts[n]), ArgsOfCall(names[n]))

(* No block index is started twice in one stream (anthropic/stream.rs:275: *)
(* "Never reuse an index in one stream"; ARCHITECTURE.md:157: "Content     *)
(* blocks reopen at fresh indices").                                       *)
FreshIndices ==
  \A j, k \in DOMAIN out :
    /\ out[j].ev = "content_block_start" /\ out[k].ev = "content_block_start"
    /\ out[j].index = out[k].index
    => j = k

(* The counters of the upstream's last usage report reach the terminal     *)
(* frame, split the Anthropic way (fresh input apart from the cached),     *)
(* whichever of trailer, finish chunk, early ping and finalizer carries    *)
(* them there.  A report of no input leaves the prompt count of the        *)
(* preamble in its place (wire_input); a report on a chunk with content    *)
(* and no finish is dropped by the code and not covered.                   *)
Reports == {k \in DOMAIN heard : heard[k].usage.given}

LastReport == heard[CHOOSE k \in Reports : \A j \in Reports : j <= k]

Billed(w, u) ==
  /\ w.output = u.output /\ w.cached_read = u.cached_read /\ w.cache_write = u.cache_write
  /\ u.input > 0 /\ u.input >= u.cached_read + u.cache_write =>
       w.input + w.cached_read + w.cache_write = u.input

UsageSurvives ==
  Completed /\ Reports # {} /\ (LastReport.finish # "none" \/ is_trailer(LastReport))
    => Billed(out[Len(out) - 1].usage, LastReport.usage)

(* What fired does not come back: the verdict of a turn in which a stop    *)
(* sequence fired is stop_sequence, naming it, and text shown before it    *)
(* stays as it was (feed's early return, emit_terminal).                   *)
FiringIsFinal ==
  /\ [][st.win.matched # <<>> =>
          /\ st'.win.matched = st.win.matched
          /\ \A k \in Len(st.out) + 1 .. Len(st'.out) :
               st'.out[k].kind \notin {"text_delta", "thinking_delta"}]_vars
  /\ [](Completed /\ st.win.matched # <<>> =>
          /\ out[Len(out) - 1].kind = "stop_sequence"
          /\ out[Len(out) - 1].text = st.win.matched)

-----------------------------------------------------------------------------
(* The surface implements TurnStream *)
Turns == INSTANCE TurnStream WITH
  said <- CASE out = <<>>                         -> "nothing"
            [] out # <<>> /\ out[Len(out)].ev = "error" -> "failed"
            [] Completed                          -> "complete"
            [] OTHER                              -> "speaking",
  body <- IF pump = "closed" THEN "closed" ELSE "open"

(* The frames of the Anthropic surface keep the promise every stream makes *)
(* its client: one terminal, nothing after it, and a body that closes      *)
(* (anthropic_stream_response, sse_response).                              *)
ImplementsTurn == Turns!Spec
=============================================================================
