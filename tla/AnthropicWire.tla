--------------------------- MODULE AnthropicWire ----------------------------
(***************************************************************************)
(* The SSE frames of the Anthropic Messages API, as the framer writes them *)
(* and the deframer reads them.                                            *)
(***************************************************************************)
EXTENDS Canonical

(* input counts the fresh tokens only; message_start reports the prompt    *)
(* size in it.                                                             *)
WireUsages == [input : Nat, output : Nat, cached_read : Nat, cache_write : Nat]

(* Frames.  kind is the type of a block or of a delta, or the stop reason; *)
(* text the payload of a delta, or the stop sequence that fired.           *)

NoWireUsage == [input |-> 0, output |-> 0, cached_read |-> 0, cache_write |-> 0]

Frame(ev, index, kind, text, usage) ==
  [ev |-> ev, index |-> index, kind |-> kind, text |-> text, usage |-> usage]

MessageStart(tokens) ==
  Frame("message_start", 0, "none", <<>>, [NoWireUsage EXCEPT !.input = tokens])
BlockStart(i, kind) == Frame("content_block_start", i, kind, <<>>, NoWireUsage)
BlockDelta(i, kind, text) == Frame("content_block_delta", i, kind, text, NoWireUsage)
BlockStop(i) == Frame("content_block_stop", i, "none", <<>>, NoWireUsage)
MessageDelta(reason, matched, usage) == Frame("message_delta", 0, reason, matched, usage)
MessageStop == Frame("message_stop", 0, "none", <<>>, NoWireUsage)
ErrorFrame == Frame("error", 0, "none", <<>>, NoWireUsage)

BlockKinds == {"text", "thinking", "tool_use"}
DeltaKinds == {"text_delta", "thinking_delta", "signature_delta", "input_json_delta"}

Frames ==
  [ev : {"message_start", "content_block_start", "content_block_delta",
         "content_block_stop", "message_delta", "message_stop", "error"},
   index : Nat,
   kind : BlockKinds \cup DeltaKinds \cup StopReasons \cup {"none"},
   text : Texts, usage : WireUsages]
=============================================================================
