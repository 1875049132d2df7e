--------------------------- MODULE ResponsesWire ----------------------------
(***************************************************************************)
(* The SSE events of the OpenAI Responses API, as the framer writes them   *)
(* and the deframer reads them.  pos is the output position of an item     *)
(* counted from 1: the wire's output_index is one less.                    *)
(***************************************************************************)
EXTENDS Canonical

NoPos == 0

(* An output item: text stands for the text of a message, the summary of a *)
(* reasoning item and the arguments of a call.  A call's id is 0 when the  *)
(* framer had to make one up.                                              *)
Item(type, id) ==
  [type |-> type, id |-> id, text |-> <<>>,
   status |-> IF type = "reasoning" THEN "none" ELSE "in_progress"]

Types == {"message", "reasoning", "function_call"}

(* type and id belong to output_item.added; output, usage, status and      *)
(* reason (the incomplete_details) to the response of the terminal frame   *)
(* (the status of other frames is read by nobody); seq is the sequence     *)
(* number.                                                                 *)
Frame(ev, pos, text) ==
  [ev |-> ev, pos |-> pos, text |-> text, type |-> "none", id |-> NoId,
   output |-> <<>>, usage |-> NoUsage, status |-> "none", reason |-> "none", seq |-> 0]

Added(pos, item) ==
  [Frame("output_item.added", pos, <<>>) EXCEPT !.type = item.type, !.id = item.id]

DeltaEvents == {"output_text.delta", "reasoning_summary_text.delta",
                "function_call_arguments.delta"}

(* The events that close a part or an item; they carry no new content *)
CloseEvents == {"output_text.done", "content_part.done", "reasoning_summary_part.done",
                "function_call_arguments.done", "output_item.done"}
=============================================================================
