------------------------------ MODULE ChatWire ------------------------------
(***************************************************************************)
(* The data: payloads of the OpenAI chat-completions stream, as the framer *)
(* writes them and the deframer reads them.                                *)
(***************************************************************************)
EXTENDS Canonical

(* A usage object: our own framer reports the cache in the flat fields     *)
(* flat_read and flat_write, OpenAI in prompt_tokens_details (cached) and  *)
(* cache_creation_input_tokens (creation).                                 *)
Absent == [given |-> FALSE, prompt |-> 0, completion |-> 0,
           flat_read |-> 0, flat_write |-> 0, cached |-> 0, creation |-> 0]

(* ev is "chunk", "done" ([DONE]), "error", or "garbage" (not JSON).       *)
(* choices tells a payload with a choice from a choice-less one, role one  *)
(* whose delta carries a role; delta is the rest of the choice.            *)
Frame(ev, choices, role, delta, usage) ==
  [ev |-> ev, choices |-> choices, role |-> role, delta |-> delta, usage |-> usage]

RoleFrame == Frame("chunk", TRUE, TRUE, EmptyChunk, Absent)
DeltaFrame(c) == Frame("chunk", TRUE, FALSE, c, Absent)
UsageFrame(u) == Frame("chunk", FALSE, FALSE, EmptyChunk, u)
DoneFrame == Frame("done", FALSE, FALSE, EmptyChunk, Absent)
ErrorFrame == Frame("error", FALSE, FALSE, EmptyChunk, Absent)
=============================================================================
