---------------------------- MODULE OpenAiFramer ----------------------------
(***************************************************************************)
(* The OpenAI chat-completions surface: canonical chunks in, data: payloads *)
(* out (dialect/openai_chat/stream.rs, CanonChunk::to_sse_json), pumped by  *)
(* the shared SSE driver.  The field out is the response body so far.      *)
(***************************************************************************)
EXTENDS ChatWire

CONSTANTS Chunks,       \* the canonical chunks the upstream may send
          IncludeUsage, \* the client opted into the usage payload
          MaxChunks     \* bound on the chunks of a turn

VARIABLES st,     \* OpenAiFramer and the body so far
          heard,  \* history: the chunks the source has yielded
          pump    \* the SSE driver: "open", "failed" (an Err passed), "closed"

vars == <<st, heard, pump>>

New == [first_pending |-> TRUE, done_sent |-> FALSE, out |-> <<>>]

(* to_sse_json: a chunk without content, calls, finish or thinking has no  *)
(* frame of its own, and usage is left to usage_frame.                     *)
delta_frame(c) ==
  IF c.delta_text = <<>> /\ ~c.has_calls /\ c.finish = "none" /\ c.thinking.kind = "none"
  THEN <<>>
  ELSE <<DeltaFrame([c EXCEPT !.usage = NoUsage, !.input_tokens = NoTokens])>>

usage_frame(c) ==
  IF ~c.usage.given THEN <<>>
  ELSE <<UsageFrame([Absent EXCEPT
           !.given = TRUE, !.prompt = c.usage.input, !.completion = c.usage.output,
           !.flat_read = c.usage.cached_read, !.flat_write = c.usage.cache_write])>>

frame_chunk(s, c) ==
  [s EXCEPT
     !.first_pending = FALSE,
     !.out = @ \o (IF s.first_pending THEN <<RoleFrame>> ELSE <<>>)
               \o delta_frame(c)
               \o (IF IncludeUsage THEN usage_frame(c) ELSE <<>>)]

(* The error frame carries its own [DONE] *)
frame_error(s) ==
  [s EXCEPT !.done_sent = TRUE, !.out = @ \o <<ErrorFrame, DoneFrame>>]

(* Mutant: [DONE] is left to the upstream *)
finish_silent(s) == s

finish(s) == IF s.done_sent THEN s ELSE [s EXCEPT !.out = Append(@, DoneFrame)]

-----------------------------------------------------------------------------
(* openai_stream_response on top of sse_response *)

Init ==
  /\ st = New
  /\ heard = <<>>
  /\ pump = "open"

(* The source yields Ok(chunk) *)
Chunk(c) ==
  /\ pump = "open"
  /\ Len(heard) < MaxChunks
  /\ st' = frame_chunk(st, c)
  /\ heard' = Append(heard, c)
  /\ UNCHANGED pump

(* The source yields Err and, by its contract, nothing after it *)
Fail ==
  /\ pump = "open"
  /\ st' = frame_error(st)
  /\ pump' = "failed"
  /\ UNCHANGED heard

(* The source is exhausted: the chained finalizer runs once *)
End ==
  /\ pump # "closed"
  /\ st' = finish(st)
  /\ pump' = "closed"
  /\ UNCHANGED heard

Next == (\E c \in Chunks : Chunk(c)) \/ Fail \/ End

(* A source ends sooner or later: it is finite, or its idle timeout cuts it *)
Spec == Init /\ [][Next]_vars /\ WF_vars(End)
=============================================================================
