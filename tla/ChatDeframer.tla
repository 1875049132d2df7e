---------------------------- MODULE ChatDeframer ----------------------------
(***************************************************************************)
(* OpenAI chat-completions payloads in, canonical chunks out               *)
(* (dialect/openai_chat/deframe.rs).                                       *)
(***************************************************************************)
EXTENDS ChatWire, DeframeOut

New == [done_seen |-> FALSE, error_after_done |-> FALSE]

usage_from(u) ==
  [given |-> TRUE, input |-> u.prompt, output |-> u.completion,
   cached_read |-> u.cached, cache_write |-> u.creation]

(* A payload without a choice carries usage or nothing, one with a role is *)
(* the preamble; any other surfaces unless it is empty.                    *)
chunk_from(d, f) ==
  LET usage == IF f.usage.given THEN usage_from(f.usage) ELSE NoUsage
      chunk == [f.delta EXCEPT !.usage = usage]
  IN  IF ~f.choices
      THEN SurfaceIf(f.usage.given, d, [EmptyChunk EXCEPT !.usage = usage])
      ELSE SurfaceIf(~f.role /\ HasPayload(chunk), d, chunk)

push_done(d) ==
  IF ~d.done_seen THEN Nothing([d EXCEPT !.done_seen = TRUE])
  ELSE IF d.error_after_done THEN Nothing(d)
  ELSE Transport(d)

push_data(d, f) ==
  CASE f.ev = "done"                     -> push_done(d)
    [] f.ev # "done" /\ d.done_seen      -> Transport(d)
    [] f.ev = "garbage" /\ ~d.done_seen  -> Transport(d)
    [] f.ev = "error" /\ ~d.done_seen    ->
         Upstream([d EXCEPT !.done_seen = TRUE, !.error_after_done = TRUE])
    [] f.ev = "chunk" /\ ~d.done_seen    -> chunk_from(d, f)

(* TRUE for Ok: a body that closes without [DONE] was truncated *)
finalize(d) == d.done_seen
=============================================================================
