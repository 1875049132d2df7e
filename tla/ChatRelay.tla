----------------------------- MODULE ChatRelay ------------------------------
(***************************************************************************)
(* The chat-completions surface and the client of this crate at the two    *)
(* ends of one connection: what the framer of one process writes is what   *)
(* the deframer of another reads, event by event and at its own pace, and  *)
(* the connection may break or end anywhere in between.                    *)
(***************************************************************************)
EXTENDS DeframeOut, SequencesExt

CONSTANTS Chunks,       \* the canonical chunks of the turn
          IncludeUsage, \* the client opted into the usage payload
          MaxChunks     \* bound on the chunks of the turn

ASSUME ChunksAssumption == Chunks \subseteq CanonChunk
ASSUME BoundsAssumption == MaxChunks \in Nat /\ IncludeUsage \in BOOLEAN

VARIABLES st, heard, pump,            \* the serving end
          dialect, state, body, items, phase  \* the reading end

server == <<st, heard, pump>>
client == <<dialect, state, body, items, phase>>

Server == INSTANCE OpenAiFramer

Client == INSTANCE ClientStream WITH
  Dialects <- {"OpenAiChat"}, Events <- [d \in {"OpenAiChat"} |-> {}],
  MaxEvents <- 2 * MaxChunks + 4

Init == Server!Init /\ Client!Init

Serve == Server!Next /\ UNCHANGED client

Connect == Client!Answered /\ UNCHANGED server

(* The next event of the body arrives *)
Deliver ==
  /\ Len(body) < Len(st.out)
  /\ Client!Event(st.out[Len(body) + 1])
  /\ UNCHANGED server

(* The connection breaks, or is closed, early or in time *)
Cut == (Client!Broken \/ Client!Eof) /\ UNCHANGED server

Next == Serve \/ Connect \/ Deliver \/ Cut

Spec == Init /\ [][Next]_<<server, client>> /\ WF_server(Server!End /\ UNCHANGED client)

-----------------------------------------------------------------------------
(* What a chunk becomes on its way: a chunk of its content, and its usage  *)
(* apart from it if the client opted in.  The counters of the cache do not *)
(* make it: usage_frame and usage_from name them differently.              *)
Relayed(c) ==
  LET content == [c EXCEPT !.usage = NoUsage, !.input_tokens = NoTokens]
      usage == [EmptyChunk EXCEPT !.usage = [c.usage EXCEPT !.cached_read = 0, !.cache_write = 0]]
  IN  (IF HasPayload(content) THEN <<content>> ELSE <<>>)
      \o (IF IncludeUsage /\ c.usage.given THEN <<usage>> ELSE <<>>)

Owed == FlattenSeq([k \in DOMAIN heard |-> Relayed(heard[k])])

Failed == items # <<>> /\ Last(items).kind \in Errors

Received == LET n == IF Failed THEN Len(items) - 1 ELSE Len(items)
            IN  [k \in 1 .. n |-> items[k].chunk]

(* The reading end gets what the serving end was given, each part once and *)
(* in order; it gets all of it, and the source of the serving end did end, *)
(* when its stream ends without an error; and what the serving end reports *)
(* in band arrives as an error of the upstream, never as a broken stream   *)
(* (frame_chunk, frame_error, finish; chunk_from, push_data).              *)
RelayHonest ==
  /\ IsPrefix(Received, Owed)
  /\ phase = "ended" /\ ~Failed => /\ Received = Owed
                                   /\ pump = "closed" /\ ~st.done_sent
  /\ \A k \in DOMAIN body : body[k].ev = "error" => Last(items).kind = "upstream"

Ended(ev) == \E k \in DOMAIN st.out : st.out[k].ev = ev

Turns == INSTANCE TurnStream WITH
  said <- CASE st.out = <<>> -> "nothing"
            [] Ended("error") -> "failed"
            [] Ended("done") /\ ~Ended("error") -> "complete"
            [] OTHER -> "speaking",
  body <- IF pump = "closed" THEN "closed" ELSE "open"

(* The payloads of the chat surface keep the promise every stream makes    *)
(* its client: [DONE] or an error, whatever the source did                 *)
(* (openai_stream_response, sse_response).                                 *)
ImplementsTurn == Turns!Spec
=============================================================================
