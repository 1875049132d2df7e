---------------------------- MODULE ClientStream ----------------------------
(***************************************************************************)
(* One streaming request of the client (DialectClient::stream and          *)
(* resp_stream in client.rs): the request is refused or answered, the SSE  *)
(* events of the answer pass through the deframer of the dialect, and the  *)
(* canonical items it makes of them are what the caller gets.              *)
(***************************************************************************)
EXTENDS DeframeOut

CONSTANTS Dialects,    \* the dialects asked for
          Events,      \* Events[d]: the SSE events an upstream of dialect d may send
          MaxEvents    \* bound on the events of a body

ASSUME DialectsAssumption ==
  Dialects \subseteq {"Anthropic", "OpenAiChat", "OpenAiResponses"}

(* Every data: payload of a chat upstream is one of the four *)
ASSUME PayloadsAssumption ==
  "OpenAiChat" \in Dialects =>
    \A f \in Events["OpenAiChat"] : f.ev \in {"chunk", "done", "error", "garbage"}

(* A sequence number is an i64 *)
ASSUME NumbersAssumption ==
  "OpenAiResponses" \in Dialects => \A f \in Events["OpenAiResponses"] : f.seq \in Int

(* Words are text and counts natural numbers (only message_start is heard  *)
(* without one), the delta of a chat payload is the rest of a canonical    *)
(* chunk, and an output item has a position                                *)
ASSUME WordsAssumption ==
  /\ "Anthropic" \in Dialects =>
       \A f \in Events["Anthropic"] :
         /\ f.text \in Texts
         /\ f.usage.input \in Nat \cup {NoTokens}
         /\ f.usage.input = NoTokens => f.ev = "message_start"
  /\ "OpenAiChat" \in Dialects => \A f \in Events["OpenAiChat"] : f.delta \in CanonChunk
  /\ "OpenAiResponses" \in Dialects =>
       \A f \in Events["OpenAiResponses"] :
         f.text \in Texts /\ (f.ev = "output_item.added" => f.pos \in Nat \ {0})

VARIABLES dialect,  \* the dialect of the upstream
          state,    \* its deframer (DeframerState)
          body,     \* history: the events received
          items,    \* history: the items the caller has been given
          phase     \* "sending", "streaming", "ended"

vars == <<dialect, state, body, items, phase>>

Anthropic == INSTANCE AnthropicDeframer
Chat == INSTANCE ChatDeframer
Responses == INSTANCE ResponsesDeframer

NewState(d) ==
  CASE d = "Anthropic"       -> Anthropic!New
    [] d = "OpenAiChat"      -> Chat!New
    [] d = "OpenAiResponses" -> Responses!New

push(f) ==
  CASE dialect = "Anthropic"       -> Anthropic!push(state, f)
    [] dialect = "OpenAiChat"      -> Chat!push_data(state, f)
    [] dialect = "OpenAiResponses" -> Responses!push(state, f)

finalize(s) ==
  CASE dialect = "Anthropic"       -> Anthropic!finalize(s)
    [] dialect = "OpenAiChat"      -> Chat!finalize(s)
    [] dialect = "OpenAiResponses" -> Responses!finalize(s)

(* An item is a chunk or an error *)
Ok(chunk) == [kind |-> "chunk", chunk |-> chunk]
Err(kind) == [kind |-> kind, chunk |-> EmptyChunk]

Init ==
  /\ dialect \in Dialects
  /\ state = NewState(dialect)
  /\ body = <<>>
  /\ items = <<>>
  /\ phase = "sending"

(* The request cannot be rendered or sent, or is answered by an error *)
Refused ==
  /\ phase = "sending"
  /\ \E kind \in Errors : items' = <<Err(kind)>>
  /\ phase' = "ended"
  /\ UNCHANGED <<dialect, state, body>>

(* A status of 2xx *)
Answered ==
  /\ phase = "sending"
  /\ phase' = "streaming"
  /\ UNCHANGED <<dialect, state, body, items>>

(* Mutant: an error does not end the stream *)
Event_forgiving(f) ==
  /\ phase = "streaming"
  /\ Len(body) < MaxEvents
  /\ body' = Append(body, f)
  /\ LET r == push(f)
     IN  /\ state' = r.de
         /\ items' = CASE r.kind = "chunk"   -> Append(items, Ok(r.chunk))
                       [] r.kind = "nothing" -> items
                       [] r.kind \in Errors  -> Append(items, Err(r.kind))
         /\ phase' = IF r.kind = "nothing" /\ finalize(r.de) THEN "ended" ELSE phase
  /\ UNCHANGED dialect

(* The next SSE event.  An error is the last item; after an event that     *)
(* surfaces nothing the stream ends if the deframer is satisfied.          *)
Event(f) ==
  /\ phase = "streaming"
  /\ Len(body) < MaxEvents
  /\ body' = Append(body, f)
  /\ LET r == push(f)
     IN  /\ state' = r.de
         /\ items' = CASE r.kind = "chunk"   -> Append(items, Ok(r.chunk))
                       [] r.kind = "nothing" -> items
                       [] r.kind \in Errors  -> Append(items, Err(r.kind))
         /\ phase' = IF \/ r.kind \in Errors
                        \/ r.kind = "nothing" /\ finalize(r.de)
                     THEN "ended" ELSE phase
  /\ UNCHANGED dialect

(* The connection breaks *)
Broken ==
  /\ phase = "streaming"
  /\ items' = Append(items, Err("transport"))
  /\ phase' = "ended"
  /\ UNCHANGED <<dialect, state, body>>

(* Mutant: a body that just ends is taken for complete *)
Eof_trusting ==
  /\ phase = "streaming"
  /\ phase' = "ended"
  /\ UNCHANGED <<dialect, state, body, items>>

(* The body ends, and the deframer decides whether that was all of it *)
Eof ==
  /\ phase = "streaming"
  /\ items' = IF finalize(state) THEN items ELSE Append(items, Err("transport"))
  /\ phase' = "ended"
  /\ UNCHANGED <<dialect, state, body>>

Next ==
  \/ Refused
  \/ Answered
  \/ \E f \in Events[dialect] : Event(f)
  \/ Broken
  \/ Eof

Spec == Init /\ [][Next]_vars
=============================================================================
