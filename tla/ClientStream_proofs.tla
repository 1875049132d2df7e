-------------------------- MODULE ClientStream_proofs --------------------------
(***************************************************************************)
(* Why the caller of DialectClient::stream can trust the way its stream    *)
(* ends, for every upstream, well behaved or not, and every bound.         *)
(***************************************************************************)
EXTENDS ClientContent, StopWindowLemmas

AllDialects == {"Anthropic", "OpenAiChat", "OpenAiResponses"}

-----------------------------------------------------------------------------
(* The deframers *)
AnthropicState(s) ==
  /\ {"blocks", "started", "pending", "done"} \subseteq DOMAIN s
  /\ s.started \in BOOLEAN /\ s.done \in BOOLEAN

LEMMA AnthropicNew ==
  AnthropicState(Anthropic!New) /\ ~Anthropic!New.started /\ ~Anthropic!New.done
BY DEF AnthropicState, Anthropic!New

(* A frame that surfaces a chunk does not end the message, and only        *)
(* message_start begins it                                                 *)
LEMMA AnthropicPush ==
  ASSUME NEW s, AnthropicState(s), ~s.done, NEW f, NEW r, r = Anthropic!push(s, f)
  PROVE  \/ r.kind \in Errors
         \/ /\ r.kind = "chunk" /\ AnthropicState(r.de)
            /\ f.ev # "message_stop" /\ ~r.de.done
            /\ r.de.started <=> s.started \/ f.ev = "message_start"
         \/ /\ r.kind = "nothing" /\ AnthropicState(r.de)
            /\ r.de.started <=> s.started \/ f.ev = "message_start"
            /\ r.de.done <=> f.ev = "message_stop"
<1> USE DEF Anthropic!Surface, Anthropic!Nothing, Anthropic!Transport, Anthropic!Upstream,
            Anthropic!Out, Errors
<1>1. CASE f.ev = "garbage"
  BY <1>1 DEF Anthropic!push
<1>2. CASE f.ev = "message_start"
  <2>1. r = Anthropic!message_start(s, f)
    BY <1>2 DEF Anthropic!push
  <2>2. CASE s.started
    BY <2>1, <2>2 DEF Anthropic!message_start
  <2>3. CASE ~s.started
    <3>1. r.kind \in {"chunk", "nothing"} /\ r.de = [s EXCEPT !.started = TRUE]
      BY <2>1, <2>3 DEF Anthropic!message_start, Anthropic!SurfaceIf
    <3> QED
      BY <1>2, <3>1 DEF AnthropicState
  <2> QED
    BY <2>2, <2>3
<1>3. CASE f.ev = "content_block_start"
  <2>1. PICK blocks : r.kind = "nothing" /\ r.de = [s EXCEPT !.blocks = blocks]
    BY <1>3 DEF Anthropic!push, Anthropic!content_block_start
  <2> QED
    BY <1>3, <2>1 DEF AnthropicState
<1>4. CASE f.ev = "content_block_delta"
  <2>1. r = Anthropic!content_block_delta(s, f)
    BY <1>4 DEF Anthropic!push
  <2>2. r.kind \in Errors \/ (r.kind \in {"chunk", "nothing"} /\ r.de = s)
    BY <2>1 DEF Anthropic!content_block_delta, Anthropic!SurfaceIf
  <2> QED
    BY <1>4, <2>2
<1>5. CASE f.ev = "content_block_stop"
  <2>1. r = Anthropic!content_block_stop(s, f)
    BY <1>5 DEF Anthropic!push
  <2>2. \/ r.kind \in Errors
        \/ r.kind = "nothing" /\ r.de = [s EXCEPT !.blocks = s.blocks \ {f.index}]
    BY <2>1 DEF Anthropic!content_block_stop
  <2> QED
    BY <1>5, <2>2 DEF AnthropicState
<1>6. CASE f.ev = "message_delta"
  <2>1. r = Anthropic!message_delta(s, f)
    BY <1>6 DEF Anthropic!push
  <2>2. r.kind \in Errors \/ (r.kind = "chunk" /\ r.de = [s EXCEPT !.pending = TRUE])
    BY <2>1 DEF Anthropic!message_delta
  <2> QED
    BY <1>6, <2>2 DEF AnthropicState
<1>7. CASE f.ev = "message_stop"
  <2>1. r.kind = "nothing" /\ r.de = [s EXCEPT !.done = TRUE]
    BY <1>7 DEF Anthropic!push
  <2> QED
    BY <1>7, <2>1 DEF AnthropicState
<1>8. CASE f.ev = "error"
  BY <1>8 DEF Anthropic!push
<1>9. CASE f.ev \notin {"garbage", "message_start", "content_block_start", "content_block_delta",
                        "content_block_stop", "message_delta", "message_stop", "error"}
  <2>1. r = Anthropic!Nothing(s)
    BY <1>9 DEF Anthropic!push
  <2> QED
    BY <1>9, <2>1
<1> QED
  BY <1>1, <1>2, <1>3, <1>4, <1>5, <1>6, <1>7, <1>8, <1>9

ChatState(s) == "done_seen" \in DOMAIN s /\ s.done_seen \in BOOLEAN

LEMMA ChatNew == ChatState(Chat!New) /\ ~Chat!New.done_seen
BY DEF ChatState, Chat!New

(* Nothing but [DONE] and an error ends a chat body *)
LEMMA ChatPush ==
  ASSUME NEW s, ChatState(s), ~s.done_seen,
         NEW f, f.ev \in {"chunk", "done", "error", "garbage"},
         NEW r, r = Chat!push_data(s, f)
  PROVE  \/ r.kind \in Errors
         \/ r.kind = "nothing" /\ ChatState(r.de) /\ f.ev = "done" /\ r.de.done_seen
         \/ /\ r.kind \in {"chunk", "nothing"} /\ ChatState(r.de)
            /\ f.ev # "done" /\ ~r.de.done_seen
<1> USE DEF Chat!Surface, Chat!Nothing, Chat!Transport, Chat!Upstream, Chat!Out, Errors
<1>1. CASE f.ev = "done"
  <2>1. r.kind = "nothing" /\ r.de = [s EXCEPT !.done_seen = TRUE]
    BY <1>1 DEF Chat!push_data, Chat!push_done
  <2> QED
    BY <1>1, <2>1 DEF ChatState
<1>2. CASE f.ev = "garbage"
  BY <1>2 DEF Chat!push_data
<1>3. CASE f.ev = "error"
  BY <1>3 DEF Chat!push_data
<1>4. CASE f.ev = "chunk"
  <2>1. r = Chat!chunk_from(s, f)
    BY <1>4 DEF Chat!push_data
  <2>2. r.kind \in {"chunk", "nothing"} /\ r.de = s
    BY <2>1 DEF Chat!chunk_from, Chat!SurfaceIf
  <2> QED
    BY <1>4, <2>2
<1> QED
  BY <1>1, <1>2, <1>3, <1>4

ResponsesState(s) ==
  /\ {"items", "last_seq", "terminal_seen"} \subseteq DOMAIN s
  /\ s.terminal_seen \in BOOLEAN

LEMMA ResponsesNew == ResponsesState(Responses!New) /\ ~Responses!New.terminal_seen
BY DEF ResponsesState, Responses!New

LEMMA AccumulateKeeps ==
  ASSUME NEW s, ResponsesState(s), NEW f, NEW type, NEW d, d = Responses!Accumulate(s, f, type)
  PROVE  ResponsesState(d) /\ d.terminal_seen = s.terminal_seen
<1>1. PICK its : d = s \/ d = [s EXCEPT !.items = its]
  BY DEF Responses!Accumulate
<1> QED
  BY <1>1 DEF ResponsesState

(* The terminal surfaces a chunk, and nothing is taken after it *)
LEMMA ResponsesPush ==
  ASSUME NEW s, ResponsesState(s), NEW f, NEW r, r = Responses!push(s, f)
  PROVE  \/ r.kind \in Errors
         \/ /\ ~s.terminal_seen /\ ResponsesState(r.de)
            /\ r.kind \in {"chunk", "nothing"}
            /\ f.ev \in {"completed", "incomplete"} <=> r.de.terminal_seen
            /\ r.kind = "nothing" => ~r.de.terminal_seen
<1> USE DEF Responses!Surface, Responses!Nothing, Responses!Transport, Responses!Upstream,
            Responses!Out, Errors
<1>1. CASE r = Responses!Transport(s)
  BY <1>1
<1>2. CASE ~(r = Responses!Transport(s))
  <2>1. ~s.terminal_seen
    BY <1>2 DEF Responses!push
  <2>2. PICK n : r = Responses!dispatch([s EXCEPT !.last_seq = n], f)
    BY <1>2 DEF Responses!push
  <2>3. PICK d : d = [s EXCEPT !.last_seq = n]
    OBVIOUS
  <2>4. ResponsesState(d) /\ ~d.terminal_seen
    BY <2>1, <2>3 DEF ResponsesState
  <2>5. r = Responses!dispatch(d, f)
    BY <2>2, <2>3
  <2>6. CASE f.ev = "output_item.added"
    <3>1. r = Responses!output_item_added(d, f)
      BY <2>5, <2>6 DEF Responses!dispatch
    <3>2. PICK its : r.kind = "nothing" /\ (r.de = d \/ r.de = [d EXCEPT !.items = its])
      BY <3>1 DEF Responses!output_item_added
    <3> QED
      BY <2>1, <2>4, <2>6, <3>2 DEF ResponsesState
  <2>7. CASE f.ev = "output_text.delta"
    <3>1. r = Responses!output_text_delta(d, f)
      BY <2>5, <2>7 DEF Responses!dispatch
    <3>2. r.kind \in {"chunk", "nothing"} /\ r.de = Responses!Accumulate(d, f, "message")
      BY <3>1 DEF Responses!output_text_delta, Responses!SurfaceIf
    <3>3. ResponsesState(r.de) /\ ~r.de.terminal_seen
      BY <2>4, <3>2, AccumulateKeeps
    <3> QED
      BY <2>1, <2>7, <3>2, <3>3
  <2>8. CASE f.ev \in {"reasoning_summary_text.delta", "function_call_arguments.delta"}
    <3>1. PICK type : r.kind = "nothing" /\ r.de = Responses!Accumulate(d, f, type)
      BY <2>5, <2>8 DEF Responses!dispatch
    <3>2. ResponsesState(r.de) /\ ~r.de.terminal_seen
      BY <2>4, <3>1, AccumulateKeeps
    <3> QED
      BY <2>1, <2>8, <3>1, <3>2
  <2>9. CASE f.ev \in {"completed", "incomplete"}
    <3>1. r.kind = "chunk" /\ r.de = [d EXCEPT !.terminal_seen = TRUE]
      BY <2>5, <2>9 DEF Responses!dispatch
    <3> QED
      BY <2>1, <2>4, <2>9, <3>1 DEF ResponsesState
  <2>10. CASE f.ev = "failed"
    BY <2>5, <2>10 DEF Responses!dispatch
  <2>11. CASE f.ev \notin {"output_item.added", "output_text.delta", "reasoning_summary_text.delta",
                           "function_call_arguments.delta", "completed", "incomplete", "failed"}
    <3>1. r.kind = "nothing" /\ r.de = d
      BY <2>5, <2>11 DEF Responses!dispatch
    <3> QED
      BY <2>1, <2>4, <2>11, <3>1
  <2> QED
    BY <2>6, <2>7, <2>8, <2>9, <2>10, <2>11
<1> QED
  BY <1>1, <1>2

-----------------------------------------------------------------------------
(* Sequences, whatever they hold *)
IsSeq(q) == \E S : q \in Seq(S)

(* p is q and one thing more, e *)
OneMore(p, q, e) ==
  /\ IsSeq(p) /\ p # <<>>
  /\ Len(q) \in Nat /\ DOMAIN q = 1 .. Len(q)
  /\ Len(p) = Len(q) + 1 /\ DOMAIN p = 1 .. Len(p)
  /\ p[Len(p)] = e
  /\ \A k \in 1 .. Len(q) : p[k] = q[k]

LEMMA AppendFacts ==
  ASSUME NEW q, IsSeq(q), NEW e, NEW p, p = Append(q, e)
  PROVE  OneMore(p, q, e)
<1>1. PICK S : q \in Seq(S)
  BY DEF IsSeq
<1>2. q \in Seq(S \cup {e})
  BY <1>1, SeqMonotonic
<1>3. /\ p \in Seq(S \cup {e}) /\ p # <<>>
      /\ Len(p) = Len(q) + 1 /\ p[Len(q) + 1] = e
      /\ \A k \in 1 .. Len(q) : p[k] = q[k]
  BY <1>2, AppendProperties
<1>4. /\ Len(q) \in Nat /\ DOMAIN q = 1 .. Len(q)
      /\ Len(p) \in Nat /\ DOMAIN p = 1 .. Len(p)
  BY <1>2, <1>3
<1> QED
  BY <1>3, <1>4 DEF IsSeq, OneMore

LEMMA EmptyFacts == IsSeq(<<>>) /\ DOMAIN <<>> = {}
<1>1. <<>> \in Seq({})
  BY EmptySeq
<1> QED
  BY <1>1 DEF IsSeq

-----------------------------------------------------------------------------
(* The stream *)
Quiet(q) == \A k \in DOMAIN q : q[k].ev \notin Terminals

Whole(q) ==
  /\ q # <<>> /\ q[Len(q)].ev \in Terminals
  /\ \A k \in DOMAIN q : q[k].ev \in Terminals => k = Len(q)

Started == \E k \in DOMAIN body : body[k].ev = "message_start"

(* The deframer of a stream that goes on: an Anthropic one is not done,    *)
(* and has started if the body has, a chat one has not seen [DONE], and a  *)
(* Responses one may have seen the terminal, as the last event             *)
Open ==
  /\ dialect = "Anthropic" =>
       /\ AnthropicState(state) /\ ~state.done /\ Quiet(body)
       /\ state.started <=> Started
  /\ dialect = "OpenAiChat" => ChatState(state) /\ ~state.done_seen /\ Quiet(body)
  /\ dialect = "OpenAiResponses" =>
       /\ ResponsesState(state)
       /\ IF state.terminal_seen THEN Whole(body) ELSE Quiet(body)

IInv ==
  /\ dialect \in Dialects
  /\ phase \in {"sending", "streaming", "ended"}
  /\ IsSeq(body) /\ IsSeq(items)
  /\ \A k \in DOMAIN items : items[k].kind \in Errors => k = Len(items) /\ phase = "ended"
  /\ phase = "sending" => body = <<>> /\ items = <<>>
  /\ phase # "ended" => Open
  /\ phase = "ended" /\ ~Failed /\ Begun => Whole(body)

LEMMA InitIInv == Init => IInv
<1> SUFFICES ASSUME Init PROVE IInv
  OBVIOUS
<1>1. dialect \in AllDialects /\ state = NewState(dialect) /\ body = <<>> /\ items = <<>>
  BY DialectsAssumption DEF Init, AllDialects
<1>2. Quiet(body) /\ ~Started
  BY <1>1, EmptyFacts DEF Quiet, Started
<1>3. Open
  BY <1>1, <1>2, AnthropicNew, ChatNew, ResponsesNew DEF NewState, Open, AllDialects
<1> QED
  BY <1>1, <1>3, EmptyFacts DEF Init, IInv

(* An item that is given before the stream ends is no error *)
Clean == \A k \in DOMAIN items : items[k].kind \notin Errors

LEMMA CleanBefore == IInv /\ phase # "ended" => Clean
BY DEF IInv, Clean

LEMMA GiveError ==
  ASSUME IInv, phase # "ended", NEW kind \in Errors,
         items' = Append(items, Err(kind)), phase' = "ended"
  PROVE  /\ IsSeq(items') /\ Failed'
         /\ \A k \in DOMAIN items' : items'[k].kind \in Errors => k = Len(items')
<1>1. /\ IsSeq(items') /\ items' # <<>>
      /\ Len(items) \in Nat /\ DOMAIN items = 1 .. Len(items)
      /\ Len(items') = Len(items) + 1 /\ DOMAIN items' = 1 .. Len(items')
      /\ items'[Len(items')] = Err(kind)
      /\ \A k \in 1 .. Len(items) : items'[k] = items[k]
  <2>1. IsSeq(items)
    BY DEF IInv
  <2>2. PICK e : e = Err(kind)
    OBVIOUS
  <2>3. items' = Append(items, e)
    BY <2>2
  <2>4. OneMore(items', items, e)
    BY <2>1, <2>3, AppendFacts
  <2> QED
    BY <2>2, <2>4 DEF OneMore
<1>2. Clean
  BY CleanBefore
<1>3. Err(kind).kind = kind
  BY DEF Err
<1> QED
  BY <1>1, <1>2, <1>3 DEF Failed, Last, Clean

LEMMA GiveChunk ==
  ASSUME IInv, phase # "ended", NEW c, items' = Append(items, Ok(c))
  PROVE  IsSeq(items') /\ Clean'
<1>1. /\ IsSeq(items')
      /\ Len(items) \in Nat /\ DOMAIN items = 1 .. Len(items)
      /\ Len(items') = Len(items) + 1 /\ DOMAIN items' = 1 .. Len(items')
      /\ items'[Len(items')] = Ok(c)
      /\ \A k \in 1 .. Len(items) : items'[k] = items[k]
  <2>1. IsSeq(items)
    BY DEF IInv
  <2>2. PICK e : e = Ok(c)
    OBVIOUS
  <2>3. items' = Append(items, e)
    BY <2>2
  <2>4. OneMore(items', items, e)
    BY <2>1, <2>3, AppendFacts
  <2> QED
    BY <2>2, <2>4 DEF OneMore
<1>2. Clean
  BY CleanBefore
<1>3. Ok(c).kind = "chunk"
  BY DEF Ok
<1> QED
  BY <1>1, <1>2, <1>3 DEF Clean, Errors

LEMMA RefusedIInv ==
  ASSUME IInv, Refused
  PROVE  IInv'
<1>1. PICK kind \in Errors : items' = <<Err(kind)>>
  BY DEF Refused
<1>2. items' = Append(<<>>, Err(kind))
  BY <1>1
<1>3. /\ IsSeq(items') /\ items' # <<>> /\ Len(items') = 1 /\ DOMAIN items' = {1}
      /\ items'[1] = Err(kind)
  <2>1. PICK q : q = <<>>
    OBVIOUS
  <2>2. IsSeq(q) /\ DOMAIN q = {}
    BY <2>1, EmptyFacts
  <2>3. PICK e : e = Err(kind)
    OBVIOUS
  <2>4. items' = Append(q, e)
    BY <1>2, <2>1, <2>3
  <2>5. OneMore(items', q, e)
    BY <2>2, <2>4, AppendFacts
  <2>6. Len(q) = 0
    BY <2>2, <2>5 DEF OneMore
  <2> QED
    BY <2>3, <2>5, <2>6 DEF OneMore
<1>4. Failed'
  BY <1>3 DEF Failed, Last, Err
<1> QED
  BY <1>3, <1>4 DEF Refused, IInv

LEMMA AnsweredIInv ==
  ASSUME IInv, Answered
  PROVE  IInv'
<1>1. /\ phase = "sending" /\ phase' = "streaming"
      /\ UNCHANGED <<dialect, state, body, items>>
  BY DEF Answered
<1>2. Open'
  BY <1>1 DEF IInv, Open, Quiet, Whole, Started, Terminals
<1>3. Clean
  BY <1>1, CleanBefore
<1> QED
  BY <1>1, <1>2, <1>3 DEF IInv, Clean

LEMMA BrokenIInv ==
  ASSUME IInv, Broken
  PROVE  IInv'
<1>1. /\ phase = "streaming" /\ phase' = "ended"
      /\ items' = Append(items, Err("transport"))
      /\ UNCHANGED <<dialect, state, body>>
  BY DEF Broken
<1>2. /\ IsSeq(items') /\ Failed'
      /\ \A k \in DOMAIN items' : items'[k].kind \in Errors => k = Len(items')
  BY <1>1, GiveError DEF Errors
<1> QED
  BY <1>1, <1>2 DEF IInv

(* The body ends: an Anthropic one has not begun or is refused, a chat one *)
(* is refused, a Responses one is whole or refused                         *)
LEMMA EofIInv ==
  ASSUME IInv, Eof
  PROVE  IInv'
<1>1. /\ phase = "streaming" /\ phase' = "ended"
      /\ items' = IF finalize(state) THEN items ELSE Append(items, Err("transport"))
      /\ UNCHANGED <<dialect, state, body>>
  BY DEF Eof
<1>2. CASE ~finalize(state)
  <2>1. /\ IsSeq(items') /\ Failed'
        /\ \A k \in DOMAIN items' : items'[k].kind \in Errors => k = Len(items')
    BY <1>1, <1>2, GiveError DEF Errors
  <2> QED
    BY <1>1, <2>1 DEF IInv
<1>3. CASE finalize(state)
  <2>1. Open /\ dialect \in AllDialects /\ Clean
    BY <1>1, DialectsAssumption, CleanBefore DEF IInv, AllDialects
  <2>2. Begun => Whole(body)
    <3>1. CASE dialect = "Anthropic"
      BY <1>3, <2>1, <3>1 DEF finalize, Anthropic!finalize, Open, Begun, Started
    <3>2. CASE dialect = "OpenAiChat"
      BY <1>3, <2>1, <3>2 DEF finalize, Chat!finalize, Open
    <3>3. CASE dialect = "OpenAiResponses"
      BY <1>3, <2>1, <3>3 DEF finalize, Responses!finalize, Open
    <3> QED
      BY <2>1, <3>1, <3>2, <3>3 DEF AllDialects
  <2>3. (Begun => Whole(body))'
    BY <1>1, <2>2 DEF Begun, Whole, Terminals
  <2> QED
    BY <1>1, <1>3, <2>1, <2>3 DEF IInv, Clean
<1> QED
  BY <1>2, <1>3

(* What one more event makes of the body *)
LEMMA BodyGrows ==
  ASSUME NEW f, OneMore(body', body, f), dialect' = dialect
  PROVE  /\ Quiet(body) /\ f.ev \notin Terminals => Quiet(body)'
         /\ Quiet(body) /\ f.ev \in Terminals => Whole(body)'
         /\ Started' <=> Started \/ f.ev = "message_start"
<1>1. Terminals' = Terminals
  BY DEF Terminals
<1>2. /\ body' # <<>>
      /\ Len(body) \in Nat /\ DOMAIN body = 1 .. Len(body)
      /\ Len(body') = Len(body) + 1 /\ DOMAIN body' = 1 .. Len(body')
      /\ body'[Len(body')] = f
      /\ \A k \in 1 .. Len(body) : body'[k] = body[k]
  BY DEF OneMore
<1>3. \A k \in DOMAIN body' : k = Len(body') \/ (k \in DOMAIN body /\ body'[k] = body[k])
  BY <1>2
<1>4. Quiet(body) /\ f.ev \notin Terminals => Quiet(body)'
  BY <1>1, <1>2, <1>3 DEF Quiet
<1>5. Quiet(body) /\ f.ev \in Terminals => Whole(body)'
  BY <1>1, <1>2, <1>3 DEF Quiet, Whole
<1>6. Started' => Started \/ f.ev = "message_start"
  BY <1>2, <1>3 DEF Started
<1>7. f.ev = "message_start" => Started'
  BY <1>2 DEF Started
<1>8. Started => Started'
  <2>1. \A k \in DOMAIN body : k \in DOMAIN body' /\ body'[k] = body[k]
    BY <1>2
  <2> QED
    BY <2>1 DEF Started
<1> QED
  BY <1>4, <1>5, <1>6, <1>7, <1>8

Satisfied(r) == r.kind = "nothing" /\ finalize(r.de)

(* An event that is no error leaves the deframer open or, if it is         *)
(* satisfied, the body whole                                               *)
Carried(r) ==
  \/ r.kind \in Errors
  \/ /\ r.kind \in {"chunk", "nothing"}
     /\ ~Satisfied(r) => Open'
     /\ Satisfied(r) => (Begun => Whole(body))'

LEMMA AnthropicCarried ==
  ASSUME dialect = "Anthropic", Open, NEW f, OneMore(body', body, f), dialect' = dialect,
         NEW r, r = push(f), state' = r.de
  PROVE  Carried(r)
<1>1. AnthropicState(state) /\ ~state.done /\ Quiet(body) /\ (state.started <=> Started)
  BY DEF Open
<1>2. r = Anthropic!push(state, f)
  BY DEF push
<1>3. Terminals = {"message_stop"}
  BY DEF Terminals
<1>4. /\ f.ev # "message_stop" => Quiet(body)'
      /\ f.ev = "message_stop" => Whole(body)'
      /\ Started' <=> Started \/ f.ev = "message_start"
  BY <1>1, <1>3, BodyGrows
<1>5. \/ r.kind \in Errors
      \/ /\ r.kind = "chunk" /\ AnthropicState(r.de)
         /\ f.ev # "message_stop" /\ ~r.de.done
         /\ r.de.started <=> state.started \/ f.ev = "message_start"
      \/ /\ r.kind = "nothing" /\ AnthropicState(r.de)
         /\ r.de.started <=> state.started \/ f.ev = "message_start"
         /\ r.de.done <=> f.ev = "message_stop"
  BY <1>1, <1>2, AnthropicPush
<1>6. CASE r.kind \in Errors
  BY <1>6 DEF Carried
<1>7. CASE r.kind = "chunk" /\ r.kind \notin Errors
  <2>1. ~Satisfied(r)
    BY <1>7 DEF Satisfied
  <2>2. AnthropicState(r.de) /\ ~r.de.done /\ Quiet(body)' /\ (r.de.started <=> Started')
    BY <1>1, <1>4, <1>5, <1>7
  <2>3. Open'
    BY <2>2 DEF Open
  <2> QED
    BY <1>7, <2>1, <2>3 DEF Carried
<1>8. CASE r.kind = "nothing" /\ r.kind \notin Errors
  <2>1. /\ AnthropicState(r.de)
        /\ r.de.started <=> Started'
        /\ r.de.done <=> f.ev = "message_stop"
    BY <1>1, <1>4, <1>5, <1>8
  <2>2. finalize(r.de) <=> (~r.de.started \/ r.de.done)
    BY DEF finalize, Anthropic!finalize
  <2>3. CASE ~Satisfied(r)
    <3>1. ~r.de.done /\ Quiet(body)'
      BY <1>4, <1>8, <2>1, <2>2, <2>3 DEF Satisfied
    <3>2. Open'
      BY <2>1, <3>1 DEF Open
    <3> QED
      BY <1>8, <2>3, <3>2 DEF Carried
  <2>4. CASE Satisfied(r)
    <3>1. ~Started' \/ Whole(body)'
      BY <1>4, <2>1, <2>2, <2>4 DEF Satisfied
    <3>2. (Begun => Whole(body))'
      BY <3>1 DEF Begun, Started
    <3> QED
      BY <1>8, <2>4, <3>2 DEF Carried
  <2> QED
    BY <2>3, <2>4
<1> QED
  BY <1>5, <1>6, <1>7, <1>8

LEMMA ChatCarried ==
  ASSUME dialect = "OpenAiChat", Open, NEW f, OneMore(body', body, f), dialect' = dialect,
         f.ev \in {"chunk", "done", "error", "garbage"},
         NEW r, r = push(f), state' = r.de
  PROVE  Carried(r)
<1>1. ChatState(state) /\ ~state.done_seen /\ Quiet(body)
  BY DEF Open
<1>2. r = Chat!push_data(state, f)
  BY DEF push
<1>3. Terminals = {"done"}
  BY DEF Terminals
<1>4. /\ f.ev # "done" => Quiet(body)'
      /\ f.ev = "done" => Whole(body)'
  BY <1>1, <1>3, BodyGrows
<1>5. \/ r.kind \in Errors
      \/ r.kind = "nothing" /\ ChatState(r.de) /\ f.ev = "done" /\ r.de.done_seen
      \/ /\ r.kind \in {"chunk", "nothing"} /\ ChatState(r.de)
         /\ f.ev # "done" /\ ~r.de.done_seen
  BY <1>1, <1>2, ChatPush
<1>6. finalize(r.de) <=> r.de.done_seen
  BY DEF finalize, Chat!finalize
<1>7. CASE r.kind \in Errors
  BY <1>7 DEF Carried
<1>8. CASE r.kind = "nothing" /\ ChatState(r.de) /\ f.ev = "done" /\ r.de.done_seen
  BY <1>4, <1>6, <1>8 DEF Carried, Satisfied
<1>9. CASE /\ r.kind \in {"chunk", "nothing"} /\ ChatState(r.de)
           /\ f.ev # "done" /\ ~r.de.done_seen
  <2>1. Open'
    BY <1>4, <1>9 DEF Open
  <2> QED
    BY <1>6, <1>9, <2>1 DEF Carried, Satisfied
<1> QED
  BY <1>5, <1>7, <1>8, <1>9

LEMMA ResponsesCarried ==
  ASSUME dialect = "OpenAiResponses", Open, NEW f, OneMore(body', body, f), dialect' = dialect,
         NEW r, r = push(f), state' = r.de
  PROVE  Carried(r)
<1>1. ResponsesState(state) /\ (~state.terminal_seen => Quiet(body))
  BY DEF Open
<1>2. r = Responses!push(state, f)
  BY DEF push
<1>3. Terminals = {"completed", "incomplete"}
  BY DEF Terminals
<1>4. CASE r.kind \in Errors
  BY <1>4 DEF Carried
<1>5. CASE r.kind \notin Errors
  <2>1. /\ ~state.terminal_seen /\ ResponsesState(r.de)
        /\ r.kind \in {"chunk", "nothing"}
        /\ f.ev \in {"completed", "incomplete"} <=> r.de.terminal_seen
        /\ r.kind = "nothing" => ~r.de.terminal_seen
    BY <1>1, <1>2, <1>5, ResponsesPush
  <2>2. IF r.de.terminal_seen THEN Whole(body)' ELSE Quiet(body)'
    BY <1>1, <1>3, <2>1, BodyGrows
  <2>3. Open'
    BY <2>1, <2>2 DEF Open
  <2>4. ~Satisfied(r)
    BY <2>1 DEF Satisfied, finalize, Responses!finalize
  <2> QED
    BY <2>1, <2>3, <2>4 DEF Carried
<1> QED
  BY <1>4, <1>5

LEMMA EventIInv ==
  ASSUME IInv, NEW f \in Events[dialect], Event(f)
  PROVE  IInv'
<1>1. PICK r : r = push(f)
  OBVIOUS
<1>2. /\ phase = "streaming" /\ dialect' = dialect
      /\ body' = Append(body, f) /\ state' = r.de
      /\ items' = CASE r.kind = "chunk"   -> Append(items, Ok(r.chunk))
                    [] r.kind = "nothing" -> items
                    [] r.kind \in Errors  -> Append(items, Err(r.kind))
      /\ phase' = IF \/ r.kind \in Errors
                     \/ r.kind = "nothing" /\ finalize(r.de)
                  THEN "ended" ELSE phase
  BY <1>1 DEF Event
<1>3. IsSeq(body) /\ IsSeq(items) /\ Open /\ Clean /\ dialect \in Dialects
  BY <1>2, CleanBefore DEF IInv
<1>4. OneMore(body', body, f)
  BY <1>2, <1>3, AppendFacts
<1>5. IsSeq(body') /\ dialect' \in Dialects
  BY <1>2, <1>3, <1>4 DEF OneMore
<1>6. Carried(r)
  <2>1. CASE dialect = "Anthropic"
    BY <1>1, <1>2, <1>3, <1>4, <2>1, AnthropicCarried
  <2>2. CASE dialect = "OpenAiChat"
    <3>1. f.ev \in {"chunk", "done", "error", "garbage"}
      BY <1>3, <2>2, PayloadsAssumption
    <3> QED
      BY <1>1, <1>2, <1>3, <1>4, <2>2, <3>1, ChatCarried
  <2>3. CASE dialect = "OpenAiResponses"
    BY <1>1, <1>2, <1>3, <1>4, <2>3, ResponsesCarried
  <2> QED
    BY <1>3, <2>1, <2>2, <2>3, DialectsAssumption
<1>7. CASE r.kind \in Errors
  <2>1. items' = Append(items, Err(r.kind)) /\ phase' = "ended"
    BY <1>2, <1>7 DEF Errors
  <2>2. PICK kind \in Errors : items' = Append(items, Err(kind))
    BY <1>7, <2>1
  <2>3. /\ IsSeq(items') /\ Failed'
        /\ \A k \in DOMAIN items' : items'[k].kind \in Errors => k = Len(items')
    BY <1>2, <2>1, <2>2, GiveError
  <2> QED
    BY <1>5, <2>1, <2>3 DEF IInv
<1>8. CASE r.kind \notin Errors
  <2>1. /\ r.kind \in {"chunk", "nothing"}
        /\ ~Satisfied(r) => Open'
        /\ Satisfied(r) => (Begun => Whole(body))'
    BY <1>6, <1>8 DEF Carried
  <2>2. phase' = IF Satisfied(r) THEN "ended" ELSE "streaming"
    BY <1>2, <1>8 DEF Satisfied
  <2>3. IsSeq(items') /\ Clean'
    <3>1. CASE r.kind = "chunk"
      <4>1. PICK c : c = r.chunk
        OBVIOUS
      <4>2. items' = Append(items, Ok(c))
        BY <1>2, <1>8, <3>1, <4>1
      <4> QED
        BY <1>2, <4>2, GiveChunk
    <3>2. CASE r.kind = "nothing"
      <4>1. items' = items
        BY <1>2, <1>8, <3>2
      <4> QED
        BY <1>3, <4>1 DEF Clean
    <3> QED
      BY <2>1, <3>1, <3>2
  <2>4. \A k \in DOMAIN items' : items'[k].kind \notin Errors
    BY <2>3 DEF Clean
  <2> QED
    BY <1>5, <2>1, <2>2, <2>3, <2>4 DEF IInv
<1> QED
  BY <1>7, <1>8

LEMMA NextIInv == IInv /\ [Next]_vars => IInv'
<1> SUFFICES ASSUME IInv, [Next]_vars PROVE IInv'
  OBVIOUS
<1>1. CASE Refused
  BY <1>1, RefusedIInv
<1>2. CASE Answered
  BY <1>2, AnsweredIInv
<1>3. CASE \E f \in Events[dialect] : Event(f)
  BY <1>3, EventIInv
<1>4. CASE Broken
  BY <1>4, BrokenIInv
<1>5. CASE Eof
  BY <1>5, EofIInv
<1>6. CASE UNCHANGED vars
  <2>1. Open => Open'
    BY <1>6 DEF vars, Open, Quiet, Whole, Started, Terminals
  <2>2. (Begun => Whole(body)) => (Begun => Whole(body))'
    BY <1>6 DEF vars, Begun, Whole, Terminals
  <2>3. Failed' = Failed
    BY <1>6 DEF vars, Failed
  <2> QED
    BY <1>6, <2>1, <2>2, <2>3 DEF vars, IInv
<1> QED
  BY <1>1, <1>2, <1>3, <1>4, <1>5, <1>6 DEF Next

-----------------------------------------------------------------------------
(* Before message_start an Anthropic stream has no block open, and has     *)
(* given its caller no words                                               *)
WordlessItems(its) == \A k \in DOMAIN its : Wordless(its[k].chunk)

MInv ==
  /\ IInv
  /\ ~Begun => WordlessItems(items) /\ (phase # "ended" => state.blocks = {})

LEMMA AnthropicUnstarted ==
  ASSUME NEW s, AnthropicState(s), ~s.started, ~s.done, s.blocks = {}, NEW f,
         f.ev # "message_start", NEW r, r = Anthropic!push(s, f)
  PROVE  \/ r.kind \in Errors
         \/ r.kind = "nothing" /\ ~r.de.started
         \/ r.kind = "chunk" /\ r.de.blocks = {} /\ Wordless(r.chunk)
<1> USE DEF Anthropic!Surface, Anthropic!Nothing, Anthropic!Transport, Anthropic!Upstream,
            Anthropic!Out, Errors
<1>1. CASE f.ev = "message_delta"
  <2>1. r = Anthropic!message_delta(s, f)
    BY <1>1 DEF Anthropic!push
  <2>2. PICK fin : fin = Anthropic!map_stop_reason_inbound(f.kind)
    OBVIOUS
  <2>3. PICK u : u = Anthropic!inclusive(f.usage)
    OBVIOUS
  <2>4. \/ r.kind \in Errors
        \/ /\ r.kind = "chunk" /\ r.de = [s EXCEPT !.pending = TRUE]
           /\ r.chunk = [Anthropic!EmptyChunk EXCEPT !.finish = fin, !.usage = u]
    BY <2>1, <2>2, <2>3 DEF Anthropic!message_delta
  <2>5. ASSUME r.kind = "chunk" PROVE Wordless(r.chunk)
    <3>1. PICK c : c = r.chunk
      OBVIOUS
    <3>2. c = [Anthropic!EmptyChunk EXCEPT !.finish = fin, !.usage = u]
      BY <2>4, <2>5, <3>1 DEF Errors
    <3>3. c.delta_text = <<>>
      BY <3>2 DEF Anthropic!EmptyChunk
    <3>4. c.thinking = [kind |-> "none", text |-> <<>>]
      BY <3>2 DEF Anthropic!EmptyChunk
    <3>5. c.has_calls = FALSE
      BY <3>2 DEF Anthropic!EmptyChunk
    <3> QED
      BY <3>1, <3>3, <3>4, <3>5 DEF Wordless
  <2> QED
    BY <2>4, <2>5 DEF AnthropicState
<1>2. CASE f.ev \in {"content_block_delta", "content_block_stop"}
  BY <1>2 DEF Anthropic!push, Anthropic!content_block_delta, Anthropic!content_block_stop
<1>3. CASE f.ev \notin {"message_delta", "content_block_delta", "content_block_stop"}
  <2>1. r.kind \in Errors \/ r.kind = "nothing"
    BY <1>3 DEF Anthropic!push, Anthropic!content_block_start
  <2>2. r.kind = "nothing" => ~r.de.started
    BY <2>1, AnthropicPush
  <2> QED
    BY <2>1, <2>2
<1> QED
  BY <1>1, <1>2, <1>3

LEMMA GiveWordless ==
  ASSUME NEW q, IsSeq(q), WordlessItems(q), NEW e, Wordless(e.chunk), NEW p, p = Append(q, e)
  PROVE  WordlessItems(p)
<1>1. OneMore(p, q, e)
  BY AppendFacts
<1>2. \A k \in DOMAIN p : p[k] = e \/ (k \in DOMAIN q /\ p[k] = q[k])
  BY <1>1 DEF OneMore
<1> QED
  BY <1>2 DEF WordlessItems

LEMMA GiveWordlessError ==
  ASSUME NEW q, IsSeq(q), WordlessItems(q), NEW kind, NEW p, p = Append(q, Err(kind))
  PROVE  WordlessItems(p)
<1>1. PICK e : e = Err(kind)
  OBVIOUS
<1>2. Wordless(e.chunk)
  BY <1>1 DEF Err, EmptyChunk, Wordless
<1> QED
  BY <1>1, <1>2, GiveWordless

LEMMA InitMInv == Init => MInv
<1> SUFFICES ASSUME Init PROVE MInv
  OBVIOUS
<1>1. WordlessItems(items)
  BY EmptyFacts DEF Init, WordlessItems
<1>2. ~Begun => state.blocks = {}
  BY DEF Init, Begun, NewState, Anthropic!New
<1> QED
  BY <1>1, <1>2, InitIInv DEF MInv

LEMMA EventMInv ==
  ASSUME MInv, NEW f \in Events[dialect], Event(f), ~Begun'
  PROVE  WordlessItems(items') /\ (phase' # "ended" => state'.blocks = {})
<1>1. PICK r : r = push(f)
  OBVIOUS
<1>2. /\ phase = "streaming" /\ dialect' = dialect /\ state' = r.de /\ body' = Append(body, f)
      /\ items' = CASE r.kind = "chunk"   -> Append(items, Ok(r.chunk))
                    [] r.kind = "nothing" -> items
                    [] r.kind \in Errors  -> Append(items, Err(r.kind))
      /\ phase' = IF \/ r.kind \in Errors
                     \/ r.kind = "nothing" /\ finalize(r.de)
                  THEN "ended" ELSE phase
  BY <1>1 DEF Event
<1>3. IsSeq(body) /\ IsSeq(items) /\ Open
  BY <1>2 DEF MInv, IInv
<1>4. OneMore(body', body, f)
  BY <1>2, <1>3, AppendFacts
<1>5. dialect = "Anthropic" /\ f.ev # "message_start" /\ ~Started /\ ~Begun
  <2>1. dialect = "Anthropic" /\ \A k \in DOMAIN body' : body'[k].ev # "message_start"
    BY <1>2 DEF Begun
  <2>2. /\ Len(body') \in DOMAIN body' /\ body'[Len(body')] = f
        /\ \A k \in DOMAIN body : k \in DOMAIN body' /\ body'[k] = body[k]
    BY <1>4 DEF OneMore
  <2> QED
    BY <2>1, <2>2 DEF Begun, Started
<1>6. /\ AnthropicState(state) /\ ~state.done /\ ~state.started /\ state.blocks = {}
      /\ WordlessItems(items)
  BY <1>2, <1>3, <1>5 DEF Open, MInv
<1>7. r = Anthropic!push(state, f)
  BY <1>1, <1>5 DEF push
<1>8. CASE r.kind \in Errors
  <2>1. items' = Append(items, Err(r.kind)) /\ phase' = "ended"
    BY <1>2, <1>8 DEF Errors
  <2> QED
    BY <1>3, <1>6, <2>1, GiveWordlessError
<1>9. CASE r.kind = "nothing" /\ ~r.de.started
  <2>1. finalize(r.de)
    BY <1>5, <1>9 DEF finalize, Anthropic!finalize
  <2>2. items' = items /\ phase' = "ended"
    BY <1>2, <1>9, <2>1 DEF Errors
  <2> QED
    BY <1>6, <2>2
<1>10. CASE r.kind = "chunk" /\ r.de.blocks = {} /\ Wordless(r.chunk)
  <2>1. PICK e : e = Ok(r.chunk)
    OBVIOUS
  <2>2. items' = Append(items, e)
    BY <1>2, <1>10, <2>1 DEF Errors
  <2>3. Wordless(e.chunk)
    BY <1>10, <2>1 DEF Ok
  <2>4. WordlessItems(items')
    BY <1>3, <1>6, <2>2, <2>3, GiveWordless
  <2> QED
    BY <1>2, <1>10, <2>4
<1> QED
  BY <1>5, <1>6, <1>7, <1>8, <1>9, <1>10, AnthropicUnstarted

LEMMA NextMInv == MInv /\ [Next]_vars => MInv'
<1> SUFFICES ASSUME MInv, [Next]_vars, ~Begun'
             PROVE  WordlessItems(items') /\ (phase' # "ended" => state'.blocks = {})
  BY NextIInv DEF MInv
<1>1. CASE \E f \in Events[dialect] : Event(f)
  BY <1>1, EventMInv
<1>2. ASSUME UNCHANGED <<dialect, body>>, phase # "ended" \/ phase' = "ended",
             state' = state,
             items' = items \/ \E kind : items' = Append(items, Err(kind))
      PROVE  WordlessItems(items') /\ (phase' # "ended" => state'.blocks = {})
  <2>1. ~Begun
    BY <1>2 DEF Begun
  <2>2. IsSeq(items) /\ WordlessItems(items) /\ (phase # "ended" => state.blocks = {})
    BY <2>1 DEF MInv, IInv
  <2>3. WordlessItems(items')
    BY <1>2, <2>2, GiveWordlessError
  <2> QED
    BY <1>2, <2>2, <2>3
<1>3. CASE Refused
  <2>1. phase = "sending" /\ phase' = "ended" /\ UNCHANGED <<dialect, state, body>>
    BY <1>3 DEF Refused
  <2>2. PICK kind \in Errors : items' = <<Err(kind)>>
    BY <1>3 DEF Refused
  <2>3. items = <<>>
    BY <2>1 DEF MInv, IInv
  <2>4. items' = Append(items, Err(kind))
    BY <2>2, <2>3
  <2> QED
    BY <1>2, <2>1, <2>4
<1>4. CASE Answered
  BY <1>2, <1>4 DEF Answered
<1>5. CASE Broken
  BY <1>2, <1>5 DEF Broken
<1>6. CASE Eof
  BY <1>2, <1>6 DEF Eof
<1>7. CASE UNCHANGED vars
  BY <1>2, <1>7 DEF vars
<1> QED
  BY <1>1, <1>3, <1>4, <1>5, <1>6, <1>7 DEF Next

LEMMA MInvHonest == MInv => HonestEnd
<1> SUFFICES ASSUME MInv PROVE HonestEnd
  OBVIOUS
<1>1. Whole(body) =>
        /\ EndsAtTerminal
        /\ \A k \in DOMAIN body : body[k].ev \in Terminals => k = Len(body)
  BY DEF Whole, EndsAtTerminal, Last
<1> QED
  BY <1>1 DEF MInv, IInv, HonestEnd, WordlessItems

(* How far the caller of stream can trust the way it ends (resp_stream,    *)
(* client.rs:192-259, and push and finalize of the three deframers): an    *)
(* error last, the only terminal event, or, over Anthropic, silence before *)
(* any message_start and then no words                                     *)
THEOREM HonestAlways == Spec => []HonestEnd
<1>1. Init => MInv
  BY InitMInv
<1>2. MInv /\ [Next]_vars => MInv'
  BY NextMInv
<1>3. MInv => HonestEnd
  BY MInvHonest
<1> QED
  BY <1>1, <1>2, <1>3, PTL DEF Spec

-----------------------------------------------------------------------------
(* What one more event makes of the open blocks *)
Starts(f, i) == f.ev = "content_block_start" /\ f.index = i
Stops(f, i) == f.ev = "content_block_stop" /\ f.index = i

LEMMA OpenBefore ==
  ASSUME NEW p, NEW q, NEW f, OneMore(p, q, f), NEW i, NEW k \in 0 .. Len(q)
  PROVE  OpenAfter(p, i, k) <=> OpenAfter(q, i, k)
<1>1. Len(q) \in Nat /\ \A m \in 1 .. Len(q) : p[m] = q[m]
  BY DEF OneMore
<1>2. \A m \in 1 .. k : p[m] = q[m]
  BY <1>1
<1>3. \A j \in 1 .. k : \A m \in j + 1 .. k : p[m] = q[m]
  BY <1>1, <1>2
<1> QED
  BY <1>2, <1>3 DEF OpenAfter

LEMMA OpenNow ==
  ASSUME NEW p, NEW q, NEW f, OneMore(p, q, f), NEW i
  PROVE  OpenAfter(p, i, Len(p)) <=> Starts(f, i) \/ (OpenAfter(q, i, Len(q)) /\ ~Stops(f, i))
<1>1. PICK n \in Nat : n = Len(q)
  BY DEF OneMore
<1>2. Len(p) = n + 1 /\ p[n + 1] = f /\ \A m \in 1 .. n : p[m] = q[m]
  BY <1>1 DEF OneMore
<1>3. ASSUME OpenAfter(p, i, n + 1)
      PROVE  Starts(f, i) \/ (OpenAfter(q, i, n) /\ ~Stops(f, i))
  <2>1. PICK j \in 1 .. n + 1 : /\ p[j].ev = "content_block_start" /\ p[j].index = i
                                /\ \A m \in j + 1 .. n + 1 :
                                     ~(p[m].ev = "content_block_stop" /\ p[m].index = i)
    BY <1>3 DEF OpenAfter
  <2>2. CASE j = n + 1
    BY <1>2, <2>1, <2>2 DEF Starts
  <2>3. CASE j # n + 1
    <3>1. j \in 1 .. n /\ n + 1 \in j + 1 .. n + 1
      BY <2>3
    <3>2. ~Stops(f, i)
      BY <1>2, <2>1, <3>1 DEF Stops
    <3>3. q[j].ev = "content_block_start" /\ q[j].index = i
      BY <1>2, <2>1, <3>1
    <3>4. \A m \in j + 1 .. n : ~(q[m].ev = "content_block_stop" /\ q[m].index = i)
      BY <1>2, <2>1, <3>1
    <3> QED
      BY <3>1, <3>2, <3>3, <3>4 DEF OpenAfter
  <2> QED
    BY <2>2, <2>3
<1>4. ASSUME Starts(f, i)
      PROVE  OpenAfter(p, i, n + 1)
  <2>1. n + 1 \in 1 .. n + 1 /\ \A m \in (n + 1) + 1 .. n + 1 : FALSE
    OBVIOUS
  <2> QED
    BY <1>2, <1>4, <2>1 DEF Starts, OpenAfter
<1>5. ASSUME OpenAfter(q, i, n), ~Stops(f, i)
      PROVE  OpenAfter(p, i, n + 1)
  <2>1. PICK j \in 1 .. n : /\ q[j].ev = "content_block_start" /\ q[j].index = i
                            /\ \A m \in j + 1 .. n :
                                 ~(q[m].ev = "content_block_stop" /\ q[m].index = i)
    BY <1>5 DEF OpenAfter
  <2>2. j \in 1 .. n + 1 /\ p[j].ev = "content_block_start" /\ p[j].index = i
    BY <1>2, <2>1
  <2>3. ASSUME NEW m \in j + 1 .. n + 1
        PROVE  ~(p[m].ev = "content_block_stop" /\ p[m].index = i)
    <3>1. CASE m = n + 1
      BY <1>2, <1>5, <3>1 DEF Stops
    <3>2. CASE m # n + 1
      <4>1. m \in j + 1 .. n /\ m \in 1 .. n
        BY <3>2
      <4> QED
        BY <1>2, <2>1, <4>1
    <3> QED
      BY <3>1, <3>2
  <2> QED
    BY <2>2, <2>3 DEF OpenAfter
<1> QED
  BY <1>1, <1>2, <1>3, <1>4, <1>5

LEMMA NestedMore ==
  ASSUME NEW p, NEW q, NEW f, OneMore(p, q, f), NamesOpen(q),
         f.ev \in {"content_block_delta", "content_block_stop"} => OpenAfter(q, f.index, Len(q))
  PROVE  NamesOpen(p)
<1>1. PICK n \in Nat : n = Len(q)
  BY DEF OneMore
<1>2. /\ DOMAIN q = 1 .. n /\ DOMAIN p = 1 .. n + 1 /\ p[n + 1] = f
      /\ \A m \in 1 .. n : p[m] = q[m]
  BY <1>1 DEF OneMore
<1> SUFFICES ASSUME NEW k \in 1 .. n + 1, p[k].ev \in {"content_block_delta", "content_block_stop"}
             PROVE  OpenAfter(p, p[k].index, k - 1)
  BY <1>2 DEF NamesOpen
<1>3. k - 1 \in 0 .. Len(q)
  BY <1>1
<1>4. SUFFICES OpenAfter(q, p[k].index, k - 1)
  BY <1>3, OpenBefore
<1>5. CASE k = n + 1
  <2>1. k - 1 = Len(q) /\ p[k] = f
    BY <1>1, <1>2, <1>5
  <2> QED
    BY <2>1
<1>6. CASE k # n + 1
  <2>1. k \in DOMAIN q /\ p[k] = q[k]
    BY <1>2, <1>6
  <2> QED
    BY <2>1 DEF NamesOpen
<1> QED
  BY <1>5, <1>6

Occurring(q, ev) == \E k \in DOMAIN q : q[k].ev = ev

LEMMA OccursMore ==
  ASSUME NEW p, NEW q, NEW f, OneMore(p, q, f), NEW ev
  PROVE  /\ Occurring(p, ev) <=> Occurring(q, ev) \/ f.ev = ev
         /\ AtMostOnce(q, ev) /\ (f.ev = ev => ~Occurring(q, ev)) => AtMostOnce(p, ev)
<1>1. PICK n \in Nat : n = Len(q)
  BY DEF OneMore
<1>2. /\ DOMAIN q = 1 .. n /\ DOMAIN p = 1 .. n + 1 /\ p[n + 1] = f
      /\ \A m \in 1 .. n : p[m] = q[m]
  BY <1>1 DEF OneMore
<1>3. Occurring(p, ev) => Occurring(q, ev) \/ f.ev = ev
  <2> SUFFICES ASSUME NEW k \in 1 .. n + 1, p[k].ev = ev
               PROVE  Occurring(q, ev) \/ f.ev = ev
    BY <1>2 DEF Occurring
  <2>1. k = n + 1 \/ k \in 1 .. n
    OBVIOUS
  <2> QED
    BY <1>2, <2>1 DEF Occurring
<1>4. Occurring(q, ev) => Occurring(p, ev)
  <2>1. \A k \in 1 .. n : k \in 1 .. n + 1
    OBVIOUS
  <2> QED
    BY <1>2, <2>1 DEF Occurring
<1>5. f.ev = ev => Occurring(p, ev)
  <2>1. n + 1 \in 1 .. n + 1
    OBVIOUS
  <2> QED
    BY <1>2, <2>1 DEF Occurring
<1>6. ASSUME AtMostOnce(q, ev), f.ev = ev => ~Occurring(q, ev)
      PROVE  AtMostOnce(p, ev)
  <2> SUFFICES ASSUME NEW j \in 1 .. n + 1, NEW k \in 1 .. n + 1, p[j].ev = ev, p[k].ev = ev
               PROVE  j = k
    BY <1>2 DEF AtMostOnce
  <2>1. \A m \in 1 .. n + 1 : m = n + 1 \/ (m \in DOMAIN q /\ p[m] = q[m])
    BY <1>2
  <2> QED
    BY <1>2, <1>6, <2>1 DEF AtMostOnce, Occurring
<1> QED
  BY <1>3, <1>4, <1>5, <1>6

(* A later event counts on *)
LEMMA SequencedMore ==
  ASSUME NEW p, NEW q, NEW f, OneMore(p, q, f), Sequenced(q),
         f.seq # -1 => \A k \in DOMAIN q : q[k].seq # -1 => q[k].seq < f.seq
  PROVE  Sequenced(p)
<1>1. PICK n \in Nat : n = Len(q)
  BY DEF OneMore
<1>2. /\ DOMAIN q = 1 .. n /\ DOMAIN p = 1 .. n + 1 /\ p[n + 1] = f
      /\ \A m \in 1 .. n : p[m] = q[m]
  BY <1>1 DEF OneMore
<1> SUFFICES ASSUME NEW j \in 1 .. n + 1, NEW k \in 1 .. n + 1,
                    j < k, p[j].seq # -1, p[k].seq # -1
             PROVE  p[j].seq < p[k].seq
  BY <1>2 DEF Sequenced
<1>3. j \in DOMAIN q /\ p[j] = q[j]
  BY <1>2
<1>4. k = n + 1 \/ (k \in DOMAIN q /\ p[k] = q[k])
  BY <1>2
<1> QED
  BY <1>2, <1>3, <1>4 DEF Sequenced

-----------------------------------------------------------------------------
(* The deframer knows which blocks are open, which frames it has seen and  *)
(* the last sequence number                                                *)
Tracks(d, s, q) ==
  /\ d = "Anthropic" =>
       /\ AnthropicState(s)
       /\ \A i : i \in s.blocks <=> OpenAfter(q, i, Len(q))
       /\ s.started <=> Occurring(q, "message_start")
       /\ s.pending <=> Occurring(q, "message_delta")
  /\ d = "OpenAiResponses" =>
       /\ ResponsesState(s)
       /\ s.last_seq \in Int
       /\ \A k \in DOMAIN q : q[k].seq \in Int /\ (q[k].seq # -1 => q[k].seq <= s.last_seq)

(* t is what an Anthropic deframer becomes of s with an event that passes *)
Passed(s, f, t) ==
  /\ f.ev # "garbage"
  /\ AnthropicState(t)
  /\ \A i : i \in t.blocks <=> Starts(f, i) \/ (i \in s.blocks /\ ~Stops(f, i))
  /\ f.ev \in {"content_block_delta", "content_block_stop"} => f.index \in s.blocks
  /\ t.started <=> s.started \/ f.ev = "message_start"
  /\ t.pending <=> s.pending \/ f.ev = "message_delta"
  /\ f.ev = "message_start" => ~s.started
  /\ f.ev = "message_delta" => ~s.pending

LEMMA AnthropicPasses ==
  ASSUME NEW s, AnthropicState(s), NEW f, NEW r, r = Anthropic!push(s, f), r.kind \notin Errors
  PROVE  Passed(s, f, r.de)
<1> USE DEF Anthropic!Surface, Anthropic!Nothing, Anthropic!Transport, Anthropic!Upstream,
            Anthropic!Out, Errors
<1>1. ~s.done /\ f.ev # "garbage"
  BY DEF Anthropic!push
<1>2. CASE f.ev = "message_start"
  <2>1. r = Anthropic!message_start(s, f)
    BY <1>1, <1>2 DEF Anthropic!push
  <2>2. ~s.started /\ r.de = [s EXCEPT !.started = TRUE]
    BY <2>1 DEF Anthropic!message_start, Anthropic!SurfaceIf
  <2> QED
    BY <1>2, <2>2 DEF Passed, AnthropicState, Starts, Stops
<1>3. CASE f.ev = "content_block_start"
  <2>1. r.de = [s EXCEPT !.blocks = s.blocks \cup {f.index}]
    BY <1>1, <1>3 DEF Anthropic!push, Anthropic!content_block_start
  <2> QED
    BY <1>3, <2>1 DEF Passed, AnthropicState, Starts, Stops
<1>4. CASE f.ev = "content_block_delta"
  <2>1. r = Anthropic!content_block_delta(s, f)
    BY <1>1, <1>4 DEF Anthropic!push
  <2>2. f.index \in s.blocks /\ r.de = s
    BY <2>1 DEF Anthropic!content_block_delta, Anthropic!SurfaceIf
  <2> QED
    BY <1>4, <2>2 DEF Passed, AnthropicState, Starts, Stops
<1>5. CASE f.ev = "content_block_stop"
  <2>1. r = Anthropic!content_block_stop(s, f)
    BY <1>1, <1>5 DEF Anthropic!push
  <2>2. f.index \in s.blocks /\ r.de = [s EXCEPT !.blocks = s.blocks \ {f.index}]
    BY <2>1 DEF Anthropic!content_block_stop
  <2> QED
    BY <1>5, <2>2 DEF Passed, AnthropicState, Starts, Stops
<1>6. CASE f.ev = "message_delta"
  <2>1. r = Anthropic!message_delta(s, f)
    BY <1>1, <1>6 DEF Anthropic!push
  <2>2. ~s.pending /\ r.de = [s EXCEPT !.pending = TRUE]
    BY <2>1 DEF Anthropic!message_delta
  <2> QED
    BY <1>6, <2>2 DEF Passed, AnthropicState, Starts, Stops
<1>7. CASE f.ev = "message_stop"
  <2>1. r.de = [s EXCEPT !.done = TRUE]
    BY <1>1, <1>7 DEF Anthropic!push
  <2> QED
    BY <1>7, <2>1 DEF Passed, AnthropicState, Starts, Stops
<1>8. CASE f.ev = "error"
  BY <1>1, <1>8 DEF Anthropic!push
<1>9. CASE f.ev \notin {"garbage", "message_start", "content_block_start", "content_block_delta",
                        "content_block_stop", "message_delta", "message_stop", "error"}
  <2>1. r.de = s
    BY <1>1, <1>9 DEF Anthropic!push
  <2> QED
    BY <1>9, <2>1 DEF Passed, AnthropicState, Starts, Stops
<1> QED
  BY <1>1, <1>2, <1>3, <1>4, <1>5, <1>6, <1>7, <1>8, <1>9

LEMMA AnthropicLegal ==
  ASSUME NEW s, NEW q, Tracks("Anthropic", s, q), Acceptable("Anthropic", q),
         NEW f, NEW p, OneMore(p, q, f), NEW t, Passed(s, f, t)
  PROVE  Tracks("Anthropic", t, p) /\ Acceptable("Anthropic", p)
<1>1. /\ AnthropicState(s)
      /\ \A i : i \in s.blocks <=> OpenAfter(q, i, Len(q))
      /\ s.started <=> Occurring(q, "message_start")
      /\ s.pending <=> Occurring(q, "message_delta")
  BY DEF Tracks
<1>2. \A i : i \in t.blocks <=> OpenAfter(p, i, Len(p))
  <2> TAKE i
  <2>1. OpenAfter(p, i, Len(p)) <=> Starts(f, i) \/ (OpenAfter(q, i, Len(q)) /\ ~Stops(f, i))
    BY OpenNow
  <2> QED
    BY <1>1, <2>1 DEF Passed
<1>3. /\ t.started <=> Occurring(p, "message_start")
      /\ t.pending <=> Occurring(p, "message_delta")
  BY <1>1, OccursMore DEF Passed
<1>4. Tracks("Anthropic", t, p)
  BY <1>2, <1>3 DEF Tracks, Passed
<1>5. \A k \in DOMAIN p : p[k].ev # "garbage"
  <2>1. ~Occurring(q, "garbage")
    BY DEF Acceptable, Occurring
  <2>2. ~Occurring(p, "garbage")
    BY <2>1, OccursMore DEF Passed
  <2> QED
    BY <2>2 DEF Occurring
<1>6. NamesOpen(p)
  <2>1. f.ev \in {"content_block_delta", "content_block_stop"} => OpenAfter(q, f.index, Len(q))
    BY <1>1 DEF Passed
  <2> QED
    BY <2>1, NestedMore DEF Acceptable
<1>7. AtMostOnce(p, "message_start") /\ AtMostOnce(p, "message_delta")
  BY <1>1, OccursMore DEF Acceptable, Passed
<1> QED
  BY <1>4, <1>5, <1>6, <1>7 DEF Acceptable

LEMMA ChatPasses ==
  ASSUME NEW s, ~s.done_seen, NEW f, f.ev \in {"chunk", "done", "error", "garbage"},
         NEW r, r = Chat!push_data(s, f), r.kind \notin Errors
  PROVE  f.ev # "garbage"
BY DEF Chat!push_data, Chat!Transport, Chat!Out, Errors

(* What passes a Responses deframer is numbered above all before it *)
LEMMA ResponsesPasses ==
  ASSUME NEW s, ResponsesState(s), s.last_seq \in Int, NEW f, f.seq \in Int,
         NEW r, r = Responses!push(s, f), r.kind \notin Errors
  PROVE  /\ f.ev # "garbage" /\ ResponsesState(r.de)
         /\ IF f.seq = -1 THEN r.de.last_seq = s.last_seq
            ELSE s.last_seq < f.seq /\ r.de.last_seq = f.seq
<1>1. f.ev # "garbage" /\ ~(f.seq # Responses!NoSeq /\ f.seq <= s.last_seq)
  BY DEF Responses!push, Responses!Transport, Responses!Out, Errors
<1>2. Responses!NoSeq = -1
  BY DEF Responses!NoSeq
<1>3. f.ev # "garbage" /\ (f.seq = -1 \/ s.last_seq < f.seq)
  BY <1>1, <1>2
<1>4. PICK n : n = IF f.seq = -1 THEN s.last_seq ELSE f.seq
  OBVIOUS
<1>5. PICK d : d = [s EXCEPT !.last_seq = n]
  OBVIOUS
<1>6. ResponsesState(d) /\ d.last_seq = n
  BY <1>5 DEF ResponsesState
<1>7. r = Responses!dispatch(d, f)
  <2>1. r = Responses!dispatch(
              [s EXCEPT !.last_seq = IF f.seq = Responses!NoSeq THEN s.last_seq ELSE f.seq], f)
    BY DEF Responses!push, Responses!Transport, Responses!Out, Errors
  <2> QED
    BY <1>2, <1>4, <1>5, <2>1
<1> DEFINE Held(e) == ResponsesState(e) /\ e.last_seq = n
<1>8. ASSUME NEW type PROVE Held(Responses!Accumulate(d, f, type))
  <2>1. PICK its : \/ Responses!Accumulate(d, f, type) = d
                   \/ Responses!Accumulate(d, f, type) = [d EXCEPT !.items = its]
    BY DEF Responses!Accumulate
  <2> QED
    BY <1>6, <2>1 DEF ResponsesState
<1>9. Held(r.de)
  <2> USE DEF Responses!Surface, Responses!Nothing, Responses!Upstream, Responses!Out, Errors
  <2>1. CASE f.ev = "output_item.added"
    <3>1. r = Responses!output_item_added(d, f)
      BY <1>7, <2>1 DEF Responses!dispatch
    <3>2. PICK its : its = [p \in DOMAIN d.items \cup {f.pos} |->
                              IF p = f.pos THEN Responses!Item(f.type, f.id) ELSE d.items[p]]
      OBVIOUS
    <3>3. r.de = d \/ r.de = [d EXCEPT !.items = its]
      BY <3>1, <3>2 DEF Responses!output_item_added
    <3> QED
      BY <1>6, <3>3 DEF ResponsesState
  <2>2. CASE f.ev = "output_text.delta"
    <3>1. r = Responses!output_text_delta(d, f)
      BY <1>7, <2>2 DEF Responses!dispatch
    <3>2. r.de = Responses!Accumulate(d, f, "message")
      BY <3>1 DEF Responses!output_text_delta, Responses!SurfaceIf
    <3> QED
      BY <1>8, <3>2
  <2>3. CASE f.ev \in {"reasoning_summary_text.delta", "function_call_arguments.delta"}
    <3>1. PICK type : r.de = Responses!Accumulate(d, f, type)
      BY <1>7, <2>3 DEF Responses!dispatch
    <3> QED
      BY <1>8, <3>1
  <2>4. CASE f.ev \in {"completed", "incomplete"}
    <3>1. r.de = [d EXCEPT !.terminal_seen = TRUE]
      BY <1>7, <2>4 DEF Responses!dispatch
    <3> QED
      BY <1>6, <3>1 DEF ResponsesState
  <2>5. CASE f.ev = "failed"
    BY <1>7, <2>5 DEF Responses!dispatch
  <2>6. CASE f.ev \notin {"output_item.added", "output_text.delta",
                          "reasoning_summary_text.delta", "function_call_arguments.delta",
                          "completed", "incomplete", "failed"}
    <3>1. r.de = d
      BY <1>7, <2>6 DEF Responses!dispatch
    <3> QED
      BY <1>6, <3>1
  <2> QED
    BY <2>1, <2>2, <2>3, <2>4, <2>5, <2>6
<1> QED
  BY <1>3, <1>4, <1>9

LEMMA ResponsesLegal ==
  ASSUME NEW s, NEW q, Tracks("OpenAiResponses", s, q), Acceptable("OpenAiResponses", q),
         NEW f, f.seq \in Int, NEW p, OneMore(p, q, f),
         NEW r, r = Responses!push(s, f), r.kind \notin Errors
  PROVE  Tracks("OpenAiResponses", r.de, p) /\ Acceptable("OpenAiResponses", p)
<1>1. /\ ResponsesState(s) /\ s.last_seq \in Int
      /\ \A k \in DOMAIN q : q[k].seq \in Int /\ (q[k].seq # -1 => q[k].seq <= s.last_seq)
  BY DEF Tracks
<1>2. /\ f.ev # "garbage" /\ ResponsesState(r.de)
      /\ IF f.seq = -1 THEN r.de.last_seq = s.last_seq
         ELSE s.last_seq < f.seq /\ r.de.last_seq = f.seq
  BY <1>1, ResponsesPasses
<1>3. PICK t : t = r.de
  OBVIOUS
<1>4. t.last_seq \in Int /\ s.last_seq <= t.last_seq /\ (f.seq # -1 => f.seq <= t.last_seq)
  BY <1>1, <1>2, <1>3
<1>5. \A k \in DOMAIN p : p[k].seq \in Int /\ (p[k].seq # -1 => p[k].seq <= t.last_seq)
  <2> SUFFICES ASSUME NEW k \in DOMAIN p
               PROVE  p[k].seq \in Int /\ (p[k].seq # -1 => p[k].seq <= t.last_seq)
    OBVIOUS
  <2>1. p[k] = f \/ (k \in DOMAIN q /\ p[k] = q[k])
    BY DEF OneMore
  <2> QED
    BY <1>1, <1>4, <2>1
<1>6. Tracks("OpenAiResponses", t, p)
  BY <1>2, <1>3, <1>4, <1>5 DEF Tracks
<1>7. Sequenced(p)
  <2>1. f.seq # -1 => \A k \in DOMAIN q : q[k].seq # -1 => q[k].seq < f.seq
    BY <1>1, <1>2
  <2> QED
    BY <2>1, SequencedMore DEF Acceptable
<1>8. \A k \in DOMAIN p : p[k].ev # "garbage"
  <2>1. ~Occurring(q, "garbage")
    BY DEF Acceptable, Occurring
  <2>2. ~Occurring(p, "garbage")
    BY <1>2, <2>1, OccursMore
  <2> QED
    BY <2>2 DEF Occurring
<1> QED
  BY <1>3, <1>6, <1>7, <1>8 DEF Acceptable

LEMMA ChatLegal ==
  ASSUME NEW q, Acceptable("OpenAiChat", q), NEW f, f.ev # "garbage", NEW p, OneMore(p, q, f)
  PROVE  Acceptable("OpenAiChat", p)
<1>1. ~Occurring(q, "garbage")
  BY DEF Acceptable, Occurring
<1>2. ~Occurring(p, "garbage")
  BY <1>1, OccursMore
<1> QED
  BY <1>2 DEF Acceptable, Occurring

-----------------------------------------------------------------------------
(* A stream that goes on has taken nothing illegal, and its deframer knows *)
(* what it has taken                                                       *)
LInv ==
  /\ IInv
  /\ phase # "ended" => Tracks(dialect, state, body) /\ Acceptable(dialect, body)
  /\ OnlyAcceptable

LEMMA TakenWhole ==
  /\ Acceptable(dialect, body) => OnlyAcceptable
  /\ Acceptable(dialect', body') => OnlyAcceptable'
BY DEF OnlyAcceptable, Taken

(* The beginning of a body is what came before its last event *)
LEMMA FrontOfMore ==
  ASSUME NEW p, NEW q, NEW f, OneMore(p, q, f), IsSeq(q)
  PROVE  Front(p) = q
<1>1. PICK n \in Nat : n = Len(q)
  BY DEF OneMore
<1>2. /\ DOMAIN q = 1 .. n /\ Len(p) = n + 1 /\ p # <<>>
      /\ \A m \in 1 .. n : p[m] = q[m]
  BY <1>1 DEF OneMore
<1>3. Front(p) = [m \in 1 .. n |-> p[m]]
  <2>1. Front(p) = [m \in 1 .. (1 + n - 1) |-> p[m + 1 - 1]]
    BY <1>2 DEF Front
  <2> QED
    BY <2>1
<1>4. q = [m \in 1 .. n |-> q[m]]
  <2>1. PICK S : q \in Seq(S)
    BY DEF IsSeq
  <2> QED
    BY <1>2, <2>1
<1> QED
  BY <1>2, <1>3, <1>4

(* All but the event the stream failed on *)
LEMMA TakenFront ==
  ASSUME NEW q, NEW f, OneMore(body', q, f), IsSeq(q), Failed', Acceptable(dialect', q)
  PROVE  OnlyAcceptable'
<1>1. Front(body') = q
  BY FrontOfMore
<1>2. body' # <<>>
  BY DEF OneMore
<1> QED
  BY <1>1, <1>2 DEF OnlyAcceptable, Taken

LEMMA InitLegal == Init => LInv
<1> SUFFICES ASSUME Init PROVE LInv
  OBVIOUS
<1>1. dialect \in AllDialects /\ state = NewState(dialect) /\ body = <<>>
  BY DialectsAssumption DEF Init, AllDialects
<1>2. DOMAIN body = {} /\ Len(body) = 0
  BY <1>1, EmptyFacts
<1>3. \A ev : ~Occurring(body, ev)
  BY <1>2 DEF Occurring
<1>4. \A i : ~OpenAfter(body, i, Len(body))
  BY <1>2 DEF OpenAfter
<1>5. Acceptable(dialect, body)
  BY <1>2 DEF Acceptable, NamesOpen, AtMostOnce, Sequenced
<1>6. Tracks(dialect, state, body)
  <2>1. CASE dialect = "Anthropic"
    <3>1. state = Anthropic!New
      BY <1>1, <2>1 DEF NewState
    <3> QED
      BY <1>3, <1>4, <2>1, <3>1, AnthropicNew DEF Tracks, Anthropic!New
  <2>2. CASE dialect = "OpenAiChat"
    BY <2>2 DEF Tracks
  <2>3. CASE dialect = "OpenAiResponses"
    <3>1. state = Responses!New
      BY <1>1, <2>3 DEF NewState
    <3>2. state.last_seq = -1
      BY <3>1 DEF Responses!New, Responses!NoSeq
    <3> QED
      BY <1>2, <2>3, <3>1, <3>2, ResponsesNew DEF Tracks
  <2> QED
    BY <1>1, <2>1, <2>2, <2>3 DEF AllDialects
<1> QED
  BY <1>5, <1>6, InitIInv, TakenWhole DEF LInv

LEMMA EventLegal ==
  ASSUME LInv, IInv', NEW f \in Events[dialect], Event(f)
  PROVE  LInv'
<1>1. PICK r : r = push(f)
  OBVIOUS
<1>2. /\ phase = "streaming" /\ dialect' = dialect
      /\ body' = Append(body, f) /\ state' = r.de
      /\ items' = CASE r.kind = "chunk"   -> Append(items, Ok(r.chunk))
                    [] r.kind = "nothing" -> items
                    [] r.kind \in Errors  -> Append(items, Err(r.kind))
      /\ phase' = IF \/ r.kind \in Errors
                     \/ r.kind = "nothing" /\ finalize(r.de)
                  THEN "ended" ELSE phase
  BY <1>1 DEF Event
<1>3. /\ IsSeq(body) /\ IsSeq(items) /\ Open /\ dialect \in Dialects /\ dialect \in AllDialects
      /\ Tracks(dialect, state, body) /\ Acceptable(dialect, body)
  BY <1>2, DialectsAssumption DEF IInv, LInv, AllDialects
<1>4. OneMore(body', body, f)
  BY <1>2, <1>3, AppendFacts
<1>5. CASE r.kind \in Errors
  <2>1. items' = Append(items, Err(r.kind)) /\ phase' = "ended"
    BY <1>2, <1>5 DEF Errors
  <2>2. PICK kind \in Errors : items' = Append(items, Err(kind))
    BY <1>5, <2>1
  <2>3. Failed'
    BY <1>2, <1>3, <2>1, <2>2, GiveError DEF LInv
  <2>4. Acceptable(dialect', body)
    BY <1>2, <1>3
  <2>5. OnlyAcceptable'
    BY <1>3, <1>4, <2>3, <2>4, TakenFront
  <2> QED
    BY <2>1, <2>5 DEF LInv
<1>6. CASE r.kind \notin Errors
  <2>1. Tracks(dialect, r.de, body') /\ Acceptable(dialect, body')
    <3>1. CASE dialect = "Anthropic"
      <4>1. r = Anthropic!push(state, f)
        BY <1>1, <3>1 DEF push
      <4>2. Passed(state, f, r.de)
        BY <1>3, <1>6, <3>1, <4>1, AnthropicPasses DEF Tracks
      <4> QED
        BY <1>3, <1>4, <3>1, <4>2, AnthropicLegal
    <3>2. CASE dialect = "OpenAiChat"
      <4>1. r = Chat!push_data(state, f)
        BY <1>1, <3>2 DEF push
      <4>2. f.ev \in {"chunk", "done", "error", "garbage"}
        BY <1>3, <3>2, PayloadsAssumption
      <4>3. f.ev # "garbage"
        BY <1>3, <1>6, <3>2, <4>1, <4>2, ChatPasses DEF Open
      <4>4. Acceptable(dialect, body')
        BY <1>3, <1>4, <3>2, <4>3, ChatLegal
      <4> QED
        BY <3>2, <4>4 DEF Tracks
    <3>3. CASE dialect = "OpenAiResponses"
      <4>1. r = Responses!push(state, f)
        BY <1>1, <3>3 DEF push
      <4>2. f.seq \in Int
        BY <1>3, <3>3, NumbersAssumption
      <4> QED
        BY <1>3, <1>4, <1>6, <3>3, <4>1, <4>2, ResponsesLegal
    <3> QED
      BY <1>3, <3>1, <3>2, <3>3 DEF AllDialects
  <2>2. Tracks(dialect, state, body)' /\ Acceptable(dialect, body)'
    BY <1>2, <2>1
  <2>3. OnlyAcceptable'
    BY <2>2, TakenWhole
  <2> QED
    BY <2>2, <2>3 DEF LInv
<1> QED
  BY <1>5, <1>6

LEMMA NextLegal == LInv /\ [Next]_vars => LInv'
<1> SUFFICES ASSUME LInv, [Next]_vars PROVE LInv'
  OBVIOUS
<1>1. IInv'
  BY NextIInv DEF LInv
<1>2. CASE \E f \in Events[dialect] : Event(f)
  BY <1>1, <1>2, EventLegal
<1>3. ASSUME phase # "ended", UNCHANGED <<dialect, state, body>> PROVE LInv'
  <2>1. Tracks(dialect, state, body) /\ Acceptable(dialect, body)
    BY <1>3 DEF LInv
  <2>2. Tracks(dialect, state, body)' /\ Acceptable(dialect, body)'
    BY <1>3, <2>1
  <2> QED
    BY <1>1, <2>2, TakenWhole DEF LInv
<1>4. CASE Refused
  BY <1>3, <1>4 DEF Refused
<1>5. CASE Answered
  BY <1>3, <1>5 DEF Answered
<1>6. CASE Broken
  BY <1>3, <1>6 DEF Broken
<1>7. CASE Eof
  BY <1>3, <1>7 DEF Eof
<1>8. CASE UNCHANGED vars
  <2>1. UNCHANGED <<dialect, state, body, items, phase>>
    BY <1>8 DEF vars
  <2>2. OnlyAcceptable'
    BY <2>1 DEF LInv, OnlyAcceptable, Taken, Failed
  <2>3. (phase # "ended" => Tracks(dialect, state, body) /\ Acceptable(dialect, body))'
    BY <2>1 DEF LInv
  <2> QED
    BY <1>1, <2>2, <2>3 DEF LInv
<1> QED
  BY <1>2, <1>4, <1>5, <1>6, <1>7, <1>8 DEF Next

(* Whatever an upstream sends, a deframer takes no event whose data does   *)
(* not parse, no delta or stop of a block that is not open, no second      *)
(* message_start or message_delta and no sequence number that does not     *)
(* grow: the stream fails on it (push of the three deframers).             *)
THEOREM AcceptableTaken == Spec => []OnlyAcceptable
<1>1. Init => LInv
  BY InitLegal
<1>2. LInv /\ [Next]_vars => LInv'
  BY NextLegal
<1>3. LInv => OnlyAcceptable
  BY DEF LInv
<1> QED
  BY <1>1, <1>2, <1>3, PTL DEF Spec

-----------------------------------------------------------------------------
(* A chat upstream puts no words in a payload without a choice, nor in the *)
(* preamble with the role, which the deframer skips whole                  *)
WordsInChoices ==
  "OpenAiChat" \in Dialects =>
    \A f \in Events["OpenAiChat"] :
      f.delta.delta_text # <<>> => f.ev = "chunk" /\ f.choices /\ ~f.role

(* Of a given item: the words it brings, and that it brings something      *)
Spoken(e) == e.chunk.delta_text

Telling(e) == e.kind = "chunk" => HasPayload(e.chunk) \/ e.chunk.input_tokens # NoTokens

(* What a push that does not fail surfaces are the words of the event *)
Repeats(r, d, f) ==
  /\ r.kind = "chunk" =>
       r.chunk.delta_text = Said(d, f) /\ Telling(Ok(r.chunk))
  /\ r.kind = "nothing" => Said(d, f) = <<>>

LEMMA EmptyIsText == <<>> \in Texts
BY EmptySeq DEF Texts

LEMMA AnthropicRepeats ==
  ASSUME NEW s, NEW f, f.text \in Texts, f.usage.input \in Nat \cup {NoTokens},
         NEW r, r = Anthropic!push(s, f), r.kind \notin Errors
  PROVE  Repeats(r, "Anthropic", f)
<1> USE DEF Anthropic!Surface, Anthropic!Nothing, Anthropic!Transport, Anthropic!Upstream,
            Anthropic!Out, Anthropic!SurfaceIf, Errors
<1>1. CASE f.ev = "content_block_delta"
  <2>1. r = Anthropic!content_block_delta(s, f)
    BY <1>1 DEF Anthropic!push
  <2>2. PICK c : c = Anthropic!Delta(f)
    OBVIOUS
  <2>3. \/ r.kind = "chunk" /\ r.chunk = c /\ Anthropic!HasPayload(c)
        \/ r.kind = "nothing" /\ ~Anthropic!HasPayload(c)
    BY <2>1, <2>2 DEF Anthropic!content_block_delta
  <2>4. c.delta_text = Said("Anthropic", f)
    BY <1>1, <2>2 DEF Anthropic!Delta, Anthropic!EmptyChunk, Said
  <2>5. Anthropic!HasPayload(c) <=> HasPayload(c)
    BY DEF Anthropic!HasPayload, HasPayload
  <2>6. ~HasPayload(c) => c.delta_text = <<>>
    BY DEF HasPayload
  <2> QED
    BY <2>3, <2>4, <2>5, <2>6 DEF Repeats, Telling, Ok
<1>2. CASE f.ev # "content_block_delta"
  <2>1. Said("Anthropic", f) = <<>>
    BY <1>2 DEF Said
  <2>2. r.kind = "chunk" => r.chunk.delta_text = <<>> /\ Telling(Ok(r.chunk))
    <3>1. CASE f.ev = "message_start"
      <4>1. r = Anthropic!message_start(s, f)
        BY <3>1 DEF Anthropic!push
      <4>2. r.kind = "chunk" =>
              /\ f.usage.input # Anthropic!NoTokens
              /\ r.chunk = [Anthropic!EmptyChunk EXCEPT !.input_tokens = f.usage.input]
        BY <4>1 DEF Anthropic!message_start
      <4> QED
        BY <4>2 DEF Anthropic!EmptyChunk, Anthropic!NoTokens, NoTokens, Telling, Ok
    <3>2. CASE f.ev = "message_delta"
      <4>1. r = Anthropic!message_delta(s, f)
        BY <3>2 DEF Anthropic!push
      <4>2. PICK fin : fin = Anthropic!map_stop_reason_inbound(f.kind)
        OBVIOUS
      <4>3. PICK u : u = Anthropic!inclusive(f.usage) /\ u.given
        <5>1. Anthropic!inclusive(f.usage).given
          BY DEF Anthropic!inclusive
        <5> QED
          BY <5>1
      <4>4. r.kind = "chunk" =>
              r.chunk = [Anthropic!EmptyChunk EXCEPT !.finish = fin, !.usage = u]
        BY <4>1, <4>2, <4>3 DEF Anthropic!message_delta
      <4>5. r.kind = "chunk" => r.chunk.delta_text = <<>> /\ r.chunk.usage = u
        BY <4>4 DEF Anthropic!EmptyChunk
      <4> QED
        BY <4>3, <4>5 DEF Telling, Ok, HasPayload
    <3>3. CASE f.ev \notin {"message_start", "message_delta"}
      <4>1. r.kind # "chunk"
        BY <1>2, <3>3 DEF Anthropic!push, Anthropic!content_block_start,
                          Anthropic!content_block_stop
      <4> QED
        BY <4>1
    <3> QED
      BY <3>1, <3>2, <3>3
  <2> QED
    BY <2>1, <2>2 DEF Repeats
<1> QED
  BY <1>1, <1>2

LEMMA ChatRepeats ==
  ASSUME NEW s, ~s.done_seen, NEW f, f.ev \in {"chunk", "done", "error", "garbage"},
         f.delta \in CanonChunk,
         f.delta.delta_text # <<>> => f.ev = "chunk" /\ f.choices /\ ~f.role,
         NEW r, r = Chat!push_data(s, f), r.kind \notin Errors
  PROVE  Repeats(r, "OpenAiChat", f)
<1> USE DEF Chat!Surface, Chat!Nothing, Chat!Transport, Chat!Upstream, Chat!Out,
            Chat!SurfaceIf, Errors
<1>1. Said("OpenAiChat", f) = f.delta.delta_text
  BY DEF Said
<1>2. CASE f.ev = "chunk"
  <2>1. r = Chat!chunk_from(s, f)
    BY <1>2 DEF Chat!push_data
  <2>2. PICK u : u = IF f.usage.given THEN Chat!usage_from(f.usage) ELSE Chat!NoUsage
    OBVIOUS
  <2>3. PICK c : c = [f.delta EXCEPT !.usage = u]
    OBVIOUS
  <2>4. c.delta_text = f.delta.delta_text
    BY <2>3 DEF CanonChunk
  <2>5. CASE ~f.choices
    <3>1. r.kind = "chunk" => f.usage.given /\ r.chunk = [Chat!EmptyChunk EXCEPT !.usage = u]
      BY <2>1, <2>2, <2>5 DEF Chat!chunk_from
    <3>2. f.usage.given => u.given
      BY <2>2 DEF Chat!usage_from
    <3>3. f.delta.delta_text = <<>>
      BY <2>5
    <3> QED
      BY <1>1, <3>1, <3>2, <3>3 DEF Repeats, Telling, Ok, HasPayload, Chat!EmptyChunk
  <2>6. CASE f.choices
    <3>1. \/ r.kind = "chunk" /\ r.chunk = c /\ Chat!HasPayload(c)
          \/ r.kind = "nothing" /\ (f.role \/ ~Chat!HasPayload(c))
      BY <2>1, <2>2, <2>3, <2>6 DEF Chat!chunk_from
    <3>2. Chat!HasPayload(c) <=> HasPayload(c)
      BY DEF Chat!HasPayload, HasPayload
    <3>3. ~HasPayload(c) => c.delta_text = <<>>
      BY DEF HasPayload
    <3> QED
      BY <1>1, <2>4, <3>1, <3>2, <3>3 DEF Repeats, Telling, Ok
  <2> QED
    BY <2>5, <2>6
<1>3. CASE f.ev # "chunk"
  <2>1. f.delta.delta_text = <<>>
    BY <1>3
  <2>2. r.kind # "chunk"
    BY <1>3 DEF Chat!push_data, Chat!push_done
  <2> QED
    BY <1>1, <2>1, <2>2 DEF Repeats
<1> QED
  BY <1>2, <1>3

(* The terminal chunk, part by part *)
LEMMA TerminalParts ==
  ASSUME NEW d, NEW f, NEW c, c = Responses!terminal_chunk(d, f),
         NEW calls, calls = Responses!FinalCalls(d),
         NEW th, th = Responses!JoinedTexts(d, Responses!ItemsOf(d, "reasoning"))
  PROVE  /\ c.delta_text = <<>> /\ c.finish # "none"
         /\ c.calls = calls /\ c.thinking.text = th
         /\ c.finish = IF calls # <<>> /\ Responses!finish_reason(f) = "stop"
                       THEN "tool_calls" ELSE Responses!finish_reason(f)
<1>1. PICK fin : fin = Responses!finish_reason(f) /\ fin \in {"stop", "length", "content_filter"}
  BY DEF Responses!finish_reason
<1>2. PICK u : u = [f.usage EXCEPT !.given = TRUE, !.cache_write = 0]
  OBVIOUS
<1>3. c = [Responses!EmptyChunk EXCEPT
             !.usage = u,
             !.thinking = IF th = <<>> THEN @ ELSE [kind |-> "thinking", text |-> th],
             !.has_calls = calls # <<>>, !.calls = calls,
             !.finish = IF calls # <<>> /\ fin = "stop" THEN "tool_calls" ELSE fin]
  BY <1>1, <1>2 DEF Responses!terminal_chunk
<1>4. /\ c.delta_text = <<>> /\ c.calls = calls
      /\ c.finish = IF calls # <<>> /\ fin = "stop" THEN "tool_calls" ELSE fin
      /\ c.thinking = IF th = <<>> THEN [kind |-> "none", text |-> <<>>]
                      ELSE [kind |-> "thinking", text |-> th]
  BY <1>3 DEF Responses!EmptyChunk
<1>5. c.thinking.text = th
  BY <1>4
<1> QED
  BY <1>1, <1>4, <1>5

LEMMA ResponsesRepeats ==
  ASSUME NEW s, NEW f, f.text \in Texts,
         NEW r, r = Responses!push(s, f), r.kind \notin Errors
  PROVE  Repeats(r, "OpenAiResponses", f)
<1> USE DEF Responses!Surface, Responses!Nothing, Responses!Transport, Responses!Upstream,
            Responses!Out, Responses!SurfaceIf, Errors
<1>1. PICK d : r = Responses!dispatch(d, f)
  BY DEF Responses!push
<1>2. CASE f.ev = "output_text.delta"
  <2>1. r = Responses!output_text_delta(d, f)
    BY <1>1, <1>2 DEF Responses!dispatch
  <2>2. \/ /\ r.kind = "chunk" /\ f.text # <<>>
           /\ r.chunk = [Responses!EmptyChunk EXCEPT !.delta_text = f.text]
        \/ r.kind = "nothing" /\ f.text = <<>>
    BY <2>1 DEF Responses!output_text_delta
  <2>3. Said("OpenAiResponses", f) = f.text
    BY <1>2 DEF Said
  <2> QED
    BY <2>2, <2>3 DEF Repeats, Telling, Ok, HasPayload, Responses!EmptyChunk
<1>3. CASE f.ev # "output_text.delta"
  <2>1. Said("OpenAiResponses", f) = <<>>
    BY <1>3 DEF Said
  <2>2. CASE f.ev \in {"completed", "incomplete"}
    <3>1. r.kind = "chunk" /\ r.chunk = Responses!terminal_chunk(d, f)
      BY <1>1, <2>2 DEF Responses!dispatch
    <3>2. r.chunk.delta_text = <<>> /\ r.chunk.finish # "none"
      BY <3>1, TerminalParts
    <3> QED
      BY <2>1, <3>1, <3>2 DEF Repeats, Telling, Ok, HasPayload
  <2>3. CASE f.ev \notin {"completed", "incomplete"}
    <3>1. r.kind # "chunk"
      BY <1>1, <1>3, <2>3 DEF Responses!dispatch, Responses!output_item_added
    <3> QED
      BY <2>1, <3>1 DEF Repeats
  <2> QED
    BY <2>2, <2>3
<1> QED
  BY <1>2, <1>3

-----------------------------------------------------------------------------
(* What items and events say, one after another *)
TextIn(its) == FlattenSeq([k \in DOMAIN its |-> its[k].chunk.delta_text])

SaidIn(d, q) == FlattenSeq([k \in DOMAIN q |-> Said(d, q[k])])

LEMMA TextInMore ==
  ASSUME NEW p, NEW q, NEW e, OneMore(p, q, e), \A k \in DOMAIN p : Spoken(p[k]) \in Texts
  PROVE  TextIn(q) \in Texts /\ TextIn(p) = TextIn(q) \o Spoken(e)
<1>1. PICK n \in Nat : n = Len(q)
  BY DEF OneMore
<1>2. /\ DOMAIN q = 1 .. n /\ DOMAIN p = 1 .. n + 1 /\ p[n + 1] = e
      /\ \A m \in 1 .. n : p[m] = q[m]
  BY <1>1 DEF OneMore
<1>3. PICK g : g = [k \in 1 .. n |-> q[k].chunk.delta_text]
  OBVIOUS
<1>4. PICK h : h = [k \in 1 .. n + 1 |-> p[k].chunk.delta_text]
  OBVIOUS
<1>5. h \in [1 .. n + 1 -> Seq(Char)]
  BY <1>2, <1>4 DEF Spoken, Texts
<1>6. \A k \in 1 .. n : k \in 1 .. n + 1 /\ h[k] = g[k]
  BY <1>2, <1>3, <1>4
<1>7. g \in [1 .. n -> Seq(Char)]
  BY <1>3, <1>5, <1>6
<1>8. FlattenSeq(g) \in Seq(Char) /\ FlattenSeq(h) = FlattenSeq(g) \o h[n + 1]
  BY <1>5, <1>6, <1>7, JoinOneMore
<1>9. h[n + 1] = Spoken(e)
  BY <1>2, <1>4 DEF Spoken
<1>10. TextIn(q) = FlattenSeq(g) /\ TextIn(p) = FlattenSeq(h)
  BY <1>2, <1>3, <1>4 DEF TextIn
<1> QED
  BY <1>8, <1>9, <1>10 DEF Texts

LEMMA SaidInMore ==
  ASSUME NEW d, NEW p, NEW q, NEW f, OneMore(p, q, f), \A k \in DOMAIN p : Said(d, p[k]) \in Texts
  PROVE  SaidIn(d, q) \in Texts /\ SaidIn(d, p) = SaidIn(d, q) \o Said(d, f)
<1>1. PICK n \in Nat : n = Len(q)
  BY DEF OneMore
<1>2. /\ DOMAIN q = 1 .. n /\ DOMAIN p = 1 .. n + 1 /\ p[n + 1] = f
      /\ \A m \in 1 .. n : p[m] = q[m]
  BY <1>1 DEF OneMore
<1>3. PICK g : g = [k \in 1 .. n |-> Said(d, q[k])]
  OBVIOUS
<1>4. PICK h : h = [k \in 1 .. n + 1 |-> Said(d, p[k])]
  OBVIOUS
<1>5. h \in [1 .. n + 1 -> Seq(Char)]
  BY <1>2, <1>4 DEF Texts
<1>6. \A k \in 1 .. n : k \in 1 .. n + 1 /\ h[k] = g[k]
  BY <1>2, <1>3, <1>4
<1>7. g \in [1 .. n -> Seq(Char)]
  BY <1>3, <1>5, <1>6
<1>8. FlattenSeq(g) \in Seq(Char) /\ FlattenSeq(h) = FlattenSeq(g) \o h[n + 1]
  BY <1>5, <1>6, <1>7, JoinOneMore
<1>9. h[n + 1] = Said(d, f)
  BY <1>2, <1>4
<1>10. SaidIn(d, q) = FlattenSeq(g) /\ SaidIn(d, p) = FlattenSeq(h)
  BY <1>2, <1>3, <1>4 DEF SaidIn
<1> QED
  BY <1>8, <1>9, <1>10 DEF Texts

LEMMA NothingSaid ==
  /\ TextIn(<<>>) = <<>>
  /\ \A d : SaidIn(d, <<>>) = <<>>
<1>1. PICK e : e = <<>> /\ Len(e) = 0 /\ DOMAIN e = {}
  BY EmptyFacts
<1>2. FlattenSeq(e) = <<>>
  BY <1>1 DEF FlattenSeq
<1>3. TextIn(e) = FlattenSeq(e)
  <2>1. [k \in DOMAIN e |-> e[k].chunk.delta_text] = e
    BY <1>1
  <2> QED
    BY <2>1 DEF TextIn
<1>4. ASSUME NEW d PROVE SaidIn(d, e) = FlattenSeq(e)
  <2>1. [k \in DOMAIN e |-> Said(d, e[k])] = e
    BY <1>1
  <2> QED
    BY <2>1 DEF SaidIn
<1> QED
  BY <1>1, <1>2, <1>3, <1>4

(* An event of the alphabet says a text *)
LEMMA SaidType ==
  ASSUME NEW d \in Dialects, NEW f \in Events[d]
  PROVE  Said(d, f) \in Texts
<1>1. CASE d = "Anthropic"
  BY <1>1, WordsAssumption, EmptyIsText DEF Said
<1>2. CASE d = "OpenAiChat"
  <2>1. f.delta \in CanonChunk
    BY <1>2, WordsAssumption
  <2> QED
    BY <1>2, <2>1 DEF Said, CanonChunk
<1>3. CASE d = "OpenAiResponses"
  BY <1>3, WordsAssumption, EmptyIsText DEF Said
<1> QED
  BY <1>1, <1>2, <1>3, DialectsAssumption

(* The items say what the events say that were taken, and those of a       *)
(* stream that goes on are all there are                                   *)
Voiced(its) == \A k \in DOMAIN its : Spoken(its[k]) \in Texts /\ Telling(its[k])

Drawn == \A k \in DOMAIN body : body[k] \in Events[dialect]

SInv ==
  /\ LInv
  /\ Voiced(items) /\ Drawn
  /\ phase # "ended" => TextIn(items) = SaidIn(dialect, body)
  /\ TextOnce

LEMMA TextOnceFrom ==
  /\ \A q \in Taken : TextIn(items) = SaidIn(dialect, q) /\ Voiced(items) => TextOnce
  /\ \A q \in Taken' : TextIn(items') = SaidIn(dialect', q) /\ Voiced(items') => TextOnce'
BY DEF TextOnce, ItemText, SaidText, TextIn, SaidIn, Voiced, Telling

LEMMA GiveOne ==
  ASSUME NEW q, NEW e, IsSeq(q), Voiced(q), Spoken(e) \in Texts, Telling(e),
         NEW p, p = Append(q, e)
  PROVE  Voiced(p) /\ TextIn(q) \in Texts /\ TextIn(p) = TextIn(q) \o Spoken(e)
<1>1. OneMore(p, q, e)
  BY AppendFacts
<1>2. \A k \in DOMAIN p : p[k] = e \/ (k \in DOMAIN q /\ p[k] = q[k])
  BY <1>1 DEF OneMore
<1>3. Voiced(p)
  BY <1>2 DEF Voiced
<1> QED
  BY <1>1, <1>3, TextInMore DEF Voiced

LEMMA GiveErr ==
  ASSUME NEW q, NEW kind \in Errors, IsSeq(q), Voiced(q), NEW p, p = Append(q, Err(kind))
  PROVE  Voiced(p) /\ TextIn(p) = TextIn(q)
<1>1. PICK e : e = Err(kind)
  OBVIOUS
<1>2. Spoken(e) = <<>> /\ Telling(e)
  BY <1>1 DEF Spoken, Telling, Err, EmptyChunk, Errors
<1>3. Voiced(p) /\ TextIn(q) \in Texts /\ TextIn(p) = TextIn(q) \o Spoken(e)
  BY <1>1, <1>2, EmptyIsText, GiveOne
<1>4. TextIn(q) \o <<>> = TextIn(q)
  BY <1>3, ConcatEmptySeq DEF Texts
<1> QED
  BY <1>2, <1>3, <1>4

LEMMA InitSays == Init => SInv
<1> SUFFICES ASSUME Init PROVE SInv
  OBVIOUS
<1>1. body = <<>> /\ items = <<>>
  BY DEF Init
<1>2. DOMAIN body = {} /\ DOMAIN items = {}
  BY <1>1, EmptyFacts
<1>3. Voiced(items) /\ Drawn
  BY <1>2 DEF Voiced, Drawn
<1>4. TextIn(items) = SaidIn(dialect, body)
  BY <1>1, NothingSaid
<1>5. body \in Taken
  BY DEF Taken
<1>6. TextOnce
  BY <1>3, <1>4, <1>5, TextOnceFrom
<1> QED
  BY <1>3, <1>4, <1>6, InitLegal DEF SInv

LEMMA PushKinds ==
  ASSUME IInv, phase = "streaming", NEW f \in Events[dialect],
         NEW r, r = push(f), r.kind \notin Errors
  PROVE  r.kind \in {"chunk", "nothing"}
<1>1. dialect \in Dialects /\ Open
  BY DEF IInv
<1>2. CASE dialect = "Anthropic"
  BY <1>1, <1>2, AnthropicPush DEF Open, push
<1>3. CASE dialect = "OpenAiChat"
  <2>1. f.ev \in {"chunk", "done", "error", "garbage"}
    BY <1>1, <1>3, PayloadsAssumption
  <2> QED
    BY <1>1, <1>3, <2>1, ChatPush DEF Open, push
<1>4. CASE dialect = "OpenAiResponses"
  BY <1>1, <1>4, ResponsesPush DEF Open, push
<1> QED
  BY <1>1, <1>2, <1>3, <1>4, DialectsAssumption

LEMMA EventRepeats ==
  ASSUME WordsInChoices, IInv, phase = "streaming", NEW f \in Events[dialect],
         NEW r, r = push(f), r.kind \notin Errors
  PROVE  Repeats(r, dialect, f)
<1>1. dialect \in Dialects /\ Open
  BY DEF IInv
<1>2. CASE dialect = "Anthropic"
  <2>1. r = Anthropic!push(state, f)
    BY <1>2 DEF push
  <2>2. f.text \in Texts /\ f.usage.input \in Nat \cup {NoTokens}
    BY <1>1, <1>2, WordsAssumption
  <2> QED
    BY <1>2, <2>1, <2>2, AnthropicRepeats
<1>3. CASE dialect = "OpenAiChat"
  <2>1. r = Chat!push_data(state, f) /\ ~state.done_seen
    BY <1>1, <1>3 DEF push, Open
  <2>2. f.delta \in CanonChunk /\ f.ev \in {"chunk", "done", "error", "garbage"}
    BY <1>1, <1>3, WordsAssumption, PayloadsAssumption
  <2>3. f.delta.delta_text # <<>> => f.ev = "chunk" /\ f.choices /\ ~f.role
    BY <1>1, <1>3 DEF WordsInChoices
  <2> QED
    BY <1>3, <2>1, <2>2, <2>3, ChatRepeats
<1>4. CASE dialect = "OpenAiResponses"
  <2>1. r = Responses!push(state, f)
    BY <1>4 DEF push
  <2>2. f.text \in Texts
    BY <1>1, <1>4, WordsAssumption
  <2> QED
    BY <1>4, <2>1, <2>2, ResponsesRepeats
<1> QED
  BY <1>1, <1>2, <1>3, <1>4, DialectsAssumption

LEMMA EventSays ==
  ASSUME WordsInChoices, SInv, LInv', NEW f \in Events[dialect], Event(f)
  PROVE  SInv'
<1>1. PICK r : r = push(f)
  OBVIOUS
<1>2. /\ phase = "streaming" /\ dialect' = dialect /\ body' = Append(body, f)
      /\ items' = CASE r.kind = "chunk"   -> Append(items, Ok(r.chunk))
                    [] r.kind = "nothing" -> items
                    [] r.kind \in Errors  -> Append(items, Err(r.kind))
      /\ phase' = IF \/ r.kind \in Errors
                     \/ r.kind = "nothing" /\ finalize(r.de)
                  THEN "ended" ELSE phase
  BY <1>1 DEF Event
<1>3. /\ IInv /\ dialect \in Dialects /\ IsSeq(body) /\ IsSeq(items)
      /\ Voiced(items) /\ Drawn /\ TextIn(items) = SaidIn(dialect, body)
  BY <1>2 DEF SInv, LInv, IInv
<1>4. OneMore(body', body, f)
  BY <1>2, <1>3, AppendFacts
<1>5. \A k \in DOMAIN body' : body'[k] \in Events[dialect]
  BY <1>3, <1>4 DEF OneMore, Drawn
<1>6. Drawn'
  BY <1>2, <1>5 DEF Drawn
<1>7. SaidIn(dialect, body) \in Texts /\ SaidIn(dialect, body') = SaidIn(dialect, body) \o Said(dialect, f)
  <2>1. \A k \in DOMAIN body' : Said(dialect, body'[k]) \in Texts
    BY <1>3, <1>5, SaidType
  <2> QED
    BY <1>4, <2>1, SaidInMore
<1>8. CASE r.kind \in Errors
  <2>1. items' = Append(items, Err(r.kind)) /\ phase' = "ended"
    BY <1>2, <1>8 DEF Errors
  <2>2. Voiced(items') /\ TextIn(items') = TextIn(items)
    BY <1>3, <1>8, <2>1, GiveErr
  <2>3. Failed'
    <3>1. PICK kind \in Errors : items' = Append(items, Err(kind))
      BY <1>8, <2>1
    <3> QED
      BY <1>2, <1>3, <2>1, <3>1, GiveError
  <2>4. body \in Taken'
    <3>1. Front(body') = body /\ body' # <<>>
      BY <1>3, <1>4, FrontOfMore DEF OneMore
    <3> QED
      BY <2>3, <3>1 DEF Taken
  <2>5. TextIn(items') = SaidIn(dialect', body)
    BY <1>2, <1>3, <2>2
  <2>6. TextOnce'
    BY <2>2, <2>4, <2>5, TextOnceFrom
  <2> QED
    BY <1>6, <2>1, <2>2, <2>6 DEF SInv
<1>9. CASE r.kind \notin Errors
  <2>1. Repeats(r, dialect, f)
    BY <1>1, <1>2, <1>3, <1>9, EventRepeats
  <2>2. r.kind \in {"chunk", "nothing"}
    BY <1>1, <1>2, <1>3, <1>9, PushKinds
  <2>3. Voiced(items') /\ TextIn(items') = TextIn(items) \o Said(dialect, f)
    <3>1. CASE r.kind = "chunk"
      <4>1. PICK e : e = Ok(r.chunk)
        OBVIOUS
      <4>2. items' = Append(items, e)
        BY <1>2, <1>9, <3>1, <4>1
      <4>3. Spoken(e) = Said(dialect, f) /\ Telling(e)
        BY <2>1, <3>1, <4>1 DEF Repeats, Spoken, Ok
      <4>4. Spoken(e) \in Texts
        BY <1>3, <4>3, SaidType
      <4>5. Voiced(items') /\ TextIn(items') = TextIn(items) \o Spoken(e)
        BY <1>3, <4>2, <4>3, <4>4, GiveOne
      <4> QED
        BY <4>3, <4>5
    <3>2. CASE r.kind = "nothing"
      <4>1. items' = items
        BY <1>2, <1>9, <3>2
      <4>2. Said(dialect, f) = <<>>
        BY <2>1, <3>2 DEF Repeats
      <4>3. TextIn(items) \o <<>> = TextIn(items)
        BY <1>3, <1>7, ConcatEmptySeq DEF Texts
      <4> QED
        BY <1>3, <4>1, <4>2, <4>3
    <3> QED
      BY <2>2, <3>1, <3>2
  <2>4. TextIn(items') = SaidIn(dialect', body')
    BY <1>2, <1>3, <1>7, <2>3
  <2>5. body' \in Taken'
    BY DEF Taken
  <2>6. TextOnce'
    BY <2>3, <2>4, <2>5, TextOnceFrom
  <2> QED
    BY <1>6, <2>3, <2>4, <2>6 DEF SInv
<1> QED
  BY <1>8, <1>9

LEMMA NextSays == WordsInChoices /\ SInv /\ [Next]_vars => SInv'
<1> SUFFICES ASSUME WordsInChoices, SInv, [Next]_vars PROVE SInv'
  OBVIOUS
<1>1. LInv'
  BY NextLegal DEF SInv
<1>2. CASE \E f \in Events[dialect] : Event(f)
  BY <1>1, <1>2, EventSays
<1>3. ASSUME phase # "ended", UNCHANGED <<dialect, body>>,
             items' = items \/ (\E kind \in Errors : items' = Append(items, Err(kind)))
      PROVE  SInv'
  <2>1. IsSeq(items) /\ Voiced(items) /\ Drawn /\ TextIn(items) = SaidIn(dialect, body)
    BY <1>3 DEF SInv, LInv, IInv
  <2>2. Voiced(items') /\ TextIn(items') = TextIn(items)
    BY <1>3, <2>1, GiveErr
  <2>3. TextIn(items') = SaidIn(dialect', body') /\ Drawn'
    BY <1>3, <2>1, <2>2 DEF Drawn
  <2>4. body' \in Taken'
    BY DEF Taken
  <2>5. TextOnce'
    BY <2>2, <2>3, <2>4, TextOnceFrom
  <2> QED
    BY <1>1, <2>2, <2>3, <2>5 DEF SInv
<1>4. CASE Refused
  <2>1. PICK kind \in Errors : items' = <<Err(kind)>>
    BY <1>4 DEF Refused
  <2>2. items = <<>>
    BY <1>4 DEF Refused, SInv, LInv, IInv
  <2>3. items' = Append(items, Err(kind))
    BY <2>1, <2>2
  <2> QED
    BY <1>3, <1>4, <2>3 DEF Refused
<1>5. CASE Answered
  BY <1>3, <1>5 DEF Answered
<1>6. CASE Broken
  BY <1>3, <1>6 DEF Broken, Errors
<1>7. CASE Eof
  BY <1>3, <1>7 DEF Eof, Errors
<1>8. CASE UNCHANGED vars
  <2>1. UNCHANGED <<dialect, state, body, items, phase>>
    BY <1>8 DEF vars
  <2>2. TextOnce'
    BY <2>1 DEF SInv, TextOnce, ItemText, SaidText, Taken, Failed
  <2> QED
    BY <1>1, <2>1, <2>2 DEF SInv, Drawn
<1> QED
  BY <1>2, <1>4, <1>5, <1>6, <1>7, <1>8 DEF Next

(* The words of the upstream reach the caller once, in order and none left *)
(* out, whatever it sends and wherever the stream ends, and no chunk is    *)
(* empty (push of the three deframers, resp_stream).                       *)
THEOREM TextArrivesOnce == WordsInChoices => (Spec => []TextOnce)
<1> SUFFICES ASSUME WordsInChoices PROVE Spec => []TextOnce
  OBVIOUS
<1>1. Init => SInv
  BY InitSays
<1>2. SInv /\ [Next]_vars => SInv'
  BY NextSays
<1>3. SInv => TextOnce
  BY DEF SInv
<1> QED
  BY <1>1, <1>2, <1>3, PTL DEF Spec

-----------------------------------------------------------------------------
(* Positions in output order *)
LEMMA SameFlatten ==
  ASSUME NEW q
  PROVE  Responses!FlattenSeq(q) = FlattenSeq(q)
BY DEF Responses!FlattenSeq, FlattenSeq

LEMMA HighestNat ==
  ASSUME NEW N \in Nat, NEW S, S \subseteq 1 .. N
  PROVE  Responses!Max(S \cup {0}) \in Nat
<1>1. PICK T : T = {n \in Nat : \A p \in S \cup {0} : p <= n}
  OBVIOUS
<1>2. N \in T /\ T \subseteq Nat
  BY <1>1
<1>3. PICK x \in T : \A y \in T : x <= y
  BY <1>2, LeastNat
<1>4. x \in Nat /\ \A p \in S \cup {0} : p \in Nat /\ p <= x
  BY <1>1, <1>3
<1>5. x \in S \cup {0}
  <2> SUFFICES ASSUME x \notin S \cup {0} PROVE FALSE
    OBVIOUS
  <2>1. x # 0 /\ x - 1 \in Nat
    BY <1>4
  <2>2. \A p \in S \cup {0} : p <= x - 1
    BY <1>4, <2>1
  <2>3. x - 1 \in T
    BY <1>1, <2>1, <2>2
  <2> QED
    BY <1>3, <1>4, <2>3
<1>6. \E y \in S \cup {0} : \A p \in S \cup {0} : y >= p
  BY <1>4, <1>5
<1>7. Responses!Max(S \cup {0}) \in S \cup {0}
  BY <1>6 DEF Responses!Max
<1> QED
  BY <1>4, <1>7

LEMMA InOrderInside ==
  ASSUME NEW N \in Nat, NEW S, S \subseteq 1 .. N
  PROVE  Responses!InOrder(S) \in Seq(S)
<1>1. PICK n \in Nat : n = Responses!Max(S \cup {0})
  BY HighestNat
<1>2. PICK g : g = [p \in 1 .. n |-> IF p \in S THEN <<p>> ELSE <<>>]
  OBVIOUS
<1>3. <<>> \in Seq(S)
  BY EmptySeq
<1>4. \A p \in S : <<p>> \in Seq(S)
  OBVIOUS
<1>5. g \in [1 .. n -> Seq(S)]
  BY <1>2, <1>3, <1>4
<1>6. g \in Seq(Seq(S))
  BY <1>5
<1>7. FlattenSeq(g) \in Seq(S)
  BY <1>3, <1>6, FlattenAppend
<1>8. Responses!InOrder(S) = Responses!FlattenSeq(g)
  BY <1>1, <1>2 DEF Responses!InOrder
<1> QED
  BY <1>7, <1>8, SameFlatten

-----------------------------------------------------------------------------
(* What one more event makes of the items that the body put in place *)
Some(q, p) == \E j \in 1 .. Len(q) : Placed(q, p, j)

Speaks(f, p, ev) == f.ev = ev /\ f.pos = p

LEMMA PlacedMore ==
  ASSUME NEW r, NEW q, NEW f, OneMore(r, q, f), NEW p
  PROVE  /\ \A k \in 1 .. Len(q) : Placed(r, p, k) <=> Placed(q, p, k) /\ ~Adding(f, p)
         /\ Placed(r, p, Len(q) + 1) <=> Adding(f, p)
<1>1. PICK n \in Nat : n = Len(q)
  BY DEF OneMore
<1>2. Len(r) = n + 1 /\ r[n + 1] = f /\ \A m \in 1 .. n : r[m] = q[m]
  BY <1>1 DEF OneMore
<1>3. ASSUME NEW k \in 1 .. n
      PROVE  Placed(r, p, k) <=> Placed(q, p, k) /\ ~Adding(f, p)
  <2>1. \A j \in k + 1 .. n + 1 : j = n + 1 \/ (j \in k + 1 .. n /\ r[j] = q[j])
    BY <1>2
  <2>2. n + 1 \in k + 1 .. n + 1 /\ \A j \in k + 1 .. n : j \in k + 1 .. n + 1 /\ r[j] = q[j]
    BY <1>2
  <2> QED
    BY <1>1, <1>2, <2>1, <2>2 DEF Placed
<1>4. Placed(r, p, n + 1) <=> Adding(f, p)
  <2>1. (n + 1) + 1 .. n + 1 = {}
    OBVIOUS
  <2> QED
    BY <1>2, <2>1 DEF Placed
<1> QED
  BY <1>1, <1>3, <1>4

LEMMA PlacedOnce ==
  ASSUME NEW q, Len(q) \in Nat, NEW p, NEW j \in 1 .. Len(q), NEW k \in 1 .. Len(q),
         Placed(q, p, j), Placed(q, p, k)
  PROVE  j = k
<1>1. CASE j < k
  BY <1>1 DEF Placed
<1>2. CASE k < j
  BY <1>2 DEF Placed
<1> QED
  BY <1>1, <1>2

(* What the k-th event of q adds to the deltas for p *)
Share(q, p, ev, k) ==
  IF q[k].ev = ev /\ q[k].pos = p /\ \E j \in 1 .. k : Placed(q, p, j)
  THEN q[k].text ELSE <<>>

LEMMA SinceShares ==
  ASSUME NEW q, NEW p, NEW ev
  PROVE  Since(q, p, ev) = FlattenSeq([k \in DOMAIN q |-> Share(q, p, ev, k)])
BY DEF Since, Share

LEMMA SinceMore ==
  ASSUME NEW r, NEW q, NEW f, OneMore(r, q, f), \A k \in DOMAIN r : r[k].text \in Texts,
         NEW p, NEW ev, ~Adding(f, p)
  PROVE  /\ Since(q, p, ev) \in Texts
         /\ Since(r, p, ev) = Since(q, p, ev)
                                \o (IF Speaks(f, p, ev) /\ Some(q, p) THEN f.text ELSE <<>>)
<1>1. PICK n \in Nat : n = Len(q)
  BY DEF OneMore
<1>2. /\ DOMAIN q = 1 .. n /\ DOMAIN r = 1 .. n + 1 /\ r[n + 1] = f
      /\ \A m \in 1 .. n : r[m] = q[m]
  BY <1>1 DEF OneMore
<1>3. /\ \A k \in 1 .. n : Placed(r, p, k) <=> Placed(q, p, k)
      /\ ~Placed(r, p, n + 1)
  BY <1>1, PlacedMore
<1>4. PICK g : g = [k \in 1 .. n |-> Share(q, p, ev, k)]
  OBVIOUS
<1>5. PICK h : h = [k \in 1 .. n + 1 |-> Share(r, p, ev, k)]
  OBVIOUS
<1>6. h \in [1 .. n + 1 -> Seq(Char)]
  BY <1>2, <1>5, EmptyIsText DEF Share, Texts
<1>7. \A k \in 1 .. n : k \in 1 .. n + 1 /\ h[k] = g[k]
  <2> TAKE k \in 1 .. n
  <2>1. k \in 1 .. n + 1 /\ r[k] = q[k] /\ \A j \in 1 .. k : j \in 1 .. n
    BY <1>2
  <2>2. (\E j \in 1 .. k : Placed(r, p, j)) <=> (\E j \in 1 .. k : Placed(q, p, j))
    BY <1>3, <2>1
  <2>3. Share(r, p, ev, k) = Share(q, p, ev, k)
    BY <2>1, <2>2 DEF Share
  <2> QED
    BY <1>4, <1>5, <2>1, <2>3
<1>8. g \in [1 .. n -> Seq(Char)]
  BY <1>4, <1>6, <1>7
<1>9. FlattenSeq(g) \in Seq(Char) /\ FlattenSeq(h) = FlattenSeq(g) \o h[n + 1]
  BY <1>6, <1>7, <1>8, JoinOneMore
<1>10. h[n + 1] = IF Speaks(f, p, ev) /\ Some(q, p) THEN f.text ELSE <<>>
  <2>1. (\E j \in 1 .. n + 1 : Placed(r, p, j)) <=> Some(q, p)
    <3>1. \A j \in 1 .. n + 1 : j \in 1 .. n \/ j = n + 1
      OBVIOUS
    <3>2. \A j \in 1 .. n : j \in 1 .. n + 1
      OBVIOUS
    <3> QED
      BY <1>1, <1>3, <3>1, <3>2 DEF Some
  <2>2. h[n + 1] = Share(r, p, ev, n + 1)
    BY <1>5
  <2> QED
    BY <1>2, <2>1, <2>2 DEF Share, Speaks
<1>11. Since(q, p, ev) = FlattenSeq(g) /\ Since(r, p, ev) = FlattenSeq(h)
  BY <1>2, <1>4, <1>5, SinceShares
<1> QED
  BY <1>9, <1>10, <1>11 DEF Texts

(* An item put in place starts over *)
LEMMA SinceAnew ==
  ASSUME NEW r, NEW q, NEW f, OneMore(r, q, f), NEW p, Adding(f, p),
         NEW ev, ev # "output_item.added"
  PROVE  Since(r, p, ev) = <<>>
<1>1. PICK n \in Nat : n = Len(q)
  BY DEF OneMore
<1>2. DOMAIN r = 1 .. n + 1 /\ r[n + 1] = f
  BY <1>1 DEF OneMore
<1>3. \A k \in 1 .. n : ~Placed(r, p, k)
  BY <1>1, PlacedMore
<1>4. PICK h : h = [k \in 1 .. n + 1 |-> Share(r, p, ev, k)]
  OBVIOUS
<1>5. \A k \in 1 .. n + 1 : h[k] = <<>>
  <2> TAKE k \in 1 .. n + 1
  <2>1. CASE k = n + 1
    BY <1>2, <1>4, <2>1 DEF Share, Adding
  <2>2. CASE k # n + 1
    <3>1. \A j \in 1 .. k : j \in 1 .. n
      BY <2>2
    <3> QED
      BY <1>3, <1>4, <3>1 DEF Share
  <2> QED
    BY <2>1, <2>2
<1>6. h \in [1 .. n + 1 -> Seq(Char)]
  BY <1>4, <1>5, EmptyIsText DEF Texts
<1>7. FlattenSeq(h) = <<>>
  BY <1>5, <1>6, JoinEmpty
<1> QED
  BY <1>2, <1>4, <1>7, SinceShares

-----------------------------------------------------------------------------
(* The items a Responses deframer holds are those the body put in place,   *)
(* each with the deltas since                                              *)
DeltaOf(type) ==
  CASE type = "message"       -> "output_text.delta"
    [] type = "reasoning"     -> "reasoning_summary_text.delta"
    [] type = "function_call" -> "function_call_arguments.delta"

Kept(x, q, p) ==
  /\ {"type", "text"} \subseteq DOMAIN x /\ x.type \in Responses!Types
  /\ \E k \in 1 .. Len(q) : Placed(q, p, k) /\ x.type = q[k].type
  /\ x.text = Since(q, p, DeltaOf(x.type))

Tally(m, q) ==
  /\ \A p \in DOMAIN m : Kept(m[p], q, p)
  /\ \A p : Some(q, p) => p \in DOMAIN m
  /\ \E N \in Nat : DOMAIN m \subseteq 1 .. N

(* r is q and f, and all of it is text *)
OneWord(r, q, f) == OneMore(r, q, f) /\ \A k \in DOMAIN r : r[k].text \in Texts

LEMMA KeptMore ==
  ASSUME NEW r, NEW q, NEW f, OneWord(r, q, f), NEW p, ~Adding(f, p),
         NEW x, Kept(x, q, p), NEW y, {"type", "text"} \subseteq DOMAIN y, y.type = x.type,
         y.text = x.text \o (IF Speaks(f, p, DeltaOf(x.type)) THEN f.text ELSE <<>>)
  PROVE  Kept(y, r, p)
<1>1. PICK n \in Nat : n = Len(q)
  BY DEF OneWord, OneMore
<1>2. Len(r) = n + 1 /\ \A m \in 1 .. n : r[m] = q[m]
  BY <1>1 DEF OneWord, OneMore
<1>3. PICK k \in 1 .. n : Placed(q, p, k) /\ x.type = q[k].type
  BY <1>1 DEF Kept
<1>4. Placed(r, p, k) /\ r[k].type = q[k].type /\ k \in 1 .. n + 1
  BY <1>1, <1>2, <1>3, PlacedMore DEF OneWord
<1>5. Some(q, p)
  BY <1>1, <1>3 DEF Some
<1>6. PICK ev : ev = DeltaOf(x.type)
  OBVIOUS
<1>7. Since(r, p, ev) = Since(q, p, ev)
                          \o (IF Speaks(f, p, ev) /\ Some(q, p) THEN f.text ELSE <<>>)
  BY SinceMore DEF OneWord
<1>8. x.text = Since(q, p, ev)
  BY <1>6 DEF Kept
<1>9. y.text = Since(r, p, ev)
  BY <1>5, <1>6, <1>7, <1>8
<1> QED
  BY <1>2, <1>3, <1>4, <1>6, <1>9 DEF Kept

(* An item no event speaks of *)
LEMMA KeptSame ==
  ASSUME NEW r, NEW q, NEW f, OneWord(r, q, f), NEW p, ~Adding(f, p),
         NEW x, Kept(x, q, p), ~Speaks(f, p, DeltaOf(x.type))
  PROVE  Kept(x, r, p)
<1>1. PICK y : y = x
  OBVIOUS
<1>2. y.text \in Texts
  <2>1. x.text = Since(q, p, DeltaOf(x.type))
    BY DEF Kept
  <2>2. Since(q, p, DeltaOf(x.type)) \in Texts
    BY SinceMore DEF OneWord
  <2> QED
    BY <1>1, <2>1, <2>2
<1>3. y.text = x.text \o (IF Speaks(f, p, DeltaOf(x.type)) THEN f.text ELSE <<>>)
  BY <1>1, <1>2, ConcatEmptySeq DEF Texts
<1>4. {"type", "text"} \subseteq DOMAIN y /\ y.type = x.type
  BY <1>1 DEF Kept
<1> QED
  BY <1>1, <1>3, <1>4, KeptMore

(* What is in place after one more event *)
LEMMA SomeMore ==
  ASSUME NEW r, NEW q, NEW f, OneMore(r, q, f), NEW p, Some(r, p)
  PROVE  Adding(f, p) \/ Some(q, p)
<1>1. PICK n \in Nat : n = Len(q) /\ Len(r) = n + 1
  BY DEF OneMore
<1>2. PICK j \in 1 .. n + 1 : Placed(r, p, j)
  BY <1>1 DEF Some
<1>3. CASE j = n + 1
  BY <1>1, <1>2, <1>3, PlacedMore
<1>4. CASE j # n + 1
  <2>1. j \in 1 .. n
    BY <1>4
  <2> QED
    BY <1>1, <1>2, <2>1, PlacedMore DEF Some
<1> QED
  BY <1>3, <1>4

LEMMA TallySame ==
  ASSUME NEW r, NEW q, NEW f, OneWord(r, q, f), \A p : ~Adding(f, p),
         NEW m, Tally(m, q), \A p \in DOMAIN m : ~Speaks(f, p, DeltaOf(m[p].type))
  PROVE  Tally(m, r)
<1>1. \A p \in DOMAIN m : Kept(m[p], r, p)
  BY KeptSame DEF Tally
<1>2. \A p : Some(r, p) => p \in DOMAIN m
  BY SomeMore DEF Tally, OneWord
<1> QED
  BY <1>1, <1>2 DEF Tally

LEMMA TallyAdding ==
  ASSUME NEW r, NEW q, NEW f, OneWord(r, q, f), f.ev = "output_item.added",
         f.type \in Responses!Types, f.pos \in Nat \ {0},
         NEW m, Tally(m, q), NEW w,
         w = [p \in DOMAIN m \cup {f.pos} |->
                IF p = f.pos THEN Responses!Item(f.type, f.id) ELSE m[p]]
  PROVE  Tally(w, r)
<1>1. PICK n \in Nat : n = Len(q)
  BY DEF OneWord, OneMore
<1>2. Len(r) = n + 1 /\ r[n + 1] = f
  BY <1>1 DEF OneWord, OneMore
<1>3. \A p : Adding(f, p) <=> p = f.pos
  BY DEF Adding
<1>4. ASSUME NEW p, p = f.pos
      PROVE  Kept(w[p], r, p)
  <2>1. PICK x : x = w[p]
    OBVIOUS
  <2>2. x = Responses!Item(f.type, f.id)
    BY <1>4, <2>1
  <2>3. {"type", "text"} \subseteq DOMAIN x /\ x.type = f.type /\ x.text = <<>>
    BY <2>2 DEF Responses!Item
  <2>4. Placed(r, p, n + 1) /\ n + 1 \in 1 .. n + 1
    <3>1. OneMore(r, q, f) /\ Adding(f, p)
      BY <1>3, <1>4 DEF OneWord
    <3>2. Placed(r, p, Len(q) + 1)
      BY <3>1, PlacedMore
    <3> QED
      BY <1>1, <3>2
  <2>5. PICK ev : ev = DeltaOf(x.type) /\ ev # "output_item.added"
    <3>1. DeltaOf(f.type) # "output_item.added"
      BY DEF DeltaOf, Responses!Types
    <3> QED
      BY <2>3, <3>1
  <2>6. Since(r, p, ev) = <<>>
    BY <1>3, <1>4, <2>5, SinceAnew DEF OneWord
  <2> QED
    BY <1>2, <2>1, <2>3, <2>4, <2>5, <2>6 DEF Kept
<1>5. ASSUME NEW p \in DOMAIN m, p # f.pos
      PROVE  Kept(w[p], r, p)
  <2>1. w[p] = m[p] /\ Kept(m[p], q, p) /\ ~Adding(f, p)
    BY <1>3, <1>5 DEF Tally
  <2>2. ~Speaks(f, p, DeltaOf(m[p].type))
    BY <1>5 DEF Speaks
  <2> QED
    BY <2>1, <2>2, KeptSame
<1>6. DOMAIN w = DOMAIN m \cup {f.pos}
  OBVIOUS
<1>7. \A p \in DOMAIN w : Kept(w[p], r, p)
  BY <1>4, <1>5, <1>6
<1>8. \A p : Some(r, p) => p \in DOMAIN w
  BY <1>3, <1>6, SomeMore DEF Tally, OneWord
<1>9. \E N \in Nat : DOMAIN w \subseteq 1 .. N
  <2>1. PICK N \in Nat : DOMAIN m \subseteq 1 .. N
    BY DEF Tally
  <2>2. N + f.pos \in Nat /\ DOMAIN w \subseteq 1 .. N + f.pos
    BY <1>6, <2>1
  <2> QED
    BY <2>2
<1> QED
  BY <1>7, <1>8, <1>9 DEF Tally

LEMMA TallyDelta ==
  ASSUME NEW r, NEW q, NEW f, OneWord(r, q, f), NEW type \in Responses!Types,
         f.ev = DeltaOf(type),
         NEW s, ResponsesState(s), Tally(s.items, q),
         NEW t, t = Responses!Accumulate(s, f, type)
  PROVE  Tally(t.items, r)
<1>1. PICK m : m = s.items
  OBVIOUS
<1>2. Tally(m, q)
  BY <1>1
<1>3. f.ev # "output_item.added" /\ \A p : ~Adding(f, p)
  BY DEF Adding, DeltaOf, Responses!Types
<1>4. CASE f.pos \in DOMAIN m /\ m[f.pos].type = type
  <2>1. PICK w : w = [m EXCEPT ![f.pos].text = @ \o f.text]
    OBVIOUS
  <2>2. t = [s EXCEPT !.items = w]
    BY <1>1, <1>4, <2>1 DEF Responses!Accumulate
  <2>3. t.items = w
    BY <2>2 DEF ResponsesState
  <2>4. DOMAIN w = DOMAIN m /\ \A p \in DOMAIN m : p # f.pos => w[p] = m[p]
    BY <2>1
  <2>5. ASSUME NEW p \in DOMAIN m, p # f.pos
        PROVE  Kept(w[p], r, p)
    <3>1. Kept(m[p], q, p) /\ w[p] = m[p]
      BY <1>2, <2>4, <2>5 DEF Tally
    <3>2. ~Speaks(f, p, DeltaOf(m[p].type))
      BY <2>5 DEF Speaks
    <3> QED
      BY <1>3, <3>1, <3>2, KeptSame
  <2>6. ASSUME NEW p \in DOMAIN m, p = f.pos
        PROVE  Kept(w[p], r, p)
    <3>1. PICK x : x = m[p]
      OBVIOUS
    <3>2. PICK y : y = w[p]
      OBVIOUS
    <3>3. Kept(x, q, p) /\ x.type = type /\ {"type", "text"} \subseteq DOMAIN x
      BY <1>2, <1>4, <2>6, <3>1 DEF Tally, Kept
    <3>4. y = [x EXCEPT !.text = x.text \o f.text]
      BY <2>1, <2>6, <3>1, <3>2
    <3>5. {"type", "text"} \subseteq DOMAIN y /\ y.type = x.type /\ y.text = x.text \o f.text
      BY <3>3, <3>4
    <3>6. Speaks(f, p, DeltaOf(x.type))
      BY <2>6, <3>3 DEF Speaks
    <3>7. y.text = x.text \o (IF Speaks(f, p, DeltaOf(x.type)) THEN f.text ELSE <<>>)
      BY <3>5, <3>6
    <3>8. Kept(y, r, p)
      BY <1>3, <3>3, <3>5, <3>7, KeptMore
    <3> QED
      BY <3>2, <3>8
  <2>7. \A p \in DOMAIN w : Kept(w[p], r, p)
    BY <2>4, <2>5, <2>6
  <2>8. \A p : Some(r, p) => p \in DOMAIN w
    BY <1>2, <1>3, <2>4, SomeMore DEF Tally, OneWord
  <2>9. Tally(w, r)
    BY <1>2, <2>4, <2>7, <2>8 DEF Tally
  <2> QED
    BY <2>3, <2>9
<1>5. CASE ~(f.pos \in DOMAIN m /\ m[f.pos].type = type)
  <2>1. t = s
    BY <1>1, <1>5 DEF Responses!Accumulate
  <2>2. ASSUME NEW p \in DOMAIN m, Speaks(f, p, DeltaOf(m[p].type))
        PROVE  FALSE
    <3>1. PICK x : x = m[p]
      OBVIOUS
    <3>2. x.type \in Responses!Types
      BY <1>2, <3>1 DEF Tally, Kept
    <3>3. f.pos = p /\ DeltaOf(x.type) = DeltaOf(type)
      BY <2>2, <3>1 DEF Speaks
    <3>4. x.type = type
      BY <3>2, <3>3 DEF DeltaOf, Responses!Types
    <3> QED
      BY <1>5, <3>1, <3>3, <3>4
  <2>3. Tally(m, r)
    BY <1>2, <1>3, <2>2, TallySame
  <2> QED
    BY <1>1, <2>1, <2>3
<1> QED
  BY <1>4, <1>5

(* An event that is neither an item nor a delta *)
LEMMA TallyOther ==
  ASSUME NEW r, NEW q, NEW f, OneWord(r, q, f),
         f.ev \notin {"output_item.added", "output_text.delta",
                      "reasoning_summary_text.delta", "function_call_arguments.delta"},
         NEW m, Tally(m, q)
  PROVE  Tally(m, r)
<1>1. \A p : ~Adding(f, p)
  BY DEF Adding
<1>2. \A p \in DOMAIN m : ~Speaks(f, p, DeltaOf(m[p].type))
  <2> TAKE p \in DOMAIN m
  <2>1. PICK type \in Responses!Types : type = m[p].type
    BY DEF Tally, Kept
  <2>2. DeltaOf(type) # f.ev
    BY DEF DeltaOf, Responses!Types
  <2> QED
    BY <2>1, <2>2 DEF Speaks
<1> QED
  BY <1>1, <1>2, TallySame

(* A push that does not fail keeps the tally *)
LEMMA TallyPush ==
  ASSUME NEW r, NEW q, NEW f, OneWord(r, q, f),
         f.ev = "output_item.added" => f.pos \in Nat \ {0},
         NEW s, ResponsesState(s), Tally(s.items, q),
         NEW o, o = Responses!push(s, f), o.kind \notin Errors
  PROVE  Tally(o.de.items, r)
<1> USE DEF Responses!Surface, Responses!Nothing, Responses!Transport, Responses!Upstream,
            Responses!Out, Errors
<1>1. PICK n : o = Responses!dispatch([s EXCEPT !.last_seq = n], f)
  BY DEF Responses!push
<1>2. PICK d : d = [s EXCEPT !.last_seq = n]
  OBVIOUS
<1>3. ResponsesState(d) /\ d.items = s.items
  BY <1>2 DEF ResponsesState
<1>4. PICK m : m = d.items /\ Tally(m, q)
  BY <1>3
<1>5. o = Responses!dispatch(d, f)
  BY <1>1, <1>2
<1>6. CASE f.ev = "output_item.added"
  <2>1. o = Responses!output_item_added(d, f)
    BY <1>5, <1>6 DEF Responses!dispatch
  <2>2. CASE f.type \in Responses!Types
    <3>1. PICK w : w = [p \in DOMAIN m \cup {f.pos} |->
                          IF p = f.pos THEN Responses!Item(f.type, f.id) ELSE m[p]]
      OBVIOUS
    <3>2. o.de = [d EXCEPT !.items = w]
      BY <1>4, <2>1, <2>2, <3>1 DEF Responses!output_item_added
    <3>3. o.de.items = w
      BY <1>3, <3>2 DEF ResponsesState
    <3>4. Tally(w, r)
      BY <1>4, <1>6, <2>2, <3>1, TallyAdding
    <3> QED
      BY <3>3, <3>4
  <2>3. CASE f.type \notin Responses!Types
    <3>1. o.de = d
      BY <2>1, <2>3 DEF Responses!output_item_added
    <3>2. \A p : ~Adding(f, p)
      BY <2>3 DEF Adding
    <3>3. \A p \in DOMAIN m : ~Speaks(f, p, DeltaOf(m[p].type))
      <4> TAKE p \in DOMAIN m
      <4>1. PICK x : x = m[p] /\ x.type \in Responses!Types
        BY <1>4 DEF Tally, Kept
      <4>2. DeltaOf(x.type) # "output_item.added"
        BY <4>1 DEF DeltaOf, Responses!Types
      <4> QED
        BY <1>6, <4>1, <4>2 DEF Speaks
    <3>4. Tally(m, r)
      BY <1>4, <3>2, <3>3, TallySame
    <3> QED
      BY <1>4, <3>1, <3>4
  <2> QED
    BY <2>2, <2>3
<1>7. CASE f.ev = "output_text.delta"
  <2>1. o = Responses!output_text_delta(d, f)
    BY <1>5, <1>7 DEF Responses!dispatch
  <2>2. o.de = Responses!Accumulate(d, f, "message")
    BY <2>1 DEF Responses!output_text_delta, Responses!SurfaceIf
  <2>3. f.ev = DeltaOf("message") /\ "message" \in Responses!Types
    BY <1>7 DEF DeltaOf, Responses!Types
  <2> QED
    BY <1>3, <1>4, <2>2, <2>3, TallyDelta
<1>8. CASE f.ev = "reasoning_summary_text.delta"
  <2>1. o.de = Responses!Accumulate(d, f, "reasoning")
    BY <1>5, <1>8 DEF Responses!dispatch
  <2>2. f.ev = DeltaOf("reasoning") /\ "reasoning" \in Responses!Types
    BY <1>8 DEF DeltaOf, Responses!Types
  <2> QED
    BY <1>3, <1>4, <2>1, <2>2, TallyDelta
<1>9. CASE f.ev = "function_call_arguments.delta"
  <2>1. o.de = Responses!Accumulate(d, f, "function_call")
    BY <1>5, <1>9 DEF Responses!dispatch
  <2>2. f.ev = DeltaOf("function_call") /\ "function_call" \in Responses!Types
    BY <1>9 DEF DeltaOf, Responses!Types
  <2> QED
    BY <1>3, <1>4, <2>1, <2>2, TallyDelta
<1>10. CASE f.ev \notin {"output_item.added", "output_text.delta",
                         "reasoning_summary_text.delta", "function_call_arguments.delta"}
  <2>1. o.de = d \/ o.de = [d EXCEPT !.terminal_seen = TRUE]
    BY <1>5, <1>10 DEF Responses!dispatch
  <2>2. o.de.items = m
    BY <1>3, <1>4, <2>1 DEF ResponsesState
  <2>3. Tally(m, r)
    BY <1>4, <1>10, TallyOther
  <2> QED
    BY <2>2, <2>3
<1> QED
  BY <1>6, <1>7, <1>8, <1>9, <1>10

(* The items of a type are those the body put in place as such *)
OfType(m, type) == {p \in DOMAIN m : m[p].type = type}

LEMMA TallyOrder ==
  ASSUME NEW m, NEW q, Tally(m, q), Len(q) \in Nat, DOMAIN q = 1 .. Len(q), NEW type,
         NEW S, S = OfType(m, type)
  PROVE  PlacedAs(q, type) = Responses!InOrder(S) /\ PlacedAs(q, type) \in Seq(S)
<1>1. S = {p \in DOMAIN m : m[p].type = type}
  BY DEF OfType
<1>2. PICK K : K = {k \in DOMAIN q : Placed(q, q[k].pos, k) /\ q[k].type = type}
  OBVIOUS
<1>3. ASSUME NEW p \in S
      PROVE  \E k \in K : p = q[k].pos
  <2>1. p \in DOMAIN m /\ m[p].type = type
    BY <1>1
  <2>2. PICK k \in 1 .. Len(q) : Placed(q, p, k) /\ m[p].type = q[k].type
    BY <2>1 DEF Tally, Kept
  <2>3. q[k].pos = p
    BY <2>2 DEF Placed, Adding
  <2> QED
    BY <1>2, <2>1, <2>2, <2>3
<1>4. ASSUME NEW k \in K
      PROVE  q[k].pos \in S
  <2>1. PICK p : p = q[k].pos
    OBVIOUS
  <2>2. k \in 1 .. Len(q) /\ Placed(q, p, k) /\ q[k].type = type
    BY <1>2, <2>1
  <2>3. p \in DOMAIN m
    BY <2>2 DEF Tally, Some
  <2>4. PICK j \in 1 .. Len(q) : Placed(q, p, j) /\ m[p].type = q[j].type
    BY <2>3 DEF Tally, Kept
  <2>5. j = k
    BY <2>2, <2>4, PlacedOnce
  <2> QED
    BY <1>1, <2>1, <2>2, <2>3, <2>4, <2>5
<1>5. S = {q[k].pos : k \in K}
  BY <1>3, <1>4
<1>6. Responses!InOrder(S) \in Seq(S)
  <2>1. PICK N \in Nat : S \subseteq 1 .. N
    BY <1>1 DEF Tally
  <2> QED
    BY <2>1, InOrderInside
<1>7. PlacedAs(q, type) = Responses!InOrder(S)
  BY <1>2, <1>5 DEF PlacedAs
<1> QED
  BY <1>6, <1>7

-----------------------------------------------------------------------------
(* What a Responses deframer publishes *)
Partial(c) == c.finish = "none" /\ c.thinking.kind = "none" /\ c.calls = <<>>

LEMMA ChunkPartial ==
  ASSUME NEW s, NEW f, f.ev \notin {"completed", "incomplete"},
         NEW o, o = Responses!push(s, f), o.kind = "chunk"
  PROVE  Partial(o.chunk)
<1> USE DEF Responses!Surface, Responses!Nothing, Responses!Transport, Responses!Upstream,
            Responses!Out
<1>1. PICK d : o = Responses!dispatch(d, f)
  BY DEF Responses!push
<1>2. f.ev = "output_text.delta"
  BY <1>1 DEF Responses!dispatch, Responses!output_item_added
<1>3. o = Responses!output_text_delta(d, f)
  BY <1>1, <1>2 DEF Responses!dispatch
<1>4. o.chunk = [Responses!EmptyChunk EXCEPT !.delta_text = f.text]
  BY <1>3 DEF Responses!output_text_delta, Responses!SurfaceIf
<1> QED
  BY <1>4 DEF Responses!EmptyChunk, Partial

Listed(ps) == IsSeq(ps) /\ Len(ps) \in Nat /\ DOMAIN ps = 1 .. Len(ps)

LEMMA ListedEmpty ==
  ASSUME NEW ps, Listed(ps)
  PROVE  DOMAIN ps = {} <=> ps = <<>>
<1>1. PICK S : ps \in Seq(S)
  BY DEF Listed, IsSeq
<1>2. DOMAIN ps = {} => Len(ps) = 0
  BY DEF Listed
<1> QED
  BY <1>1, <1>2, EmptySeq, EmptyFacts

LEMMA ListedFunction ==
  ASSUME NEW ps, NEW N \in Nat, DOMAIN ps = 1 .. N, ps = [k \in 1 .. N |-> ps[k]]
  PROVE  Listed(ps)
<1>1. PICK S : S = {ps[k] : k \in 1 .. N}
  OBVIOUS
<1>2. ps \in [1 .. N -> S]
  BY <1>1
<1>3. ps \in Seq(S) /\ Len(ps) = N
  BY <1>2, SeqDef
<1> QED
  BY <1>3 DEF Listed, IsSeq

(* The texts of the items of a type, and the deltas they came from *)
SaySince(m, ps, q, ev) == \A k \in DOMAIN ps : m[ps[k]].text = Since(q, ps[k], ev)

LEMMA TextsOfType ==
  ASSUME NEW d, NEW q, Tally(d.items, q), Len(q) \in Nat, DOMAIN q = 1 .. Len(q),
         NEW type \in Responses!Types, NEW ps, ps = Responses!ItemsOf(d, type)
  PROVE  /\ ps = PlacedAs(q, type) /\ Listed(ps)
         /\ SaySince(d.items, ps, q, DeltaOf(type))
<1>1. PICK m : m = d.items
  OBVIOUS
<1>2. PICK S : S = OfType(m, type)
  OBVIOUS
<1>3. Tally(m, q)
  BY <1>1
<1>4. ps = Responses!InOrder(S)
  BY <1>1, <1>2 DEF Responses!ItemsOf, OfType
<1>5. ps = PlacedAs(q, type) /\ ps \in Seq(S)
  <2>1. PlacedAs(q, type) = Responses!InOrder(S) /\ PlacedAs(q, type) \in Seq(S)
    BY <1>2, <1>3, TallyOrder
  <2> QED
    BY <1>4, <2>1
<1>6. \A k \in DOMAIN ps : m[ps[k]].text = Since(q, ps[k], DeltaOf(type))
  <2> TAKE k \in DOMAIN ps
  <2>1. PICK p \in S : p = ps[k]
    BY <1>5
  <2>2. p \in DOMAIN m /\ m[p].type = type
    BY <1>2 DEF OfType
  <2>3. PICK x : x = m[p]
    OBVIOUS
  <2>4. Kept(x, q, p) /\ x.type = type
    BY <1>3, <2>2, <2>3 DEF Tally
  <2>5. x.text = Since(q, p, DeltaOf(type))
    BY <2>4 DEF Kept
  <2> QED
    BY <2>1, <2>3, <2>5
<1>7. Listed(ps)
  BY <1>5 DEF Listed, IsSeq
<1> QED
  BY <1>1, <1>5, <1>6, <1>7 DEF SaySince

LEMMA ChunkCollected ==
  ASSUME NEW s, ResponsesState(s), NEW f, f.ev \in {"completed", "incomplete"},
         NEW q, NEW r, OneMore(r, q, f),
         NEW o, o = Responses!push(s, f), o.kind = "chunk", Tally(o.de.items, r)
  PROVE  o.chunk.finish # "none" /\ Collected(o.chunk, r)
<1> USE DEF Responses!Surface, Responses!Nothing, Responses!Transport, Responses!Upstream,
            Responses!Out
<1>1. PICK n : o = Responses!dispatch([s EXCEPT !.last_seq = n], f)
  BY DEF Responses!push
<1>2. PICK d : d = [s EXCEPT !.last_seq = n]
  OBVIOUS
<1>3. ResponsesState(d) /\ o = Responses!dispatch(d, f)
  BY <1>1, <1>2 DEF ResponsesState
<1>4. o.chunk = Responses!terminal_chunk(d, f) /\ o.de = [d EXCEPT !.terminal_seen = TRUE]
  BY <1>3 DEF Responses!dispatch
<1>5. Tally(d.items, r)
  <2>1. o.de.items = d.items
    BY <1>3, <1>4 DEF ResponsesState
  <2> QED
    BY <2>1
<1>6. PICK c : c = o.chunk
  OBVIOUS
<1>7. PICK ps : ps = Responses!ItemsOf(d, "function_call")
  OBVIOUS
<1>8. PICK rs : rs = Responses!ItemsOf(d, "reasoning")
  OBVIOUS
<1>9. PICK calls : calls = Responses!FinalCalls(d)
  OBVIOUS
<1>10. PICK th : th = Responses!JoinedTexts(d, rs)
  OBVIOUS
<1>11. /\ c.finish # "none" /\ c.calls = calls /\ c.thinking.text = th
       /\ c.finish = IF calls # <<>> /\ Responses!finish_reason(f) = "stop"
                     THEN "tool_calls" ELSE Responses!finish_reason(f)
  BY <1>4, <1>6, <1>8, <1>9, <1>10, TerminalParts
<1>12. Len(r) \in Nat /\ DOMAIN r = 1 .. Len(r) /\ Last(r) = f
  BY DEF OneMore, Last
<1>13. /\ ps = PlacedAs(r, "function_call") /\ Listed(ps)
       /\ SaySince(d.items, ps, r, "function_call_arguments.delta")
  <2>1. PICK type : type = "function_call"
    OBVIOUS
  <2>2. type \in Responses!Types /\ ps = Responses!ItemsOf(d, type)
    BY <1>7, <2>1 DEF Responses!Types
  <2>3. /\ ps = PlacedAs(r, type) /\ Listed(ps)
        /\ SaySince(d.items, ps, r, DeltaOf(type))
    BY <1>5, <1>12, <2>2, TextsOfType
  <2>4. DeltaOf(type) = "function_call_arguments.delta"
    BY <2>1 DEF DeltaOf
  <2> QED
    BY <2>1, <2>3, <2>4
<1>14. /\ rs = PlacedAs(r, "reasoning") /\ Listed(rs)
       /\ SaySince(d.items, rs, r, "reasoning_summary_text.delta")
  <2>1. PICK type : type = "reasoning"
    OBVIOUS
  <2>2. type \in Responses!Types /\ rs = Responses!ItemsOf(d, type)
    BY <1>8, <2>1 DEF Responses!Types
  <2>3. /\ rs = PlacedAs(r, type) /\ Listed(rs)
        /\ SaySince(d.items, rs, r, DeltaOf(type))
    BY <1>5, <1>12, <2>2, TextsOfType
  <2>4. DeltaOf(type) = "reasoning_summary_text.delta"
    BY <2>1 DEF DeltaOf
  <2> QED
    BY <2>1, <2>3, <2>4
<1>15. DOMAIN calls = DOMAIN ps /\ \A k \in DOMAIN ps : calls[k].args = d.items[ps[k]].text
  BY <1>7, <1>9 DEF Responses!FinalCalls
<1>16. [m \in DOMAIN calls |-> calls[m].args]
         = [m \in DOMAIN ps |-> Since(r, ps[m], "function_call_arguments.delta")]
  BY <1>13, <1>15 DEF SaySince
<1>17. th = FlattenSeq([m \in DOMAIN rs |-> Since(r, rs[m], "reasoning_summary_text.delta")])
  <2>1. PICK g : g = [m \in DOMAIN rs |-> d.items[rs[m]].text]
    OBVIOUS
  <2>2. th = Responses!FlattenSeq(g)
    BY <1>10, <2>1 DEF Responses!JoinedTexts
  <2>3. g = [m \in DOMAIN rs |-> Since(r, rs[m], "reasoning_summary_text.delta")]
    BY <1>14, <2>1 DEF SaySince
  <2> QED
    BY <2>2, <2>3, SameFlatten
<1>18. calls = <<>> <=> ps = <<>>
  <2>1. DOMAIN calls = {} <=> DOMAIN ps = {}
    BY <1>15
  <2>2. DOMAIN ps = {} <=> ps = <<>>
    BY <1>13, ListedEmpty
  <2>3. DOMAIN calls = {} <=> calls = <<>>
    <3>1. calls = [k \in DOMAIN ps |->
                     [index |-> 0, id |-> d.items[ps[k]].id, name |-> TRUE,
                      args |-> d.items[ps[k]].text]]
      BY <1>7, <1>9 DEF Responses!FinalCalls
    <3>2. PICK N \in Nat : DOMAIN ps = 1 .. N
      BY <1>13 DEF Listed
    <3>3. DOMAIN calls = 1 .. N /\ calls = [k \in 1 .. N |-> calls[k]]
      BY <3>1, <3>2
    <3>4. Listed(calls)
      BY <3>3, ListedFunction
    <3> QED
      BY <3>4, ListedEmpty
  <2> QED
    BY <2>1, <2>2, <2>3
<1>19. c.finish = Verdict(f, ps)
  BY <1>11, <1>18 DEF Responses!finish_reason, Verdict
<1>20. Collected(c, r)
  BY <1>11, <1>12, <1>13, <1>14, <1>16, <1>17, <1>18, <1>19 DEF Collected
<1> QED
  BY <1>6, <1>11, <1>20

-----------------------------------------------------------------------------
(* What the caller has been given of a Responses body *)
EndsFirst(q, n) ==
  /\ q[n].ev \in {"completed", "incomplete"}
  /\ \A m \in 1 .. n - 1 : q[m].ev \notin {"completed", "incomplete"}

Collects(c, q) ==
  \E n \in DOMAIN q : EndsFirst(q, n) /\ Collected(c, SubSeq(q, 1, n))

OnlyErrorsAfter(its, k) == \A j \in DOMAIN its : j > k => its[j].kind \in Errors

Published(its, q, k) ==
  \/ its[k].chunk.finish = "none" /\ Partial(its[k].chunk)
  \/ /\ its[k].chunk.finish # "none"
     /\ OnlyErrorsAfter(its, k) /\ Collects(its[k].chunk, q)

Publishes(its, q) == \A k \in DOMAIN its : its[k].kind = "chunk" => Published(its, q, k)

Unfinished(its) == \A k \in DOMAIN its : its[k].kind = "chunk" => Partial(its[k].chunk)

LEMMA PublishesMeans ==
  ASSUME dialect = "OpenAiResponses" => Publishes(items, body)
  PROVE  PublishedAtTheEnd
<1>1. SUFFICES ASSUME dialect = "OpenAiResponses", NEW k \in DOMAIN items,
                      items[k].kind = "chunk"
               PROVE  IF items[k].chunk.finish = "none"
                      THEN items[k].chunk.thinking.kind = "none" /\ items[k].chunk.calls = <<>>
                      ELSE /\ \A j \in DOMAIN items : j > k => items[j].kind \in Errors
                           /\ \E n \in DOMAIN body :
                                FirstTerminal(n) /\ Collected(items[k].chunk, SubSeq(body, 1, n))
  BY DEF PublishedAtTheEnd
<1>2. Published(items, body, k)
  BY <1>1 DEF Publishes
<1>3. CASE items[k].chunk.finish = "none"
  BY <1>2, <1>3 DEF Published, Partial
<1>4. CASE items[k].chunk.finish # "none"
  <2>1. OnlyErrorsAfter(items, k) /\ Collects(items[k].chunk, body)
    BY <1>2, <1>4 DEF Published
  <2>2. PICK n \in DOMAIN body :
          EndsFirst(body, n) /\ Collected(items[k].chunk, SubSeq(body, 1, n))
    BY <2>1 DEF Collects
  <2>3. FirstTerminal(n)
    BY <1>1, <2>2 DEF EndsFirst, FirstTerminal, Terminals
  <2> QED
    BY <1>4, <2>1, <2>2, <2>3 DEF OnlyErrorsAfter
<1> QED
  BY <1>3, <1>4

(* The front of a longer body *)
LEMMA SameFront ==
  ASSUME NEW r, NEW q, NEW f, OneMore(r, q, f), IsSeq(q), NEW n \in 1 .. Len(q)
  PROVE  SubSeq(r, 1, n) = SubSeq(q, 1, n)
<1>1. PICK S : q \in Seq(S)
  BY DEF IsSeq
<1>2. PICK T : r \in Seq(T)
  BY DEF OneMore, IsSeq
<1>3. Len(r) = Len(q) + 1 /\ \A k \in 1 .. Len(q) : r[k] = q[k]
  BY DEF OneMore
<1>4. SubSeq(r, 1, n) = [k \in 1 .. n |-> r[k]]
  BY <1>1, <1>2, <1>3
<1>5. SubSeq(q, 1, n) = [k \in 1 .. n |-> q[k]]
  BY <1>1
<1>6. \A k \in 1 .. n : r[k] = q[k]
  BY <1>1, <1>3
<1> QED
  BY <1>4, <1>5, <1>6

LEMMA CollectsMore ==
  ASSUME NEW r, NEW q, NEW f, OneMore(r, q, f), IsSeq(q), NEW c, Collects(c, q)
  PROVE  Collects(c, r)
<1>1. PICK n \in DOMAIN q : EndsFirst(q, n) /\ Collected(c, SubSeq(q, 1, n))
  BY DEF Collects
<1>2. /\ DOMAIN q = 1 .. Len(q) /\ Len(q) \in Nat /\ Len(r) = Len(q) + 1
      /\ DOMAIN r = 1 .. Len(r) /\ \A k \in 1 .. Len(q) : r[k] = q[k]
  BY DEF OneMore
<1>3. n \in DOMAIN r /\ EndsFirst(r, n)
  BY <1>1, <1>2 DEF EndsFirst
<1>4. SubSeq(r, 1, n) = SubSeq(q, 1, n)
  BY <1>1, <1>2, SameFront
<1> QED
  BY <1>1, <1>3, <1>4 DEF Collects

LEMMA CollectsNow ==
  ASSUME NEW r, NEW q, NEW f, OneMore(r, q, f),
         \A k \in DOMAIN q : q[k].ev \notin {"completed", "incomplete"},
         f.ev \in {"completed", "incomplete"}, NEW c, Collected(c, r)
  PROVE  Collects(c, r)
<1>1. PICK n \in Nat : n = Len(r) /\ n \in 1 .. n /\ DOMAIN r = 1 .. n
  BY DEF OneMore
<1>2. EndsFirst(r, n)
  BY <1>1 DEF EndsFirst, OneMore
<1>3. SubSeq(r, 1, n) = r
  <2>1. PICK T : r \in Seq(T)
    BY DEF OneMore, IsSeq
  <2> QED
    BY <1>1, <2>1, SubSeqFull
<1> QED
  BY <1>1, <1>2, <1>3 DEF Collects

LEMMA PublishesBody ==
  ASSUME NEW its, NEW r, NEW q, NEW f, OneMore(r, q, f), IsSeq(q), Publishes(its, q)
  PROVE  Publishes(its, r)
<1>1. ASSUME NEW k \in DOMAIN its, its[k].kind = "chunk"
      PROVE  Published(its, r, k)
  <2>1. Published(its, q, k)
    BY <1>1 DEF Publishes
  <2>2. PICK c : c = its[k].chunk
    OBVIOUS
  <2>3. Collects(c, q) => Collects(c, r)
    BY CollectsMore
  <2> QED
    BY <2>1, <2>2, <2>3 DEF Published
<1> QED
  BY <1>1 DEF Publishes

(* An error after the items *)
LEMMA PublishesError ==
  ASSUME NEW its, IsSeq(its), NEW q, Publishes(its, q), NEW kind \in Errors,
         NEW w, w = Append(its, Err(kind))
  PROVE  Publishes(w, q)
<1>1. PICK e : e = Err(kind)
  OBVIOUS
<1>2. e.kind \in Errors /\ e.kind # "chunk"
  BY <1>1 DEF Err, Errors
<1>3. OneMore(w, its, e)
  BY <1>1, AppendFacts
<1>4. \A j \in DOMAIN w : w[j] = e \/ (j \in DOMAIN its /\ w[j] = its[j])
  BY <1>3 DEF OneMore
<1>5. ASSUME NEW k \in DOMAIN w, w[k].kind = "chunk"
      PROVE  Published(w, q, k)
  <2>1. k \in DOMAIN its /\ w[k] = its[k]
    BY <1>2, <1>4, <1>5
  <2>2. Published(its, q, k)
    BY <1>5, <2>1 DEF Publishes
  <2>3. OnlyErrorsAfter(its, k) => OnlyErrorsAfter(w, k)
    BY <1>2, <1>4 DEF OnlyErrorsAfter
  <2> QED
    BY <2>1, <2>2, <2>3 DEF Published
<1> QED
  BY <1>5 DEF Publishes

(* A chunk after items none of which is finished *)
LEMMA PublishesChunk ==
  ASSUME NEW its, IsSeq(its), Unfinished(its), NEW c, NEW q,
         Partial(c) \/ (c.finish # "none" /\ Collects(c, q)),
         NEW w, w = Append(its, Ok(c))
  PROVE  Publishes(w, q) /\ (Partial(c) => Unfinished(w))
<1>1. PICK e : e = Ok(c)
  OBVIOUS
<1>2. e.chunk = c
  BY <1>1 DEF Ok
<1>3. OneMore(w, its, e)
  BY <1>1, AppendFacts
<1>4. \A j \in DOMAIN w : (j = Len(w) /\ w[j] = e) \/ (j \in DOMAIN its /\ w[j] = its[j])
  BY <1>3 DEF OneMore
<1>5. Partial(c) => Unfinished(w)
  BY <1>2, <1>4 DEF Unfinished
<1>6. ASSUME NEW k \in DOMAIN w, w[k].kind = "chunk"
      PROVE  Published(w, q, k)
  <2>1. Partial(w[k].chunk) \/ (w[k].chunk = c /\ k = Len(w))
    BY <1>2, <1>4, <1>6 DEF Unfinished
  <2>2. CASE Partial(w[k].chunk)
    BY <2>2 DEF Published, Partial
  <2>3. CASE ~Partial(w[k].chunk)
    <3>1. w[k].chunk = c /\ k = Len(w) /\ c.finish # "none" /\ Collects(c, q)
      BY <2>1, <2>3
    <3>2. OnlyErrorsAfter(w, k)
      <4>1. Len(w) \in Nat /\ DOMAIN w = 1 .. Len(w)
        BY <1>3 DEF OneMore
      <4> QED
        BY <3>1, <4>1 DEF OnlyErrorsAfter
    <3> QED
      BY <3>1, <3>2 DEF Published
  <2> QED
    BY <2>2, <2>3
<1> QED
  BY <1>5, <1>6 DEF Publishes

-----------------------------------------------------------------------------
(* A Responses deframer holds what its body put in place, and has given no *)
(* finish before the terminal                                              *)
Holding ==
  phase # "ended" =>
    Tally(state.items, body) /\ (~state.terminal_seen => Unfinished(items))

PInv ==
  /\ IInv /\ Drawn
  /\ dialect = "OpenAiResponses" => Publishes(items, body) /\ Holding

LEMMA TallyEmpty ==
  ASSUME NEW m, DOMAIN m = {}
  PROVE  Tally(m, <<>>)
<1>1. Len(<<>>) = 0 /\ 1 .. 0 = {}
  OBVIOUS
<1>2. \A p : ~Some(<<>>, p)
  BY <1>1 DEF Some
<1>3. 0 \in Nat /\ DOMAIN m \subseteq 1 .. 0
  OBVIOUS
<1> QED
  BY <1>2, <1>3 DEF Tally

LEMMA InitPublishes == Init => PInv
<1> SUFFICES ASSUME Init PROVE PInv
  OBVIOUS
<1>1. IInv
  BY InitIInv
<1>2. body = <<>> /\ items = <<>> /\ state = NewState(dialect)
  BY DEF Init
<1>3. DOMAIN body = {} /\ DOMAIN items = {}
  BY <1>2, EmptyFacts
<1>4. ASSUME dialect = "OpenAiResponses"
      PROVE  Publishes(items, body) /\ Holding
  <2>1. PICK m : m = state.items
    OBVIOUS
  <2>2. DOMAIN m = {}
    BY <1>2, <1>4, <2>1 DEF NewState, Responses!New
  <2>3. Tally(m, body)
    BY <1>2, <2>2, TallyEmpty
  <2> QED
    BY <1>3, <2>1, <2>3 DEF Publishes, Holding, Unfinished
<1> QED
  BY <1>1, <1>3, <1>4 DEF PInv, Drawn

(* The text of a Responses body is text *)
LEMMA BodyOfWords ==
  ASSUME dialect = "OpenAiResponses", dialect \in Dialects, NEW r, NEW q, NEW f,
         OneMore(r, q, f), \A k \in DOMAIN r : r[k] \in Events[dialect]
  PROVE  OneWord(r, q, f) /\ (f.ev = "output_item.added" => f.pos \in Nat \ {0})
<1>1. f \in Events[dialect]
  BY DEF OneMore
<1>2. \A e \in Events[dialect] :
        e.text \in Texts /\ (e.ev = "output_item.added" => e.pos \in Nat \ {0})
  BY WordsAssumption
<1> QED
  BY <1>1, <1>2 DEF OneWord

(* The push that is no error *)
LEMMA PushPublishes ==
  ASSUME NEW s, ResponsesState(s), NEW q, IsSeq(q), NEW r, NEW f, OneWord(r, q, f),
         f.ev = "output_item.added" => f.pos \in Nat \ {0}, Tally(s.items, q),
         ~s.terminal_seen => \A k \in DOMAIN q : q[k].ev \notin {"completed", "incomplete"},
         NEW o, o = Responses!push(s, f), o.kind \notin Errors
  PROVE  /\ ~s.terminal_seen /\ o.kind \in {"chunk", "nothing"}
         /\ Tally(o.de.items, r)
         /\ o.kind = "nothing" => ~o.de.terminal_seen
         /\ o.kind = "chunk" =>
              /\ Partial(o.chunk) \/ (o.chunk.finish # "none" /\ Collects(o.chunk, r))
              /\ ~o.de.terminal_seen => Partial(o.chunk)
<1>1. /\ ~s.terminal_seen /\ o.kind \in {"chunk", "nothing"}
      /\ f.ev \in {"completed", "incomplete"} <=> o.de.terminal_seen
      /\ o.kind = "nothing" => ~o.de.terminal_seen
  BY ResponsesPush
<1>2. Tally(o.de.items, r)
  BY TallyPush
<1>3. OneMore(r, q, f)
  BY DEF OneWord
<1>4. ASSUME o.kind = "chunk", f.ev \notin {"completed", "incomplete"}
      PROVE  Partial(o.chunk)
  BY <1>4, ChunkPartial
<1>5. ASSUME o.kind = "chunk", f.ev \in {"completed", "incomplete"}
      PROVE  o.chunk.finish # "none" /\ Collects(o.chunk, r)
  <2>1. o.chunk.finish # "none" /\ Collected(o.chunk, r)
    BY <1>2, <1>3, <1>5, ChunkCollected
  <2>2. PICK c : c = o.chunk
    OBVIOUS
  <2>3. Collects(c, r)
    BY <1>1, <1>3, <1>5, <2>1, <2>2, CollectsNow
  <2> QED
    BY <2>1, <2>2, <2>3
<1> QED
  BY <1>1, <1>2, <1>4, <1>5

LEMMA EventPublishes ==
  ASSUME PInv, IInv', dialect = "OpenAiResponses", NEW f \in Events[dialect], Event(f),
         Drawn'
  PROVE  Publishes(items', body') /\ Holding'
<1>1. PICK r : r = push(f)
  OBVIOUS
<1>2. /\ phase = "streaming" /\ dialect' = dialect /\ body' = Append(body, f)
      /\ state' = r.de
      /\ items' = CASE r.kind = "chunk"   -> Append(items, Ok(r.chunk))
                    [] r.kind = "nothing" -> items
                    [] r.kind \in Errors  -> Append(items, Err(r.kind))
      /\ phase' = IF \/ r.kind \in Errors
                     \/ r.kind = "nothing" /\ finalize(r.de)
                  THEN "ended" ELSE phase
  BY <1>1 DEF Event
<1>3. /\ dialect \in Dialects /\ IsSeq(body) /\ IsSeq(items) /\ Open
      /\ Publishes(items, body) /\ Tally(state.items, body)
      /\ ~state.terminal_seen => Unfinished(items)
  BY <1>2 DEF PInv, IInv, Holding
<1>4. OneMore(body', body, f)
  BY <1>2, <1>3, AppendFacts
<1>5. OneWord(body', body, f) /\ (f.ev = "output_item.added" => f.pos \in Nat \ {0})
  <2>1. \A k \in DOMAIN body' : body'[k] \in Events[dialect]
    BY <1>2 DEF Drawn
  <2> QED
    BY <1>3, <1>4, <2>1, BodyOfWords
<1>6. CASE r.kind \in Errors
  <2>1. items' = Append(items, Err(r.kind)) /\ phase' = "ended"
    BY <1>2, <1>6 DEF Errors
  <2>2. Publishes(items, body')
    BY <1>3, <1>4, PublishesBody
  <2>3. Publishes(items', body')
    BY <1>3, <1>6, <2>1, <2>2, PublishesError
  <2> QED
    BY <2>1, <2>3 DEF Holding
<1>7. CASE r.kind \notin Errors
  <2>1. /\ ResponsesState(state)
        /\ ~state.terminal_seen =>
             \A k \in DOMAIN body : body[k].ev \notin {"completed", "incomplete"}
    BY <1>3 DEF Open, Quiet, Terminals
  <2>2. r = Responses!push(state, f)
    BY <1>1 DEF push
  <2>3. /\ ~state.terminal_seen /\ r.kind \in {"chunk", "nothing"}
        /\ Tally(r.de.items, body')
        /\ r.kind = "nothing" => ~r.de.terminal_seen
        /\ r.kind = "chunk" =>
             /\ Partial(r.chunk) \/ (r.chunk.finish # "none" /\ Collects(r.chunk, body'))
             /\ ~r.de.terminal_seen => Partial(r.chunk)
    BY <1>3, <1>5, <1>7, <2>1, <2>2, PushPublishes
  <2>4. Tally(state'.items, body')
    BY <1>2, <2>3
  <2>5. CASE r.kind = "chunk"
    <3>1. PICK c : c = r.chunk
      OBVIOUS
    <3>2. items' = Append(items, Ok(c))
      BY <1>2, <1>7, <2>5, <3>1
    <3>3. /\ Partial(c) \/ (c.finish # "none" /\ Collects(c, body'))
          /\ ~r.de.terminal_seen => Partial(c)
      BY <2>3, <2>5, <3>1
    <3>4. Publishes(items', body') /\ (Partial(c) => Unfinished(items'))
      BY <1>3, <2>3, <3>2, <3>3, PublishesChunk
    <3> QED
      BY <1>2, <2>4, <3>3, <3>4 DEF Holding
  <2>6. CASE r.kind = "nothing"
    <3>1. items' = items
      BY <1>2, <1>7, <2>6
    <3>2. Publishes(items, body')
      BY <1>3, <1>4, PublishesBody
    <3> QED
      BY <1>3, <2>3, <2>4, <3>1, <3>2 DEF Holding
  <2> QED
    BY <2>3, <2>5, <2>6
<1> QED
  BY <1>6, <1>7

LEMMA DrawnNext ==
  ASSUME PInv, [Next]_vars
  PROVE  Drawn'
<1>1. ASSUME NEW f \in Events[dialect], Event(f)
      PROVE  Drawn'
  <2>1. dialect' = dialect /\ body' = Append(body, f)
    BY <1>1 DEF Event
  <2>2. OneMore(body', body, f)
    BY <2>1, AppendFacts DEF PInv, IInv
  <2> QED
    BY <2>1, <2>2 DEF PInv, Drawn, OneMore
<1>2. ASSUME UNCHANGED <<dialect, body>>
      PROVE  Drawn'
  BY <1>2 DEF PInv, Drawn
<1> QED
  BY <1>1, <1>2 DEF Next, Refused, Answered, Broken, Eof, vars

LEMMA NextPublishes == PInv /\ [Next]_vars => PInv'
<1> SUFFICES ASSUME PInv, [Next]_vars PROVE PInv'
  OBVIOUS
<1>1. IInv' /\ Drawn'
  BY NextIInv, DrawnNext DEF PInv
<1>2. CASE \E f \in Events[dialect] : Event(f)
  <2>1. PICK f \in Events[dialect] : Event(f)
    BY <1>2
  <2>2. dialect' = dialect
    BY <2>1 DEF Event
  <2>3. dialect = "OpenAiResponses" => Publishes(items', body') /\ Holding'
    BY <1>1, <2>1, EventPublishes
  <2> QED
    BY <1>1, <2>2, <2>3 DEF PInv
<1>3. ASSUME phase # "ended", phase' = "ended", UNCHANGED <<dialect, body>>,
             items' = items \/ (\E kind \in Errors : items' = Append(items, Err(kind)))
      PROVE  PInv'
  <2>1. IsSeq(items)
    BY DEF PInv, IInv
  <2>2. dialect = "OpenAiResponses" => Publishes(items', body)
    BY <1>3, <2>1, PublishesError DEF PInv
  <2>3. Holding'
    BY <1>3 DEF Holding
  <2> QED
    BY <1>1, <1>3, <2>2, <2>3 DEF PInv
<1>4. CASE Refused
  <2>1. PICK kind \in Errors : items' = <<Err(kind)>>
    BY <1>4 DEF Refused
  <2>2. items = <<>>
    BY <1>4 DEF Refused, PInv, IInv
  <2>3. items' = Append(items, Err(kind))
    BY <2>1, <2>2
  <2> QED
    BY <1>3, <1>4, <2>3 DEF Refused
<1>5. CASE Answered
  BY <1>1, <1>5 DEF Answered, PInv, Holding
<1>6. CASE Broken
  BY <1>3, <1>6 DEF Broken, Errors
<1>7. CASE Eof
  BY <1>3, <1>7 DEF Eof, Errors
<1>8. CASE UNCHANGED vars
  BY <1>1, <1>8 DEF vars, PInv, Holding
<1> QED
  BY <1>2, <1>4, <1>5, <1>6, <1>7, <1>8 DEF Next

(* Responses publishes reasoning and calls once, with the terminal, whole  *)
(* and in output order, and nothing but an error follows; the verdict is   *)
(* that of the status, and one the code knows no reason for counts as      *)
(* finished (openai_responses/deframe.rs:150-257, resp_stream).            *)
THEOREM PublishedAlways == Spec => []PublishedAtTheEnd
<1>1. Init => PInv
  BY InitPublishes
<1>2. PInv /\ [Next]_vars => PInv'
  BY NextPublishes
<1>3. PInv => PublishedAtTheEnd
  BY PublishesMeans DEF PInv
<1> QED
  BY <1>1, <1>2, <1>3, PTL DEF Spec

(* Content reaches the caller of stream once: text at once and in order,   *)
(* what Responses accumulates with the terminal                            *)
(* (resp_stream and the push of the three deframers).                      *)
THEOREM ContentArrivesOnce == WordsInChoices => (Spec => []ContentOnce)
<1> SUFFICES ASSUME WordsInChoices PROVE Spec => []ContentOnce
  OBVIOUS
<1>1. Spec => []TextOnce
  BY TextArrivesOnce
<1>2. Spec => []PublishedAtTheEnd
  BY PublishedAlways
<1>3. TextOnce /\ PublishedAtTheEnd => ContentOnce
  BY DEF ContentOnce
<1> QED
  BY <1>1, <1>2, <1>3, PTL

=============================================================================
