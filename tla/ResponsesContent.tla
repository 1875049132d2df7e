-------------------------- MODULE ResponsesContent ---------------------------
(***************************************************************************)
(* What the client of the Responses surface can rely on: the lifecycle of  *)
(* output items, the agreement of every snapshot with the deltas before    *)
(* it, the routing of arguments, and the surface as an implementation of   *)
(* TurnStream.                                                             *)
(***************************************************************************)
EXTENDS ResponsesFramer, SequencesExt

wire == st.wire

Frames(pos, ev) == {k \in DOMAIN wire : wire[k].pos = pos /\ wire[k].ev = ev}

(* The deltas of an item among the first k frames, joined *)
Joined(pos, k) ==
  FlattenSeq([j \in 1 .. k |->
    IF wire[j].pos = pos /\ wire[j].ev \in DeltaEvents THEN wire[j].text ELSE <<>>])

-----------------------------------------------------------------------------
ItemSet == [type : Types, id : Nat, text : Texts,
            status : {"none", "in_progress", "completed", "incomplete"}]

(* The state is well formed: every map, the open item and the open calls   *)
(* point at items of the right type.                                       *)
TypeOK ==
  /\ \A k \in DOMAIN st.out : st.out[k] \in ItemSet
  /\ st.current # NoPos => st.out[st.current].type # "function_call"
  /\ \A i \in DOMAIN st.tool_items : st.out[st.tool_items[i]].type = "function_call"
  /\ \A i \in DOMAIN st.tool_ids : st.out[st.tool_ids[i]].id = i
  /\ \A k \in DOMAIN st.open_tools : st.out[st.open_tools[k]].type = "function_call"
  /\ st.usage \in Usages
  /\ st.seq = Len(wire)

(* Every item is added once, in position order, done at most once, and all *)
(* its other frames lie between; at a completed or incomplete terminal all *)
(* items are done (open_item, close_current, close_tools, terminal).       *)
ItemsBracketed ==
  \A pos \in DOMAIN st.out :
    \E added \in Frames(pos, "output_item.added") :
      /\ \A k \in DOMAIN wire : wire[k].pos = pos => k >= added
      /\ Cardinality(Frames(pos, "output_item.added")) = 1
      /\ pos > 1 => \E k \in Frames(pos - 1, "output_item.added") : k < added
      /\ \A d \in Frames(pos, "output_item.done"), k \in DOMAIN wire :
           wire[k].pos = pos => k <= d
      /\ \A t \in DOMAIN wire : wire[t].ev \in {"completed", "incomplete"} =>
           \E d \in Frames(pos, "output_item.done") : d < t

Shown(ev) ==
  FlattenSeq([k \in DOMAIN wire |-> IF wire[k].ev = ev THEN wire[k].text ELSE <<>>])

(* Text and thinking reach the client whole and in order, whichever items  *)
(* they are divided into (signatures do not), and every text a done event  *)
(* or the terminal's output repeats is exactly what the deltas of that     *)
(* item added up to (append_text, done, terminal).                         *)
TextCarried ==
  /\ Shown("output_text.delta") = FlattenSeq([k \in DOMAIN heard |-> heard[k].delta_text])
  /\ Shown("reasoning_summary_text.delta") =
       FlattenSeq([k \in DOMAIN heard |->
         IF heard[k].thinking.kind = "thinking" THEN heard[k].thinking.text ELSE <<>>])
  /\ \A k \in DOMAIN wire :
       /\ wire[k].ev \in CloseEvents =>
            wire[k].text = Joined(wire[k].pos, k)
       /\ \A pos \in DOMAIN wire[k].output : wire[k].output[pos].text = Joined(pos, k)

-----------------------------------------------------------------------------
HeardCalls == FlattenSeq([k \in DOMAIN heard |-> heard[k].calls])

(* The first n deltas of q: those that name a call, the ids they give, and *)
(* those under an index, with or without an id                             *)
NamedBy(q, n) == {m \in 1 .. n : q[m].name}
Given(q, n) == {q[m].id : m \in NamedBy(q, n)} \ {NoId}
NamedAt(q, n, i) == {m \in NamedBy(q, n) : q[m].index = i}
MarkedAt(q, n, i) == {m \in NamedAt(q, n, i) : q[m].id # NoId}
NewestAt(q, n, i) == CHOOSE m \in MarkedAt(q, n, i) : \A l \in MarkedAt(q, n, i) : l <= m

Nobody == <<"nobody", 0>>

(* The last call named with an id under the index, else the call named     *)
(* without one                                                             *)
AtIndex(q, n, i) ==
  IF MarkedAt(q, n, i) # {} THEN <<"id", q[NewestAt(q, n, i)].id>>
  ELSE IF NamedAt(q, n, i) # {} THEN <<"index", i>>
  ELSE Nobody

(* Whom a tool-call delta belongs to, told from the history alone: the     *)
(* call of its id if that id was ever named, else that of its index        *)
Owner(q, n) ==
  IF q[n].id \in Given(q, n) THEN <<"id", q[n].id>> ELSE AtIndex(q, n, q[n].index)

(* The calls in the order in which they are first named *)
Callers(q) ==
  FlattenSeq([n \in DOMAIN q |->
    IF q[n].name /\ \A m \in 1 .. n - 1 : Owner(q, m) # Owner(q, n)
    THEN <<Owner(q, n)>> ELSE <<>>])

(* The arguments sent for a call *)
ArgsOf(q, caller) ==
  FlattenSeq([m \in DOMAIN q |-> IF Owner(q, m) = caller THEN q[m].args ELSE <<>>])

(* The positions of the calls in an output *)
CallItems(out) ==
  FlattenSeq([pos \in DOMAIN out |->
    IF out[pos].type = "function_call" THEN <<pos>> ELSE <<>>])

(* Each call named by the upstream is one item of the output, and its      *)
(* arguments are all the arguments sent for it and no others, also when    *)
(* parallel calls interleave or indices repeat from chunk to chunk         *)
(* (open_call, resolved).                                                  *)
ArgsReachTheirCall ==
  LET q == HeardCalls
      callers == Callers(q)
      items == CallItems(st.out)
  IN  /\ Len(items) = Len(callers)
      /\ \A n \in DOMAIN callers : st.out[items[n]].text = ArgsOf(q, callers[n])

Ended == wire # <<>> /\ wire[Len(wire)].ev \in {"completed", "incomplete"}

(* An incomplete answer never claims to be complete, nor the reverse; its  *)
(* status and its items agree with it; and the reason it gives is the one  *)
(* the upstream gave (rx_terminal_frame).                                  *)
VerdictHonest ==
  Ended =>
    LET last == wire[Len(wire)]
    IN  /\ last.ev = "incomplete" <=>
             \E k \in DOMAIN heard : Incomplete(heard[k].finish)
        /\ last.status = last.ev
        /\ \A why \in {"length", "content_filter"} :
             last.reason = incomplete_reason(why)
               <=> \E k \in DOMAIN heard : heard[k].finish = why
        /\ \A pos \in DOMAIN last.output : last.output[pos].status \in {"none", last.ev}

(* The terminal carries the usage the upstream reported last in the turn   *)
(* (ARCHITECTURE.md:165: the terminal frame "is deferred until the usage   *)
(* trailer (or stream end) so it carries real token counts").              *)
UsageCarried ==
  Ended =>
    \A k \in DOMAIN heard :
      heard[k].usage.given /\ (\A j \in k + 1 .. Len(heard) : ~heard[j].usage.given)
        => /\ wire[Len(wire)].usage.input = heard[k].usage.input
           /\ wire[Len(wire)].usage.output = heard[k].usage.output

-----------------------------------------------------------------------------
Turns == INSTANCE TurnStream WITH
  said <- CASE wire = <<>> -> "nothing"
            [] Ended -> "complete"
            [] wire # <<>> /\ wire[Len(wire)].ev = "failed" -> "failed"
            [] OTHER -> "speaking",
  body <- IF pump = "closed" THEN "closed" ELSE "open"

(* The frames of the Responses surface keep the promise every stream makes *)
(* its client (responses_stream_response, sse_response).                   *)
ImplementsTurn == Turns!Safety
=============================================================================
