----------------------------- MODULE MCResponses -----------------------------
(* Chunk alphabets and upstream turns for the Responses runs *)
EXTENDS ResponsesContent

CONSTANTS a, b

MCChar == {a, b}

U(n) == [given |-> TRUE, input |-> n, output |-> n, cached_read |-> 0, cache_write |-> 0]

Says(t) == [EmptyChunk EXCEPT !.delta_text = t]
Thinks == [EmptyChunk EXCEPT !.thinking = [kind |-> "thinking", text |-> <<b>>]]
Signs == [EmptyChunk EXCEPT !.thinking = [kind |-> "signature", text |-> <<b>>]]
CallsTool(q) == [EmptyChunk EXCEPT !.has_calls = TRUE, !.calls = q]
Names(i, id) == [index |-> i, id |-> id, name |-> TRUE, args |-> <<>>]
Opens(i, id) == [index |-> i, id |-> id, name |-> TRUE, args |-> <<a>>]
Args(i, id) == [index |-> i, id |-> id, name |-> FALSE, args |-> <<b>>]
Finishes(fr) == [EmptyChunk EXCEPT !.finish = fr]
Pings(n) == [EmptyChunk EXCEPT !.usage = U(n)]

(* Calls with ids under one index, calls known by index only, and their    *)
(* arguments with and without the id                                       *)
MixedChunks ==
  {Says(<<a>>), [Says(<<a>>) EXCEPT !.thinking = Thinks.thinking], Thinks, Signs,
   CallsTool(<<Opens(0, 1)>>), CallsTool(<<Names(0, 2)>>), CallsTool(<<Names(1, NoId)>>),
   CallsTool(<<Opens(0, NoId), Args(1, NoId)>>), CallsTool(<<Args(0, 1)>>),
   CallsTool(<<Args(0, NoId), Args(1, NoId)>>),
   Finishes("stop"), Finishes("length"), Finishes("content_filter"), Pings(1),
   [Finishes("stop") EXCEPT !.usage = U(2)]}

(* A turn says nothing after its finish, except for a usage trailer, names *)
(* every id once and reports usage once.                                   *)
PoliteTurn(q) ==
  LET calls == FlattenSeq([k \in DOMAIN q |-> q[k].calls])
  IN  /\ \A j, k \in DOMAIN q : j < k /\ q[j].finish # "none" =>
           q[k] = [EmptyChunk EXCEPT !.usage = q[k].usage]
      /\ \A m, n \in DOMAIN calls :
           /\ calls[m].name /\ calls[n].name
           /\ calls[m].id # NoId /\ calls[m].id = calls[n].id
           => m = n
      /\ \A j, k \in DOMAIN q : q[j].usage.given /\ q[k].usage.given => j = k
=============================================================================
