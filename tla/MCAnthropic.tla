-------------------------- MODULE MCAnthropic --------------------------
(* Chunk alphabets and upstream turns for the Anthropic runs *)
EXTENDS AnthropicContent

CONSTANTS a, b

MCChar == {a, b}

NoStop == << >>
StopAB == << <<a, b>> >>

U(n) == [given |-> TRUE, input |-> n, output |-> n, cached_read |-> 1, cache_write |-> 0]

Says(t) == [EmptyChunk EXCEPT !.delta_text = t]
Thinks(t) == [EmptyChunk EXCEPT !.thinking = [kind |-> "thinking", text |-> t]]
Signs == [EmptyChunk EXCEPT !.thinking = [kind |-> "signature", text |-> <<b>>]]
CallsTool(q) == [EmptyChunk EXCEPT !.has_calls = TRUE, !.calls = q]
Names(i) == [index |-> i, id |-> NoId, name |-> TRUE, args |-> <<>>]
Args(i) == [index |-> i, id |-> NoId, name |-> FALSE, args |-> <<a>>]
Stops == [EmptyChunk EXCEPT !.finish = "stop"]
StopsWithUsage == [Stops EXCEPT !.usage = U(2)]
Pings(n) == [EmptyChunk EXCEPT !.usage = U(n)]
Prompt == [EmptyChunk EXCEPT !.input_tokens = 3]

AnyTurn(q) == TRUE

(* Every channel and every way to end, in any order *)
MixedChunks ==
  {Says(<<a>>), Thinks(<<a>>), Signs, CallsTool(<<Names(0)>>), CallsTool(<<Names(1)>>),
   CallsTool(<<Names(0), Names(1)>>), CallsTool(<<Args(0), Args(1)>>),
   [CallsTool(<<Names(1)>>) EXCEPT !.delta_text = <<b>>], CallsTool(<<>>),
   [Says(<<a>>) EXCEPT !.thinking = Thinks(<<b>>).thinking],
   [Says(<<a>>) EXCEPT !.usage = U(1)], Stops, StopsWithUsage, Pings(0), Pings(2), Prompt}

(* Tool calls as OpenAI-style upstreams number them: every call is named   *)
(* once, in index order, before its arguments, and once text or thinking   *)
(* has resumed after a name no new call is named.                          *)
OrderlyTurn(q) ==
  LET calls == FlattenSeq([k \in DOMAIN q |-> q[k].calls])
      named == SelectSeq(calls, LAMBDA tc : tc.name)
      naming == {k \in DOMAIN q : NamedIn(q[k]) # {}}
  IN  /\ \A n \in DOMAIN named : named[n].index = n - 1
      /\ \A n \in DOMAIN calls : \E m \in 1 .. n :
            calls[m].name /\ calls[m].index = calls[n].index
      /\ \A i, k \in naming : \A j \in i + 1 .. k : Content(q[j]) = <<>>

(* Text in pieces around the stop sequence ab, other channels between *)
OrderlyChunks ==
  {Says(<<a>>), Says(<<b>>), Says(<<b, a>>), Thinks(<<a>>), Thinks(<<b, a>>),
   CallsTool(<<Names(0), Args(0)>>), CallsTool(<<Names(1), Args(0)>>), CallsTool(<<Args(1)>>),
   [Says(<<a, a>>) EXCEPT !.thinking = Thinks(<<a>>).thinking],
   Stops, StopsWithUsage}

(* The smallest set in which text resumes between two calls *)
ToolChunks ==
  {Says(<<a>>), CallsTool(<<Names(0)>>), CallsTool(<<Names(1)>>), CallsTool(<<Args(1)>>)}
=============================================================================
