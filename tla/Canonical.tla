----------------------------- MODULE Canonical ------------------------------
(***************************************************************************)
(* The canonical chunk every dialect is translated to and from             *)
(* (canonical.rs).  Text is a sequence of characters of Char.              *)
(***************************************************************************)
EXTENDS Integers, Sequences

CONSTANT Char   \* the characters text is made of

Texts == Seq(Char)

(* Token counts; given = FALSE stands for usage: None.  input is the       *)
(* cache-inclusive prompt count.                                           *)
Usages == [given : BOOLEAN, input : Nat, output : Nat,
           cached_read : Nat, cache_write : Nat]

(* None, and what unwrap_or_default() makes of it *)
NoUsage == [given |-> FALSE, input |-> 0, output |-> 0,
            cached_read |-> 0, cache_write |-> 0]

(* A streamed tool-call delta: an id of 0 stands for no (or an empty) id,  *)
(* name tells whether function.name is present, args may be empty.         *)
NoId == 0
Calls == [index : Nat, id : Nat, name : BOOLEAN, args : Texts]

(* The canonical finish reasons, Anthropic's own ones that pass through,   *)
(* and anything else an upstream may say.                                  *)
StopReasons == {"end_turn", "max_tokens", "stop_sequence", "tool_use",
                "pause_turn", "refusal"}

FinishReasons == {"stop", "length", "tool_calls", "content_filter", "unknown"}
                   \cup StopReasons

(* No prompt count: None, which is not a count of 0 *)
NoTokens == -1

(* has_calls tells tool_calls = Some([]) from None *)
CanonChunk ==
  [input_tokens : Nat \cup {NoTokens},
   thinking : [kind : {"none", "thinking", "signature"}, text : Texts],
   delta_text : Texts,
   has_calls : BOOLEAN, calls : Seq(Calls),
   finish : FinishReasons \cup {"none"},
   usage : Usages]

(* The chunk CanonChunk::default() builds *)
EmptyChunk ==
  [input_tokens |-> NoTokens, thinking |-> [kind |-> "none", text |-> <<>>],
   delta_text |-> <<>>, has_calls |-> FALSE, calls |-> <<>>,
   finish |-> "none", usage |-> NoUsage]
=============================================================================
