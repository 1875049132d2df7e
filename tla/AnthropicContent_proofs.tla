----------------------- MODULE AnthropicContent_proofs ------------------------
(***************************************************************************)
(* What the Anthropic surface keeps to whatever the upstream sends, and    *)
(* what it does to the content of a turn, for every alphabet, set of       *)
(* chunks, list of stop sequences and bound.                               *)
(***************************************************************************)
EXTENDS AnthropicContent, StopWindowLemmas

-----------------------------------------------------------------------------
(* The frames that do not end a body.  A framer is Silent until the first  *)
(* chunk, then Speaking: it has sent nothing but such frames.              *)
Speech == {f \in Frames : ~IsTerminal(f)}

Silent == {s \in StateSet : s.first /\ ~s.message_stopped /\ s.out = <<>>}

Speaking == {s \in StateSet : ~s.first /\ ~s.message_stopped /\ s.out \in Seq(Speech)}

LEMMA SpeakingFields ==
  ASSUME NEW s \in Speaking
  PROVE  /\ s.first = FALSE
         /\ s.blocks \in Seq(BOOLEAN)
         /\ Len(s.blocks) \in Nat
         /\ s.thinking_index \in Nat \cup {NoIndex}
         /\ s.text_index \in Nat \cup {NoIndex}
         /\ s.tool_base_index \in Nat \cup {NoIndex}
         /\ s.input_tokens \in Nat
         /\ s.stop_reason \in StopReasons \cup {"none"}
         /\ s.pending_usage \in Usages
         /\ s.win \in Windows
         /\ s.out \in Seq(Speech)
         /\ s.message_stopped = FALSE
  BY DEF Speaking, StateSet

LEMMA SpeechIsFrames == Seq(Speech) \subseteq Seq(Frames)
  BY DEF Speech

LEMMA SpeakingUpdates ==
  ASSUME NEW s \in Speaking
  PROVE  /\ \A v \in Seq(BOOLEAN) : [s EXCEPT !.blocks = v] \in Speaking
         /\ \A v \in Nat : [s EXCEPT !.thinking_index = v] \in Speaking
         /\ \A v \in Nat : [s EXCEPT !.text_index = v] \in Speaking
         /\ \A v \in Nat : [s EXCEPT !.tool_base_index = v] \in Speaking
         /\ \A v \in Nat : [s EXCEPT !.input_tokens = v] \in Speaking
         /\ \A v \in StopReasons \cup {"none"} : [s EXCEPT !.stop_reason = v] \in Speaking
         /\ \A v \in Usages : [s EXCEPT !.pending_usage = v] \in Speaking
         /\ \A v \in Windows : [s EXCEPT !.win = v] \in Speaking
         /\ \A v \in Seq(Speech) : [s EXCEPT !.out = v] \in Speaking
<1>1. s \in StateSet /\ ~s.first /\ ~s.message_stopped /\ s.out \in Seq(Speech)
  BY DEF Speaking
<1>2. \A v \in Seq(BOOLEAN) : [s EXCEPT !.blocks = v] \in Speaking
  BY <1>1 DEF Speaking, StateSet
<1>3. \A v \in Nat : [s EXCEPT !.thinking_index = v] \in Speaking
  BY <1>1 DEF Speaking, StateSet
<1>4. \A v \in Nat : [s EXCEPT !.text_index = v] \in Speaking
  BY <1>1 DEF Speaking, StateSet
<1>5. \A v \in Nat : [s EXCEPT !.tool_base_index = v] \in Speaking
  BY <1>1 DEF Speaking, StateSet
<1>6. \A v \in Nat : [s EXCEPT !.input_tokens = v] \in Speaking
  BY <1>1 DEF Speaking, StateSet
<1>7. \A v \in StopReasons \cup {"none"} : [s EXCEPT !.stop_reason = v] \in Speaking
  BY <1>1 DEF Speaking, StateSet
<1>8. \A v \in Usages : [s EXCEPT !.pending_usage = v] \in Speaking
  BY <1>1 DEF Speaking, StateSet
<1>9. \A v \in Windows : [s EXCEPT !.win = v] \in Speaking
  BY <1>1 DEF Speaking, StateSet
<1>10. \A v \in Seq(Speech) : [s EXCEPT !.out = v] \in Speaking
  BY <1>1, SpeechIsFrames DEF Speaking, StateSet
<1> QED
  BY <1>2, <1>3, <1>4, <1>5, <1>6, <1>7, <1>8, <1>9, <1>10

LEMMA FrameTypes ==
  /\ \A n \in Nat : MessageStart(n) \in Speech
  /\ \A i \in Nat, k \in BlockKinds : BlockStart(i, k) \in Speech
  /\ \A i \in Nat, k \in DeltaKinds, t \in Texts : BlockDelta(i, k, t) \in Speech
  /\ \A i \in Nat : BlockStop(i) \in Speech
  /\ \A r \in StopReasons, t \in Texts, u \in WireUsages : MessageDelta(r, t, u) \in Speech
  /\ MessageStop \in Frames /\ IsTerminal(MessageStop)
  /\ ErrorFrame \in Frames /\ IsTerminal(ErrorFrame)
  BY EmptySeq DEF Speech, Frames, Frame, MessageStart, BlockStart, BlockDelta, BlockStop,
     MessageDelta, MessageStop, ErrorFrame, NoWireUsage, WireUsages, IsTerminal, Texts

LEMMA PushType ==
  ASSUME NEW s \in Speaking, NEW f \in Speech
  PROVE  Push(s, f) \in Speaking
<1>1. Append(s.out, f) \in Seq(Speech)
  BY SpeakingFields, AppendProperties
<1>2. [s EXCEPT !.out = Append(s.out, f)] \in Speaking
  BY <1>1, SpeakingUpdates
<1> QED
  BY <1>2 DEF Push

-----------------------------------------------------------------------------
(* An open block has a number *)
LEMMA OpenIsNat ==
  ASSUME NEW s \in Speaking, NEW i \in Nat \cup {NoIndex, NoBlock}
  PROVE  /\ BlockOpen(s, i) \in BOOLEAN
         /\ BlockOpen(s, i) => i \in Nat
<1>1. s.blocks \in Seq(BOOLEAN) /\ Len(s.blocks) \in Nat
  BY SpeakingFields
<1>2. BlockOpen(s, i) => i \in Nat
  BY <1>1 DEF BlockOpen
<1>3. BlockOpen(s, i) \in BOOLEAN
  BY DEF BlockOpen
<1> QED
  BY <1>2, <1>3

LEMMA FlushType ==
  ASSUME NEW s \in Speaking
  PROVE  /\ flush_stop_tail(s) \in Speaking
         /\ flush_stop_tail(s).blocks = s.blocks
<1>1. PICK w \in Windows : w = s.win
  BY SpeakingFields
<1>2. TakeTail(w) \in Windows
  BY EmptySeq DEF TakeTail, Windows, Texts
<1>3. PICK t \in Speaking : t = [s EXCEPT !.win = TakeTail(w)]
  BY <1>2, SpeakingUpdates
<1>4. t.blocks = s.blocks
  BY <1>3
<1>5. CASE ~HasTail(s.win)
  BY <1>5 DEF flush_stop_tail
<1>6. CASE HasTail(s.win) /\ ~BlockOpen(s, w.block)
  BY <1>1, <1>3, <1>4, <1>6 DEF flush_stop_tail
<1>7. CASE HasTail(s.win) /\ BlockOpen(s, w.block)
  <2>1. w.block \in Nat
    BY <1>7, OpenIsNat DEF Windows
  <2>2. PICK f \in Speech :
          f = BlockDelta(w.block, IF w.kind = "thinking" THEN "thinking_delta" ELSE "text_delta",
                         w.tail)
    BY <2>1, FrameTypes DEF Windows, DeltaKinds
  <2>3. flush_stop_tail(s) = Push(t, f)
    BY <1>1, <1>3, <1>7, <2>2 DEF flush_stop_tail
  <2>4. Push(t, f).blocks = t.blocks
    BY DEF Push
  <2> QED
    BY <1>4, <2>3, <2>4, PushType
<1> QED
  BY <1>5, <1>6, <1>7

(* A finite set of numbers can be enumerated in ascending order *)
IsAscending(S, q) ==
  /\ q \in [1 .. Cardinality(S) -> S]
  /\ \A a, b \in 1 .. Cardinality(S) : a < b => q[a] < q[b]

Enumerable(S) == \E q : IsAscending(S, q)

LEMMA AscendingExists ==
  ASSUME NEW N \in Nat, NEW T
  PROVE  Enumerable(T \cap (0 .. N - 1))
<1> DEFINE S(n) == T \cap (0 .. n - 1)
           Bad == {n \in 0 .. N : ~Enumerable(S(n))}
<1>1. SUFFICES ASSUME Bad # {} PROVE FALSE
  <2>1. N \in 0 .. N
    OBVIOUS
  <2> QED
    BY <1>1, <2>1
<1>2. PICK n \in Bad : \A m \in Bad : n <= m
  <2>1. Bad \subseteq Nat
    OBVIOUS
  <2> HIDE DEF Bad
  <2> QED
    BY <1>1, <2>1, LeastNat
<1>3. n # 0
  <2>1. SUFFICES ASSUME n = 0 PROVE FALSE
    OBVIOUS
  <2>2. S(n) = {}
    BY <2>1
  <2>3. Cardinality(S(n)) = 0
    BY <2>2, FS_EmptySet
  <2>4. 1 .. 0 = {}
    OBVIOUS
  <2>5. IsAscending(S(n), [a \in 1 .. 0 |-> a])
    BY <2>3, <2>4 DEF IsAscending
  <2>6. Enumerable(S(n))
    BY <2>5 DEF Enumerable
  <2> QED
    BY <1>2, <2>6
<1>4. n - 1 \in 0 .. N /\ n \in 0 .. N
  BY <1>2, <1>3
<1>5. PICK q : IsAscending(S(n - 1), q)
  <2>1. n - 1 \notin Bad
    <3> HIDE DEF Bad
    <3> QED
      BY <1>2, <1>4
  <2>2. Enumerable(S(n - 1))
    BY <1>4, <2>1
  <2> QED
    BY <2>2 DEF Enumerable
<1>6. IsFiniteSet(S(n - 1)) /\ Cardinality(S(n - 1)) \in Nat
  <2>1. IsFiniteSet(0 .. n - 1 - 1)
    BY <1>4, FS_Interval
  <2>2. IsFiniteSet(S(n - 1))
    BY <2>1, FS_Subset
  <2> QED
    BY <2>2, FS_CardinalityType
<1>7. CASE n - 1 \notin T
  <2>1. S(n) = S(n - 1)
    BY <1>4, <1>7
  <2> QED
    BY <1>2, <1>5, <2>1 DEF Enumerable
<1>8. CASE n - 1 \in T
  <2>1. PICK P : P = S(n - 1)
    OBVIOUS
  <2>2. PICK c \in Nat : c = Cardinality(P)
    BY <1>6, <2>1
  <2>3. PICK m \in Nat : m = n - 1
    BY <1>4
  <2>4. S(n) = P \cup {m} /\ m \notin P /\ \A i \in P : i \in Nat /\ i < m
    BY <1>4, <1>8, <2>1, <2>3
  <2>5. Cardinality(S(n)) = c + 1
    BY <1>6, <2>1, <2>2, <2>4, FS_AddElement
  <2>6. /\ q \in [1 .. c -> P]
        /\ \A a, b \in 1 .. c : a < b => q[a] < q[b]
    BY <1>5, <2>1, <2>2 DEF IsAscending
  <2> HIDE DEF S
  <2>7. PICK r : r = [a \in 1 .. c + 1 |-> IF a = c + 1 THEN m ELSE q[a]]
    OBVIOUS
  <2>8. /\ \A a \in 1 .. c : a \in 1 .. c + 1 /\ a # c + 1
        /\ c + 1 \in 1 .. c + 1
        /\ \A a \in 1 .. c + 1 : a = c + 1 \/ a \in 1 .. c
    OBVIOUS
  <2>9. r[c + 1] = m /\ \A a \in 1 .. c : r[a] = q[a] /\ q[a] \in P
    BY <2>6, <2>7, <2>8
  <2>10. r \in [1 .. c + 1 -> S(n)]
    <3>1. \A a \in 1 .. c + 1 : r[a] \in S(n)
      BY <2>4, <2>8, <2>9
    <3> QED
      BY <2>7, <3>1
  <2>11. ASSUME NEW a \in 1 .. c + 1, NEW b \in 1 .. c + 1, a < b PROVE r[a] < r[b]
    <3>1. a \in 1 .. c
      BY <2>11
    <3>2. CASE b = c + 1
      BY <2>4, <2>9, <3>1, <3>2
    <3>3. CASE b # c + 1
      <4>1. b \in 1 .. c
        BY <3>3
      <4>2. q[a] < q[b]
        BY <2>6, <2>11, <3>1, <4>1
      <4> QED
        BY <2>9, <3>1, <4>1, <4>2
    <3> QED
      BY <3>2, <3>3
  <2>12. IsAscending(S(n), r)
    BY <2>5, <2>10, <2>11 DEF IsAscending
  <2> QED
    BY <1>2, <2>12 DEF Enumerable
<1> QED
  BY <1>7, <1>8

LEMMA AscendingType ==
  ASSUME NEW N \in Nat, NEW s
  PROVE  IsAscending({i \in 0 .. N - 1 : BlockOpen(s, i)},
                     Ascending({i \in 0 .. N - 1 : BlockOpen(s, i)}))
<1> DEFINE S == {i \in 0 .. N - 1 : BlockOpen(s, i)}
<1>1. PICK q : IsAscending(S, q)
  <2>1. S = {i \in Nat : BlockOpen(s, i)} \cap (0 .. N - 1)
    OBVIOUS
  <2> QED
    BY <2>1, AscendingExists DEF Enumerable
<1> HIDE DEF S
<1>2. IsAscending(S, Ascending(S))
  BY <1>1 DEF IsAscending, Ascending
<1> QED
  BY <1>2 DEF S

-----------------------------------------------------------------------------
(* Opening and closing blocks *)
LEMMA StopBelowType ==
  ASSUME NEW s \in Speaking, NEW n \in Nat
  PROVE  StopBelow(s, n) \in Speaking
<1>1. PICK q : q = Ascending({i \in 0 .. n - 1 : BlockOpen(s, i)})
  OBVIOUS
<1>2. PICK c \in Nat : q \in [1 .. c -> Nat]
  <2> DEFINE S == {i \in 0 .. n - 1 : BlockOpen(s, i)}
  <2>1. IsFiniteSet(S)
    <3>1. IsFiniteSet(0 .. n - 1) /\ S \subseteq 0 .. n - 1
      BY FS_Interval
    <3> QED
      BY <3>1, FS_Subset
  <2>2. Cardinality(S) \in Nat /\ S \subseteq Nat
    BY <2>1, FS_CardinalityType
  <2>3. q \in [1 .. Cardinality(S) -> S]
    BY <1>1, AscendingType DEF IsAscending
  <2> HIDE DEF S
  <2> QED
    BY <2>2, <2>3
<1>3. PICK stops : stops = [k \in DOMAIN q |-> BlockStop(q[k])]
  OBVIOUS
<1>4. stops \in Seq(Speech)
  <2>1. stops \in [1 .. c -> Speech]
    BY <1>2, <1>3, FrameTypes
  <2> QED
    BY <2>1
<1>5. PICK b : b = [k \in DOMAIN s.blocks |-> IF k <= n THEN FALSE ELSE s.blocks[k]]
  OBVIOUS
<1>6. b \in Seq(BOOLEAN)
  <2>1. s.blocks \in [1 .. Len(s.blocks) -> BOOLEAN] /\ Len(s.blocks) \in Nat
    <3>1. PICK v \in Seq(BOOLEAN) : v = s.blocks
      BY SpeakingFields
    <3>2. v \in [1 .. Len(v) -> BOOLEAN] /\ Len(v) \in Nat
      OBVIOUS
    <3> QED
      BY <3>1, <3>2
  <2>2. b \in [1 .. Len(s.blocks) -> BOOLEAN]
    BY <2>1, <1>5
  <2> QED
    BY <2>1, <2>2
<1>7. PICK t \in Speaking : t = [s EXCEPT !.blocks = b]
  BY <1>6, SpeakingUpdates
<1>8. t.out = s.out
  BY <1>7
<1>9. PICK o \in Seq(Speech) : o = s.out \o stops
  BY <1>4, SpeakingFields, ConcatProperties
<1>10. StopBelow(s, n) = [t EXCEPT !.out = o]
  BY <1>1, <1>3, <1>5, <1>7, <1>8, <1>9 DEF StopBelow, Speaking, StateSet
<1>11. [t EXCEPT !.out = o] \in Speaking
  BY SpeakingUpdates
<1> QED
  BY <1>10, <1>11

LEMMA CloseType ==
  ASSUME NEW s \in Speaking, NEW n \in Nat
  PROVE  close_block(s, n) \in Speaking
  BY FlushType, StopBelowType DEF close_block

LEMMA OpenedType ==
  ASSUME NEW blocks \in Seq(BOOLEAN), NEW idx \in Nat
  PROVE  Opened(blocks, idx) \in Seq(BOOLEAN)
<1>1. PICK n \in Nat : n = IF Len(blocks) <= idx THEN idx + 1 ELSE Len(blocks)
  OBVIOUS
<1>2. PICK b : b = [k \in 1 .. n |-> k = idx + 1 \/ (k <= Len(blocks) /\ blocks[k])]
  OBVIOUS
<1>3. b \in [1 .. n -> BOOLEAN]
  BY <1>2
<1>4. b \in Seq(BOOLEAN)
  BY <1>3
<1> QED
  BY <1>1, <1>2, <1>4 DEF Opened

LEMMA OpenType ==
  ASSUME NEW s \in Speaking, NEW idx \in Nat, NEW kind \in BlockKinds
  PROVE  open_block(s, idx, kind) \in Speaking
<1>1. PICK t \in Speaking : t = StopBelow(flush_stop_tail(s), idx)
  BY FlushType, StopBelowType
<1>2. PICK b \in Seq(BOOLEAN) : b = Opened(t.blocks, idx)
  BY OpenedType, SpeakingFields
<1>3. PICK u \in Speaking : u = [t EXCEPT !.blocks = b]
  BY <1>2, SpeakingUpdates
<1>4. u.out = t.out
  BY <1>3
<1>5. PICK o \in Seq(Speech) : o = Append(t.out, BlockStart(idx, kind))
  BY FrameTypes, SpeakingFields, AppendProperties
<1>6. open_block(s, idx, kind) = [u EXCEPT !.out = o]
  BY <1>1, <1>2, <1>3, <1>4, <1>5 DEF open_block, Speaking, StateSet
<1>7. [u EXCEPT !.out = o] \in Speaking
  BY SpeakingUpdates
<1> QED
  BY <1>6, <1>7

LEMMA NextIndexType ==
  ASSUME NEW s \in Speaking
  PROVE  next_index(s) \in Nat
  BY SpeakingFields DEF next_index

-----------------------------------------------------------------------------
(* A body that has its terminal, once and last *)
Ends(o) ==
  /\ o \in Seq(Frames)
  /\ o # <<>>
  /\ \A k \in 1 .. Len(o) : IsTerminal(o[k]) <=> k = Len(o)

Finished == {s \in StateSet : s.message_stopped /\ Ends(s.out)}

LEMMA TerminalEnds ==
  ASSUME NEW o \in Seq(Speech), NEW f \in Frames, IsTerminal(f)
  PROVE  Ends(Append(o, f))
<1>1. PICK n \in Nat : n = Len(o)
  OBVIOUS
<1>2. \A k \in 1 .. n : o[k] \in Frames /\ ~IsTerminal(o[k])
  BY <1>1 DEF Speech
<1>3. o \in Seq(Frames)
  BY SpeechIsFrames
<1>4. PICK p \in Seq(Frames) : p = Append(o, f)
  BY <1>3, AppendProperties
<1>5. Len(p) = n + 1 /\ p[n + 1] = f /\ \A k \in 1 .. n : p[k] = o[k]
  BY <1>1, <1>3, <1>4, AppendProperties
<1>6. p # <<>>
  BY <1>5
<1>7. ASSUME NEW k \in 1 .. Len(p) PROVE IsTerminal(p[k]) <=> k = Len(p)
  <2>1. CASE k = n + 1
    BY <1>5, <2>1
  <2>2. CASE k # n + 1
    <3>1. k \in 1 .. n
      BY <1>5, <2>2
    <3>2. p[k] = o[k] /\ ~IsTerminal(o[k])
      BY <1>2, <1>5, <3>1
    <3> QED
      BY <1>5, <2>2, <3>2
  <2> QED
    BY <2>1, <2>2
<1> QED
  BY <1>4, <1>6, <1>7 DEF Ends

LEMMA FinishedUpdate ==
  ASSUME NEW s \in Speaking, NEW o, Ends(o)
  PROVE  [s EXCEPT !.out = o, !.message_stopped = TRUE] \in Finished
  BY DEF Finished, Ends, Speaking, StateSet

LEMMA WireUsageType ==
  ASSUME NEW u \in Usages, NEW n \in Nat
  PROVE  [input |-> wire_input(u, n), output |-> u.output,
          cached_read |-> u.cached_read, cache_write |-> u.cache_write] \in WireUsages
<1>1. wire_input(u, n) \in Nat
  BY DEF wire_input, Usages
<1> QED
  BY <1>1 DEF Usages, WireUsages

(* The terminal is written once and is the last frame *)
LEMMA TerminalType ==
  ASSUME NEW s \in Speaking, NEW reason \in StopReasons, NEW u \in Usages
  PROVE  emit_terminal(s, reason, u) \in Finished
<1>1. PICK t \in Speaking : t = close_block(s, Len(s.blocks))
  BY SpeakingFields, CloseType
<1>2. PICK verdict \in StopReasons :
        verdict = IF t.win.matched # <<>> THEN "stop_sequence" ELSE reason
  BY DEF StopReasons
<1>3. PICK usage \in WireUsages :
        usage = [input |-> wire_input(u, t.input_tokens), output |-> u.output,
                 cached_read |-> u.cached_read, cache_write |-> u.cache_write]
  BY SpeakingFields, WireUsageType
<1>4. t.win.matched \in Texts
  BY SpeakingFields DEF Windows
<1>5. PICK md \in Speech : md = MessageDelta(verdict, t.win.matched, usage)
  BY <1>4, FrameTypes
<1>6. PICK o \in Seq(Speech) : o = Append(t.out, md)
  BY SpeakingFields, AppendProperties
<1>7. t.out \o <<md, MessageStop>> = Append(o, MessageStop)
  <2>1. PICK x \in Seq(Frames) : x = t.out
    BY SpeakingFields, SpeechIsFrames
  <2>2. md \in Frames /\ MessageStop \in Frames
    BY FrameTypes DEF Speech
  <2>3. x \o <<md, MessageStop>> = Append(Append(x, md), MessageStop)
    BY <2>2
  <2> QED
    BY <1>6, <2>1, <2>3
<1>8. Ends(t.out \o <<md, MessageStop>>)
  BY <1>7, FrameTypes, TerminalEnds
<1>9. emit_terminal(s, reason, u) =
        [t EXCEPT !.out = t.out \o <<md, MessageStop>>, !.message_stopped = TRUE]
  BY <1>1, <1>2, <1>3, <1>5, Zenon DEF emit_terminal
<1> QED
  BY <1>8, <1>9, FinishedUpdate

LEMMA ReasonType ==
  ASSUME NEW fr \in FinishReasons
  PROVE  map_stop_reason_outbound(fr) \in StopReasons
  BY DEF map_stop_reason_outbound, FinishReasons, StopReasons

-----------------------------------------------------------------------------
(* The sections of chunk_to_sse_events *)
LEMMA PreambleType ==
  ASSUME NEW s \in Silent \cup Speaking, NEW c \in CanonChunk
  PROVE  preamble(s, c) \in Speaking
<1>1. PICK n \in Nat : n = IF c.input_tokens > 0 THEN c.input_tokens ELSE s.input_tokens
  BY DEF CanonChunk, NoTokens, Silent, Speaking, StateSet
<1>2. CASE s \in Speaking
  <2>1. s.first = FALSE
    BY <1>2, SpeakingFields
  <2>2. [s EXCEPT !.input_tokens = n] \in Speaking
    BY <1>2, SpeakingUpdates
  <2> QED
    BY <1>1, <2>1, <2>2 DEF preamble
<1>3. CASE s \in Silent
  <2>1. PICK u : u = [s EXCEPT !.input_tokens = n, !.first = FALSE]
    OBVIOUS
  <2>2. u \in Speaking
    <3>1. u \in StateSet /\ ~u.first /\ ~u.message_stopped /\ u.out = <<>>
      BY <1>3, <2>1 DEF Silent, StateSet
    <3>2. u.out \in Seq(Speech)
      BY <3>1, EmptySeq
    <3> QED
      BY <3>1, <3>2 DEF Speaking
  <2>3. [[s EXCEPT !.input_tokens = n] EXCEPT !.first = FALSE] = u
    BY <1>3, <2>1 DEF Silent, StateSet
  <2>4. s.first
    BY <1>3 DEF Silent
  <2>5. preamble(s, c) = Push(u, MessageStart(n))
    BY <1>1, <2>3, <2>4, Zenon DEF preamble
  <2> QED
    BY <2>2, <2>5, FrameTypes, PushType
<1> QED
  BY <1>2, <1>3

LEMMA TrailerType ==
  ASSUME NEW s \in Speaking, NEW c \in CanonChunk
  PROVE  trailer(s, c) \in Speaking \cup Finished
<1>1. c.usage \in Usages
  BY DEF CanonChunk
<1>2. CASE s.stop_reason = "none"
  <2>1. [s EXCEPT !.pending_usage = c.usage] \in Speaking
    BY <1>1, SpeakingUpdates
  <2> QED
    BY <1>2, <2>1 DEF trailer
<1>3. CASE s.stop_reason # "none"
  <2>1. s.stop_reason \in StopReasons
    BY <1>3, SpeakingFields
  <2>2. PICK t \in Speaking : t = [s EXCEPT !.stop_reason = "none"]
    BY SpeakingUpdates
  <2>3. emit_terminal(t, s.stop_reason, c.usage) \in Finished
    BY <1>1, <2>1, TerminalType
  <2> QED
    BY <1>3, <2>2, <2>3 DEF trailer
<1> QED
  BY <1>2, <1>3

LEMMA ReopenType ==
  ASSUME NEW s \in Speaking, NEW idx \in Nat \cup {NoIndex}, NEW kind \in BlockKinds
  PROVE  reopen(s, idx, kind) \in Speaking /\ slot(s, idx) \in Nat
<1>1. next_index(s) \in Nat
  BY NextIndexType
<1>2. BlockOpen(s, idx) => idx \in Nat
  BY OpenIsNat
<1>3. open_block(s, next_index(s), kind) \in Speaking
  BY <1>1, OpenType
<1> QED
  BY <1>1, <1>2, <1>3 DEF reopen, slot

LEMMA FilteredType ==
  ASSUME NEW s \in Speaking, NEW idx \in Nat, NEW channel \in {"text", "thinking"},
         NEW kind \in DeltaKinds, NEW text \in Texts
  PROVE  filtered(s, idx, channel, kind, text) \in Speaking
<1>1. CASE ~HasWindow
  BY <1>1, FrameTypes, PushType DEF filtered
<1>2. CASE HasWindow
  <2>1. PICK w \in Windows : w = s.win
    BY SpeakingFields
  <2>2. PICK r : r = Feed(w, idx, channel, text)
    OBVIOUS
  <2>3. r.win \in Windows /\ r.emit \in Texts
    BY <2>2, FeedType
  <2>4. PICK t \in Speaking : t = [s EXCEPT !.win = r.win]
    BY <2>3, SpeakingUpdates
  <2>5. Push(t, BlockDelta(idx, kind, r.emit)) \in Speaking
    BY <2>3, FrameTypes, PushType
  <2>6. filtered(s, idx, channel, kind, text) =
          IF r.emit = <<>> THEN t ELSE Push(t, BlockDelta(idx, kind, r.emit))
    BY <1>2, <2>1, <2>2, <2>4 DEF filtered
  <2> QED
    BY <2>5, <2>6
<1> QED
  BY <1>1, <1>2

LEMMA ThinkingType ==
  ASSUME NEW s \in Speaking, NEW c \in CanonChunk
  PROVE  thinking_section(s, c) \in Speaking
<1>1. CASE c.thinking.kind = "none"
  BY <1>1 DEF thinking_section
<1>2. CASE c.thinking.kind # "none"
  <2>1. c.thinking.text \in Texts
    BY DEF CanonChunk
  <2>2. PICK i \in Nat : i = slot(s, s.thinking_index)
    BY SpeakingFields, ReopenType DEF BlockKinds
  <2>3. PICK u \in Speaking : u = reopen(s, s.thinking_index, "thinking")
    BY SpeakingFields, ReopenType DEF BlockKinds
  <2>4. PICK t \in Speaking : t = [u EXCEPT !.thinking_index = i]
    BY SpeakingUpdates
  <2>5. Push(t, BlockDelta(i, "signature_delta", c.thinking.text)) \in Speaking
    BY <2>1, FrameTypes, PushType DEF DeltaKinds
  <2>6. filtered(t, i, "thinking", "thinking_delta", c.thinking.text) \in Speaking
    BY <2>1, FilteredType DEF DeltaKinds
  <2> QED
    BY <1>2, <2>2, <2>3, <2>4, <2>5, <2>6 DEF thinking_section
<1> QED
  BY <1>1, <1>2

LEMMA TextType ==
  ASSUME NEW s \in Speaking, NEW c \in CanonChunk
  PROVE  text_section(s, c) \in Speaking
<1>1. CASE c.delta_text = <<>>
  BY <1>1 DEF text_section
<1>2. CASE c.delta_text # <<>>
  <2>1. c.delta_text \in Texts
    BY DEF CanonChunk
  <2>2. PICK i \in Nat : i = slot(s, s.text_index)
    BY SpeakingFields, ReopenType DEF BlockKinds
  <2>3. PICK u \in Speaking : u = reopen(s, s.text_index, "text")
    BY SpeakingFields, ReopenType DEF BlockKinds
  <2>4. PICK t \in Speaking : t = [u EXCEPT !.text_index = i]
    BY SpeakingUpdates
  <2>5. filtered(t, i, "text", "text_delta", c.delta_text) \in Speaking
    BY <2>1, FilteredType DEF DeltaKinds
  <2> QED
    BY <1>2, <2>2, <2>3, <2>4, <2>5 DEF text_section
<1> QED
  BY <1>1, <1>2

(* Tool calls: their base index is fixed for the whole loop *)
Based(b) == {s \in Speaking : s.tool_base_index = b}

LEMMA BasedUpdates ==
  ASSUME NEW b, NEW s \in Based(b)
  PROVE  /\ \A v \in Seq(BOOLEAN) : [s EXCEPT !.blocks = v] \in Based(b)
         /\ \A v \in Windows : [s EXCEPT !.win = v] \in Based(b)
         /\ \A v \in Seq(Speech) : [s EXCEPT !.out = v] \in Based(b)
<1>1. s \in Speaking /\ s \in StateSet /\ s.tool_base_index = b
  BY DEF Based, Speaking
<1>2. ASSUME NEW v \in Seq(BOOLEAN) PROVE [s EXCEPT !.blocks = v] \in Based(b)
  BY <1>1, SpeakingUpdates DEF Based, StateSet
<1>3. ASSUME NEW v \in Windows PROVE [s EXCEPT !.win = v] \in Based(b)
  BY <1>1, SpeakingUpdates DEF Based, StateSet
<1>4. ASSUME NEW v \in Seq(Speech) PROVE [s EXCEPT !.out = v] \in Based(b)
  BY <1>1, SpeakingUpdates DEF Based, StateSet
<1> QED
  BY <1>2, <1>3, <1>4

LEMMA PushBase ==
  ASSUME NEW b, NEW s \in Based(b), NEW f \in Speech
  PROVE  Push(s, f) \in Based(b)
<1>1. s \in Speaking /\ s \in StateSet
  BY DEF Based, Speaking
<1>2. Push(s, f).tool_base_index = s.tool_base_index
  BY <1>1 DEF Push, StateSet
<1>3. Push(s, f) \in Speaking
  BY <1>1, PushType
<1> QED
  BY <1>2, <1>3 DEF Based

LEMMA OpenBase ==
  ASSUME NEW b, NEW s \in Based(b), NEW idx \in Nat, NEW kind \in BlockKinds
  PROVE  open_block(s, idx, kind) \in Based(b)
<1>1. s \in Speaking /\ s \in StateSet /\ s.tool_base_index = b
  BY DEF Based, Speaking
<1>2. PICK t \in Speaking : t = flush_stop_tail(s)
  BY <1>1, FlushType
<1>3. PICK u \in Speaking : u = StopBelow(t, idx)
  BY StopBelowType
<1>4. t.tool_base_index = b
  BY <1>1, <1>2 DEF flush_stop_tail, Push, StateSet
<1>5. u.tool_base_index = t.tool_base_index
  BY <1>3 DEF StopBelow, Speaking, StateSet
<1>6. open_block(s, idx, kind).tool_base_index = u.tool_base_index
  BY <1>2, <1>3 DEF open_block, Speaking, StateSet
<1>7. open_block(s, idx, kind) \in Speaking
  BY <1>1, OpenType
<1> QED
  BY <1>4, <1>5, <1>6, <1>7 DEF Based

LEMMA ToolDeltaBase ==
  ASSUME NEW b \in Nat, NEW s \in Based(b), NEW tc \in Calls
  PROVE  tool_delta(s, tc) \in Based(b)
<1>1. s.tool_base_index = b
  BY DEF Based
<1>2. PICK idx \in Nat : idx = s.tool_base_index + tc.index
  BY <1>1 DEF Calls
<1>3. PICK t \in Based(b) : t = IF tc.name THEN open_block(s, idx, "tool_use") ELSE s
  BY OpenBase DEF BlockKinds
<1>4. PICK f \in Speech : f = BlockDelta(idx, "input_json_delta", tc.args)
  BY FrameTypes DEF Calls, DeltaKinds
<1>5. Push(t, f) \in Based(b)
  BY PushBase
<1>6. tool_delta(s, tc) =
        IF tc.args # <<>> /\ BlockOpen(t, idx) THEN Push(t, f) ELSE t
  BY <1>2, <1>3, <1>4 DEF tool_delta
<1> QED
  BY <1>5, <1>6

(* The loop's recursive function: f[n] is the state after n calls *)
After(s, calls, m, f) ==
  f = [n \in 0 .. m |-> IF n = 0 THEN s ELSE tool_delta(f[n - 1], calls[n])]

LEMMA AfterExists ==
  ASSUME NEW s, NEW calls, NEW N \in Nat
  PROVE  \E f : After(s, calls, N, f)
<1> DEFINE Bad == {m \in 0 .. N : ~\E f : After(s, calls, m, f)}
<1>1. SUFFICES ASSUME Bad # {} PROVE FALSE
  <2>1. N \in 0 .. N
    OBVIOUS
  <2> QED
    BY <1>1, <2>1
<1>2. PICK m \in Bad : \A k \in Bad : m <= k
  <2>1. Bad \subseteq Nat
    OBVIOUS
  <2> HIDE DEF Bad
  <2> QED
    BY <1>1, <2>1, LeastNat
<1>3. CASE m = 0
  <2>1. PICK f : f = [n \in 0 .. 0 |-> s]
    OBVIOUS
  <2>2. After(s, calls, 0, f)
    BY <2>1 DEF After
  <2> QED
    BY <1>2, <1>3, <2>2
<1>4. CASE m # 0
  <2>1. PICK p \in Nat : p = m - 1 /\ m = p + 1 /\ p \in 0 .. N
    BY <1>2, <1>4
  <2>2. p \notin Bad
    <3> HIDE DEF Bad
    <3> QED
      BY <1>2, <2>1
  <2>3. PICK f : After(s, calls, p, f)
    BY <2>1, <2>2
  <2>4. PICK last : last = tool_delta(f[p], calls[p + 1])
    OBVIOUS
  <2>5. PICK g : g = [n \in 0 .. p + 1 |-> IF n = p + 1 THEN last ELSE f[n]]
    OBVIOUS
  <2>6. \A n \in 0 .. p : g[n] = f[n]
    BY <2>5
  <2>7. ASSUME NEW n \in 0 .. p + 1
        PROVE  g[n] = IF n = 0 THEN s ELSE tool_delta(g[n - 1], calls[n])
    <3>1. CASE n = p + 1
      <4>1. g[n] = last /\ n # 0 /\ n - 1 = p
        BY <2>5, <3>1
      <4>2. g[n - 1] = f[p]
        BY <2>6, <4>1
      <4> QED
        BY <2>4, <3>1, <4>1, <4>2
    <3>2. CASE n # p + 1
      <4>1. n \in 0 .. p /\ (n # 0 => n - 1 \in 0 .. p)
        BY <3>2
      <4>2. f[n] = IF n = 0 THEN s ELSE tool_delta(f[n - 1], calls[n])
        BY <2>3, <4>1 DEF After
      <4> QED
        BY <2>6, <4>1, <4>2
    <3> QED
      BY <3>1, <3>2
  <2>8. g = [n \in 0 .. p + 1 |-> IF n = 0 THEN s ELSE tool_delta(g[n - 1], calls[n])]
    BY <2>5, <2>7
  <2>9. After(s, calls, m, g)
    BY <2>1, <2>8 DEF After
  <2> QED
    BY <1>2, <2>9
<1> QED
  BY <1>3, <1>4

LEMMA ToolLoopType ==
  ASSUME NEW b \in Nat, NEW s \in Based(b), NEW calls \in Seq(Calls)
  PROVE  tool_loop(s, calls) \in Speaking
<1>1. PICK L \in Nat : L = Len(calls)
  OBVIOUS
<1>2. PICK f : After(s, calls, L, f) /\ tool_loop(s, calls) = f[L]
  <2>1. \E g : After(s, calls, L, g)
    BY AfterExists
  <2>2. PICK f : f = CHOOSE g : After(s, calls, L, g)
    OBVIOUS
  <2>3. After(s, calls, L, f)
    BY <2>1, <2>2
  <2>4. tool_loop(s, calls) = f[L]
    BY <1>1, <2>2 DEF tool_loop, After
  <2> QED
    BY <2>3, <2>4
<1>3. \A n \in 0 .. L : f[n] = IF n = 0 THEN s ELSE tool_delta(f[n - 1], calls[n])
  BY <1>2 DEF After
<1> DEFINE Bad == {n \in 0 .. L : f[n] \notin Based(b)}
<1>4. Bad = {}
  <2>1. SUFFICES ASSUME Bad # {} PROVE FALSE
    OBVIOUS
  <2>2. PICK m \in Bad : \A k \in Bad : m <= k
    <3>1. Bad \subseteq Nat
      OBVIOUS
    <3> HIDE DEF Bad
    <3> QED
      BY <2>1, <3>1, LeastNat
  <2>3. m \in 0 .. L /\ f[m] \notin Based(b)
    BY <2>2
  <2>4. m # 0
    BY <1>3, <2>3
  <2>5. PICK p \in Nat : p = m - 1 /\ p \in 0 .. L /\ m \in 1 .. Len(calls)
    BY <1>1, <2>3, <2>4
  <2>6. f[p] \in Based(b)
    BY <2>2, <2>5
  <2>7. calls[m] \in Calls
    BY <2>5
  <2>8. f[m] = tool_delta(f[p], calls[m])
    BY <1>3, <2>3, <2>4, <2>5
  <2> QED
    BY <2>3, <2>6, <2>7, <2>8, ToolDeltaBase
<1>5. f[L] \in Based(b)
  BY <1>4
<1> QED
  BY <1>2, <1>5 DEF Based

LEMMA ToolType ==
  ASSUME NEW s \in Speaking, NEW c \in CanonChunk
  PROVE  tool_section(s, c) \in Speaking
<1>1. PICK b \in Nat : b = IF s.tool_base_index = NoIndex THEN next_index(s)
                           ELSE s.tool_base_index
  BY NextIndexType, SpeakingFields
<1>2. PICK t \in Speaking : t = [s EXCEPT !.tool_base_index = b]
  BY SpeakingUpdates
<1>3. t \in Based(b)
  BY <1>2 DEF Based, Speaking, StateSet
<1>4. c.calls \in Seq(Calls)
  BY DEF CanonChunk
<1>5. tool_loop(t, c.calls) \in Speaking
  BY <1>3, <1>4, ToolLoopType
<1> QED
  BY <1>1, <1>2, <1>5 DEF tool_section

LEMMA FinishType ==
  ASSUME NEW s \in Speaking, NEW c \in CanonChunk
  PROVE  finish_section(s, c) \in Speaking \cup Finished
<1>1. CASE c.finish = "none"
  BY <1>1 DEF finish_section
<1>2. CASE c.finish # "none"
  <2>1. c.finish \in FinishReasons /\ c.usage \in Usages
    BY <1>2 DEF CanonChunk
  <2>2. PICK sr \in StopReasons : sr = map_stop_reason_outbound(c.finish)
    BY <2>1, ReasonType
  <2>3. emit_terminal(s, sr, c.usage) \in Finished
    BY <2>1, TerminalType
  <2>4. [s EXCEPT !.stop_reason = sr] \in Speaking
    BY SpeakingUpdates
  <2> QED
    BY <1>2, <2>2, <2>3, <2>4 DEF finish_section
<1> QED
  BY <1>1, <1>2

LEMMA ChunkType ==
  ASSUME NEW s \in Silent \cup Speaking, NEW c \in CanonChunk
  PROVE  chunk_to_sse_events(s, c) \in Speaking \cup Finished
<1>1. ~s.message_stopped
  BY DEF Silent, Speaking
<1>2. PICK t \in Speaking : t = preamble(s, c)
  BY PreambleType
<1>3. trailer(t, c) \in Speaking \cup Finished
  BY TrailerType
<1>4. PICK u \in Speaking : u = thinking_section(t, c)
  BY ThinkingType
<1>5. PICK v \in Speaking : v = text_section(u, c)
  BY TextType
<1>6. PICK w \in Speaking : w = tool_section(v, c)
  BY ToolType
<1>7. finish_section(w, c) \in Speaking \cup Finished
  BY FinishType
<1> QED
  BY <1>1, <1>2, <1>3, <1>4, <1>5, <1>6, <1>7 DEF chunk_to_sse_events

-----------------------------------------------------------------------------
(* The invariant: until the message stops the framer is silent or speaking;  *)
(* then its body is empty or ends with its only terminal, unless the source  *)
(* may fail once more after its turn; and a body that failed or closed has   *)
(* stopped.                                                                  *)
Quiet == {s \in StateSet : s.message_stopped /\ (s.out = <<>> \/ Ends(s.out))}

Reachable == Silent \cup Speaking \cup
             (IF LateErrors THEN {s \in StateSet : s.message_stopped} ELSE Quiet)

IInv ==
  /\ st \in Reachable
  /\ heard \in Seq(Chunks)
  /\ pump \in {"open", "failed", "closed"}
  /\ pump # "open" => st.message_stopped

LEMMA ReachableParts ==
  /\ Silent \cup Speaking \cup Finished \cup Quiet \subseteq Reachable
  /\ Reachable \subseteq StateSet
  /\ \A s \in Reachable : ~s.message_stopped => s \in Silent \cup Speaking
  /\ \A s \in Reachable : s.message_stopped /\ ~LateErrors => s \in Quiet
<1>1. Finished \subseteq Quiet /\ Quiet \subseteq {s \in StateSet : s.message_stopped}
  BY DEF Finished, Quiet
<1>2. \A s \in Silent \cup Speaking : s \in StateSet /\ ~s.message_stopped
  BY DEF Silent, Speaking
<1>3. \A s \in Quiet : s.message_stopped
  BY DEF Quiet
<1> QED
  BY <1>1, <1>2, <1>3 DEF Reachable

LEMMA InitIInv == Init => IInv
<1> SUFFICES ASSUME Init PROVE IInv
  OBVIOUS
<1>1. NewWindow \in Windows /\ NoUsage \in Usages /\ NewState \in StateSet
  BY EmptySeq DEF NewState, StateSet, NewWindow, Windows, Texts, NoUsage, Usages, NoBlock, NoIndex
<1>2. NewState \in Silent
  BY <1>1 DEF Silent, NewState
<1>3. heard \in Seq(Chunks)
  BY EmptySeq DEF Init
<1> QED
  BY <1>2, <1>3, ReachableParts DEF Init, IInv

LEMMA FailType ==
  ASSUME NEW s \in Reachable, LateErrors \/ ~s.message_stopped
  PROVE  LET t == Push([s EXCEPT !.message_stopped = TRUE], ErrorFrame)
         IN  t \in Reachable /\ t.message_stopped
<1>1. s \in StateSet /\ s.out \in Seq(Frames)
  BY ReachableParts DEF StateSet
<1>2. PICK o \in Seq(Frames) : o = Append(s.out, ErrorFrame)
  BY <1>1, FrameTypes, AppendProperties
<1>3. PICK t : t = Push([s EXCEPT !.message_stopped = TRUE], ErrorFrame)
  OBVIOUS
<1>4. t = [s EXCEPT !.message_stopped = TRUE, !.out = o]
  BY <1>1, <1>2, <1>3 DEF Push, StateSet
<1>5. t \in StateSet /\ t.message_stopped /\ t.out = o
  BY <1>1, <1>4 DEF StateSet
<1>6. CASE LateErrors
  BY <1>3, <1>5, <1>6 DEF Reachable
<1>7. CASE ~s.message_stopped
  <2>1. s.out \in Seq(Speech)
    <3>1. s \in Silent \cup Speaking
      BY <1>7, ReachableParts
    <3> QED
      BY <3>1, EmptySeq DEF Silent, Speaking
  <2>2. Ends(o)
    BY <1>2, <2>1, FrameTypes, TerminalEnds
  <2>3. t \in Finished
    BY <1>5, <2>2 DEF Finished
  <2> QED
    BY <1>3, <1>5, <2>3, ReachableParts
<1> QED
  BY <1>6, <1>7

LEMMA FinalizeType ==
  ASSUME NEW s \in Reachable
  PROVE  finalize_stream(s) \in Reachable /\ finalize_stream(s).message_stopped
<1>1. CASE s.message_stopped
  BY <1>1 DEF finalize_stream
<1>2. CASE s \in Silent
  <2>1. PICK t : t = [s EXCEPT !.message_stopped = TRUE]
    OBVIOUS
  <2>2. t \in StateSet /\ t.message_stopped /\ t.out = <<>>
    BY <1>2, <2>1 DEF Silent, StateSet
  <2>3. t \in Reachable
    BY <2>2, ReachableParts DEF Quiet
  <2>4. finalize_stream(s) = t
    BY <1>2, <2>1 DEF finalize_stream, Silent
  <2> QED
    BY <2>2, <2>3, <2>4
<1>3. CASE s \in Speaking
  <2>1. PICK reason \in StopReasons :
          reason = IF s.stop_reason = "none" THEN "end_turn" ELSE s.stop_reason
    BY <1>3, SpeakingFields DEF StopReasons
  <2>2. PICK u \in Usages : u = s.pending_usage
    BY <1>3, SpeakingFields
  <2>3. PICK t \in Speaking : t = [s EXCEPT !.stop_reason = "none"]
    BY <1>3, SpeakingUpdates
  <2>4. NoUsage \in Usages
    BY DEF NoUsage, Usages
  <2>5. PICK v \in Speaking : v = [t EXCEPT !.pending_usage = NoUsage]
    BY <2>4, SpeakingUpdates
  <2>6. v = [s EXCEPT !.stop_reason = "none", !.pending_usage = NoUsage]
    BY <1>3, <2>3, <2>5 DEF Speaking, StateSet
  <2>7. emit_terminal(v, reason, u) \in Finished
    BY TerminalType
  <2>8. finalize_stream(s) = emit_terminal(v, reason, u)
    BY <1>3, <2>1, <2>2, <2>6, SpeakingFields, Zenon DEF finalize_stream
  <2> QED
    BY <2>7, <2>8, ReachableParts DEF Finished
<1> QED
  BY <1>1, <1>2, <1>3, ReachableParts

LEMMA StepIInv == IInv /\ [Next]_vars => IInv'
<1> SUFFICES ASSUME IInv, [Next]_vars PROVE IInv'
  OBVIOUS
<1>1. st \in Reachable /\ heard \in Seq(Chunks)
  BY DEF IInv
<1>2. ASSUME NEW c \in Chunks, Chunk(c) PROVE IInv'
  <2>1. c \in CanonChunk /\ Append(heard, c) \in Seq(Chunks)
    BY <1>1, ChunksAssumption, AppendProperties
  <2>2. heard' \in Seq(Chunks)
    BY <1>1, <1>2, <2>1 DEF Chunk
  <2>3. chunk_to_sse_events(st, c) \in Reachable
    <3>1. CASE st.message_stopped
      BY <1>1, <3>1 DEF chunk_to_sse_events
    <3>2. CASE ~st.message_stopped
      BY <1>1, <2>1, <3>2, ReachableParts, ChunkType
    <3> QED
      BY <3>1, <3>2
  <2> QED
    BY <1>2, <2>2, <2>3 DEF Chunk, IInv
<1>3. CASE Fail
  BY <1>1, <1>3, FailType DEF Fail, IInv
<1>4. CASE End
  BY <1>1, <1>4, FinalizeType DEF End, IInv
<1>5. CASE UNCHANGED vars
  BY <1>5 DEF IInv, vars, Reachable
<1> QED
  BY <1>2, <1>3, <1>4, <1>5 DEF Next

THEOREM Invariance == Spec => []IInv
<1> QED
  BY InitIInv, StepIInv, PTL DEF Spec

(* The framer's state stays well formed whatever the chunks, stop sequences *)
(* and bounds: block numbers, the window and every frame sent              *)
(* (chunk_to_sse_events, finalize_stream and the shell's error frame).     *)
THEOREM TypeCorrect == Spec => []TypeOK
<1>1. IInv => TypeOK
  BY ReachableParts DEF IInv, TypeOK
<1> QED
  BY <1>1, Invariance, PTL

(* A stream whose source fails at most while its turn is running ends with *)
(* exactly one terminal frame, the last of the body, however chunks, usage *)
(* trailers, stop sequences and the end of the stream fall                 *)
(* (emit_terminal, finalize_stream, the Err arm).                          *)
THEOREM TerminalOnce == ~LateErrors => (Spec => []OneTerminal)
<1>1. ASSUME ~LateErrors, IInv PROVE OneTerminal
  <2>1. st \in Reachable /\ (pump = "closed" => st.message_stopped)
    BY <1>1 DEF IInv
  <2>2. CASE st.message_stopped
    <3>1. st.out = <<>> \/ Ends(st.out)
      BY <1>1, <2>1, <2>2, ReachableParts DEF Quiet
    <3>2. CASE st.out = <<>>
      BY <3>2 DEF OneTerminal, out
    <3>3. CASE Ends(st.out)
      <4>1. PICK o \in Seq(Frames) : o = st.out /\ Ends(o)
        BY <3>3 DEF Ends
      <4>2. DOMAIN o = 1 .. Len(o) /\ Len(o) \in Nat /\ Len(o) # 0
        BY <4>1 DEF Ends
      <4>3. \A k \in 1 .. Len(o) : IsTerminal(o[k]) <=> k = Len(o)
        BY <4>1 DEF Ends
      <4>4. IsTerminal(o[Len(o)])
        <5>1. PICK n : n = Len(o)
          OBVIOUS
        <5>2. n \in 1 .. n
          BY <4>2, <5>1
        <5> QED
          BY <4>3, <5>1, <5>2
      <4> QED
        BY <4>1, <4>2, <4>3, <4>4 DEF OneTerminal, out
    <3> QED
      BY <3>1, <3>2, <3>3
  <2>3. CASE ~st.message_stopped
    <3>1. st.out \in Seq(Speech) /\ pump # "closed"
      <4>1. st \in Silent \cup Speaking
        BY <2>1, <2>3, ReachableParts
      <4> QED
        BY <2>1, <2>3, <4>1, EmptySeq DEF Silent, Speaking
    <3>2. \A k \in DOMAIN st.out : ~IsTerminal(st.out[k])
      BY <3>1 DEF Speech
    <3> QED
      BY <3>1, <3>2 DEF OneTerminal, out
  <2> QED
    BY <2>2, <2>3
<1>2. ~LateErrors => (IInv => OneTerminal)
  BY <1>1
<1>3. SUFFICES ASSUME ~LateErrors PROVE Spec => []OneTerminal
  OBVIOUS
<1>4. IInv => OneTerminal
  BY <1>2, <1>3
<1> QED
  BY <1>4, Invariance, PTL

-----------------------------------------------------------------------------
(* Why the blocks of the body are bracketed *)

(* Block i is open at the end of body o *)
OpenIn(o, i) == OpenAfter(o, i, Len(o))

(* A delta or a stop finds its block open, a start no block below its own *)
Balanced(o) ==
  \A k \in 1 .. Len(o) :
    /\ o[k].ev \in {"content_block_delta", "content_block_stop"} =>
         OpenAfter(o, o[k].index, k - 1)
    /\ o[k].ev = "content_block_start" =>
         \A i \in 0 .. o[k].index - 1 : ~OpenAfter(o, i, k - 1)

BlockEvents == {"content_block_start", "content_block_delta", "content_block_stop"}

(* A body that goes on: its preamble, then frames of blocks *)
Voiced(o) ==
  /\ o # <<>> /\ o[1].ev = "message_start"
  /\ \A k \in 1 .. Len(o) : k # 1 => o[k].ev \in BlockEvents

(* The vector of the framer says which blocks are open *)
Tracked(s) == \A i \in Nat : BlockOpen(s, i) <=> OpenIn(s.out, i)

Nested == {s \in Speaking : Balanced(s.out) /\ Voiced(s.out) /\ Tracked(s)}

-----------------------------------------------------------------------------
(* Bodies that grow *)
Continues(p, o) ==
  /\ Len(o) \in Nat /\ Len(p) \in Nat /\ Len(o) <= Len(p)
  /\ \A k \in 1 .. Len(o) : p[k] = o[k]

LEMMA SameBefore ==
  ASSUME NEW o, NEW p, Continues(p, o), NEW k \in 0 .. Len(o), NEW i
  PROVE  OpenAfter(p, i, k) <=> OpenAfter(o, i, k)
<1>1. \A j \in 1 .. k : p[j] = o[j]
  BY DEF Continues
<1>2. \A j \in 1 .. k : \A m \in j + 1 .. k : p[m] = o[m]
  BY DEF Continues
<1> QED
  BY <1>1, <1>2 DEF OpenAfter

LEMMA GrowByOne ==
  ASSUME NEW o \in Seq(Frames), NEW f \in Frames, NEW p, p = Append(o, f)
  PROVE  /\ p \in Seq(Frames) /\ Continues(p, o)
         /\ Len(p) = Len(o) + 1 /\ p[Len(p)] = f
<1>1. /\ p \in Seq(Frames) /\ Len(p) = Len(o) + 1 /\ p[Len(o) + 1] = f
      /\ \A k \in 1 .. Len(o) : p[k] = o[k]
  BY AppendProperties
<1>2. Len(o) \in Nat /\ Len(p) \in Nat
  BY <1>1
<1> QED
  BY <1>1, <1>2 DEF Continues

LEMMA OpenAppend ==
  ASSUME NEW o \in Seq(Frames), NEW f \in Frames, NEW p, p = Append(o, f), NEW i \in Nat
  PROVE  OpenIn(p, i) <=> \/ f.ev = "content_block_start" /\ f.index = i
                          \/ OpenIn(o, i) /\ ~(f.ev = "content_block_stop" /\ f.index = i)
<1>1. /\ Len(p) = Len(o) + 1 /\ p[Len(p)] = f /\ Len(o) \in Nat
      /\ \A k \in 1 .. Len(o) : p[k] = o[k]
  BY GrowByOne DEF Continues
<1>2. PICK n \in Nat : n = Len(o)
  BY <1>1
<1>3. ASSUME f.ev = "content_block_start", f.index = i PROVE OpenIn(p, i)
  <2>1. n + 1 \in 1 .. n + 1 /\ n + 1 + 1 .. n + 1 = {}
    OBVIOUS
  <2> QED
    BY <1>1, <1>2, <1>3, <2>1 DEF OpenIn, OpenAfter
<1>4. ASSUME OpenIn(o, i), ~(f.ev = "content_block_stop" /\ f.index = i) PROVE OpenIn(p, i)
  <2>1. PICK j \in 1 .. n : /\ o[j].ev = "content_block_start" /\ o[j].index = i
                            /\ \A m \in j + 1 .. n :
                                 ~(o[m].ev = "content_block_stop" /\ o[m].index = i)
    BY <1>2, <1>4 DEF OpenIn, OpenAfter
  <2>2. j \in 1 .. n + 1 /\ p[j] = o[j]
    BY <1>1, <1>2
  <2>3. ASSUME NEW m \in j + 1 .. n + 1
        PROVE  ~(p[m].ev = "content_block_stop" /\ p[m].index = i)
    <3>1. CASE m = n + 1
      BY <1>1, <1>2, <1>4, <3>1
    <3>2. CASE m # n + 1
      <4>1. m \in j + 1 .. n /\ m \in 1 .. n
        BY <3>2
      <4>2. p[m] = o[m]
        BY <1>1, <1>2, <4>1
      <4> QED
        BY <2>1, <4>1, <4>2
    <3> QED
      BY <3>1, <3>2
  <2> QED
    BY <1>1, <1>2, <2>1, <2>2, <2>3 DEF OpenIn, OpenAfter
<1>5. ASSUME OpenIn(p, i), ~(f.ev = "content_block_start" /\ f.index = i)
      PROVE  OpenIn(o, i) /\ ~(f.ev = "content_block_stop" /\ f.index = i)
  <2>1. PICK j \in 1 .. n + 1 : /\ p[j].ev = "content_block_start" /\ p[j].index = i
                                /\ \A m \in j + 1 .. n + 1 :
                                     ~(p[m].ev = "content_block_stop" /\ p[m].index = i)
    BY <1>1, <1>2, <1>5 DEF OpenIn, OpenAfter
  <2>2. j # n + 1
    BY <1>1, <1>2, <1>5, <2>1
  <2>3. j \in 1 .. n /\ n + 1 \in j + 1 .. n + 1
    BY <2>2
  <2>4. ~(f.ev = "content_block_stop" /\ f.index = i)
    BY <1>1, <1>2, <2>1, <2>3
  <2>5. p[j] = o[j]
    BY <1>1, <1>2, <2>3
  <2>6. ASSUME NEW m \in j + 1 .. n
        PROVE  ~(o[m].ev = "content_block_stop" /\ o[m].index = i)
    <3>1. m \in j + 1 .. n + 1 /\ m \in 1 .. n
      BY <2>3
    <3>2. p[m] = o[m]
      BY <1>1, <1>2, <3>1
    <3> QED
      BY <2>1, <3>1, <3>2
  <2> QED
    BY <1>2, <2>1, <2>3, <2>4, <2>5, <2>6 DEF OpenIn, OpenAfter
<1> QED
  BY <1>3, <1>4, <1>5

LEMMA BalancedAppend ==
  ASSUME NEW o \in Seq(Frames), NEW f \in Frames, NEW p, p = Append(o, f), Balanced(o),
         f.ev \in {"content_block_delta", "content_block_stop"} => OpenIn(o, f.index),
         f.ev = "content_block_start" => \A i \in 0 .. f.index - 1 : ~OpenIn(o, i)
  PROVE  Balanced(p)
<1>1. Continues(p, o) /\ Len(p) = Len(o) + 1 /\ p[Len(p)] = f /\ Len(o) \in Nat
  BY GrowByOne DEF Continues
<1>2. SUFFICES ASSUME NEW k \in 1 .. Len(p)
               PROVE  /\ p[k].ev \in {"content_block_delta", "content_block_stop"} =>
                           OpenAfter(p, p[k].index, k - 1)
                      /\ p[k].ev = "content_block_start" =>
                           \A i \in 0 .. p[k].index - 1 : ~OpenAfter(p, i, k - 1)
  BY DEF Balanced
<1>3. CASE k = Len(p)
  <2>1. k - 1 = Len(o) /\ k - 1 \in 0 .. Len(o)
    BY <1>1, <1>3
  <2>2. \A i : OpenAfter(p, i, k - 1) <=> OpenAfter(o, i, k - 1)
    BY <1>1, <2>1, SameBefore
  <2>3. \A i : OpenAfter(o, i, k - 1) <=> OpenIn(o, i)
    BY <2>1 DEF OpenIn
  <2>4. p[k] = f
    BY <1>1, <1>3
  <2> QED
    BY <2>2, <2>3, <2>4
<1>4. CASE k # Len(p)
  <2>1. k \in 1 .. Len(o) /\ k - 1 \in 0 .. Len(o)
    BY <1>1, <1>4
  <2>2. p[k] = o[k]
    BY <1>1, <2>1 DEF Continues
  <2>3. /\ o[k].ev \in {"content_block_delta", "content_block_stop"} =>
             OpenAfter(o, o[k].index, k - 1)
        /\ o[k].ev = "content_block_start" =>
             \A i \in 0 .. o[k].index - 1 : ~OpenAfter(o, i, k - 1)
    BY <2>1 DEF Balanced
  <2>4. \A i : OpenAfter(p, i, k - 1) <=> OpenAfter(o, i, k - 1)
    BY <1>1, <2>1, SameBefore
  <2> QED
    BY <2>2, <2>3, <2>4
<1> QED
  BY <1>3, <1>4

LEMMA VoicedAppend ==
  ASSUME NEW o \in Seq(Frames), NEW f \in Frames, NEW p, p = Append(o, f), Voiced(o),
         f.ev \in BlockEvents
  PROVE  Voiced(p)
<1>1. /\ p \in Seq(Frames) /\ Len(p) = Len(o) + 1 /\ p[Len(p)] = f /\ Len(o) \in Nat
      /\ \A k \in 1 .. Len(o) : p[k] = o[k]
  BY GrowByOne DEF Continues
<1>2. Len(o) # 0 /\ o[1].ev = "message_start"
  BY DEF Voiced
<1>3. p # <<>> /\ p[1] = o[1]
  BY <1>1, <1>2
<1>4. \A k \in 1 .. Len(p) : k = Len(p) \/ k \in 1 .. Len(o)
  BY <1>1
<1> QED
  BY <1>1, <1>2, <1>3, <1>4 DEF Voiced

-----------------------------------------------------------------------------
(* The framer's steps on blocks *)
LEMMA NestedFields ==
  ASSUME NEW s \in Nested
  PROVE  /\ s \in Speaking /\ s.out \in Seq(Speech) /\ s.out \in Seq(Frames)
         /\ s.blocks \in Seq(BOOLEAN) /\ Len(s.blocks) \in Nat
         /\ Balanced(s.out) /\ Voiced(s.out) /\ Tracked(s)
  BY SpeakingFields, SpeechIsFrames DEF Nested

(* Nesting depends on the blocks and the body alone *)
LEMMA SameNesting ==
  ASSUME NEW s \in Nested, NEW t \in Speaking, t.out = s.out, t.blocks = s.blocks
  PROVE  /\ t \in Nested
         /\ \A i \in Nat : BlockOpen(t, i) <=> BlockOpen(s, i)
<1>1. \A i \in Nat : BlockOpen(t, i) <=> BlockOpen(s, i)
  BY DEF BlockOpen
<1>2. Tracked(t)
  BY <1>1, NestedFields DEF Tracked
<1> QED
  BY <1>1, <1>2, NestedFields DEF Nested

(* A delta for an open block *)
LEMMA DeltaNested ==
  ASSUME NEW s \in Nested, NEW i \in Nat, BlockOpen(s, i),
         NEW kind \in DeltaKinds, NEW text \in Texts
  PROVE  /\ Push(s, BlockDelta(i, kind, text)) \in Nested
         /\ \A j \in Nat : BlockOpen(Push(s, BlockDelta(i, kind, text)), j) <=> BlockOpen(s, j)
<1>1. PICK f \in Speech : f = BlockDelta(i, kind, text)
  BY FrameTypes
<1>2. f \in Frames /\ f.ev = "content_block_delta" /\ f.index = i
  BY <1>1 DEF BlockDelta, Frame, Speech
<1>3. PICK t \in Speaking : t = Push(s, f)
  BY NestedFields, PushType
<1>4. t.out = Append(s.out, f) /\ t.blocks = s.blocks
  BY <1>3, NestedFields DEF Push, Speaking, StateSet
<1>5. \A j \in Nat : BlockOpen(t, j) <=> BlockOpen(s, j)
  BY <1>4 DEF BlockOpen
<1>6. OpenIn(s.out, i)
  BY NestedFields DEF Tracked
<1>7. \A j \in Nat : OpenIn(t.out, j) <=> OpenIn(s.out, j)
  <2>1. s.out \in Seq(Frames) /\ f.ev # "content_block_start" /\ f.ev # "content_block_stop"
    BY <1>2, NestedFields
  <2>2. SUFFICES ASSUME NEW j \in Nat PROVE OpenIn(t.out, j) <=> OpenIn(s.out, j)
    OBVIOUS
  <2> QED
    BY <1>2, <1>4, <2>1, OpenAppend
<1>8. Balanced(t.out)
  BY <1>2, <1>4, <1>6, NestedFields, BalancedAppend
<1>9. Voiced(t.out)
  BY <1>2, <1>4, NestedFields, VoicedAppend DEF BlockEvents
<1>10. Tracked(t)
  BY <1>5, <1>7, NestedFields DEF Tracked
<1> QED
  BY <1>1, <1>3, <1>5, <1>8, <1>9, <1>10 DEF Nested

LEMMA FlushNested ==
  ASSUME NEW s \in Nested
  PROVE  /\ flush_stop_tail(s) \in Nested
         /\ \A i \in Nat : BlockOpen(flush_stop_tail(s), i) <=> BlockOpen(s, i)
<1>1. s \in Speaking
  BY NestedFields
<1>2. PICK w \in Windows : w = s.win
  BY <1>1, SpeakingFields
<1>3. TakeTail(w) \in Windows
  BY EmptySeq DEF TakeTail, Windows, Texts
<1>4. PICK t \in Speaking : t = [s EXCEPT !.win = TakeTail(w)]
  BY <1>1, <1>3, SpeakingUpdates
<1>5. t.out = s.out /\ t.blocks = s.blocks
  BY <1>1, <1>4 DEF Speaking, StateSet
<1>6. t \in Nested /\ \A i \in Nat : BlockOpen(t, i) <=> BlockOpen(s, i)
  BY <1>5, SameNesting
<1>7. CASE ~HasTail(s.win)
  BY <1>7 DEF flush_stop_tail
<1>8. CASE HasTail(s.win) /\ ~BlockOpen(s, w.block)
  BY <1>2, <1>4, <1>6, <1>8 DEF flush_stop_tail
<1>9. CASE HasTail(s.win) /\ BlockOpen(s, w.block)
  <2>1. w.block \in Nat
    BY <1>1, <1>9, OpenIsNat DEF Windows
  <2>2. PICK kind \in DeltaKinds :
          kind = IF w.kind = "thinking" THEN "thinking_delta" ELSE "text_delta"
    BY DEF DeltaKinds
  <2>3. w.tail \in Texts
    BY DEF Windows
  <2>4. PICK u : u = Push(t, BlockDelta(w.block, kind, w.tail))
    OBVIOUS
  <2>5. BlockOpen(t, w.block)
    BY <1>6, <1>9, <2>1
  <2>6. u \in Nested /\ \A i \in Nat : BlockOpen(u, i) <=> BlockOpen(t, i)
    BY <1>6, <2>1, <2>3, <2>4, <2>5, DeltaNested
  <2>7. flush_stop_tail(s) = u
    BY <1>2, <1>4, <1>9, <2>2, <2>4 DEF flush_stop_tail
  <2> QED
    BY <1>6, <2>6, <2>7
<1> QED
  BY <1>7, <1>8, <1>9

(* The closing loop: q lists every open block below n, and none twice *)
OncePerBlock(s, n, q, c) ==
  /\ DOMAIN q = 1 .. c
  /\ \A a \in 1 .. c : q[a] \in 0 .. n - 1 /\ BlockOpen(s, q[a])
  /\ \A i \in 0 .. n - 1 : BlockOpen(s, i) => \E a \in 1 .. c : q[a] = i
  /\ \A a, b \in 1 .. c : a < b => q[a] # q[b]

LEMMA StopsOnce ==
  ASSUME NEW s, NEW n \in Nat,
         NEW q, q = Ascending({i \in 0 .. n - 1 : BlockOpen(s, i)})
  PROVE  \E c \in Nat : OncePerBlock(s, n, q, c)
<1>1. PICK S : S = {i \in 0 .. n - 1 : BlockOpen(s, i)}
  OBVIOUS
<1>2. IsFiniteSet(S)
  <2>1. IsFiniteSet(0 .. n - 1) /\ S \subseteq 0 .. n - 1
    BY <1>1, FS_Interval
  <2> QED
    BY <2>1, FS_Subset
<1>3. PICK c \in Nat : c = Cardinality(S)
  BY <1>2, FS_CardinalityType
<1>4. /\ q \in [1 .. c -> S]
      /\ \A a, b \in 1 .. c : a < b => q[a] < q[b]
  <2>1. IsAscending(S, q)
    BY <1>1, AscendingType
  <2> QED
    BY <1>3, <2>1 DEF IsAscending
<1>5. \A a \in 1 .. c : q[a] \in 0 .. n - 1 /\ BlockOpen(s, q[a])
  BY <1>1, <1>4
<1>6. \A a, b \in 1 .. c : a < b => q[a] # q[b]
  BY <1>4, <1>5
<1>7. q \in Injection(1 .. c, S)
  <2>1. ASSUME NEW a \in 1 .. c, NEW b \in 1 .. c, q[a] = q[b] PROVE a = b
    <3>1. ~(a < b) /\ ~(b < a)
      BY <1>6, <2>1
    <3> QED
      BY <3>1
  <2> QED
    BY <1>4, <2>1 DEF Injection, IsInjective
<1>8. q \in Surjection(1 .. c, S)
  <2>1. Cardinality(1 .. c) = c
    BY FS_Interval
  <2> QED
    BY <1>2, <1>3, <1>7, <2>1, FS_Injection
<1>9. \A i \in S : \E a \in 1 .. c : q[a] = i
  BY <1>8 DEF Surjection
<1>10. DOMAIN q = 1 .. c
  BY <1>4
<1>11. \A i \in 0 .. n - 1 : BlockOpen(s, i) => \E a \in 1 .. c : q[a] = i
  BY <1>1, <1>9
<1>12. OncePerBlock(s, n, q, c)
  BY <1>5, <1>6, <1>10, <1>11, Zenon DEF OncePerBlock
<1> QED
  BY <1>12

(* What a run of stops leaves open, at each of its points *)
LEMMA StopsAppend ==
  ASSUME NEW o, NEW p, Continues(p, o),
         \A k \in Len(o) + 1 .. Len(p) : p[k].ev = "content_block_stop",
         NEW i, NEW k \in Len(o) .. Len(p)
  PROVE  OpenAfter(p, i, k) <=> /\ OpenIn(o, i)
                                /\ \A m \in Len(o) + 1 .. k : p[m].index # i
<1>1. PICK n \in Nat : n = Len(o)
  BY DEF Continues
<1>2. PICK l \in Nat : l = Len(p) /\ n <= l /\ k \in n .. l /\ k \in Nat
  BY <1>1 DEF Continues
<1>3. \A m \in 1 .. n : p[m] = o[m]
  BY <1>1 DEF Continues
<1>4. \A m \in n + 1 .. k : p[m].ev = "content_block_stop" /\ m \in n + 1 .. l
  BY <1>1, <1>2
<1>5. ASSUME OpenAfter(p, i, k)
      PROVE  OpenIn(o, i) /\ \A m \in n + 1 .. k : p[m].index # i
  <2>1. PICK j \in 1 .. k : /\ p[j].ev = "content_block_start" /\ p[j].index = i
                            /\ \A m \in j + 1 .. k :
                                 ~(p[m].ev = "content_block_stop" /\ p[m].index = i)
    BY <1>5 DEF OpenAfter
  <2>2. j \in 1 .. n
    <3>1. j \notin n + 1 .. k
      BY <1>4, <2>1
    <3> QED
      BY <1>2, <3>1
  <2>3. \A m \in n + 1 .. k : m \in j + 1 .. k
    BY <1>2, <2>2
  <2>4. \A m \in j + 1 .. n : m \in j + 1 .. k /\ m \in 1 .. n
    BY <1>2, <2>2
  <2>5. \A m \in j + 1 .. n : ~(o[m].ev = "content_block_stop" /\ o[m].index = i)
    BY <1>3, <2>1, <2>4
  <2>6. o[j].ev = "content_block_start" /\ o[j].index = i
    BY <1>3, <2>1, <2>2
  <2> QED
    BY <1>1, <1>4, <2>1, <2>2, <2>3, <2>5, <2>6 DEF OpenIn, OpenAfter
<1>6. ASSUME OpenIn(o, i), \A m \in n + 1 .. k : p[m].index # i
      PROVE  OpenAfter(p, i, k)
  <2>1. PICK j \in 1 .. n : /\ o[j].ev = "content_block_start" /\ o[j].index = i
                            /\ \A m \in j + 1 .. n :
                                 ~(o[m].ev = "content_block_stop" /\ o[m].index = i)
    BY <1>1, <1>6 DEF OpenIn, OpenAfter
  <2>2. j \in 1 .. k /\ p[j] = o[j]
    BY <1>2, <1>3
  <2>3. \A m \in j + 1 .. k : m \in n + 1 .. k \/ (m \in j + 1 .. n /\ m \in 1 .. n)
    BY <1>2
  <2>4. \A m \in j + 1 .. k : ~(p[m].ev = "content_block_stop" /\ p[m].index = i)
    BY <1>3, <1>6, <2>1, <2>3
  <2> QED
    BY <2>1, <2>2, <2>4 DEF OpenAfter
<1> QED
  BY <1>1, <1>5, <1>6

(* Body p is o and one stop for each open block below n of s *)
StopsEach(s, n, o, p) ==
  /\ Continues(p, o)
  /\ \A k \in Len(o) + 1 .. Len(p) :
       /\ p[k].ev = "content_block_stop"
       /\ p[k].index \in 0 .. n - 1 /\ BlockOpen(s, p[k].index)
       /\ \A m \in Len(o) + 1 .. k - 1 : p[m].index # p[k].index
  /\ \A i \in 0 .. n - 1 : BlockOpen(s, i) =>
       \E k \in Len(o) + 1 .. Len(p) : p[k].index = i

LEMMA StopBelowParts ==
  ASSUME NEW s \in Nested, NEW n \in Nat, NEW t, t = StopBelow(s, n)
  PROVE  /\ t \in Speaking
         /\ \A i \in Nat : BlockOpen(t, i) <=> BlockOpen(s, i) /\ i >= n
         /\ StopsEach(s, n, s.out, t.out)
<1>1. s \in Speaking /\ s.out \in Seq(Frames) /\ s.blocks \in Seq(BOOLEAN)
  BY NestedFields
<1>2. t \in Speaking
  BY <1>1, StopBelowType
<1>3. PICK q : q = Ascending({i \in 0 .. n - 1 : BlockOpen(s, i)})
  OBVIOUS
<1>4. PICK c \in Nat : OncePerBlock(s, n, q, c)
  BY <1>3, StopsOnce
<1>5. /\ DOMAIN q = 1 .. c
      /\ \A a \in 1 .. c : q[a] \in 0 .. n - 1 /\ BlockOpen(s, q[a])
      /\ \A i \in 0 .. n - 1 : BlockOpen(s, i) => \E a \in 1 .. c : q[a] = i
      /\ \A a, b \in 1 .. c : a < b => q[a] # q[b]
  BY <1>4 DEF OncePerBlock
<1>6. PICK stops : stops = [k \in 1 .. c |-> BlockStop(q[k])]
  OBVIOUS
<1>7. /\ stops \in Seq(Frames) /\ Len(stops) = c
      /\ \A a \in 1 .. c : stops[a].ev = "content_block_stop" /\ stops[a].index = q[a]
  <2>1. \A a \in 1 .. c : q[a] \in Nat
    BY <1>5
  <2>2. \A a \in 1 .. c : BlockStop(q[a]) \in Frames
    BY <2>1, FrameTypes DEF Speech
  <2>3. stops \in [1 .. c -> Frames]
    BY <1>6, <2>2
  <2>4. \A a \in 1 .. c : stops[a] = BlockStop(q[a])
    BY <1>6
  <2> QED
    BY <2>3, <2>4 DEF BlockStop, Frame
<1>8. PICK b : b = [k \in DOMAIN s.blocks |-> IF k <= n THEN FALSE ELSE s.blocks[k]]
  OBVIOUS
<1>9. t.out = s.out \o stops /\ t.blocks = b
  BY <1>1, <1>3, <1>5, <1>6, <1>8 DEF StopBelow, Speaking, StateSet
<1>10. \A i \in Nat : BlockOpen(t, i) <=> BlockOpen(s, i) /\ i >= n
  <2>1. PICK v \in Seq(BOOLEAN) : v = s.blocks
    BY <1>1
  <2>2. PICK l \in Nat : l = Len(v) /\ DOMAIN v = 1 .. l
    OBVIOUS
  <2>3. \A k \in 1 .. l : v[k] \in BOOLEAN
    BY <2>2
  <2>4. b = [k \in 1 .. l |-> IF k <= n THEN FALSE ELSE v[k]]
    BY <1>8, <2>1, <2>2
  <2>5. b \in [1 .. l -> BOOLEAN]
    BY <2>3, <2>4
  <2>6. Len(b) = l
    BY <2>5
  <2>7. \A i \in 0 .. l - 1 : i + 1 \in 1 .. l /\ (i + 1 <= n <=> ~(i >= n))
    OBVIOUS
  <2>8. \A i \in 0 .. l - 1 : b[i + 1] = IF ~(i >= n) THEN FALSE ELSE v[i + 1]
    BY <2>4, <2>7
  <2> QED
    BY <1>9, <2>1, <2>2, <2>6, <2>8 DEF BlockOpen
<1>11. PICK o \in Seq(Frames) : o = s.out
  BY <1>1
<1>12. PICK p : p = o \o stops /\ p = t.out
  BY <1>9, <1>11
<1>13. /\ Len(o) \in Nat /\ Len(p) = Len(o) + c /\ Len(p) \in Nat
       /\ \A k \in 1 .. Len(o) : p[k] = o[k]
       /\ \A k \in Len(o) + 1 .. Len(o) + c : p[k] = stops[k - Len(o)]
  <2>1. PICK n1 \in Nat : n1 = Len(o)
    OBVIOUS
  <2>2. /\ Len(p) = n1 + c
        /\ \A k \in 1 .. n1 + c : p[k] = IF k <= n1 THEN o[k] ELSE stops[k - n1]
    <3>1. /\ Len(o \o stops) = Len(o) + Len(stops)
          /\ \A k \in 1 .. Len(o) + Len(stops) :
               (o \o stops)[k] = IF k <= Len(o) THEN o[k] ELSE stops[k - Len(o)]
      BY <1>7, ConcatProperties
    <3> QED
      BY <1>7, <1>12, <2>1, <3>1
  <2>3. \A k \in 1 .. n1 : p[k] = o[k]
    BY <2>2
  <2>4. \A k \in n1 + 1 .. n1 + c : p[k] = stops[k - n1]
    BY <2>2
  <2> QED
    BY <2>1, <2>2, <2>3, <2>4
<1>14. \A k \in Len(o) + 1 .. Len(p) :
         /\ k - Len(o) \in 1 .. c
         /\ p[k].ev = "content_block_stop" /\ p[k].index = q[k - Len(o)]
  BY <1>7, <1>13
<1>15. \A k \in Len(o) + 1 .. Len(p) : \A m \in Len(o) + 1 .. k - 1 : p[m].index # p[k].index
  <2>1. SUFFICES ASSUME NEW k \in Len(o) + 1 .. Len(p), NEW m \in Len(o) + 1 .. k - 1
                 PROVE  p[m].index # p[k].index
    OBVIOUS
  <2>2. m \in Len(o) + 1 .. Len(p) /\ m - Len(o) < k - Len(o)
    BY <1>13
  <2> QED
    BY <1>5, <1>14, <2>2
<1>16. ASSUME NEW i \in 0 .. n - 1, BlockOpen(s, i)
       PROVE  \E k \in Len(o) + 1 .. Len(p) : p[k].index = i
  <2>1. PICK a \in 1 .. c : q[a] = i
    BY <1>5, <1>16
  <2>2. Len(o) + a \in Len(o) + 1 .. Len(p) /\ Len(o) + a - Len(o) = a
    BY <1>13
  <2> QED
    BY <1>14, <2>1, <2>2
<1>17. Continues(p, o)
  BY <1>13 DEF Continues
<1>18. \A k \in Len(o) + 1 .. Len(p) :
         /\ p[k].ev = "content_block_stop"
         /\ p[k].index \in 0 .. n - 1 /\ BlockOpen(s, p[k].index)
  BY <1>5, <1>14
<1>19. StopsEach(s, n, o, p)
  BY <1>15, <1>16, <1>17, <1>18 DEF StopsEach
<1> QED
  BY <1>2, <1>10, <1>11, <1>12, <1>19

LEMMA StopBelowNested ==
  ASSUME NEW s \in Nested, NEW n \in Nat
  PROVE  /\ StopBelow(s, n) \in Nested
         /\ \A i \in Nat : BlockOpen(StopBelow(s, n), i) <=> BlockOpen(s, i) /\ i >= n
<1>1. PICK t : t = StopBelow(s, n)
  OBVIOUS
<1>2. PICK o : o = s.out
  OBVIOUS
<1>3. PICK p : p = t.out
  OBVIOUS
<1>4. t \in Speaking /\ \A i \in Nat : BlockOpen(t, i) <=> BlockOpen(s, i) /\ i >= n
  BY <1>1, StopBelowParts
<1>5. /\ Continues(p, o)
      /\ \A k \in Len(o) + 1 .. Len(p) :
           /\ p[k].ev = "content_block_stop"
           /\ p[k].index \in 0 .. n - 1 /\ BlockOpen(s, p[k].index)
           /\ \A m \in Len(o) + 1 .. k - 1 : p[m].index # p[k].index
      /\ \A i \in 0 .. n - 1 : BlockOpen(s, i) =>
           \E k \in Len(o) + 1 .. Len(p) : p[k].index = i
  <2>1. StopsEach(s, n, o, p)
    BY <1>1, <1>2, <1>3, StopBelowParts
  <2> QED
    BY <2>1 DEF StopsEach
<1>6. Balanced(o) /\ Voiced(o) /\ \A i \in Nat : BlockOpen(s, i) <=> OpenIn(o, i)
  BY <1>2, NestedFields DEF Tracked
<1>7. /\ Len(o) \in Nat /\ Len(p) \in Nat /\ Len(o) <= Len(p)
      /\ \A k \in 1 .. Len(o) : p[k] = o[k]
  BY <1>5 DEF Continues
<1>8. ASSUME NEW i \in Nat, NEW k \in Len(o) .. Len(p)
      PROVE  OpenAfter(p, i, k) <=> OpenIn(o, i) /\ \A m \in Len(o) + 1 .. k : p[m].index # i
  <2>1. Continues(p, o) /\ \A m \in Len(o) + 1 .. Len(p) : p[m].ev = "content_block_stop"
    BY <1>5
  <2> QED
    BY <2>1, StopsAppend
<1>9. Tracked(t)
  <2>1. SUFFICES ASSUME NEW i \in Nat PROVE BlockOpen(t, i) <=> OpenIn(p, i)
    BY <1>3 DEF Tracked
  <2>2. OpenIn(p, i) <=> OpenIn(o, i) /\ \A m \in Len(o) + 1 .. Len(p) : p[m].index # i
    BY <1>7, <1>8 DEF OpenIn
  <2>3. CASE i >= n
    <3>1. \A m \in Len(o) + 1 .. Len(p) : p[m].index # i
      BY <1>5, <2>3
    <3> QED
      BY <1>4, <1>6, <2>2, <2>3, <3>1
  <2>4. CASE ~(i >= n)
    <3>1. i \in 0 .. n - 1
      BY <2>4
    <3> QED
      BY <1>4, <1>5, <1>6, <2>2, <2>4, <3>1
  <2> QED
    BY <2>3, <2>4
<1>10. Balanced(p)
  <2>1. SUFFICES ASSUME NEW k \in 1 .. Len(p)
                 PROVE  /\ p[k].ev \in {"content_block_delta", "content_block_stop"} =>
                             OpenAfter(p, p[k].index, k - 1)
                        /\ p[k].ev = "content_block_start" =>
                             \A i \in 0 .. p[k].index - 1 : ~OpenAfter(p, i, k - 1)
    BY DEF Balanced
  <2>2. CASE k \in 1 .. Len(o)
    <3>1. /\ o[k].ev \in {"content_block_delta", "content_block_stop"} =>
               OpenAfter(o, o[k].index, k - 1)
          /\ o[k].ev = "content_block_start" =>
               \A i \in 0 .. o[k].index - 1 : ~OpenAfter(o, i, k - 1)
      BY <1>6, <2>2 DEF Balanced
    <3>2. k - 1 \in 0 .. Len(o)
      BY <1>7, <2>2
    <3>3. \A i : OpenAfter(p, i, k - 1) <=> OpenAfter(o, i, k - 1)
      BY <1>5, <3>2, SameBefore
    <3> QED
      BY <1>7, <2>2, <3>1, <3>3
  <2>3. CASE k \notin 1 .. Len(o)
    <3>1. k \in Len(o) + 1 .. Len(p) /\ k - 1 \in Len(o) .. Len(p)
      BY <1>7, <2>3
    <3>2. PICK i \in Nat : i = p[k].index
      BY <1>5, <3>1
    <3>3. OpenIn(o, i) /\ \A m \in Len(o) + 1 .. k - 1 : p[m].index # i
      BY <1>5, <1>6, <3>1, <3>2
    <3>4. OpenAfter(p, i, k - 1) /\ p[k].ev = "content_block_stop"
      BY <1>5, <1>8, <3>1, <3>2, <3>3
    <3> QED
      BY <3>2, <3>4
  <2> QED
    BY <2>2, <2>3
<1>11. Voiced(p)
  <2>1. Len(p) # 0 /\ p[1].ev = "message_start"
    <3>1. o \in Seq(Frames) /\ o # <<>>
      BY <1>2, <1>6, NestedFields DEF Voiced
    <3>2. Len(o) # 0
      BY <3>1
    <3>3. 1 \in 1 .. Len(o)
      BY <1>7, <3>2
    <3> QED
      BY <1>6, <1>7, <3>3 DEF Voiced
  <2>2. p # <<>>
    BY <1>3, <1>4, <2>1, SpeakingFields
  <2>3. \A k \in 1 .. Len(p) : k \in 1 .. Len(o) \/ k \in Len(o) + 1 .. Len(p)
    BY <1>7
  <2> QED
    BY <1>5, <1>6, <1>7, <2>1, <2>2, <2>3 DEF Voiced, BlockEvents
<1> QED
  BY <1>1, <1>3, <1>4, <1>9, <1>10, <1>11 DEF Nested

LEMMA OpenedOpens ==
  ASSUME NEW t, t.blocks \in Seq(BOOLEAN), NEW idx \in Nat,
         NEW u, u.blocks = Opened(t.blocks, idx), NEW i \in Nat
  PROVE  BlockOpen(u, i) <=> i = idx \/ BlockOpen(t, i)
<1>1. PICK v \in Seq(BOOLEAN) : v = t.blocks
  OBVIOUS
<1>2. PICK l \in Nat : l = Len(v) /\ DOMAIN v = 1 .. l
  OBVIOUS
<1>3. PICK n \in Nat : n = IF l <= idx THEN idx + 1 ELSE l
  OBVIOUS
<1>4. PICK b : b = [k \in 1 .. n |-> k = idx + 1 \/ (k <= l /\ v[k])]
  OBVIOUS
<1>5. u.blocks = b
  BY <1>1, <1>2, <1>3, <1>4 DEF Opened
<1>6. Len(b) = n
  <2>1. b \in [1 .. n -> BOOLEAN]
    BY <1>4
  <2> QED
    BY <2>1
<1>7. i \in 0 .. n - 1 =>
        (b[i + 1] <=> i = idx \/ (i + 1 <= l /\ v[i + 1]))
  <2>1. i \in 0 .. n - 1 => i + 1 \in 1 .. n /\ (i + 1 = idx + 1 <=> i = idx)
    OBVIOUS
  <2> QED
    BY <1>4, <2>1
<1>8. /\ BlockOpen(u, i) <=> i \in 0 .. n - 1 /\ b[i + 1]
      /\ BlockOpen(t, i) <=> i \in 0 .. l - 1 /\ v[i + 1]
  BY <1>1, <1>2, <1>5, <1>6 DEF BlockOpen
<1>9. /\ i \in 0 .. n - 1 /\ i + 1 <= l => i \in 0 .. l - 1
      /\ i \in 0 .. l - 1 => i \in 0 .. n - 1 /\ i + 1 <= l
      /\ idx \in 0 .. n - 1
  BY <1>3
<1> QED
  BY <1>7, <1>8, <1>9

LEMMA OpenNested ==
  ASSUME NEW s \in Nested, NEW idx \in Nat, NEW kind \in BlockKinds
  PROVE  open_block(s, idx, kind) \in Nested /\ BlockOpen(open_block(s, idx, kind), idx)
<1>1. PICK t \in Nested : /\ t = StopBelow(flush_stop_tail(s), idx)
                          /\ \A i \in Nat : BlockOpen(t, i) => i >= idx
  BY FlushNested, StopBelowNested
<1>2. t \in Speaking /\ t.blocks \in Seq(BOOLEAN)
  BY NestedFields
<1>3. PICK u \in Speaking : u = open_block(s, idx, kind)
  BY NestedFields, OpenType
<1>4. PICK f \in Frames : f = BlockStart(idx, kind)
  BY FrameTypes DEF Speech
<1>5. f.ev = "content_block_start" /\ f.index = idx
  BY <1>4 DEF BlockStart, Frame
<1>6. u.out = Append(t.out, f) /\ u.blocks = Opened(t.blocks, idx)
  BY <1>1, <1>2, <1>3, <1>4 DEF open_block, Speaking, StateSet
<1>7. \A i \in Nat : BlockOpen(u, i) <=> i = idx \/ BlockOpen(t, i)
  BY <1>2, <1>6, OpenedOpens
<1>8. \A i \in Nat : OpenIn(u.out, i) <=> i = idx \/ OpenIn(t.out, i)
  BY <1>5, <1>6, NestedFields, OpenAppend
<1>9. Tracked(u)
  BY <1>7, <1>8, NestedFields DEF Tracked
<1>10. Balanced(u.out)
  <2>1. \A i \in 0 .. idx - 1 : ~OpenIn(t.out, i)
    BY <1>1, NestedFields DEF Tracked
  <2> QED
    BY <1>5, <1>6, <2>1, NestedFields, BalancedAppend
<1>11. Voiced(u.out)
  BY <1>5, <1>6, NestedFields, VoicedAppend DEF BlockEvents
<1> QED
  BY <1>3, <1>7, <1>9, <1>10, <1>11 DEF Nested

LEMMA CloseNested ==
  ASSUME NEW s \in Nested
  PROVE  /\ close_block(s, Len(s.blocks)) \in Nested
         /\ \A i \in Nat : ~BlockOpen(close_block(s, Len(s.blocks)), i)
<1>1. PICK t \in Nested : t = flush_stop_tail(s)
  BY FlushNested
<1>2. PICK n \in Nat : n = Len(s.blocks)
  BY NestedFields
<1>3. t.blocks = s.blocks
  BY <1>1, NestedFields, FlushType
<1>4. PICK u : u = StopBelow(t, n)
  OBVIOUS
<1>5. u \in Nested /\ \A i \in Nat : BlockOpen(u, i) <=> BlockOpen(t, i) /\ i >= n
  BY <1>4, StopBelowNested
<1>6. \A i \in Nat : BlockOpen(t, i) => ~(i >= n)
  BY <1>2, <1>3 DEF BlockOpen
<1>7. close_block(s, Len(s.blocks)) = u
  BY <1>1, <1>2, <1>4 DEF close_block
<1> QED
  BY <1>5, <1>6, <1>7

-----------------------------------------------------------------------------
(* The sections of chunk_to_sse_events *)
LEMMA NestedUpdates ==
  ASSUME NEW s \in Nested
  PROVE  /\ \A v \in Nat : [s EXCEPT !.thinking_index = v] \in Nested
         /\ \A v \in Nat : [s EXCEPT !.text_index = v] \in Nested
         /\ \A v \in Nat : [s EXCEPT !.tool_base_index = v] \in Nested
         /\ \A v \in Nat : [s EXCEPT !.input_tokens = v] \in Nested
         /\ \A v \in StopReasons \cup {"none"} : [s EXCEPT !.stop_reason = v] \in Nested
         /\ \A v \in Usages : [s EXCEPT !.pending_usage = v] \in Nested
         /\ \A v \in Windows : [s EXCEPT !.win = v] \in Nested
<1>1. s \in Speaking
  BY NestedFields
<1>2. \A t \in Speaking : t.out = s.out /\ t.blocks = s.blocks => t \in Nested
  BY SameNesting
<1>3. s \in StateSet
  BY <1>1 DEF Speaking
<1>4. ASSUME NEW v \in Nat PROVE [s EXCEPT !.thinking_index = v] \in Nested
  BY <1>1, <1>2, <1>3, SpeakingUpdates DEF StateSet
<1>5. ASSUME NEW v \in Nat PROVE [s EXCEPT !.text_index = v] \in Nested
  BY <1>1, <1>2, <1>3, SpeakingUpdates DEF StateSet
<1>6. ASSUME NEW v \in Nat PROVE [s EXCEPT !.tool_base_index = v] \in Nested
  BY <1>1, <1>2, <1>3, SpeakingUpdates DEF StateSet
<1>7. ASSUME NEW v \in Nat PROVE [s EXCEPT !.input_tokens = v] \in Nested
  BY <1>1, <1>2, <1>3, SpeakingUpdates DEF StateSet
<1>8. ASSUME NEW v \in StopReasons \cup {"none"} PROVE [s EXCEPT !.stop_reason = v] \in Nested
  BY <1>1, <1>2, <1>3, SpeakingUpdates DEF StateSet
<1>9. ASSUME NEW v \in Usages PROVE [s EXCEPT !.pending_usage = v] \in Nested
  BY <1>1, <1>2, <1>3, SpeakingUpdates DEF StateSet
<1>10. ASSUME NEW v \in Windows PROVE [s EXCEPT !.win = v] \in Nested
  BY <1>1, <1>2, <1>3, SpeakingUpdates DEF StateSet
<1> QED
  BY <1>4, <1>5, <1>6, <1>7, <1>8, <1>9, <1>10

LEMMA ReopenNested ==
  ASSUME NEW s \in Nested, NEW idx \in Nat \cup {NoIndex}, NEW kind \in BlockKinds
  PROVE  /\ reopen(s, idx, kind) \in Nested /\ slot(s, idx) \in Nat
         /\ BlockOpen(reopen(s, idx, kind), slot(s, idx))
<1>1. s \in Speaking
  BY NestedFields
<1>2. slot(s, idx) \in Nat
  BY <1>1, ReopenType
<1>3. CASE BlockOpen(s, idx)
  BY <1>2, <1>3 DEF reopen, slot
<1>4. CASE ~BlockOpen(s, idx)
  <2>1. PICK n \in Nat : n = next_index(s)
    BY <1>1, NextIndexType
  <2>2. open_block(s, n, kind) \in Nested /\ BlockOpen(open_block(s, n, kind), n)
    BY OpenNested
  <2> QED
    BY <1>2, <1>4, <2>1, <2>2 DEF reopen, slot
<1> QED
  BY <1>3, <1>4

LEMMA FilteredNested ==
  ASSUME NEW s \in Nested, NEW idx \in Nat, BlockOpen(s, idx),
         NEW channel \in {"text", "thinking"}, NEW kind \in DeltaKinds, NEW text \in Texts
  PROVE  filtered(s, idx, channel, kind, text) \in Nested
<1>1. CASE ~HasWindow
  BY <1>1, DeltaNested DEF filtered
<1>2. CASE HasWindow
  <2>1. PICK w \in Windows : w = s.win
    BY NestedFields, SpeakingFields
  <2>2. PICK r : r = Feed(w, idx, channel, text)
    OBVIOUS
  <2>3. r.win \in Windows /\ r.emit \in Texts
    BY <2>2, FeedType
  <2>4. PICK t \in Nested : t = [s EXCEPT !.win = r.win]
    BY <2>3, NestedUpdates
  <2>5. t.blocks = s.blocks
    BY <2>4, NestedFields DEF Speaking, StateSet
  <2>6. BlockOpen(t, idx)
    BY <2>5 DEF BlockOpen
  <2>7. Push(t, BlockDelta(idx, kind, r.emit)) \in Nested
    BY <2>3, <2>6, DeltaNested
  <2>8. filtered(s, idx, channel, kind, text) =
          IF r.emit = <<>> THEN t ELSE Push(t, BlockDelta(idx, kind, r.emit))
    BY <1>2, <2>1, <2>2, <2>4 DEF filtered
  <2> QED
    BY <2>7, <2>8
<1> QED
  BY <1>1, <1>2

LEMMA ThinkingNested ==
  ASSUME NEW s \in Nested, NEW c \in CanonChunk
  PROVE  thinking_section(s, c) \in Nested
<1>1. CASE c.thinking.kind = "none"
  BY <1>1 DEF thinking_section
<1>2. CASE c.thinking.kind # "none"
  <2>1. c.thinking.text \in Texts
    BY DEF CanonChunk
  <2>2. s.thinking_index \in Nat \cup {NoIndex}
    BY NestedFields, SpeakingFields
  <2>3. PICK i \in Nat : i = slot(s, s.thinking_index)
    BY <2>2, ReopenNested DEF BlockKinds
  <2>4. PICK u \in Nested : u = reopen(s, s.thinking_index, "thinking") /\ BlockOpen(u, i)
    BY <2>2, <2>3, ReopenNested DEF BlockKinds
  <2>5. PICK t \in Nested : t = [u EXCEPT !.thinking_index = i]
    BY NestedUpdates
  <2>6. t.blocks = u.blocks
    BY <2>5, NestedFields DEF Speaking, StateSet
  <2>7. BlockOpen(t, i)
    BY <2>4, <2>6 DEF BlockOpen
  <2>8. Push(t, BlockDelta(i, "signature_delta", c.thinking.text)) \in Nested
    BY <2>1, <2>7, DeltaNested DEF DeltaKinds
  <2>9. filtered(t, i, "thinking", "thinking_delta", c.thinking.text) \in Nested
    BY <2>1, <2>7, FilteredNested DEF DeltaKinds
  <2> QED
    BY <1>2, <2>3, <2>4, <2>5, <2>8, <2>9 DEF thinking_section
<1> QED
  BY <1>1, <1>2

LEMMA TextNested ==
  ASSUME NEW s \in Nested, NEW c \in CanonChunk
  PROVE  text_section(s, c) \in Nested
<1>1. CASE c.delta_text = <<>>
  BY <1>1 DEF text_section
<1>2. CASE c.delta_text # <<>>
  <2>1. c.delta_text \in Texts
    BY DEF CanonChunk
  <2>2. s.text_index \in Nat \cup {NoIndex}
    BY NestedFields, SpeakingFields
  <2>3. PICK i \in Nat : i = slot(s, s.text_index)
    BY <2>2, ReopenNested DEF BlockKinds
  <2>4. PICK u \in Nested : u = reopen(s, s.text_index, "text") /\ BlockOpen(u, i)
    BY <2>2, <2>3, ReopenNested DEF BlockKinds
  <2>5. PICK t \in Nested : t = [u EXCEPT !.text_index = i]
    BY NestedUpdates
  <2>6. t.blocks = u.blocks
    BY <2>5, NestedFields DEF Speaking, StateSet
  <2>7. BlockOpen(t, i)
    BY <2>4, <2>6 DEF BlockOpen
  <2>8. filtered(t, i, "text", "text_delta", c.delta_text) \in Nested
    BY <2>1, <2>7, FilteredNested DEF DeltaKinds
  <2> QED
    BY <1>2, <2>3, <2>4, <2>5, <2>8 DEF text_section
<1> QED
  BY <1>1, <1>2

LEMMA ToolDeltaNested ==
  ASSUME NEW b \in Nat, NEW s \in Nested \cap Based(b), NEW tc \in Calls
  PROVE  tool_delta(s, tc) \in Nested \cap Based(b)
<1>1. s.tool_base_index = b /\ s \in Nested /\ s \in Based(b)
  BY DEF Based
<1>2. PICK idx \in Nat : idx = s.tool_base_index + tc.index
  BY <1>1 DEF Calls
<1>3. PICK t \in Nested : t = IF tc.name THEN open_block(s, idx, "tool_use") ELSE s
  BY <1>1, OpenNested DEF BlockKinds
<1>4. tc.args \in Texts
  BY DEF Calls
<1>5. BlockOpen(t, idx) => Push(t, BlockDelta(idx, "input_json_delta", tc.args)) \in Nested
  BY <1>4, DeltaNested DEF DeltaKinds
<1>6. tool_delta(s, tc) =
        IF tc.args # <<>> /\ BlockOpen(t, idx)
        THEN Push(t, BlockDelta(idx, "input_json_delta", tc.args)) ELSE t
  BY <1>2, <1>3 DEF tool_delta
<1>7. tool_delta(s, tc) \in Based(b)
  BY <1>1, ToolDeltaBase
<1> QED
  BY <1>5, <1>6, <1>7

LEMMA ToolLoopNested ==
  ASSUME NEW b \in Nat, NEW s \in Nested \cap Based(b), NEW calls \in Seq(Calls)
  PROVE  tool_loop(s, calls) \in Nested
<1>1. PICK L \in Nat : L = Len(calls)
  OBVIOUS
<1>2. PICK f : After(s, calls, L, f) /\ tool_loop(s, calls) = f[L]
  <2>1. \E g : After(s, calls, L, g)
    BY AfterExists
  <2>2. PICK f : f = CHOOSE g : After(s, calls, L, g)
    OBVIOUS
  <2>3. After(s, calls, L, f)
    BY <2>1, <2>2
  <2>4. tool_loop(s, calls) = f[L]
    BY <1>1, <2>2 DEF tool_loop, After
  <2> QED
    BY <2>3, <2>4
<1>3. \A n \in 0 .. L : f[n] = IF n = 0 THEN s ELSE tool_delta(f[n - 1], calls[n])
  BY <1>2 DEF After
<1>4. PICK Good : Good = Nested \cap Based(b)
  OBVIOUS
<1> DEFINE Bad == {n \in 0 .. L : f[n] \notin Good}
<1>5. Bad = {}
  <2>1. SUFFICES ASSUME Bad # {} PROVE FALSE
    OBVIOUS
  <2>2. PICK m \in Bad : \A k \in Bad : m <= k
    <3>1. Bad \subseteq Nat
      OBVIOUS
    <3> HIDE DEF Bad
    <3> QED
      BY <2>1, <3>1, LeastNat
  <2>3. m \in 0 .. L /\ f[m] \notin Good
    BY <2>2
  <2>4. m # 0
    BY <1>3, <1>4, <2>3
  <2>5. PICK p \in Nat : p = m - 1 /\ p \in 0 .. L /\ m \in 1 .. Len(calls)
    BY <1>1, <2>3, <2>4
  <2>6. f[p] \in Good
    BY <2>2, <2>5
  <2>7. calls[m] \in Calls
    BY <2>5
  <2>8. f[m] = tool_delta(f[p], calls[m])
    BY <1>3, <2>3, <2>4, <2>5
  <2> QED
    BY <1>4, <2>3, <2>6, <2>7, <2>8, ToolDeltaNested
<1>6. f[L] \in Good
  BY <1>5
<1> QED
  BY <1>2, <1>4, <1>6

LEMMA ToolNested ==
  ASSUME NEW s \in Nested, NEW c \in CanonChunk
  PROVE  tool_section(s, c) \in Nested
<1>1. PICK b \in Nat : b = IF s.tool_base_index = NoIndex THEN next_index(s)
                           ELSE s.tool_base_index
  BY NestedFields, NextIndexType, SpeakingFields
<1>2. PICK t \in Nested : t = [s EXCEPT !.tool_base_index = b]
  BY NestedUpdates
<1>3. t \in Based(b)
  BY <1>2, NestedFields DEF Based, Speaking, StateSet
<1>4. c.calls \in Seq(Calls)
  BY DEF CanonChunk
<1>5. tool_loop(t, c.calls) \in Nested
  BY <1>3, <1>4, ToolLoopNested
<1> QED
  BY <1>1, <1>2, <1>5 DEF tool_section

-----------------------------------------------------------------------------
(* What BlocksBracketed says of a body *)
Bracketed(o) ==
  \A k \in 1 .. Len(o) :
    /\ o[k].ev \in {"content_block_delta", "content_block_stop"} =>
         OpenAfter(o, o[k].index, k - 1)
    /\ o[k].ev = "content_block_start" =>
         \A i \in 0 .. o[k].index - 1 : ~OpenAfter(o, i, k - 1)
    /\ o[k].ev = "message_start" <=> k = 1 /\ o[1].ev # "error"
    /\ o[k].ev = "message_delta" => k + 1 \in 1 .. Len(o) /\ o[k + 1].ev = "message_stop"
    /\ o[k].ev = "message_stop" =>
         /\ k > 1 /\ o[k - 1].ev = "message_delta"
         /\ \A i \in Nat : ~OpenAfter(o, i, k)

LEMMA VoicedBracketed ==
  ASSUME NEW o \in Seq(Frames), Balanced(o), Voiced(o)
  PROVE  Bracketed(o)
<1>1. ASSUME NEW k \in 1 .. Len(o)
      PROVE  /\ o[k].ev \in {"content_block_delta", "content_block_stop"} =>
                  OpenAfter(o, o[k].index, k - 1)
             /\ o[k].ev = "content_block_start" =>
                  \A i \in 0 .. o[k].index - 1 : ~OpenAfter(o, i, k - 1)
             /\ o[k].ev = "message_start" <=> k = 1 /\ o[1].ev # "error"
             /\ o[k].ev \notin {"message_delta", "message_stop"}
  <2>1. /\ o[k].ev \in {"content_block_delta", "content_block_stop"} =>
             OpenAfter(o, o[k].index, k - 1)
        /\ o[k].ev = "content_block_start" =>
             \A i \in 0 .. o[k].index - 1 : ~OpenAfter(o, i, k - 1)
    BY DEF Balanced
  <2>2. o[1].ev = "message_start" /\ (k # 1 => o[k].ev \in BlockEvents)
    BY DEF Voiced
  <2> QED
    BY <2>1, <2>2 DEF BlockEvents
<1> QED
  BY <1>1 DEF Bracketed

LEMMA ErrorBracketed ==
  ASSUME NEW o \in Seq(Frames), Bracketed(o), NEW f \in Frames, f.ev = "error",
         NEW p, p = Append(o, f)
  PROVE  Bracketed(p)
<1>1. /\ Continues(p, o) /\ Len(p) = Len(o) + 1 /\ p[Len(p)] = f /\ Len(o) \in Nat
      /\ \A k \in 1 .. Len(o) : p[k] = o[k]
  BY GrowByOne DEF Continues
<1>2. PICK n \in Nat : n = Len(o)
  BY <1>1
<1>3. ASSUME NEW k \in 1 .. n + 1
      PROVE  /\ p[k].ev \in {"content_block_delta", "content_block_stop"} =>
                  OpenAfter(p, p[k].index, k - 1)
             /\ p[k].ev = "content_block_start" =>
                  \A i \in 0 .. p[k].index - 1 : ~OpenAfter(p, i, k - 1)
             /\ p[k].ev = "message_start" <=> k = 1 /\ p[1].ev # "error"
             /\ p[k].ev = "message_delta" => k + 1 \in 1 .. n + 1 /\ p[k + 1].ev = "message_stop"
             /\ p[k].ev = "message_stop" =>
                  /\ k > 1 /\ p[k - 1].ev = "message_delta"
                  /\ \A i \in Nat : ~OpenAfter(p, i, k)
  <2>1. CASE k = n + 1
    BY <1>1, <1>2, <2>1
  <2>2. CASE k # n + 1
    <3>1. k \in 1 .. n /\ k - 1 \in 0 .. n /\ k \in 0 .. n /\ 1 \in 1 .. n
      BY <2>2
    <3>2. p[k] = o[k] /\ p[1] = o[1]
      BY <1>1, <1>2, <3>1
    <3>3. /\ o[k].ev \in {"content_block_delta", "content_block_stop"} =>
               OpenAfter(o, o[k].index, k - 1)
          /\ o[k].ev = "content_block_start" =>
               \A i \in 0 .. o[k].index - 1 : ~OpenAfter(o, i, k - 1)
          /\ o[k].ev = "message_start" <=> k = 1 /\ o[1].ev # "error"
          /\ o[k].ev = "message_delta" => k + 1 \in 1 .. n /\ o[k + 1].ev = "message_stop"
          /\ o[k].ev = "message_stop" =>
               /\ k > 1 /\ o[k - 1].ev = "message_delta"
               /\ \A i \in Nat : ~OpenAfter(o, i, k)
      BY <1>2, <3>1 DEF Bracketed
    <3>4. \A i : /\ OpenAfter(p, i, k - 1) <=> OpenAfter(o, i, k - 1)
                 /\ OpenAfter(p, i, k) <=> OpenAfter(o, i, k)
      BY <1>1, <1>2, <3>1, SameBefore
    <3>5. k + 1 \in 1 .. n => k + 1 \in 1 .. n + 1 /\ p[k + 1] = o[k + 1]
      BY <1>1, <1>2
    <3>6. k > 1 => p[k - 1] = o[k - 1]
      <4>1. k > 1 => k - 1 \in 1 .. n
        BY <3>1
      <4> QED
        BY <1>1, <1>2, <4>1
    <3> QED
      BY <3>2, <3>3, <3>4, <3>5, <3>6
  <2> QED
    BY <2>1, <2>2
<1> QED
  BY <1>1, <1>2, <1>3 DEF Bracketed

LEMMA TerminalBracketed ==
  ASSUME NEW o \in Seq(Frames), Balanced(o), Voiced(o), \A i \in Nat : ~OpenIn(o, i),
         NEW md \in Frames, md.ev = "message_delta",
         NEW ms \in Frames, ms.ev = "message_stop",
         NEW p, p = Append(Append(o, md), ms)
  PROVE  Bracketed(p)
<1>1. PICK q \in Seq(Frames) : q = Append(o, md)
  BY GrowByOne
<1>2. /\ Len(q) = Len(o) + 1 /\ q[Len(q)] = md /\ Len(o) \in Nat
      /\ \A k \in 1 .. Len(o) : q[k] = o[k]
  BY <1>1, GrowByOne DEF Continues
<1>3. /\ Len(p) = Len(q) + 1 /\ p[Len(p)] = ms
      /\ \A k \in 1 .. Len(q) : p[k] = q[k]
  BY <1>1, GrowByOne DEF Continues
<1>4. PICK n \in Nat : n = Len(o) /\ n >= 1
  <2>1. Len(o) # 0
    BY DEF Voiced
  <2> QED
    BY <1>2, <2>1
<1>5. /\ Len(p) = n + 2 /\ p[n + 1] = md /\ p[n + 2] = ms
      /\ \A k \in 1 .. n : p[k] = o[k]
  BY <1>2, <1>3, <1>4
<1>6. Balanced(p)
  <2>1. Balanced(q)
    BY <1>1, BalancedAppend
  <2> QED
    BY <1>1, <2>1, BalancedAppend
<1>7. \A i \in Nat : ~OpenAfter(p, i, n + 2)
  <2>1. SUFFICES ASSUME NEW i \in Nat PROVE ~OpenIn(p, i)
    BY <1>5 DEF OpenIn
  <2>2. ~OpenIn(q, i)
    BY <1>1, OpenAppend
  <2> QED
    BY <1>1, <2>2, OpenAppend
<1>8. ASSUME NEW k \in 1 .. n
      PROVE  \/ k = 1 /\ p[k].ev = "message_start"
             \/ k # 1 /\ p[k].ev \in BlockEvents
  <2>1. p[k] = o[k] /\ k \in 1 .. Len(o)
    BY <1>4, <1>5
  <2>2. CASE k = 1
    BY <2>1, <2>2 DEF Voiced
  <2>3. CASE k # 1
    BY <2>1, <2>3 DEF Voiced
  <2> QED
    BY <2>2, <2>3
<1>9. ASSUME NEW k \in 1 .. n + 2
      PROVE  /\ p[k].ev \in {"content_block_delta", "content_block_stop"} =>
                  OpenAfter(p, p[k].index, k - 1)
             /\ p[k].ev = "content_block_start" =>
                  \A i \in 0 .. p[k].index - 1 : ~OpenAfter(p, i, k - 1)
             /\ p[k].ev = "message_start" <=> k = 1 /\ p[1].ev # "error"
             /\ p[k].ev = "message_delta" => k + 1 \in 1 .. n + 2 /\ p[k + 1].ev = "message_stop"
             /\ p[k].ev = "message_stop" =>
                  /\ k > 1 /\ p[k - 1].ev = "message_delta"
                  /\ \A i \in Nat : ~OpenAfter(p, i, k)
  <2>1. /\ p[k].ev \in {"content_block_delta", "content_block_stop"} =>
             OpenAfter(p, p[k].index, k - 1)
        /\ p[k].ev = "content_block_start" =>
             \A i \in 0 .. p[k].index - 1 : ~OpenAfter(p, i, k - 1)
    BY <1>5, <1>6 DEF Balanced
  <2>2. p[1].ev = "message_start"
    <3>1. 1 \in 1 .. n
      BY <1>4
    <3> QED
      BY <1>8, <3>1
  <2>3. CASE k \in 1 .. n
    <3>1. \/ k = 1 /\ p[k].ev = "message_start"
          \/ k # 1 /\ p[k].ev \in BlockEvents
      BY <1>8, <2>3
    <3>2. CASE k = 1
      BY <2>1, <2>2, <3>1, <3>2
    <3>3. CASE k # 1
      <4>1. /\ p[k].ev # "message_start" /\ p[k].ev # "message_delta"
            /\ p[k].ev # "message_stop"
        BY <3>1, <3>3 DEF BlockEvents
      <4> QED
        BY <2>1, <3>3, <4>1
    <3> QED
      BY <3>2, <3>3
  <2>4. CASE k = n + 1
    BY <1>4, <1>5, <2>1, <2>4
  <2>5. CASE k = n + 2
    BY <1>4, <1>5, <1>7, <2>1, <2>5
  <2>6. k \in 1 .. n \/ k = n + 1 \/ k = n + 2
    BY <1>4, <1>9
  <2> QED
    BY <2>3, <2>4, <2>5, <2>6, Zenon
<1> QED
  BY <1>5, <1>9 DEF Bracketed

(* A message that has stopped, its blocks bracketed *)
Settled == {s \in StateSet : s.message_stopped /\ Bracketed(s.out)}

LEMMA TerminalSettles ==
  ASSUME NEW s \in Nested, NEW reason \in StopReasons, NEW u \in Usages
  PROVE  emit_terminal(s, reason, u) \in Settled
<1>1. PICK t \in Nested : t = close_block(s, Len(s.blocks)) /\ \A i \in Nat : ~BlockOpen(t, i)
  BY CloseNested
<1>2. PICK verdict \in StopReasons :
        verdict = IF t.win.matched # <<>> THEN "stop_sequence" ELSE reason
  BY DEF StopReasons
<1>3. PICK usage \in WireUsages :
        usage = [input |-> wire_input(u, t.input_tokens), output |-> u.output,
                 cached_read |-> u.cached_read, cache_write |-> u.cache_write]
  BY NestedFields, SpeakingFields, WireUsageType
<1>4. t.win.matched \in Texts
  BY NestedFields, SpeakingFields DEF Windows
<1>5. PICK md \in Frames : md = MessageDelta(verdict, t.win.matched, usage)
  BY <1>4, FrameTypes DEF Speech
<1>6. PICK ms \in Frames : ms = MessageStop
  BY FrameTypes
<1>7. md.ev = "message_delta" /\ ms.ev = "message_stop"
  BY <1>5, <1>6 DEF MessageDelta, MessageStop, Frame
<1>8. PICK o \in Seq(Frames) : o = t.out
  BY NestedFields
<1>9. o \o <<md, ms>> = Append(Append(o, md), ms)
  OBVIOUS
<1>10. Bracketed(o \o <<md, ms>>)
  <2>1. Balanced(o) /\ Voiced(o) /\ \A i \in Nat : ~OpenIn(o, i)
    BY <1>1, <1>8, NestedFields DEF Tracked
  <2> QED
    BY <1>7, <1>9, <2>1, TerminalBracketed
<1>11. PICK e : e = emit_terminal(s, reason, u)
  OBVIOUS
<1>12. e = [t EXCEPT !.out = t.out \o <<md, ms>>, !.message_stopped = TRUE]
  BY <1>1, <1>2, <1>3, <1>5, <1>6, <1>11, Zenon DEF emit_terminal
<1>13. e.out = o \o <<md, ms>>
  BY <1>8, <1>12, NestedFields DEF Speaking, StateSet
<1>14. e \in StateSet /\ e.message_stopped
  BY <1>11, NestedFields, TerminalType DEF Finished
<1> QED
  BY <1>10, <1>11, <1>13, <1>14 DEF Settled

LEMMA TrailerNested ==
  ASSUME NEW s \in Nested, NEW c \in CanonChunk
  PROVE  trailer(s, c) \in Nested \cup Settled
<1>1. c.usage \in Usages
  BY DEF CanonChunk
<1>2. CASE s.stop_reason = "none"
  <2>1. [s EXCEPT !.pending_usage = c.usage] \in Nested
    BY <1>1, NestedUpdates
  <2> QED
    BY <1>2, <2>1 DEF trailer
<1>3. CASE s.stop_reason # "none"
  <2>1. s.stop_reason \in StopReasons
    BY <1>3, NestedFields, SpeakingFields
  <2>2. PICK t \in Nested : t = [s EXCEPT !.stop_reason = "none"]
    BY NestedUpdates
  <2>3. emit_terminal(t, s.stop_reason, c.usage) \in Settled
    BY <1>1, <2>1, TerminalSettles
  <2> QED
    BY <1>3, <2>2, <2>3 DEF trailer
<1> QED
  BY <1>2, <1>3

LEMMA FinishNested ==
  ASSUME NEW s \in Nested, NEW c \in CanonChunk
  PROVE  finish_section(s, c) \in Nested \cup Settled
<1>1. CASE c.finish = "none"
  BY <1>1 DEF finish_section
<1>2. CASE c.finish # "none"
  <2>1. c.finish \in FinishReasons /\ c.usage \in Usages
    BY <1>2 DEF CanonChunk
  <2>2. PICK sr \in StopReasons : sr = map_stop_reason_outbound(c.finish)
    BY <2>1, ReasonType
  <2>3. emit_terminal(s, sr, c.usage) \in Settled
    BY <2>1, TerminalSettles
  <2>4. [s EXCEPT !.stop_reason = sr] \in Nested
    BY NestedUpdates
  <2> QED
    BY <1>2, <2>2, <2>3, <2>4 DEF finish_section
<1> QED
  BY <1>1, <1>2

(* Before the first chunk no block was ever opened *)
Untouched == {s \in Silent : s.blocks = <<>>}

LEMMA PreambleNested ==
  ASSUME NEW s \in Untouched \cup Nested, NEW c \in CanonChunk
  PROVE  preamble(s, c) \in Nested
<1>1. PICK n \in Nat : n = IF c.input_tokens > 0 THEN c.input_tokens ELSE s.input_tokens
  BY DEF CanonChunk, NoTokens, Untouched, Silent, Nested, Speaking, StateSet
<1>2. CASE s \in Nested
  <2>1. s.first = FALSE
    BY <1>2, NestedFields, SpeakingFields
  <2>2. [s EXCEPT !.input_tokens = n] \in Nested
    BY <1>2, NestedUpdates
  <2> QED
    BY <1>1, <2>1, <2>2 DEF preamble
<1>3. CASE s \in Untouched
  <2>1. s \in Silent /\ s \in StateSet /\ s.blocks = <<>> /\ s.out = <<>> /\ s.first
    BY <1>3 DEF Untouched, Silent
  <2>2. PICK f \in Frames : f = MessageStart(n)
    BY FrameTypes DEF Speech
  <2>3. f.ev = "message_start"
    BY <2>2 DEF MessageStart, Frame
  <2>4. PICK t \in Speaking : t = preamble(s, c)
    BY <2>1, PreambleType
  <2>5. PICK u : u = [s EXCEPT !.input_tokens = n, !.first = FALSE]
    OBVIOUS
  <2>6. [[s EXCEPT !.input_tokens = n] EXCEPT !.first = FALSE] = u
    BY <2>1, <2>5 DEF StateSet
  <2>7. t = Push(u, f)
    BY <1>1, <2>1, <2>2, <2>4, <2>6, Zenon DEF preamble
  <2>8. u.out = <<>> /\ u.blocks = <<>>
    BY <2>1, <2>5 DEF StateSet
  <2>9. t.out = <<f>> /\ t.blocks = <<>>
    <3>1. u \in StateSet
      BY <2>1, <2>5 DEF StateSet
    <3>2. t.out = Append(<<>>, f) /\ t.blocks = <<>>
      BY <2>7, <2>8, <3>1 DEF Push, StateSet
    <3> QED
      BY <3>2
  <2>10. \A i \in Nat : ~BlockOpen(t, i)
    BY <2>9 DEF BlockOpen
  <2>11. Len(t.out) = 1 /\ t.out[1] = f /\ t.out # <<>>
    BY <2>9
  <2>12. \A k \in 1 .. Len(t.out) : k = 1
    BY <2>11
  <2>13. Balanced(t.out)
    BY <2>3, <2>11, <2>12 DEF Balanced
  <2>14. Voiced(t.out)
    BY <2>3, <2>11, <2>12 DEF Voiced
  <2>15. \A i \in Nat : ~OpenIn(t.out, i)
    BY <2>3, <2>11, <2>12 DEF OpenIn, OpenAfter
  <2> QED
    BY <2>4, <2>10, <2>13, <2>14, <2>15 DEF Nested, Tracked
<1> QED
  BY <1>2, <1>3

LEMMA ChunkNested ==
  ASSUME NEW s \in Untouched \cup Nested, NEW c \in CanonChunk
  PROVE  chunk_to_sse_events(s, c) \in Nested \cup Settled
<1>1. ~s.message_stopped
  BY DEF Untouched, Silent, Nested, Speaking
<1>2. PICK t \in Nested : t = preamble(s, c)
  BY PreambleNested
<1>3. trailer(t, c) \in Nested \cup Settled
  BY TrailerNested
<1>4. PICK u \in Nested : u = thinking_section(t, c)
  BY ThinkingNested
<1>5. PICK v \in Nested : v = text_section(u, c)
  BY TextNested
<1>6. PICK w \in Nested : w = tool_section(v, c)
  BY ToolNested
<1>7. finish_section(w, c) \in Nested \cup Settled
  BY FinishNested
<1> QED
  BY <1>1, <1>2, <1>3, <1>4, <1>5, <1>6, <1>7 DEF chunk_to_sse_events

-----------------------------------------------------------------------------
(* The invariant: untouched, then nested, then settled *)
BInv == IInv /\ st \in Untouched \cup Nested \cup Settled

LEMMA InitBInv == Init => BInv
<1> SUFFICES ASSUME Init PROVE BInv
  OBVIOUS
<1>1. st \in Reachable /\ ~st.message_stopped /\ st.blocks = <<>> /\ st.first
  BY InitIInv DEF IInv, Init, NewState
<1>2. st \in Silent
  BY <1>1, ReachableParts DEF Speaking
<1> QED
  BY <1>1, <1>2, InitIInv DEF BInv, Untouched

LEMMA FailSettles ==
  ASSUME NEW s \in Untouched \cup Nested \cup Settled
  PROVE  Push([s EXCEPT !.message_stopped = TRUE], ErrorFrame) \in Settled
<1>1. s \in StateSet /\ s.out \in Seq(Frames) /\ Bracketed(s.out)
  <2>1. CASE s \in Untouched
    <3>1. s \in StateSet /\ s.out = <<>>
      BY <2>1 DEF Untouched, Silent
    <3>2. Bracketed(<<>>)
      BY DEF Bracketed
    <3> QED
      BY <3>1, <3>2, EmptySeq
  <2>2. CASE s \in Nested
    <3>1. s \in StateSet
      BY <2>2, NestedFields DEF Speaking
    <3> QED
      BY <2>2, <3>1, NestedFields, VoicedBracketed
  <2>3. CASE s \in Settled
    BY <2>3 DEF Settled, StateSet
  <2> QED
    BY <2>1, <2>2, <2>3
<1>2. PICK f \in Frames : f = ErrorFrame
  BY FrameTypes
<1>3. f.ev = "error"
  BY <1>2 DEF ErrorFrame, Frame
<1>4. PICK o \in Seq(Frames) : o = Append(s.out, f)
  BY <1>1, GrowByOne
<1>5. Bracketed(o)
  BY <1>1, <1>3, <1>4, ErrorBracketed
<1>6. PICK t : t = Push([s EXCEPT !.message_stopped = TRUE], ErrorFrame)
  OBVIOUS
<1>7. t = [s EXCEPT !.message_stopped = TRUE, !.out = o]
  BY <1>1, <1>2, <1>4, <1>6 DEF Push, StateSet
<1>8. t \in StateSet /\ t.message_stopped /\ t.out = o
  BY <1>1, <1>7 DEF StateSet
<1> QED
  BY <1>5, <1>6, <1>8 DEF Settled

LEMMA FinalizeSettles ==
  ASSUME NEW s \in Untouched \cup Nested \cup Settled
  PROVE  finalize_stream(s) \in Settled
<1>1. CASE s \in Settled
  BY <1>1 DEF finalize_stream, Settled
<1>2. CASE s \in Untouched
  <2>1. s \in StateSet /\ s.out = <<>> /\ s.first /\ ~s.message_stopped
    BY <1>2 DEF Untouched, Silent
  <2>2. PICK t : t = [s EXCEPT !.message_stopped = TRUE]
    OBVIOUS
  <2>3. t \in StateSet /\ t.message_stopped /\ t.out = <<>>
    BY <2>1, <2>2 DEF StateSet
  <2>4. Bracketed(t.out)
    BY <2>3 DEF Bracketed
  <2>5. finalize_stream(s) = t
    BY <2>1, <2>2 DEF finalize_stream
  <2> QED
    BY <2>3, <2>4, <2>5 DEF Settled
<1>3. CASE s \in Nested
  <2>1. s \in Speaking
    BY <1>3, NestedFields
  <2>2. PICK reason \in StopReasons :
          reason = IF s.stop_reason = "none" THEN "end_turn" ELSE s.stop_reason
    BY <2>1, SpeakingFields DEF StopReasons
  <2>3. PICK u \in Usages : u = s.pending_usage
    BY <2>1, SpeakingFields
  <2>4. PICK t \in Nested : t = [s EXCEPT !.stop_reason = "none"]
    BY <1>3, NestedUpdates
  <2>5. NoUsage \in Usages
    BY DEF NoUsage, Usages
  <2>6. PICK v \in Nested : v = [t EXCEPT !.pending_usage = NoUsage]
    BY <2>5, NestedUpdates
  <2>7. v = [s EXCEPT !.stop_reason = "none", !.pending_usage = NoUsage]
    BY <2>1, <2>4, <2>6 DEF Speaking, StateSet
  <2>8. emit_terminal(v, reason, u) \in Settled
    BY TerminalSettles
  <2>9. finalize_stream(s) = emit_terminal(v, reason, u)
    BY <2>1, <2>2, <2>3, <2>7, SpeakingFields, Zenon DEF finalize_stream
  <2> QED
    BY <2>8, <2>9
<1> QED
  BY <1>1, <1>2, <1>3

LEMMA StepBInv == BInv /\ [Next]_vars => BInv'
<1> SUFFICES ASSUME BInv, [Next]_vars PROVE BInv'
  OBVIOUS
<1>1. IInv /\ st \in Untouched \cup Nested \cup Settled
  BY DEF BInv
<1>2. IInv'
  BY <1>1, StepIInv
<1>3. ASSUME NEW c \in Chunks, Chunk(c) PROVE st' \in Untouched \cup Nested \cup Settled
  <2>1. c \in CanonChunk /\ st' = chunk_to_sse_events(st, c)
    BY <1>3, ChunksAssumption DEF Chunk
  <2>2. CASE st.message_stopped
    BY <1>1, <2>1, <2>2 DEF chunk_to_sse_events
  <2>3. CASE ~st.message_stopped
    <3>1. st \in Untouched \cup Nested
      BY <1>1, <2>3 DEF Settled
    <3> QED
      BY <2>1, <3>1, ChunkNested
  <2> QED
    BY <2>2, <2>3
<1>4. ASSUME Fail PROVE st' \in Settled
  <2>1. PICK t : t = Push([st EXCEPT !.message_stopped = TRUE], ErrorFrame)
    OBVIOUS
  <2>2. st' = t
    BY <1>4, <2>1 DEF Fail
  <2> QED
    BY <1>1, <2>1, <2>2, FailSettles
<1>5. ASSUME End PROVE st' \in Settled
  <2>1. st' = finalize_stream(st)
    BY <1>5 DEF End
  <2> QED
    BY <1>1, <2>1, FinalizeSettles
<1>6. ASSUME UNCHANGED vars PROVE st' \in Untouched \cup Nested \cup Settled
  <2>1. st' = st
    BY <1>6 DEF vars
  <2> QED
    BY <1>1, <2>1
<1>7. st' \in Untouched \cup Nested \cup Settled
  BY <1>3, <1>4, <1>5, <1>6 DEF Next
<1> QED
  BY <1>2, <1>7 DEF BInv, Untouched, Nested, Settled, Silent, Speaking

LEMMA BInvBracketed == BInv => Bracketed(st.out)
<1>1. SUFFICES ASSUME BInv PROVE Bracketed(st.out)
  OBVIOUS
<1>2. st \in StateSet
  BY <1>1 DEF BInv, Untouched, Nested, Settled, Silent, Speaking
<1>3. PICK o \in Seq(Frames) : o = st.out
  BY <1>2 DEF StateSet
<1>4. Bracketed(o)
  <2>1. CASE st \in Untouched
    BY <1>3, <2>1 DEF Untouched, Silent, Bracketed
  <2>2. CASE st \in Nested
    BY <1>3, <2>2, NestedFields, VoicedBracketed
  <2>3. CASE st \in Settled
    BY <1>3, <2>3 DEF Settled
  <2> QED
    BY <1>1, <2>1, <2>2, <2>3 DEF BInv
<1> QED
  BY <1>3, <1>4

-----------------------------------------------------------------------------
(* Frames that carry no text, thinking or signature *)
ChannelKinds == {"text_delta", "thinking_delta", "signature_delta"}

Mute == {f \in Speech : f.kind \notin ChannelKinds}

Stops == {BlockStop(i) : i \in Nat}

LEMMA MuteFrames ==
  /\ Stops \subseteq Mute
  /\ \A n \in Nat : MessageStart(n) \in Mute
  /\ \A i \in Nat, k \in BlockKinds : BlockStart(i, k) \in Mute
  /\ \A i \in Nat, t \in Texts : BlockDelta(i, "input_json_delta", t) \in Mute
<1>1. /\ \A i \in Nat : BlockStop(i) \in Speech
      /\ \A n \in Nat : MessageStart(n) \in Speech
      /\ \A i \in Nat, k \in BlockKinds : BlockStart(i, k) \in Speech
      /\ \A i \in Nat, t \in Texts : BlockDelta(i, "input_json_delta", t) \in Speech
  BY FrameTypes DEF DeltaKinds
<1>2. /\ \A i \in Nat : BlockStop(i).kind = "none"
      /\ \A n \in Nat : MessageStart(n).kind = "none"
      /\ \A i \in Nat, k \in BlockKinds : BlockStart(i, k).kind = k
      /\ \A i \in Nat, t \in Texts : BlockDelta(i, "input_json_delta", t).kind = "input_json_delta"
  BY DEF BlockStop, MessageStart, BlockStart, BlockDelta, Frame
<1> QED
  BY <1>1, <1>2 DEF Mute, Stops, ChannelKinds, BlockKinds

LEMMA MuteSeqs == Seq(Stops) \subseteq Seq(Mute) /\ Seq(Mute) \subseteq Seq(Speech)
<1>1. Stops \subseteq Mute /\ Mute \subseteq Speech
  BY MuteFrames DEF Mute
<1> QED
  BY <1>1, SeqMonotonic

(* The vector of blocks once those below n have been stopped *)
Stopped(b, n) == [k \in DOMAIN b |-> IF k <= n THEN FALSE ELSE b[k]]

LEMMA StoppedType ==
  ASSUME NEW b \in Seq(BOOLEAN), NEW n \in Nat
  PROVE  Stopped(b, n) \in Seq(BOOLEAN) /\ Len(Stopped(b, n)) = Len(b)
<1>1. PICK l \in Nat : l = Len(b) /\ b \in [1 .. l -> BOOLEAN]
  OBVIOUS
<1>2. Stopped(b, n) \in [1 .. l -> BOOLEAN]
  BY <1>1 DEF Stopped
<1> QED
  BY <1>1, <1>2

LEMMA StopBelowFrames ==
  ASSUME NEW s \in Speaking, NEW n \in Nat
  PROVE  \E q \in Seq(Stops) :
           StopBelow(s, n) = [s EXCEPT !.blocks = Stopped(s.blocks, n), !.out = s.out \o q]
<1>1. PICK q : q = Ascending({i \in 0 .. n - 1 : BlockOpen(s, i)})
  OBVIOUS
<1>2. PICK c \in Nat : OncePerBlock(s, n, q, c)
  BY <1>1, StopsOnce
<1>3. DOMAIN q = 1 .. c /\ \A a \in 1 .. c : q[a] \in Nat
  BY <1>2 DEF OncePerBlock
<1>4. PICK stops : stops = [k \in DOMAIN q |-> BlockStop(q[k])]
  OBVIOUS
<1>5. stops \in Seq(Stops)
  <2>1. stops \in [1 .. c -> Stops]
    BY <1>3, <1>4 DEF Stops
  <2> QED
    BY <2>1
<1>6. StopBelow(s, n) = [s EXCEPT !.blocks = Stopped(s.blocks, n), !.out = s.out \o stops]
  BY <1>1, <1>4, Zenon DEF StopBelow, Stopped
<1> QED
  BY <1>5, <1>6

(* r is t after its blocks up to idx were stopped and block idx started *)
OpensInto(r, t, idx, kind) ==
  \E q \in Seq(Stops) :
    r = [t EXCEPT !.blocks = Opened(Stopped(t.blocks, idx), idx),
                  !.out = Append(t.out \o q, BlockStart(idx, kind))]

LEMMA OpenFrames ==
  ASSUME NEW s \in Speaking, NEW idx \in Nat, NEW kind \in BlockKinds,
         NEW t, t = flush_stop_tail(s)
  PROVE  OpensInto(open_block(s, idx, kind), t, idx, kind)
<1>1. t \in Speaking
  BY FlushType
<1>2. PICK q \in Seq(Stops) :
        StopBelow(t, idx) = [t EXCEPT !.blocks = Stopped(t.blocks, idx), !.out = t.out \o q]
  BY <1>1, StopBelowFrames
<1>3. PICK u : u = StopBelow(t, idx)
  OBVIOUS
<1>4. u.blocks = Stopped(t.blocks, idx) /\ u.out = t.out \o q
  BY <1>1, <1>2, <1>3 DEF Speaking, StateSet
<1>5. open_block(s, idx, kind) =
        [u EXCEPT !.blocks = Opened(u.blocks, idx), !.out = Append(u.out, BlockStart(idx, kind))]
  BY <1>3, Zenon DEF open_block
<1>6. \A b, o : [u EXCEPT !.blocks = b, !.out = o] = [t EXCEPT !.blocks = b, !.out = o]
  BY <1>1, <1>2, <1>3 DEF Speaking, StateSet
<1>7. PICK b : b = Opened(Stopped(t.blocks, idx), idx)
  OBVIOUS
<1>8. PICK o : o = Append(t.out \o q, BlockStart(idx, kind))
  OBVIOUS
<1>9. open_block(s, idx, kind) = [u EXCEPT !.blocks = b, !.out = o]
  BY <1>4, <1>5, <1>7, <1>8, Zenon
<1>10. open_block(s, idx, kind) = [t EXCEPT !.blocks = b, !.out = o]
  BY <1>6, <1>9
<1> QED
  BY <1>7, <1>8, <1>10 DEF OpensInto

-----------------------------------------------------------------------------
(* A set of states that tool calls cannot leave *)
ToolProof(C) ==
  /\ C \subseteq Speaking
  /\ \A s \in C : \A i \in Nat, kind \in BlockKinds : open_block(s, i, kind) \in C
  /\ \A s \in C : \A i \in Nat, t \in Texts : Push(s, BlockDelta(i, "input_json_delta", t)) \in C

LEMMA ToolDeltaStays ==
  ASSUME NEW C, ToolProof(C), NEW b \in Nat, NEW s \in C \cap Based(b), NEW tc \in Calls
  PROVE  tool_delta(s, tc) \in C
<1>1. s.tool_base_index = b
  BY DEF Based
<1>2. PICK idx \in Nat : idx = s.tool_base_index + tc.index
  BY <1>1 DEF Calls
<1>3. PICK t \in C : t = IF tc.name THEN open_block(s, idx, "tool_use") ELSE s
  BY DEF ToolProof, BlockKinds
<1>4. Push(t, BlockDelta(idx, "input_json_delta", tc.args)) \in C
  BY DEF ToolProof, Calls
<1>5. tool_delta(s, tc) =
        IF tc.args # <<>> /\ BlockOpen(t, idx)
        THEN Push(t, BlockDelta(idx, "input_json_delta", tc.args)) ELSE t
  BY <1>2, <1>3 DEF tool_delta
<1> QED
  BY <1>4, <1>5

LEMMA ToolLoopStays ==
  ASSUME NEW C, ToolProof(C), NEW b \in Nat, NEW s \in C \cap Based(b), NEW calls \in Seq(Calls)
  PROVE  tool_loop(s, calls) \in C
<1>1. PICK L \in Nat : L = Len(calls)
  OBVIOUS
<1>2. PICK f : After(s, calls, L, f) /\ tool_loop(s, calls) = f[L]
  <2>1. \E g : After(s, calls, L, g)
    BY AfterExists
  <2>2. PICK f : f = CHOOSE g : After(s, calls, L, g)
    OBVIOUS
  <2>3. After(s, calls, L, f)
    BY <2>1, <2>2
  <2>4. tool_loop(s, calls) = f[L]
    BY <1>1, <2>2 DEF tool_loop, After
  <2> QED
    BY <2>3, <2>4
<1>3. \A n \in 0 .. L : f[n] = IF n = 0 THEN s ELSE tool_delta(f[n - 1], calls[n])
  BY <1>2 DEF After
<1>4. PICK D : D = C \cap Based(b)
  OBVIOUS
<1>5. \A t \in D, tc \in Calls : tool_delta(t, tc) \in D
  BY <1>4, ToolDeltaStays, ToolDeltaBase
<1> DEFINE Bad == {n \in 0 .. L : f[n] \notin D}
<1>6. Bad = {}
  <2>1. SUFFICES ASSUME Bad # {} PROVE FALSE
    OBVIOUS
  <2>2. PICK m \in Bad : \A k \in Bad : m <= k
    <3>1. Bad \subseteq Nat
      OBVIOUS
    <3> HIDE DEF Bad
    <3> QED
      BY <2>1, <3>1, LeastNat
  <2>3. m \in 0 .. L /\ f[m] \notin D
    BY <2>2
  <2>4. m # 0
    BY <1>3, <1>4, <2>3
  <2>5. PICK p \in Nat : p = m - 1 /\ p \in 0 .. L /\ m \in 1 .. Len(calls)
    BY <1>1, <2>3, <2>4
  <2>6. f[p] \in D
    BY <2>2, <2>5
  <2>7. calls[m] \in Calls
    BY <2>5
  <2>8. f[m] = tool_delta(f[p], calls[m])
    BY <1>3, <2>3, <2>4, <2>5
  <2> QED
    BY <1>5, <2>3, <2>6, <2>7, <2>8
<1>7. f[L] \in D
  BY <1>6
<1> QED
  BY <1>2, <1>4, <1>7

LEMMA ToolStays ==
  ASSUME NEW C, ToolProof(C), \A s \in C : \A v \in Nat : [s EXCEPT !.tool_base_index = v] \in C,
         NEW s \in C, NEW c \in CanonChunk
  PROVE  tool_section(s, c) \in C
<1>1. s \in Speaking
  BY DEF ToolProof
<1>2. PICK b \in Nat : b = IF s.tool_base_index = NoIndex THEN next_index(s)
                           ELSE s.tool_base_index
  BY <1>1, NextIndexType, SpeakingFields
<1>3. PICK t \in C : t = [s EXCEPT !.tool_base_index = b]
  OBVIOUS
<1>4. t \in C \cap Based(b)
  <2>1. t \in Speaking
    BY DEF ToolProof
  <2> QED
    BY <1>1, <1>3, <2>1 DEF Based, Speaking, StateSet
<1>5. c.calls \in Seq(Calls)
  BY DEF CanonChunk
<1>6. tool_loop(t, c.calls) \in C
  BY <1>4, <1>5, ToolLoopStays
<1> QED
  BY <1>2, <1>3, <1>6 DEF tool_section

(* A set of states that nothing but channel text and the ends of a turn can *)
(* leave                                                                    *)
Settles(C) ==
  /\ C \subseteq Speaking
  /\ \A s \in C : \A v \in Seq(BOOLEAN) : [s EXCEPT !.blocks = v] \in C
  /\ \A s \in C : \A v \in Nat : [s EXCEPT !.thinking_index = v] \in C
  /\ \A s \in C : \A v \in Nat : [s EXCEPT !.text_index = v] \in C
  /\ \A s \in C : \A v \in Nat : [s EXCEPT !.tool_base_index = v] \in C
  /\ \A s \in C : \A v \in Nat : [s EXCEPT !.input_tokens = v] \in C
  /\ \A s \in C : \A v \in StopReasons \cup {"none"} : [s EXCEPT !.stop_reason = v] \in C
  /\ \A s \in C : \A q \in Seq(Mute) : [s EXCEPT !.out = s.out \o q] \in C
  /\ \A s \in C : flush_stop_tail(s) \in C

LEMMA OneMore ==
  ASSUME NEW s \in Speaking, NEW f \in Mute
  PROVE  <<f>> \in Seq(Mute) /\ Append(s.out, f) = s.out \o <<f>>
<1>1. s.out \in Seq(Speech) /\ f \in Speech
  BY SpeakingFields DEF Mute
<1> QED
  BY <1>1, AppendIsConcat

LEMMA SettledPush ==
  ASSUME NEW C, Settles(C), NEW s \in C, NEW f \in Mute
  PROVE  Push(s, f) \in C
<1>1. <<f>> \in Seq(Mute) /\ Append(s.out, f) = s.out \o <<f>>
  BY OneMore DEF Settles
<1>2. [s EXCEPT !.out = s.out \o <<f>>] \in C
  BY <1>1 DEF Settles
<1> QED
  BY <1>1, <1>2 DEF Push

LEMMA SettledStop ==
  ASSUME NEW C, Settles(C), NEW s \in C, NEW n \in Nat
  PROVE  StopBelow(s, n) \in C
<1>1. s \in Speaking
  BY DEF Settles
<1>2. PICK q \in Seq(Stops) :
        StopBelow(s, n) = [s EXCEPT !.blocks = Stopped(s.blocks, n), !.out = s.out \o q]
  BY <1>1, StopBelowFrames
<1>3. Stopped(s.blocks, n) \in Seq(BOOLEAN) /\ q \in Seq(Mute)
  BY <1>1, SpeakingFields, StoppedType, MuteSeqs
<1>4. PICK t \in C : t = [s EXCEPT !.blocks = Stopped(s.blocks, n)]
  BY <1>3 DEF Settles
<1>5. t.out = s.out
  BY <1>4
<1>6. [t EXCEPT !.out = t.out \o q] \in C
  BY <1>3 DEF Settles
<1>7. StopBelow(s, n) = [t EXCEPT !.out = t.out \o q]
  BY <1>1, <1>2, <1>4, <1>5 DEF Speaking, StateSet
<1> QED
  BY <1>6, <1>7

LEMMA SettledBlocks ==
  ASSUME NEW C, Settles(C), NEW s \in C, NEW idx \in Nat
  PROVE  /\ close_block(s, idx) \in C
         /\ \A kind \in BlockKinds : open_block(s, idx, kind) \in C
<1>1. PICK t \in C : t = flush_stop_tail(s)
  BY DEF Settles
<1>2. PICK u \in C : u = StopBelow(t, idx)
  BY SettledStop
<1>3. close_block(s, idx) = u
  BY <1>1, <1>2 DEF close_block
<1>4. u \in Speaking
  BY DEF Settles
<1>5. ASSUME NEW kind \in BlockKinds PROVE open_block(s, idx, kind) \in C
  <2>1. Opened(u.blocks, idx) \in Seq(BOOLEAN)
    BY <1>4, SpeakingFields, OpenedType
  <2>2. PICK v \in C : v = [u EXCEPT !.blocks = Opened(u.blocks, idx)]
    BY <2>1 DEF Settles
  <2>3. v.out = u.out
    BY <2>2
  <2>4. Push(v, BlockStart(idx, kind)) \in C
    BY SettledPush, MuteFrames
  <2>5. open_block(s, idx, kind) = Push(v, BlockStart(idx, kind))
    <3>1. open_block(s, idx, kind) =
            [u EXCEPT !.blocks = Opened(u.blocks, idx), !.out = Append(u.out, BlockStart(idx, kind))]
      BY <1>1, <1>2, Zenon DEF open_block
    <3> QED
      BY <1>4, <2>2, <2>3, <3>1 DEF Push, Speaking, StateSet
  <2> QED
    BY <2>4, <2>5
<1> QED
  BY <1>3, <1>5

LEMMA SettledReopen ==
  ASSUME NEW C, Settles(C), NEW s \in C, NEW idx \in Nat \cup {NoIndex}, NEW kind \in BlockKinds
  PROVE  reopen(s, idx, kind) \in C /\ slot(s, idx) \in Nat
<1>1. s \in Speaking
  BY DEF Settles
<1>2. next_index(s) \in Nat /\ slot(s, idx) \in Nat
  BY <1>1, NextIndexType, ReopenType
<1> QED
  BY <1>2, SettledBlocks DEF reopen

LEMMA SettledTools ==
  ASSUME NEW C, Settles(C), NEW s \in C, NEW c \in CanonChunk
  PROVE  tool_section(s, c) \in C
<1>1. ToolProof(C)
  <2>1. C \subseteq Speaking
    BY DEF Settles
  <2>2. \A t \in C : \A i \in Nat, kind \in BlockKinds : open_block(t, i, kind) \in C
    BY SettledBlocks
  <2>3. \A t \in C : \A i \in Nat, a \in Texts : Push(t, BlockDelta(i, "input_json_delta", a)) \in C
    BY SettledPush, MuteFrames
  <2> QED
    BY <2>1, <2>2, <2>3 DEF ToolProof
<1>2. \A t \in C : \A v \in Nat : [t EXCEPT !.tool_base_index = v] \in C
  BY DEF Settles
<1> QED
  BY <1>1, <1>2, ToolStays

-----------------------------------------------------------------------------
(* A window that has fired withholds nothing *)
Spent(w) == w.matched # <<>> => w.tail = <<>> /\ HasWindow

Spoken == {"text_delta", "thinking_delta"}

(* No text and no thinking after the first n frames *)
Mum(o, n) == \A k \in n + 1 .. Len(o) : o[k].kind \notin Spoken

(* The states of a running turn with p as its pending usage and n frames   *)
(* or more sent; if w fired before, it stays, and no text came after       *)
(* frame n.                                                                *)
Held(p, w, n) ==
  {s \in Speaking :
     /\ s.pending_usage = p
     /\ n <= Len(s.out)
     /\ Spent(s.win)
     /\ w # <<>> => s.win.matched = w /\ Mum(s.out, n)}

LEMMA MumConcat ==
  ASSUME NEW o \in Seq(Frames), NEW q \in Seq(Frames), NEW n \in Nat, n <= Len(o),
         Mum(o, n), \A k \in 1 .. Len(q) : q[k].kind \notin Spoken
  PROVE  Mum(o \o q, n)
<1>1. PICK l \in Nat : l = Len(o)
  OBVIOUS
<1>2. PICK m \in Nat : m = Len(q)
  OBVIOUS
<1>3. PICK p \in Seq(Frames) : p = o \o q
  BY ConcatProperties
<1>4. Len(p) = l + m /\ \A k \in 1 .. l + m : p[k] = IF k <= l THEN o[k] ELSE q[k - l]
  BY <1>1, <1>2, <1>3, ConcatProperties
<1>5. ASSUME NEW k \in n + 1 .. l + m PROVE p[k].kind \notin Spoken
  <2>1. CASE k <= l
    <3>1. k \in n + 1 .. Len(o) /\ k \in 1 .. l + m
      BY <1>1, <2>1
    <3> QED
      BY <1>4, <2>1, <3>1 DEF Mum
  <2>2. CASE ~(k <= l)
    <3>1. k - l \in 1 .. Len(q) /\ k \in 1 .. l + m
      BY <1>1, <1>2, <2>2
    <3> QED
      BY <1>4, <2>2, <3>1
  <2> QED
    BY <2>1, <2>2
<1> QED
  BY <1>3, <1>4, <1>5 DEF Mum

LEMMA HeldConcat ==
  ASSUME NEW p, NEW w, NEW n \in Nat, NEW s \in Held(p, w, n), NEW q \in Seq(Speech),
         w = <<>> \/ \A k \in 1 .. Len(q) : q[k].kind \notin Spoken
  PROVE  [s EXCEPT !.out = s.out \o q] \in Held(p, w, n)
<1>1. s \in Speaking
  BY DEF Held
<1>2. PICK o \in Seq(Speech) : o = s.out
  BY <1>1, SpeakingFields
<1>3. PICK r \in Seq(Speech) : r = o \o q
  BY ConcatProperties
<1>4. Len(r) = Len(o) + Len(q) /\ Len(o) \in Nat /\ Len(q) \in Nat
  BY <1>3, ConcatProperties
<1>5. n <= Len(o) /\ n <= Len(r)
  BY <1>2, <1>4 DEF Held
<1>6. w # <<>> => Mum(r, n)
  <2>1. SUFFICES ASSUME w # <<>> PROVE Mum(r, n)
    OBVIOUS
  <2>2. Mum(o, n)
    BY <1>2, <2>1 DEF Held
  <2>3. o \in Seq(Frames) /\ q \in Seq(Frames)
    BY SpeechIsFrames
  <2>4. \A k \in 1 .. Len(q) : q[k].kind \notin Spoken
    BY <2>1
  <2> QED
    BY <1>3, <1>5, <2>2, <2>3, <2>4, MumConcat
<1>7. PICK t \in Speaking : t = [s EXCEPT !.out = r]
  BY <1>1, SpeakingUpdates
<1>8. t.out = r /\ t.win = s.win /\ t.pending_usage = s.pending_usage
  BY <1>1, <1>7 DEF Speaking, StateSet
<1>9. t \in Held(p, w, n)
  BY <1>5, <1>6, <1>8 DEF Held
<1> QED
  BY <1>2, <1>3, <1>7, <1>9

LEMMA HeldPush ==
  ASSUME NEW p, NEW w, NEW n \in Nat, NEW s \in Held(p, w, n), NEW f \in Speech,
         w = <<>> \/ f.kind \notin Spoken
  PROVE  Push(s, f) \in Held(p, w, n)
<1>1. s.out \in Seq(Speech)
  BY SpeakingFields DEF Held
<1>2. PICK q \in Seq(Speech) : q = <<f>> /\ Len(q) = 1 /\ q[1] = f
  <2>1. <<f>> \in Seq(Speech)
    OBVIOUS
  <2> QED
    BY <2>1
<1>3. Append(s.out, f) = s.out \o q
  BY <1>1, <1>2, AppendIsConcat
<1>4. w = <<>> \/ \A k \in 1 .. Len(q) : q[k].kind \notin Spoken
  BY <1>2
<1>5. [s EXCEPT !.out = s.out \o q] \in Held(p, w, n)
  BY <1>4, HeldConcat
<1> QED
  BY <1>3, <1>5 DEF Push

LEMMA HeldWin ==
  ASSUME NEW p, NEW w, NEW n, NEW s \in Held(p, w, n), NEW v \in Windows, Spent(v),
         w # <<>> => v.matched = w
  PROVE  [s EXCEPT !.win = v] \in Held(p, w, n)
<1>1. s \in Speaking
  BY DEF Held
<1>2. PICK t \in Speaking : t = [s EXCEPT !.win = v]
  BY <1>1, SpeakingUpdates
<1>3. t.win = v /\ t.out = s.out /\ t.pending_usage = s.pending_usage
  BY <1>1, <1>2 DEF Speaking, StateSet
<1> QED
  BY <1>2, <1>3 DEF Held

LEMMA HeldFlush ==
  ASSUME NEW p, NEW w, NEW n \in Nat, NEW s \in Held(p, w, n)
  PROVE  flush_stop_tail(s) \in Held(p, w, n)
<1>1. s \in Speaking
  BY DEF Held
<1>2. PICK v \in Windows : v = s.win
  BY <1>1, SpeakingFields
<1>3. PICK x \in Windows : x = TakeTail(v) /\ x.matched = v.matched /\ x.tail = <<>>
  <2>1. TakeTail(v) \in Windows
    BY EmptySeq DEF TakeTail, Windows, Texts
  <2>2. TakeTail(v).matched = v.matched /\ TakeTail(v).tail = <<>>
    BY DEF TakeTail, Windows
  <2> QED
    BY <2>1, <2>2
<1>4. PICK t \in Held(p, w, n) : t = [s EXCEPT !.win = x]
  <2>1. Spent(x)
    BY <1>2, <1>3 DEF Held, Spent
  <2>2. w # <<>> => x.matched = w
    BY <1>2, <1>3 DEF Held
  <2> QED
    BY <2>1, <2>2, HeldWin
<1>5. CASE ~HasTail(s.win)
  BY <1>5 DEF flush_stop_tail
<1>6. CASE HasTail(s.win) /\ ~BlockOpen(s, v.block)
  BY <1>2, <1>3, <1>4, <1>6 DEF flush_stop_tail
<1>7. CASE HasTail(s.win) /\ BlockOpen(s, v.block)
  <2>1. v.block \in Nat
    BY <1>1, <1>7, OpenIsNat DEF Windows
  <2>2. PICK f \in Speech :
          f = BlockDelta(v.block, IF v.kind = "thinking" THEN "thinking_delta" ELSE "text_delta",
                         v.tail)
    BY <2>1, FrameTypes DEF Windows, DeltaKinds
  <2>3. w = <<>>
    BY <1>2, <1>7 DEF Held, Spent, HasTail
  <2>4. flush_stop_tail(s) = Push(t, f)
    BY <1>2, <1>3, <1>4, <1>7, <2>2 DEF flush_stop_tail
  <2> QED
    BY <2>3, <2>4, HeldPush
<1> QED
  BY <1>2, <1>5, <1>6, <1>7

LEMMA HeldSettles ==
  ASSUME NEW p, NEW w, NEW n \in Nat
  PROVE  Settles(Held(p, w, n))
<1> DEFINE C == Held(p, w, n)
<1>1. C \subseteq Speaking
  BY DEF Held
<1>2. ASSUME NEW s \in C
      PROVE  /\ \A v \in Seq(BOOLEAN) : [s EXCEPT !.blocks = v] \in C
             /\ \A v \in Nat : [s EXCEPT !.thinking_index = v] \in C
             /\ \A v \in Nat : [s EXCEPT !.text_index = v] \in C
             /\ \A v \in Nat : [s EXCEPT !.tool_base_index = v] \in C
             /\ \A v \in Nat : [s EXCEPT !.input_tokens = v] \in C
             /\ \A v \in StopReasons \cup {"none"} : [s EXCEPT !.stop_reason = v] \in C
  <2>1. ASSUME NEW t \in Speaking, t.out = s.out, t.win = s.win,
               t.pending_usage = s.pending_usage
        PROVE  t \in C
    BY <2>1 DEF Held
  <2>2. s \in Speaking /\ s \in StateSet
    BY DEF Held, Speaking
  <2> HIDE DEF C
  <2>3. ASSUME NEW v \in Seq(BOOLEAN) PROVE [s EXCEPT !.blocks = v] \in C
    BY <2>1, <2>2, SpeakingUpdates DEF StateSet
  <2>4. ASSUME NEW v \in Nat PROVE [s EXCEPT !.thinking_index = v] \in C
    BY <2>1, <2>2, SpeakingUpdates DEF StateSet
  <2>5. ASSUME NEW v \in Nat PROVE [s EXCEPT !.text_index = v] \in C
    BY <2>1, <2>2, SpeakingUpdates DEF StateSet
  <2>6. ASSUME NEW v \in Nat PROVE [s EXCEPT !.tool_base_index = v] \in C
    BY <2>1, <2>2, SpeakingUpdates DEF StateSet
  <2>7. ASSUME NEW v \in Nat PROVE [s EXCEPT !.input_tokens = v] \in C
    BY <2>1, <2>2, SpeakingUpdates DEF StateSet
  <2>8. ASSUME NEW v \in StopReasons \cup {"none"} PROVE [s EXCEPT !.stop_reason = v] \in C
    BY <2>1, <2>2, SpeakingUpdates DEF StateSet
  <2> QED
    BY <2>3, <2>4, <2>5, <2>6, <2>7, <2>8
<1>3. ASSUME NEW s \in C, NEW q \in Seq(Mute) PROVE [s EXCEPT !.out = s.out \o q] \in C
  <2>1. q \in Seq(Speech) /\ \A k \in 1 .. Len(q) : q[k] \in Mute
    BY MuteSeqs
  <2>2. \A k \in 1 .. Len(q) : q[k].kind \notin Spoken
    BY <2>1 DEF Mute, ChannelKinds, Spoken
  <2> QED
    BY <2>1, <2>2, HeldConcat
<1>4. \A s \in C : flush_stop_tail(s) \in C
  BY HeldFlush
<1> HIDE DEF C
<1>5. Settles(C)
  BY <1>1, <1>2, <1>3, <1>4 DEF Settles
<1> QED
  BY <1>5 DEF C

LEMMA HeldFiltered ==
  ASSUME NEW p, NEW w, NEW n \in Nat, NEW s \in Held(p, w, n), NEW idx \in Nat,
         NEW channel \in {"text", "thinking"}, NEW kind \in Spoken, NEW text \in Texts
  PROVE  filtered(s, idx, channel, kind, text) \in Held(p, w, n)
<1>1. s \in Speaking /\ kind \in DeltaKinds
  BY DEF Held, Spoken, DeltaKinds
<1>2. PICK v \in Windows : v = s.win /\ Spent(v) /\ (w # <<>> => v.matched = w)
  BY <1>1, SpeakingFields DEF Held
<1>3. CASE ~HasWindow
  <2>1. w = <<>>
    BY <1>2, <1>3 DEF Spent
  <2>2. BlockDelta(idx, kind, text) \in Speech
    BY <1>1, FrameTypes
  <2> QED
    BY <1>3, <2>1, <2>2, HeldPush DEF filtered
<1>4. CASE HasWindow
  <2>1. PICK r : r = Feed(v, idx, channel, text)
    OBVIOUS
  <2>2. r.win \in Windows /\ r.emit \in Texts
    BY <2>1, FeedType
  <2>3. Spent(r.win) /\ (w # <<>> => r.win.matched = w /\ r.emit = <<>>)
    <3>1. CASE v.matched # <<>>
      BY <1>2, <2>1, <3>1 DEF Feed
    <3>2. CASE v.matched = <<>>
      <4>1. PICK buf : Buffered(v, idx, channel, text, buf)
        BY <3>2, BufferType, Zenon DEF Buffered
      <4>2. Spent(r.win)
        <5>1. CASE Fired(buf) # {}
          BY <1>4, <2>1, <4>1, <5>1, FeedFires DEF HasFired, Spent
        <5>2. CASE Fired(buf) = {}
          BY <2>1, <4>1, <5>2, FeedPasses DEF HasPassed, Spent
        <5> QED
          BY <5>1, <5>2
      <4> QED
        BY <1>2, <3>2, <4>2
    <3> QED
      BY <3>1, <3>2
  <2>4. PICK t \in Held(p, w, n) : t = [s EXCEPT !.win = r.win]
    BY <2>2, <2>3, HeldWin
  <2>5. filtered(s, idx, channel, kind, text) =
          IF r.emit = <<>> THEN t ELSE Push(t, BlockDelta(idx, kind, r.emit))
    BY <1>2, <1>4, <2>1, <2>4 DEF filtered
  <2>6. CASE r.emit = <<>>
    BY <2>5, <2>6
  <2>7. CASE r.emit # <<>>
    <3>1. w = <<>>
      BY <2>3, <2>7
    <3>2. BlockDelta(idx, kind, r.emit) \in Speech
      BY <1>1, <2>2, FrameTypes
    <3> QED
      BY <2>5, <2>7, <3>1, <3>2, HeldPush
  <2> QED
    BY <2>6, <2>7
<1> QED
  BY <1>3, <1>4

-----------------------------------------------------------------------------
(* The sections of a chunk, up to its finish *)
LEMMA HeldThinking ==
  ASSUME NEW p, NEW w, NEW n \in Nat, NEW s \in Held(p, w, n), NEW c \in CanonChunk
  PROVE  thinking_section(s, c) \in Held(p, w, n)
<1>1. Settles(Held(p, w, n)) /\ s \in Speaking
  <2>1. Settles(Held(p, w, n))
    BY HeldSettles
  <2>2. s \in Speaking
    BY DEF Held
  <2> QED
    BY <2>1, <2>2
<1>2. CASE c.thinking.kind = "none"
  BY <1>2 DEF thinking_section
<1>3. CASE c.thinking.kind # "none"
  <2>1. c.thinking.text \in Texts
    BY DEF CanonChunk
  <2>2. s.thinking_index \in Nat \cup {NoIndex} /\ "thinking" \in BlockKinds
    BY <1>1, SpeakingFields DEF BlockKinds
  <2>3. /\ reopen(s, s.thinking_index, "thinking") \in Held(p, w, n)
        /\ slot(s, s.thinking_index) \in Nat
    BY <1>1, <2>2, SettledReopen
  <2>4. PICK i \in Nat : i = slot(s, s.thinking_index)
    BY <2>3
  <2>5. PICK u \in Held(p, w, n) : u = reopen(s, s.thinking_index, "thinking")
    BY <2>3
  <2>6. PICK t \in Held(p, w, n) : t = [u EXCEPT !.thinking_index = i]
    BY <1>1 DEF Settles
  <2>7. Push(t, BlockDelta(i, "signature_delta", c.thinking.text)) \in Held(p, w, n)
    <3>1. BlockDelta(i, "signature_delta", c.thinking.text) \in Speech
      BY <2>1, FrameTypes DEF DeltaKinds
    <3>2. BlockDelta(i, "signature_delta", c.thinking.text).kind \notin Spoken
      BY DEF BlockDelta, Frame, Spoken
    <3> QED
      BY <3>1, <3>2, HeldPush
  <2>8. filtered(t, i, "thinking", "thinking_delta", c.thinking.text) \in Held(p, w, n)
    BY <2>1, HeldFiltered DEF Spoken
  <2> QED
    BY <1>3, <2>4, <2>5, <2>6, <2>7, <2>8 DEF thinking_section
<1> QED
  BY <1>2, <1>3

LEMMA HeldText ==
  ASSUME NEW p, NEW w, NEW n \in Nat, NEW s \in Held(p, w, n), NEW c \in CanonChunk
  PROVE  text_section(s, c) \in Held(p, w, n)
<1>1. Settles(Held(p, w, n)) /\ s \in Speaking
  <2>1. Settles(Held(p, w, n))
    BY HeldSettles
  <2>2. s \in Speaking
    BY DEF Held
  <2> QED
    BY <2>1, <2>2
<1>2. CASE c.delta_text = <<>>
  BY <1>2 DEF text_section
<1>3. CASE c.delta_text # <<>>
  <2>1. c.delta_text \in Texts
    BY DEF CanonChunk
  <2>2. s.text_index \in Nat \cup {NoIndex} /\ "text" \in BlockKinds
    BY <1>1, SpeakingFields DEF BlockKinds
  <2>3. reopen(s, s.text_index, "text") \in Held(p, w, n) /\ slot(s, s.text_index) \in Nat
    BY <1>1, <2>2, SettledReopen
  <2>4. PICK i \in Nat : i = slot(s, s.text_index)
    BY <2>3
  <2>5. PICK u \in Held(p, w, n) : u = reopen(s, s.text_index, "text")
    BY <2>3
  <2>6. PICK t \in Held(p, w, n) : t = [u EXCEPT !.text_index = i]
    BY <1>1 DEF Settles
  <2>7. filtered(t, i, "text", "text_delta", c.delta_text) \in Held(p, w, n)
    BY <2>1, HeldFiltered DEF Spoken
  <2> QED
    BY <1>3, <2>4, <2>5, <2>6, <2>7 DEF text_section
<1> QED
  BY <1>2, <1>3

-----------------------------------------------------------------------------
(* A body with its terminal: u is the usage it bills, w the sequence that  *)
(* fired before, if any, after the first n frames or earlier.              *)
Wired(u, x) == [input |-> wire_input(u, x), output |-> u.output,
                cached_read |-> u.cached_read, cache_write |-> u.cache_write]

Sealing(o, m, v, u, x) == o \o <<MessageDelta(v, m, Wired(u, x)), MessageStop>>

Sealed(w, n, u) ==
  {s \in StateSet :
     /\ s.message_stopped
     /\ Spent(s.win)
     /\ w # <<>> => s.win.matched = w
     /\ \E o \in Seq(Speech), v \in StopReasons, x \in Nat :
          /\ s.out = Sealing(o, s.win.matched, v, u, x)
          /\ n <= Len(o)
          /\ w # <<>> => Mum(o, n)
          /\ s.win.matched # <<>> => v = "stop_sequence"}

LEMMA TerminalSeals ==
  ASSUME NEW p, NEW w, NEW n \in Nat, NEW s \in Held(p, w, n), NEW reason \in StopReasons,
         NEW u \in Usages
  PROVE  emit_terminal(s, reason, u) \in Sealed(w, n, u)
<1>1. s \in Speaking /\ Len(s.blocks) \in Nat
  BY SpeakingFields DEF Held
<1>2. PICK t \in Held(p, w, n) : t = close_block(s, Len(s.blocks))
  BY <1>1, HeldSettles, SettledBlocks
<1>3. t \in Speaking /\ t \in StateSet
  BY DEF Held, Speaking
<1>4. PICK v \in StopReasons :
        v = IF t.win.matched # <<>> THEN "stop_sequence" ELSE reason
  BY DEF StopReasons
<1>5. PICK x \in Nat : x = t.input_tokens
  BY <1>3, SpeakingFields
<1>6. PICK o \in Seq(Speech) : o = t.out
  BY <1>3, SpeakingFields
<1>7. PICK q : q = Sealing(o, t.win.matched, v, u, x)
  OBVIOUS
<1>8. emit_terminal(s, reason, u) = [t EXCEPT !.out = q, !.message_stopped = TRUE]
  BY <1>2, <1>4, <1>5, <1>6, <1>7, Zenon DEF emit_terminal, Sealing, Wired
<1>9. PICK e : e = [t EXCEPT !.out = q, !.message_stopped = TRUE]
  OBVIOUS
<1>10. e \in StateSet
  BY <1>1, <1>8, <1>9, TerminalType DEF Finished
<1>11. e.message_stopped /\ e.win = t.win /\ e.out = q
  BY <1>3, <1>9 DEF StateSet
<1>12. n <= Len(o) /\ (w # <<>> => t.win.matched = w /\ Mum(o, n)) /\ Spent(t.win)
  BY <1>6 DEF Held
<1>13. t.win.matched # <<>> => v = "stop_sequence"
  BY <1>4
<1>14. e \in Sealed(w, n, u)
  BY <1>7, <1>10, <1>11, <1>12, <1>13 DEF Sealed
<1> QED
  BY <1>8, <1>9, <1>14

(* What a chunk leaves of a running turn: it runs on, its pending usage    *)
(* replaced at most by a trailer's, or it ends billing the chunk's usage.  *)
Answers(p, w, n, c) ==
  IF c.usage.given /\ c.finish # "none" THEN Sealed(w, n, c.usage)
  ELSE IF is_trailer(c) THEN Held(c.usage, w, n) \cup Sealed(w, n, c.usage)
  ELSE Held(p, w, n)

LEMMA FinishAnswers ==
  ASSUME NEW p, NEW w, NEW n \in Nat, NEW s \in Held(p, w, n), NEW c \in CanonChunk,
         ~is_trailer(c)
  PROVE  finish_section(s, c) \in Answers(p, w, n, c)
<1>1. CASE c.finish = "none"
  BY <1>1 DEF finish_section, Answers
<1>2. CASE c.finish # "none"
  <2>1. c.finish \in FinishReasons /\ c.usage \in Usages
    BY <1>2 DEF CanonChunk
  <2>2. PICK sr \in StopReasons : sr = map_stop_reason_outbound(c.finish)
    BY <2>1, ReasonType
  <2>3. emit_terminal(s, sr, c.usage) \in Sealed(w, n, c.usage)
    BY <2>1, TerminalSeals
  <2>4. [s EXCEPT !.stop_reason = sr] \in Held(p, w, n)
    BY HeldSettles DEF Settles
  <2>5. finish_section(s, c) =
          IF c.usage.given THEN emit_terminal(s, sr, c.usage) ELSE [s EXCEPT !.stop_reason = sr]
    BY <1>2, <2>2 DEF finish_section
  <2> QED
    BY <1>2, <2>3, <2>4, <2>5 DEF Answers
<1> QED
  BY <1>1, <1>2

LEMMA TrailerAnswers ==
  ASSUME NEW p, NEW w, NEW n \in Nat, NEW s \in Held(p, w, n), NEW c \in CanonChunk,
         is_trailer(c)
  PROVE  trailer(s, c) \in Answers(p, w, n, c)
<1>1. c.usage \in Usages /\ c.usage.given /\ s \in Speaking
  BY DEF CanonChunk, is_trailer, Held
<1>2. CASE s.stop_reason = "none"
  <2>1. PICK t \in Speaking : t = [s EXCEPT !.pending_usage = c.usage]
    BY <1>1, SpeakingUpdates
  <2>2. t.out = s.out /\ t.win = s.win /\ t.pending_usage = c.usage
    BY <1>1, <2>1 DEF Speaking, StateSet
  <2>3. t \in Held(c.usage, w, n)
    BY <2>2 DEF Held
  <2> QED
    BY <1>1, <1>2, <2>1, <2>3 DEF trailer, Answers, is_trailer
<1>3. CASE s.stop_reason # "none"
  <2>1. s.stop_reason \in StopReasons
    BY <1>1, <1>3, SpeakingFields
  <2>2. PICK t \in Held(p, w, n) : t = [s EXCEPT !.stop_reason = "none"]
    BY HeldSettles DEF Settles
  <2>3. emit_terminal(t, s.stop_reason, c.usage) \in Sealed(w, n, c.usage)
    BY <1>1, <2>1, TerminalSeals
  <2> QED
    BY <1>1, <1>3, <2>2, <2>3 DEF trailer, Answers, is_trailer
<1> QED
  BY <1>2, <1>3

LEMMA PreambleHeld ==
  ASSUME NEW s \in Silent \cup Speaking, Spent(s.win), s \in Speaking => s.out # <<>>,
         NEW c \in CanonChunk
  PROVE  /\ preamble(s, c) \in Held(s.pending_usage, s.win.matched, Len(s.out))
         /\ preamble(s, c) \in Held(s.pending_usage, <<>>, 1)
<1>1. PICK t \in Speaking : t = preamble(s, c)
  BY PreambleType
<1>2. s \in StateSet /\ s.out \in Seq(Speech) /\ Len(s.out) \in Nat
  BY EmptySeq DEF Silent, Speaking
<1>3. t.win = s.win /\ t.pending_usage = s.pending_usage
  BY <1>1, <1>2 DEF preamble, Push, StateSet
<1>4. Len(s.out) <= Len(t.out) /\ 1 <= Len(t.out) /\ Mum(t.out, Len(s.out))
  <2>1. CASE s \in Speaking
    <3>1. t.out = s.out
      BY <1>1, <1>2, <2>1, SpeakingFields DEF preamble, StateSet
    <3> QED
      BY <1>2, <2>1, <3>1 DEF Mum
  <2>2. CASE s \in Silent
    <3>1. s.first /\ s.out = <<>>
      BY <2>2 DEF Silent
    <3>2. PICK m \in Nat : t.out = Append(s.out, MessageStart(m))
      <4>1. PICK m \in Nat : m = IF c.input_tokens > 0 THEN c.input_tokens ELSE s.input_tokens
        BY <1>2 DEF CanonChunk, NoTokens, StateSet
      <4>2. t.out = Append(s.out, MessageStart(m))
        BY <1>1, <1>2, <3>1, <4>1 DEF preamble, Push, StateSet
      <4> QED
        BY <4>2
    <3>3. PICK f : f = MessageStart(m)
      OBVIOUS
    <3>5. f.kind = "none"
      BY <3>3 DEF MessageStart, Frame
    <3>4. t.out = <<f>>
      BY <3>1, <3>2, <3>3
    <3> QED
      BY <3>1, <3>4, <3>5 DEF Mum, Spoken
  <2> QED
    BY <2>1, <2>2
<1> QED
  BY <1>1, <1>3, <1>4 DEF Held

LEMMA ChunkAnswers ==
  ASSUME NEW p, NEW w, NEW n \in Nat, NEW s \in Silent \cup Speaking, NEW c \in CanonChunk,
         preamble(s, c) \in Held(p, w, n)
  PROVE  chunk_to_sse_events(s, c) \in Answers(p, w, n, c)
<1>1. ~s.message_stopped
  BY DEF Silent, Speaking
<1>2. PICK t \in Held(p, w, n) : t = preamble(s, c)
  OBVIOUS
<1>3. is_trailer(c) => trailer(t, c) \in Answers(p, w, n, c)
  BY TrailerAnswers
<1>4. PICK u \in Held(p, w, n) : u = thinking_section(t, c)
  BY HeldThinking
<1>5. PICK v \in Held(p, w, n) : v = text_section(u, c)
  BY HeldText
<1>6. PICK x \in Held(p, w, n) : x = tool_section(v, c)
  BY HeldSettles, SettledTools
<1>7. ~is_trailer(c) => finish_section(x, c) \in Answers(p, w, n, c)
  BY FinishAnswers
<1> QED
  BY <1>1, <1>2, <1>3, <1>4, <1>5, <1>6, <1>7 DEF chunk_to_sse_events

LEMMA FinalizeSeals ==
  ASSUME NEW s \in Speaking, Spent(s.win)
  PROVE  finalize_stream(s) \in Sealed(s.win.matched, Len(s.out), s.pending_usage)
<1>1. PICK reason \in StopReasons :
        reason = IF s.stop_reason = "none" THEN "end_turn" ELSE s.stop_reason
  BY SpeakingFields DEF StopReasons
<1>2. PICK u \in Usages : u = s.pending_usage
  BY SpeakingFields
<1>3. PICK t \in Speaking : t = [s EXCEPT !.stop_reason = "none"]
  BY SpeakingUpdates
<1>4. NoUsage \in Usages
  BY DEF NoUsage, Usages
<1>5. PICK v \in Speaking : v = [t EXCEPT !.pending_usage = NoUsage]
  BY <1>4, SpeakingUpdates
<1>6. v = [s EXCEPT !.stop_reason = "none", !.pending_usage = NoUsage]
  BY <1>3, <1>5 DEF Speaking, StateSet
<1>7. v.win = s.win /\ v.out = s.out /\ v.pending_usage = NoUsage
  BY <1>6 DEF Speaking, StateSet
<1>8. PICK n \in Nat : n = Len(s.out)
  <2>1. s.out \in Seq(Speech)
    BY SpeakingFields
  <2> QED
    BY <2>1
<1>9. v \in Held(NoUsage, s.win.matched, n)
  BY <1>7, <1>8 DEF Held, Mum
<1>10. emit_terminal(v, reason, u) \in Sealed(s.win.matched, n, u)
  BY <1>9, TerminalSeals
<1>11. finalize_stream(s) = emit_terminal(v, reason, u)
  BY <1>1, <1>2, <1>6, SpeakingFields, Zenon DEF finalize_stream
<1> QED
  BY <1>2, <1>8, <1>10, <1>11

-----------------------------------------------------------------------------
(* The last usage report of a turn *)
Given(h) == {k \in DOMAIN h : h[k].usage.given}

Latest(h) == h[CHOOSE k \in Given(h) : \A j \in Given(h) : j <= k]

(* A report the terminal frame owes the client *)
Owing(h) == Given(h) # {} /\ (Latest(h).finish # "none" \/ is_trailer(Latest(h)))

LEMMA GreatestNat ==
  ASSUME NEW N \in Nat, NEW T, T \subseteq 0 .. N, T # {}
  PROVE  \E x \in T : \A y \in T : y <= x
<1> DEFINE M == {N - k : k \in T}
<1>1. M \subseteq Nat /\ M # {}
  <2>1. \A k \in T : k \in 0 .. N
    OBVIOUS
  <2>2. \A k \in T : N - k \in Nat
    BY <2>1
  <2> QED
    BY <2>2
<1>2. PICK m \in M : \A k \in M : m <= k
  <2> HIDE DEF M
  <2> QED
    BY <1>1, LeastNat
<1>3. PICK x \in T : m = N - x
  BY <1>2
<1>4. ASSUME NEW y \in T PROVE y <= x
  <2>1. N - y \in M
    OBVIOUS
  <2>2. m <= N - y
    BY <1>2, <2>1
  <2> QED
    BY <1>3, <2>2
<1> QED
  BY <1>4

LEMMA LatestAppend ==
  ASSUME NEW h \in Seq(Chunks), NEW c \in Chunks, NEW g, g = Append(h, c)
  PROVE  IF c.usage.given THEN Given(g) # {} /\ Latest(g) = c
         ELSE (Given(g) # {} <=> Given(h) # {}) /\ (Given(h) # {} => Latest(g) = Latest(h))
<1>1. PICK L \in Nat : L = Len(h)
  OBVIOUS
<1>2. /\ DOMAIN h = 1 .. L /\ DOMAIN g = 1 .. L + 1
      /\ g[L + 1] = c /\ \A k \in 1 .. L : g[k] = h[k]
  <2>1. g \in Seq(Chunks) /\ Len(g) = L + 1
    BY <1>1, AppendProperties
  <2> QED
    BY <1>1, <2>1, AppendProperties
<1>3. CASE c.usage.given
  <2>1. L + 1 \in Given(g) /\ \A j \in Given(g) : j \in 1 .. L + 1
    BY <1>2, <1>3 DEF Given
  <2>2. PICK k : k = CHOOSE x \in Given(g) : \A j \in Given(g) : j <= x
    OBVIOUS
  <2>3. k \in Given(g) /\ \A j \in Given(g) : j <= k
    BY <2>1, <2>2
  <2>4. k = L + 1
    BY <2>1, <2>3
  <2> QED
    BY <1>2, <1>3, <2>1, <2>2, <2>4 DEF Latest
<1>4. CASE ~c.usage.given
  <2>1. Given(g) = Given(h)
    BY <1>2, <1>4 DEF Given
  <2>2. ASSUME Given(h) # {} PROVE Latest(g) = Latest(h)
    <3>1. PICK T : T = Given(h) /\ T \subseteq 0 .. L /\ T \subseteq 1 .. L
      <4>1. Given(h) \subseteq 1 .. L
        BY <1>2 DEF Given
      <4>2. 1 .. L \subseteq 0 .. L
        OBVIOUS
      <4> QED
        BY <4>1, <4>2
    <3>2. \E x \in T : \A y \in T : y <= x
      BY <2>2, <3>1, GreatestNat
    <3>3. PICK k : k = CHOOSE x \in T : \A y \in T : y <= x
      OBVIOUS
    <3>4. k \in T
      BY <3>2, <3>3
    <3>5. Latest(h) = h[k] /\ Latest(g) = g[k]
      BY <2>1, <3>1, <3>3 DEF Latest
    <3> QED
      BY <1>2, <3>1, <3>4, <3>5
  <2> QED
    BY <1>4, <2>1, <2>2
<1> QED
  BY <1>3, <1>4

-----------------------------------------------------------------------------
Complete(o) == o # <<>> /\ o[Len(o)].ev = "message_stop"

LEMMA SpeakingGoesOn ==
  ASSUME NEW s \in Speaking
  PROVE  /\ ~Complete(s.out)
         /\ s.out # <<>> => s.out[Len(s.out)].ev \notin {"message_stop", "error"}
<1>1. PICK o \in Seq(Speech) : o = s.out
  BY SpeakingFields
<1>2. o # <<>> => Len(o) \in 1 .. Len(o)
  BY EmptySeq
<1>3. \A k \in 1 .. Len(o) : o[k] \in Speech
  OBVIOUS
<1>4. o # <<>> => o[Len(o)] \in Speech
  BY <1>2, <1>3
<1> QED
  BY <1>1, <1>4 DEF Complete, Speech, IsTerminal

(* The end of a sealed body *)
LEMMA SealingParts ==
  ASSUME NEW o \in Seq(Speech), NEW m \in Texts, NEW v \in StopReasons, NEW u \in Usages,
         NEW x \in Nat, NEW q, q = Sealing(o, m, v, u, x)
  PROVE  /\ q \in Seq(Frames)
         /\ Len(q) = Len(o) + 2
         /\ \A k \in 1 .. Len(o) : q[k] = o[k]
         /\ q[Len(q) - 1] = MessageDelta(v, m, Wired(u, x))
         /\ q[Len(q)] = MessageStop
<1>1. PICK a : a = MessageDelta(v, m, Wired(u, x))
  OBVIOUS
<1>2. PICK b : b = MessageStop
  OBVIOUS
<1>3. a \in Frames /\ b \in Frames
  BY <1>1, <1>2, WireUsageType, FrameTypes DEF Wired, Speech
<1>4. PICK r \in Seq(Frames) : r = <<a, b>> /\ Len(r) = 2 /\ r[1] = a /\ r[2] = b
  <2>1. <<a, b>> \in Seq(Frames)
    BY <1>3
  <2> QED
    BY <2>1
<1>5. o \in Seq(Frames)
  BY SpeechIsFrames
<1>6. PICK l \in Nat : l = Len(o)
  OBVIOUS
<1>7. q = o \o r
  BY <1>1, <1>2, <1>4 DEF Sealing
<1>8. /\ q \in Seq(Frames) /\ Len(q) = l + 2
      /\ \A k \in 1 .. l + 2 : q[k] = IF k <= l THEN o[k] ELSE r[k - l]
  BY <1>4, <1>5, <1>6, <1>7, ConcatProperties
<1>9. q[l + 1] = a /\ q[l + 2] = b /\ \A k \in 1 .. l : q[k] = o[k]
  BY <1>4, <1>8, SMTT(60)
<1> QED
  BY <1>1, <1>2, <1>6, <1>8, <1>9

LEMMA SealedParts ==
  ASSUME NEW w, NEW n \in Nat, NEW u \in Usages, NEW s \in Sealed(w, n, u)
  PROVE  /\ Complete(s.out)
         /\ Billed(s.out[Len(s.out) - 1].usage, u)
         /\ s.win.matched # <<>> =>
              /\ s.out[Len(s.out) - 1].kind = "stop_sequence"
              /\ s.out[Len(s.out) - 1].text = s.win.matched
         /\ w # <<>> => s.win.matched = w /\ Mum(s.out, n)
         /\ s.win.matched \in Texts
         /\ n <= Len(s.out)
<1>1. PICK o \in Seq(Speech), v \in StopReasons, x \in Nat :
        /\ s.out = Sealing(o, s.win.matched, v, u, x)
        /\ n <= Len(o)
        /\ w # <<>> => Mum(o, n)
        /\ s.win.matched # <<>> => v = "stop_sequence"
  BY DEF Sealed
<1>2. PICK m \in Texts : m = s.win.matched
  BY DEF Sealed, StateSet, Windows
<1>3. PICK q : q = s.out
  OBVIOUS
<1>4. PICK l \in Nat : l = Len(o)
  OBVIOUS
<1>5. /\ q \in Seq(Frames)
      /\ Len(q) = l + 2
      /\ \A k \in 1 .. l : q[k] = o[k]
      /\ q[Len(q) - 1] = MessageDelta(v, m, Wired(u, x))
      /\ q[Len(q)] = MessageStop
  BY <1>1, <1>2, <1>3, <1>4, SealingParts
<1>6. Complete(q)
  BY <1>5 DEF Complete, MessageStop, Frame
<1>7. PICK d : d = MessageDelta(v, m, Wired(u, x))
  OBVIOUS
<1>8. d.kind = v /\ d.text = m /\ d.usage = Wired(u, x)
  BY <1>7 DEF MessageDelta, Frame
<1>9. Billed(Wired(u, x), u)
  BY DEF Billed, Wired, wire_input, Usages
<1>10. ASSUME w # <<>> PROVE Mum(q, n)
  <2>1. Mum(o, n)
    BY <1>1, <1>10
  <2>2. q[l + 1].kind \notin Spoken /\ q[l + 2].kind \notin Spoken
    <3>1. q[l + 1] = d /\ v \notin Spoken
      BY <1>5, <1>7 DEF StopReasons, Spoken
    <3>2. q[l + 2].kind = "none"
      BY <1>5 DEF MessageStop, Frame
    <3> QED
      BY <1>8, <3>1, <3>2 DEF Spoken
  <2>3. ASSUME NEW k \in n + 1 .. Len(q) PROVE q[k].kind \notin Spoken
    <3>1. k \in n + 1 .. l \/ k = l + 1 \/ k = l + 2
      BY <1>5, <2>3
    <3>2. CASE k \in n + 1 .. l
      <4>1. k \in 1 .. l
        BY <3>2
      <4> QED
        BY <1>4, <1>5, <2>1, <3>2, <4>1 DEF Mum
    <3> QED
      BY <2>2, <3>1, <3>2
  <2> QED
    BY <2>3 DEF Mum
<1>11. w # <<>> => s.win.matched = w
  BY DEF Sealed
<1> QED
  BY <1>1, <1>2, <1>3, <1>4, <1>5, <1>6, <1>7, <1>8, <1>9, <1>10, <1>11

-----------------------------------------------------------------------------
(* The invariant: besides IInv, a window that fired is spent, a turn that  *)
(* speaks has been heard, the usage owed to the client is the pending one  *)
(* until the message stops, and a completed body bills it.                 *)
Bills(s, h) ==
  \E u \in Usages : s \in Sealed(<<>>, 0, u) /\ (Owing(h) => u = Latest(h).usage)

CInv ==
  /\ IInv
  /\ Spent(st.win)
  /\ st \in Speaking => st.out # <<>>
  /\ ~st.message_stopped /\ Owing(heard) => st.pending_usage = Latest(heard).usage
  /\ Complete(st.out) => Bills(st, heard)

LEMMA SealedWeaken ==
  ASSUME NEW w, NEW n \in Nat, NEW u, NEW s \in Sealed(w, n, u)
  PROVE  s \in Sealed(<<>>, 0, u)
<1>1. PICK o \in Seq(Speech), v \in StopReasons, x \in Nat :
        /\ s.out = Sealing(o, s.win.matched, v, u, x)
        /\ s.win.matched # <<>> => v = "stop_sequence"
  BY DEF Sealed
<1>2. 0 <= Len(o)
  OBVIOUS
<1> QED
  BY <1>1, <1>2 DEF Sealed

(* What a chunk does to a running turn that keeps the invariant *)
Followed(s, c, t) ==
  /\ t \in Answers(s.pending_usage, s.win.matched, Len(s.out), c)
  /\ t \in Speaking => t.out # <<>>

LEMMA ChunkFollowed ==
  ASSUME NEW s \in Silent \cup Speaking, Spent(s.win), s \in Speaking => s.out # <<>>,
         NEW c \in CanonChunk
  PROVE  Followed(s, c, chunk_to_sse_events(s, c))
<1>1. Len(s.out) \in Nat
  <2>1. s.out \in Seq(Speech)
    BY EmptySeq DEF Silent, Speaking
  <2> QED
    BY <2>1
<1>2. PICK t : t = chunk_to_sse_events(s, c)
  OBVIOUS
<1>3. t \in Answers(s.pending_usage, s.win.matched, Len(s.out), c)
  BY <1>1, <1>2, PreambleHeld, ChunkAnswers
<1>4. t \in Answers(s.pending_usage, <<>>, 1, c)
  BY <1>2, PreambleHeld, ChunkAnswers
<1>5. ASSUME t \in Speaking PROVE t.out # <<>>
  <2>1. t \notin Sealed(<<>>, 1, c.usage)
    BY <1>5 DEF Sealed, Speaking
  <2>2. \E p : t \in Held(p, <<>>, 1)
    BY <1>4, <2>1 DEF Answers
  <2>3. 1 <= Len(t.out)
    BY <2>2 DEF Held
  <2> QED
    BY <2>3, EmptySeq
<1> QED
  BY <1>2, <1>3, <1>5 DEF Followed

LEMMA InitCInv == Init => CInv
<1> SUFFICES ASSUME Init PROVE CInv
  OBVIOUS
<1>1. IInv
  BY InitIInv
<1>2. st.out = <<>> /\ st.win.matched = <<>> /\ st.first
  BY DEF Init, NewState, NewWindow
<1>3. st \notin Speaking
  BY <1>2 DEF Speaking
<1>4. Given(heard) = {}
  BY DEF Init, Given
<1> QED
  BY <1>1, <1>2, <1>3, <1>4 DEF CInv, Spent, Owing, Complete

LEMMA StepCInv == CInv /\ [Next]_vars => CInv'
<1> SUFFICES ASSUME CInv, [Next]_vars PROVE CInv'
  OBVIOUS
<1>1. /\ IInv /\ IInv' /\ Spent(st.win)
      /\ st \in Reachable /\ heard \in Seq(Chunks)
  BY StepIInv DEF CInv, IInv
<1>2. ASSUME NEW c \in Chunks, Chunk(c), ~st.message_stopped PROVE CInv'
  <2>1. c \in CanonChunk /\ c.usage \in Usages
    BY ChunksAssumption DEF CanonChunk
  <2>2. st \in Silent \cup Speaking /\ (st \in Speaking => st.out # <<>>)
    BY <1>1, <1>2, ReachableParts DEF CInv
  <2>3. heard' = Append(heard, c) /\ st' = chunk_to_sse_events(st, c)
    BY <1>2 DEF Chunk
  <2>4. Followed(st, c, st')
    BY <1>1, <2>1, <2>2, <2>3, ChunkFollowed
  <2>5. IF c.usage.given THEN Given(heard') # {} /\ Latest(heard') = c
        ELSE /\ Given(heard') # {} <=> Given(heard) # {}
             /\ Given(heard) # {} => Latest(heard') = Latest(heard)
    BY <1>1, <2>3, LatestAppend
  <2>6. Len(st.out) \in Nat
    <3>1. st.out \in Seq(Speech)
      BY <2>2, EmptySeq DEF Silent, Speaking
    <3> QED
      BY <3>1
  <2>7. CASE st' \in Sealed(st.win.matched, Len(st.out), c.usage) /\ c.usage.given
    <3>1. st' \in Sealed(<<>>, 0, c.usage)
      BY <2>6, <2>7, SealedWeaken
    <3>2. st'.message_stopped /\ Spent(st'.win) /\ st' \notin Speaking
      BY <2>7 DEF Sealed, Speaking
    <3>3. Bills(st', heard')
      BY <2>1, <2>5, <2>7, <3>1 DEF Bills
    <3> QED
      BY <1>1, <3>2, <3>3 DEF CInv
  <2>8. CASE /\ is_trailer(c) /\ st' \in Held(c.usage, st.win.matched, Len(st.out))
    <3>1. st' \in Speaking /\ Spent(st'.win) /\ st'.pending_usage = c.usage
      BY <2>8 DEF Held
    <3>2. Latest(heard') = c
      BY <2>5, <2>8 DEF is_trailer
    <3>3. ~Complete(st'.out)
      BY <3>1, SpeakingGoesOn
    <3> QED
      BY <1>1, <2>4, <3>1, <3>2, <3>3 DEF CInv, Followed
  <2>9. CASE /\ ~is_trailer(c) /\ (c.usage.given => c.finish = "none")
             /\ st' \in Held(st.pending_usage, st.win.matched, Len(st.out))
    <3>1. st' \in Speaking /\ Spent(st'.win) /\ st'.pending_usage = st.pending_usage
      BY <2>9 DEF Held
    <3>2. Owing(heard') => Owing(heard) /\ Latest(heard') = Latest(heard)
      BY <2>5, <2>9 DEF Owing
    <3>3. ~Complete(st'.out)
      BY <3>1, SpeakingGoesOn
    <3>4. Owing(heard') => st'.pending_usage = Latest(heard').usage
      BY <1>2, <3>1, <3>2 DEF CInv
    <3> QED
      BY <1>1, <2>4, <3>1, <3>3, <3>4 DEF CInv, Followed
  <2>10. is_trailer(c) => c.usage.given
    BY DEF is_trailer
  <2> QED
    BY <2>4, <2>7, <2>8, <2>9, <2>10 DEF Followed, Answers
<1>3. ASSUME NEW c \in Chunks, Chunk(c), st.message_stopped PROVE CInv'
  <2>1. st' = st /\ heard' = heard
    BY <1>3 DEF Chunk, chunk_to_sse_events
  <2> QED
    BY <1>1, <2>1 DEF CInv
<1>4. ASSUME Fail PROVE CInv'
  <2>1. st \in StateSet /\ st.out \in Seq(Frames)
    BY <1>1, ReachableParts DEF StateSet
  <2>2. st' = Push([st EXCEPT !.message_stopped = TRUE], ErrorFrame)
    BY <1>4 DEF Fail
  <2>3. st'.message_stopped /\ st'.win = st.win /\ st'.out = Append(st.out, ErrorFrame)
    BY <2>1, <2>2 DEF Push, StateSet
  <2>4. ~Complete(st'.out)
    <3>1. PICK q \in Seq(Frames) : q = Append(st.out, ErrorFrame) /\ q[Len(q)] = ErrorFrame
      BY <2>1, FrameTypes, GrowByOne
    <3>2. q[Len(q)].ev = "error"
      BY <3>1 DEF ErrorFrame, Frame
    <3> QED
      BY <2>3, <3>1, <3>2 DEF Complete
  <2>5. st' \notin Speaking
    BY <2>3 DEF Speaking
  <2> QED
    BY <1>1, <2>3, <2>4, <2>5 DEF CInv
<1>5. ASSUME End PROVE CInv'
  <2>1. st' = finalize_stream(st) /\ heard' = heard
    BY <1>5 DEF End
  <2>2. CASE st.message_stopped
    <3>1. st' = st
      BY <2>1, <2>2 DEF finalize_stream
    <3> QED
      BY <1>1, <2>1, <3>1 DEF CInv
  <2>3. CASE st \in Silent
    <3>1. st' = [st EXCEPT !.message_stopped = TRUE] /\ st.out = <<>>
      BY <2>1, <2>3 DEF finalize_stream, Silent
    <3>2. st'.message_stopped /\ st'.win = st.win /\ st'.out = <<>>
      BY <2>3, <3>1 DEF Silent, StateSet
    <3> QED
      BY <1>1, <3>2 DEF CInv, Complete, Speaking
  <2>4. CASE st \in Speaking
    <3>1. st' \in Sealed(st.win.matched, Len(st.out), st.pending_usage)
      BY <1>1, <2>1, <2>4, FinalizeSeals
    <3>2. Len(st.out) \in Nat
      <4>1. st.out \in Seq(Speech)
        BY <2>4, SpeakingFields
      <4> QED
        BY <4>1
    <3>3. st' \in Sealed(<<>>, 0, st.pending_usage)
      BY <3>1, <3>2, SealedWeaken
    <3>4. st'.message_stopped /\ Spent(st'.win) /\ st' \notin Speaking
      BY <3>1 DEF Sealed, Speaking
    <3>5. st.pending_usage \in Usages /\ ~st.message_stopped
      BY <2>4, SpeakingFields
    <3>6. Bills(st', heard')
      BY <2>1, <3>3, <3>5 DEF Bills, CInv
    <3> QED
      BY <1>1, <3>4, <3>6 DEF CInv
  <2> QED
    BY <1>1, <2>2, <2>3, <2>4, ReachableParts
<1>6. ASSUME UNCHANGED vars PROVE CInv'
  BY <1>1, <1>6 DEF CInv, vars
<1> QED
  BY <1>2, <1>3, <1>4, <1>5, <1>6 DEF Next

(* The strengthened invariant holds of every behaviour *)
THEOREM ContentInvariance == Spec => []CInv
<1> QED
  BY InitCInv, StepCInv, PTL DEF Spec

LEMMA CompletedParts ==
  ASSUME CInv, Completed
  PROVE  \E u \in Usages : /\ st \in Sealed(<<>>, 0, u)
                           /\ Owing(heard) => u = Latest(heard).usage
  BY DEF CInv, Completed, Complete, out, Bills

(* The counters of the last usage report reach the terminal frame, split   *)
(* into fresh and cached input, whichever chunk brought them and whichever *)
(* of trailer, finish chunk and finalizer sends them, for every set of     *)
(* chunks and bound (trailer, finish_section, finalize_stream, wire_input).*)
THEOREM UsageAlwaysSurvives == Spec => []UsageSurvives
<1>1. CInv => UsageSurvives
  <2> SUFFICES ASSUME CInv, Completed, Reports # {},
                      LastReport.finish # "none" \/ is_trailer(LastReport)
               PROVE  Billed(out[Len(out) - 1].usage, LastReport.usage)
    BY DEF UsageSurvives
  <2>1. Reports = Given(heard) /\ LastReport = Latest(heard)
    BY DEF Reports, LastReport, Given, Latest
  <2>2. Owing(heard)
    BY <2>1 DEF Owing
  <2>3. PICK u \in Usages : st \in Sealed(<<>>, 0, u) /\ u = Latest(heard).usage
    BY <2>2, CompletedParts
  <2>4. Billed(st.out[Len(st.out) - 1].usage, u)
    BY <2>3, SealedParts
  <2> QED
    BY <2>1, <2>3, <2>4 DEF out
<1> QED
  BY <1>1, ContentInvariance, PTL

Unsaid(s, t) == s.win.matched # <<>> => t.win.matched = s.win.matched /\ Mum(t.out, Len(s.out))

LEMMA UnsaidSealed ==
  ASSUME NEW s, Len(s.out) \in Nat, NEW u \in Usages,
         NEW t \in Sealed(s.win.matched, Len(s.out), u)
  PROVE  Unsaid(s, t)
  BY SealedParts DEF Unsaid

LEMMA UnsaidSame ==
  ASSUME NEW s, Len(s.out) \in Nat, NEW t, t.win = s.win, t.out = s.out
  PROVE  Unsaid(s, t)
  BY DEF Unsaid, Mum

LEMMA StepUnsaid == CInv /\ [Next]_vars => Unsaid(st, st')
<1> SUFFICES ASSUME CInv, [Next]_vars PROVE Unsaid(st, st')
  OBVIOUS
<1>1. st \in Reachable /\ Spent(st.win)
  BY DEF CInv, IInv
<1>2. st \in StateSet /\ st.out \in Seq(Frames) /\ Len(st.out) \in Nat
  BY <1>1, ReachableParts DEF StateSet
<1>3. CASE st' = st
  BY <1>2, <1>3, UnsaidSame
<1>4. ASSUME NEW c \in Chunks, Chunk(c), ~st.message_stopped PROVE Unsaid(st, st')
  <2>1. c \in CanonChunk /\ c.usage \in Usages
    BY ChunksAssumption DEF CanonChunk
  <2>2. st \in Silent \cup Speaking /\ (st \in Speaking => st.out # <<>>)
    BY <1>1, <1>4, ReachableParts DEF CInv
  <2>3. st' \in Answers(st.pending_usage, st.win.matched, Len(st.out), c)
    BY <1>1, <1>4, <2>1, <2>2, ChunkFollowed DEF Chunk, Followed
  <2>4. CASE st' \in Sealed(st.win.matched, Len(st.out), c.usage)
    BY <1>2, <2>1, <2>4, UnsaidSealed
  <2>5. ASSUME NEW p, st' \in Held(p, st.win.matched, Len(st.out)) PROVE Unsaid(st, st')
    BY <2>5 DEF Held, Unsaid
  <2> QED
    BY <2>3, <2>4, <2>5 DEF Answers
<1>5. ASSUME NEW c \in Chunks, Chunk(c), st.message_stopped PROVE Unsaid(st, st')
  BY <1>3, <1>5 DEF Chunk, chunk_to_sse_events
<1>6. ASSUME Fail PROVE Unsaid(st, st')
  <2>1. st' = Push([st EXCEPT !.message_stopped = TRUE], ErrorFrame)
    BY <1>6 DEF Fail
  <2>2. st'.win = st.win /\ st'.out = Append(st.out, ErrorFrame)
    BY <1>2, <2>1 DEF Push, StateSet
  <2>3. PICK q \in Seq(Frames) :
          /\ q = Append(st.out, ErrorFrame) /\ Len(q) = Len(st.out) + 1 /\ q[Len(q)] = ErrorFrame
    BY <1>2, FrameTypes, GrowByOne
  <2>4. ErrorFrame.kind = "none"
    BY DEF ErrorFrame, Frame
  <2>5. Mum(q, Len(st.out))
    <3>1. \A k \in Len(st.out) + 1 .. Len(q) : k = Len(q)
      BY <1>2, <2>3
    <3> QED
      BY <2>3, <2>4, <3>1 DEF Mum, Spoken
  <2> QED
    BY <2>2, <2>3, <2>5 DEF Unsaid
<1>7. ASSUME End PROVE Unsaid(st, st')
  <2>1. st' = finalize_stream(st)
    BY <1>7 DEF End
  <2>2. CASE st.message_stopped
    BY <1>3, <2>1, <2>2 DEF finalize_stream
  <2>3. CASE st \in Silent
    <3>1. st' = [st EXCEPT !.message_stopped = TRUE]
      BY <2>1, <2>3 DEF finalize_stream, Silent
    <3>2. st'.win = st.win /\ st'.out = st.out
      BY <1>2, <3>1 DEF StateSet
    <3> QED
      BY <1>2, <3>2, UnsaidSame
  <2>4. CASE st \in Speaking
    BY <1>1, <1>2, <2>1, <2>4, FinalizeSeals, UnsaidSealed, SpeakingFields
  <2> QED
    BY <1>1, <2>2, <2>3, <2>4, ReachableParts
<1>8. CASE UNCHANGED vars
  BY <1>3, <1>8 DEF vars
<1> QED
  BY <1>4, <1>5, <1>6, <1>7, <1>8 DEF Next

(* What fired does not come back, for every list of stop sequences, set of  *)
(* chunks and bound: from the step that fired on no text and no thinking   *)
(* is sent, the sequence is not replaced by another, and a completed turn  *)
(* names it as its verdict (feed, flush_stop_tail, emit_terminal).         *)
THEOREM FiringStays == Spec => FiringIsFinal
<1> DEFINE Step == st.win.matched # <<>> =>
                     /\ st'.win.matched = st.win.matched
                     /\ \A k \in Len(st.out) + 1 .. Len(st'.out) :
                          st'.out[k].kind \notin {"text_delta", "thinking_delta"}
           Verdict == Completed /\ st.win.matched # <<>> =>
                        /\ out[Len(out) - 1].kind = "stop_sequence"
                        /\ out[Len(out) - 1].text = st.win.matched
<1>1. CInv /\ [Next]_vars => Step
  BY StepUnsaid, Zenon DEF Unsaid, Mum, Spoken
<1>2. CInv => Verdict
  <2> SUFFICES ASSUME CInv, Completed, st.win.matched # <<>>
               PROVE  /\ out[Len(out) - 1].kind = "stop_sequence"
                      /\ out[Len(out) - 1].text = st.win.matched
    OBVIOUS
  <2>1. PICK u \in Usages : st \in Sealed(<<>>, 0, u)
    BY CompletedParts
  <2> QED
    BY <2>1, SealedParts DEF out
<1> HIDE DEF Step, Verdict
<1>3. CInv /\ [Next]_vars => [Step]_vars
  BY <1>1
<1>4. Spec => [][Step]_vars /\ []Verdict
  BY <1>2, <1>3, ContentInvariance, PTL DEF Spec
<1>5. QED
  BY <1>4 DEF FiringIsFinal, Step, Verdict

-----------------------------------------------------------------------------
(* What the client of TurnStream has been told by body o *)
Told(o) ==
  CASE o = <<>>                                 -> "nothing"
    [] o # <<>> /\ o[Len(o)].ev = "error"       -> "failed"
    [] o # <<>> /\ o[Len(o)].ev = "message_stop" -> "complete"
    [] OTHER                                    -> "speaking"

Body(p) == IF p = "closed" THEN "closed" ELSE "open"

(* A step of TurnStream, or none *)
TurnStep(x, y, b, c) ==
  \/ x = y /\ b = c
  \/ b = "open" /\ c = b /\ x \in {"nothing", "speaking"} /\ y \in {"speaking", "complete", "failed"}
  \/ b = "open" /\ c = "closed" /\ x # "speaking" /\ y = x
  \/ b = "open" /\ c = "closed" /\ x \in {"nothing", "speaking"} /\ y = "complete"

LEMMA TurnMapping ==
  ASSUME TurnStep(Told(st.out), Told(st'.out), Body(pump), Body(pump'))
  PROVE  [Turns!Next]_(Turns!turn)
<1>1. Told(st.out) = CASE out = <<>>                         -> "nothing"
            [] out # <<>> /\ out[Len(out)].ev = "error" -> "failed"
            [] Completed                          -> "complete"
            [] OTHER                              -> "speaking"
  BY DEF Told, out, Completed
<1>2. Told(st'.out) = (CASE out = <<>>                         -> "nothing"
            [] out # <<>> /\ out[Len(out)].ev = "error" -> "failed"
            [] Completed                          -> "complete"
            [] OTHER                              -> "speaking")'
  BY DEF Told, out, Completed
<1> QED
  BY <1>1, <1>2, Zenon DEF TurnStep, Body, Turns!Next, Turns!turn, Turns!Speak, Turns!Complete,
     Turns!Fail, Turns!Close, Turns!Unfinished

LEMMA ToldCases ==
  ASSUME NEW s
  PROVE  /\ s \in Silent => Told(s.out) = "nothing"
         /\ s \in Speaking /\ s.out # <<>> => Told(s.out) = "speaking"
         /\ Complete(s.out) => Told(s.out) = "complete"
         /\ s \in Quiet => Told(s.out) # "speaking"
<1>1. s \in Speaking /\ s.out # <<>> => s.out[Len(s.out)].ev \notin {"message_stop", "error"}
  BY SpeakingGoesOn
<1>2. ASSUME s \in Quiet, s.out # <<>> PROVE s.out[Len(s.out)].ev \in {"message_stop", "error"}
  <2>1. PICK o : o = s.out /\ Ends(o)
    BY <1>2 DEF Quiet
  <2>2. PICK n \in Nat : n = Len(o)
    BY <2>1 DEF Ends
  <2>3. n # 0
    BY <2>1, <2>2, EmptySeq DEF Ends
  <2>4. n \in 1 .. Len(o)
    BY <2>2, <2>3
  <2>5. IsTerminal(o[n])
    BY <2>1, <2>2, <2>4 DEF Ends
  <2> QED
    BY <2>1, <2>2, <2>5 DEF IsTerminal
<1>3. s \in Speaking /\ s.out # <<>> => Told(s.out) = "speaking"
  BY <1>1 DEF Told
<1>4. Complete(s.out) => Told(s.out) = "complete"
  BY DEF Told, Complete
<1>5. s \in Quiet => Told(s.out) # "speaking"
  BY <1>2 DEF Told
<1> QED
  BY <1>3, <1>4, <1>5 DEF Silent, Told

(* A running turn has said nothing yet or speaks *)
LEMMA StillSpeaking ==
  ASSUME NEW s \in Silent \cup Speaking, s \in Speaking => s.out # <<>>
  PROVE  Told(s.out) \in {"nothing", "speaking"}
  BY ToldCases

LEMMA StepTurn ==
  ASSUME ~LateErrors, CInv, [Next]_vars
  PROVE  TurnStep(Told(st.out), Told(st'.out), Body(pump), Body(pump'))
<1> DEFINE Goal == TurnStep(Told(st.out), Told(st'.out), Body(pump), Body(pump'))
<1>1. /\ st \in Reachable /\ Spent(st.win)
      /\ pump \in {"open", "failed", "closed"} /\ (pump # "open" => st.message_stopped)
      /\ st \in Speaking => st.out # <<>>
  BY DEF CInv, IInv
<1>2. CASE st' = st /\ pump' = pump
  BY <1>2 DEF TurnStep
<1>3. ~st.message_stopped => /\ st \in Silent \cup Speaking
                             /\ Told(st.out) \in {"nothing", "speaking"}
  BY <1>1, ReachableParts, StillSpeaking
<1>4. ASSUME NEW c \in Chunks, Chunk(c), ~st.message_stopped PROVE Goal
  <2>1. c \in CanonChunk /\ c.usage \in Usages
    BY ChunksAssumption DEF CanonChunk
  <2>2. pump = "open" /\ pump' = pump /\ st' = chunk_to_sse_events(st, c)
    BY <1>4 DEF Chunk
  <2>3. Followed(st, c, st')
    BY <1>1, <1>3, <1>4, <2>1, <2>2, ChunkFollowed
  <2>4. Len(st.out) \in Nat
    <3>1. st.out \in Seq(Frames)
      BY <1>1, ReachableParts DEF StateSet
    <3> QED
      BY <3>1
  <2>5. Told(st'.out) \in {"speaking", "complete"}
    <3>1. CASE st' \in Sealed(st.win.matched, Len(st.out), c.usage)
      BY <2>1, <2>4, <3>1, SealedParts, ToldCases
    <3>2. ASSUME NEW p, st' \in Held(p, st.win.matched, Len(st.out))
          PROVE  Told(st'.out) \in {"speaking", "complete"}
      <4>1. st' \in Speaking
        BY <3>2 DEF Held
      <4>2. st'.out # <<>>
        BY <2>3, <4>1 DEF Followed
      <4> QED
        BY <4>1, <4>2, ToldCases
    <3> QED
      BY <2>3, <3>1, <3>2 DEF Followed, Answers
  <2> QED
    BY <1>3, <1>4, <2>2, <2>5 DEF TurnStep, Body
<1>5. ASSUME NEW c \in Chunks, Chunk(c), st.message_stopped PROVE Goal
  BY <1>2, <1>5 DEF Chunk, chunk_to_sse_events
<1>6. ASSUME Fail PROVE Goal
  <2>1. /\ ~st.message_stopped /\ pump = "open" /\ pump' = "failed"
        /\ st' = Push([st EXCEPT !.message_stopped = TRUE], ErrorFrame)
    BY <1>6 DEF Fail
  <2>2. st \in StateSet /\ st.out \in Seq(Frames)
    BY <1>1, ReachableParts DEF StateSet
  <2>3. st'.out = Append(st.out, ErrorFrame)
    BY <2>1, <2>2 DEF Push, StateSet
  <2>4. PICK q \in Seq(Frames) : q = Append(st.out, ErrorFrame) /\ q[Len(q)] = ErrorFrame
                                 /\ Len(q) = Len(st.out) + 1
    BY <2>2, FrameTypes, GrowByOne
  <2>5. q # <<>> /\ q[Len(q)].ev = "error"
    BY <2>2, <2>4, EmptySeq DEF ErrorFrame, Frame
  <2>6. Told(st'.out) = "failed"
    BY <2>3, <2>4, <2>5 DEF Told
  <2> QED
    BY <1>3, <2>1, <2>6 DEF TurnStep, Body
<1>7. ASSUME End PROVE Goal
  <2>1. st' = finalize_stream(st) /\ pump # "closed" /\ pump' = "closed"
    BY <1>7 DEF End
  <2>2. Body(pump) = "open" /\ Body(pump') = "closed"
    BY <2>1 DEF Body
  <2>3. CASE st.message_stopped
    <3>1. st' = st /\ st \in Quiet
      BY <1>1, <2>1, <2>3, ReachableParts DEF finalize_stream
    <3>2. Told(st.out) # "speaking"
      BY <3>1, ToldCases
    <3> QED
      BY <2>2, <3>1, <3>2 DEF TurnStep
  <2>4. CASE st \in Silent
    <3>1. st' = [st EXCEPT !.message_stopped = TRUE] /\ st \in StateSet
      BY <2>1, <2>4 DEF finalize_stream, Silent
    <3>2. st'.out = st.out
      BY <3>1 DEF StateSet
    <3>3. Told(st.out) = "nothing"
      BY <2>4, ToldCases
    <3> QED
      BY <2>2, <3>2, <3>3 DEF TurnStep
  <2>5. CASE st \in Speaking
    <3>1. st' \in Sealed(st.win.matched, Len(st.out), st.pending_usage)
      BY <1>1, <2>1, <2>5, FinalizeSeals
    <3>2. st.pending_usage \in Usages /\ Len(st.out) \in Nat
      <4>1. st.out \in Seq(Speech) /\ st.pending_usage \in Usages
        BY <2>5, SpeakingFields
      <4> QED
        BY <4>1
    <3>3. Told(st'.out) = "complete"
      BY <3>1, <3>2, SealedParts, ToldCases
    <3>4. Told(st.out) \in {"nothing", "speaking"}
      BY <1>1, <2>5, StillSpeaking
    <3> QED
      BY <2>2, <3>3, <3>4 DEF TurnStep
  <2> QED
    BY <1>1, <2>3, <2>4, <2>5, ReachableParts
<1> QED
  BY <1>2, <1>4, <1>5, <1>6, <1>7 DEF Next, vars

(* The Anthropic surface implements the safety part of TurnStream for every *)
(* list of stop sequences, set of chunks and bound: the client is told one  *)
(* terminal, nothing after it, and the body closes on a turn that spoke     *)
(* only once it has it, provided the source does not fail after the turn    *)
(* was completed (anthropic_stream_response, sse_response).                 *)
THEOREM TurnsImplemented == ~LateErrors => (Spec => Turns!Safety)
<1>1. Init => Turns!Init
  <2>1. Init => st.out = <<>> /\ pump = "open"
    BY DEF Init, NewState
  <2>2. st.out = <<>> /\ pump = "open" => Turns!Init
    BY DEF Turns!Init, out, Completed
  <2> QED
    BY <2>1, <2>2
<1>2. ~LateErrors => (CInv /\ [Next]_vars => [Turns!Next]_(Turns!turn))
  BY StepTurn, TurnMapping
<1>3. SUFFICES ASSUME ~LateErrors PROVE Spec => Turns!Safety
  OBVIOUS
<1>4. CInv /\ [Next]_vars => [Turns!Next]_(Turns!turn)
  BY <1>2, <1>3
<1> QED
  BY <1>1, <1>4, ContentInvariance, PTL DEF Spec, Turns!Safety

-----------------------------------------------------------------------------
(* What frames show and what chunks say, without stop sequences *)
Deltas == Seq([kind : ChannelKinds, text : Texts])

DisplayedOf == [f \in Frames |-> Displayed(f)]

ContentOf == [c \in Chunks |-> Content(c)]

LEMMA DeltaTypes ==
  /\ \A kind \in ChannelKinds, t \in Texts : Delta(kind, t) \in Deltas
  /\ DisplayedOf \in [Frames -> Deltas]
  /\ ContentOf \in [Chunks -> Deltas]
  /\ \A f \in Frames : f.kind \in ChannelKinds => DisplayedOf[f] = Delta(f.kind, f.text)
  /\ \A f \in Frames : f.kind \notin ChannelKinds => DisplayedOf[f] = <<>>
  /\ \A c \in Chunks : ContentOf[c] = Content(c)
<1>1. <<>> \in Deltas
  BY EmptySeq DEF Deltas
<1>2. \A kind \in ChannelKinds, t \in Texts : Delta(kind, t) \in Deltas
  BY DEF Delta, Deltas
<1>3. \A f \in Frames : f.text \in Texts
  BY DEF Frames
<1>4. \A f \in Frames : Displayed(f) = IF f.kind \in ChannelKinds THEN Delta(f.kind, f.text) ELSE <<>>
  BY DEF Displayed, ChannelKinds
<1>5. \A f \in Frames : Displayed(f) \in Deltas
  <2> HIDE DEF Deltas
  <2> QED
    BY <1>1, <1>2, <1>3, <1>4
<1>6. \A p, q \in Deltas : p \o q \in Deltas
  BY ConcatProperties DEF Deltas
<1>7. ASSUME NEW c \in Chunks PROVE Content(c) \in Deltas
  <2>1. c.thinking.kind \in {"none", "thinking", "signature"} /\ c.thinking.text \in Texts
        /\ c.delta_text \in Texts
    BY ChunksAssumption DEF CanonChunk
  <2>2. Delta("text_delta", c.delta_text) \in Deltas
    BY <1>2, <2>1 DEF ChannelKinds
  <2>3. Delta(IF c.thinking.kind = "signature" THEN "signature_delta" ELSE "thinking_delta",
              c.thinking.text) \in Deltas
    BY <1>2, <2>1 DEF ChannelKinds
  <2>4. PICK p \in Deltas : p = IF c.delta_text = <<>> THEN <<>> ELSE Delta("text_delta", c.delta_text)
    BY <1>1, <2>2
  <2>5. PICK q \in Deltas :
          q = IF c.thinking.kind = "none" THEN <<>>
              ELSE Delta(IF c.thinking.kind = "signature" THEN "signature_delta"
                         ELSE "thinking_delta", c.thinking.text)
    BY <1>1, <2>3
  <2>6. Content(c) = q \o p
    BY <2>4, <2>5, Zenon DEF Content
  <2> QED
    BY <1>6, <2>6
<1> HIDE DEF Deltas
<1>8. DisplayedOf \in [Frames -> Deltas]
  BY <1>5 DEF DisplayedOf
<1>9. ContentOf \in [Chunks -> Deltas]
  BY <1>7 DEF ContentOf
<1> QED
  BY <1>2, <1>4, <1>8, <1>9 DEF DisplayedOf, ContentOf

(* The deltas of a body *)
Display(o) == Along(DisplayedOf, o)

LEMMA DisplayAppend ==
  ASSUME NEW o \in Seq(Frames), NEW f \in Frames
  PROVE  /\ Display(o) \in Deltas
         /\ f.kind \in ChannelKinds => Display(Append(o, f)) = Display(o) \o Delta(f.kind, f.text)
         /\ f.kind \notin ChannelKinds => Display(Append(o, f)) = Display(o)
<1>1. PICK D : D = [kind : ChannelKinds, text : Texts]
  OBVIOUS
<1>2. DisplayedOf \in [Frames -> Seq(D)]
  BY <1>1, DeltaTypes DEF Deltas
<1>3. Display(o) \in Seq(D)
  BY <1>2, AlongType DEF Display
<1>4. Display(Append(o, f)) = Display(o) \o DisplayedOf[f]
  BY <1>2, AlongAppend, SMTT(60) DEF Display
<1>5. Display(o) \o <<>> = Display(o)
  BY <1>3, ConcatEmptySeq
<1> QED
  BY <1>1, <1>3, <1>4, <1>5, DeltaTypes DEF Deltas

LEMMA DisplayMute ==
  ASSUME NEW o \in Seq(Frames), NEW q \in Seq(Frames),
         \A k \in 1 .. Len(q) : q[k].kind \notin ChannelKinds
  PROVE  Display(o \o q) = Display(o)
<1>1. PICK D : D = [kind : ChannelKinds, text : Texts]
  OBVIOUS
<1>2. DisplayedOf \in [Frames -> Seq(D)]
  BY <1>1, DeltaTypes DEF Deltas
<1>3. \A k \in 1 .. Len(q) : DisplayedOf[q[k]] = <<>>
  <2> TAKE k \in 1 .. Len(q)
  <2>1. q[k] \in Frames
    OBVIOUS
  <2> QED
    BY <2>1, DeltaTypes
<1>4. ~Adds(DisplayedOf, q)
  BY <1>3 DEF Adds
<1> QED
  BY <1>2, <1>4, AlongQuiet DEF Display

(* The states whose body shows d, nothing withheld, and the running ones   *)
(* among them                                                              *)
Plain(d) == {s \in StateSet : s.win.tail = <<>> /\ Display(s.out) = d}

Displaying(d) == Speaking \cap Plain(d)

LEMMA DisplayingSettles ==
  ASSUME NEW d
  PROVE  Settles(Displaying(d))
<1> DEFINE C == Displaying(d)
<1>1. C \subseteq Speaking
  BY DEF Displaying
<1>2. ASSUME NEW s \in C
      PROVE  /\ \A v \in Seq(BOOLEAN) : [s EXCEPT !.blocks = v] \in C
             /\ \A v \in Nat : [s EXCEPT !.thinking_index = v] \in C
             /\ \A v \in Nat : [s EXCEPT !.text_index = v] \in C
             /\ \A v \in Nat : [s EXCEPT !.tool_base_index = v] \in C
             /\ \A v \in Nat : [s EXCEPT !.input_tokens = v] \in C
             /\ \A v \in StopReasons \cup {"none"} : [s EXCEPT !.stop_reason = v] \in C
  <2>1. ASSUME NEW t \in Speaking, t.out = s.out, t.win = s.win PROVE t \in C
    BY <2>1 DEF Displaying, Plain, Speaking
  <2>2. s \in Speaking /\ s \in StateSet
    BY DEF Displaying, Speaking
  <2> HIDE DEF C
  <2>3. ASSUME NEW v \in Seq(BOOLEAN) PROVE [s EXCEPT !.blocks = v] \in C
    BY <2>1, <2>2, SpeakingUpdates DEF StateSet
  <2>4. ASSUME NEW v \in Nat PROVE [s EXCEPT !.thinking_index = v] \in C
    BY <2>1, <2>2, SpeakingUpdates DEF StateSet
  <2>5. ASSUME NEW v \in Nat PROVE [s EXCEPT !.text_index = v] \in C
    BY <2>1, <2>2, SpeakingUpdates DEF StateSet
  <2>6. ASSUME NEW v \in Nat PROVE [s EXCEPT !.tool_base_index = v] \in C
    BY <2>1, <2>2, SpeakingUpdates DEF StateSet
  <2>7. ASSUME NEW v \in Nat PROVE [s EXCEPT !.input_tokens = v] \in C
    BY <2>1, <2>2, SpeakingUpdates DEF StateSet
  <2>8. ASSUME NEW v \in StopReasons \cup {"none"} PROVE [s EXCEPT !.stop_reason = v] \in C
    BY <2>1, <2>2, SpeakingUpdates DEF StateSet
  <2> QED
    BY <2>3, <2>4, <2>5, <2>6, <2>7, <2>8
<1>3. ASSUME NEW s \in C, NEW q \in Seq(Mute) PROVE [s EXCEPT !.out = s.out \o q] \in C
  <2>1. PICK o \in Seq(Speech) : o = s.out
    BY SpeakingFields DEF Displaying
  <2>2. q \in Seq(Speech) /\ q \in Seq(Frames) /\ o \in Seq(Frames)
    BY MuteSeqs, SpeechIsFrames
  <2>3. \A k \in 1 .. Len(q) : q[k].kind \notin ChannelKinds
    <3>1. \A k \in 1 .. Len(q) : q[k] \in Mute
      OBVIOUS
    <3> QED
      BY <3>1 DEF Mute
  <2>4. Display(o \o q) = Display(o)
    BY <2>2, <2>3, DisplayMute
  <2>5. o \o q \in Seq(Speech)
    BY <2>2, ConcatProperties
  <2>6. PICK t \in Speaking : t = [s EXCEPT !.out = o \o q]
    BY <2>5, SpeakingUpdates DEF Displaying
  <2>7. t.out = o \o q /\ t.win = s.win
    BY <2>6 DEF Displaying, Speaking, StateSet
  <2>8. t \in C
    BY <2>1, <2>4, <2>7 DEF Displaying, Plain, Speaking
  <2> QED
    BY <2>1, <2>6, <2>8
<1>4. ASSUME NEW s \in C PROVE flush_stop_tail(s) \in C
  BY DEF flush_stop_tail, HasTail, Displaying, Plain
<1> HIDE DEF C
<1>5. Settles(C)
  BY <1>1, <1>2, <1>3, <1>4 DEF Settles
<1> QED
  BY <1>5 DEF C

LEMMA DisplayingPush ==
  ASSUME NEW d, NEW s \in Displaying(d), NEW i \in Nat, NEW kind \in ChannelKinds, NEW t \in Texts
  PROVE  Push(s, BlockDelta(i, kind, t)) \in Displaying(d \o Delta(kind, t))
<1>1. PICK f \in Speech : f = BlockDelta(i, kind, t)
  BY FrameTypes DEF ChannelKinds, DeltaKinds
<1>2. f.kind = kind /\ f.text = t /\ f \in Frames
  BY <1>1 DEF BlockDelta, Frame, Speech
<1>3. PICK o \in Seq(Speech) : o = s.out
  BY SpeakingFields DEF Displaying
<1>4. o \in Seq(Frames) /\ Display(o) = d
  BY <1>3, SpeechIsFrames DEF Displaying, Plain
<1>5. Display(Append(o, f)) = d \o Delta(kind, t)
  BY <1>2, <1>4, DisplayAppend
<1>6. Append(o, f) \in Seq(Speech)
  BY AppendProperties
<1>7. PICK u \in Speaking : u = [s EXCEPT !.out = Append(o, f)]
  BY <1>6, SpeakingUpdates DEF Displaying
<1>8. u.out = Append(o, f) /\ u.win = s.win
  BY <1>7 DEF Displaying, Speaking, StateSet
<1>9. u \in Displaying(d \o Delta(kind, t))
  BY <1>5, <1>8 DEF Displaying, Plain, Speaking
<1> QED
  BY <1>1, <1>3, <1>7, <1>9 DEF Push

(* Without a window text passes as it is *)
LEMMA DisplayingThinking ==
  ASSUME ~HasWindow, NEW d \in Deltas, NEW s \in Displaying(d), NEW c \in CanonChunk
  PROVE  thinking_section(s, c) \in
           Displaying(d \o (IF c.thinking.kind = "none" THEN <<>>
                            ELSE Delta(IF c.thinking.kind = "signature" THEN "signature_delta"
                                       ELSE "thinking_delta", c.thinking.text)))
<1>1. Settles(Displaying(d)) /\ s \in Speaking
  <2>1. Settles(Displaying(d))
    BY DisplayingSettles
  <2>2. s \in Speaking
    BY DEF Displaying
  <2> QED
    BY <2>1, <2>2
<1>2. CASE c.thinking.kind = "none"
  <2>1. d \o <<>> = d
    BY ConcatEmptySeq DEF Deltas
  <2> QED
    BY <1>2, <2>1 DEF thinking_section
<1>3. CASE c.thinking.kind # "none"
  <2>1. c.thinking.text \in Texts
    BY DEF CanonChunk
  <2>2. s.thinking_index \in Nat \cup {NoIndex} /\ "thinking" \in BlockKinds
    BY <1>1, SpeakingFields DEF BlockKinds
  <2>3. /\ reopen(s, s.thinking_index, "thinking") \in Displaying(d)
        /\ slot(s, s.thinking_index) \in Nat
    BY <1>1, <2>2, SettledReopen
  <2>4. PICK i \in Nat : i = slot(s, s.thinking_index)
    BY <2>3
  <2>5. PICK u \in Displaying(d) : u = reopen(s, s.thinking_index, "thinking")
    BY <2>3
  <2>6. PICK t \in Displaying(d) : t = [u EXCEPT !.thinking_index = i]
    BY <1>1 DEF Settles
  <2>7. PICK kind \in ChannelKinds :
          kind = IF c.thinking.kind = "signature" THEN "signature_delta" ELSE "thinking_delta"
    BY DEF ChannelKinds
  <2>8. Push(t, BlockDelta(i, kind, c.thinking.text)) \in Displaying(d \o Delta(kind, c.thinking.text))
    BY <2>1, DisplayingPush
  <2>9. thinking_section(s, c) = Push(t, BlockDelta(i, kind, c.thinking.text))
    BY <1>3, <2>4, <2>5, <2>6, <2>7, Zenon DEF thinking_section, filtered
  <2> QED
    BY <1>3, <2>7, <2>8, <2>9
<1> QED
  BY <1>2, <1>3

LEMMA DisplayingText ==
  ASSUME ~HasWindow, NEW d \in Deltas, NEW s \in Displaying(d), NEW c \in CanonChunk
  PROVE  text_section(s, c) \in
           Displaying(d \o (IF c.delta_text = <<>> THEN <<>> ELSE Delta("text_delta", c.delta_text)))
<1>1. Settles(Displaying(d)) /\ s \in Speaking
  <2>1. Settles(Displaying(d))
    BY DisplayingSettles
  <2>2. s \in Speaking
    BY DEF Displaying
  <2> QED
    BY <2>1, <2>2
<1>2. CASE c.delta_text = <<>>
  <2>1. d \o <<>> = d
    BY ConcatEmptySeq DEF Deltas
  <2> QED
    BY <1>2, <2>1 DEF text_section
<1>3. CASE c.delta_text # <<>>
  <2>1. c.delta_text \in Texts
    BY DEF CanonChunk
  <2>2. s.text_index \in Nat \cup {NoIndex} /\ "text" \in BlockKinds
    BY <1>1, SpeakingFields DEF BlockKinds
  <2>3. reopen(s, s.text_index, "text") \in Displaying(d) /\ slot(s, s.text_index) \in Nat
    BY <1>1, <2>2, SettledReopen
  <2>4. PICK i \in Nat : i = slot(s, s.text_index)
    BY <2>3
  <2>5. PICK u \in Displaying(d) : u = reopen(s, s.text_index, "text")
    BY <2>3
  <2>6. PICK t \in Displaying(d) : t = [u EXCEPT !.text_index = i]
    BY <1>1 DEF Settles
  <2>7. "text_delta" \in ChannelKinds
    BY DEF ChannelKinds
  <2>8. Push(t, BlockDelta(i, "text_delta", c.delta_text))
          \in Displaying(d \o Delta("text_delta", c.delta_text))
    BY <2>1, <2>7, DisplayingPush
  <2>9. text_section(s, c) = Push(t, BlockDelta(i, "text_delta", c.delta_text))
    BY <1>3, <2>4, <2>5, <2>6, Zenon DEF text_section, filtered
  <2> QED
    BY <1>3, <2>8, <2>9
<1> QED
  BY <1>2, <1>3

(* What emit_terminal makes of a turn whose blocks are closed *)
Terminates(e, t, u, v, q) ==
  /\ e = [t EXCEPT !.out = t.out \o q, !.message_stopped = TRUE]
  /\ Len(q) = 2
  /\ q[1] = MessageDelta(v, t.win.matched, Wired(u, t.input_tokens))
  /\ q[2] = MessageStop
  /\ t.out \o q \in Seq(Frames)

LEMMA TerminalShape ==
  ASSUME NEW s \in Speaking, NEW reason \in StopReasons, NEW u \in Usages,
         NEW t \in Speaking, t = close_block(s, Len(s.blocks))
  PROVE  \E v \in StopReasons, q \in Seq(Frames) :
           Terminates(emit_terminal(s, reason, u), t, u, v, q)
<1>1. PICK v \in StopReasons : v = IF t.win.matched # <<>> THEN "stop_sequence" ELSE reason
  BY DEF StopReasons
<1>2. PICK m \in Texts : m = t.win.matched
  BY SpeakingFields DEF Windows
<1>3. PICK n \in Nat : n = t.input_tokens
  BY SpeakingFields
<1>4. PICK x : x = MessageDelta(v, m, Wired(u, n))
  OBVIOUS
<1>5. PICK y : y = MessageStop
  OBVIOUS
<1>6. x \in Frames /\ y \in Frames
  BY <1>4, <1>5, WireUsageType, FrameTypes DEF Wired, Speech
<1>7. <<x, y>> \in Seq(Frames)
  BY <1>6
<1>8. PICK q \in Seq(Frames) : q = <<x, y>> /\ Len(q) = 2 /\ q[1] = x /\ q[2] = y
  BY <1>7
<1>9. emit_terminal(s, reason, u) = [t EXCEPT !.out = t.out \o q, !.message_stopped = TRUE]
  BY <1>1, <1>2, <1>3, <1>4, <1>5, <1>8, Zenon DEF emit_terminal, Wired
<1>10. t.out \in Seq(Frames)
  BY SpeakingFields, SpeechIsFrames
<1>11. t.out \o q \in Seq(Frames)
  BY <1>10, ConcatProperties
<1>12. x = MessageDelta(v, t.win.matched, Wired(u, t.input_tokens))
  BY <1>2, <1>3, <1>4, Zenon
<1>13. q[1] = x /\ q[2] = y /\ Len(q) = 2
  BY <1>8
<1>14. Terminates(emit_terminal(s, reason, u), t, u, v, q)
  BY <1>5, <1>9, <1>11, <1>12, <1>13, Zenon DEF Terminates
<1> QED
  BY <1>14

LEMMA TerminalMute ==
  ASSUME NEW e, NEW t, NEW u, NEW v \in StopReasons, NEW q, Terminates(e, t, u, v, q)
  PROVE  \A k \in 1 .. Len(q) : q[k].kind \notin ChannelKinds
<1>0. Len(q) = 2
  BY DEF Terminates
<1>1. q[1].kind = v /\ q[2].kind = "none"
  BY DEF Terminates, MessageDelta, MessageStop, Frame
<1>2. q[1].kind \notin ChannelKinds /\ q[2].kind \notin ChannelKinds
  BY <1>1 DEF StopReasons, ChannelKinds
<1>3. \A k \in 1 .. 2 : k = 1 \/ k = 2
  OBVIOUS
<1> QED
  BY <1>0, <1>2, <1>3

LEMMA PlainTerminal ==
  ASSUME NEW d, NEW s \in Displaying(d), NEW reason \in StopReasons, NEW u \in Usages
  PROVE  emit_terminal(s, reason, u) \in Plain(d)
<1>1. s \in Speaking /\ Len(s.blocks) \in Nat
  BY SpeakingFields DEF Displaying
<1>2. PICK t \in Displaying(d) : t = close_block(s, Len(s.blocks))
  BY <1>1, DisplayingSettles, SettledBlocks
<1>3. t \in Speaking
  BY DEF Displaying
<1>4. PICK v \in StopReasons, q \in Seq(Frames) :
        Terminates(emit_terminal(s, reason, u), t, u, v, q)
  BY <1>1, <1>2, <1>3, TerminalShape
<1>5. \A k \in 1 .. Len(q) : q[k].kind \notin ChannelKinds
  BY <1>4, TerminalMute
<1>6. PICK o \in Seq(Frames) : o = t.out
  BY <1>3, SpeakingFields, SpeechIsFrames
<1>7. Display(o \o q) = Display(o)
  BY <1>5, DisplayMute
<1>8. PICK e : e = emit_terminal(s, reason, u)
  OBVIOUS
<1>9. e \in StateSet
  BY <1>1, <1>8, TerminalType DEF Finished
<1>10. e.out = o \o q /\ e.win = t.win
  BY <1>3, <1>4, <1>6, <1>8 DEF Speaking, StateSet, Terminates
<1>11. Display(o) = d /\ t.win.tail = <<>>
  BY <1>6 DEF Displaying, Plain
<1> QED
  BY <1>7, <1>8, <1>9, <1>10, <1>11 DEF Plain

LEMMA PlainFinish ==
  ASSUME NEW d, NEW s \in Displaying(d), NEW c \in CanonChunk
  PROVE  finish_section(s, c) \in Plain(d)
<1>1. CASE c.finish = "none"
  BY <1>1 DEF finish_section, Displaying
<1>2. CASE c.finish # "none"
  <2>1. c.finish \in FinishReasons /\ c.usage \in Usages
    BY <1>2 DEF CanonChunk
  <2>2. PICK sr \in StopReasons : sr = map_stop_reason_outbound(c.finish)
    BY <2>1, ReasonType
  <2>3. emit_terminal(s, sr, c.usage) \in Plain(d)
    BY <2>1, PlainTerminal
  <2>4. [s EXCEPT !.stop_reason = sr] \in Displaying(d)
    BY DisplayingSettles DEF Settles
  <2>5. finish_section(s, c) =
          IF c.usage.given THEN emit_terminal(s, sr, c.usage) ELSE [s EXCEPT !.stop_reason = sr]
    BY <1>2, <2>2 DEF finish_section
  <2> QED
    BY <2>3, <2>4, <2>5 DEF Displaying
<1> QED
  BY <1>1, <1>2

LEMMA PlainTrailer ==
  ASSUME NEW d, NEW s \in Displaying(d), NEW c \in CanonChunk
  PROVE  trailer(s, c) \in Plain(d)
<1>1. c.usage \in Usages /\ s \in Speaking
  BY DEF CanonChunk, Displaying
<1>2. CASE s.stop_reason = "none"
  <2>1. PICK t \in Speaking : t = [s EXCEPT !.pending_usage = c.usage]
    BY <1>1, SpeakingUpdates
  <2>2. t.out = s.out /\ t.win = s.win /\ t \in StateSet
    BY <1>1, <2>1 DEF Speaking, StateSet
  <2>3. t \in Plain(d)
    BY <2>2 DEF Displaying, Plain
  <2> QED
    BY <1>2, <2>1, <2>3 DEF trailer
<1>3. CASE s.stop_reason # "none"
  <2>1. s.stop_reason \in StopReasons
    BY <1>1, <1>3, SpeakingFields
  <2>2. PICK t \in Displaying(d) : t = [s EXCEPT !.stop_reason = "none"]
    BY DisplayingSettles DEF Settles
  <2>3. emit_terminal(t, s.stop_reason, c.usage) \in Plain(d)
    BY <1>1, <2>1, PlainTerminal
  <2> QED
    BY <1>3, <2>2, <2>3 DEF trailer
<1> QED
  BY <1>2, <1>3

LEMMA PreambleDisplays ==
  ASSUME NEW s \in Silent \cup Speaking, NEW d, s \in Plain(d), NEW c \in CanonChunk
  PROVE  preamble(s, c) \in Displaying(d)
<1>1. PICK t \in Speaking : t = preamble(s, c)
  BY PreambleType
<1>2. s \in StateSet /\ t \in StateSet
  BY DEF Plain, Speaking
<1>3. t.win = s.win
  BY <1>1, <1>2 DEF preamble, Push, StateSet
<1>4. PICK o \in Seq(Frames) : o = s.out
  BY <1>2 DEF StateSet
<1>5. Display(t.out) = d
  <2>1. CASE ~s.first
    <3>1. t.out = s.out
      BY <1>1, <1>2, <2>1 DEF preamble, StateSet
    <3> QED
      BY <3>1 DEF Plain
  <2>2. CASE s.first
    <3>1. PICK m \in Nat : m = IF c.input_tokens > 0 THEN c.input_tokens ELSE s.input_tokens
      BY <1>2 DEF CanonChunk, NoTokens, StateSet
    <3>2. PICK f \in Frames : f = MessageStart(m)
      BY FrameTypes DEF Speech
    <3>3. t.out = Append(o, f)
      BY <1>1, <1>2, <1>4, <2>2, <3>1, <3>2 DEF preamble, Push, StateSet
    <3>4. f.kind \notin ChannelKinds
      BY <3>2 DEF MessageStart, Frame, ChannelKinds
    <3>5. Display(o) = d
      BY <1>4 DEF Plain
    <3> QED
      BY <3>3, <3>4, <3>5, DisplayAppend
  <2> QED
    BY <2>1, <2>2
<1> QED
  BY <1>1, <1>2, <1>3, <1>5 DEF Displaying, Plain

LEMMA ChunkDisplays ==
  ASSUME ~HasWindow, NEW d \in Deltas, NEW s \in Silent \cup Speaking, s \in Plain(d),
         NEW c \in CanonChunk
  PROVE  chunk_to_sse_events(s, c) \in Plain(d \o Content(c))
<1>1. ~s.message_stopped
  BY DEF Silent, Speaking
<1>2. PICK t \in Displaying(d) : t = preamble(s, c)
  BY PreambleDisplays
<1>3. CASE is_trailer(c)
  <2>1. trailer(t, c) \in Plain(d)
    BY PlainTrailer
  <2>2. Content(c) = <<>> \o <<>> /\ <<>> \o <<>> = <<>>
    <3>1. <<>> \in Deltas
      BY EmptySeq DEF Deltas
    <3>2. <<>> \o <<>> = <<>>
      BY <3>1, ConcatEmptySeq DEF Deltas
    <3> QED
      BY <1>3, <3>2 DEF Content, is_trailer
  <2>3. d \o Content(c) = d
    BY <2>2, ConcatEmptySeq DEF Deltas
  <2> QED
    BY <1>1, <1>2, <1>3, <2>1, <2>3 DEF chunk_to_sse_events
<1>4. CASE ~is_trailer(c)
  <2>1. c.thinking.kind \in {"none", "thinking", "signature"} /\ c.thinking.text \in Texts
        /\ c.delta_text \in Texts
    BY DEF CanonChunk
  <2>2. PICK e \in Deltas :
          e = IF c.thinking.kind = "none" THEN <<>>
              ELSE Delta(IF c.thinking.kind = "signature" THEN "signature_delta"
                         ELSE "thinking_delta", c.thinking.text)
    <3>1. <<>> \in Deltas
      BY EmptySeq DEF Deltas
    <3>2. c.thinking.text \in Texts
      BY <2>1
    <3>3. \A kind \in ChannelKinds : Delta(kind, c.thinking.text) \in Deltas
      BY <3>2, DeltaTypes
    <3> QED
      BY <3>1, <3>3 DEF ChannelKinds
  <2>3. PICK g \in Deltas : g = IF c.delta_text = <<>> THEN <<>> ELSE Delta("text_delta", c.delta_text)
    <3>1. <<>> \in Deltas
      BY EmptySeq DEF Deltas
    <3>2. \A kind \in ChannelKinds : Delta(kind, c.delta_text) \in Deltas
      BY <2>1, DeltaTypes
    <3> QED
      BY <3>1, <3>2 DEF ChannelKinds
  <2>4. Content(c) = e \o g
    BY <2>2, <2>3, Zenon DEF Content
  <2>5. PICK u \in Displaying(d \o e) : u = thinking_section(t, c)
    BY <2>2, DisplayingThinking
  <2>6. d \o e \in Deltas
    BY ConcatProperties DEF Deltas
  <2>7. PICK v \in Displaying((d \o e) \o g) : v = text_section(u, c)
    BY <2>3, <2>6, DisplayingText
  <2>8. PICK x \in Displaying((d \o e) \o g) : x = tool_section(v, c)
    BY DisplayingSettles, SettledTools
  <2>9. finish_section(x, c) \in Plain((d \o e) \o g)
    BY PlainFinish
  <2>10. (d \o e) \o g = d \o Content(c)
    <3>1. (d \o e) \o g = d \o (e \o g)
      BY ConcatAssociative DEF Deltas
    <3> QED
      BY <2>4, <3>1
  <2> QED
    BY <1>1, <1>2, <1>4, <2>5, <2>7, <2>8, <2>9, <2>10 DEF chunk_to_sse_events
<1> QED
  BY <1>3, <1>4

(* Without stop sequences the body shows what the chunks said *)
OInv ==
  /\ IInv
  /\ ~HasWindow => st \in Plain(Along(ContentOf, heard))

LEMMA HeardContent ==
  ASSUME NEW h \in Seq(Chunks)
  PROVE  /\ Along(ContentOf, h) \in Deltas
         /\ \A c \in Chunks : Along(ContentOf, Append(h, c)) = Along(ContentOf, h) \o Content(c)
<1>1. PICK D : D = [kind : ChannelKinds, text : Texts]
  OBVIOUS
<1>2. ContentOf \in [Chunks -> Seq(D)]
  BY <1>1, DeltaTypes DEF Deltas
<1>3. Along(ContentOf, h) \in Seq(D)
  BY <1>2, AlongType
<1>4. \A c \in Chunks : Along(ContentOf, Append(h, c)) = Along(ContentOf, h) \o ContentOf[c]
  BY <1>2, AlongAppend
<1> QED
  BY <1>1, <1>3, <1>4, DeltaTypes DEF Deltas

LEMMA StepOInv == OInv /\ [Next]_vars => OInv'
<1> SUFFICES ASSUME OInv, [Next]_vars, ~HasWindow PROVE st' \in Plain(Along(ContentOf, heard'))
  BY StepIInv DEF OInv
<1>1. st \in Reachable /\ heard \in Seq(Chunks) /\ st \in Plain(Along(ContentOf, heard))
  BY DEF OInv, IInv
<1>2. PICK d \in Deltas : d = Along(ContentOf, heard)
  BY <1>1, HeardContent
<1>3. ASSUME NEW c \in Chunks, Chunk(c), ~st.message_stopped
      PROVE  st' \in Plain(Along(ContentOf, heard'))
  <2>1. c \in CanonChunk /\ st \in Silent \cup Speaking
    BY <1>1, <1>3, ChunksAssumption, ReachableParts
  <2>2. st' = chunk_to_sse_events(st, c) /\ heard' = Append(heard, c)
    BY <1>3 DEF Chunk
  <2>3. st' \in Plain(d \o Content(c))
    BY <1>1, <1>2, <2>1, <2>2, ChunkDisplays
  <2>4. Along(ContentOf, heard') = d \o Content(c)
    BY <1>1, <1>2, <2>2, HeardContent
  <2> QED
    BY <2>3, <2>4
<1>4. CASE st' = st /\ heard' = heard
  BY <1>1, <1>4
<1>5. ASSUME NEW c \in Chunks, Chunk(c), st.message_stopped
      PROVE  st' \in Plain(Along(ContentOf, heard'))
  BY <1>4, <1>5 DEF Chunk, chunk_to_sse_events
<1>6. ASSUME Fail PROVE st' \in Plain(Along(ContentOf, heard'))
  <2>1. st' = Push([st EXCEPT !.message_stopped = TRUE], ErrorFrame) /\ heard' = heard
    BY <1>6 DEF Fail
  <2>2. PICK o \in Seq(Frames) : o = st.out
    BY <1>1 DEF Plain, StateSet
  <2>3. PICK f \in Frames : f = ErrorFrame
    BY FrameTypes
  <2>4. st'.out = Append(o, f) /\ st'.win = st.win
    BY <1>1, <2>1, <2>2, <2>3 DEF Push, Plain, StateSet
  <2>5. f.kind \notin ChannelKinds
    BY <2>3 DEF ErrorFrame, Frame, ChannelKinds
  <2>6. Display(Append(o, f)) = d
    BY <1>1, <1>2, <2>2, <2>5, DisplayAppend DEF Plain
  <2>7. st' \in StateSet
    <3>1. IInv'
      BY StepIInv DEF OInv
    <3> QED
      BY <3>1, ReachableParts DEF IInv
  <2> QED
    BY <1>1, <1>2, <2>1, <2>4, <2>6, <2>7 DEF Plain
<1>7. ASSUME End PROVE st' \in Plain(Along(ContentOf, heard'))
  <2>1. st' = finalize_stream(st) /\ heard' = heard
    BY <1>7 DEF End
  <2>2. CASE st.message_stopped
    BY <1>4, <2>1, <2>2 DEF finalize_stream
  <2>3. CASE st \in Silent
    <3>1. st' = [st EXCEPT !.message_stopped = TRUE]
      BY <2>1, <2>3 DEF finalize_stream, Silent
    <3>2. st' \in StateSet /\ st'.out = st.out /\ st'.win = st.win
      BY <1>1, <3>1 DEF Plain, StateSet
    <3> QED
      BY <1>1, <2>1, <3>2 DEF Plain
  <2>4. CASE st \in Speaking
    <3>1. PICK reason \in StopReasons :
            reason = IF st.stop_reason = "none" THEN "end_turn" ELSE st.stop_reason
      BY <2>4, SpeakingFields DEF StopReasons
    <3>2. PICK u \in Usages : u = st.pending_usage
      BY <2>4, SpeakingFields
    <3>3. NoUsage \in Usages
      BY DEF NoUsage, Usages
    <3>4. PICK t \in Speaking : t = [st EXCEPT !.stop_reason = "none"]
      BY <2>4, SpeakingUpdates
    <3>5. PICK v \in Speaking : v = [t EXCEPT !.pending_usage = NoUsage]
      BY <3>3, SpeakingUpdates
    <3>6. v = [st EXCEPT !.stop_reason = "none", !.pending_usage = NoUsage]
      BY <2>4, <3>4, <3>5 DEF Speaking, StateSet
    <3>7. v.out = st.out /\ v.win = st.win /\ v \in StateSet
      BY <2>4, <3>6 DEF Speaking, StateSet
    <3>8. v \in Displaying(d)
      BY <1>1, <1>2, <3>7 DEF Displaying, Plain
    <3>9. emit_terminal(v, reason, u) \in Plain(d)
      BY <3>8, PlainTerminal
    <3>10. st' = emit_terminal(v, reason, u)
      BY <2>1, <2>4, <3>1, <3>2, <3>6, SpeakingFields, Zenon DEF finalize_stream
    <3> QED
      BY <1>2, <2>1, <3>9, <3>10
  <2> QED
    BY <1>1, <2>2, <2>3, <2>4, ReachableParts
<1>8. CASE UNCHANGED vars
  BY <1>4, <1>8 DEF vars
<1> QED
  BY <1>3, <1>5, <1>6, <1>7, <1>8 DEF Next

(* Without stop sequences the client receives every thinking, signature    *)
(* and text delta, unaltered, once and in the upstream's order, for every  *)
(* set of chunks and bound (the sections of chunk_to_sse_events).          *)
THEOREM OrderAlwaysKept == Spec => []OrderKept
<1>1. Init => OInv
  <2> SUFFICES ASSUME Init PROVE OInv
    OBVIOUS
  <2>1. IInv /\ st \in StateSet /\ st.out = <<>> /\ st.win.tail = <<>> /\ heard = <<>>
    <3>1. IInv
      BY InitIInv
    <3>2. st \in StateSet
      BY <3>1, ReachableParts DEF IInv
    <3> QED
      BY <3>1, <3>2 DEF Init, NewState, NewWindow
  <2>2. Display(<<>>) = <<>> /\ Along(ContentOf, <<>>) = <<>>
    BY EmptyAlong DEF Display
  <2> QED
    BY <2>1, <2>2 DEF OInv, Plain
<1>2. OInv => OrderKept
  <2> SUFFICES ASSUME OInv, ~HasWindow
               PROVE  FlattenSeq([k \in DOMAIN out |-> Displayed(out[k])])
                        = FlattenSeq([k \in DOMAIN heard |-> Content(heard[k])])
    BY DEF OrderKept
  <2>1. PICK o \in Seq(Frames) : o = out
    BY DEF OInv, Plain, StateSet, out
  <2>2. \A k \in DOMAIN o : DisplayedOf[o[k]] = Displayed(o[k])
    BY DEF DisplayedOf
  <2>3. [k \in DOMAIN o |-> Displayed(o[k])] = Each(DisplayedOf, o)
    BY <2>2, Zenon DEF Each
  <2>4. PICK h \in Seq(Chunks) : h = heard
    BY DEF OInv, IInv
  <2>5. \A k \in DOMAIN h : ContentOf[h[k]] = Content(h[k])
    BY DEF ContentOf
  <2>6. [k \in DOMAIN h |-> Content(h[k])] = Each(ContentOf, h)
    BY <2>5, Zenon DEF Each
  <2>7. Display(o) = Along(ContentOf, h)
    BY <2>1, <2>4 DEF OInv, Plain, out
  <2> QED
    BY <2>1, <2>3, <2>4, <2>6, <2>7 DEF Display, Along
<1> QED
  BY <1>1, <1>2, StepOInv, PTL DEF Spec

-----------------------------------------------------------------------------
(* The two channels of text, and what of them a body shows *)
Channels == {"text", "thinking"}

DeltaOf(ch) == IF ch = "text" THEN "text_delta" ELSE "thinking_delta"

ShownOn(ch) == [f \in Frames |-> IF f.kind = DeltaOf(ch) THEN f.text ELSE <<>>]

ShownBy(o, ch) == Along(ShownOn(ch), o)

LEMMA ShownAppend ==
  ASSUME NEW o \in Seq(Frames), NEW f \in Frames, NEW ch \in Channels
  PROVE  /\ ShownBy(o, ch) \in Texts
         /\ f.kind = DeltaOf(ch) => ShownBy(Append(o, f), ch) = ShownBy(o, ch) \o f.text
         /\ f.kind # DeltaOf(ch) => ShownBy(Append(o, f), ch) = ShownBy(o, ch)
<1>1. \A g \in Frames : g.text \in Seq(Char)
  BY DEF Frames, Texts
<1>2. <<>> \in Seq(Char)
  BY EmptySeq
<1>3. ShownOn(ch) \in [Frames -> Seq(Char)]
  BY <1>1, <1>2 DEF ShownOn
<1>4. ShownOn(ch)[f] = IF f.kind = DeltaOf(ch) THEN f.text ELSE <<>>
  BY DEF ShownOn
<1>5. ShownBy(o, ch) \in Seq(Char)
  BY <1>3, AlongType DEF ShownBy
<1>6. ShownBy(Append(o, f), ch) = ShownBy(o, ch) \o ShownOn(ch)[f]
  <2>1. PICK X : X = Char
    OBVIOUS
  <2>2. PICK G \in [Frames -> Seq(X)] : G = ShownOn(ch)
    BY <1>3, <2>1
  <2>3. Along(G, Append(o, f)) = Along(G, o) \o G[f]
    BY AlongAppend
  <2> QED
    BY <2>2, <2>3, Zenon DEF ShownBy
<1>7. ShownBy(o, ch) \o <<>> = ShownBy(o, ch)
  BY <1>5, ConcatEmptySeq
<1> QED
  BY <1>4, <1>5, <1>6, <1>7 DEF Texts

LEMMA ShownMute ==
  ASSUME NEW o \in Seq(Frames), NEW q \in Seq(Frames), NEW ch \in Channels,
         \A k \in 1 .. Len(q) : q[k].kind \notin Spoken
  PROVE  ShownBy(o \o q, ch) = ShownBy(o, ch)
<1>1. \A g \in Frames : g.text \in Seq(Char)
  BY DEF Frames, Texts
<1>2. <<>> \in Seq(Char)
  BY EmptySeq
<1>3. ShownOn(ch) \in [Frames -> Seq(Char)]
  BY <1>1, <1>2 DEF ShownOn
<1>4. DeltaOf(ch) \in Spoken
  BY DEF DeltaOf, Spoken
<1>5. \A k \in 1 .. Len(q) : ShownOn(ch)[q[k]] = <<>>
  <2> TAKE k \in 1 .. Len(q)
  <2>1. q[k] \in Frames
    OBVIOUS
  <2> QED
    BY <1>4, <2>1 DEF ShownOn
<1>6. ~Adds(ShownOn(ch), q)
  BY <1>5 DEF Adds
<1> QED
  BY <1>3, <1>6, AlongQuiet DEF ShownBy

(* p is how x begins *)
Begins(p, x) == \E r \in Texts : x = p \o r

LEMMA BeginsLaws ==
  ASSUME NEW p \in Texts
  PROVE  /\ Begins(p, p)
         /\ \A r \in Texts : Begins(p, p \o r)
         /\ \A x, z \in Texts : Begins(p, x) => Begins(p, x \o z)
         /\ \A x \in Texts : Begins(p, x) => IsPrefix(p, x)
<1>1. <<>> \in Texts /\ p \o <<>> = p
  BY EmptySeq, ConcatEmptySeq DEF Texts
<1>2. ASSUME NEW x \in Texts, NEW z \in Texts, NEW r \in Texts, x = p \o r
      PROVE  Begins(p, x \o z)
  <2>1. r \o z \in Texts
    BY ConcatText
  <2>2. (p \o r) \o z = p \o (r \o z)
    BY Assoc, SMTT(60)
  <2> QED
    BY <1>2, <2>1, <2>2 DEF Begins
<1>3. ASSUME NEW x \in Texts, NEW r \in Texts, x = p \o r PROVE IsPrefix(p, x)
  <2>1. PICK n \in Nat : n = Len(p)
    BY TextLen
  <2>2. /\ Len(x) = n + Len(r) /\ Len(r) \in Nat
        /\ \A i \in 1 .. n + Len(r) : x[i] = IF i <= n THEN p[i] ELSE r[i - n]
    BY <1>3, <2>1, ConcatText, TextLen
  <2>3. n \in 0 .. Len(x) /\ 1 \in 1 .. Len(x) + 1
    BY <2>2
  <2>4. PICK a : a = SubSeq(x, 1, n)
    OBVIOUS
  <2>5. a \in Texts /\ Len(a) = n /\ \A i \in 1 .. n : a[i] = x[i]
    <3>1. /\ SubSeq(x, 1, n) \in Texts
          /\ Len(SubSeq(x, 1, n)) = IF 1 <= n THEN n - 1 + 1 ELSE 0
          /\ \A i \in 1 .. n - 1 + 1 : SubSeq(x, 1, n)[i] = x[1 + i - 1]
      BY <2>3, PartOfText
    <3> QED
      BY <2>4, <3>1
  <2>6. \A i \in 1 .. n : a[i] = p[i]
    <3> TAKE i \in 1 .. n
    <3>1. i \in 1 .. n + Len(r) /\ i <= n
      BY <2>2
    <3> QED
      BY <2>2, <2>5, <3>1
  <2>7. a = p
    BY <2>1, <2>5, <2>6, SeqEqual DEF Texts
  <2>8. SubSeq(p, 1, n) = p
    BY <2>1, SubSeqFull DEF Texts
  <2> QED
    BY <2>1, <2>2, <2>4, <2>7, <2>8 DEF IsPrefix
<1> QED
  BY <1>1, <1>2, <1>3, ZenonT(60) DEF Begins

(* What the window withholds of a channel *)
Kept(w, ch) == IF w.kind = ch THEN w.tail ELSE <<>>

(* The client has seen the beginning of h on each channel, and until a     *)
(* sequence fires only the withheld tail is missing.                       *)
Survives(w, o, h) ==
  \A ch \in Channels :
    /\ Begins(ShownBy(o, ch), h[ch])
    /\ w.matched = <<>> => h[ch] = ShownBy(o, ch) \o Kept(w, ch)

Hearings == [Channels -> Texts]

-----------------------------------------------------------------------------
(* Blocks that were started *)
Begun(o, i) == \E k \in 1 .. Len(o) : o[k].ev = "content_block_start" /\ o[k].index = i

Fresh(o) ==
  \A j, k \in 1 .. Len(o) :
    /\ o[j].ev = "content_block_start" /\ o[k].ev = "content_block_start"
    /\ o[j].index = o[k].index
    => j = k

LEMMA FreshBefore ==
  ASSUME NEW o, NEW p, Continues(p, o)
  PROVE  /\ Fresh(p) => Fresh(o)
         /\ \A i : Begun(o, i) => Begun(p, i)
<1>1. /\ \A k \in 1 .. Len(o) : p[k] = o[k]
      /\ \A k \in 1 .. Len(o) : k \in 1 .. Len(p)
  BY DEF Continues
<1> QED
  BY <1>1 DEF Fresh, Begun

LEMMA FreshStart ==
  ASSUME NEW o \in Seq(Frames), NEW f \in Frames, f.ev = "content_block_start",
         NEW p, p = Append(o, f), Fresh(p)
  PROVE  ~Begun(o, f.index) /\ Begun(p, f.index) /\ Fresh(o)
<1>1. Continues(p, o) /\ Len(p) = Len(o) + 1 /\ p[Len(p)] = f
  BY GrowByOne
<1>2. Len(o) \in Nat
  OBVIOUS
<1>3. Len(p) \in 1 .. Len(p) /\ \A k \in 1 .. Len(o) : k \in 1 .. Len(p) /\ k # Len(p)
  BY <1>1, <1>2
<1>4. \A k \in 1 .. Len(o) : p[k] = o[k]
  BY <1>1 DEF Continues
<1>5. ~Begun(o, f.index)
  BY <1>1, <1>3, <1>4 DEF Begun, Fresh
<1>6. Begun(p, f.index)
  BY <1>1, <1>3 DEF Begun
<1> QED
  BY <1>1, <1>5, <1>6, FreshBefore

LEMMA ConcatContinues ==
  ASSUME NEW o \in Seq(Frames), NEW q \in Seq(Frames)
  PROVE  Continues(o \o q, o)
<1>1. PICK p \in Seq(Frames) : p = o \o q
  BY ConcatProperties
<1>2. Len(p) = Len(o) + Len(q) /\ Len(o) \in Nat /\ Len(q) \in Nat
  BY <1>1, ConcatProperties
<1>3. \A k \in 1 .. Len(o) + Len(q) : p[k] = IF k <= Len(o) THEN o[k] ELSE q[k - Len(o)]
  BY <1>1, ConcatProperties
<1>4. \A k \in 1 .. Len(o) : k \in 1 .. Len(o) + Len(q) /\ k <= Len(o)
  BY <1>2
<1>5. Continues(p, o)
  BY <1>2, <1>3, <1>4 DEF Continues
<1> QED
  BY <1>1, <1>5

-----------------------------------------------------------------------------
(* The slot of a channel, and where the window can be: what it withholds   *)
(* belongs to the open block of a channel, only one of the channels has an *)
(* open block, and both slots were started in the body.                    *)
Ix(s, ch) == IF ch = "text" THEN s.text_index ELSE s.thinking_index

Anchored(s) ==
  s.win.tail # <<>> =>
    /\ HasWindow /\ s.win.matched = <<>>
    /\ \E ch \in Channels : s.win.block = Ix(s, ch) /\ BlockOpen(s, Ix(s, ch))

Slotted(s, ch) ==
  Ix(s, ch) # NoIndex =>
    /\ Begun(s.out, Ix(s, ch))
    /\ Ix(s, ch) < Len(s.blocks)
    /\ s.win.block = Ix(s, ch) => s.win.kind = ch

Placed(s) ==
  /\ Anchored(s)
  /\ s.win.matched # <<>> => HasWindow
  /\ \A a, b \in Channels : BlockOpen(s, Ix(s, a)) /\ BlockOpen(s, Ix(s, b)) => a = b
  /\ \A ch \in Channels : Slotted(s, ch)
  /\ s.win.block < Len(s.blocks)

Telling(h) == {s \in Speaking : Fresh(s.out) => Placed(s) /\ Survives(s.win, s.out, h)}

(* t goes on where s was: the same slots, and no block of a channel opened *)
Follows(t, s) ==
  /\ t.text_index = s.text_index /\ t.thinking_index = s.thinking_index
  /\ Len(t.blocks) \in Nat /\ Len(s.blocks) \in Nat /\ Len(s.blocks) <= Len(t.blocks)
  /\ \A ch \in Channels : BlockOpen(t, Ix(s, ch)) => BlockOpen(s, Ix(s, ch))
  /\ Continues(t.out, s.out)

LEMMA IxType ==
  ASSUME NEW s \in Speaking, NEW ch \in Channels
  PROVE  /\ Ix(s, ch) \in Nat \cup {NoIndex}
         /\ BlockOpen(s, Ix(s, ch)) => Ix(s, ch) \in Nat
<1>1. Ix(s, ch) \in Nat \cup {NoIndex}
  BY SpeakingFields DEF Ix
<1> QED
  BY <1>1, OpenIsNat

LEMMA PlacedStays ==
  ASSUME NEW s \in Speaking, Placed(s), NEW t \in Speaking, Follows(t, s),
         t.win.block = s.win.block, t.win.kind = s.win.kind, t.win.tail = <<>>,
         t.win.matched = s.win.matched
  PROVE  Placed(t)
<1>1. \A ch \in Channels : Ix(t, ch) = Ix(s, ch)
  BY DEF Ix, Follows
<1>2. s.win.block \in Nat \cup {NoBlock} /\ Len(s.blocks) \in Nat /\ Len(t.blocks) \in Nat
      /\ Len(s.blocks) <= Len(t.blocks)
  BY SpeakingFields DEF Follows, Windows
<1>3. t.win.block < Len(t.blocks)
  BY <1>2 DEF Placed, NoBlock
<1>4. ASSUME NEW ch \in Channels PROVE Slotted(t, ch)
  <2>1. SUFFICES ASSUME Ix(t, ch) # NoIndex
                 PROVE  /\ Begun(t.out, Ix(t, ch)) /\ Ix(t, ch) < Len(t.blocks)
                        /\ t.win.block = Ix(t, ch) => t.win.kind = ch
    BY DEF Slotted
  <2>2. /\ Begun(s.out, Ix(s, ch)) /\ Ix(s, ch) < Len(s.blocks)
        /\ s.win.block = Ix(s, ch) => s.win.kind = ch
    BY <1>1, <2>1 DEF Placed, Slotted
  <2>3. Begun(t.out, Ix(s, ch))
    BY <2>2, FreshBefore DEF Follows
  <2>4. Ix(s, ch) \in Nat
    BY <1>1, <2>1, IxType
  <2> QED
    BY <1>1, <1>2, <2>2, <2>3, <2>4
<1>5. \A a, b \in Channels : BlockOpen(t, Ix(t, a)) /\ BlockOpen(t, Ix(t, b)) => a = b
  BY <1>1 DEF Placed, Follows
<1> QED
  BY <1>3, <1>4, <1>5 DEF Placed, Anchored

(* The same with a window that still withholds *)
LEMMA PlacedSame ==
  ASSUME NEW s \in Speaking, Placed(s), NEW t \in Speaking, t.win = s.win, t.blocks = s.blocks,
         t.text_index = s.text_index, t.thinking_index = s.thinking_index,
         Continues(t.out, s.out)
  PROVE  Placed(t)
<1>1. \A ch \in Channels : Ix(t, ch) = Ix(s, ch)
  BY DEF Ix
<1>2. \A i : BlockOpen(t, i) <=> BlockOpen(s, i)
  BY DEF BlockOpen
<1>3. \A i : Begun(s.out, i) => Begun(t.out, i)
  BY FreshBefore
<1> QED
  BY <1>1, <1>2, <1>3 DEF Placed, Anchored, Slotted

LEMMA TellingOn ==
  ASSUME NEW h, NEW s \in Telling(h), NEW t \in Speaking, t.win = s.win, t.blocks = s.blocks,
         t.text_index = s.text_index, t.thinking_index = s.thinking_index,
         NEW q \in Seq(Speech), t.out = s.out \o q,
         \A k \in 1 .. Len(q) : q[k].kind \notin Spoken
  PROVE  t \in Telling(h)
<1>1. PICK o \in Seq(Frames) : o = s.out
  BY SpeakingFields, SpeechIsFrames DEF Telling
<1>2. q \in Seq(Frames)
  BY SpeechIsFrames
<1>3. Continues(t.out, s.out)
  BY <1>1, <1>2, ConcatContinues
<1>4. SUFFICES ASSUME Fresh(t.out) PROVE Placed(t) /\ Survives(t.win, t.out, h)
  BY DEF Telling
<1>5. Placed(s) /\ Survives(s.win, s.out, h) /\ s \in Speaking
  BY <1>3, <1>4, FreshBefore DEF Telling
<1>6. Placed(t)
  BY <1>3, <1>5, PlacedSame
<1>7. \A ch \in Channels : ShownBy(o \o q, ch) = ShownBy(o, ch)
  BY <1>2, ShownMute
<1> QED
  BY <1>1, <1>5, <1>6, <1>7 DEF Survives

LEMMA TellingSame ==
  ASSUME NEW h, NEW s \in Telling(h), NEW t \in Speaking, t.win = s.win, t.blocks = s.blocks,
         t.text_index = s.text_index, t.thinking_index = s.thinking_index, t.out = s.out
  PROVE  t \in Telling(h)
<1>1. PICK q \in Seq(Speech) : q = <<>> /\ Len(q) = 0
  BY EmptySeq
<1>2. s.out \in Seq(Speech)
  BY SpeakingFields DEF Telling
<1>3. t.out = s.out \o q
  BY <1>1, <1>2, ConcatEmptySeq
<1>4. \A k \in 1 .. Len(q) : q[k].kind \notin Spoken
  BY <1>1
<1> QED
  BY <1>3, <1>4, TellingOn

LEMMA TellingPush ==
  ASSUME NEW h, NEW s \in Telling(h), NEW f \in Speech, f.kind \notin Spoken
  PROVE  Push(s, f) \in Telling(h)
<1>1. s \in Speaking /\ s.out \in Seq(Speech)
  BY SpeakingFields DEF Telling
<1>2. PICK t \in Speaking : t = Push(s, f)
  BY <1>1, PushType
<1>3. <<f>> \in Seq(Speech) /\ Append(s.out, f) = s.out \o <<f>>
  BY <1>1, AppendIsConcat
<1>4. PICK q \in Seq(Speech) : q = <<f>> /\ Len(q) = 1 /\ q[1] = f
  BY <1>3
<1>5. /\ t.win = s.win /\ t.blocks = s.blocks /\ t.out = s.out \o q
      /\ t.text_index = s.text_index /\ t.thinking_index = s.thinking_index
  BY <1>1, <1>2, <1>3, <1>4 DEF Push, Speaking, StateSet
<1>6. \A k \in 1 .. Len(q) : q[k].kind \notin Spoken
  BY <1>4
<1>7. t \in Telling(h)
  BY <1>5, <1>6, TellingOn
<1> QED
  BY <1>2, <1>7

LEMMA KeptType ==
  ASSUME NEW w \in Windows, NEW ch
  PROVE  Kept(w, ch) \in Texts
  BY EmptySeq DEF Kept, Windows, Texts

(* A window with nothing in it says the same of every channel *)
LEMMA SurvivesStays ==
  ASSUME NEW h \in Hearings, NEW w \in Windows, NEW o \in Seq(Frames), Survives(w, o, h),
         NEW v, v.tail = <<>>, w.tail = <<>>, v.matched = w.matched,
         NEW p, \A ch \in Channels : ShownBy(p, ch) = ShownBy(o, ch)
  PROVE  Survives(v, p, h)
<1>1. \A ch : Kept(w, ch) = <<>> /\ Kept(v, ch) = <<>>
  BY DEF Kept
<1> QED
  BY <1>1 DEF Survives

(* What flush_stop_tail makes of a running turn that keeps its text *)
Flushed(t, s, h) ==
  /\ t \in Speaking
  /\ t.win.tail = <<>>
  /\ t.win.block = s.win.block /\ t.win.kind = s.win.kind /\ t.win.matched = s.win.matched
  /\ t.blocks = s.blocks
  /\ t.text_index = s.text_index /\ t.thinking_index = s.thinking_index
  /\ Continues(t.out, s.out)
  /\ Placed(t)
  /\ Survives(t.win, t.out, h)

LEMMA FlushTells ==
  ASSUME NEW h \in Hearings, NEW s \in Speaking, Placed(s), Survives(s.win, s.out, h)
  PROVE  Flushed(flush_stop_tail(s), s, h)
<1>1. PICK w \in Windows : w = s.win
  BY SpeakingFields
<1>2. PICK o \in Seq(Frames) : o = s.out
  BY SpeakingFields, SpeechIsFrames
<1>3. CASE w.tail = <<>>
  <2>1. flush_stop_tail(s) = s
    BY <1>1, <1>3 DEF flush_stop_tail, HasTail
  <2>2. Continues(o, o)
    BY DEF Continues
  <2> QED
    BY <1>1, <1>2, <1>3, <2>1, <2>2 DEF Flushed
<1>4. CASE w.tail # <<>>
  <2>1. PICK ch \in Channels : w.block = Ix(s, ch) /\ BlockOpen(s, Ix(s, ch))
    BY <1>1, <1>4 DEF Placed, Anchored
  <2>2. w.block \in Nat /\ w.matched = <<>>
    BY <1>1, <1>4, <2>1, IxType DEF Placed, Anchored
  <2>3. w.kind = ch
    <3>1. Ix(s, ch) # NoIndex
      BY <2>1, <2>2 DEF NoIndex
    <3> QED
      BY <1>1, <2>1, <3>1 DEF Placed, Slotted
  <2>4. PICK f \in Speech : f = BlockDelta(w.block, DeltaOf(ch), w.tail)
    BY <2>2, FrameTypes DEF DeltaOf, DeltaKinds, Windows
  <2>5. f.kind = DeltaOf(ch) /\ f.text = w.tail /\ f \in Frames
    BY <2>4 DEF BlockDelta, Frame, Speech
  <2>6. PICK v \in Windows : /\ v = TakeTail(w) /\ v.tail = <<>> /\ v.block = w.block
                             /\ v.kind = w.kind /\ v.matched = w.matched
    <3>1. TakeTail(w) \in Windows
      BY EmptySeq DEF TakeTail, Windows, Texts
    <3> QED
      BY <3>1 DEF TakeTail, Windows
  <2>7. PICK u \in Speaking : u = [s EXCEPT !.win = v]
    BY SpeakingUpdates
  <2>8. PICK t \in Speaking : t = Push(u, f)
    BY PushType
  <2>9. t = flush_stop_tail(s)
    <3>1. HasTail(s.win) /\ BlockOpen(s, s.win.block)
      BY <1>1, <1>4, <2>1, <2>2 DEF HasTail, NoBlock
    <3>2. DeltaOf(ch) = IF w.kind = "thinking" THEN "thinking_delta" ELSE "text_delta"
      BY <2>3 DEF DeltaOf, Channels
    <3> QED
      BY <1>1, <2>4, <2>6, <2>7, <2>8, <3>1, <3>2, Zenon DEF flush_stop_tail
  <2>10. /\ t.win = v /\ t.out = Append(o, f) /\ t.blocks = s.blocks
         /\ t.text_index = s.text_index /\ t.thinking_index = s.thinking_index
    BY <1>2, <2>7, <2>8 DEF Push, Speaking, StateSet
  <2>11. Continues(t.out, o)
    BY <2>5, <2>10, GrowByOne
  <2>12. Placed(t)
    <3>1. Follows(t, s)
      <4>1. Len(s.blocks) \in Nat
        BY SpeakingFields
      <4>2. \A i : BlockOpen(t, i) <=> BlockOpen(s, i)
        BY <2>10 DEF BlockOpen
      <4> QED
        BY <1>2, <2>10, <2>11, <4>1, <4>2 DEF Follows
    <3> QED
      BY <1>1, <2>6, <2>10, <3>1, PlacedStays
  <2>13. ASSUME NEW c \in Channels
         PROVE  /\ Begins(ShownBy(t.out, c), h[c])
                /\ h[c] = ShownBy(t.out, c) \o Kept(v, c)
    <3>1. h[c] = ShownBy(o, c) \o Kept(w, c) /\ h[c] \in Texts
      BY <1>1, <1>2, <2>2 DEF Survives, Hearings
    <3>2. ShownBy(o, c) \in Texts
      BY <2>5, ShownAppend
    <3>3. Kept(v, c) = <<>>
      BY <2>6 DEF Kept
    <3>4. ShownBy(t.out, c) = h[c]
      <4>1. CASE c = ch
        BY <2>3, <2>5, <2>10, <3>1, <4>1, ShownAppend DEF Kept
      <4>2. CASE c # ch
        <5>1. f.kind # DeltaOf(c) /\ Kept(w, c) = <<>>
          BY <2>3, <2>5, <4>2 DEF DeltaOf, Channels, Kept
        <5>2. ShownBy(t.out, c) = ShownBy(o, c)
          BY <2>5, <2>10, <5>1, ShownAppend
        <5>3. ShownBy(o, c) \o <<>> = ShownBy(o, c)
          BY <3>2, ConcatEmptySeq DEF Texts
        <5> QED
          BY <3>1, <5>1, <5>2, <5>3
      <4> QED
        BY <4>1, <4>2
    <3>5. h[c] \o <<>> = h[c]
      BY <3>1, ConcatEmptySeq DEF Texts
    <3> QED
      BY <3>1, <3>3, <3>4, <3>5, BeginsLaws
  <2>14. Survives(t.win, t.out, h)
    BY <2>10, <2>13 DEF Survives
  <2> QED
    BY <1>1, <1>2, <2>6, <2>9, <2>10, <2>11, <2>12, <2>14 DEF Flushed
<1> QED
  BY <1>3, <1>4

-----------------------------------------------------------------------------
(* A block that open_block opens *)
LEMMA StoppedOpens ==
  ASSUME NEW t, t.blocks \in Seq(BOOLEAN), NEW n \in Nat, NEW u, u.blocks = Stopped(t.blocks, n),
         NEW i \in Nat
  PROVE  BlockOpen(u, i) <=> BlockOpen(t, i) /\ ~(i < n)
<1>1. PICK b \in Seq(BOOLEAN) : b = t.blocks
  OBVIOUS
<1>2. PICK l \in Nat : l = Len(b) /\ DOMAIN b = 1 .. l
  OBVIOUS
<1>3. Len(u.blocks) = l /\ \A k \in 1 .. l : u.blocks[k] = IF k <= n THEN FALSE ELSE b[k]
  <2>1. Len(Stopped(b, n)) = Len(b)
    BY StoppedType
  <2>2. \A k \in 1 .. l : Stopped(b, n)[k] = IF k <= n THEN FALSE ELSE b[k]
    BY <1>2 DEF Stopped
  <2> QED
    BY <1>1, <1>2, <2>1, <2>2
<1>4. i \in 0 .. l - 1 => i + 1 \in 1 .. l /\ (i + 1 <= n <=> i < n)
  OBVIOUS
<1>5. /\ BlockOpen(u, i) <=> i \in 0 .. l - 1 /\ u.blocks[i + 1]
      /\ BlockOpen(t, i) <=> i \in 0 .. l - 1 /\ b[i + 1]
  BY <1>1, <1>2, <1>3 DEF BlockOpen
<1> QED
  BY <1>3, <1>4, <1>5

LEMMA OpenedLen ==
  ASSUME NEW b \in Seq(BOOLEAN), NEW idx \in Nat
  PROVE  /\ Len(Opened(b, idx)) \in Nat
         /\ Len(b) <= Len(Opened(b, idx)) /\ idx < Len(Opened(b, idx))
<1>1. PICK n \in Nat : n = IF Len(b) <= idx THEN idx + 1 ELSE Len(b)
  OBVIOUS
<1>2. PICK c : c = [k \in 1 .. n |-> k = idx + 1 \/ (k <= Len(b) /\ b[k])]
  OBVIOUS
<1>3. Len(c) = n
  BY <1>2
<1>4. c = Opened(b, idx)
  BY <1>1, <1>2 DEF Opened
<1>5. Len(b) <= n /\ idx < n
  BY <1>1
<1> QED
  BY <1>3, <1>4, <1>5

LEMMA FlushContinues ==
  ASSUME NEW s \in Speaking
  PROVE  Continues(flush_stop_tail(s).out, s.out)
<1>1. PICK w \in Windows : w = s.win
  BY SpeakingFields
<1>2. PICK o \in Seq(Frames) : o = s.out
  BY SpeakingFields, SpeechIsFrames
<1>3. Continues(o, o)
  BY DEF Continues
<1>4. PICK t : t = [s EXCEPT !.win = TakeTail(w)]
  OBVIOUS
<1>5. t.out = o
  BY <1>2, <1>4
<1>6. CASE ~HasTail(s.win) \/ ~BlockOpen(s, w.block)
  BY <1>1, <1>2, <1>3, <1>4, <1>5, <1>6 DEF flush_stop_tail
<1>7. CASE HasTail(s.win) /\ BlockOpen(s, w.block)
  <2>1. w.block \in Nat
    BY <1>7, OpenIsNat DEF Windows
  <2>2. PICK f \in Speech :
          f = BlockDelta(w.block, IF w.kind = "thinking" THEN "thinking_delta" ELSE "text_delta",
                         w.tail)
    BY <2>1, FrameTypes DEF Windows, DeltaKinds
  <2>3. flush_stop_tail(s) = Push(t, f)
    BY <1>1, <1>4, <1>7, <2>2 DEF flush_stop_tail
  <2>4. Push(t, f).out = Append(o, f)
    BY <1>4, <1>5 DEF Push, Speaking, StateSet
  <2>5. f \in Frames
    BY DEF Speech
  <2> QED
    BY <1>2, <2>3, <2>4, <2>5, GrowByOne
<1> QED
  BY <1>6, <1>7

LEMMA ContinuesOn ==
  ASSUME NEW o, NEW p, NEW q, Continues(p, o), Continues(q, p)
  PROVE  Continues(q, o)
<1>1. /\ Len(o) \in Nat /\ Len(p) \in Nat /\ Len(q) \in Nat
      /\ Len(o) <= Len(p) /\ Len(p) <= Len(q)
      /\ \A k \in 1 .. Len(o) : p[k] = o[k]
      /\ \A k \in 1 .. Len(p) : q[k] = p[k]
  BY DEF Continues
<1>2. \A k \in 1 .. Len(o) : k \in 1 .. Len(p)
  BY <1>1
<1> QED
  BY <1>1, <1>2 DEF Continues

(* What open_block makes of a running turn that keeps its text *)
Opens(u, s, h, idx) ==
  /\ u \in Speaking
  /\ u.win.block = s.win.block
  /\ u.text_index = s.text_index /\ u.thinking_index = s.thinking_index
  /\ Continues(u.out, s.out)
  /\ Len(s.blocks) <= Len(u.blocks) /\ idx < Len(u.blocks)
  /\ u.win.tail = <<>>
  /\ Placed(u)
  /\ Survives(u.win, u.out, h)
  /\ Begun(u.out, idx)
  /\ BlockOpen(u, idx)
  /\ Len(s.blocks) <= idx => \A i \in Nat : BlockOpen(u, i) => i = idx

LEMMA OpenTells ==
  ASSUME NEW h \in Hearings, NEW s \in Telling(h), NEW idx \in Nat, NEW kind \in BlockKinds,
         NEW u, u = open_block(s, idx, kind), Fresh(u.out)
  PROVE  Opens(u, s, h, idx)
<1>0. s \in Speaking
  BY DEF Telling
<1>1. PICK t \in Speaking : t = flush_stop_tail(s)
  BY <1>0, FlushType
<1>2. PICK q \in Seq(Stops) :
        open_block(s, idx, kind) =
          [t EXCEPT !.blocks = Opened(Stopped(t.blocks, idx), idx),
                    !.out = Append(t.out \o q, BlockStart(idx, kind))]
  <2>1. OpensInto(open_block(s, idx, kind), t, idx, kind)
    BY <1>0, <1>1, OpenFrames
  <2> QED
    BY <2>1 DEF OpensInto
<1>3. u \in Speaking
  BY <1>0, OpenType
<1>4. PICK b \in Seq(BOOLEAN) : b = Stopped(t.blocks, idx) /\ Len(b) = Len(t.blocks)
  <2>1. t.blocks \in Seq(BOOLEAN)
    BY SpeakingFields
  <2> QED
    BY <2>1, StoppedType
<1>5. PICK f \in Frames : f = BlockStart(idx, kind)
  BY FrameTypes DEF Speech
<1>6. f.ev = "content_block_start" /\ f.index = idx /\ f.kind = kind
  BY <1>5 DEF BlockStart, Frame
<1>7. PICK o \in Seq(Frames) : o = t.out
  BY SpeakingFields, SpeechIsFrames
<1>8. q \in Seq(Frames) /\ \A k \in 1 .. Len(q) : q[k].kind \notin Spoken
  <2>1. q \in Seq(Mute)
    BY MuteSeqs
  <2>2. q \in Seq(Speech) /\ \A k \in 1 .. Len(q) : q[k] \in Mute
    BY <2>1, MuteSeqs
  <2>3. q \in Seq(Frames)
    BY <2>2, SpeechIsFrames
  <2> QED
    BY <2>2, <2>3 DEF Mute, ChannelKinds, Spoken
<1>9. PICK p \in Seq(Frames) : p = o \o q
  BY <1>8, ConcatProperties
<1>10. /\ u.win = t.win /\ u.blocks = Opened(b, idx) /\ u.out = Append(p, f)
       /\ u.text_index = t.text_index /\ u.thinking_index = t.thinking_index
  BY <1>2, <1>4, <1>5, <1>7, <1>9 DEF Speaking, StateSet
<1>11. ~Begun(p, idx) /\ Begun(u.out, idx) /\ Fresh(p)
  BY <1>6, <1>10, FreshStart
<1>12. Continues(u.out, p) /\ Continues(p, o) /\ Continues(o, s.out)
  <2>1. Continues(u.out, p)
    BY <1>10, GrowByOne
  <2>2. Continues(p, o)
    BY <1>8, <1>9, ConcatContinues
  <2>3. Continues(o, s.out)
    BY <1>0, <1>1, <1>7, FlushContinues
  <2> QED
    BY <2>1, <2>2, <2>3
<1>13. Fresh(o) /\ Fresh(s.out) /\ Continues(u.out, o) /\ Continues(u.out, s.out)
  BY <1>11, <1>12, FreshBefore, ContinuesOn
<1>14. Flushed(t, s, h)
  BY <1>1, <1>13, FlushTells DEF Telling
<1>15. /\ t.win.tail = <<>> /\ t.blocks = s.blocks /\ t.win.block = s.win.block
       /\ t.text_index = s.text_index /\ t.thinking_index = s.thinking_index
       /\ Placed(t) /\ Survives(t.win, o, h)
  BY <1>7, <1>14 DEF Flushed
<1>16. Len(s.blocks) \in Nat /\ Len(t.blocks) = Len(s.blocks)
  BY <1>0, <1>15, SpeakingFields
<1>17. Len(u.blocks) \in Nat /\ Len(b) <= Len(u.blocks) /\ idx < Len(u.blocks)
  BY <1>10, OpenedLen
<1>18. \A i \in Nat : BlockOpen(u, i) <=> i = idx \/ (BlockOpen(t, i) /\ ~(i < idx))
  <2>1. PICK m : m = [t EXCEPT !.blocks = b]
    OBVIOUS
  <2>2. m.blocks = b
    BY <2>1 DEF Speaking, StateSet
  <2>3. t.blocks \in Seq(BOOLEAN)
    BY SpeakingFields
  <2>4. \A i \in Nat : BlockOpen(m, i) <=> BlockOpen(t, i) /\ ~(i < idx)
    BY <1>4, <2>2, <2>3, StoppedOpens
  <2>5. \A i \in Nat : BlockOpen(u, i) <=> i = idx \/ BlockOpen(m, i)
    BY <1>10, <2>2, OpenedOpens
  <2> QED
    BY <2>4, <2>5
<1>19. \A ch \in Channels : Ix(t, ch) # idx
  <2> SUFFICES ASSUME NEW ch \in Channels, Ix(t, ch) = idx PROVE FALSE
    OBVIOUS
  <2>1. Begun(o, idx)
    BY <1>7, <1>15 DEF Placed, Slotted, NoIndex
  <2>2. Begun(p, idx)
    BY <1>12, <2>1, FreshBefore
  <2> QED
    BY <1>11, <2>2
<1>20. Placed(u)
  <2>1. \A ch \in Channels : BlockOpen(u, Ix(t, ch)) => BlockOpen(t, Ix(t, ch))
    <3> SUFFICES ASSUME NEW ch \in Channels, BlockOpen(u, Ix(t, ch)) PROVE BlockOpen(t, Ix(t, ch))
      OBVIOUS
    <3>1. Ix(u, ch) = Ix(t, ch)
      BY <1>10 DEF Ix
    <3>2. Ix(t, ch) \in Nat
      BY <1>3, <3>1, IxType
    <3> QED
      BY <1>18, <1>19, <3>2
  <2>2. Follows(u, t)
    BY <1>4, <1>7, <1>10, <1>13, <1>16, <1>17, <2>1 DEF Follows
  <2> QED
    BY <1>3, <1>10, <1>15, <2>2, PlacedStays
<1>21. Survives(u.win, u.out, h)
  <2>1. \A ch \in Channels : ShownBy(u.out, ch) = ShownBy(o, ch)
    <3> SUFFICES ASSUME NEW ch \in Channels PROVE ShownBy(u.out, ch) = ShownBy(o, ch)
      OBVIOUS
    <3>1. ShownBy(p, ch) = ShownBy(o, ch)
      BY <1>8, <1>9, ShownMute
    <3>2. f.kind # DeltaOf(ch)
      BY <1>6 DEF DeltaOf, BlockKinds
    <3> QED
      BY <1>10, <3>1, <3>2, ShownAppend
  <2> QED
    BY <1>10, <1>15, <2>1 DEF Survives
<1>22. ASSUME Len(s.blocks) <= idx, NEW i \in Nat, BlockOpen(u, i) PROVE i = idx
  <2>1. SUFFICES ASSUME BlockOpen(t, i), ~(i < idx) PROVE FALSE
    BY <1>18, <1>22
  <2>2. i \in 0 .. Len(t.blocks) - 1
    BY <2>1 DEF BlockOpen
  <2> QED
    BY <1>16, <1>22, <2>1, <2>2
<1>23. BlockOpen(u, idx)
  BY <1>18
<1> QED
  BY <1>3, <1>4, <1>10, <1>11, <1>13, <1>15, <1>16, <1>17, <1>20, <1>21, <1>22, <1>23 DEF Opens

-----------------------------------------------------------------------------
(* Tool calls                                                              *)
LEMMA TellingTools ==
  ASSUME NEW h \in Hearings, NEW s \in Telling(h), NEW c \in CanonChunk
  PROVE  tool_section(s, c) \in Telling(h)
<1>1. Telling(h) \subseteq Speaking
  BY DEF Telling
<1>2. ASSUME NEW t \in Telling(h), NEW i \in Nat, NEW kind \in BlockKinds
      PROVE  open_block(t, i, kind) \in Telling(h)
  <2>1. PICK u \in Speaking : u = open_block(t, i, kind)
    BY <1>1, OpenType
  <2>2. Fresh(u.out) => Opens(u, t, h, i)
    BY <2>1, OpenTells
  <2> QED
    BY <2>1, <2>2 DEF Telling, Opens
<1>3. ASSUME NEW t \in Telling(h), NEW i \in Nat, NEW a \in Texts
      PROVE  Push(t, BlockDelta(i, "input_json_delta", a)) \in Telling(h)
  <2>1. BlockDelta(i, "input_json_delta", a) \in Speech
    BY FrameTypes DEF DeltaKinds
  <2>2. BlockDelta(i, "input_json_delta", a).kind \notin Spoken
    BY DEF BlockDelta, Frame, Spoken
  <2> QED
    BY <2>1, <2>2, TellingPush
<1>4. ToolProof(Telling(h))
  BY <1>1, <1>2, <1>3 DEF ToolProof
<1>5. ASSUME NEW t \in Telling(h), NEW v \in Nat
      PROVE  [t EXCEPT !.tool_base_index = v] \in Telling(h)
  <2>1. t \in Speaking
    BY <1>1
  <2>2. PICK u \in Speaking : u = [t EXCEPT !.tool_base_index = v]
    BY <2>1, SpeakingUpdates
  <2>3. /\ u.win = t.win /\ u.blocks = t.blocks /\ u.out = t.out
        /\ u.text_index = t.text_index /\ u.thinking_index = t.thinking_index
    BY <2>1, <2>2 DEF Speaking, StateSet
  <2>4. u \in Telling(h)
    BY <2>3, TellingSame
  <2> QED
    BY <2>2, <2>4
<1> QED
  BY <1>4, <1>5, ToolStays

-----------------------------------------------------------------------------
(* The block of a channel, reopened if need be *)
Slot(s, ch, i) ==
  IF ch = "text" THEN [s EXCEPT !.text_index = i] ELSE [s EXCEPT !.thinking_index = i]

LEMMA SlotType ==
  ASSUME NEW s \in Speaking, NEW ch \in Channels, NEW i \in Nat, NEW t, t = Slot(s, ch, i)
  PROVE  /\ t \in Speaking /\ Ix(t, ch) = i
         /\ \A c \in Channels : c # ch => Ix(t, c) = Ix(s, c)
         /\ t.win = s.win /\ t.blocks = s.blocks /\ t.out = s.out
<1>1. s \in StateSet
  BY DEF Speaking
<1>2. t \in Speaking
  BY SpeakingUpdates DEF Slot
<1>3. ch \in {"text", "thinking"}
  BY DEF Channels
<1> QED
  BY <1>1, <1>2, <1>3 DEF Slot, StateSet, Ix, Channels

(* t is ready for text on channel ch, in block i *)
Ready(t, h, ch, i) ==
  /\ t \in Telling(h)
  /\ i \in Nat
  /\ Ix(t, ch) = i
  /\ Fresh(t.out) => BlockOpen(t, i)

LEMMA ReopenReady ==
  ASSUME NEW h \in Hearings, NEW s \in Telling(h), NEW ch \in Channels,
         NEW i, i = slot(s, Ix(s, ch)),
         NEW t, t = Slot(reopen(s, Ix(s, ch), ch), ch, i)
  PROVE  Ready(t, h, ch, i)
<1>1. s \in Speaking /\ ch \in BlockKinds
  BY DEF Telling, Channels, BlockKinds
<1>2. PICK ix \in Nat \cup {NoIndex} : ix = Ix(s, ch)
  BY <1>1, IxType
<1>3. i \in Nat
  BY <1>1, <1>2, ReopenType
<1>4. CASE BlockOpen(s, ix)
  <2>1. ix \in Nat /\ i = ix /\ t = Slot(s, ch, i)
    BY <1>1, <1>2, <1>4, OpenIsNat DEF slot, reopen
  <2>2. /\ t \in Speaking /\ Ix(t, ch) = i
        /\ \A c \in Channels : c # ch => Ix(t, c) = Ix(s, c)
        /\ t.win = s.win /\ t.blocks = s.blocks /\ t.out = s.out
    BY <1>1, <1>3, <2>1, SlotType
  <2>3. \A c \in Channels : Ix(t, c) = Ix(s, c)
    BY <1>2, <2>1, <2>2
  <2>4. t.text_index = s.text_index /\ t.thinking_index = s.thinking_index
    BY <2>3 DEF Channels, Ix
  <2>5. t \in Telling(h)
    BY <2>2, <2>4, TellingSame
  <2>6. BlockOpen(t, i)
    BY <1>4, <2>1, <2>2 DEF BlockOpen
  <2> QED
    BY <1>3, <2>2, <2>5, <2>6 DEF Ready
<1>5. CASE ~BlockOpen(s, ix)
  <2>1. PICK u \in Speaking : u = open_block(s, i, ch)
    BY <1>1, <1>3, OpenType
  <2>2. i = Len(s.blocks) /\ t = Slot(u, ch, i)
    BY <1>2, <1>5, <2>1 DEF slot, reopen, next_index
  <2>3. /\ t \in Speaking /\ Ix(t, ch) = i
        /\ \A c \in Channels : c # ch => Ix(t, c) = Ix(u, c)
        /\ t.win = u.win /\ t.blocks = u.blocks /\ t.out = u.out
    BY <1>3, <2>2, SlotType
  <2>4. ASSUME Fresh(t.out)
        PROVE  Placed(t) /\ Survives(t.win, t.out, h) /\ BlockOpen(t, i)
    <3>1. Opens(u, s, h, i)
      BY <1>1, <1>3, <2>1, <2>3, <2>4, OpenTells
    <3>2. /\ u.win.block = s.win.block
          /\ u.text_index = s.text_index /\ u.thinking_index = s.thinking_index
          /\ i < Len(u.blocks) /\ u.win.tail = <<>> /\ Placed(u) /\ Survives(u.win, u.out, h)
          /\ Begun(u.out, i) /\ BlockOpen(u, i) /\ Continues(u.out, s.out)
      BY <3>1 DEF Opens
    <3>3. \A j \in Nat : BlockOpen(u, j) => j = i
      BY <1>1, <2>2, <3>1, SpeakingFields DEF Opens
    <3>4. Placed(s)
      BY <2>3, <2>4, <3>2, FreshBefore DEF Telling
    <3>5. \A j : BlockOpen(t, j) <=> BlockOpen(u, j)
      BY <2>3 DEF BlockOpen
    <3>6. ASSUME NEW c \in Channels, c # ch PROVE ~BlockOpen(u, Ix(u, c)) /\ Ix(u, c) # i
      <4>1. Ix(u, c) = Ix(s, c)
        BY <3>2 DEF Ix
      <4>2. Ix(s, c) # NoIndex => Ix(s, c) < i
        BY <2>2, <3>4 DEF Placed, Slotted
      <4>3. Ix(u, c) # i
        BY <1>3, <2>2, <4>1, <4>2 DEF NoIndex
      <4>4. BlockOpen(u, Ix(u, c)) => Ix(u, c) \in Nat
        BY IxType
      <4> QED
        BY <3>3, <4>3, <4>4
    <3>7. \A a, b \in Channels : BlockOpen(t, Ix(t, a)) /\ BlockOpen(t, Ix(t, b)) => a = b
      BY <2>3, <3>5, <3>6
    <3>8. \A c \in Channels : Slotted(t, c)
      <4> SUFFICES ASSUME NEW c \in Channels PROVE Slotted(t, c)
        OBVIOUS
      <4>1. CASE c = ch
        <5>1. s.win.block # i
          <6>1. s.win.block < i
            BY <2>2, <3>4 DEF Placed
          <6> QED
            BY <1>3, <6>1
        <5> QED
          BY <2>3, <3>2, <4>1, <5>1 DEF Slotted
      <4>2. CASE c # ch
        BY <2>3, <3>2, <4>2 DEF Placed, Slotted
      <4> QED
        BY <4>1, <4>2
    <3>9. Anchored(t) /\ (t.win.matched # <<>> => HasWindow) /\ t.win.block < Len(t.blocks)
      BY <2>3, <3>2 DEF Anchored, Placed
    <3> QED
      BY <2>3, <3>2, <3>5, <3>7, <3>8, <3>9 DEF Placed
  <2> QED
    BY <1>3, <2>3, <2>4 DEF Ready, Telling
<1> QED
  BY <1>4, <1>5

-----------------------------------------------------------------------------
(* What becomes of the window v and the text a channel speaks into block i: *)
(* w is the window after it, e what is shown                               *)
Moves(v, w, i, ch, text, e) ==
  /\ w \in Windows /\ e \in Texts
  /\ (w.block = v.block /\ w.kind = v.kind) \/ (w.block = i /\ w.kind = ch)
  /\ w.tail # <<>> => HasWindow /\ w.matched = <<>> /\ w.block = i /\ w.kind = ch
  /\ w.matched # <<>> => HasWindow
  /\ w.matched = <<>> => v.matched = <<>> /\ e \o w.tail = v.tail \o text
  /\ v.matched = <<>> => Begins(e, v.tail \o text)
  /\ v.matched # <<>> => e = <<>>

(* The window is free for block i of channel ch *)
Open(v, i, ch) ==
  /\ v.tail # <<>> => HasWindow /\ v.matched = <<>> /\ v.block = i
  /\ v.matched # <<>> => HasWindow
  /\ v.block = i => v.kind = ch

LEMMA FeedFollows ==
  ASSUME NEW w \in Windows, NEW idx \in Nat, NEW kind \in {"text", "thinking"},
         NEW incoming \in Texts, w.block = idx => w.kind = kind, w.matched = <<>>
  PROVE  Feed(w, idx, kind, incoming).win.kind = kind
<1>1. PICK v \in Windows : v = Retarget(w, idx, kind)
  BY RetargetType, Zenon
<1>2. v.kind = kind
  BY <1>1 DEF Retarget, Windows
<1>3. \A t, m : [v EXCEPT !.tail = t].kind = v.kind
              /\ [v EXCEPT !.tail = t, !.matched = m].kind = v.kind
  BY DEF Windows
<1>4. Feed(w, idx, kind, incoming).win.kind = v.kind
  BY <1>1, <1>3 DEF Feed
<1> QED
  BY <1>2, <1>4

LEMMA FeedMoves ==
  ASSUME NEW v \in Windows, NEW i \in Nat, NEW ch \in Channels, NEW text \in Texts,
         Open(v, i, ch), HasWindow, NEW r, r = Feed(v, i, ch, text)
  PROVE  Moves(v, r.win, i, ch, text, r.emit)
<1>1. ch \in {"text", "thinking"} /\ v.tail \in Texts
  BY DEF Channels, Windows
<1>2. PICK w \in Windows : w = r.win
  BY <1>1, FeedType
<1>3. PICK e \in Texts : e = r.emit
  BY <1>1, FeedType
<1>4. CASE v.matched # <<>>
  <2>1. w = v /\ e = <<>>
    BY <1>2, <1>3, <1>4 DEF Feed
  <2> QED
    BY <1>2, <1>3, <1>4, <2>1 DEF Moves, Open
<1>5. CASE v.matched = <<>>
  <2>1. Retarget(v, i, ch).tail = v.tail
    BY <1>1, RetargetType, SMTT(60) DEF Open
  <2>2. PICK buf \in Texts : buf = v.tail \o text
    BY <1>1, ConcatText
  <2>3. Buffered(v, i, ch, text, buf)
    BY <1>1, <1>5, <2>1, <2>2, Zenon DEF Buffered
  <2>4. w.kind = ch
    BY <1>1, <1>2, <1>5, FeedFollows DEF Open
  <2>5. CASE Fired(buf) # {}
    <3>1. HasFired(r, i, buf)
      BY <2>3, <2>5, FeedFires
    <3>2. PICK n \in 0 .. Len(buf) : e = SubSeq(buf, 1, n)
      BY <1>3, <3>1 DEF HasFired
    <3>3. SubSeq(buf, 1, n) \o SubSeq(buf, n + 1, Len(buf)) = buf
      BY Halves
    <3>4. PICK z \in Texts : z = SubSeq(buf, n + 1, Len(buf))
      BY <1>1, Regroup
    <3>5. Begins(e, buf)
      BY <3>2, <3>3, <3>4 DEF Begins
    <3> QED
      BY <1>2, <1>3, <1>5, <2>2, <2>4, <3>1, <3>5 DEF HasFired, Moves
  <2>6. CASE Fired(buf) = {}
    <3>1. HasPassed(r, i, buf)
      BY <2>3, <2>6, FeedPasses
    <3>2. PICK n \in 0 .. Len(buf) : n = Split(buf)
      BY SplitInside
    <3>3. e = SubSeq(buf, 1, n) /\ w.tail = SubSeq(buf, n + 1, Len(buf))
          /\ w.block = i /\ w.matched = <<>>
      BY <1>2, <1>3, <3>1, <3>2 DEF HasPassed
    <3>4. w.tail \in Texts
      BY DEF Windows
    <3>5. e \o w.tail = buf
      BY <3>3, Halves
    <3>6. Begins(e, buf)
      BY <3>4, <3>5 DEF Begins
    <3> QED
      BY <1>2, <1>3, <1>5, <2>2, <2>4, <3>3, <3>5, <3>6 DEF Moves
  <2> QED
    BY <2>5, <2>6
<1> QED
  BY <1>4, <1>5

LEMMA BareMoves ==
  ASSUME NEW v \in Windows, NEW i \in Nat, NEW ch \in Channels, NEW text \in Texts,
         Open(v, i, ch), ~HasWindow
  PROVE  Moves(v, v, i, ch, text, text)
<1>1. v.tail = <<>> /\ v.matched = <<>>
  BY DEF Open
<1>2. text \o <<>> = text /\ <<>> \o text = text
  BY ConcatEmptySeq DEF Texts
<1>3. Begins(text, text)
  BY BeginsLaws
<1> QED
  BY <1>1, <1>2, <1>3 DEF Moves

-----------------------------------------------------------------------------
(* h once channel ch said text as well *)
Said(h, ch, text) == [h EXCEPT ![ch] = h[ch] \o text]

(* p shows e more than o does on channel ch, and no more on the other *)
Shows(p, o, ch, e) ==
  \A c \in Channels : ShownBy(p, c) = IF c = ch THEN ShownBy(o, c) \o e ELSE ShownBy(o, c)

LEMMA SaidType ==
  ASSUME NEW h \in Hearings, NEW ch \in Channels, NEW text \in Texts
  PROVE  /\ Said(h, ch, text) \in Hearings
         /\ \A c \in Channels : Said(h, ch, text)[c] = IF c = ch THEN h[c] \o text ELSE h[c]
<1>1. h[ch] \in Texts
  BY DEF Hearings
<1>2. h[ch] \o text \in Texts
  BY <1>1, ConcatText
<1> QED
  BY <1>2 DEF Said, Hearings

Regroups(s, t, u) == (s \o t) \o u = s \o (t \o u)

LEMMA Regrouping ==
  ASSUME NEW s \in Texts, NEW t \in Texts, NEW u \in Texts
  PROVE  Regroups(s, t, u)
  BY Assoc DEF Regroups

LEMMA MovesTell ==
  ASSUME NEW h \in Hearings, NEW v \in Windows, NEW o \in Seq(Frames), Survives(v, o, h),
         NEW i \in Nat, NEW ch \in Channels, NEW text \in Texts, Open(v, i, ch),
         NEW w, NEW e, Moves(v, w, i, ch, text, e),
         NEW p, Shows(p, o, ch, e)
  PROVE  Survives(w, p, Said(h, ch, text))
<1>1. SUFFICES ASSUME NEW c \in Channels
               PROVE  /\ Begins(ShownBy(p, c), Said(h, ch, text)[c])
                      /\ w.matched = <<>> => Said(h, ch, text)[c] = ShownBy(p, c) \o Kept(w, c)
  BY DEF Survives
<1>2. PICK shown \in Texts : shown = ShownBy(o, c)
  <2>1. PICK f \in Frames : f = BlockStop(0)
    BY FrameTypes DEF Speech
  <2> QED
    BY ShownAppend
<1>3. PICK said \in Texts : said = h[c]
  BY DEF Hearings
<1>4. Begins(shown, said) /\ (v.matched = <<>> => said = shown \o Kept(v, c))
  BY <1>2, <1>3 DEF Survives
<1>5. /\ Said(h, ch, text)[c] = IF c = ch THEN said \o text ELSE said
      /\ ShownBy(p, c) = IF c = ch THEN shown \o e ELSE shown
  <2>1. Said(h, ch, text)[c] = IF c = ch THEN said \o text ELSE said
    BY <1>3, SaidType
  <2>2. ShownBy(p, c) = IF c = ch THEN shown \o e ELSE shown
    BY <1>2 DEF Shows
  <2> QED
    BY <2>1, <2>2
<1>6. PICK a \in Texts, b \in Texts, d \in Texts : a = v.tail /\ b = w.tail /\ d = e
  BY DEF Moves, Windows
<1>7. CASE c # ch
  <2>1. Kept(w, c) = <<>>
    BY <1>7 DEF Kept, Moves
  <2>2. Kept(v, c) = <<>>
    BY <1>7 DEF Kept, Open
  <2> QED
    BY <1>4, <1>5, <1>7, <2>1, <2>2 DEF Moves
<1>8. CASE c = ch
  <2>1. Kept(v, c) = v.tail
    BY <1>8 DEF Kept, Open
  <2>2. Kept(w, c) = w.tail
    BY <1>8 DEF Kept, Moves
  <2>3. CASE v.matched # <<>>
    <3>1. e = <<>> /\ w.matched # <<>>
      BY <2>3 DEF Moves
    <3>2. shown \o e = shown
      BY <3>1, ConcatEmptySeq DEF Texts
    <3>3. Begins(shown, said \o text)
      BY <1>4, BeginsLaws
    <3> QED
      BY <1>5, <1>8, <3>1, <3>2, <3>3
  <2>4. CASE v.matched = <<>>
    <3>1. said = shown \o a
      BY <1>4, <1>6, <2>1, <2>4
    <3>2. PICK buf \in Texts : buf = a \o text
      BY ConcatText
    <3>3. said \o text = shown \o buf
      <4>1. Regroups(shown, a, text)
        BY Regrouping
      <4> QED
        BY <3>1, <3>2, <4>1 DEF Regroups
    <3>4. PICK rest \in Texts : buf = d \o rest
      BY <1>6, <2>4, <3>2 DEF Moves, Begins
    <3>5. Regroups(shown, d, rest)
      BY Regrouping
    <3>6. Begins(shown \o d, said \o text)
      BY <3>3, <3>4, <3>5 DEF Begins, Regroups
    <3>7. ASSUME w.matched = <<>> PROVE said \o text = (shown \o d) \o b
      <4>1. buf = d \o b
        BY <1>6, <3>2, <3>7 DEF Moves
      <4>2. Regroups(shown, d, b)
        BY Regrouping
      <4> QED
        BY <3>3, <4>1, <4>2 DEF Regroups
    <3> QED
      BY <1>5, <1>6, <1>8, <2>2, <3>6, <3>7
  <2> QED
    BY <2>3, <2>4
<1> QED
  BY <1>7, <1>8

(* A ready state whose window moved on, with what that let through *)
LEMMA MovesOn ==
  ASSUME NEW h \in Hearings, NEW s, NEW ch \in Channels, NEW i, Ready(s, h, ch, i), Fresh(s.out),
         NEW text \in Texts, NEW w, NEW e, Moves(s.win, w, i, ch, text, e),
         NEW t \in Speaking, t.win = w, t.blocks = s.blocks,
         t.text_index = s.text_index, t.thinking_index = s.thinking_index,
         Continues(t.out, s.out), Shows(t.out, s.out, ch, e)
  PROVE  t \in Telling(Said(h, ch, text))
<1>1. /\ s \in Speaking /\ Placed(s) /\ Survives(s.win, s.out, h)
      /\ i \in Nat /\ Ix(s, ch) = i /\ BlockOpen(s, i)
  BY DEF Ready, Telling
<1>2. PICK v \in Windows : v = s.win
  BY <1>1, SpeakingFields
<1>3. PICK o \in Seq(Frames) : o = s.out
  BY <1>1, SpeakingFields, SpeechIsFrames
<1>4. \A c \in Channels : Ix(t, c) = Ix(s, c)
  BY DEF Ix
<1>5. \A j : BlockOpen(t, j) <=> BlockOpen(s, j)
  BY DEF BlockOpen
<1>6. Open(v, i, ch)
  <2>1. v.block = i => v.kind = ch
    BY <1>1, <1>2 DEF Placed, Slotted, NoIndex
  <2>2. v.tail # <<>> => HasWindow /\ v.matched = <<>> /\ v.block = i
    BY <1>1, <1>2 DEF Placed, Anchored
  <2> QED
    BY <1>1, <1>2, <2>1, <2>2 DEF Open, Placed
<1>7. Survives(w, t.out, Said(h, ch, text))
  BY <1>1, <1>2, <1>3, <1>6, MovesTell
<1>8. Placed(t)
  <2>1. Anchored(t)
    BY <1>1, <1>4, <1>5 DEF Moves, Anchored
  <2>2. t.win.matched # <<>> => HasWindow
    BY DEF Moves
  <2>3. \A a, b \in Channels : BlockOpen(t, Ix(t, a)) /\ BlockOpen(t, Ix(t, b)) => a = b
    BY <1>1, <1>4, <1>5 DEF Placed
  <2>4. Len(t.blocks) = Len(s.blocks) /\ i < Len(s.blocks)
    <3>1. Len(s.blocks) \in Nat
      BY <1>1, SpeakingFields
    <3> QED
      BY <1>1, <3>1 DEF BlockOpen
  <2>5. t.win.block < Len(t.blocks)
    BY <1>1, <1>2, <2>4 DEF Moves, Placed
  <2>6. ASSUME NEW c \in Channels PROVE Slotted(t, c)
    <3>1. SUFFICES ASSUME Ix(t, c) # NoIndex, t.win.block = Ix(t, c) PROVE t.win.kind = c
      <4>1. \A j : Begun(s.out, j) => Begun(t.out, j)
        BY FreshBefore
      <4>2. Slotted(s, c)
        BY <1>1 DEF Placed
      <4> QED
        BY <1>4, <2>4, <4>1, <4>2 DEF Slotted
    <3>2. CASE w.block = v.block /\ w.kind = v.kind
      BY <1>1, <1>2, <1>4, <3>1, <3>2 DEF Placed, Slotted
    <3>3. CASE w.block = i /\ w.kind = ch
      BY <1>1, <1>4, <3>1, <3>3 DEF Placed
    <3> QED
      BY <1>2, <3>2, <3>3 DEF Moves
  <2> QED
    BY <2>1, <2>2, <2>3, <2>5, <2>6 DEF Placed
<1> QED
  BY <1>7, <1>8 DEF Telling

LEMMA ShowsOne ==
  ASSUME NEW o \in Seq(Frames), NEW ch \in Channels, NEW f \in Frames, f.kind = DeltaOf(ch)
  PROVE  Shows(Append(o, f), o, ch, f.text)
<1>1. \A c \in Channels : c # ch => f.kind # DeltaOf(c)
  BY DEF DeltaOf, Channels
<1>2. \A c \in Channels :
        /\ f.kind = DeltaOf(c) => ShownBy(Append(o, f), c) = ShownBy(o, c) \o f.text
        /\ f.kind # DeltaOf(c) => ShownBy(Append(o, f), c) = ShownBy(o, c)
  BY ShownAppend
<1> QED
  BY <1>1, <1>2 DEF Shows

LEMMA ShowsNone ==
  ASSUME NEW o \in Seq(Frames), NEW ch \in Channels
  PROVE  Shows(o, o, ch, <<>>)
<1>1. PICK f \in Frames : f = BlockStop(0)
  BY FrameTypes DEF Speech
<1>2. \A c \in Channels : ShownBy(o, c) \in Texts
  BY ShownAppend
<1>3. \A c \in Channels : ShownBy(o, c) \o <<>> = ShownBy(o, c)
  BY <1>2, ConcatEmptySeq DEF Texts
<1> QED
  BY <1>3 DEF Shows

(* Text on a ready channel *)
LEMMA FilteredTells ==
  ASSUME NEW h \in Hearings, NEW s, NEW ch \in Channels, NEW i, Ready(s, h, ch, i),
         NEW text \in Texts
  PROVE  filtered(s, i, ch, DeltaOf(ch), text) \in Telling(Said(h, ch, text))
<1>1. s \in Speaking /\ i \in Nat
  BY DEF Ready, Telling
<1>2. ch \in {"text", "thinking"} /\ DeltaOf(ch) \in DeltaKinds
  BY DEF Channels, DeltaOf, DeltaKinds
<1>3. PICK v \in Windows : v = s.win
  BY <1>1, SpeakingFields
<1>4. PICK o \in Seq(Frames) : o = s.out
  BY <1>1, SpeakingFields, SpeechIsFrames
<1>5. Continues(o, o)
  BY DEF Continues
<1>6. \A x \in Texts : LET f == BlockDelta(i, DeltaOf(ch), x)
                      IN  /\ f \in Speech /\ f \in Frames
                          /\ f.kind = DeltaOf(ch) /\ f.text = x
  BY <1>1, <1>2, FrameTypes DEF Speech, BlockDelta, Frame
<1>7. ASSUME Fresh(o) PROVE Open(v, i, ch)
  <2>1. Placed(s) /\ Ix(s, ch) = i /\ BlockOpen(s, i)
    BY <1>4, <1>7 DEF Ready, Telling
  <2>2. v.block = i => v.kind = ch
    BY <1>1, <1>3, <2>1 DEF Placed, Slotted, NoIndex
  <2>3. v.tail # <<>> => HasWindow /\ v.matched = <<>> /\ v.block = i
    BY <1>3, <2>1 DEF Placed, Anchored
  <2> QED
    BY <1>3, <2>1, <2>2, <2>3 DEF Open, Placed
<1>8. ASSUME NEW w \in Windows, NEW e \in Texts,
             NEW u \in Speaking, u = [s EXCEPT !.win = w],
             NEW t \in Speaking, t = Push(u, BlockDelta(i, DeltaOf(ch), e)),
             Fresh(o) => Moves(v, w, i, ch, text, e)
      PROVE  /\ t \in Telling(Said(h, ch, text))
             /\ e = <<>> => u \in Telling(Said(h, ch, text))
  <2>1. /\ u.win = w /\ u.blocks = s.blocks /\ u.out = o
        /\ u.text_index = s.text_index /\ u.thinking_index = s.thinking_index
    BY <1>1, <1>4, <1>8 DEF Speaking, StateSet
  <2>2. PICK f \in Speech : f = BlockDelta(i, DeltaOf(ch), e) /\ f.kind = DeltaOf(ch) /\ f.text = e
    BY <1>6
  <2>3. f \in Frames
    BY DEF Speech
  <2>4. /\ t.win = w /\ t.blocks = s.blocks /\ t.out = Append(o, f)
        /\ t.text_index = s.text_index /\ t.thinking_index = s.thinking_index
    BY <1>8, <2>1, <2>2 DEF Push, Speaking, StateSet
  <2>5. Continues(t.out, o)
    BY <2>3, <2>4, GrowByOne
  <2>6. Shows(t.out, o, ch, e)
    BY <2>2, <2>3, <2>4, ShowsOne
  <2>7. Fresh(t.out) => Fresh(o)
    BY <2>5, FreshBefore
  <2>8. t \in Telling(Said(h, ch, text))
    <3>1. CASE Fresh(o)
      BY <1>3, <1>4, <1>8, <2>4, <2>5, <2>6, <3>1, MovesOn
    <3>2. CASE ~Fresh(o)
      BY <2>7, <3>2 DEF Telling
    <3> QED
      BY <3>1, <3>2
  <2>9. ASSUME e = <<>> PROVE u \in Telling(Said(h, ch, text))
    <3>1. Shows(u.out, o, ch, e)
      BY <2>1, <2>9, ShowsNone
    <3>2. CASE Fresh(o)
      <4>1. /\ Fresh(s.out) /\ Moves(s.win, w, i, ch, text, e)
            /\ Continues(u.out, s.out) /\ Shows(u.out, s.out, ch, e)
        BY <1>3, <1>4, <1>5, <1>8, <2>1, <3>1, <3>2
      <4> QED
        BY <2>1, <4>1, MovesOn
    <3>3. CASE ~Fresh(o)
      BY <2>1, <3>3 DEF Telling
    <3> QED
      BY <3>2, <3>3
  <2> QED
    BY <2>8, <2>9
<1>9. CASE ~HasWindow
  <2>1. PICK u \in Speaking : u = [s EXCEPT !.win = v]
    BY <1>1, SpeakingUpdates
  <2>2. u = s
    BY <1>1, <1>3, <2>1 DEF Speaking, StateSet
  <2>3. PICK t \in Speaking : t = Push(u, BlockDelta(i, DeltaOf(ch), text))
    BY <1>6, PushType
  <2>4. Fresh(o) => Moves(v, v, i, ch, text, text)
    BY <1>1, <1>7, <1>9, BareMoves
  <2>5. t \in Telling(Said(h, ch, text))
    BY <1>8, <2>1, <2>3, <2>4
  <2> QED
    BY <1>9, <2>2, <2>3, <2>5 DEF filtered
<1>10. CASE HasWindow
  <2>1. PICK r : r = Feed(v, i, ch, text)
    OBVIOUS
  <2>2. PICK w \in Windows, e \in Texts : w = r.win /\ e = r.emit
    BY <1>1, <1>2, <2>1, FeedType
  <2>3. PICK u \in Speaking : u = [s EXCEPT !.win = w]
    BY <1>1, SpeakingUpdates
  <2>4. PICK t \in Speaking : t = Push(u, BlockDelta(i, DeltaOf(ch), e))
    BY <1>6, PushType
  <2>5. Fresh(o) => Moves(v, w, i, ch, text, e)
    <3>1. Open(v, i, ch) => Moves(v, r.win, i, ch, text, r.emit)
      BY <1>1, <1>10, <2>1, FeedMoves
    <3> QED
      BY <1>7, <2>2, <3>1
  <2>6. t \in Telling(Said(h, ch, text)) /\ (e = <<>> => u \in Telling(Said(h, ch, text)))
    BY <1>8, <2>3, <2>4, <2>5
  <2>7. filtered(s, i, ch, DeltaOf(ch), text) = IF e = <<>> THEN u ELSE t
    BY <1>3, <1>10, <2>1, <2>2, <2>3, <2>4 DEF filtered
  <2> QED
    BY <2>6, <2>7
<1> QED
  BY <1>9, <1>10

-----------------------------------------------------------------------------
(* The sections of a chunk                                                 *)
ThoughtOf(c) == IF c.thinking.kind = "thinking" THEN c.thinking.text ELSE <<>>

LEMMA SaidNothing ==
  ASSUME NEW h \in Hearings, NEW ch \in Channels
  PROVE  Said(h, ch, <<>>) = h
<1>1. h[ch] \in Texts
  BY DEF Hearings
<1>2. h[ch] \o <<>> = h[ch]
  BY <1>1, ConcatEmptySeq DEF Texts
<1>3. [h EXCEPT ![ch] = h[ch]] = h
  BY DEF Hearings
<1> QED
  BY <1>2, <1>3 DEF Said

LEMMA ThinkingTells ==
  ASSUME NEW h \in Hearings, NEW s \in Telling(h), NEW c \in CanonChunk
  PROVE  thinking_section(s, c) \in Telling(Said(h, "thinking", ThoughtOf(c)))
<1>1. c.thinking.kind \in {"none", "thinking", "signature"} /\ c.thinking.text \in Texts
  BY DEF CanonChunk
<1>2. "thinking" \in Channels /\ s \in Speaking /\ DeltaOf("thinking") = "thinking_delta"
  BY DEF Channels, Telling, DeltaOf
<1>3. Said(h, "thinking", <<>>) = h
  BY <1>2, SaidNothing
<1>4. CASE c.thinking.kind = "none"
  BY <1>3, <1>4 DEF thinking_section, ThoughtOf
<1>5. CASE c.thinking.kind # "none"
  <2>1. PICK i : i = slot(s, s.thinking_index)
    OBVIOUS
  <2>2. PICK t : t = [reopen(s, s.thinking_index, "thinking") EXCEPT !.thinking_index = i]
    OBVIOUS
  <2>3. Ix(s, "thinking") = s.thinking_index
    BY DEF Ix
  <2>4. t = Slot(reopen(s, Ix(s, "thinking"), "thinking"), "thinking", i)
    BY <2>2, <2>3 DEF Slot
  <2>5. Ready(t, h, "thinking", i)
    BY <1>2, <2>1, <2>3, <2>4, ReopenReady
  <2>6. thinking_section(s, c) =
          IF c.thinking.kind = "signature"
          THEN Push(t, BlockDelta(i, "signature_delta", c.thinking.text))
          ELSE filtered(t, i, "thinking", "thinking_delta", c.thinking.text)
    BY <1>5, <2>1, <2>2, Zenon DEF thinking_section
  <2>7. CASE c.thinking.kind = "signature"
    <3>1. t \in Telling(h) /\ i \in Nat
      BY <2>5 DEF Ready
    <3>2. BlockDelta(i, "signature_delta", c.thinking.text) \in Speech
      BY <1>1, <3>1, FrameTypes DEF DeltaKinds
    <3>3. BlockDelta(i, "signature_delta", c.thinking.text).kind \notin Spoken
      BY DEF BlockDelta, Frame, Spoken
    <3>4. Push(t, BlockDelta(i, "signature_delta", c.thinking.text)) \in Telling(h)
      BY <3>1, <3>2, <3>3, TellingPush
    <3> QED
      BY <1>3, <2>6, <2>7, <3>4 DEF ThoughtOf
  <2>8. CASE c.thinking.kind = "thinking"
    <3>1. filtered(t, i, "thinking", DeltaOf("thinking"), c.thinking.text)
            \in Telling(Said(h, "thinking", c.thinking.text))
      BY <1>1, <1>2, <2>5, FilteredTells
    <3> QED
      BY <1>2, <2>6, <2>8, <3>1 DEF ThoughtOf
  <2> QED
    BY <1>1, <1>5, <2>7, <2>8
<1> QED
  BY <1>4, <1>5

LEMMA TextTells ==
  ASSUME NEW h \in Hearings, NEW s \in Telling(h), NEW c \in CanonChunk
  PROVE  text_section(s, c) \in Telling(Said(h, "text", c.delta_text))
<1>1. c.delta_text \in Texts
  BY DEF CanonChunk
<1>2. "text" \in Channels /\ s \in Speaking /\ DeltaOf("text") = "text_delta"
  BY DEF Channels, Telling, DeltaOf
<1>3. Said(h, "text", <<>>) = h
  BY <1>2, SaidNothing
<1>4. CASE c.delta_text = <<>>
  BY <1>3, <1>4 DEF text_section
<1>5. CASE c.delta_text # <<>>
  <2>1. PICK i : i = slot(s, s.text_index)
    OBVIOUS
  <2>2. PICK t : t = [reopen(s, s.text_index, "text") EXCEPT !.text_index = i]
    OBVIOUS
  <2>3. Ix(s, "text") = s.text_index
    BY DEF Ix
  <2>4. t = Slot(reopen(s, Ix(s, "text"), "text"), "text", i)
    BY <2>2, <2>3 DEF Slot
  <2>5. Ready(t, h, "text", i)
    BY <1>2, <2>1, <2>3, <2>4, ReopenReady
  <2>6. text_section(s, c) = filtered(t, i, "text", "text_delta", c.delta_text)
    BY <1>5, <2>1, <2>2, Zenon DEF text_section
  <2>7. filtered(t, i, "text", DeltaOf("text"), c.delta_text)
          \in Telling(Said(h, "text", c.delta_text))
    BY <1>1, <1>2, <2>5, FilteredTells
  <2> QED
    BY <1>2, <2>6, <2>7
<1> QED
  BY <1>4, <1>5

-----------------------------------------------------------------------------
(* The end of a turn                                                       *)
Tells(h) ==
  {s \in StateSet : Fresh(s.out) =>
     /\ Survives(s.win, s.out, h)
     /\ Complete(s.out) => s.win.tail = <<>>}

(* Where a turn that has begun can be *)
Begot(h) == {s \in Tells(h) : ~s.first /\ (s \in Speaking => s \in Telling(h))}

LEMMA TellingBegot ==
  ASSUME NEW h, NEW s \in Telling(h)
  PROVE  s \in Begot(h)
<1>1. s \in Speaking /\ s \in StateSet /\ ~s.first
  BY DEF Telling, Speaking
<1>2. ~Complete(s.out)
  BY <1>1, SpeakingGoesOn
<1> QED
  BY <1>1, <1>2 DEF Begot, Tells, Telling

LEMMA TerminalTells ==
  ASSUME NEW h \in Hearings, NEW s \in Telling(h), NEW reason \in StopReasons, NEW u \in Usages
  PROVE  emit_terminal(s, reason, u) \in Begot(h)
<1>1. s \in Speaking /\ Len(s.blocks) \in Nat
  BY SpeakingFields DEF Telling
<1>2. PICK t \in Speaking : t = flush_stop_tail(s)
  BY <1>1, FlushType
<1>3. PICK x \in Speaking : x = StopBelow(t, Len(s.blocks))
  BY <1>1, StopBelowType
<1>4. x = close_block(s, Len(s.blocks))
  BY <1>2, <1>3 DEF close_block
<1>5. PICK v \in StopReasons, q \in Seq(Frames) :
        Terminates(emit_terminal(s, reason, u), x, u, v, q)
  BY <1>1, <1>4, TerminalShape
<1>6. PICK e : e = emit_terminal(s, reason, u)
  OBVIOUS
<1>7. e \in StateSet /\ e.message_stopped
  BY <1>1, <1>6, TerminalType DEF Finished
<1>8. \A k \in 1 .. Len(q) : q[k].kind \notin Spoken
  <2>1. \A k \in 1 .. Len(q) : q[k].kind \notin ChannelKinds
    BY <1>5, TerminalMute
  <2> QED
    BY <2>1 DEF ChannelKinds, Spoken
<1>9. PICK p \in Seq(Stops) :
        StopBelow(t, Len(s.blocks)) =
          [t EXCEPT !.blocks = Stopped(t.blocks, Len(s.blocks)), !.out = t.out \o p]
  BY <1>1, <1>2, StopBelowFrames
<1>10. PICK o \in Seq(Frames) : o = t.out
  BY SpeakingFields, SpeechIsFrames
<1>11. p \in Seq(Frames) /\ \A k \in 1 .. Len(p) : p[k].kind \notin Spoken
  <2>1. p \in Seq(Mute)
    BY MuteSeqs
  <2>2. p \in Seq(Speech) /\ \A k \in 1 .. Len(p) : p[k] \in Mute
    BY <2>1, MuteSeqs
  <2>3. p \in Seq(Frames)
    BY <2>2, SpeechIsFrames
  <2> QED
    BY <2>2, <2>3 DEF Mute, ChannelKinds, Spoken
<1>12. PICK m \in Seq(Frames) : m = o \o p
  BY <1>11, ConcatProperties
<1>13. x.out = m /\ x.win = t.win
  BY <1>3, <1>9, <1>10, <1>12 DEF Speaking, StateSet
<1>14. e.out = m \o q /\ e.win = t.win /\ ~e.first
  BY <1>5, <1>6, <1>13 DEF Speaking, StateSet, Terminates
<1>15. Continues(e.out, m) /\ Continues(m, o) /\ Continues(o, s.out)
  BY <1>1, <1>2, <1>10, <1>11, <1>12, <1>14, ConcatContinues, FlushContinues
<1>16. ASSUME Fresh(e.out) PROVE Survives(e.win, e.out, h) /\ e.win.tail = <<>>
  <2>1. Fresh(s.out)
    BY <1>15, <1>16, FreshBefore
  <2>2. Placed(s) /\ Survives(s.win, s.out, h)
    BY <2>1 DEF Telling
  <2>3. Flushed(t, s, h)
    BY <1>1, <1>2, <2>2, FlushTells
  <2>4. t.win.tail = <<>> /\ Survives(t.win, o, h)
    BY <1>10, <2>3 DEF Flushed
  <2>5. \A ch \in Channels : ShownBy(m, ch) = ShownBy(o, ch)
    BY <1>11, <1>12, ShownMute
  <2>6. \A ch \in Channels : ShownBy(m \o q, ch) = ShownBy(m, ch)
    BY <1>8, ShownMute
  <2> QED
    BY <1>14, <2>4, <2>5, <2>6 DEF Survives
<1>17. e \notin Speaking
  BY <1>7 DEF Speaking
<1> QED
  BY <1>6, <1>7, <1>14, <1>16, <1>17 DEF Begot, Tells

LEMMA StopReasonStays ==
  ASSUME NEW h, NEW s \in Telling(h), NEW v \in StopReasons \cup {"none"}
  PROVE  [s EXCEPT !.stop_reason = v] \in Telling(h)
<1>1. s \in Speaking
  BY DEF Telling
<1>2. PICK t \in Speaking : t = [s EXCEPT !.stop_reason = v]
  BY <1>1, SpeakingUpdates
<1>3. /\ t.win = s.win /\ t.blocks = s.blocks /\ t.out = s.out
      /\ t.text_index = s.text_index /\ t.thinking_index = s.thinking_index
  BY <1>1, <1>2 DEF Speaking, StateSet
<1>4. t \in Telling(h)
  BY <1>3, TellingSame
<1> QED
  BY <1>2, <1>4

LEMMA PendingStays ==
  ASSUME NEW h, NEW s \in Telling(h), NEW v \in Usages
  PROVE  [s EXCEPT !.pending_usage = v] \in Telling(h)
<1>1. s \in Speaking
  BY DEF Telling
<1>2. PICK t \in Speaking : t = [s EXCEPT !.pending_usage = v]
  BY <1>1, SpeakingUpdates
<1>3. /\ t.win = s.win /\ t.blocks = s.blocks /\ t.out = s.out
      /\ t.text_index = s.text_index /\ t.thinking_index = s.thinking_index
  BY <1>1, <1>2 DEF Speaking, StateSet
<1>4. t \in Telling(h)
  BY <1>3, TellingSame
<1> QED
  BY <1>2, <1>4

LEMMA FinishTells ==
  ASSUME NEW h \in Hearings, NEW s \in Telling(h), NEW c \in CanonChunk
  PROVE  finish_section(s, c) \in Begot(h)
<1>1. CASE c.finish = "none"
  BY <1>1, TellingBegot DEF finish_section
<1>2. CASE c.finish # "none"
  <2>1. c.finish \in FinishReasons /\ c.usage \in Usages
    BY <1>2 DEF CanonChunk
  <2>2. PICK sr \in StopReasons : sr = map_stop_reason_outbound(c.finish)
    BY <2>1, ReasonType
  <2>3. emit_terminal(s, sr, c.usage) \in Begot(h)
    BY <2>1, TerminalTells
  <2>4. [s EXCEPT !.stop_reason = sr] \in Begot(h)
    BY StopReasonStays, TellingBegot
  <2>5. finish_section(s, c) =
          IF c.usage.given THEN emit_terminal(s, sr, c.usage) ELSE [s EXCEPT !.stop_reason = sr]
    BY <1>2, <2>2 DEF finish_section
  <2> QED
    BY <2>3, <2>4, <2>5
<1> QED
  BY <1>1, <1>2

LEMMA TrailerTells ==
  ASSUME NEW h \in Hearings, NEW s \in Telling(h), NEW c \in CanonChunk
  PROVE  trailer(s, c) \in Begot(h)
<1>1. c.usage \in Usages /\ s \in Speaking
  BY DEF CanonChunk, Telling
<1>2. CASE s.stop_reason = "none"
  BY <1>1, <1>2, PendingStays, TellingBegot DEF trailer
<1>3. CASE s.stop_reason # "none"
  <2>1. s.stop_reason \in StopReasons
    BY <1>1, <1>3, SpeakingFields
  <2>2. PICK t \in Telling(h) : t = [s EXCEPT !.stop_reason = "none"]
    BY StopReasonStays
  <2>3. emit_terminal(t, s.stop_reason, c.usage) \in Begot(h)
    BY <1>1, <2>1, TerminalTells
  <2> QED
    BY <1>3, <2>2, <2>3 DEF trailer
<1> QED
  BY <1>2, <1>3

-----------------------------------------------------------------------------
(* The beginning of a turn                                                 *)
Nothing == [ch \in Channels |-> <<>>]

Blank(s) ==
  /\ s.blocks = <<>> /\ s.win = NewWindow /\ s.out = <<>>
  /\ s.text_index = NoIndex /\ s.thinking_index = NoIndex

LEMMA PreambleTells ==
  ASSUME NEW h \in Hearings, NEW s \in Telling(h), NEW c \in CanonChunk
  PROVE  preamble(s, c) \in Telling(h)
<1>1. s \in Speaking
  BY DEF Telling
<1>2. PICK t \in Speaking : t = preamble(s, c)
  BY <1>1, PreambleType
<1>3. ~s.first /\ s \in StateSet
  BY <1>1 DEF Speaking
<1>4. /\ t.win = s.win /\ t.blocks = s.blocks /\ t.out = s.out
      /\ t.text_index = s.text_index /\ t.thinking_index = s.thinking_index
  BY <1>2, <1>3 DEF preamble, StateSet
<1>5. t \in Telling(h)
  BY <1>4, TellingSame
<1> QED
  BY <1>2, <1>5

LEMMA PreambleBegins ==
  ASSUME NEW s \in Silent, Blank(s), NEW c \in CanonChunk
  PROVE  preamble(s, c) \in Telling(Nothing)
<1>1. PICK t \in Speaking : t = preamble(s, c)
  BY PreambleType
<1>2. s.first /\ s \in StateSet
  BY DEF Silent
<1>3. PICK n \in Nat : n = IF c.input_tokens > 0 THEN c.input_tokens ELSE s.input_tokens
  BY <1>2 DEF CanonChunk, NoTokens, StateSet
<1>4. PICK f \in Frames : f = MessageStart(n) /\ f.kind = "none"
  BY FrameTypes DEF Speech, MessageStart, Frame
<1>5. PICK o \in Seq(Frames) : o = <<>> /\ o = s.out
  BY <1>2 DEF StateSet, Blank
<1>6. /\ t.win = NewWindow /\ t.blocks = <<>> /\ t.out = Append(o, f)
      /\ t.text_index = NoIndex /\ t.thinking_index = NoIndex
  BY <1>1, <1>2, <1>3, <1>4, <1>5 DEF preamble, Push, StateSet, Blank
<1>7. Len(t.blocks) = 0 /\ ~(NoIndex \in 0 .. 0 - 1)
  BY <1>6, EmptySeq DEF NoIndex
<1>8. \A ch \in Channels : Ix(t, ch) = NoIndex /\ ~BlockOpen(t, Ix(t, ch))
  BY <1>6, <1>7 DEF Ix, BlockOpen
<1>9. Placed(t)
  <2>1. t.win.tail = <<>> /\ t.win.matched = <<>> /\ t.win.block = NoBlock
    BY <1>6 DEF NewWindow
  <2> QED
    BY <1>7, <1>8, <2>1 DEF Placed, Anchored, Slotted, NoBlock
<1>10. Survives(t.win, t.out, Nothing)
  <2> SUFFICES ASSUME NEW ch \in Channels
               PROVE  /\ Begins(ShownBy(t.out, ch), Nothing[ch])
                      /\ Nothing[ch] = ShownBy(t.out, ch) \o Kept(t.win, ch)
    BY DEF Survives
  <2>1. f.kind # DeltaOf(ch)
    BY <1>4 DEF DeltaOf
  <2>2. ShownBy(t.out, ch) = <<>>
    <3>1. ShownBy(<<>>, ch) = <<>>
      BY EmptyAlong DEF ShownBy
    <3>2. ShownBy(Append(o, f), ch) = ShownBy(o, ch)
      BY <2>1, ShownAppend
    <3> QED
      BY <1>5, <1>6, <3>1, <3>2
  <2>3. Nothing[ch] = <<>> /\ Kept(t.win, ch) = <<>>
    BY <1>6 DEF Nothing, Kept, NewWindow
  <2>4. <<>> \in Texts
    BY EmptySeq DEF Texts
  <2>5. <<>> \o <<>> = <<>>
    BY <2>4, ConcatEmptySeq DEF Texts
  <2> QED
    BY <2>2, <2>3, <2>4, <2>5, BeginsLaws
<1> QED
  BY <1>1, <1>9, <1>10 DEF Telling

(* What h became once chunk c was heard *)
Hears(h, c) == Said(Said(h, "thinking", ThoughtOf(c)), "text", c.delta_text)

LEMMA SaidBoth ==
  ASSUME NEW h \in Hearings, NEW e \in Texts
  PROVE  /\ Said(h, "thinking", e) \in Hearings
         /\ Said(h, "thinking", e)["thinking"] = h["thinking"] \o e
         /\ Said(h, "thinking", e)["text"] = h["text"]
         /\ Said(h, "text", e) \in Hearings
         /\ Said(h, "text", e)["text"] = h["text"] \o e
         /\ Said(h, "text", e)["thinking"] = h["thinking"]
<1>1. /\ "text" \in Channels /\ "thinking" \in Channels /\ "text" # "thinking"
  BY DEF Channels
<1>2. /\ Said(h, "thinking", e) \in Hearings
      /\ \A c \in Channels : Said(h, "thinking", e)[c] = IF c = "thinking" THEN h[c] \o e ELSE h[c]
  BY <1>1, SaidType
<1>3. /\ Said(h, "text", e) \in Hearings
      /\ \A c \in Channels : Said(h, "text", e)[c] = IF c = "text" THEN h[c] \o e ELSE h[c]
  BY <1>1, SaidType
<1>4. /\ Said(h, "thinking", e)["thinking"] = h["thinking"] \o e
      /\ Said(h, "thinking", e)["text"] = h["text"]
  BY <1>1, <1>2
<1>5. /\ Said(h, "text", e)["text"] = h["text"] \o e
      /\ Said(h, "text", e)["thinking"] = h["thinking"]
  BY <1>1, <1>3
<1> QED
  BY <1>2, <1>3, <1>4, <1>5

LEMMA HearsType ==
  ASSUME NEW h \in Hearings, NEW c \in CanonChunk
  PROVE  /\ Said(h, "thinking", ThoughtOf(c)) \in Hearings
         /\ Hears(h, c) \in Hearings
         /\ Hears(h, c)["text"] = h["text"] \o c.delta_text
         /\ Hears(h, c)["thinking"] = h["thinking"] \o ThoughtOf(c)
<1>1. /\ "text" \in Channels /\ "thinking" \in Channels /\ "text" # "thinking"
  BY DEF Channels
<1>2. ThoughtOf(c) \in Texts /\ c.delta_text \in Texts
  BY EmptySeq DEF CanonChunk, ThoughtOf, Texts
<1>3. PICK e \in Texts : e = ThoughtOf(c)
  BY <1>2
<1>4. PICK g \in Hearings : /\ g = Said(h, "thinking", e)
                            /\ g["thinking"] = h["thinking"] \o e
                            /\ g["text"] = h["text"]
  BY <1>1, SaidBoth
<1>5. PICK d \in Texts : d = c.delta_text
  BY <1>2
<1>6. PICK j \in Hearings : /\ j = Said(g, "text", d)
                            /\ j["text"] = g["text"] \o d
                            /\ j["thinking"] = g["thinking"]
  BY <1>1, SaidBoth
<1>7. j = Hears(h, c)
  BY <1>4, <1>5, <1>6, <1>3 DEF Hears
<1> QED
  BY <1>4, <1>5, <1>6, <1>7, <1>3

LEMMA ChunkTells ==
  ASSUME NEW h \in Hearings, NEW s \in Silent \cup Speaking, NEW c \in CanonChunk,
         preamble(s, c) \in Telling(h)
  PROVE  chunk_to_sse_events(s, c) \in Begot(Hears(h, c))
<1>1. ~s.message_stopped
  BY DEF Silent, Speaking
<1>2. PICK t \in Telling(h) : t = preamble(s, c)
  OBVIOUS
<1>3. PICK g \in Hearings : g = Said(h, "thinking", ThoughtOf(c))
  BY HearsType
<1>4. PICK j \in Hearings : j = Said(g, "text", c.delta_text) /\ j = Hears(h, c)
  BY <1>3, HearsType DEF Hears
<1>5. CASE is_trailer(c)
  <2>1. trailer(t, c) \in Begot(h)
    BY TrailerTells
  <2>2. ThoughtOf(c) = <<>> /\ c.delta_text = <<>>
    BY <1>5 DEF is_trailer, ThoughtOf
  <2>3. "text" \in Channels /\ "thinking" \in Channels
    BY DEF Channels
  <2>4. g = h
    BY <1>3, <2>2, <2>3, SaidNothing
  <2>5. j = h
    BY <1>4, <2>2, <2>3, <2>4, SaidNothing
  <2> QED
    BY <1>1, <1>2, <1>4, <1>5, <2>1, <2>5 DEF chunk_to_sse_events
<1>6. CASE ~is_trailer(c)
  <2>1. PICK u \in Telling(g) : u = thinking_section(t, c)
    BY <1>3, ThinkingTells
  <2>2. PICK v \in Telling(j) : v = text_section(u, c)
    BY <1>4, TextTells
  <2>3. PICK x \in Telling(j) : x = tool_section(v, c)
    BY TellingTools
  <2>4. finish_section(x, c) \in Begot(j)
    BY FinishTells
  <2> QED
    BY <1>1, <1>2, <1>4, <1>6, <2>1, <2>2, <2>3, <2>4 DEF chunk_to_sse_events
<1> QED
  BY <1>5, <1>6

-----------------------------------------------------------------------------
(* What the upstream said on each channel                                  *)
SpokenOn(ch) == [c \in Chunks |-> IF ch = "text" THEN c.delta_text ELSE ThoughtOf(c)]

Heard(q) == [ch \in Channels |-> Along(SpokenOn(ch), q)]

LEMMA HeardNothing == Heard(<<>>) = Nothing
  BY EmptyAlong DEF Heard, Nothing

LEMMA HeardMore ==
  ASSUME NEW q \in Seq(Chunks)
  PROVE  /\ Heard(q) \in Hearings
         /\ \A c \in Chunks : Heard(Append(q, c)) = Hears(Heard(q), c)
<1>1. ASSUME NEW ch \in Channels
      PROVE  /\ Along(SpokenOn(ch), q) \in Texts
             /\ \A c \in Chunks : Along(SpokenOn(ch), Append(q, c))
                                    = Along(SpokenOn(ch), q) \o SpokenOn(ch)[c]
  <2>1. \A c \in Chunks : c \in CanonChunk
    BY ChunksAssumption
  <2>2. \A c \in Chunks : c.delta_text \in Seq(Char) /\ ThoughtOf(c) \in Seq(Char)
    BY <2>1, EmptySeq DEF CanonChunk, ThoughtOf, Texts
  <2>3. PICK X : X = Char
    OBVIOUS
  <2>4. PICK G \in [Chunks -> Seq(X)] : G = SpokenOn(ch)
    BY <2>2, <2>3 DEF SpokenOn
  <2>5. Along(G, q) \in Seq(X)
    BY AlongType
  <2>6. \A c \in Chunks : Along(G, Append(q, c)) = Along(G, q) \o G[c]
    BY AlongAppend, SMTT(60)
  <2> QED
    BY <2>3, <2>4, <2>5, <2>6 DEF Texts
<1>2. Heard(q) \in Hearings
  BY <1>1 DEF Heard, Hearings
<1>3. ASSUME NEW c \in Chunks PROVE Heard(Append(q, c)) = Hears(Heard(q), c)
  <2>1. c \in CanonChunk
    BY ChunksAssumption
  <2>2. PICK h \in Hearings : h = Heard(q)
    BY <1>2
  <2>3. PICK g \in Hearings : /\ g = Hears(h, c)
                              /\ g["text"] = h["text"] \o c.delta_text
                              /\ g["thinking"] = h["thinking"] \o ThoughtOf(c)
    BY <2>1, HearsType
  <2>4. "text" \in Channels /\ "thinking" \in Channels
    BY DEF Channels
  <2>5. /\ h["text"] = Along(SpokenOn("text"), q)
        /\ h["thinking"] = Along(SpokenOn("thinking"), q)
    BY <2>2, <2>4 DEF Heard
  <2>6. SpokenOn("text")[c] = c.delta_text /\ SpokenOn("thinking")[c] = ThoughtOf(c)
    BY DEF SpokenOn
  <2>7. \A ch \in Channels : Along(SpokenOn(ch), Append(q, c)) = g[ch]
    <3>1. Along(SpokenOn("text"), Append(q, c)) = g["text"]
      BY <1>1, <2>3, <2>4, <2>5, <2>6
    <3>2. Along(SpokenOn("thinking"), Append(q, c)) = g["thinking"]
      BY <1>1, <2>3, <2>4, <2>5, <2>6
    <3> QED
      BY <3>1, <3>2 DEF Channels
  <2>8. Heard(Append(q, c)) = g
    BY <2>7 DEF Heard, Hearings
  <2> QED
    BY <2>2, <2>3, <2>8
<1> QED
  BY <1>2, <1>3

(* The invariant behind the text: a turn that was not begun is blank, one  *)
(* that goes on keeps its text and its places, one that ended its text.    *)
TInv ==
  /\ IInv
  /\ st \in Silent => Blank(st) /\ heard = <<>>
  /\ st \in Speaking => st \in Telling(Heard(heard))
  /\ st \in Tells(Heard(heard))

LEMMA BlankTells ==
  ASSUME NEW s \in StateSet, Blank(s)
  PROVE  s \in Tells(Nothing)
<1>1. <<>> \in Texts
  BY EmptySeq DEF Texts
<1>2. <<>> \o <<>> = <<>>
  BY <1>1, ConcatEmptySeq DEF Texts
<1>3. \A ch \in Channels : ShownBy(s.out, ch) = <<>> /\ Nothing[ch] = <<>> /\ Kept(s.win, ch) = <<>>
  BY EmptyAlong DEF ShownBy, Blank, Nothing, Kept, NewWindow
<1>4. Survives(s.win, s.out, Nothing)
  BY <1>1, <1>2, <1>3, BeginsLaws DEF Survives
<1>5. s.win.tail = <<>>
  BY DEF Blank, NewWindow
<1> QED
  BY <1>4, <1>5 DEF Tells

LEMMA InitTInv == Init => TInv
<1> SUFFICES ASSUME Init PROVE TInv
  OBVIOUS
<1>1. IInv
  BY InitIInv
<1>2. st \in StateSet /\ heard = <<>> /\ st.first /\ Blank(st)
  BY <1>1, ReachableParts DEF IInv, Init, NewState, Blank
<1>3. st \notin Speaking
  BY <1>2 DEF Speaking
<1>4. st \in Tells(Heard(heard))
  BY <1>2, BlankTells, HeardNothing
<1> QED
  BY <1>1, <1>2, <1>3, <1>4 DEF TInv

LEMMA ErrorTells ==
  ASSUME NEW h, NEW s \in Tells(h), NEW t \in StateSet,
         t = Push([s EXCEPT !.message_stopped = TRUE], ErrorFrame)
  PROVE  t \in Tells(h)
<1>1. PICK o \in Seq(Frames) : o = s.out
  BY DEF Tells, StateSet
<1>2. PICK f \in Frames : f = ErrorFrame /\ f.kind = "none" /\ f.ev = "error"
  BY FrameTypes DEF ErrorFrame, Frame
<1>3. t.out = Append(o, f) /\ t.win = s.win
  BY <1>1, <1>2 DEF Push, Tells, StateSet
<1>4. Continues(t.out, o) /\ t.out[Len(t.out)] = f
  BY <1>3, GrowByOne
<1>5. Fresh(t.out) => Fresh(o)
  BY <1>4, FreshBefore
<1>6. \A ch \in Channels : f.kind # DeltaOf(ch)
  BY <1>2 DEF DeltaOf
<1>7. \A ch \in Channels : ShownBy(t.out, ch) = ShownBy(o, ch)
  BY <1>3, <1>6, ShownAppend
<1>8. Survives(s.win, o, h) => Survives(t.win, t.out, h)
  BY <1>3, <1>7 DEF Survives
<1>9. ~Complete(t.out)
  BY <1>2, <1>4 DEF Complete
<1> QED
  BY <1>1, <1>5, <1>8, <1>9 DEF Tells

LEMMA StepTInv == TInv /\ [Next]_vars => TInv'
<1> SUFFICES ASSUME TInv, [Next]_vars PROVE TInv'
  OBVIOUS
<1>0. IInv'
  BY StepIInv DEF TInv
<1>1. st \in Reachable /\ heard \in Seq(Chunks) /\ st \in StateSet
  BY ReachableParts DEF TInv, IInv
<1>2. PICK h \in Hearings : h = Heard(heard)
  BY <1>1, HeardMore
<1>3. st' \in StateSet
  BY <1>0, ReachableParts DEF IInv
<1>4. ASSUME st' = st, heard' = heard PROVE TInv'
  BY <1>0, <1>4 DEF TInv, Blank
<1>5. ASSUME st' \in Begot(Heard(heard')) PROVE TInv'
  <2>1. ~st'.first /\ st' \in Tells(Heard(heard'))
        /\ (st' \in Speaking => st' \in Telling(Heard(heard')))
    BY <1>5 DEF Begot
  <2>2. st' \notin Silent
    BY <2>1 DEF Silent
  <2> QED
    BY <1>0, <2>1, <2>2 DEF TInv
<1>6. ASSUME NEW c \in Chunks, Chunk(c), ~st.message_stopped PROVE TInv'
  <2>1. c \in CanonChunk /\ st \in Silent \cup Speaking
    BY <1>1, <1>6, ChunksAssumption, ReachableParts
  <2>2. st' = chunk_to_sse_events(st, c) /\ heard' = Append(heard, c)
    BY <1>6 DEF Chunk
  <2>3. preamble(st, c) \in Telling(h)
    <3>1. CASE st \in Speaking
      BY <1>2, <2>1, <3>1, PreambleTells DEF TInv
    <3>2. CASE st \in Silent
      <4>1. h = Nothing /\ Blank(st)
        BY <1>2, <3>2, HeardNothing DEF TInv
      <4> QED
        BY <2>1, <3>2, <4>1, PreambleBegins
    <3> QED
      BY <2>1, <3>1, <3>2
  <2>4. st' \in Begot(Hears(h, c))
    BY <2>1, <2>2, <2>3, ChunkTells
  <2>5. Heard(heard') = Hears(h, c)
    BY <1>1, <1>2, <2>2, HeardMore
  <2> QED
    BY <1>5, <2>4, <2>5
<1>7. ASSUME NEW c \in Chunks, Chunk(c), st.message_stopped PROVE TInv'
  BY <1>4, <1>7 DEF Chunk, chunk_to_sse_events
<1>8. ASSUME Fail PROVE TInv'
  <2>1. st' = Push([st EXCEPT !.message_stopped = TRUE], ErrorFrame) /\ heard' = heard
    BY <1>8 DEF Fail
  <2>2. st' \in Tells(Heard(heard'))
    BY <1>3, <2>1, ErrorTells DEF TInv
  <2>3. st'.message_stopped
    BY <1>1, <2>1 DEF Push, StateSet
  <2>4. st' \notin Silent /\ st' \notin Speaking
    BY <2>3 DEF Silent, Speaking
  <2> QED
    BY <1>0, <2>2, <2>4 DEF TInv
<1>9. ASSUME End PROVE TInv'
  <2>1. st' = finalize_stream(st) /\ heard' = heard
    BY <1>9 DEF End
  <2>2. CASE st.message_stopped
    BY <1>4, <2>1, <2>2 DEF finalize_stream
  <2>3. CASE st \in Silent
    <3>1. st' = [st EXCEPT !.message_stopped = TRUE]
      BY <2>1, <2>3 DEF finalize_stream, Silent
    <3>2. st'.out = st.out /\ st'.win = st.win /\ st'.message_stopped
      BY <1>1, <3>1 DEF StateSet
    <3>3. st' \in Tells(Heard(heard'))
      BY <1>3, <2>1, <3>2 DEF TInv, Tells
    <3>4. st' \notin Silent /\ st' \notin Speaking
      BY <3>2 DEF Silent, Speaking
    <3> QED
      BY <1>0, <3>3, <3>4 DEF TInv
  <2>4. CASE st \in Speaking
    <3>1. PICK reason \in StopReasons :
            reason = IF st.stop_reason = "none" THEN "end_turn" ELSE st.stop_reason
      BY <2>4, SpeakingFields DEF StopReasons
    <3>2. PICK u \in Usages : u = st.pending_usage
      BY <2>4, SpeakingFields
    <3>3. NoUsage \in Usages
      BY DEF NoUsage, Usages
    <3>4. st \in Telling(h)
      BY <1>2, <2>4 DEF TInv
    <3>5. PICK t \in Telling(h) : t = [st EXCEPT !.stop_reason = "none"]
      BY <3>4, StopReasonStays
    <3>6. PICK v \in Telling(h) : v = [t EXCEPT !.pending_usage = NoUsage]
      BY <3>3, PendingStays
    <3>7. v = [st EXCEPT !.stop_reason = "none", !.pending_usage = NoUsage]
      BY <1>1, <3>5, <3>6 DEF StateSet
    <3>8. emit_terminal(v, reason, u) \in Begot(h)
      BY TerminalTells
    <3>9. st' = emit_terminal(v, reason, u)
      BY <2>1, <2>4, <3>1, <3>2, <3>7, SpeakingFields, Zenon DEF finalize_stream
    <3> QED
      BY <1>2, <1>5, <2>1, <3>8, <3>9
  <2> QED
    BY <1>1, <2>2, <2>3, <2>4, ReachableParts
<1>10. CASE UNCHANGED vars
  BY <1>4, <1>10 DEF vars
<1> QED
  BY <1>6, <1>7, <1>8, <1>9, <1>10 DEF Next

(* Stop sequences never cost the client text it is owed, for every set of  *)
(* chunks, list of stop sequences and bound, on every body that starts no  *)
(* block index twice (filtered, flush_stop_tail, open_block).              *)
THEOREM TextAlwaysSurvives == Spec => [](FreshIndices => TextSurvives)
<1>1. TInv => (FreshIndices => TextSurvives)
  <2> SUFFICES ASSUME TInv, FreshIndices PROVE TextSurvives
    OBVIOUS
  <2>1. PICK o \in Seq(Frames) : o = out
    BY DEF TInv, Tells, StateSet, out
  <2>2. PICK q \in Seq(Chunks) : q = heard
    BY DEF TInv, IInv
  <2>3. PICK h \in Hearings : h = Heard(q)
    BY HeardMore
  <2>4. DOMAIN o = 1 .. Len(o)
    OBVIOUS
  <2>5. Fresh(o)
    BY <2>1, <2>4 DEF FreshIndices, Fresh
  <2>6. Survives(st.win, o, h) /\ (Complete(o) => st.win.tail = <<>>)
    BY <2>1, <2>2, <2>3, <2>5 DEF TInv, Tells, out
  <2>7. Shown("text_delta") = ShownBy(o, "text") /\ Shown("thinking_delta") = ShownBy(o, "thinking")
    <3>1. ASSUME NEW ch \in Channels PROVE Shown(DeltaOf(ch)) = ShownBy(o, ch)
      <4>1. \A k \in DOMAIN o : ShownOn(ch)[o[k]] = IF o[k].kind = DeltaOf(ch) THEN o[k].text ELSE <<>>
        BY DEF ShownOn
      <4>2. [k \in DOMAIN o |-> IF o[k].kind = DeltaOf(ch) THEN o[k].text ELSE <<>>]
              = Each(ShownOn(ch), o)
        BY <4>1, Zenon DEF Each
      <4> QED
        BY <2>1, <4>2 DEF Shown, ShownBy, Along
    <3> QED
      BY <3>1 DEF Channels, DeltaOf
  <2>8. HeardText = h["text"] /\ HeardThinking = h["thinking"]
    <3>1. \A k \in DOMAIN q : /\ SpokenOn("text")[q[k]] = q[k].delta_text
                              /\ SpokenOn("thinking")[q[k]] = ThoughtOf(q[k])
      BY DEF SpokenOn
    <3>2. [k \in DOMAIN q |-> q[k].delta_text] = Each(SpokenOn("text"), q)
      BY <3>1, Zenon DEF Each
    <3>3. [k \in DOMAIN q |-> IF q[k].thinking.kind = "thinking" THEN q[k].thinking.text ELSE <<>>]
            = Each(SpokenOn("thinking"), q)
      BY <3>1, Zenon DEF Each, ThoughtOf
    <3>4. h["text"] = Along(SpokenOn("text"), q) /\ h["thinking"] = Along(SpokenOn("thinking"), q)
      BY <2>3 DEF Heard, Channels
    <3>5. HeardText = h["text"]
      BY <2>2, <3>2, <3>4 DEF HeardText, Along
    <3>6. HeardThinking = h["thinking"]
      BY <2>2, <3>3, <3>4 DEF HeardThinking, Along
    <3> QED
      BY <3>5, <3>6
  <2>9. /\ h["text"] \in Texts /\ h["thinking"] \in Texts
        /\ ShownBy(o, "text") \in Texts /\ ShownBy(o, "thinking") \in Texts
    <3>1. "text" \in Channels /\ "thinking" \in Channels
      BY DEF Channels
    <3>2. PICK f \in Frames : f = BlockStop(0)
      BY FrameTypes DEF Speech
    <3>3. \A ch \in Channels : ShownBy(o, ch) \in Texts
      BY ShownAppend
    <3> QED
      BY <3>1, <3>3 DEF Hearings
  <2>10. ASSUME NEW ch \in Channels
         PROVE  /\ Begins(ShownBy(o, ch), h[ch])
                /\ st.win.matched = <<>> => h[ch] = ShownBy(o, ch) \o Withheld(ch)
    BY <2>6 DEF Survives, Kept, Withheld
  <2>11. /\ IsPrefix(ShownBy(o, "text"), h["text"])
         /\ IsPrefix(ShownBy(o, "thinking"), h["thinking"])
    BY <2>9, <2>10, BeginsLaws DEF Channels
  <2>12. Completed => Complete(o)
    BY <2>1 DEF Completed, Complete
  <2> QED
    BY <2>6, <2>7, <2>8, <2>10, <2>11, <2>12 DEF TextSurvives, Channels
<1> QED
  BY <1>1, InitTInv, StepTInv, PTL DEF Spec

-----------------------------------------------------------------------------
(* Frames that neither start a block nor carry arguments, and what a step  *)
(* that is not about a tool call does: it adds such frames and closes      *)
(* blocks, or it starts a block of a channel in the next free slot.        *)
Tame == {f \in Frames : f.ev # "content_block_start" /\ f.kind # "input_json_delta"}

Lengthens(o, p) == \E q \in Seq(Tame) : p = o \o q

Quietly(s, v) ==
  /\ v.tool_base_index = s.tool_base_index
  /\ v.blocks = s.blocks \/ \E n \in Nat : v.blocks = Stopped(s.blocks, n)
  /\ Lengthens(s.out, v.out)

StartsNext(s, v) ==
  /\ v.tool_base_index = s.tool_base_index
  /\ v.blocks = Opened(s.blocks, Len(s.blocks))
  /\ \E kind \in {"text", "thinking"} : v.out = Append(s.out, BlockStart(Len(s.blocks), kind))

(* Sets of states that such frames cannot leave, and that nothing but tool *)
(* calls and the end of a turn can leave                                   *)
Calm(C) ==
  /\ C \subseteq Speaking
  /\ \A s \in C, v \in Speaking : Quietly(s, v) => v \in C

Steady(C) ==
  /\ Calm(C)
  /\ \A s \in C, v \in Speaking : StartsNext(s, v) => v \in C

LEMMA TameFrames ==
  /\ \A n \in Nat : MessageStart(n) \in Tame
  /\ \A i \in Nat, k \in {"text_delta", "thinking_delta", "signature_delta"}, t \in Texts :
       BlockDelta(i, k, t) \in Tame
  /\ \A i \in Nat : BlockStop(i) \in Tame
  /\ \A r \in StopReasons, t \in Texts, u \in WireUsages : MessageDelta(r, t, u) \in Tame
  /\ MessageStop \in Tame
  /\ ErrorFrame \in Tame
<1>1. /\ \A n \in Nat : MessageStart(n) \in Frames
      /\ \A i \in Nat, k \in {"text_delta", "thinking_delta", "signature_delta"}, t \in Texts :
           BlockDelta(i, k, t) \in Frames
      /\ \A i \in Nat : BlockStop(i) \in Frames
      /\ \A r \in StopReasons, t \in Texts, u \in WireUsages : MessageDelta(r, t, u) \in Frames
      /\ MessageStop \in Frames
      /\ ErrorFrame \in Frames
  BY FrameTypes DEF Speech, DeltaKinds
<1> QED
  BY <1>1 DEF Tame, Frame, MessageStart, BlockDelta, BlockStop, MessageDelta, MessageStop,
     ErrorFrame, StopReasons

LEMMA AddsNothing ==
  ASSUME NEW o \in Seq(Frames)
  PROVE  Lengthens(o, o)
<1>1. <<>> \in Seq(Tame) /\ o = o \o <<>>
  BY EmptySeq, ConcatEmptySeq
<1> QED
  BY <1>1 DEF Lengthens

LEMMA AddsOne ==
  ASSUME NEW o \in Seq(Frames), NEW f \in Tame
  PROVE  Lengthens(o, Append(o, f))
<1>1. f \in Frames
  BY DEF Tame
<1>2. Append(o, f) = o \o <<f>>
  BY <1>1, AppendIsConcat
<1>3. <<f>> \in Seq(Tame)
  OBVIOUS
<1> QED
  BY <1>2, <1>3 DEF Lengthens

LEMMA CalmSame ==
  ASSUME NEW C, Calm(C), NEW s \in C, NEW v \in Speaking,
         v.tool_base_index = s.tool_base_index, v.blocks = s.blocks, v.out = s.out
  PROVE  v \in C
<1>1. s.out \in Seq(Frames)
  BY SpeakingFields, SpeechIsFrames DEF Calm
<1>2. Quietly(s, v)
  BY <1>1, AddsNothing DEF Quietly
<1> QED
  BY <1>2 DEF Calm

LEMMA CalmPush ==
  ASSUME NEW C, Calm(C), NEW s \in C, NEW f \in Speech, f \in Tame
  PROVE  Push(s, f) \in C
<1>1. s \in Speaking
  BY DEF Calm
<1>2. PICK v \in Speaking : v = Push(s, f)
  BY <1>1, PushType
<1>3. PICK o \in Seq(Frames) : o = s.out
  BY <1>1, SpeakingFields, SpeechIsFrames
<1>4. v.tool_base_index = s.tool_base_index /\ v.blocks = s.blocks /\ v.out = Append(o, f)
  BY <1>1, <1>2, <1>3 DEF Push, Speaking, StateSet
<1>5. Quietly(s, v)
  BY <1>3, <1>4, AddsOne DEF Quietly
<1> QED
  BY <1>2, <1>5 DEF Calm

LEMMA CalmFlush ==
  ASSUME NEW C, Calm(C), NEW s \in C
  PROVE  flush_stop_tail(s) \in C
<1>0. s \in Speaking
  BY DEF Calm
<1>1. PICK w \in Windows : w = s.win
  BY <1>0, SpeakingFields
<1>2. TakeTail(w) \in Windows
  BY EmptySeq DEF TakeTail, Windows, Texts
<1>3. PICK t \in Speaking : t = [s EXCEPT !.win = TakeTail(w)]
  BY <1>0, <1>2, SpeakingUpdates
<1>4. t.tool_base_index = s.tool_base_index /\ t.blocks = s.blocks /\ t.out = s.out
  BY <1>0, <1>3 DEF Speaking, StateSet
<1>5. t \in C
  BY <1>4, CalmSame
<1>6. CASE ~HasTail(s.win) \/ ~BlockOpen(s, w.block)
  BY <1>1, <1>3, <1>5, <1>6 DEF flush_stop_tail
<1>7. CASE HasTail(s.win) /\ BlockOpen(s, w.block)
  <2>1. w.block \in Nat
    BY <1>0, <1>7, OpenIsNat DEF Windows
  <2>2. PICK f \in Speech :
          /\ f = BlockDelta(w.block, IF w.kind = "thinking" THEN "thinking_delta" ELSE "text_delta",
                            w.tail)
          /\ f \in Tame
    BY <2>1, FrameTypes, TameFrames DEF Windows, DeltaKinds
  <2>3. flush_stop_tail(s) = Push(t, f)
    BY <1>1, <1>3, <1>7, <2>2 DEF flush_stop_tail
  <2> QED
    BY <1>5, <2>2, <2>3, CalmPush
<1> QED
  BY <1>6, <1>7

LEMMA CalmStop ==
  ASSUME NEW C, Calm(C), NEW s \in C, NEW n \in Nat
  PROVE  StopBelow(s, n) \in C
<1>1. s \in Speaking
  BY DEF Calm
<1>2. PICK q \in Seq(Stops) :
        StopBelow(s, n) = [s EXCEPT !.blocks = Stopped(s.blocks, n), !.out = s.out \o q]
  BY <1>1, StopBelowFrames
<1>3. PICK v \in Speaking : v = StopBelow(s, n)
  BY <1>1, StopBelowType
<1>4. /\ v.tool_base_index = s.tool_base_index /\ v.blocks = Stopped(s.blocks, n)
      /\ v.out = s.out \o q
  BY <1>1, <1>2, <1>3 DEF Speaking, StateSet
<1>5. q \in Seq(Tame)
  <2>1. Stops \subseteq Tame
    BY TameFrames DEF Stops
  <2> QED
    BY <2>1, SeqMonotonic
<1>6. Quietly(s, v)
  BY <1>4, <1>5 DEF Quietly, Lengthens
<1> QED
  BY <1>3, <1>6 DEF Calm

LEMMA CalmClose ==
  ASSUME NEW C, Calm(C), NEW s \in C, NEW n \in Nat
  PROVE  close_block(s, n) \in C
  BY CalmFlush, CalmStop DEF close_block

LEMMA SteadyOpen ==
  ASSUME NEW C, Steady(C), NEW s \in C, NEW kind \in {"text", "thinking"}
  PROVE  open_block(s, next_index(s), kind) \in C
<1>c. Calm(C)
  BY DEF Steady
<1>0. s \in Speaking
  BY <1>c DEF Calm
<1>1. PICK idx \in Nat : idx = next_index(s) /\ idx = Len(s.blocks)
  BY <1>0, SpeakingFields DEF next_index
<1>2. PICK t \in C : t = flush_stop_tail(s)
  BY <1>c, CalmFlush
<1>3. t.blocks = s.blocks
  BY <1>0, <1>2, FlushType
<1>4. PICK u \in C : u = StopBelow(t, idx)
  BY <1>c, CalmStop
<1>5. t \in Speaking /\ u \in Speaking
  BY <1>c DEF Calm
<1>6. Len(u.blocks) = idx
  <2>1. PICK q \in Seq(Stops) : u = [t EXCEPT !.blocks = Stopped(t.blocks, idx), !.out = t.out \o q]
    BY <1>4, <1>5, StopBelowFrames
  <2>2. u.blocks = Stopped(t.blocks, idx)
    BY <1>5, <2>1 DEF Speaking, StateSet
  <2>3. t.blocks \in Seq(BOOLEAN) /\ Len(t.blocks) = idx
    BY <1>1, <1>3, <1>5, SpeakingFields
  <2> QED
    BY <2>2, <2>3, StoppedType
<1>7. PICK v \in Speaking : v = open_block(s, idx, kind)
  BY <1>0, OpenType DEF BlockKinds
<1>8. v = [u EXCEPT !.blocks = Opened(u.blocks, idx), !.out = Append(u.out, BlockStart(idx, kind))]
  BY <1>2, <1>4, <1>7, Zenon DEF open_block
<1>9. /\ v.tool_base_index = u.tool_base_index /\ v.blocks = Opened(u.blocks, idx)
      /\ v.out = Append(u.out, BlockStart(idx, kind))
  BY <1>5, <1>8 DEF Speaking, StateSet
<1>10. StartsNext(u, v)
  BY <1>6, <1>9 DEF StartsNext
<1> QED
  BY <1>1, <1>7, <1>10 DEF Steady

LEMMA SteadyReopen ==
  ASSUME NEW C, Steady(C), NEW s \in C, NEW idx \in Nat \cup {NoIndex}, NEW kind \in {"text", "thinking"}
  PROVE  reopen(s, idx, kind) \in C /\ slot(s, idx) \in Nat
<1>c. Calm(C)
  BY DEF Steady
<1>1. s \in Speaking
  BY <1>c DEF Calm
<1>2. slot(s, idx) \in Nat
  BY <1>1, ReopenType DEF BlockKinds
<1> QED
  BY <1>2, SteadyOpen DEF reopen

LEMMA CalmFiltered ==
  ASSUME NEW C, Calm(C), NEW s \in C, NEW idx \in Nat, NEW channel \in {"text", "thinking"},
         NEW kind \in {"text_delta", "thinking_delta"}, NEW text \in Texts
  PROVE  filtered(s, idx, channel, kind, text) \in C
<1>0. s \in Speaking
  BY DEF Calm
<1>d. \A x \in Texts : BlockDelta(idx, kind, x) \in Speech /\ BlockDelta(idx, kind, x) \in Tame
  BY FrameTypes, TameFrames DEF DeltaKinds
<1>1. CASE ~HasWindow
  BY <1>1, <1>d, CalmPush DEF filtered
<1>2. CASE HasWindow
  <2>1. PICK w \in Windows : w = s.win
    BY <1>0, SpeakingFields
  <2>2. PICK r : r = Feed(w, idx, channel, text)
    OBVIOUS
  <2>3. r.win \in Windows /\ r.emit \in Texts
    BY <2>2, FeedType
  <2>4. PICK t \in Speaking : t = [s EXCEPT !.win = r.win]
    BY <1>0, <2>3, SpeakingUpdates
  <2>5. t.tool_base_index = s.tool_base_index /\ t.blocks = s.blocks /\ t.out = s.out
    BY <1>0, <2>4 DEF Speaking, StateSet
  <2>6. t \in C
    BY <2>5, CalmSame
  <2>7. Push(t, BlockDelta(idx, kind, r.emit)) \in C
    BY <1>d, <2>3, <2>6, CalmPush
  <2>8. filtered(s, idx, channel, kind, text) =
          IF r.emit = <<>> THEN t ELSE Push(t, BlockDelta(idx, kind, r.emit))
    BY <1>2, <2>1, <2>2, <2>4 DEF filtered
  <2> QED
    BY <2>6, <2>7, <2>8
<1> QED
  BY <1>1, <1>2

LEMMA SteadyThinking ==
  ASSUME NEW C, Steady(C), NEW s \in C, NEW c \in CanonChunk
  PROVE  thinking_section(s, c) \in C
<1>c. Calm(C)
  BY DEF Steady
<1>0. s \in Speaking
  BY <1>c DEF Calm
<1>1. CASE c.thinking.kind = "none"
  BY <1>1 DEF thinking_section
<1>2. CASE c.thinking.kind # "none"
  <2>1. c.thinking.text \in Texts
    BY DEF CanonChunk
  <2>2. PICK i \in Nat : i = slot(s, s.thinking_index)
    BY <1>0, SpeakingFields, SteadyReopen
  <2>3. PICK u \in C : u = reopen(s, s.thinking_index, "thinking")
    BY <1>0, SpeakingFields, SteadyReopen
  <2>4. u \in Speaking
    BY <1>c DEF Calm
  <2>5. PICK t \in Speaking : t = [u EXCEPT !.thinking_index = i]
    BY <2>4, SpeakingUpdates
  <2>6. t.tool_base_index = u.tool_base_index /\ t.blocks = u.blocks /\ t.out = u.out
    BY <2>4, <2>5 DEF Speaking, StateSet
  <2>7. t \in C
    BY <1>c, <2>6, CalmSame
  <2>8. Push(t, BlockDelta(i, "signature_delta", c.thinking.text)) \in C
    BY <1>c, <2>1, <2>7, FrameTypes, TameFrames, CalmPush DEF DeltaKinds
  <2>9. filtered(t, i, "thinking", "thinking_delta", c.thinking.text) \in C
    BY <1>c, <2>1, <2>7, CalmFiltered
  <2> QED
    BY <1>2, <2>2, <2>3, <2>5, <2>8, <2>9 DEF thinking_section
<1> QED
  BY <1>1, <1>2

LEMMA SteadyText ==
  ASSUME NEW C, Steady(C), NEW s \in C, NEW c \in CanonChunk
  PROVE  text_section(s, c) \in C
<1>c. Calm(C)
  BY DEF Steady
<1>0. s \in Speaking
  BY <1>c DEF Calm
<1>1. CASE c.delta_text = <<>>
  BY <1>1 DEF text_section
<1>2. CASE c.delta_text # <<>>
  <2>1. c.delta_text \in Texts
    BY DEF CanonChunk
  <2>2. PICK i \in Nat : i = slot(s, s.text_index)
    BY <1>0, SpeakingFields, SteadyReopen
  <2>3. PICK u \in C : u = reopen(s, s.text_index, "text")
    BY <1>0, SpeakingFields, SteadyReopen
  <2>4. u \in Speaking
    BY <1>c DEF Calm
  <2>5. PICK t \in Speaking : t = [u EXCEPT !.text_index = i]
    BY <2>4, SpeakingUpdates
  <2>6. t.tool_base_index = u.tool_base_index /\ t.blocks = u.blocks /\ t.out = u.out
    BY <2>4, <2>5 DEF Speaking, StateSet
  <2>7. t \in C
    BY <1>c, <2>6, CalmSame
  <2>8. filtered(t, i, "text", "text_delta", c.delta_text) \in C
    BY <1>c, <2>1, <2>7, CalmFiltered
  <2> QED
    BY <1>2, <2>2, <2>3, <2>5, <2>8 DEF text_section
<1> QED
  BY <1>1, <1>2

LEMMA CalmPreamble ==
  ASSUME NEW C, Calm(C), NEW s \in C, NEW c \in CanonChunk
  PROVE  preamble(s, c) \in C
<1>1. s \in Speaking /\ ~s.first /\ s \in StateSet
  BY DEF Calm, Speaking
<1>2. PICK t \in Speaking : t = preamble(s, c)
  BY <1>1, PreambleType
<1>3. t.tool_base_index = s.tool_base_index /\ t.blocks = s.blocks /\ t.out = s.out
  BY <1>1, <1>2 DEF preamble, StateSet
<1> QED
  BY <1>2, <1>3, CalmSame

-----------------------------------------------------------------------------
(* What a turn that was in C becomes: it stays in C while it speaks, and   *)
(* its body is one of C with tame frames added.                            *)
Leaves(C) ==
  {v \in StateSet : /\ ~v.first
                    /\ v \in Speaking => v \in C
                    /\ \E t \in C : Lengthens(t.out, v.out)}

LEMMA CalmLeaves ==
  ASSUME NEW C, Calm(C), NEW s \in C
  PROVE  s \in Leaves(C)
<1>1. s \in Speaking /\ s \in StateSet /\ ~s.first
  BY DEF Calm, Speaking
<1>2. Lengthens(s.out, s.out)
  BY <1>1, SpeakingFields, SpeechIsFrames, AddsNothing
<1> QED
  BY <1>1, <1>2 DEF Leaves

LEMMA CalmTerminal ==
  ASSUME NEW C, Calm(C), NEW s \in C, NEW reason \in StopReasons, NEW u \in Usages
  PROVE  emit_terminal(s, reason, u) \in Leaves(C)
<1>1. s \in Speaking /\ Len(s.blocks) \in Nat
  BY SpeakingFields DEF Calm
<1>2. PICK t \in C : t = close_block(s, Len(s.blocks))
  BY <1>1, CalmClose
<1>3. t \in Speaking
  BY DEF Calm
<1>4. PICK e \in Finished : e = emit_terminal(s, reason, u)
  BY <1>1, TerminalType
<1>5. PICK v \in StopReasons, q \in Seq(Frames) : Terminates(e, t, u, v, q)
  BY <1>1, <1>2, <1>3, <1>4, TerminalShape
<1>6. q \in Seq(Tame)
  <2>1. Len(q) = 2 /\ q[1] = MessageDelta(v, t.win.matched, Wired(u, t.input_tokens)) /\ q[2] = MessageStop
    BY <1>5 DEF Terminates
  <2>2. t.win.matched \in Texts
    BY <1>3, SpeakingFields DEF Windows
  <2>3. Wired(u, t.input_tokens) \in WireUsages
    BY <1>3, SpeakingFields, WireUsageType DEF Wired
  <2>4. q[1] \in Tame /\ q[2] \in Tame
    BY <2>1, <2>2, <2>3, TameFrames
  <2>5. \A k \in 1 .. 2 : k = 1 \/ k = 2
    OBVIOUS
  <2>6. \A k \in 1 .. Len(q) : q[k] \in Tame
    BY <2>1, <2>4, <2>5
  <2> QED
    BY <2>6
<1>7. e.out = t.out \o q /\ e.message_stopped /\ e \in StateSet /\ e.first = t.first
  BY <1>3, <1>4, <1>5 DEF Terminates, Finished, Speaking, StateSet
<1>8. ~e.first /\ e \notin Speaking
  BY <1>3, <1>7, SpeakingFields
<1>9. Lengthens(t.out, e.out)
  BY <1>6, <1>7 DEF Lengthens
<1> QED
  BY <1>4, <1>7, <1>8, <1>9 DEF Leaves

LEMMA CalmReason ==
  ASSUME NEW C, Calm(C), NEW s \in C, NEW v \in StopReasons \cup {"none"}
  PROVE  [s EXCEPT !.stop_reason = v] \in C
<1>1. s \in Speaking
  BY DEF Calm
<1>2. PICK t \in Speaking : t = [s EXCEPT !.stop_reason = v]
  BY <1>1, SpeakingUpdates
<1>3. t.tool_base_index = s.tool_base_index /\ t.blocks = s.blocks /\ t.out = s.out
  BY <1>1, <1>2 DEF Speaking, StateSet
<1> QED
  BY <1>2, <1>3, CalmSame

LEMMA CalmPending ==
  ASSUME NEW C, Calm(C), NEW s \in C, NEW v \in Usages
  PROVE  [s EXCEPT !.pending_usage = v] \in C
<1>1. s \in Speaking
  BY DEF Calm
<1>2. PICK t \in Speaking : t = [s EXCEPT !.pending_usage = v]
  BY <1>1, SpeakingUpdates
<1>3. t.tool_base_index = s.tool_base_index /\ t.blocks = s.blocks /\ t.out = s.out
  BY <1>1, <1>2 DEF Speaking, StateSet
<1> QED
  BY <1>2, <1>3, CalmSame

LEMMA CalmFinish ==
  ASSUME NEW C, Calm(C), NEW s \in C, NEW c \in CanonChunk
  PROVE  finish_section(s, c) \in Leaves(C)
<1>1. CASE c.finish = "none"
  BY <1>1, CalmLeaves DEF finish_section
<1>2. CASE c.finish # "none"
  <2>1. c.finish \in FinishReasons /\ c.usage \in Usages
    BY <1>2 DEF CanonChunk
  <2>2. PICK sr \in StopReasons : sr = map_stop_reason_outbound(c.finish)
    BY <2>1, ReasonType
  <2>3. emit_terminal(s, sr, c.usage) \in Leaves(C)
    BY <2>1, CalmTerminal
  <2>4. [s EXCEPT !.stop_reason = sr] \in Leaves(C)
    BY CalmReason, CalmLeaves
  <2>5. finish_section(s, c) =
          IF c.usage.given THEN emit_terminal(s, sr, c.usage) ELSE [s EXCEPT !.stop_reason = sr]
    BY <1>2, <2>2 DEF finish_section
  <2> QED
    BY <2>3, <2>4, <2>5
<1> QED
  BY <1>1, <1>2

LEMMA CalmTrailer ==
  ASSUME NEW C, Calm(C), NEW s \in C, NEW c \in CanonChunk
  PROVE  trailer(s, c) \in Leaves(C)
<1>1. c.usage \in Usages /\ s \in Speaking
  BY DEF CanonChunk, Calm
<1>2. CASE s.stop_reason = "none"
  BY <1>1, <1>2, CalmPending, CalmLeaves DEF trailer
<1>3. CASE s.stop_reason # "none"
  <2>1. s.stop_reason \in StopReasons
    BY <1>1, <1>3, SpeakingFields
  <2>2. PICK t \in C : t = [s EXCEPT !.stop_reason = "none"]
    BY CalmReason
  <2>3. emit_terminal(t, s.stop_reason, c.usage) \in Leaves(C)
    BY <1>1, <2>1, CalmTerminal
  <2> QED
    BY <1>3, <2>2, <2>3 DEF trailer
<1> QED
  BY <1>2, <1>3

LEMMA CalmFinalize ==
  ASSUME NEW C, Calm(C), NEW s \in C
  PROVE  finalize_stream(s) \in Leaves(C)
<1>0. s \in Speaking
  BY DEF Calm
<1>1. PICK reason \in StopReasons :
        reason = IF s.stop_reason = "none" THEN "end_turn" ELSE s.stop_reason
  BY <1>0, SpeakingFields DEF StopReasons
<1>2. PICK u \in Usages : u = s.pending_usage
  BY <1>0, SpeakingFields
<1>3. NoUsage \in Usages
  BY DEF NoUsage, Usages
<1>4. PICK t \in C : t = [s EXCEPT !.stop_reason = "none"]
  BY CalmReason
<1>5. PICK v \in C : v = [t EXCEPT !.pending_usage = NoUsage]
  BY <1>3, CalmPending
<1>6. v = [s EXCEPT !.stop_reason = "none", !.pending_usage = NoUsage]
  BY <1>0, <1>4, <1>5 DEF Speaking, StateSet
<1>7. emit_terminal(v, reason, u) \in Leaves(C)
  BY CalmTerminal
<1>8. finalize_stream(s) = emit_terminal(v, reason, u)
  BY <1>0, <1>1, <1>2, <1>6, SpeakingFields, Zenon DEF finalize_stream
<1> QED
  BY <1>7, <1>8

-----------------------------------------------------------------------------
(* v is u with block idx started, whatever idx is *)
StartsAt(u, v, idx, kind) ==
  /\ v.tool_base_index = u.tool_base_index
  /\ v.blocks = Opened(u.blocks, idx)
  /\ v.out = Append(u.out, BlockStart(idx, kind))

LEMMA CalmOpens ==
  ASSUME NEW C, Calm(C), NEW s \in C, NEW idx \in Nat, NEW kind \in BlockKinds
  PROVE  /\ open_block(s, idx, kind) \in Speaking
         /\ \E u \in C : /\ StartsAt(u, open_block(s, idx, kind), idx, kind)
                         /\ u.blocks = Stopped(s.blocks, idx)
<1>0. s \in Speaking
  BY DEF Calm
<1>2. PICK t \in C : t = flush_stop_tail(s)
  BY CalmFlush
<1>3. t.blocks = s.blocks
  BY <1>0, <1>2, FlushType
<1>4. PICK u \in C : u = StopBelow(t, idx)
  BY CalmStop
<1>5. t \in Speaking /\ u \in Speaking
  BY DEF Calm
<1>6. u.blocks = Stopped(s.blocks, idx)
  <2>1. PICK q \in Seq(Stops) : u = [t EXCEPT !.blocks = Stopped(t.blocks, idx), !.out = t.out \o q]
    BY <1>4, <1>5, StopBelowFrames
  <2>2. u.blocks = Stopped(t.blocks, idx)
    BY <1>5, <2>1 DEF Speaking, StateSet
  <2> QED
    BY <1>3, <2>2
<1>7. PICK v \in Speaking : v = open_block(s, idx, kind)
  BY <1>0, OpenType
<1>8. v = [u EXCEPT !.blocks = Opened(u.blocks, idx), !.out = Append(u.out, BlockStart(idx, kind))]
  BY <1>2, <1>4, <1>7, Zenon DEF open_block
<1>9. StartsAt(u, v, idx, kind)
  BY <1>5, <1>8 DEF StartsAt, Speaking, StateSet
<1> QED
  BY <1>6, <1>7, <1>9

(* What holds after every call of the loop *)
LEMMA ToolLoopSteps ==
  ASSUME NEW s, NEW calls \in Seq(Calls), NEW D, s \in D[0],
         \A n \in 1 .. Len(calls) : \A t \in D[n - 1] : tool_delta(t, calls[n]) \in D[n]
  PROVE  tool_loop(s, calls) \in D[Len(calls)]
<1>1. PICK L \in Nat : L = Len(calls)
  OBVIOUS
<1>2. PICK f : After(s, calls, L, f) /\ tool_loop(s, calls) = f[L]
  <2>1. \E g : After(s, calls, L, g)
    BY AfterExists
  <2>2. PICK f : f = CHOOSE g : After(s, calls, L, g)
    OBVIOUS
  <2>3. After(s, calls, L, f)
    BY <2>1, <2>2
  <2>4. tool_loop(s, calls) = f[L]
    BY <1>1, <2>2 DEF tool_loop, After
  <2> QED
    BY <2>3, <2>4
<1>3. \A n \in 0 .. L : f[n] = IF n = 0 THEN s ELSE tool_delta(f[n - 1], calls[n])
  BY <1>2 DEF After
<1> DEFINE Bad == {n \in 0 .. L : f[n] \notin D[n]}
<1>4. Bad = {}
  <2>1. SUFFICES ASSUME Bad # {} PROVE FALSE
    OBVIOUS
  <2>2. PICK m \in Bad : \A k \in Bad : m <= k
    <3>1. Bad \subseteq Nat
      OBVIOUS
    <3> HIDE DEF Bad
    <3> QED
      BY <2>1, <3>1, LeastNat
  <2>3. m \in 0 .. L /\ f[m] \notin D[m]
    BY <2>2
  <2>4. m # 0
    BY <1>3, <2>3
  <2>5. PICK p \in Nat : p = m - 1 /\ p \in 0 .. L /\ m \in 1 .. L /\ p < m
    BY <2>3, <2>4
  <2>6. f[p] \in D[p]
    BY <2>2, <2>5
  <2>7. f[m] = tool_delta(f[p], calls[m])
    BY <1>3, <2>3, <2>4, <2>5
  <2> QED
    BY <1>1, <2>3, <2>5, <2>6, <2>7
<1>5. f[L] \in D[L]
  BY <1>4
<1> QED
  BY <1>1, <1>2, <1>5

-----------------------------------------------------------------------------
(* Each start has a higher index than those before it, and every index     *)
(* started has a slot                                                      *)
Rising(o) ==
  \A j, k \in 1 .. Len(o) :
    j < k /\ o[j].ev = "content_block_start" /\ o[k].ev = "content_block_start" =>
      o[j].index < o[k].index

LEMMA IndexNat ==
  ASSUME NEW o \in Seq(Frames), NEW k \in 1 .. Len(o)
  PROVE  o[k].index \in Nat
<1>1. \A f \in Frames : f.index \in Nat
  BY DEF Frames
<1>2. o[k] \in Frames
  OBVIOUS
<1> QED
  BY <1>1, <1>2

LEMMA RisingFresh ==
  ASSUME NEW o \in Seq(Frames), Rising(o)
  PROVE  Fresh(o)
<1>1. \A k \in 1 .. Len(o) : o[k].index \in Nat
  BY IndexNat
<1> QED
  BY <1>1 DEF Fresh, Rising

Roomy(s) == \A i \in Nat : Begun(s.out, i) => i < Len(s.blocks)

Freshly(b) == {s \in Speaking : s.tool_base_index = b /\ Rising(s.out) /\ Roomy(s)}

LEMMA LengthensRising ==
  ASSUME NEW o \in Seq(Frames), NEW p, Lengthens(o, p)
  PROVE  /\ p \in Seq(Frames)
         /\ Rising(o) => Rising(p)
         /\ \A i : Begun(p, i) => Begun(o, i)
<1>1. PICK q \in Seq(Tame) : p = o \o q
  BY DEF Lengthens
<1>2. q \in Seq(Frames)
  BY SeqMonotonic DEF Tame
<1>3. p \in Seq(Frames) /\ Len(p) = Len(o) + Len(q) /\ Len(o) \in Nat /\ Len(q) \in Nat
  BY <1>1, <1>2, ConcatProperties
<1>4. \A k \in 1 .. Len(o) + Len(q) : p[k] = IF k <= Len(o) THEN o[k] ELSE q[k - Len(o)]
  BY <1>1, <1>2, ConcatProperties
<1>5. ASSUME NEW k \in 1 .. Len(p), p[k].ev = "content_block_start"
      PROVE  k \in 1 .. Len(o) /\ p[k] = o[k]
  <2>1. k \in 1 .. Len(o) + Len(q)
    BY <1>3
  <2>2. CASE k <= Len(o)
    BY <1>3, <1>4, <2>1, <2>2
  <2>3. CASE ~(k <= Len(o))
    <3>1. k - Len(o) \in 1 .. Len(q)
      BY <1>3, <2>1, <2>3
    <3>2. p[k] = q[k - Len(o)] /\ q[k - Len(o)] \in Tame
      BY <1>4, <2>1, <2>3, <3>1
    <3> QED
      BY <1>5, <3>2 DEF Tame
  <2> QED
    BY <2>2, <2>3
<1> QED
  BY <1>3, <1>5 DEF Rising, Begun

(* A start at an index above those that were started *)
LEMMA StartRising ==
  ASSUME NEW o \in Seq(Frames), Rising(o), NEW f \in Frames, f.ev = "content_block_start",
         \A i \in Nat : Begun(o, i) => i < f.index, NEW p, p = Append(o, f)
  PROVE  /\ Rising(p)
         /\ \A i : Begun(p, i) => Begun(o, i) \/ i = f.index
<1>1. p \in Seq(Frames) /\ Len(p) = Len(o) + 1 /\ p[Len(p)] = f
  BY AppendProperties
<1>2. Len(o) \in Nat /\ \A k \in 1 .. Len(o) : p[k] = o[k]
  BY AppendProperties
<1>3. \A k \in 1 .. Len(p) : k \in 1 .. Len(o) \/ k = Len(p)
  BY <1>1, <1>2
<1>4. Rising(p)
  <2> SUFFICES ASSUME NEW j \in 1 .. Len(p), NEW k \in 1 .. Len(p), j < k,
                      p[j].ev = "content_block_start", p[k].ev = "content_block_start"
               PROVE  p[j].index < p[k].index
    BY DEF Rising
  <2>1. j \in 1 .. Len(o) /\ o[j].ev = "content_block_start" /\ p[j] = o[j]
    BY <1>1, <1>2
  <2>2. CASE k \in 1 .. Len(o)
    BY <1>2, <2>1, <2>2 DEF Rising
  <2>3. CASE k = Len(p)
    <3>1. o[j].index \in Nat /\ Begun(o, o[j].index)
      BY <2>1, IndexNat DEF Begun
    <3> QED
      BY <1>1, <2>1, <2>3, <3>1
  <2> QED
    BY <1>3, <2>2, <2>3
<1>5. ASSUME NEW i, Begun(p, i) PROVE Begun(o, i) \/ i = f.index
  BY <1>1, <1>2, <1>3, <1>5 DEF Begun
<1> QED
  BY <1>4, <1>5

LEMMA FreshlyStarts ==
  ASSUME NEW b, NEW u \in Freshly(b), NEW idx \in Nat, Len(u.blocks) <= idx,
         NEW kind \in BlockKinds, NEW v \in Speaking, StartsAt(u, v, idx, kind)
  PROVE  v \in Freshly(b) /\ Len(v.blocks) = idx + 1
<1>1. u \in Speaking /\ Rising(u.out) /\ Roomy(u) /\ u.tool_base_index = b
  BY DEF Freshly
<1>2. PICK o \in Seq(Frames) : o = u.out
  BY <1>1, SpeakingFields, SpeechIsFrames
<1>3. PICK f \in Frames : f = BlockStart(idx, kind)
  BY FrameTypes DEF Speech
<1>4. f.ev = "content_block_start" /\ f.index = idx
  BY <1>3 DEF BlockStart, Frame
<1>5. PICK m \in Nat : m = Len(u.blocks)
  BY <1>1, SpeakingFields
<1>6. \A i \in Nat : Begun(o, i) => i < idx
  BY <1>1, <1>2, <1>5 DEF Roomy
<1>7. v.out = Append(o, f) /\ v.tool_base_index = b /\ v.blocks = Opened(u.blocks, idx)
  BY <1>1, <1>2, <1>3 DEF StartsAt
<1>8. Len(v.blocks) = idx + 1
  <2>1. Opened(u.blocks, idx) = [k \in 1 .. idx + 1 |-> k = idx + 1 \/ (k <= Len(u.blocks) /\ u.blocks[k])]
    BY <1>5 DEF Opened
  <2>2. PICK c : c = [k \in 1 .. idx + 1 |-> k = idx + 1 \/ (k <= Len(u.blocks) /\ u.blocks[k])]
    OBVIOUS
  <2>3. Len(c) = idx + 1
    BY <2>2
  <2> QED
    BY <1>7, <2>1, <2>2, <2>3
<1>9. Rising(v.out) /\ \A i : Begun(v.out, i) => Begun(o, i) \/ i = idx
  BY <1>1, <1>2, <1>4, <1>6, <1>7, StartRising
<1>10. Roomy(v)
  <2> SUFFICES ASSUME NEW i \in Nat, Begun(v.out, i) PROVE i < Len(v.blocks)
    BY DEF Roomy
  <2>1. CASE i = idx
    BY <1>8, <2>1
  <2>2. CASE Begun(o, i)
    <3>1. i < m
      BY <1>1, <1>2, <1>5, <2>2 DEF Roomy
    <3> QED
      BY <1>5, <1>8, <3>1
  <2> QED
    BY <1>9, <2>1, <2>2
<1> QED
  BY <1>7, <1>8, <1>9, <1>10 DEF Freshly

LEMMA QuietLen ==
  ASSUME NEW s \in Speaking, NEW v, Quietly(s, v)
  PROVE  Len(v.blocks) = Len(s.blocks)
<1>1. s.blocks \in Seq(BOOLEAN)
  BY SpeakingFields
<1> QED
  BY <1>1, StoppedType DEF Quietly

LEMMA FreshlySteady ==
  ASSUME NEW b
  PROVE  Steady(Freshly(b))
<1>1. Freshly(b) \subseteq Speaking
  BY DEF Freshly
<1>2. ASSUME NEW s \in Freshly(b), NEW v \in Speaking, Quietly(s, v) PROVE v \in Freshly(b)
  <2>1. s \in Speaking /\ s.out \in Seq(Frames) /\ Rising(s.out) /\ Roomy(s) /\ s.tool_base_index = b
    BY SpeakingFields, SpeechIsFrames DEF Freshly
  <2>2. Lengthens(s.out, v.out) /\ v.tool_base_index = b
    BY <1>2, <2>1 DEF Quietly
  <2>3. Rising(v.out) /\ \A i : Begun(v.out, i) => Begun(s.out, i)
    BY <2>1, <2>2, LengthensRising
  <2>4. Len(v.blocks) = Len(s.blocks)
    BY <1>2, <2>1, QuietLen
  <2> QED
    BY <2>1, <2>2, <2>3, <2>4 DEF Freshly, Roomy
<1>3. ASSUME NEW s \in Freshly(b), NEW v \in Speaking, StartsNext(s, v) PROVE v \in Freshly(b)
  <2>1. s \in Speaking
    BY DEF Freshly
  <2>2. PICK n \in Nat : n = Len(s.blocks)
    BY <2>1, SpeakingFields
  <2>3. PICK kind \in BlockKinds : StartsAt(s, v, n, kind)
    BY <1>3, <2>2 DEF StartsNext, StartsAt, BlockKinds
  <2> QED
    BY <2>2, <2>3, FreshlyStarts
<1> QED
  BY <1>1, <1>2, <1>3 DEF Steady, Calm

-----------------------------------------------------------------------------
(* The calls named so far have the indices T, and there is a slot for the  *)
(* greatest of them at most                                                *)
Numbered(b, T) ==
  {s \in Freshly(b) : Len(s.blocks) <= b \/ \E i \in T : Len(s.blocks) <= b + i + 1}

LEMMA NumberedCalm ==
  ASSUME NEW b, NEW T
  PROVE  Calm(Numbered(b, T)) /\ Numbered(b, T) \subseteq Freshly(b)
<1>1. Numbered(b, T) \subseteq Freshly(b) /\ Numbered(b, T) \subseteq Speaking
  BY DEF Numbered, Freshly
<1>2. ASSUME NEW s \in Numbered(b, T), NEW v \in Speaking, Quietly(s, v) PROVE v \in Numbered(b, T)
  <2>1. v \in Freshly(b)
    BY <1>1, <1>2, FreshlySteady DEF Steady, Calm
  <2>2. Len(v.blocks) = Len(s.blocks)
    BY <1>1, <1>2, QuietLen
  <2> QED
    BY <2>1, <2>2 DEF Numbered
<1> QED
  BY <1>1, <1>2 DEF Calm

LEMMA NumberedMore ==
  ASSUME NEW b, NEW T, NEW U, T \subseteq U
  PROVE  Numbered(b, T) \subseteq Numbered(b, U)
  BY DEF Numbered

(* A delta that is not dropped is an argument in its block *)
LEMMA ArgsPush ==
  ASSUME NEW s \in Speaking, NEW i \in Nat, NEW x \in Texts
  PROVE  /\ Push(s, BlockDelta(i, "input_json_delta", x)) \in Speaking
         /\ Push(s, BlockDelta(i, "input_json_delta", x)).out
              = Append(s.out, BlockDelta(i, "input_json_delta", x))
         /\ Push(s, BlockDelta(i, "input_json_delta", x)).blocks = s.blocks
         /\ Push(s, BlockDelta(i, "input_json_delta", x)).tool_base_index = s.tool_base_index
<1>1. PICK f \in Speech : f = BlockDelta(i, "input_json_delta", x)
  BY FrameTypes DEF DeltaKinds
<1>2. Push(s, f) \in Speaking
  BY PushType
<1>3. Push(s, f).out = Append(s.out, f) /\ Push(s, f).blocks = s.blocks
      /\ Push(s, f).tool_base_index = s.tool_base_index
  BY DEF Push, Speaking, StateSet
<1> QED
  BY <1>1, <1>2, <1>3

(* Appending a frame that starts nothing *)
LEMMA NoStartRising ==
  ASSUME NEW o \in Seq(Frames), NEW f \in Frames, f.ev # "content_block_start"
  PROVE  /\ Rising(o) => Rising(Append(o, f))
         /\ \A i : Begun(Append(o, f), i) => Begun(o, i)
<1>0. PICK p \in Seq(Frames) : p = Append(o, f)
  BY AppendProperties
<1>1. p = Append(o, f) /\ Len(p) = Len(o) + 1 /\ p[Len(p)] = f
  BY <1>0, AppendProperties
<1>2. Len(o) \in Nat /\ \A k \in 1 .. Len(o) : p[k] = o[k]
  BY <1>0, AppendProperties
<1>3. \A k \in 1 .. Len(p) : k \in 1 .. Len(o) \/ k = Len(p)
  BY <1>1, <1>2
<1>4. \A k \in 1 .. Len(p) : p[k].ev = "content_block_start" => k \in 1 .. Len(o) /\ p[k] = o[k]
  BY <1>1, <1>2, <1>3
<1> QED
  BY <1>1, <1>4 DEF Rising, Begun

LEMMA NumberedPush ==
  ASSUME NEW b, NEW T, NEW s \in Numbered(b, T), NEW i \in Nat, NEW x \in Texts
  PROVE  Push(s, BlockDelta(i, "input_json_delta", x)) \in Numbered(b, T)
<1>1. s \in Speaking /\ s \in Freshly(b) /\ Rising(s.out) /\ Roomy(s) /\ s.tool_base_index = b
  BY DEF Numbered, Freshly
<1>2. PICK v \in Speaking : v = Push(s, BlockDelta(i, "input_json_delta", x))
  BY <1>1, ArgsPush
<1>3. PICK f \in Frames : f = BlockDelta(i, "input_json_delta", x) /\ f.ev # "content_block_start"
  BY FrameTypes DEF Speech, DeltaKinds, BlockDelta, Frame
<1>4. v.out = Append(s.out, f) /\ v.blocks = s.blocks /\ v.tool_base_index = b
  BY <1>1, <1>2, <1>3, ArgsPush
<1>5. s.out \in Seq(Frames)
  BY <1>1, SpeakingFields, SpeechIsFrames
<1>6. Rising(v.out) /\ \A j : Begun(v.out, j) => Begun(s.out, j)
  BY <1>1, <1>3, <1>4, <1>5, NoStartRising
<1>7. v \in Freshly(b)
  BY <1>1, <1>4, <1>6 DEF Freshly, Roomy
<1> QED
  BY <1>2, <1>4, <1>7 DEF Numbered

NameOf(tc) == IF tc.name THEN {tc.index} ELSE {}

LEMMA NumberedDelta ==
  ASSUME NEW b \in Nat, NEW T \in SUBSET Nat, NEW s \in Numbered(b, T), NEW tc \in Calls,
         tc.name => \A i \in T : i < tc.index
  PROVE  tool_delta(s, tc) \in Numbered(b, T \cup NameOf(tc))
<1>1. s \in Speaking /\ s \in Freshly(b) /\ s.tool_base_index = b
  BY DEF Numbered, Freshly
<1>2. tc.index \in Nat /\ tc.args \in Texts
  BY DEF Calls
<1>3. PICK idx \in Nat : idx = s.tool_base_index + tc.index /\ idx = b + tc.index
  BY <1>1, <1>2
<1>4. PICK U : U = T \cup NameOf(tc)
  OBVIOUS
<1>5. PICK t : t = IF tc.name THEN open_block(s, idx, "tool_use") ELSE s
  OBVIOUS
<1>6. t \in Numbered(b, U)
  <2>1. CASE ~tc.name
    BY <1>4, <1>5, <2>1, NumberedMore DEF NameOf
  <2>2. CASE tc.name
    <3>1. Calm(Freshly(b))
      BY FreshlySteady DEF Steady
    <3>2. "tool_use" \in BlockKinds
      BY DEF BlockKinds
    <3>3. t \in Speaking
      BY <1>1, <1>5, <2>2, <3>1, <3>2, CalmOpens
    <3>4. PICK u \in Freshly(b) : StartsAt(u, t, idx, "tool_use") /\ u.blocks = Stopped(s.blocks, idx)
      BY <1>1, <1>5, <2>2, <3>1, <3>2, CalmOpens
    <3>5. PICK n \in Nat : n = Len(s.blocks) /\ n = Len(u.blocks)
      BY <1>1, <3>4, SpeakingFields, StoppedType
    <3>6. n <= idx
      <4>1. CASE n <= b
        BY <1>2, <1>3, <4>1
      <4>2. CASE \E i \in T : n <= b + i + 1
        <5>1. PICK i \in T : n <= b + i + 1
          BY <4>2
        <5>2. i \in Nat /\ i < tc.index
          BY <2>2
        <5> QED
          BY <1>2, <1>3, <5>1, <5>2
      <4> QED
        BY <3>5, <4>1, <4>2 DEF Numbered
    <3>7. t \in Freshly(b) /\ Len(t.blocks) = idx + 1
      BY <3>2, <3>3, <3>4, <3>5, <3>6, FreshlyStarts
    <3>8. tc.index \in U /\ Len(t.blocks) <= b + tc.index + 1
      BY <1>2, <1>3, <1>4, <2>2, <3>7 DEF NameOf
    <3> QED
      BY <3>7, <3>8 DEF Numbered
  <2> QED
    BY <2>1, <2>2
<1>7. Push(t, BlockDelta(idx, "input_json_delta", tc.args)) \in Numbered(b, U)
  BY <1>2, <1>6, NumberedPush
<1>8. tool_delta(s, tc) =
        IF tc.args # <<>> /\ BlockOpen(t, idx)
        THEN Push(t, BlockDelta(idx, "input_json_delta", tc.args)) ELSE t
  BY <1>3, <1>5 DEF tool_delta
<1> QED
  BY <1>4, <1>6, <1>7, <1>8

(* The indices named by the first n calls *)
NamedBy(calls, n) == {i \in Nat : \E m \in 1 .. n : calls[m].name /\ calls[m].index = i}

Climbs(T, calls) ==
  \A n \in 1 .. Len(calls) : calls[n].name =>
    /\ \A i \in T : i < calls[n].index
    /\ \A m \in 1 .. n - 1 : calls[m].name => calls[m].index < calls[n].index

LEMMA NumberedLoop ==
  ASSUME NEW b \in Nat, NEW T \in SUBSET Nat, NEW s \in Numbered(b, T), NEW calls \in Seq(Calls),
         Climbs(T, calls)
  PROVE  tool_loop(s, calls) \in Numbered(b, T \cup NamedBy(calls, Len(calls)))
<1>1. PICK L \in Nat : L = Len(calls)
  OBVIOUS
<1>2. PICK D : D = [n \in 0 .. L |-> Numbered(b, T \cup NamedBy(calls, n))]
  OBVIOUS
<1>3. s \in D[0]
  BY <1>2, NumberedMore
<1>4. ASSUME NEW n \in 1 .. L, NEW t \in D[n - 1] PROVE tool_delta(t, calls[n]) \in D[n]
  <2>1. PICK p \in Nat : p = n - 1 /\ p \in 0 .. L /\ n = p + 1
    OBVIOUS
  <2>2. PICK U \in SUBSET Nat : U = T \cup NamedBy(calls, p)
    BY DEF NamedBy
  <2>3. t \in Numbered(b, U)
    BY <1>2, <2>1, <2>2
  <2>4. PICK tc \in Calls : tc = calls[n]
    BY <1>1
  <2>5. tc.name => \A i \in U : i < tc.index
    BY <1>1, <2>1, <2>2, <2>4 DEF Climbs, NamedBy
  <2>6. tool_delta(t, tc) \in Numbered(b, U \cup NameOf(tc))
    BY <2>3, <2>5, NumberedDelta
  <2>7. U \cup NameOf(tc) \subseteq T \cup NamedBy(calls, n)
    <3>1. tc.index \in Nat
      BY DEF Calls
    <3>2. \A m \in 1 .. p : m \in 1 .. n
      BY <2>1
    <3>3. NamedBy(calls, p) \subseteq NamedBy(calls, n)
      BY <3>2 DEF NamedBy
    <3>4. n \in 1 .. n
      OBVIOUS
    <3>5. NameOf(tc) \subseteq NamedBy(calls, n)
      BY <2>4, <3>1, <3>4 DEF NameOf, NamedBy
    <3> QED
      BY <2>2, <3>3, <3>5
  <2>8. n \in 0 .. L
    OBVIOUS
  <2> QED
    BY <1>2, <2>4, <2>6, <2>7, <2>8, NumberedMore
<1>5. tool_loop(s, calls) \in D[L]
  BY <1>1, <1>3, <1>4, ToolLoopSteps
<1>6. L \in 0 .. L
  OBVIOUS
<1> QED
  BY <1>1, <1>2, <1>5, <1>6

-----------------------------------------------------------------------------
(* What was heard of calls: whether there were any, which were named, and  *)
(* whether a channel has resumed since.                                    *)
Called(q) == \E k \in 1 .. Len(q) : q[k].has_calls

Resumed(q) ==
  \E i, j \in 1 .. Len(q) : i < j /\ q[i].has_calls /\ Content(q[j]) # <<>>

Named(q) == {i \in Nat : \E k \in 1 .. Len(q) : \E n \in NamedIn(q[k]) : q[k].calls[n].index = i}

(* The framer has room for the calls that an orderly turn may still name *)
Fits(q) ==
  {s \in Speaking :
     /\ Rising(s.out) /\ Roomy(s)
     /\ s.tool_base_index = NoIndex <=> ~Called(q)
     /\ s.tool_base_index # NoIndex =>
          Resumed(q) \/ s \in Numbered(s.tool_base_index, Named(q))}

LEMMA FitsCalm ==
  ASSUME NEW q
  PROVE  Calm(Fits(q))
<1>1. Fits(q) \subseteq Speaking
  BY DEF Fits
<1>2. ASSUME NEW s \in Fits(q), NEW v \in Speaking, Quietly(s, v) PROVE v \in Fits(q)
  <2>1. PICK b : b = s.tool_base_index /\ b = v.tool_base_index
    BY <1>2 DEF Quietly
  <2>2. s \in Freshly(b)
    BY <2>1 DEF Fits, Freshly
  <2>3. v \in Freshly(b)
    BY <1>2, <2>2, FreshlySteady DEF Steady, Calm
  <2>4. s \in Numbered(b, Named(q)) => v \in Numbered(b, Named(q))
    BY <1>2, NumberedCalm DEF Calm
  <2> QED
    BY <2>1, <2>3, <2>4 DEF Fits, Freshly
<1> QED
  BY <1>1, <1>2 DEF Calm

LEMMA HeardOneMore ==
  ASSUME NEW q \in Seq(Chunks), NEW c \in Chunks, NEW r, r = Append(q, c)
  PROVE  /\ Called(r) <=> Called(q) \/ c.has_calls
         /\ Resumed(r) <=> Resumed(q) \/ (Called(q) /\ Content(c) # <<>>)
         /\ Named(q) \subseteq Named(r)
         /\ \A n \in NamedIn(c) : c.calls[n].index \in Nat => c.calls[n].index \in Named(r)
         /\ Orderly(r) => /\ \A n \in NamedIn(c) :
                               /\ ~Resumed(r)
                               /\ \A i \in Named(q) : i < c.calls[n].index
                               /\ \A m \in NamedIn(c) : m < n => c.calls[m].index < c.calls[n].index
<1>1. Len(r) = Len(q) + 1 /\ r[Len(q) + 1] = c
  BY AppendProperties
<1>2. Len(q) \in Nat /\ \A k \in 1 .. Len(q) : r[k] = q[k]
  BY AppendProperties
<1>3. PICK l \in Nat : l = Len(q)
  BY <1>2
<1>4. PICK h : h = l + 1 /\ h \in 1 .. Len(r) /\ r[h] = c /\ Len(r) = h
  BY <1>1, <1>3
<1>5. \A k \in 1 .. Len(r) : (k \in 1 .. l /\ k < h) \/ k = h
  BY <1>1, <1>3, <1>4
<1>6. \A k \in 1 .. l : r[k] = q[k] /\ k \in 1 .. Len(r) /\ k < h
  BY <1>2, <1>3, <1>4
<1>7. Called(r) <=> Called(q) \/ c.has_calls
  BY <1>3, <1>4, <1>5, <1>6 DEF Called
<1>8. Resumed(r) <=> Resumed(q) \/ (Called(q) /\ Content(c) # <<>>)
  <2>1. ASSUME Resumed(q) PROVE Resumed(r)
    BY <1>3, <1>6, <2>1 DEF Resumed
  <2>2. ASSUME Called(q), Content(c) # <<>> PROVE Resumed(r)
    BY <1>3, <1>4, <1>6, <2>2 DEF Resumed, Called
  <2>3. ASSUME Resumed(r) PROVE Resumed(q) \/ (Called(q) /\ Content(c) # <<>>)
    <3>1. PICK i \in 1 .. Len(r), j \in 1 .. Len(r) : i < j /\ r[i].has_calls /\ Content(r[j]) # <<>>
      BY <2>3 DEF Resumed
    <3>2. i # h
      BY <1>4, <3>1
    <3>3. i \in 1 .. l /\ q[i].has_calls
      BY <1>5, <1>6, <3>1, <3>2
    <3>4. CASE j = h
      BY <1>3, <1>4, <3>1, <3>3, <3>4 DEF Called
    <3>5. CASE j # h
      <4>1. j \in 1 .. l /\ r[j] = q[j]
        BY <1>5, <1>6, <3>5
      <4> QED
        BY <1>3, <3>1, <3>3, <4>1 DEF Resumed
    <3> QED
      BY <3>4, <3>5
  <2> QED
    BY <2>1, <2>2, <2>3
<1>9. Named(q) \subseteq Named(r)
  BY <1>3, <1>6 DEF Named
<1>10. \A n \in NamedIn(c) : c.calls[n].index \in Nat => c.calls[n].index \in Named(r)
  BY <1>4 DEF Named
<1>11. ASSUME Orderly(r), NEW n \in NamedIn(c)
       PROVE  /\ ~Resumed(r)
              /\ \A i \in Named(q) : i < c.calls[n].index
              /\ \A m \in NamedIn(c) : m < n => c.calls[m].index < c.calls[n].index
  <2>1. ~Resumed(r)
    <3>1. SUFFICES ASSUME NEW i \in 1 .. Len(r), NEW j \in 1 .. Len(r), i < j,
                          r[i].has_calls, Content(r[j]) # <<>> PROVE FALSE
      BY DEF Resumed
    <3>2. j <= h
      BY <1>4
    <3>3. NamedIn(r[h]) = {}
      BY <1>4, <1>11, <3>1, <3>2 DEF Orderly
    <3> QED
      BY <1>4, <1>11, <3>3
  <2>2. \A i \in Named(q) : i < c.calls[n].index
    <3>1. SUFFICES ASSUME NEW i \in Named(q) PROVE i < c.calls[n].index
      OBVIOUS
    <3>2. PICK k \in 1 .. l : \E m \in NamedIn(q[k]) : q[k].calls[m].index = i
      BY <1>3 DEF Named
    <3>3. k \in 1 .. Len(r) /\ r[k] = q[k] /\ k < h
      BY <1>6
    <3> QED
      BY <1>4, <1>11, <3>2, <3>3 DEF Orderly
  <2>3. \A m \in NamedIn(c) : m < n => c.calls[m].index < c.calls[n].index
    BY <1>4, <1>11 DEF Orderly
  <2> QED
    BY <2>1, <2>2, <2>3
<1> QED
  BY <1>7, <1>8, <1>9, <1>10, <1>11

(* Calls without a name only stream arguments *)
LEMMA NamelessLoop ==
  ASSUME NEW b \in Nat, NEW s \in Freshly(b), NEW calls \in Seq(Calls),
         \A n \in 1 .. Len(calls) : ~calls[n].name
  PROVE  tool_loop(s, calls) \in Freshly(b)
<1>1. PICK m \in Nat : m = Len(s.blocks)
  BY SpeakingFields DEF Freshly
<1>2. PICK T \in SUBSET Nat : T = Nat /\ s \in Numbered(b, T)
  <2>1. m <= b + m + 1
    BY <1>1
  <2> QED
    BY <1>1, <2>1 DEF Numbered
<1>3. Climbs(T, calls)
  BY DEF Climbs
<1>4. tool_loop(s, calls) \in Numbered(b, T \cup NamedBy(calls, Len(calls)))
  BY <1>2, <1>3, NumberedLoop
<1> QED
  BY <1>4, NumberedCalm

LEMMA ToolFits ==
  ASSUME NEW q \in Seq(Chunks), NEW c \in Chunks, NEW r, r = Append(q, c), Orderly(r),
         NEW s \in Fits(q), NEW v \in Freshly(s.tool_base_index), Content(c) = <<>> => v = s
  PROVE  tool_section(v, c) \in Fits(r)
<1>1. c \in CanonChunk /\ c.calls \in Seq(Calls) /\ c.has_calls \in BOOLEAN
  BY ChunksAssumption DEF CanonChunk
<1>2. s \in Speaking /\ v \in Speaking /\ Rising(v.out) /\ Roomy(v)
      /\ v.tool_base_index = s.tool_base_index
  BY DEF Fits, Freshly
<1>3. s.tool_base_index \in Nat \cup {NoIndex} /\ NoIndex \notin Nat
  <2>1. s.tool_base_index \in Nat \cup {NoIndex}
    BY <1>2, SpeakingFields
  <2>2. NoIndex \notin Nat
    BY DEF NoIndex
  <2> QED
    BY <2>1, <2>2
<1>r. /\ Called(r) <=> Called(q) \/ c.has_calls
      /\ Resumed(r) <=> Resumed(q) \/ (Called(q) /\ Content(c) # <<>>)
      /\ Named(q) \subseteq Named(r)
      /\ \A n \in NamedIn(c) : c.calls[n].index \in Nat => c.calls[n].index \in Named(r)
      /\ \A n \in NamedIn(c) :
           /\ ~Resumed(r)
           /\ \A i \in Named(q) : i < c.calls[n].index
           /\ \A m \in NamedIn(c) : m < n => c.calls[m].index < c.calls[n].index
  BY HeardOneMore
<1>4. CASE ~c.has_calls
  <2>1. tool_section(v, c) = v
    BY <1>4 DEF tool_section
  <2>2. s.tool_base_index = NoIndex <=> ~Called(r)
    BY <1>4, <1>r DEF Fits
  <2>3. ASSUME s.tool_base_index # NoIndex
        PROVE  Resumed(r) \/ v \in Numbered(s.tool_base_index, Named(r))
    <3>0. Called(q)
      BY <2>3 DEF Fits
    <3>1. CASE Resumed(q)
      BY <1>r, <3>1
    <3>2. CASE s \in Numbered(s.tool_base_index, Named(q)) /\ Content(c) = <<>>
      BY <1>r, <3>2, NumberedMore
    <3>3. CASE Content(c) # <<>>
      BY <1>r, <3>0, <3>3
    <3> QED
      BY <2>3, <3>1, <3>2, <3>3 DEF Fits
  <2> QED
    BY <1>2, <2>1, <2>2, <2>3 DEF Fits
<1>5. CASE c.has_calls
  <2>1. PICK b \in Nat : b = IF v.tool_base_index = NoIndex THEN next_index(v) ELSE v.tool_base_index
    BY <1>2, <1>3, NextIndexType
  <2>2. PICK t \in Speaking : t = [v EXCEPT !.tool_base_index = b]
    BY <1>2, SpeakingUpdates
  <2>3. t.tool_base_index = b /\ t.blocks = v.blocks /\ t.out = v.out
    BY <1>2, <2>2 DEF Speaking, StateSet
  <2>4. t \in Freshly(b)
    BY <1>2, <2>3 DEF Freshly, Roomy
  <2>5. PICK w : w = tool_loop(t, c.calls) /\ w = tool_section(v, c)
    BY <1>5, <2>1, <2>2 DEF tool_section
  <2>6. Called(r) /\ b # NoIndex
    BY <1>3, <1>5, <1>r
  <2>7. Climbs({}, c.calls)
    BY <1>5, <1>r DEF Climbs, NamedIn
  <2>8. NamedBy(c.calls, Len(c.calls)) \subseteq Named(r)
    BY <1>5, <1>r DEF NamedBy, NamedIn
  <2>9. ASSUME NEW T \in SUBSET Nat, T \subseteq Named(r), t \in Numbered(b, T), Climbs(T, c.calls)
        PROVE  w \in Fits(r)
    <3>1. w \in Numbered(b, T \cup NamedBy(c.calls, Len(c.calls)))
      BY <1>1, <2>5, <2>9, NumberedLoop
    <3>2. T \cup NamedBy(c.calls, Len(c.calls)) \subseteq Named(r)
      BY <2>8, <2>9
    <3>3. w \in Numbered(b, Named(r))
      BY <3>1, <3>2, NumberedMore
    <3>4. w \in Freshly(b)
      BY <3>3, NumberedCalm
    <3> QED
      BY <2>6, <3>3, <3>4 DEF Fits, Freshly
  <2>10. CASE s.tool_base_index = NoIndex
    <3>1. b = Len(v.blocks)
      BY <1>2, <2>1, <2>10 DEF next_index
    <3>2. t \in Numbered(b, {})
      BY <2>3, <2>4, <3>1 DEF Numbered
    <3> QED
      BY <2>5, <2>7, <2>9, <3>2
  <2>11. CASE s.tool_base_index # NoIndex /\ ~Resumed(r)
    <3>1. b = s.tool_base_index /\ Called(q)
      BY <1>2, <2>1, <2>11 DEF Fits
    <3>2. Content(c) = <<>> /\ ~Resumed(q)
      BY <1>r, <2>11, <3>1
    <3>3. v = s /\ s \in Numbered(b, Named(q))
      BY <2>11, <3>1, <3>2 DEF Fits
    <3>4. t \in Numbered(b, Named(q))
      BY <2>3, <2>4, <3>3 DEF Numbered
    <3>5. Named(q) \in SUBSET Nat
      BY DEF Named
    <3>6. Climbs(Named(q), c.calls)
      BY <1>5, <1>r DEF Climbs, NamedIn
    <3> QED
      BY <1>r, <2>5, <2>9, <3>4, <3>5, <3>6
  <2>12. CASE s.tool_base_index # NoIndex /\ Resumed(r)
    <3>1. \A n \in 1 .. Len(c.calls) : ~c.calls[n].name
      BY <1>5, <1>r, <2>12 DEF NamedIn
    <3>2. w \in Freshly(b)
      BY <1>1, <2>4, <2>5, <3>1, NamelessLoop
    <3> QED
      BY <2>5, <2>6, <2>12, <3>2 DEF Fits, Freshly
  <2> QED
    BY <2>10, <2>11, <2>12
<1> QED
  BY <1>1, <1>4, <1>5

-----------------------------------------------------------------------------
(* A chunk of an orderly turn *)
LEMMA ContentNone ==
  ASSUME NEW c \in CanonChunk, Content(c) = <<>>
  PROVE  c.thinking.kind = "none" /\ c.delta_text = <<>>
<1>1. PICK x : x = [kind |-> IF c.thinking.kind = "signature" THEN "signature_delta" ELSE "thinking_delta",
                    text |-> c.thinking.text]
  OBVIOUS
<1>2. PICK y : y = [kind |-> "text_delta", text |-> c.delta_text]
  OBVIOUS
<1>3. Content(c) = (IF c.thinking.kind = "none" THEN <<>> ELSE <<x>>)
                   \o (IF c.delta_text = <<>> THEN <<>> ELSE <<y>>)
  BY <1>1, <1>2 DEF Content, Delta
<1>s. <<x>> \in Seq({x}) /\ <<y>> \in Seq({y}) /\ <<>> \in Seq({x}) /\ <<>> \in Seq({y})
  BY EmptySeq
<1>4. PICK p \in Seq({x}) : p = IF c.thinking.kind = "none" THEN <<>> ELSE <<x>>
  BY <1>s
<1>5. PICK z \in Seq({y}) : z = IF c.delta_text = <<>> THEN <<>> ELSE <<y>>
  BY <1>s
<1>6. p \in Seq({x, y}) /\ z \in Seq({x, y})
  BY SeqMonotonic
<1>7. Len(p \o z) = Len(p) + Len(z) /\ Len(p) \in Nat /\ Len(z) \in Nat
  BY <1>6, ConcatProperties
<1>8. Len(p) = 0 /\ Len(z) = 0
  BY <1>3, <1>4, <1>5, <1>7, EmptySeq
<1> QED
  BY <1>4, <1>5, <1>8

Outcome(q, v) == \E C : Calm(C) /\ C \subseteq Fits(q) /\ v \in Leaves(C)

LEMMA LeavesOutcome ==
  ASSUME NEW q, NEW v \in Leaves(Fits(q))
  PROVE  Outcome(q, v)
  BY FitsCalm DEF Outcome

LEMMA ChunkFits ==
  ASSUME NEW q \in Seq(Chunks), NEW c \in Chunks, NEW r, r = Append(q, c), Orderly(r),
         NEW s \in Silent \cup Speaking, preamble(s, c) \in Fits(q)
  PROVE  Outcome(r, chunk_to_sse_events(s, c))
<1>1. ~s.message_stopped /\ c \in CanonChunk
  BY ChunksAssumption DEF Silent, Speaking
<1>2. PICK t \in Fits(q) : t = preamble(s, c)
  OBVIOUS
<1>3. CASE is_trailer(c)
  <2>1. chunk_to_sse_events(s, c) = trailer(t, c)
    BY <1>1, <1>2, <1>3 DEF chunk_to_sse_events
  <2>2. Content(c) = <<>>
    <3>1. c.thinking.kind = "none" /\ c.delta_text = <<>>
      BY <1>3 DEF is_trailer
    <3>2. <<>> \o <<>> = <<>>
      BY EmptySeq, ConcatEmptySeq
    <3> QED
      BY <3>1, <3>2 DEF Content
  <2>3. ~c.has_calls
    BY <1>3 DEF is_trailer
  <2>4. Fits(q) \subseteq Fits(r)
    <3>1. /\ Called(r) <=> Called(q)
          /\ Resumed(r) <=> Resumed(q)
          /\ Named(q) \subseteq Named(r)
      BY <2>2, <2>3, HeardOneMore
    <3> QED
      BY <3>1, NumberedMore DEF Fits
  <2> QED
    <3>1. trailer(t, c) \in Leaves(Fits(q))
      BY <1>1, FitsCalm, CalmTrailer
    <3>2. Outcome(r, trailer(t, c))
      BY <2>4, <3>1, FitsCalm DEF Outcome
    <3> QED
      BY <2>1, <3>2
<1>4. CASE ~is_trailer(c)
  <2>1. PICK C : C = Freshly(t.tool_base_index)
    OBVIOUS
  <2>2. Steady(C) /\ t \in C
    BY <2>1, FreshlySteady DEF Fits, Freshly
  <2>3. PICK u \in C : u = thinking_section(t, c)
    BY <1>1, <2>2, SteadyThinking
  <2>4. PICK v \in C : v = text_section(u, c)
    BY <1>1, <2>2, SteadyText
  <2>5. Content(c) = <<>> => v = t
    BY <1>1, <2>3, <2>4, ContentNone DEF thinking_section, text_section
  <2>6. PICK w \in Fits(r) : w = tool_section(v, c)
    BY <2>1, <2>5, ToolFits
  <2>7. finish_section(w, c) \in Leaves(Fits(r))
    BY <1>1, FitsCalm, CalmFinish
  <2>8. chunk_to_sse_events(s, c) = finish_section(w, c)
    BY <1>1, <1>2, <1>4, <2>3, <2>4, <2>6 DEF chunk_to_sse_events
  <2> QED
    BY <2>7, <2>8, LeavesOutcome
<1> QED
  BY <1>3, <1>4

LEMMA PreambleFits ==
  ASSUME NEW s \in Silent, s.blocks = <<>>, s.tool_base_index = NoIndex, NEW c \in CanonChunk
  PROVE  preamble(s, c) \in Fits(<<>>)
<1>1. PICK t \in Speaking : t = preamble(s, c)
  BY PreambleType
<1>2. s.first /\ s \in StateSet /\ s.out = <<>>
  BY DEF Silent
<1>3. PICK n \in Nat : n = IF c.input_tokens > 0 THEN c.input_tokens ELSE s.input_tokens
  BY <1>2 DEF CanonChunk, NoTokens, StateSet
<1>4. PICK f \in Frames : f = MessageStart(n) /\ f.ev # "content_block_start"
  BY FrameTypes DEF Speech, MessageStart, Frame
<1>5. PICK o \in Seq(Frames) : o = <<>> /\ Len(o) = 0
  BY EmptySeq
<1>6. t.blocks = <<>> /\ t.tool_base_index = NoIndex /\ t.out = Append(o, f)
  BY <1>1, <1>2, <1>3, <1>4, <1>5 DEF preamble, Push, StateSet
<1>7. Rising(o) /\ \A i : ~Begun(o, i)
  BY <1>5 DEF Rising, Begun
<1>8. Rising(t.out) /\ Roomy(t)
  BY <1>4, <1>6, <1>7, NoStartRising DEF Roomy
<1>9. ~Called(<<>>)
  BY <1>5 DEF Called
<1> QED
  BY <1>1, <1>6, <1>8, <1>9 DEF Fits

(* The upstream's turns are orderly *)
OrderlyTurns == \A q \in Seq(Chunks) : Turn(q) => Orderly(q)

FInv ==
  /\ IInv
  /\ st \in Silent => st.blocks = <<>> /\ st.tool_base_index = NoIndex /\ heard = <<>>
  /\ Orderly(heard) => Rising(st.out) /\ (st \in Speaking => st \in Fits(heard))

LEMMA InitFInv == Init => FInv
<1> SUFFICES ASSUME Init PROVE FInv
  OBVIOUS
<1>1. IInv
  BY InitIInv
<1>2. /\ st.first /\ st.out = <<>> /\ st.blocks = <<>> /\ st.tool_base_index = NoIndex
      /\ heard = <<>>
  BY DEF Init, NewState
<1>3. st \notin Speaking
  BY <1>2 DEF Speaking
<1>4. Len(st.out) = 0
  BY <1>2, EmptySeq
<1>5. Rising(st.out)
  BY <1>4 DEF Rising
<1> QED
  BY <1>1, <1>2, <1>3, <1>5 DEF FInv

LEMMA LeavesFit ==
  ASSUME NEW q, NEW C, Calm(C), C \subseteq Fits(q), NEW v \in Leaves(C)
  PROVE  Rising(v.out) /\ (v \in Speaking => v \in Fits(q)) /\ v \notin Silent
<1>1. ~v.first /\ (v \in Speaking => v \in C)
  BY DEF Leaves
<1>2. PICK t \in C : Lengthens(t.out, v.out)
  BY DEF Leaves
<1>3. t \in Speaking /\ Rising(t.out)
  BY DEF Fits
<1>4. t.out \in Seq(Frames)
  BY <1>3, SpeakingFields, SpeechIsFrames
<1> QED
  BY <1>1, <1>2, <1>3, <1>4, LengthensRising DEF Silent

(* What begins an orderly turn is orderly *)
LEMMA OrderlyBefore ==
  ASSUME NEW q \in Seq(Chunks), NEW c \in Chunks, Orderly(Append(q, c))
  PROVE  Orderly(q)
<1>1. PICK r \in Seq(Chunks) : r = Append(q, c)
  BY AppendProperties
<1>2. \A k \in 1 .. Len(q) : k \in 1 .. Len(r) /\ r[k] = q[k]
  <2>1. Len(r) = Len(q) + 1 /\ Len(q) \in Nat /\ \A k \in 1 .. Len(q) : r[k] = q[k]
    BY <1>1, AppendProperties
  <2> QED
    BY <2>1
<1>3. Orderly(r)
  BY <1>1
<1>4. \A k, l \in 1 .. Len(q) : \A m \in NamedIn(q[k]), n \in NamedIn(q[l]) :
        k < l \/ (k = l /\ m < n) => q[k].calls[m].index < q[l].calls[n].index
  BY <1>2, <1>3, Zenon DEF Orderly
<1>5. \A i, j, k \in 1 .. Len(q) :
        i < j /\ j <= k /\ q[i].has_calls /\ Content(q[j]) # <<>> => NamedIn(q[k]) = {}
  BY <1>2, <1>3, Zenon DEF Orderly
<1> QED
  BY <1>4, <1>5 DEF Orderly

LEMMA StepFInv == FInv /\ [Next]_vars => FInv'
<1> SUFFICES ASSUME FInv, [Next]_vars PROVE FInv'
  OBVIOUS
<1>0. IInv'
  BY StepIInv DEF FInv
<1>1. st \in Reachable /\ heard \in Seq(Chunks) /\ st \in StateSet /\ st.out \in Seq(Frames)
  BY ReachableParts DEF FInv, IInv, StateSet
<1>3. ASSUME st' = st, heard' = heard PROVE FInv'
  BY <1>0, <1>3 DEF FInv
<1>4. ASSUME NEW r, r = heard', Orderly(r) => Outcome(r, st'), st' \notin Silent PROVE FInv'
  <2>1. ASSUME Orderly(r) PROVE Rising(st'.out) /\ (st' \in Speaking => st' \in Fits(r))
    <3>1. PICK C : Calm(C) /\ C \subseteq Fits(r) /\ st' \in Leaves(C)
      BY <1>4, <2>1 DEF Outcome
    <3> QED
      BY <3>1, LeavesFit
  <2> QED
    BY <1>0, <1>4, <2>1 DEF FInv
<1>5. ASSUME NEW c \in Chunks, Chunk(c), ~st.message_stopped PROVE FInv'
  <2>1. c \in CanonChunk /\ st \in Silent \cup Speaking
    BY <1>1, <1>5, ChunksAssumption, ReachableParts
  <2>2. st' = chunk_to_sse_events(st, c) /\ heard' = Append(heard, c)
    BY <1>5 DEF Chunk
  <2>3. PICK q \in Seq(Chunks), s \in Silent \cup Speaking : q = heard /\ s = st
    BY <1>1, <2>1
  <2>4. PICK r : r = Append(q, c) /\ r = heard'
    BY <2>2, <2>3
  <2>5. st' \notin Silent
    BY <2>1, <2>2, ChunkType DEF Silent, Speaking, Finished
  <2>6. ASSUME Orderly(r) PROVE Outcome(r, st')
    <3>1. Orderly(heard)
      BY <2>3, <2>4, <2>6, OrderlyBefore
    <3>2. preamble(st, c) \in Fits(heard)
      <4>1. CASE st \in Speaking
        BY <2>1, <3>1, <4>1, FitsCalm, CalmPreamble DEF FInv
      <4>2. CASE st \in Silent
        BY <2>1, <4>2, PreambleFits DEF FInv
      <4> QED
        BY <2>1, <4>1, <4>2
    <3>3. preamble(s, c) \in Fits(q)
      BY <2>3, <3>2
    <3>4. Outcome(r, chunk_to_sse_events(s, c))
      BY <2>4, <2>6, <3>3, ChunkFits
    <3> QED
      BY <2>2, <2>3, <3>4
  <2> QED
    BY <1>4, <2>4, <2>5, <2>6
<1>6. ASSUME NEW c \in Chunks, Chunk(c), st.message_stopped PROVE FInv'
  BY <1>3, <1>6 DEF Chunk, chunk_to_sse_events
<1>7. ASSUME Fail PROVE FInv'
  <2>1. st' = Push([st EXCEPT !.message_stopped = TRUE], ErrorFrame) /\ heard' = heard
    BY <1>7 DEF Fail
  <2>2. st'.out = Append(st.out, ErrorFrame) /\ st'.message_stopped
    BY <1>1, <2>1 DEF Push, StateSet
  <2>3. ErrorFrame \in Frames /\ ErrorFrame.ev # "content_block_start"
    BY FrameTypes DEF ErrorFrame, Frame
  <2>4. Orderly(heard) => Rising(st'.out)
    BY <1>1, <2>2, <2>3, NoStartRising DEF FInv
  <2>5. st' \notin Silent /\ st' \notin Speaking
    BY <2>2 DEF Silent, Speaking
  <2> QED
    BY <1>0, <2>1, <2>4, <2>5 DEF FInv
<1>8. ASSUME End PROVE FInv'
  <2>1. st' = finalize_stream(st) /\ heard' = heard
    BY <1>8 DEF End
  <2>2. CASE st.message_stopped
    BY <1>3, <2>1, <2>2 DEF finalize_stream
  <2>3. CASE st \in Silent
    <3>1. st' = [st EXCEPT !.message_stopped = TRUE]
      BY <2>1, <2>3 DEF finalize_stream, Silent
    <3>2. st'.out = st.out /\ st'.message_stopped
      BY <1>1, <3>1 DEF StateSet
    <3>3. st' \notin Silent /\ st' \notin Speaking
      BY <3>2 DEF Silent, Speaking
    <3> QED
      BY <1>0, <2>1, <3>2, <3>3 DEF FInv
  <2>4. CASE st \in Speaking
    <3>1. Orderly(heard) => st' \in Leaves(Fits(heard'))
      BY <2>1, <2>4, FitsCalm, CalmFinalize DEF FInv
    <3>2. PICK r : r = heard'
      OBVIOUS
    <3>3. Orderly(r) => Outcome(r, st')
      BY <2>1, <3>1, <3>2, LeavesOutcome
    <3>4. st' \notin Silent
      BY <1>1, <2>1, FinalizeType DEF Silent
    <3> QED
      BY <1>4, <3>2, <3>3, <3>4
  <2> QED
    BY <1>1, <2>2, <2>3, <2>4, ReachableParts
<1>9. CASE UNCHANGED vars
  BY <1>3, <1>9 DEF vars
<1> QED
  BY <1>5, <1>6, <1>7, <1>8, <1>9 DEF Next

(* The body is one message whose deltas and stops name open blocks and     *)
(* whose starts find none below them open, whatever mix of channels,       *)
(* repeated tool names, late arguments, stop sequences and failures the    *)
(* upstream sends; in an orderly turn its blocks are sequential            *)
(* (open_block, close_block, emit_terminal, next_index, tool_base_index,   *)
(* the sections of chunk_to_sse_events, the shell's error frame)           *)
THEOREM Bracketing == Spec => []BlocksBracketed
<1>1. BInv /\ FInv => BlocksBracketed
  <2>1. SUFFICES ASSUME BInv, FInv PROVE BlocksBracketed
    OBVIOUS
  <2>2. PICK o \in Seq(Frames) : o = st.out /\ o = out /\ DOMAIN o = 1 .. Len(o)
    BY <2>1, ReachableParts DEF FInv, IInv, StateSet, out
  <2>3. Bracketed(o)
    BY <2>1, <2>2, BInvBracketed
  <2>4. \A i \in 0 .. Len(st.blocks) - 1 : i \in Nat
    OBVIOUS
  <2>5. Orderly(heard) => Sequential
    <3> SUFFICES ASSUME Orderly(heard), NEW j \in 1 .. Len(o), NEW k \in 1 .. Len(o), j < k,
                        o[j].ev = "content_block_start", o[k].ev = "content_block_start"
                 PROVE  o[j].index < o[k].index /\ ~OpenAfter(o, o[j].index, k - 1)
      BY <2>2 DEF Sequential, Starting
    <3>1. o[j].index < o[k].index
      BY <2>1, <2>2 DEF FInv, Rising
    <3>2. o[j].index \in Nat /\ o[k].index \in Nat
      BY IndexNat
    <3>3. o[j].index \in 0 .. o[k].index - 1
      BY <3>1, <3>2
    <3> QED
      BY <2>3, <3>1, <3>3 DEF Bracketed
  <2> QED
    BY <2>2, <2>3, <2>4, <2>5 DEF Bracketed, BlocksBracketed, Starting
<1> QED
  BY <1>1, InitBInv, StepBInv, InitFInv, StepFInv, PTL DEF Spec

(* No block index is started twice, for every set of chunks, list of stop  *)
(* sequences and bound, when the upstream names its calls in ascending     *)
(* order and names none once a channel has resumed after them (next_index, *)
(* tool_base_index).  Without that the indices of the calls, which the     *)
(* upstream chose, run into those that text has taken since.               *)
THEOREM FreshAlways == OrderlyTurns => (Spec => []FreshIndices)
<1>1. FInv /\ Orderly(heard) => FreshIndices
  <2> SUFFICES ASSUME FInv, Orderly(heard) PROVE FreshIndices
    OBVIOUS
  <2>1. PICK o \in Seq(Frames) : o = out /\ DOMAIN o = 1 .. Len(o)
    BY ReachableParts DEF FInv, IInv, StateSet, out
  <2>2. Fresh(o)
    BY <2>1, RisingFresh DEF FInv, out
  <2> QED
    BY <2>1, <2>2 DEF FreshIndices, Fresh
<1>2. SUFFICES ASSUME OrderlyTurns PROVE Spec => []FreshIndices
  OBVIOUS
<1>3. Init => Orderly(heard)
  <2>1. Len(<<>>) = 0
    BY EmptySeq
  <2> QED
    BY <2>1 DEF Init, Orderly
<1>4. FInv /\ Orderly(heard) /\ [Next]_vars => Orderly(heard)'
  <2> SUFFICES ASSUME FInv, Orderly(heard), [Next]_vars, heard' # heard PROVE Orderly(heard)'
    OBVIOUS
  <2>1. PICK c \in Chunks : Turn(Append(heard, c)) /\ heard' = Append(heard, c)
    BY DEF Next, Chunk, Fail, End, vars
  <2>2. Append(heard, c) \in Seq(Chunks)
    BY AppendProperties DEF FInv, IInv
  <2>3. Orderly(Append(heard, c))
    BY <1>2, <2>1, <2>2 DEF OrderlyTurns
  <2> QED
    BY <2>1, <2>3
<1> QED
  BY <1>1, <1>3, <1>4, InitFInv, StepFInv, PTL DEF Spec

(* On orderly turns stop sequences never cost the client text it is owed *)
THEOREM TextSurvivesOrderly == OrderlyTurns => (Spec => []TextSurvives)
<1>1. SUFFICES ASSUME OrderlyTurns PROVE Spec => []TextSurvives
  OBVIOUS
<1>2. Spec => []FreshIndices
  BY <1>1, FreshAlways
<1> QED
  BY <1>2, TextAlwaysSurvives, PTL

-----------------------------------------------------------------------------
(* Where tool blocks were started and calls named *)
ToolStart(f) == f.kind = "tool_use" /\ f.ev = "content_block_start"

MarksOf(o) == [k \in DOMAIN o |-> IF ToolStart(o[k]) THEN <<k>> ELSE <<>>]
Marks(o) == FlattenSeq(MarksOf(o))

NamingsOf(q) == [k \in DOMAIN q |-> IF q[k].name THEN <<k>> ELSE <<>>]
Namings(q) == FlattenSeq(NamingsOf(q))

LEMMA MarksType ==
  ASSUME NEW o, NEW n \in Nat, DOMAIN o = 1 .. n
  PROVE  /\ MarksOf(o) \in [1 .. n -> Seq(Nat)]
         /\ NamingsOf(o) \in [1 .. n -> Seq(Nat)]
<1>1. \A k \in 1 .. n : <<k>> \in Seq(Nat) /\ <<>> \in Seq(Nat)
  BY EmptySeq
<1> QED
  BY <1>1 DEF MarksOf, NamingsOf

LEMMA MarksAppend ==
  ASSUME NEW o \in Seq(Frames), NEW f \in Frames
  PROVE  /\ Marks(o) \in Seq(Nat)
         /\ Marks(Append(o, f)) = IF ToolStart(f) THEN Append(Marks(o), Len(o) + 1) ELSE Marks(o)
<1>1. PICK n \in Nat : n = Len(o) /\ DOMAIN o = 1 .. n
  OBVIOUS
<1>2. PICK p \in Seq(Frames) : p = Append(o, f)
  BY AppendProperties
<1>3. DOMAIN p = 1 .. n + 1 /\ p[n + 1] = f /\ \A k \in 1 .. n : p[k] = o[k]
  BY <1>1, <1>2, AppendProperties
<1>4. PICK g \in [1 .. n -> Seq(Nat)] : g = MarksOf(o)
  <2>1. MarksOf(o) \in [1 .. n -> Seq(Nat)]
    BY <1>1, MarksType
  <2> QED
    BY <2>1
<1>5. PICK h \in [1 .. n + 1 -> Seq(Nat)] : h = MarksOf(p)
  <2>1. PICK m \in Nat : m = n + 1
    OBVIOUS
  <2>2. MarksOf(p) \in [1 .. m -> Seq(Nat)]
    BY <1>3, <2>1, MarksType
  <2> QED
    BY <2>1, <2>2
<1>6. \A k \in 1 .. n : k \in 1 .. n + 1 /\ h[k] = g[k]
  BY <1>1, <1>3, <1>4, <1>5 DEF MarksOf
<1>7. h[n + 1] = IF ToolStart(f) THEN <<n + 1>> ELSE <<>>
  <2>1. n + 1 \in 1 .. n + 1
    OBVIOUS
  <2> QED
    BY <1>3, <1>5, <2>1 DEF MarksOf
<1>8. FlattenSeq(g) \in Seq(Nat) /\ FlattenSeq(h) = FlattenSeq(g) \o h[n + 1]
  <2>1. \A k \in 1 .. n : h[k] = g[k]
    BY <1>6
  <2> QED
    BY <2>1, JoinOneMore, Zenon
<1>9. FlattenSeq(g) \o <<>> = FlattenSeq(g) /\ FlattenSeq(g) \o <<n + 1>> = Append(FlattenSeq(g), n + 1)
  BY <1>8, ConcatEmptySeq, AppendIsConcat
<1> QED
  BY <1>1, <1>2, <1>4, <1>5, <1>7, <1>8, <1>9 DEF Marks

LEMMA NamingsAppend ==
  ASSUME NEW q \in Seq(Calls), NEW tc \in Calls
  PROVE  /\ Namings(q) \in Seq(Nat)
         /\ Namings(Append(q, tc)) = IF tc.name THEN Append(Namings(q), Len(q) + 1) ELSE Namings(q)
<1>1. PICK n \in Nat : n = Len(q) /\ DOMAIN q = 1 .. n
  OBVIOUS
<1>2. PICK p \in Seq(Calls) : p = Append(q, tc)
  BY AppendProperties
<1>3. DOMAIN p = 1 .. n + 1 /\ p[n + 1] = tc /\ \A k \in 1 .. n : p[k] = q[k]
  BY <1>1, <1>2, AppendProperties
<1>4. PICK g \in [1 .. n -> Seq(Nat)] : g = NamingsOf(q)
  <2>1. NamingsOf(q) \in [1 .. n -> Seq(Nat)]
    BY <1>1, MarksType
  <2> QED
    BY <2>1
<1>5. PICK h \in [1 .. n + 1 -> Seq(Nat)] : h = NamingsOf(p)
  <2>1. PICK m \in Nat : m = n + 1
    OBVIOUS
  <2>2. NamingsOf(p) \in [1 .. m -> Seq(Nat)]
    BY <1>3, <2>1, MarksType
  <2> QED
    BY <2>1, <2>2
<1>6. \A k \in 1 .. n : k \in 1 .. n + 1 /\ h[k] = g[k]
  BY <1>1, <1>3, <1>4, <1>5 DEF NamingsOf
<1>7. h[n + 1] = IF tc.name THEN <<n + 1>> ELSE <<>>
  <2>1. n + 1 \in 1 .. n + 1
    OBVIOUS
  <2> QED
    BY <1>3, <1>5, <2>1 DEF NamingsOf
<1>8. FlattenSeq(g) \in Seq(Nat) /\ FlattenSeq(h) = FlattenSeq(g) \o h[n + 1]
  <2>1. \A k \in 1 .. n : h[k] = g[k]
    BY <1>6
  <2> QED
    BY <2>1, JoinOneMore, Zenon
<1>9. FlattenSeq(g) \o <<>> = FlattenSeq(g) /\ FlattenSeq(g) \o <<n + 1>> = Append(FlattenSeq(g), n + 1)
  BY <1>8, ConcatEmptySeq, AppendIsConcat
<1> QED
  BY <1>1, <1>2, <1>4, <1>5, <1>7, <1>8, <1>9 DEF Namings

-----------------------------------------------------------------------------
(* The arguments that a body streams into a block, and those that the      *)
(* upstream sends for a call                                               *)
StartedBy(o, j, i, k) ==
  /\ o[j].ev = "content_block_start" /\ o[j].index = i
  /\ \A m \in j + 1 .. k : ~(o[m].ev = "content_block_start" /\ o[m].index = i)

PiecesIn(o, j) ==
  [k \in DOMAIN o |->
     IF k > j /\ o[k].kind = "input_json_delta" /\ StartedBy(o, j, o[k].index, k)
     THEN o[k].text ELSE <<>>]
ArgsIn(o, j) == FlattenSeq(PiecesIn(o, j))

MeantFor(q, n, m) ==
  /\ m >= n /\ q[m].index = q[n].index
  /\ \A l \in n + 1 .. m : ~(q[l].name /\ q[l].index = q[n].index)

PiecesFor(q, n) == [m \in DOMAIN q |-> IF MeantFor(q, n, m) THEN q[m].args ELSE <<>>]
ArgsFor(q, n) == FlattenSeq(PiecesFor(q, n))

(* No later frame starts the block of frame j, no later call has the name  *)
(* of call n                                                               *)
LastStart(o, j) ==
  \A m \in j + 1 .. Len(o) : ~(o[m].ev = "content_block_start" /\ o[m].index = o[j].index)
LastNaming(q, n) == \A l \in n + 1 .. Len(q) : ~(q[l].name /\ q[l].index = q[n].index)

LEMMA PiecesInType ==
  ASSUME NEW o \in Seq(Frames), NEW n \in Nat, Len(o) = n, NEW j
  PROVE  PiecesIn(o, j) \in [1 .. n -> Seq(Char)]
<1>1. DOMAIN o = 1 .. n
  OBVIOUS
<1>2. <<>> \in Seq(Char)
  BY EmptySeq
<1>3. \A f \in Frames : f.text \in Seq(Char)
  BY DEF Frames, Texts
<1>4. \A k \in 1 .. n : o[k] \in Frames
  OBVIOUS
<1>5. \A k \in 1 .. n : o[k].text \in Seq(Char)
  BY <1>3, <1>4
<1> HIDE DEF StartedBy
<1> QED
  BY <1>1, <1>2, <1>5 DEF PiecesIn

LEMMA PiecesForType ==
  ASSUME NEW q \in Seq(Calls), NEW n \in Nat, Len(q) = n, NEW j
  PROVE  PiecesFor(q, j) \in [1 .. n -> Seq(Char)]
<1>1. DOMAIN q = 1 .. n
  OBVIOUS
<1>2. <<>> \in Seq(Char)
  BY EmptySeq
<1>3. \A f \in Calls : f.args \in Seq(Char)
  BY DEF Calls, Texts
<1>4. \A k \in 1 .. n : q[k] \in Calls
  OBVIOUS
<1>5. \A k \in 1 .. n : q[k].args \in Seq(Char)
  BY <1>3, <1>4
<1> QED
  BY <1>1, <1>2, <1>5 DEF PiecesFor

LEMMA FlattenText ==
  ASSUME NEW h \in Seq(Seq(Char))
  PROVE  FlattenSeq(h) \in Texts
<1>1. <<>> \in Seq(Char)
  BY EmptySeq
<1> QED
  BY <1>1, FlattenAppend DEF Texts

LEMMA ArgsInText ==
  ASSUME NEW o \in Seq(Frames), NEW j
  PROVE  ArgsIn(o, j) \in Texts
<1>1. PICK n \in Nat : n = Len(o)
  OBVIOUS
<1>2. PiecesIn(o, j) \in [1 .. n -> Seq(Char)]
  BY <1>1, PiecesInType
<1>3. PiecesIn(o, j) \in Seq(Seq(Char))
  BY <1>2
<1> QED
  BY <1>3, FlattenText DEF ArgsIn

LEMMA ArgsForText ==
  ASSUME NEW q \in Seq(Calls), NEW j
  PROVE  ArgsFor(q, j) \in Texts
<1>1. PICK n \in Nat : n = Len(q)
  OBVIOUS
<1>2. PiecesFor(q, j) \in [1 .. n -> Seq(Char)]
  BY <1>1, PiecesForType
<1>3. PiecesFor(q, j) \in Seq(Seq(Char))
  BY <1>2
<1> QED
  BY <1>3, FlattenText DEF ArgsFor

(* One frame more *)
GainsFrame(o, f, p, j) ==
  /\ p[j] = o[j]
  /\ LastStart(p, j) <=> /\ LastStart(o, j)
                         /\ ~(f.ev = "content_block_start" /\ f.index = o[j].index)
  /\ ArgsIn(p, j) = ArgsIn(o, j) \o
       (IF /\ f.kind = "input_json_delta" /\ o[j].ev = "content_block_start"
           /\ o[j].index = f.index /\ LastStart(p, j)
        THEN f.text ELSE <<>>)

LEMMA ArgsInAppend ==
  ASSUME NEW o \in Seq(Frames), NEW f \in Frames, NEW j \in 1 .. Len(o),
         NEW p, p = Append(o, f)
  PROVE  GainsFrame(o, f, p, j)
<1>1. PICK n \in Nat : n = Len(o) /\ DOMAIN o = 1 .. n /\ j \in 1 .. n
  OBVIOUS
<1>2. DOMAIN p = 1 .. n + 1 /\ p[n + 1] = f /\ \A k \in 1 .. n : p[k] = o[k]
  BY <1>1, AppendProperties
<1>3. p \in Seq(Frames) /\ Len(p) = n + 1
  BY <1>1, AppendProperties
<1>4. PICK g \in [1 .. n -> Seq(Char)] : g = PiecesIn(o, j)
  <2>1. PiecesIn(o, j) \in [1 .. n -> Seq(Char)]
    BY <1>1, PiecesInType
  <2> QED
    BY <2>1
<1>5. PICK h \in [1 .. n + 1 -> Seq(Char)] : h = PiecesIn(p, j)
  <2>1. PICK m \in Nat : m = n + 1
    OBVIOUS
  <2>2. PiecesIn(p, j) \in [1 .. m -> Seq(Char)]
    BY <1>3, <2>1, PiecesInType
  <2> QED
    BY <2>1, <2>2
<1>6. \A k \in 1 .. n : k \in 1 .. n + 1 /\ \A m \in j + 1 .. k : m \in 1 .. n
  BY <1>1
<1>7. ASSUME NEW k \in 1 .. n PROVE h[k] = g[k]
  <2>1. \A i : StartedBy(p, j, i, k) <=> StartedBy(o, j, i, k)
    BY <1>1, <1>2, <1>6 DEF StartedBy
  <2>2. p[k] = o[k] /\ k \in DOMAIN p /\ k \in DOMAIN o
    BY <1>1, <1>2, <1>6
  <2> QED
    BY <1>4, <1>5, <2>1, <2>2 DEF PiecesIn
<1>8. h[n + 1] = IF f.kind = "input_json_delta" /\ StartedBy(p, j, f.index, n + 1)
                 THEN f.text ELSE <<>>
  <2>1. n + 1 \in DOMAIN p /\ n + 1 > j
    BY <1>1, <1>2
  <2> QED
    BY <1>2, <1>5, <2>1 DEF PiecesIn
<1>9. StartedBy(p, j, f.index, n + 1) <=>
        o[j].ev = "content_block_start" /\ o[j].index = f.index /\ LastStart(p, j)
  BY <1>1, <1>2, <1>3 DEF StartedBy, LastStart
<1>10. FlattenSeq(h) = FlattenSeq(g) \o h[n + 1]
  <2>1. \A k \in 1 .. n : h[k] = g[k]
    BY <1>7
  <2> QED
    BY <2>1, JoinOneMore, Zenon
<1>11. LastStart(p, j) <=> /\ LastStart(o, j)
                           /\ ~(f.ev = "content_block_start" /\ f.index = o[j].index)
  <2>1. \A m \in j + 1 .. n + 1 : m \in j + 1 .. n \/ m = n + 1
    OBVIOUS
  <2>2. n + 1 \in j + 1 .. n + 1 /\ \A m \in j + 1 .. n : m \in j + 1 .. n + 1 /\ m \in 1 .. n
    BY <1>1
  <2> QED
    BY <1>1, <1>2, <1>3, <2>1, <2>2 DEF LastStart
<1> QED
  BY <1>1, <1>2, <1>4, <1>5, <1>8, <1>9, <1>10, <1>11 DEF ArgsIn, GainsFrame

LEMMA ArgsInNew ==
  ASSUME NEW o \in Seq(Frames), NEW f \in Frames, NEW p, p = Append(o, f)
  PROVE  ArgsIn(p, Len(o) + 1) = <<>> /\ LastStart(p, Len(o) + 1) /\ p[Len(o) + 1] = f
<1>1. PICK n \in Nat : n = Len(o)
  OBVIOUS
<1>3. p \in Seq(Frames) /\ Len(p) = n + 1 /\ p[n + 1] = f /\ DOMAIN p = 1 .. n + 1
  BY <1>1, AppendProperties
<1>m. PICK m \in Nat : m = n + 1
  OBVIOUS
<1>4. PICK h \in [1 .. m -> Seq(Char)] : h = PiecesIn(p, m)
  <2>1. PiecesIn(p, m) \in [1 .. m -> Seq(Char)]
    BY <1>3, <1>m, PiecesInType
  <2> QED
    BY <2>1
<1>5. \A k \in 1 .. m : h[k] = <<>>
  BY <1>3, <1>m, <1>4 DEF PiecesIn
<1>6. FlattenSeq(h) = <<>>
  BY <1>5, JoinEmpty, Zenon
<1> QED
  BY <1>1, <1>3, <1>m, <1>4, <1>6 DEF ArgsIn, LastStart

(* One call more *)
GainsCall(q, tc, r, n) ==
  /\ r[n] = q[n]
  /\ LastNaming(r, n) <=> LastNaming(q, n) /\ ~(tc.name /\ tc.index = q[n].index)
  /\ ArgsFor(r, n) = ArgsFor(q, n) \o
       (IF tc.index = q[n].index /\ LastNaming(r, n) THEN tc.args ELSE <<>>)

LEMMA ArgsForAppend ==
  ASSUME NEW q \in Seq(Calls), NEW tc \in Calls, NEW n \in 1 .. Len(q), NEW r, r = Append(q, tc)
  PROVE  GainsCall(q, tc, r, n)
<1>1. PICK l \in Nat : l = Len(q) /\ DOMAIN q = 1 .. l /\ n \in 1 .. l
  OBVIOUS
<1>2. DOMAIN r = 1 .. l + 1 /\ r[l + 1] = tc /\ \A k \in 1 .. l : r[k] = q[k]
  BY <1>1, AppendProperties
<1>3. r \in Seq(Calls) /\ Len(r) = l + 1
  BY <1>1, AppendProperties
<1>4. PICK g \in [1 .. l -> Seq(Char)] : g = PiecesFor(q, n)
  <2>1. PiecesFor(q, n) \in [1 .. l -> Seq(Char)]
    BY <1>1, PiecesForType
  <2> QED
    BY <2>1
<1>5. PICK h \in [1 .. l + 1 -> Seq(Char)] : h = PiecesFor(r, n)
  <2>1. PICK m \in Nat : m = l + 1
    OBVIOUS
  <2>2. PiecesFor(r, n) \in [1 .. m -> Seq(Char)]
    BY <1>3, <2>1, PiecesForType
  <2> QED
    BY <2>1, <2>2
<1>6. \A k \in 1 .. l : k \in 1 .. l + 1 /\ \A m \in n + 1 .. k : m \in 1 .. l
  BY <1>1
<1>7. ASSUME NEW k \in 1 .. l PROVE h[k] = g[k]
  <2>1. MeantFor(r, n, k) <=> MeantFor(q, n, k)
    BY <1>1, <1>2, <1>6 DEF MeantFor
  <2>2. r[k] = q[k] /\ k \in DOMAIN r /\ k \in DOMAIN q
    BY <1>1, <1>2, <1>6
  <2> QED
    BY <1>4, <1>5, <2>1, <2>2 DEF PiecesFor
<1>8. h[l + 1] = IF MeantFor(r, n, l + 1) THEN tc.args ELSE <<>>
  <2>1. l + 1 \in DOMAIN r
    BY <1>1, <1>2
  <2> QED
    BY <1>2, <1>5, <2>1 DEF PiecesFor
<1>9. MeantFor(r, n, l + 1) <=> tc.index = q[n].index /\ LastNaming(r, n)
  BY <1>1, <1>2, <1>3 DEF MeantFor, LastNaming
<1>10. FlattenSeq(h) = FlattenSeq(g) \o h[l + 1]
  <2>1. \A k \in 1 .. l : h[k] = g[k]
    BY <1>7
  <2> QED
    BY <2>1, JoinOneMore, Zenon
<1>11. LastNaming(r, n) <=> LastNaming(q, n) /\ ~(tc.name /\ tc.index = q[n].index)
  <2>1. \A m \in n + 1 .. l + 1 : m \in n + 1 .. l \/ m = l + 1
    OBVIOUS
  <2>2. l + 1 \in n + 1 .. l + 1 /\ \A m \in n + 1 .. l : m \in n + 1 .. l + 1 /\ m \in 1 .. l
    BY <1>1
  <2> QED
    BY <1>1, <1>2, <1>3, <2>1, <2>2 DEF LastNaming
<1> QED
  BY <1>1, <1>2, <1>4, <1>5, <1>8, <1>9, <1>10, <1>11 DEF ArgsFor, GainsCall

LEMMA ArgsForNew ==
  ASSUME NEW q \in Seq(Calls), NEW tc \in Calls, NEW r, r = Append(q, tc)
  PROVE  ArgsFor(r, Len(q) + 1) = tc.args /\ LastNaming(r, Len(q) + 1) /\ r[Len(q) + 1] = tc
<1>1. PICK l \in Nat : l = Len(q)
  OBVIOUS
<1>2. r \in Seq(Calls) /\ Len(r) = l + 1 /\ r[l + 1] = tc /\ DOMAIN r = 1 .. l + 1
  BY <1>1, AppendProperties
<1>3. PICK h \in [1 .. l + 1 -> Seq(Char)] : h = PiecesFor(r, l + 1)
  <2>1. PICK m \in Nat : m = l + 1
    OBVIOUS
  <2>2. PiecesFor(r, m) \in [1 .. m -> Seq(Char)]
    BY <1>2, <2>1, PiecesForType
  <2> QED
    BY <2>1, <2>2
<1>4. \A k \in 1 .. l : k \in DOMAIN r /\ h[k] = <<>>
  BY <1>2, <1>3 DEF PiecesFor, MeantFor
<1>5. h[l + 1] = tc.args
  <2>1. l + 1 \in DOMAIN r /\ MeantFor(r, l + 1, l + 1)
    BY <1>2 DEF MeantFor
  <2> QED
    BY <1>2, <1>3, <2>1 DEF PiecesFor
<1>6. PICK g \in [1 .. l -> Seq(Char)] : g = [k \in 1 .. l |-> <<>>]
  <2>1. <<>> \in Seq(Char)
    BY EmptySeq
  <2> QED
    BY <2>1
<1>7. FlattenSeq(g) = <<>>
  <2>1. \A k \in 1 .. l : g[k] = <<>>
    BY <1>6
  <2> QED
    BY <2>1, JoinEmpty, Zenon
<1>8. FlattenSeq(h) = FlattenSeq(g) \o h[l + 1]
  <2>1. \A k \in 1 .. l : h[k] = g[k]
    BY <1>4, <1>6
  <2> QED
    BY <2>1, JoinOneMore, Zenon
<1>9. tc.args \in Seq(Char)
  BY DEF Calls, Texts
<1>10. <<>> \o tc.args = tc.args
  BY <1>9, ConcatEmptySeq
<1> QED
  BY <1>1, <1>2, <1>3, <1>5, <1>7, <1>8, <1>10 DEF ArgsFor, LastNaming

-----------------------------------------------------------------------------
(* Tame frames start no tool block and say nothing in one *)
LEMMA LengthensArgs ==
  ASSUME NEW o \in Seq(Frames), NEW p, Lengthens(o, p)
  PROVE  /\ p \in Seq(Frames) /\ Len(o) <= Len(p)
         /\ Marks(p) = Marks(o)
         /\ \A j \in 1 .. Len(o) : /\ p[j] = o[j]
                                   /\ LastStart(p, j) <=> LastStart(o, j)
                                   /\ ArgsIn(p, j) = ArgsIn(o, j)
<1>1. PICK q \in Seq(Tame) : p = o \o q
  BY DEF Lengthens
<1>2. q \in Seq(Frames)
  BY SeqMonotonic DEF Tame
<1>3. PICK n \in Nat : n = Len(o) /\ DOMAIN o = 1 .. n
  OBVIOUS
<1>4. PICK m \in Nat : m = n + Len(q)
  BY <1>3
<1>5. p \in Seq(Frames) /\ Len(p) = m /\ DOMAIN p = 1 .. m /\ n <= m
  <2>1. p \in Seq(Frames) /\ Len(p) = Len(o) + Len(q) /\ Len(q) \in Nat
    BY <1>1, <1>2, ConcatProperties
  <2> QED
    BY <1>3, <1>4, <2>1
<1>6. \A k \in 1 .. Len(o) + Len(q) : p[k] = IF k <= Len(o) THEN o[k] ELSE q[k - Len(o)]
  BY <1>1, <1>2, ConcatProperties
<1>6a. n <= m
  BY <1>5
<1>7. ASSUME NEW k \in 1 .. n PROVE k \in 1 .. m /\ p[k] = o[k]
  BY <1>3, <1>4, <1>6
<1>8. ASSUME NEW k \in n + 1 .. m
      PROVE  k \in 1 .. m /\ p[k].ev # "content_block_start" /\ p[k].kind # "input_json_delta"
  <2>1. k - n \in 1 .. Len(q) /\ k \in 1 .. m /\ ~(k <= n)
    BY <1>3, <1>4
  <2>2. p[k] = q[k - n] /\ q[k - n] \in Tame
    BY <1>3, <1>4, <1>6, <2>1
  <2> QED
    BY <2>1, <2>2 DEF Tame
<1>9. Marks(p) = Marks(o)
  <2>1. PICK g \in [1 .. n -> Seq(Nat)] : g = MarksOf(o)
    <3>1. MarksOf(o) \in [1 .. n -> Seq(Nat)]
      BY <1>3, MarksType
    <3> QED
      BY <3>1
  <2>2. PICK h \in [1 .. m -> Seq(Nat)] : h = MarksOf(p)
    <3>1. MarksOf(p) \in [1 .. m -> Seq(Nat)]
      BY <1>5, MarksType
    <3> QED
      BY <3>1
  <2>3. \A k \in 1 .. n : h[k] = g[k]
    BY <1>3, <1>5, <1>7, <2>1, <2>2 DEF MarksOf
  <2>4. \A k \in 1 .. m : k > n => h[k] = <<>>
    BY <1>5, <1>8, <2>2 DEF MarksOf, ToolStart
  <2>5. FlattenSeq(h) = FlattenSeq(g)
    <3>1. g \in Seq(Seq(Nat)) /\ h \in Seq(Seq(Nat)) /\ Len(g) = n /\ Len(h) = m
      OBVIOUS
    <3>2. \A k \in n + 1 .. m : h[k] = <<>>
      BY <2>4
    <3> QED
      BY <1>6a, <2>3, <3>1, <3>2, FlattenPad
  <2> QED
    BY <2>1, <2>2, <2>5 DEF Marks
<1>10. ASSUME NEW j \in 1 .. n PROVE LastStart(p, j) <=> LastStart(o, j)
  <2>1. \A k \in j + 1 .. n : k \in 1 .. n /\ k \in j + 1 .. m
    BY <1>5
  <2>2. \A k \in j + 1 .. m : k \in j + 1 .. n \/ k \in n + 1 .. m
    BY <1>5
  <2>3. p[j] = o[j]
    BY <1>7
  <2> QED
    BY <1>3, <1>5, <1>7, <1>8, <2>1, <2>2, <2>3 DEF LastStart
<1>11. ASSUME NEW j \in 1 .. n PROVE ArgsIn(p, j) = ArgsIn(o, j)
  <2>1. PICK g \in [1 .. n -> Seq(Char)] : g = PiecesIn(o, j)
    <3>1. PiecesIn(o, j) \in [1 .. n -> Seq(Char)]
      BY <1>3, PiecesInType
    <3> QED
      BY <3>1
  <2>2. PICK h \in [1 .. m -> Seq(Char)] : h = PiecesIn(p, j)
    <3>1. PiecesIn(p, j) \in [1 .. m -> Seq(Char)]
      BY <1>5, PiecesInType
    <3> QED
      BY <3>1
  <2>3. ASSUME NEW k \in 1 .. n PROVE h[k] = g[k]
    <3>1. \A l \in j + 1 .. k : l \in 1 .. n
      OBVIOUS
    <3>2. \A i : StartedBy(p, j, i, k) <=> StartedBy(o, j, i, k)
      BY <1>7, <3>1 DEF StartedBy
    <3>3. p[k] = o[k] /\ k \in DOMAIN p /\ k \in DOMAIN o
      BY <1>3, <1>5, <1>7
    <3> QED
      BY <2>1, <2>2, <3>2, <3>3 DEF PiecesIn
  <2>4. \A k \in 1 .. n : h[k] = g[k]
    BY <2>3
  <2>5. \A k \in 1 .. m : k > n => h[k] = <<>>
    BY <1>5, <1>8, <2>2 DEF PiecesIn
  <2>6. FlattenSeq(h) = FlattenSeq(g)
    <3>1. g \in Seq(Seq(Char)) /\ h \in Seq(Seq(Char)) /\ Len(g) = n /\ Len(h) = m
      OBVIOUS
    <3>2. \A k \in n + 1 .. m : h[k] = <<>>
      BY <2>5
    <3> QED
      BY <1>6a, <2>4, <3>1, <3>2, FlattenPad
  <2> QED
    BY <2>1, <2>2, <2>6 DEF ArgsIn
<1> QED
  BY <1>3, <1>5, <1>7, <1>9, <1>10, <1>11

-----------------------------------------------------------------------------
(* Frame j of the body started the block of call m: both are superseded    *)
(* together, and what was streamed is a prefix of what was sent, all of it *)
(* as long as the block is open.                                           *)
Whole(s, q, j, m) ==
  LastStart(s.out, j) /\ BlockOpen(s, s.out[j].index) => ArgsIn(s.out, j) = ArgsFor(q, m)

Pair(s, q, j, m) ==
  /\ j \in 1 .. Len(s.out) /\ m \in 1 .. Len(q)
  /\ s.out[j].ev = "content_block_start"
  /\ s.out[j].index \in Nat
  /\ s.out[j].index = s.tool_base_index + q[m].index
  /\ s.out[j].index < Len(s.blocks)
  /\ LastStart(s.out, j) <=> LastNaming(q, m)
  /\ Begins(ArgsIn(s.out, j), ArgsFor(q, m))
  /\ Whole(s, q, j, m)

LEMMA QuietOpens ==
  ASSUME NEW s \in Speaking, NEW v, Quietly(s, v), NEW i \in Nat, BlockOpen(v, i)
  PROVE  BlockOpen(s, i)
<1>1. PICK b \in Seq(BOOLEAN) : b = s.blocks
  BY SpeakingFields
<1>2. PICK l \in Nat : l = Len(b) /\ DOMAIN b = 1 .. l
  OBVIOUS
<1>3. Len(v.blocks) = l
  BY <1>1, <1>2, QuietLen
<1>4. i \in 0 .. l - 1 /\ v.blocks[i + 1]
  BY <1>3 DEF BlockOpen
<1>5. i + 1 \in DOMAIN b
  BY <1>2, <1>4
<1>6. b[i + 1]
  <2>1. CASE v.blocks = b
    BY <1>4, <2>1
  <2>2. CASE \E n \in Nat : v.blocks = Stopped(b, n)
    <3>1. PICK n \in Nat : v.blocks = Stopped(b, n)
      BY <2>2
    <3> QED
      BY <1>4, <1>5, <3>1 DEF Stopped
  <2> QED
    BY <1>1, <2>1, <2>2 DEF Quietly
<1> QED
  BY <1>1, <1>2, <1>4, <1>6 DEF BlockOpen

LEMMA PairQuiet ==
  ASSUME NEW s \in Speaking, NEW v \in Speaking, Quietly(s, v), NEW q, NEW j, NEW m, Pair(s, q, j, m)
  PROVE  Pair(v, q, j, m)
<1>1. PICK o \in Seq(Frames) : o = s.out
  BY SpeakingFields, SpeechIsFrames
<1>2. PICK p \in Seq(Frames) : p = v.out
  BY SpeakingFields, SpeechIsFrames
<1>3. Lengthens(o, p) /\ v.tool_base_index = s.tool_base_index
  BY <1>1, <1>2 DEF Quietly
<1>4. j \in 1 .. Len(o)
  BY <1>1 DEF Pair
<1>5. /\ Len(o) <= Len(p) /\ p[j] = o[j] /\ ArgsIn(p, j) = ArgsIn(o, j)
      /\ LastStart(p, j) <=> LastStart(o, j)
  BY <1>3, <1>4, LengthensArgs
<1>6. Len(v.blocks) = Len(s.blocks)
  BY QuietLen
<1>7. o[j].index \in Nat
  BY <1>1 DEF Pair
<1>8. BlockOpen(v, o[j].index) => BlockOpen(s, o[j].index)
  BY <1>7, QuietOpens
<1>9. j \in 1 .. Len(p)
  BY <1>4, <1>5
<1>10. Whole(v, q, j, m)
  BY <1>1, <1>2, <1>5, <1>8 DEF Pair, Whole
<1> QED
  BY <1>1, <1>2, <1>3, <1>5, <1>6, <1>9, <1>10 DEF Pair

(* Block idx is started, by a frame of whatever kind *)
LEMMA OpenedShape ==
  ASSUME NEW b \in Seq(BOOLEAN), NEW idx \in Nat
  PROVE  /\ Opened(b, idx) \in Seq(BOOLEAN)
         /\ Len(b) <= Len(Opened(b, idx)) /\ idx < Len(Opened(b, idx))
         /\ \A s, v : s.blocks = b /\ v.blocks = Opened(b, idx) =>
              /\ BlockOpen(v, idx)
              /\ \A i \in Nat : i # idx /\ BlockOpen(v, i) => BlockOpen(s, i)
<1>1. PICK l \in Nat : l = Len(b) /\ b \in [1 .. l -> BOOLEAN]
  OBVIOUS
<1>2. PICK n \in Nat : n = IF l <= idx THEN idx + 1 ELSE l
  OBVIOUS
<1>2a. l <= n /\ idx < n
  BY <1>2
<1>3. PICK c : c = [k \in 1 .. n |-> k = idx + 1 \/ (k <= l /\ b[k])]
  OBVIOUS
<1>4. c = Opened(b, idx)
  BY <1>1, <1>2, <1>3 DEF Opened
<1>5. c \in [1 .. n -> BOOLEAN]
  BY <1>3
<1>6. c \in Seq(BOOLEAN) /\ Len(c) = n
  BY <1>5
<1>7. ASSUME NEW s, NEW v, s.blocks = b, v.blocks = c
      PROVE  /\ BlockOpen(v, idx)
             /\ \A i \in Nat : i # idx /\ BlockOpen(v, i) => BlockOpen(s, i)
  <2>1. idx + 1 \in 1 .. n /\ idx \in 0 .. n - 1
    BY <1>2a
  <2>2. BlockOpen(v, idx)
    BY <1>3, <1>6, <1>7, <2>1 DEF BlockOpen
  <2>3. ASSUME NEW i \in Nat, i # idx, BlockOpen(v, i) PROVE BlockOpen(s, i)
    <3>1. i + 1 \in 1 .. n /\ c[i + 1]
      BY <1>6, <1>7, <2>3 DEF BlockOpen
    <3>2. i + 1 <= l /\ b[i + 1]
      <4>1. c[i + 1] = (i + 1 = idx + 1 \/ (i + 1 <= l /\ b[i + 1]))
        BY <1>3, <3>1
      <4>2. i + 1 # idx + 1
        BY <2>3
      <4> QED
        BY <3>1, <4>1, <4>2
    <3> QED
      BY <1>1, <1>7, <3>2 DEF BlockOpen
  <2> QED
    BY <2>2, <2>3
<1> QED
  BY <1>1, <1>2a, <1>4, <1>6, <1>7

(* A channel takes the next free slot, which no tool block ever had *)
LEMMA PairNext ==
  ASSUME NEW s \in Speaking, NEW v \in Speaking, StartsNext(s, v), NEW q, NEW j, NEW m, Pair(s, q, j, m)
  PROVE  Pair(v, q, j, m)
<1>1. PICK o \in Seq(Frames) : o = s.out
  BY SpeakingFields, SpeechIsFrames
<1>2. PICK b \in Seq(BOOLEAN), idx \in Nat : b = s.blocks /\ idx = Len(b)
  BY SpeakingFields
<1>3. PICK kind \in BlockKinds : v.out = Append(s.out, BlockStart(Len(s.blocks), kind)) /\ kind # "tool_use"
  BY DEF StartsNext, BlockKinds
<1>4. PICK f \in Frames : f = BlockStart(idx, kind)
  BY FrameTypes DEF Speech
<1>5. PICK p \in Seq(Frames) : p = Append(o, f) /\ p = v.out
  BY <1>1, <1>2, <1>3, <1>4, AppendProperties
<1>6. f.index = idx /\ f.kind # "input_json_delta"
  BY <1>4 DEF BlockStart, Frame, BlockKinds
<1>7. j \in 1 .. Len(o) /\ o[j].index \in Nat /\ o[j].index < idx
  BY <1>1, <1>2 DEF Pair
<1>8. /\ p[j] = o[j]
      /\ LastStart(p, j) <=> LastStart(o, j) /\ ~(f.ev = "content_block_start" /\ f.index = o[j].index)
      /\ ArgsIn(p, j) = ArgsIn(o, j) \o
           (IF /\ f.kind = "input_json_delta" /\ o[j].ev = "content_block_start"
               /\ o[j].index = f.index /\ LastStart(p, j)
            THEN f.text ELSE <<>>)
  <2>1. GainsFrame(o, f, p, j)
    BY <1>5, <1>7, ArgsInAppend
  <2> QED
    BY <2>1 DEF GainsFrame
<1>9. ArgsIn(o, j) \in Texts
  BY ArgsInText
<1>10. ArgsIn(p, j) = ArgsIn(o, j)
  BY <1>6, <1>8, <1>9, ConcatEmptySeq DEF Texts
<1>11. LastStart(p, j) <=> LastStart(o, j)
  BY <1>6, <1>7, <1>8
<1>12. v.blocks = Opened(b, idx) /\ v.tool_base_index = s.tool_base_index
  BY <1>2 DEF StartsNext
<1>13. Len(b) <= Len(v.blocks) /\ Len(v.blocks) \in Nat
       /\ (BlockOpen(v, o[j].index) => BlockOpen(s, o[j].index))
  BY <1>2, <1>7, <1>12, OpenedShape
<1>14. Whole(v, q, j, m)
  BY <1>1, <1>5, <1>8, <1>10, <1>11, <1>13 DEF Pair, Whole
<1>15. j \in 1 .. Len(p) /\ o[j].index < Len(v.blocks)
  <2>0. p = Append(o, f)
    BY <1>5
  <2>1. Len(p) = Len(o) + 1 /\ Len(o) \in Nat
    BY <2>0, AppendProperties
  <2> QED
    BY <1>2, <1>7, <1>13, <2>1
<1> QED
  BY <1>1, <1>5, <1>8, <1>10, <1>11, <1>12, <1>14, <1>15 DEF Pair

-----------------------------------------------------------------------------
(* What one more call means for the pair of an earlier one *)
Addition(r, m, tc) == IF tc.index = r[m].index /\ LastNaming(r, m) THEN tc.args ELSE <<>>

LEMMA AdditionText ==
  ASSUME NEW r, NEW m, NEW tc \in Calls
  PROVE  Addition(r, m, tc) \in Texts
<1>1. <<>> \in Texts /\ tc.args \in Texts
  BY EmptySeq DEF Texts, Calls
<1> QED
  BY <1>1 DEF Addition

(* Arguments that are dropped *)
LEMMA PairDropped ==
  ASSUME NEW s \in Speaking, NEW q \in Seq(Calls), NEW tc \in Calls, ~tc.name,
         NEW r, r = Append(q, tc),
         tc.args = <<>> \/ ~BlockOpen(s, s.tool_base_index + tc.index),
         NEW j, NEW m, Pair(s, q, j, m)
  PROVE  Pair(s, r, j, m)
<1>1. m \in 1 .. Len(q)
  BY DEF Pair
<1>2. /\ r[m] = q[m]
      /\ LastNaming(r, m) <=> LastNaming(q, m) /\ ~(tc.name /\ tc.index = q[m].index)
      /\ ArgsFor(r, m) = ArgsFor(q, m) \o
           (IF tc.index = q[m].index /\ LastNaming(r, m) THEN tc.args ELSE <<>>)
  <2>1. GainsCall(q, tc, r, m)
    BY <1>1, ArgsForAppend
  <2> QED
    BY <2>1 DEF GainsCall
<1>3. PICK x \in Texts : x = ArgsIn(s.out, j)
  BY SpeakingFields, SpeechIsFrames, ArgsInText
<1>4. PICK y \in Texts : y = ArgsFor(q, m)
  BY ArgsForText
<1>5. PICK z \in Texts : z = Addition(r, m, tc)
  BY AdditionText
<1>6. ArgsFor(r, m) = y \o z
  BY <1>2, <1>4, <1>5 DEF Addition
<1>7. Begins(x, y \o z)
  BY <1>3, <1>4, BeginsLaws DEF Pair
<1>8. Whole(s, r, j, m)
  <2> SUFFICES ASSUME LastStart(s.out, j), BlockOpen(s, s.out[j].index)
               PROVE  x = y \o z
    BY <1>3, <1>6 DEF Whole
  <2>1. x = y
    BY <1>3, <1>4 DEF Pair, Whole
  <2>2. z = <<>>
    BY <1>2, <1>5 DEF Addition, Pair
  <2>3. y \o <<>> = y
    BY ConcatEmptySeq DEF Texts
  <2> QED
    BY <2>1, <2>2, <2>3
<1>9. m \in 1 .. Len(r)
  BY <1>1, AppendProperties
<1>10. LastStart(s.out, j) <=> LastNaming(r, m)
  BY <1>2 DEF Pair
<1> QED
  BY <1>2, <1>3, <1>6, <1>7, <1>8, <1>9, <1>10 DEF Pair

(* Arguments that are streamed *)
Streams(s, q, tc, r, idx, w) ==
  /\ s \in Speaking /\ s.tool_base_index \in Nat
  /\ q \in Seq(Calls) /\ tc \in Calls /\ ~tc.name /\ r = Append(q, tc)
  /\ idx = s.tool_base_index + tc.index /\ BlockOpen(s, idx)
  /\ w = Push(s, BlockDelta(idx, "input_json_delta", tc.args))

LEMMA PairStreamed ==
  ASSUME NEW s, NEW q, NEW tc, NEW r, NEW idx, NEW w, Streams(s, q, tc, r, idx, w),
         NEW j, NEW m, Pair(s, q, j, m)
  PROVE  Pair(w, r, j, m)
<1>a. s \in Speaking /\ s.tool_base_index \in Nat
  BY DEF Streams
<1>b. q \in Seq(Calls) /\ tc \in Calls /\ ~tc.name /\ r = Append(q, tc)
  BY DEF Streams
<1>c. idx = s.tool_base_index + tc.index /\ BlockOpen(s, idx)
  BY DEF Streams
<1>d. w = Push(s, BlockDelta(idx, "input_json_delta", tc.args))
  BY DEF Streams
<1> USE <1>a, <1>b, <1>c, <1>d
<1>0. idx \in Nat /\ tc.index \in Nat /\ tc.args \in Texts
  BY DEF Calls
<1>1. m \in 1 .. Len(q)
  BY DEF Pair
<1>2. /\ r[m] = q[m]
      /\ LastNaming(r, m) <=> LastNaming(q, m) /\ ~(tc.name /\ tc.index = q[m].index)
      /\ ArgsFor(r, m) = ArgsFor(q, m) \o
           (IF tc.index = q[m].index /\ LastNaming(r, m) THEN tc.args ELSE <<>>)
  <2>1. GainsCall(q, tc, r, m)
    BY <1>1, ArgsForAppend
  <2> QED
    BY <2>1 DEF GainsCall
<1>3. PICK o \in Seq(Frames) : o = s.out
  BY SpeakingFields, SpeechIsFrames
<1>4. PICK f \in Frames : f = BlockDelta(idx, "input_json_delta", tc.args)
  BY <1>0, FrameTypes DEF Speech, DeltaKinds
<1>5. f.kind = "input_json_delta" /\ f.ev # "content_block_start" /\ f.index = idx /\ f.text = tc.args
  BY <1>4 DEF BlockDelta, Frame
<1>6. w.out = Append(o, f) /\ w.blocks = s.blocks /\ w.tool_base_index = s.tool_base_index
  BY <1>0, <1>3, <1>4, ArgsPush
<1>7. PICK p \in Seq(Frames) : p = Append(o, f)
  BY AppendProperties
<1>8. j \in 1 .. Len(o)
  BY <1>3 DEF Pair
<1>9. /\ p[j] = o[j]
      /\ LastStart(p, j) <=> LastStart(o, j) /\ ~(f.ev = "content_block_start" /\ f.index = o[j].index)
      /\ ArgsIn(p, j) = ArgsIn(o, j) \o
           (IF /\ f.kind = "input_json_delta" /\ o[j].ev = "content_block_start"
               /\ o[j].index = f.index /\ LastStart(p, j)
            THEN f.text ELSE <<>>)
  <2>1. GainsFrame(o, f, p, j)
    BY <1>7, <1>8, ArgsInAppend
  <2> QED
    BY <2>1 DEF GainsFrame
<1>10. PICK x \in Texts : x = ArgsIn(o, j)
  BY ArgsInText
<1>11. PICK y \in Texts : y = ArgsFor(q, m)
  BY ArgsForText
<1>12. PICK z \in Texts : z = Addition(r, m, tc)
  BY AdditionText
<1>13. ArgsFor(r, m) = y \o z
  BY <1>2, <1>11, <1>12 DEF Addition
<1>14. LastStart(p, j) <=> LastNaming(r, m)
  BY <1>2, <1>3, <1>5, <1>9 DEF Pair
<1>15. q[m].index \in Nat
  <2>1. q[m] \in Calls
    BY <1>1
  <2> QED
    BY <2>1 DEF Calls
<1>16. o[j].index = idx <=> tc.index = r[m].index
  <2>1. o[j].index = s.tool_base_index + q[m].index
    BY <1>3 DEF Pair
  <2> QED
    BY <1>0, <1>2, <1>15, <2>1
<1>17. ArgsIn(p, j) = x \o z
  BY <1>3, <1>5, <1>9, <1>10, <1>12, <1>14, <1>16 DEF Addition, Pair
<1>18. (LastStart(o, j) /\ BlockOpen(s, o[j].index)) => x = y
  BY <1>3, <1>10, <1>11 DEF Pair, Whole
<1>19. Begins(x \o z, y \o z)
  <2>1. Begins(x, y)
    BY <1>3, <1>10, <1>11 DEF Pair
  <2>2. CASE z = <<>>
    <3>1. x \o z = x /\ y \o z = y
      BY <2>2, ConcatEmptySeq DEF Texts
    <3> QED
      BY <2>1, <3>1
  <2>3. CASE z # <<>>
    <3>1. o[j].index = idx /\ LastStart(p, j)
      BY <1>12, <1>14, <1>16, <2>3 DEF Addition
    <3>2. x = y
      BY <1>9, <1>18, <3>1
    <3>3. y \o z \in Texts
      BY ConcatText
    <3> QED
      BY <3>2, <3>3, BeginsLaws
  <2> QED
    BY <2>2, <2>3
<1>20. Whole(w, r, j, m)
  <2> SUFFICES ASSUME LastStart(p, j), BlockOpen(w, p[j].index) PROVE x \o z = y \o z
    BY <1>6, <1>7, <1>13, <1>17 DEF Whole
  <2>1. LastStart(o, j) /\ BlockOpen(s, o[j].index)
    BY <1>6, <1>9 DEF BlockOpen
  <2> QED
    BY <1>18, <2>1
<1>21. m \in 1 .. Len(r)
  BY <1>1, AppendProperties
<1>22. j \in 1 .. Len(p)
  BY <1>7, <1>8, AppendProperties
<1> QED
  BY <1>2, <1>3, <1>6, <1>7, <1>9, <1>13, <1>14, <1>17, <1>19, <1>20, <1>21, <1>22 DEF Pair

(* Another call is named and its block started *)
StartsCall(u, q, tc, r, idx, v) ==
  /\ u \in Speaking /\ u.tool_base_index \in Nat
  /\ q \in Seq(Calls) /\ tc \in Calls /\ tc.name /\ r = Append(q, tc)
  /\ idx = u.tool_base_index + tc.index
  /\ v \in Speaking /\ StartsAt(u, v, idx, "tool_use")

LEMMA PairStarted ==
  ASSUME NEW u, NEW q, NEW tc, NEW r, NEW idx, NEW v, StartsCall(u, q, tc, r, idx, v),
         NEW j, NEW m, Pair(u, q, j, m)
  PROVE  /\ Pair(v, r, j, m)
         /\ v.out[j].index = idx => ~LastStart(v.out, j)
<1>a. u \in Speaking /\ u.tool_base_index \in Nat
  BY DEF StartsCall
<1>b. q \in Seq(Calls) /\ tc \in Calls /\ tc.name /\ r = Append(q, tc)
  BY DEF StartsCall
<1>c. idx = u.tool_base_index + tc.index /\ v \in Speaking /\ StartsAt(u, v, idx, "tool_use")
  BY DEF StartsCall
<1> USE <1>a, <1>b, <1>c
<1>0. idx \in Nat /\ tc.index \in Nat
  BY DEF Calls
<1>1. m \in 1 .. Len(q)
  BY DEF Pair
<1>2. /\ r[m] = q[m]
      /\ LastNaming(r, m) <=> LastNaming(q, m) /\ ~(tc.name /\ tc.index = q[m].index)
      /\ ArgsFor(r, m) = ArgsFor(q, m) \o
           (IF tc.index = q[m].index /\ LastNaming(r, m) THEN tc.args ELSE <<>>)
  <2>1. GainsCall(q, tc, r, m)
    BY <1>1, ArgsForAppend
  <2> QED
    BY <2>1 DEF GainsCall
<1>3. PICK o \in Seq(Frames) : o = u.out
  BY SpeakingFields, SpeechIsFrames
<1>4. PICK f \in Frames : f = BlockStart(idx, "tool_use")
  BY <1>0, FrameTypes DEF Speech, BlockKinds
<1>5. f.kind # "input_json_delta" /\ f.ev = "content_block_start" /\ f.index = idx
  BY <1>4 DEF BlockStart, Frame
<1>6. v.out = Append(o, f) /\ v.blocks = Opened(u.blocks, idx) /\ v.tool_base_index = u.tool_base_index
  BY <1>3, <1>4 DEF StartsAt
<1>7. PICK p \in Seq(Frames) : p = Append(o, f)
  BY AppendProperties
<1>8. j \in 1 .. Len(o) /\ o[j].index \in Nat
  BY <1>3 DEF Pair
<1>9. /\ p[j] = o[j]
      /\ LastStart(p, j) <=> LastStart(o, j) /\ ~(f.ev = "content_block_start" /\ f.index = o[j].index)
      /\ ArgsIn(p, j) = ArgsIn(o, j) \o
           (IF /\ f.kind = "input_json_delta" /\ o[j].ev = "content_block_start"
               /\ o[j].index = f.index /\ LastStart(p, j)
            THEN f.text ELSE <<>>)
  <2>1. GainsFrame(o, f, p, j)
    BY <1>7, <1>8, ArgsInAppend
  <2> QED
    BY <2>1 DEF GainsFrame
<1>10. PICK x \in Texts : x = ArgsIn(o, j)
  BY ArgsInText
<1>11. PICK y \in Texts : y = ArgsFor(q, m)
  BY ArgsForText
<1>12. x \o <<>> = x /\ y \o <<>> = y
  BY ConcatEmptySeq DEF Texts
<1>13. ArgsFor(r, m) = y /\ ArgsIn(p, j) = x
  BY <1>2, <1>5, <1>9, <1>10, <1>11, <1>12
<1>15. q[m].index \in Nat
  <2>1. q[m] \in Calls
    BY <1>1
  <2> QED
    BY <2>1 DEF Calls
<1>16. o[j].index = idx <=> tc.index = q[m].index
  <2>1. o[j].index = u.tool_base_index + q[m].index
    BY <1>3 DEF Pair
  <2> QED
    BY <1>0, <1>15, <2>1
<1>14. LastStart(p, j) <=> LastNaming(r, m)
  BY <1>2, <1>3, <1>5, <1>9, <1>16 DEF Pair
<1>17. PICK b \in Seq(BOOLEAN) : b = u.blocks
  BY SpeakingFields
<1>18. /\ Len(b) <= Len(v.blocks) /\ Len(v.blocks) \in Nat
       /\ o[j].index # idx /\ BlockOpen(v, o[j].index) => BlockOpen(u, o[j].index)
  <2>1. v.blocks = Opened(b, idx) /\ u.blocks = b
    BY <1>6, <1>17
  <2>2. PICK i \in Nat : i = o[j].index
    BY <1>8
  <2>3. /\ Len(b) <= Len(Opened(b, idx)) /\ Opened(b, idx) \in Seq(BOOLEAN)
        /\ i # idx /\ BlockOpen(v, i) => BlockOpen(u, i)
    BY <1>0, <2>1, OpenedShape
  <2> QED
    BY <2>1, <2>2, <2>3
<1>19. Whole(v, r, j, m)
  <2> SUFFICES ASSUME LastStart(p, j), BlockOpen(v, p[j].index) PROVE x = y
    BY <1>6, <1>7, <1>13 DEF Whole
  <2>1. LastStart(o, j) /\ BlockOpen(u, o[j].index)
    BY <1>5, <1>9, <1>18
  <2> QED
    BY <1>3, <1>10, <1>11, <2>1 DEF Pair, Whole
<1>20. o[j].index < Len(v.blocks)
  <2>1. o[j].index < Len(b) /\ Len(b) \in Nat
    BY <1>3, <1>17 DEF Pair
  <2> QED
    BY <1>8, <1>18, <2>1
<1>21. m \in 1 .. Len(r)
  BY <1>1, AppendProperties
<1>22. j \in 1 .. Len(p)
  BY <1>7, <1>8, AppendProperties
<1>23. Begins(x, y)
  BY <1>3, <1>10, <1>11 DEF Pair
<1>24. p[j].index = idx => ~LastStart(p, j)
  BY <1>5, <1>9
<1>25. /\ p[j].ev = "content_block_start" /\ p[j].index \in Nat
       /\ p[j].index = v.tool_base_index + r[m].index
  BY <1>2, <1>3, <1>6, <1>9 DEF Pair
<1> QED
  BY <1>6, <1>7, <1>9, <1>13, <1>14, <1>19, <1>20, <1>21, <1>22, <1>23, <1>24, <1>25 DEF Pair

(* Arguments that go to a block started later *)
LEMMA PairElsewhere ==
  ASSUME NEW v \in Speaking, NEW idx \in Nat, NEW x \in Texts, NEW r, NEW j, NEW m, Pair(v, r, j, m),
         v.out[j].index = idx => ~LastStart(v.out, j),
         NEW w, w = Push(v, BlockDelta(idx, "input_json_delta", x))
  PROVE  Pair(w, r, j, m)
<1>1. PICK o \in Seq(Frames) : o = v.out
  BY SpeakingFields, SpeechIsFrames
<1>2. PICK f \in Frames : f = BlockDelta(idx, "input_json_delta", x)
  BY FrameTypes DEF Speech, DeltaKinds
<1>3. f.ev # "content_block_start" /\ f.index = idx
  BY <1>2 DEF BlockDelta, Frame
<1>4. w.out = Append(o, f) /\ w.blocks = v.blocks /\ w.tool_base_index = v.tool_base_index
  BY <1>1, <1>2, ArgsPush
<1>5. PICK p \in Seq(Frames) : p = Append(o, f)
  BY AppendProperties
<1>6. j \in 1 .. Len(o)
  BY <1>1 DEF Pair
<1>7. /\ p[j] = o[j]
      /\ LastStart(p, j) <=> LastStart(o, j) /\ ~(f.ev = "content_block_start" /\ f.index = o[j].index)
      /\ ArgsIn(p, j) = ArgsIn(o, j) \o
           (IF /\ f.kind = "input_json_delta" /\ o[j].ev = "content_block_start"
               /\ o[j].index = f.index /\ LastStart(p, j)
            THEN f.text ELSE <<>>)
  <2>1. GainsFrame(o, f, p, j)
    BY <1>5, <1>6, ArgsInAppend
  <2> QED
    BY <2>1 DEF GainsFrame
<1>8. LastStart(p, j) <=> LastStart(o, j)
  BY <1>3, <1>7
<1>9. ArgsIn(o, j) \in Texts
  BY ArgsInText
<1>10. ArgsIn(p, j) = ArgsIn(o, j)
  BY <1>1, <1>3, <1>7, <1>8, <1>9, ConcatEmptySeq DEF Texts
<1>11. Whole(w, r, j, m)
  BY <1>1, <1>4, <1>5, <1>7, <1>8, <1>10 DEF Pair, Whole, BlockOpen
<1>12. j \in 1 .. Len(p)
  BY <1>5, <1>6, AppendProperties
<1> QED
  BY <1>1, <1>4, <1>5, <1>7, <1>8, <1>10, <1>11, <1>12 DEF Pair

(* The call just named *)
LEMMA PairNew ==
  ASSUME NEW u, NEW q, NEW tc, NEW r, NEW idx, NEW v, StartsCall(u, q, tc, r, idx, v),
         NEW w, w = IF tc.args # <<>> THEN Push(v, BlockDelta(idx, "input_json_delta", tc.args)) ELSE v
  PROVE  Pair(w, r, Len(u.out) + 1, Len(q) + 1)
<1>a. u \in Speaking /\ u.tool_base_index \in Nat
  BY DEF StartsCall
<1>b. q \in Seq(Calls) /\ tc \in Calls /\ tc.name /\ r = Append(q, tc)
  BY DEF StartsCall
<1>c. idx = u.tool_base_index + tc.index /\ v \in Speaking /\ StartsAt(u, v, idx, "tool_use")
  BY DEF StartsCall
<1> USE <1>a, <1>b, <1>c
<1>0. idx \in Nat /\ tc.index \in Nat /\ tc.args \in Texts
  BY DEF Calls
<1>1. PICK m \in Nat : m = Len(q) + 1
  OBVIOUS
<1>2. ArgsFor(r, m) = tc.args /\ LastNaming(r, m) /\ r[m] = tc
  BY <1>1, ArgsForNew
<1>3. PICK o \in Seq(Frames) : o = u.out
  BY SpeakingFields, SpeechIsFrames
<1>4. PICK f \in Frames : f = BlockStart(idx, "tool_use")
  BY <1>0, FrameTypes DEF Speech, BlockKinds
<1>5. f.ev = "content_block_start" /\ f.index = idx
  BY <1>4 DEF BlockStart, Frame
<1>6. v.out = Append(o, f) /\ v.blocks = Opened(u.blocks, idx) /\ v.tool_base_index = u.tool_base_index
  BY <1>3, <1>4 DEF StartsAt
<1>7. PICK p \in Seq(Frames) : p = Append(o, f)
  BY AppendProperties
<1>8. PICK j \in Nat : j = Len(o) + 1
  OBVIOUS
<1>9. ArgsIn(p, j) = <<>> /\ LastStart(p, j) /\ p[j] = f
  BY <1>7, <1>8, ArgsInNew
<1>10. j \in 1 .. Len(p) /\ m \in 1 .. Len(r)
  <2>1. Len(p) = Len(o) + 1 /\ Len(r) = Len(q) + 1 /\ Len(o) \in Nat /\ Len(q) \in Nat
    BY <1>7, AppendProperties
  <2> QED
    BY <1>1, <1>8, <2>1
<1>11. idx < Len(v.blocks)
  <2>1. PICK b \in Seq(BOOLEAN) : b = u.blocks
    BY SpeakingFields
  <2> QED
    BY <1>0, <1>6, <2>1, OpenedShape
<1>12. CASE tc.args = <<>>
  <2>1. w = v
    BY <1>12
  <2>2. Whole(v, r, j, m)
    BY <1>2, <1>6, <1>7, <1>9, <1>12 DEF Whole
  <2>3. Begins(ArgsIn(p, j), ArgsFor(r, m))
    BY <1>0, <1>2, <1>9, <1>12, BeginsLaws
  <2> QED
    BY <1>0, <1>1, <1>2, <1>3, <1>5, <1>6, <1>7, <1>8, <1>9, <1>10, <1>11, <2>1, <2>2, <2>3 DEF Pair
<1>13. CASE tc.args # <<>>
  <2>1. PICK g \in Frames : g = BlockDelta(idx, "input_json_delta", tc.args)
    BY <1>0, FrameTypes DEF Speech, DeltaKinds
  <2>2. /\ g.kind = "input_json_delta" /\ g.ev # "content_block_start" /\ g.index = idx
        /\ g.text = tc.args
    BY <2>1 DEF BlockDelta, Frame
  <2>3. w = Push(v, BlockDelta(idx, "input_json_delta", tc.args))
    BY <1>13
  <2>4. w.out = Append(p, g) /\ w.blocks = v.blocks /\ w.tool_base_index = v.tool_base_index
    <3>1. v.out = p /\ v.tool_base_index = u.tool_base_index
      BY <1>6, <1>7
    <3>2. PICK x \in Texts : x = tc.args
      BY <1>0
    <3>3. PICK y : y = Push(v, BlockDelta(idx, "input_json_delta", x))
      OBVIOUS
    <3>4. /\ y.out = Append(v.out, BlockDelta(idx, "input_json_delta", x))
          /\ y.blocks = v.blocks /\ y.tool_base_index = v.tool_base_index
      <4>1. v \in Speaking /\ idx \in Nat
        BY <1>0
      <4>2. PICK e \in Speaking, i \in Nat : e = v /\ i = idx
        BY <4>1
      <4>3. /\ Push(e, BlockDelta(i, "input_json_delta", x)).out
                  = Append(e.out, BlockDelta(i, "input_json_delta", x))
            /\ Push(e, BlockDelta(i, "input_json_delta", x)).blocks = e.blocks
            /\ Push(e, BlockDelta(i, "input_json_delta", x)).tool_base_index = e.tool_base_index
        BY ArgsPush
      <4> QED
        BY <3>3, <4>2, <4>3
    <3> QED
      BY <2>1, <2>3, <3>1, <3>2, <3>3, <3>4
  <2>5. PICK z \in Seq(Frames) : z = Append(p, g)
    BY AppendProperties
  <2>6. /\ z[j] = p[j]
        /\ LastStart(z, j) <=> LastStart(p, j) /\ ~(g.ev = "content_block_start" /\ g.index = p[j].index)
        /\ ArgsIn(z, j) = ArgsIn(p, j) \o
             (IF /\ g.kind = "input_json_delta" /\ p[j].ev = "content_block_start"
                 /\ p[j].index = g.index /\ LastStart(z, j)
              THEN g.text ELSE <<>>)
    <3>1. GainsFrame(p, g, z, j)
      BY <1>10, <2>5, ArgsInAppend
    <3> QED
      BY <3>1 DEF GainsFrame
  <2>7. LastStart(z, j) /\ z[j] = f
    BY <1>9, <2>2, <2>6
  <2>8. <<>> \o tc.args = tc.args
    BY <1>0, ConcatEmptySeq DEF Texts
  <2>9. ArgsIn(z, j) = tc.args
    BY <1>5, <1>9, <2>2, <2>6, <2>7, <2>8
  <2>10. Whole(w, r, j, m)
    BY <1>2, <2>4, <2>5, <2>9 DEF Whole
  <2>11. Begins(ArgsIn(z, j), ArgsFor(r, m))
    BY <1>0, <1>2, <2>9, BeginsLaws
  <2>12. j \in 1 .. Len(z)
    BY <1>10, <2>5, AppendProperties
  <2> QED
    BY <1>0, <1>1, <1>2, <1>3, <1>5, <1>6, <1>8, <1>10, <1>11, <2>4, <2>5, <2>7, <2>10, <2>11, <2>12 DEF Pair
<1> QED
  BY <1>12, <1>13

-----------------------------------------------------------------------------
(* The tool blocks of the body and the calls named pair off in order *)
Paired(s, q) ==
  /\ Len(Marks(s.out)) = Len(Namings(q))
  /\ \A n \in 1 .. Len(Namings(q)) : Pair(s, q, Marks(s.out)[n], Namings(q)[n])
  /\ s.tool_base_index = NoIndex => q = <<>>

Pairing(q) == {s \in Speaking : Paired(s, q)}

LEMMA MarksOne ==
  ASSUME NEW o \in Seq(Frames), NEW f \in Frames
  PROVE  /\ ~ToolStart(f) => Marks(Append(o, f)) = Marks(o)
         /\ ToolStart(f) => Marks(Append(o, f)) = Append(Marks(o), Len(o) + 1)
  BY MarksAppend

LEMMA NamingsOne ==
  ASSUME NEW q \in Seq(Calls), NEW tc \in Calls
  PROVE  /\ ~tc.name => Namings(Append(q, tc)) = Namings(q)
         /\ tc.name => Namings(Append(q, tc)) = Append(Namings(q), Len(q) + 1)
  BY NamingsAppend

LEMMA PairingSteady ==
  ASSUME NEW q
  PROVE  Steady(Pairing(q))
<1>1. Pairing(q) \subseteq Speaking
  BY DEF Pairing
<1>2. ASSUME NEW s \in Pairing(q), NEW v \in Speaking, Quietly(s, v) PROVE v \in Pairing(q)
  <2>1. s \in Speaking /\ Paired(s, q)
    BY DEF Pairing
  <2>2. s.out \in Seq(Frames) /\ Lengthens(s.out, v.out) /\ v.tool_base_index = s.tool_base_index
    BY <1>2, <2>1, SpeakingFields, SpeechIsFrames DEF Quietly
  <2>3. Marks(v.out) = Marks(s.out)
    BY <2>2, LengthensArgs
  <2>4. \A j, m : Pair(s, q, j, m) => Pair(v, q, j, m)
    BY <1>2, <2>1, PairQuiet
  <2> QED
    BY <2>1, <2>2, <2>3, <2>4 DEF Pairing, Paired
<1>3. ASSUME NEW s \in Pairing(q), NEW v \in Speaking, StartsNext(s, v) PROVE v \in Pairing(q)
  <2>1. s \in Speaking /\ Paired(s, q)
    BY DEF Pairing
  <2>2. PICK o \in Seq(Frames) : o = s.out
    BY <2>1, SpeakingFields, SpeechIsFrames
  <2>3. PICK kind \in BlockKinds : v.out = Append(s.out, BlockStart(Len(s.blocks), kind)) /\ kind # "tool_use"
    BY <1>3 DEF StartsNext, BlockKinds
  <2>4. PICK f \in Frames : f = BlockStart(Len(s.blocks), kind)
    BY <2>1, SpeakingFields, FrameTypes DEF Speech
  <2>5. ~ToolStart(f)
    BY <2>3, <2>4 DEF BlockStart, Frame, ToolStart
  <2>6. Marks(v.out) = Marks(s.out)
    BY <2>2, <2>3, <2>4, <2>5, MarksOne
  <2>7. \A j, m : Pair(s, q, j, m) => Pair(v, q, j, m)
    BY <1>3, <2>1, PairNext
  <2>8. v.tool_base_index = s.tool_base_index
    BY <1>3 DEF StartsNext
  <2> QED
    BY <2>1, <2>6, <2>7, <2>8 DEF Pairing, Paired
<1> QED
  BY <1>1, <1>2, <1>3 DEF Steady, Calm

(* A delta that goes on with calls *)
LEMMA UnnamedPairs ==
  ASSUME NEW q \in Seq(Calls), NEW s \in Pairing(q), s.tool_base_index \in Nat,
         NEW tc \in Calls, ~tc.name
  PROVE  tool_delta(s, tc) \in Pairing(Append(q, tc))
<1>1. s \in Speaking /\ Paired(s, q)
  BY DEF Pairing
<1>2. tc.index \in Nat /\ tc.args \in Texts
  BY DEF Calls
<1>3. PICK idx \in Nat : idx = s.tool_base_index + tc.index
  BY <1>2
<1>4. PICK r \in Seq(Calls) : r = Append(q, tc)
  BY AppendProperties
<1>5. Namings(r) = Namings(q)
  BY <1>4, NamingsOne
<1>6. PICK w : w = Push(s, BlockDelta(idx, "input_json_delta", tc.args))
  OBVIOUS
<1>7. tool_delta(s, tc) = IF tc.args # <<>> /\ BlockOpen(s, idx) THEN w ELSE s
  BY <1>3, <1>6 DEF tool_delta
<1>8. NoIndex \notin Nat
  BY DEF NoIndex
<1>9. CASE tc.args # <<>> /\ BlockOpen(s, idx)
  <2>1. PICK o \in Seq(Frames) : o = s.out
    BY <1>1, SpeakingFields, SpeechIsFrames
  <2>2. PICK f \in Frames : f = BlockDelta(idx, "input_json_delta", tc.args)
    BY <1>2, FrameTypes DEF Speech, DeltaKinds
  <2>3. ~ToolStart(f)
    BY <2>2 DEF BlockDelta, Frame, ToolStart
  <2>4. PICK x \in Texts : x = tc.args
    BY <1>2
  <2>5. w = Push(s, BlockDelta(idx, "input_json_delta", x))
    BY <1>6, <2>4
  <2>6. w \in Speaking /\ w.out = Append(s.out, BlockDelta(idx, "input_json_delta", x))
        /\ w.tool_base_index = s.tool_base_index
    BY <1>1, <2>5, ArgsPush
  <2>7. Marks(w.out) = Marks(s.out)
    BY <2>1, <2>2, <2>3, <2>4, <2>6, MarksOne
  <2>8. ASSUME NEW j, NEW m, Pair(s, q, j, m) PROVE Pair(w, r, j, m)
    <3>1. Streams(s, q, tc, r, idx, w)
      BY <1>1, <1>3, <1>4, <1>6, <1>9 DEF Streams
    <3> QED
      BY <2>8, <3>1, PairStreamed
  <2>9. Paired(w, r)
    BY <1>1, <1>5, <1>8, <2>6, <2>7, <2>8 DEF Paired
  <2> QED
    BY <1>4, <1>7, <1>9, <2>6, <2>9 DEF Pairing
<1>10. CASE ~(tc.args # <<>> /\ BlockOpen(s, idx))
  <2>1. ASSUME NEW j, NEW m, Pair(s, q, j, m) PROVE Pair(s, r, j, m)
    <3>1. tc.args = <<>> \/ ~BlockOpen(s, s.tool_base_index + tc.index)
      BY <1>3, <1>10
    <3> QED
      BY <1>1, <1>4, <2>1, <3>1, PairDropped
  <2>2. Paired(s, r)
    BY <1>1, <1>5, <1>8, <2>1 DEF Paired
  <2> QED
    BY <1>1, <1>4, <1>7, <1>10, <2>2 DEF Pairing
<1> QED
  BY <1>9, <1>10

(* A delta that names a call *)
LEMMA NamedPairs ==
  ASSUME NEW q \in Seq(Calls), NEW s \in Pairing(q), s.tool_base_index \in Nat,
         NEW tc \in Calls, tc.name
  PROVE  tool_delta(s, tc) \in Pairing(Append(q, tc))
<1>1. s \in Speaking
  BY DEF Pairing
<1>2. tc.index \in Nat /\ tc.args \in Texts
  BY DEF Calls
<1>3. PICK idx \in Nat : idx = s.tool_base_index + tc.index
  BY <1>2
<1>4. PICK r \in Seq(Calls) : r = Append(q, tc)
  BY AppendProperties
<1>5. PICK v : v = open_block(s, idx, "tool_use")
  OBVIOUS
<1>6. Calm(Pairing(q)) /\ "tool_use" \in BlockKinds
  BY PairingSteady DEF Steady, BlockKinds
<1>7. v \in Speaking
  BY <1>5, <1>6, CalmOpens
<1>8. PICK u \in Pairing(q) : StartsAt(u, v, idx, "tool_use") /\ u.blocks = Stopped(s.blocks, idx)
  BY <1>5, <1>6, CalmOpens
<1>9. u \in Speaking /\ Paired(u, q)
  BY DEF Pairing
<1>10. v.tool_base_index = u.tool_base_index
  BY <1>8 DEF StartsAt
<1>11. v.tool_base_index = s.tool_base_index
  <2>1. Calm({t \in Speaking : t.tool_base_index = s.tool_base_index})
    BY DEF Calm, Quietly
  <2>2. s \in {t \in Speaking : t.tool_base_index = s.tool_base_index}
    BY <1>1
  <2>3. PICK t \in {t \in Speaking : t.tool_base_index = s.tool_base_index} :
          StartsAt(t, v, idx, "tool_use")
    BY <1>5, <1>6, <2>1, <2>2, CalmOpens
  <2> QED
    BY <2>3 DEF StartsAt
<1>12. u.tool_base_index \in Nat /\ idx = u.tool_base_index + tc.index
  BY <1>3, <1>10, <1>11
<1>13. BlockOpen(v, idx)
  <2>1. PICK b \in Seq(BOOLEAN) : b = u.blocks
    BY <1>9, SpeakingFields
  <2>2. v.blocks = Opened(b, idx)
    BY <1>8, <2>1 DEF StartsAt
  <2> QED
    BY <2>1, <2>2, OpenedShape
<1>14. PICK x \in Texts : x = tc.args
  BY <1>2
<1>15. PICK y : y = Push(v, BlockDelta(idx, "input_json_delta", x))
  OBVIOUS
<1>16. PICK w : w = IF x # <<>> THEN y ELSE v
  OBVIOUS
<1>17. w = tool_delta(s, tc)
  BY <1>3, <1>5, <1>13, <1>14, <1>15, <1>16 DEF tool_delta
<1>18. y \in Speaking /\ y.out = Append(v.out, BlockDelta(idx, "input_json_delta", x))
       /\ y.tool_base_index = v.tool_base_index
  BY <1>7, <1>15, ArgsPush
<1>19. w \in Speaking /\ w.tool_base_index = v.tool_base_index
  BY <1>7, <1>16, <1>18
<1>20. PICK o \in Seq(Frames) : o = u.out
  BY <1>9, SpeakingFields, SpeechIsFrames
<1>21. PICK f \in Frames : f = BlockStart(idx, "tool_use") /\ ToolStart(f)
  BY <1>6, FrameTypes DEF Speech, BlockStart, Frame, ToolStart
<1>22. PICK p \in Seq(Frames) : p = Append(o, f) /\ p = v.out
  BY <1>8, <1>20, <1>21, AppendProperties DEF StartsAt
<1>23. Marks(p) = Append(Marks(o), Len(o) + 1)
  BY <1>20, <1>21, <1>22, MarksOne
<1>24. Marks(w.out) = Marks(p)
  <2>1. PICK g \in Frames : g = BlockDelta(idx, "input_json_delta", x) /\ ~ToolStart(g)
    BY FrameTypes DEF Speech, DeltaKinds, BlockDelta, Frame, ToolStart
  <2>2. Marks(Append(p, g)) = Marks(p)
    BY <2>1, MarksOne
  <2> QED
    BY <1>16, <1>18, <1>22, <2>1, <2>2
<1>25. Namings(r) = Append(Namings(q), Len(q) + 1)
  BY <1>4, NamingsOne
<1>26. PICK S \in Seq(Nat), N \in Seq(Nat) : S = Marks(o) /\ N = Namings(q)
  BY <1>21, <1>4, MarksAppend, NamingsAppend
<1>27. Len(S) = Len(N) /\ \A n \in 1 .. Len(N) : Pair(u, q, S[n], N[n])
  BY <1>9, <1>20, <1>26 DEF Paired
<1>27a. StartsCall(u, q, tc, r, idx, v)
  BY <1>4, <1>7, <1>8, <1>9, <1>12 DEF StartsCall
<1>28. ASSUME NEW j, NEW m, Pair(u, q, j, m) PROVE Pair(w, r, j, m)
  <2>1. Pair(v, r, j, m) /\ (v.out[j].index = idx => ~LastStart(v.out, j))
    BY <1>27a, <1>28, PairStarted
  <2>2. Pair(y, r, j, m)
    BY <1>7, <1>15, <2>1, PairElsewhere
  <2> QED
    BY <1>16, <2>1, <2>2
<1>29. Pair(w, r, Len(o) + 1, Len(q) + 1)
  <2>1. w = IF tc.args # <<>> THEN Push(v, BlockDelta(idx, "input_json_delta", tc.args)) ELSE v
    BY <1>14, <1>15, <1>16
  <2> QED
    BY <1>20, <1>27a, <2>1, PairNew
<1>30a. PICK a \in Nat : a = Len(o) + 1
  OBVIOUS
<1>30. PICK c \in Nat : c = Len(q) + 1
  OBVIOUS
<1>31. PICK A \in Seq(Nat), B \in Seq(Nat) : A = Append(S, a) /\ B = Append(N, c)
  BY AppendProperties
<1>32. Marks(w.out) = A /\ Namings(r) = B
  BY <1>23, <1>24, <1>25, <1>26, <1>30a, <1>30, <1>31
<1>33. PICK l \in Nat : l = Len(N)
  OBVIOUS
<1>34. /\ Len(A) = l + 1 /\ Len(B) = l + 1 /\ A[l + 1] = a /\ B[l + 1] = c
       /\ \A n \in 1 .. l : A[n] = S[n] /\ B[n] = N[n]
  BY <1>27, <1>31, <1>33, AppendProperties
<1>35. ASSUME NEW n \in 1 .. l + 1 PROVE Pair(w, r, A[n], B[n])
  <2>1. CASE n \in 1 .. l
    BY <1>27, <1>28, <1>33, <1>34, <2>1
  <2>2. CASE n = l + 1
    BY <1>29, <1>30a, <1>30, <1>34, <2>2
  <2> QED
    BY <1>33, <2>1, <2>2
<1>36. w.tool_base_index # NoIndex
  <2>1. NoIndex \notin Nat
    BY DEF NoIndex
  <2> QED
    BY <1>10, <1>12, <1>19, <2>1
<1>37. Paired(w, r)
  BY <1>32, <1>34, <1>35, <1>36 DEF Paired
<1> QED
  BY <1>4, <1>17, <1>19, <1>37 DEF Pairing

LEMMA DeltaPairs ==
  ASSUME NEW q \in Seq(Calls), NEW s \in Pairing(q), s.tool_base_index \in Nat, NEW tc \in Calls
  PROVE  tool_delta(s, tc) \in Pairing(Append(q, tc))
  BY UnnamedPairs, NamedPairs

LEMMA LoopPairs ==
  ASSUME NEW q \in Seq(Calls), NEW s \in Pairing(q), s.tool_base_index \in Nat,
         NEW calls \in Seq(Calls)
  PROVE  tool_loop(s, calls) \in Pairing(q \o calls)
<1>1. PICK L \in Nat : L = Len(calls)
  OBVIOUS
<1>2. PICK b \in Nat : b = s.tool_base_index
  OBVIOUS
<1>3. PICK D : D = [n \in 0 .. L |-> Pairing(Beginning(q, calls, n)) \cap Based(b)]
  OBVIOUS
<1>4. s \in Speaking
  BY DEF Pairing
<1>5. s \in D[0]
  <2>1. D[0] = Pairing(Beginning(q, calls, 0)) \cap Based(b)
    BY <1>3
  <2> QED
    BY <1>2, <1>4, <2>1, FirstOfEnds DEF Based
<1>6. ASSUME NEW n \in 1 .. L, NEW t \in D[n - 1] PROVE tool_delta(t, calls[n]) \in D[n]
  <2>1. PICK p \in Nat : p = n - 1 /\ p \in 0 .. L /\ n = p + 1 /\ n \in 0 .. L
    OBVIOUS
  <2>2. PICK r \in Seq(Calls) : r = Beginning(q, calls, p)
    BY <1>1, <2>1, FirstOfType
  <2>3. t \in Pairing(r) /\ t \in Based(b)
    BY <1>3, <2>1, <2>2
  <2>4. PICK tc \in Calls : tc = calls[n]
    BY <1>1
  <2>5. t.tool_base_index \in Nat
    BY <2>3 DEF Based
  <2>6. tool_delta(t, tc) \in Pairing(Append(r, tc))
    BY <2>3, <2>5, DeltaPairs
  <2>7. Beginning(q, calls, n) = Append(r, tc)
    <3>1. p \in 0 .. Len(calls) - 1
      BY <1>1, <2>1
    <3>2. Beginning(q, calls, p + 1) = Append(Beginning(q, calls, p), calls[p + 1])
      BY <3>1, FirstOfNext
    <3> QED
      BY <2>1, <2>2, <2>4, <3>2
  <2>8. tool_delta(t, tc) \in Based(b)
    BY <2>3, ToolDeltaBase
  <2> QED
    BY <1>3, <2>1, <2>4, <2>6, <2>7, <2>8
<1>7. tool_loop(s, calls) \in D[L]
  BY <1>1, <1>5, <1>6, ToolLoopSteps
<1>8. D[L] = Pairing(Beginning(q, calls, L)) \cap Based(b)
  BY <1>3
<1> QED
  BY <1>1, <1>7, <1>8, FirstOfEnds

CallsOf(c) == IF c.has_calls THEN c.calls ELSE <<>>

CallsFrom == [c \in Chunks |-> CallsOf(c)]

(* The calls of the chunks q *)
AllCalls(q) == Along(CallsFrom, q)

LEMMA CallsType ==
  ASSUME NEW c \in CanonChunk
  PROVE  CallsOf(c) \in Seq(Calls)
<1>1. <<>> \in Seq(Calls) /\ c.calls \in Seq(Calls)
  BY EmptySeq DEF CanonChunk
<1> QED
  BY <1>1 DEF CallsOf

LEMMA AllCallsType ==
  /\ AllCalls(<<>>) = <<>>
  /\ \A q \in Seq(Chunks) : AllCalls(q) \in Seq(Calls)
  /\ \A q \in Seq(Chunks), c \in Chunks : AllCalls(Append(q, c)) = AllCalls(q) \o CallsOf(c)
<1>1. \A c \in Chunks : CallsOf(c) \in Seq(Calls)
  BY ChunksAssumption, CallsType
<1>2. CallsFrom \in [Chunks -> Seq(Calls)]
  BY <1>1 DEF CallsFrom
<1>3. ASSUME NEW G \in [Chunks -> Seq(Calls)], NEW q \in Seq(Chunks)
      PROVE  /\ Along(G, q) \in Seq(Calls)
             /\ \A c \in Chunks : Along(G, Append(q, c)) = Along(G, q) \o G[c]
  <2>1. Along(G, q) \in Seq(Calls)
    BY AlongType
  <2>2. ASSUME NEW c \in Chunks PROVE Along(G, Append(q, c)) = Along(G, q) \o G[c]
    BY AlongAppend
  <2> QED
    BY <2>1, <2>2
<1>4. \A c \in Chunks : CallsFrom[c] = CallsOf(c)
  BY DEF CallsFrom
<1> QED
  BY <1>2, <1>3, <1>4, EmptyAlong DEF AllCalls

LEMMA NothingMarked ==
  ASSUME NEW e, e = <<>>
  PROVE  Marks(e) = <<>> /\ Namings(e) = <<>>
<1>1. DOMAIN e = 1 .. 0
  BY EmptySeq
<1>2. MarksOf(e) \in [1 .. 0 -> Seq(Nat)] /\ NamingsOf(e) \in [1 .. 0 -> Seq(Nat)]
  BY <1>1, MarksType
<1>3. PICK g \in [1 .. 0 -> Seq(Nat)] : g = MarksOf(e)
  BY <1>2
<1>4. PICK h \in [1 .. 0 -> Seq(Nat)] : h = NamingsOf(e)
  BY <1>2
<1>5. (\A k \in 1 .. 0 : g[k] = <<>>) /\ (\A k \in 1 .. 0 : h[k] = <<>>)
  OBVIOUS
<1>6. FlattenSeq(g) = <<>> /\ FlattenSeq(h) = <<>>
  BY <1>5, JoinEmpty
<1> QED
  BY <1>3, <1>4, <1>6 DEF Marks, Namings

LEMMA ToolPairs ==
  ASSUME NEW q \in Seq(Calls), NEW s \in Pairing(q), NEW c \in CanonChunk
  PROVE  tool_section(s, c) \in Pairing(q \o CallsOf(c))
<1>1. s \in Speaking /\ Paired(s, q)
  BY DEF Pairing
<1>2. c.calls \in Seq(Calls)
  BY DEF CanonChunk
<1>3. CASE ~c.has_calls
  <2>1. q \o <<>> = q
    BY ConcatEmptySeq
  <2> QED
    BY <1>3, <2>1 DEF tool_section, CallsOf
<1>4. CASE c.has_calls
  <2>0. s.tool_base_index \in Nat \cup {NoIndex}
    BY <1>1, SpeakingFields
  <2>1. PICK b \in Nat : b = IF s.tool_base_index = NoIndex THEN next_index(s) ELSE s.tool_base_index
    BY <1>1, <2>0, NextIndexType
  <2>2. PICK t \in Speaking : t = [s EXCEPT !.tool_base_index = b]
    BY <1>1, SpeakingUpdates
  <2>3. t.tool_base_index = b /\ t.blocks = s.blocks /\ t.out = s.out
    BY <1>1, <2>2 DEF Speaking, StateSet
  <2>4. t \in Pairing(q)
    <3>1. CASE s.tool_base_index = NoIndex
      <4>1. q = <<>>
        BY <1>1, <3>1 DEF Paired
      <4>2. Namings(q) = <<>>
        BY <4>1, NothingMarked
      <4>3. Len(Namings(q)) = 0
        BY <4>2, EmptySeq
      <4>4. Paired(t, q)
        BY <1>1, <2>3, <4>1, <4>3 DEF Paired
      <4> QED
        BY <4>4 DEF Pairing
    <3>2. CASE s.tool_base_index # NoIndex
      <4>1. t.tool_base_index = s.tool_base_index
        BY <2>1, <2>3, <3>2
      <4>2. Calm(Pairing(q))
        BY PairingSteady DEF Steady
      <4> QED
        BY <2>3, <4>1, <4>2, CalmSame
    <3> QED
      BY <3>1, <3>2
  <2>5. tool_loop(t, c.calls) \in Pairing(q \o c.calls)
    BY <1>2, <2>3, <2>4, LoopPairs
  <2>6. tool_section(s, c) = tool_loop(t, c.calls)
    BY <1>4, <2>1, <2>2 DEF tool_section
  <2> QED
    BY <1>4, <2>5, <2>6 DEF CallsOf
<1> QED
  BY <1>3, <1>4

LEMMA ChunkPairs ==
  ASSUME NEW q \in Seq(Calls), NEW c \in CanonChunk, NEW s \in Silent \cup Speaking,
         preamble(s, c) \in Pairing(q)
  PROVE  chunk_to_sse_events(s, c) \in Leaves(Pairing(q \o CallsOf(c)))
<1>1. ~s.message_stopped
  BY DEF Silent, Speaking
<1>2. PICK t \in Pairing(q) : t = preamble(s, c)
  OBVIOUS
<1>c. Calm(Pairing(q)) /\ Calm(Pairing(q \o CallsOf(c)))
  BY PairingSteady DEF Steady
<1>3. CASE is_trailer(c)
  <2>1. chunk_to_sse_events(s, c) = trailer(t, c)
    BY <1>1, <1>2, <1>3 DEF chunk_to_sse_events
  <2>2. q \o CallsOf(c) = q
    BY <1>3, ConcatEmptySeq DEF is_trailer, CallsOf
  <2> QED
    BY <1>c, <2>1, <2>2, CalmTrailer
<1>4. CASE ~is_trailer(c)
  <2>1. PICK u \in Pairing(q) : u = thinking_section(t, c)
    BY PairingSteady, SteadyThinking
  <2>2. PICK v \in Pairing(q) : v = text_section(u, c)
    BY PairingSteady, SteadyText
  <2>3. PICK w \in Pairing(q \o CallsOf(c)) : w = tool_section(v, c)
    BY ToolPairs
  <2>4. finish_section(w, c) \in Leaves(Pairing(q \o CallsOf(c)))
    BY <1>c, CalmFinish
  <2>5. chunk_to_sse_events(s, c) = finish_section(w, c)
    BY <1>1, <1>2, <1>4, <2>1, <2>2, <2>3 DEF chunk_to_sse_events
  <2> QED
    BY <2>4, <2>5
<1> QED
  BY <1>3, <1>4

LEMMA PreamblePairs ==
  ASSUME NEW s \in Silent, s.blocks = <<>>, s.tool_base_index = NoIndex, NEW c \in CanonChunk
  PROVE  preamble(s, c) \in Pairing(<<>>)
<1>1. PICK t \in Speaking : t = preamble(s, c)
  BY PreambleType
<1>2. s.first /\ s \in StateSet /\ s.out = <<>>
  BY DEF Silent
<1>3. PICK n \in Nat : n = IF c.input_tokens > 0 THEN c.input_tokens ELSE s.input_tokens
  BY <1>2 DEF CanonChunk, NoTokens, StateSet
<1>4. PICK f \in Frames : f = MessageStart(n) /\ ~ToolStart(f)
  BY FrameTypes DEF Speech, MessageStart, Frame, ToolStart
<1>5. PICK o \in Seq(Frames) : o = <<>>
  BY EmptySeq
<1>6. t.tool_base_index = NoIndex /\ t.out = Append(o, f)
  BY <1>1, <1>2, <1>3, <1>4, <1>5 DEF preamble, Push, StateSet
<1>7. Marks(t.out) = <<>>
  <2>1. Marks(Append(o, f)) = Marks(o)
    BY <1>4, MarksOne
  <2>2. Marks(o) = <<>>
    BY <1>5, NothingMarked
  <2> QED
    BY <1>6, <2>1, <2>2
<1>8. Namings(<<>>) = <<>> /\ Len(<<>>) = 0
  BY NothingMarked, EmptySeq
<1>9. Paired(t, <<>>)
  BY <1>7, <1>8 DEF Paired
<1> QED
  BY <1>1, <1>9 DEF Pairing

-----------------------------------------------------------------------------
(* Every block has a prefix of its call's arguments, the n-th of the n-th *)
Holeless(o, q) ==
  /\ Len(Marks(o)) = Len(Namings(q))
  /\ \A n \in 1 .. Len(Namings(q)) :
       /\ Marks(o)[n] \in 1 .. Len(o)
       /\ Begins(ArgsIn(o, Marks(o)[n]), ArgsFor(q, Namings(q)[n]))

LEMMA LengthensHoleless ==
  ASSUME NEW o \in Seq(Frames), NEW p, Lengthens(o, p), NEW q, Holeless(o, q)
  PROVE  Holeless(p, q)
<1>1. Marks(p) = Marks(o) /\ Len(o) <= Len(p) /\ p \in Seq(Frames)
  BY LengthensArgs
<1>2. \A j \in 1 .. Len(o) : ArgsIn(p, j) = ArgsIn(o, j)
  BY LengthensArgs
<1>3. \A j \in 1 .. Len(o) : j \in 1 .. Len(p)
  BY <1>1
<1> QED
  BY <1>1, <1>2, <1>3 DEF Holeless

LEMMA LeavesHoleless ==
  ASSUME NEW q, NEW v \in Leaves(Pairing(q))
  PROVE  Holeless(v.out, q) /\ (v \in Speaking => v \in Pairing(q)) /\ v \notin Silent
<1>1. ~v.first /\ (v \in Speaking => v \in Pairing(q))
  BY DEF Leaves
<1>2. PICK t \in Pairing(q) : Lengthens(t.out, v.out)
  BY DEF Leaves
<1>3. t \in Speaking /\ Paired(t, q)
  BY DEF Pairing
<1>4. t.out \in Seq(Frames)
  BY <1>3, SpeakingFields, SpeechIsFrames
<1>5. Holeless(t.out, q)
  BY <1>3 DEF Holeless, Paired, Pair
<1>6. Holeless(v.out, q)
  BY <1>2, <1>4, <1>5, LengthensHoleless
<1> QED
  BY <1>1, <1>6 DEF Silent

AInv ==
  /\ IInv
  /\ st \in Silent => st.blocks = <<>> /\ st.tool_base_index = NoIndex /\ heard = <<>>
  /\ st \in Speaking => st \in Pairing(AllCalls(heard))
  /\ Holeless(st.out, AllCalls(heard))

LEMMA InitAInv == Init => AInv
<1> SUFFICES ASSUME Init PROVE AInv
  OBVIOUS
<1>1. IInv
  BY InitIInv
<1>2. /\ st.first /\ st.out = <<>> /\ st.blocks = <<>> /\ st.tool_base_index = NoIndex
      /\ heard = <<>>
  BY DEF Init, NewState
<1>3. st \notin Speaking
  BY <1>2 DEF Speaking
<1>4. Marks(st.out) = <<>> /\ Namings(AllCalls(heard)) = <<>>
  BY <1>2, AllCallsType, NothingMarked
<1>5. Len(Marks(st.out)) = 0 /\ Len(Namings(AllCalls(heard))) = 0
  BY <1>4, EmptySeq
<1>6. Holeless(st.out, AllCalls(heard))
  BY <1>5 DEF Holeless
<1> QED
  BY <1>1, <1>2, <1>3, <1>6 DEF AInv

LEMMA StepAInv == AInv /\ [Next]_vars => AInv'
<1> SUFFICES ASSUME AInv, [Next]_vars PROVE AInv'
  OBVIOUS
<1>0. IInv'
  BY StepIInv DEF AInv
<1>1. st \in Reachable /\ heard \in Seq(Chunks) /\ st \in StateSet /\ st.out \in Seq(Frames)
  BY ReachableParts DEF AInv, IInv, StateSet
<1>2. PICK q \in Seq(Calls) : q = AllCalls(heard)
  BY <1>1, AllCallsType
<1>3. ASSUME st' = st, heard' = heard PROVE AInv'
  BY <1>0, <1>3 DEF AInv
<1>4. ASSUME NEW r, r = AllCalls(heard'), st' \in Leaves(Pairing(r)) PROVE AInv'
  <2>1. Holeless(st'.out, r) /\ (st' \in Speaking => st' \in Pairing(r)) /\ st' \notin Silent
    BY <1>4, LeavesHoleless
  <2> QED
    BY <1>0, <1>4, <2>1 DEF AInv
<1>5. ASSUME NEW c \in Chunks, Chunk(c), ~st.message_stopped PROVE AInv'
  <2>1. c \in CanonChunk /\ st \in Silent \cup Speaking
    BY <1>1, <1>5, ChunksAssumption, ReachableParts
  <2>2. st' = chunk_to_sse_events(st, c) /\ heard' = Append(heard, c)
    BY <1>5 DEF Chunk
  <2>3. preamble(st, c) \in Pairing(q)
    <3>1. CASE st \in Speaking
      <4>1. Calm(Pairing(q))
        BY PairingSteady DEF Steady
      <4>2. st \in Pairing(q)
        BY <1>2, <3>1 DEF AInv
      <4> QED
        BY <2>1, <4>1, <4>2, CalmPreamble
    <3>2. CASE st \in Silent
      <4>1. st.blocks = <<>> /\ st.tool_base_index = NoIndex /\ heard = <<>>
        BY <3>2 DEF AInv
      <4>2. q = <<>>
        BY <1>2, <4>1, AllCallsType
      <4>3. preamble(st, c) \in Pairing(<<>>)
        BY <2>1, <3>2, <4>1, PreamblePairs
      <4> QED
        BY <4>2, <4>3
    <3> QED
      BY <2>1, <3>1, <3>2
  <2>4. PICK s \in Silent \cup Speaking : s = st
    BY <2>1
  <2>5. chunk_to_sse_events(s, c) \in Leaves(Pairing(q \o CallsOf(c)))
    BY <2>1, <2>3, <2>4, ChunkPairs
  <2>6. PICK r : r = q \o CallsOf(c)
    OBVIOUS
  <2>7. AllCalls(heard') = r
    BY <1>1, <1>2, <2>2, <2>6, AllCallsType
  <2> QED
    BY <1>4, <2>2, <2>4, <2>5, <2>6, <2>7
<1>6. ASSUME NEW c \in Chunks, Chunk(c), st.message_stopped PROVE AInv'
  BY <1>3, <1>6 DEF Chunk, chunk_to_sse_events
<1>7. ASSUME Fail PROVE AInv'
  <2>1. st' = Push([st EXCEPT !.message_stopped = TRUE], ErrorFrame) /\ heard' = heard
    BY <1>7 DEF Fail
  <2>2. st'.out = Append(st.out, ErrorFrame) /\ st'.message_stopped
    BY <1>1, <2>1 DEF Push, StateSet
  <2>3. Lengthens(st.out, Append(st.out, ErrorFrame))
    BY <1>1, TameFrames, AddsOne
  <2>4. Holeless(st.out, q)
    BY <1>2 DEF AInv
  <2>5. Holeless(Append(st.out, ErrorFrame), q)
    BY <1>1, <2>3, <2>4, LengthensHoleless
  <2>6. st' \notin Silent /\ st' \notin Speaking
    BY <2>2 DEF Silent, Speaking
  <2> QED
    BY <1>0, <1>2, <2>1, <2>2, <2>5, <2>6 DEF AInv
<1>8. ASSUME End PROVE AInv'
  <2>1. st' = finalize_stream(st) /\ heard' = heard
    BY <1>8 DEF End
  <2>2. CASE st.message_stopped
    BY <1>3, <2>1, <2>2 DEF finalize_stream
  <2>3. CASE st \in Silent
    <3>1. st' = [st EXCEPT !.message_stopped = TRUE]
      BY <2>1, <2>3 DEF finalize_stream, Silent
    <3>2. st'.out = st.out /\ st'.message_stopped
      BY <1>1, <3>1 DEF StateSet
    <3>3. st' \notin Silent /\ st' \notin Speaking
      BY <3>2 DEF Silent, Speaking
    <3>4. Holeless(st'.out, AllCalls(heard'))
      BY <2>1, <3>2 DEF AInv
    <3> QED
      BY <1>0, <3>3, <3>4 DEF AInv
  <2>4. CASE st \in Speaking
    <3>1. Calm(Pairing(q))
      BY PairingSteady DEF Steady
    <3>2. st \in Pairing(q)
      BY <1>2, <2>4 DEF AInv
    <3>3. finalize_stream(st) \in Leaves(Pairing(q))
      BY <3>1, <3>2, CalmFinalize
    <3> QED
      BY <1>2, <1>4, <2>1, <3>3
  <2> QED
    BY <1>1, <2>2, <2>3, <2>4, ReachableParts
<1>9. CASE UNCHANGED vars
  BY <1>3, <1>9 DEF vars
<1> QED
  BY <1>5, <1>6, <1>7, <1>8, <1>9 DEF Next

(* A client never assembles arguments with a hole in them, for every set   *)
(* of chunks, list of stop sequences and bound, in whatever order the      *)
(* upstream names its calls and interleaves their arguments, its thinking  *)
(* and its text: the n-th tool block of the body was started for the n-th  *)
(* call named, and holds a prefix of what that call was sent (tool_delta,  *)
(* open_block).                                                            *)
THEOREM ArgsNeverHoled == Spec => []ArgsWithoutHoles
<1>1. AInv => ArgsWithoutHoles
  <2> SUFFICES ASSUME AInv PROVE ArgsWithoutHoles
    OBVIOUS
  <2>1. PICK o \in Seq(Frames) : o = out
    BY ReachableParts DEF AInv, IInv, StateSet, out
  <2>2. heard \in Seq(Chunks)
    BY DEF AInv, IInv
  <2>3. PICK q \in Seq(Calls) : q = AllCalls(heard)
    BY <2>2, AllCallsType
  <2>4. q = HeardCalls
    <3>1. PICK p \in Seq(Chunks) : p = heard
      BY <2>2
    <3>2. \A k \in DOMAIN p : CallsFrom[p[k]] = IF p[k].has_calls THEN p[k].calls ELSE <<>>
      BY DEF CallsFrom, CallsOf
    <3>3. [k \in DOMAIN p |-> IF p[k].has_calls THEN p[k].calls ELSE <<>>] = Each(CallsFrom, p)
      BY <3>2, Zenon DEF Each
    <3> QED
      BY <2>3, <3>1, <3>3 DEF HeardCalls, AllCalls, Along
  <2>5. Holeless(o, q)
    BY <2>1, <2>3 DEF AInv, out
  <2>6. PICK starts \in Seq(Nat) : starts = Marks(o)
    <3>1. PICK f \in Frames : f = BlockStop(0)
      BY FrameTypes DEF Speech
    <3> QED
      BY MarksAppend
  <2>7. Positions(out, LAMBDA f : f.kind = "tool_use" /\ f.ev = "content_block_start") = starts
    BY <2>1, <2>6, Zenon DEF Positions, Marks, MarksOf, ToolStart
  <2>8. PICK names : names = Namings(q)
    OBVIOUS
  <2>9. Positions(HeardCalls, LAMBDA tc : tc.name) = names
    BY <2>4, <2>8, Zenon DEF Positions, Namings, NamingsOf
  <2>10. \A j : ArgsOfBlock(j) = ArgsIn(o, j)
    BY <2>1, Zenon DEF ArgsOfBlock, ArgsIn, PiecesIn, Starts, StartedBy
  <2>11. \A m : ArgsOfCall(m) = ArgsFor(q, m)
    BY <2>4, Zenon DEF ArgsOfCall, ArgsFor, PiecesFor, MeantFor
  <2>12. Len(starts) = Len(names) /\ DOMAIN starts = 1 .. Len(names)
    BY <2>5, <2>6, <2>8 DEF Holeless
  <2>13. ASSUME NEW n \in DOMAIN starts
         PROVE  IsPrefix(ArgsOfBlock(starts[n]), ArgsOfCall(names[n]))
    <3>1. PICK x \in Texts : x = ArgsIn(o, starts[n])
      BY ArgsInText
    <3>2. PICK y \in Texts : y = ArgsFor(q, names[n])
      BY ArgsForText
    <3>3. Begins(x, y)
      BY <2>5, <2>6, <2>8, <2>12, <2>13, <3>1, <3>2 DEF Holeless
    <3>4. IsPrefix(x, y)
      BY <3>3, BeginsLaws
    <3> QED
      BY <2>10, <2>11, <3>1, <3>2, <3>4
  <2> QED
    BY <2>7, <2>9, <2>12, <2>13 DEF ArgsWithoutHoles
<1> QED
  BY <1>1, InitAInv, StepAInv, PTL DEF Spec
=============================================================================
