--------------------------- MODULE ChatRelay_proofs ---------------------------
(***************************************************************************)
(* Proofs about the chat surface and about a turn relayed from it to the   *)
(* client of this crate.  What the reading end has is what the events it   *)
(* took say (Yields), what the body says is what the chunks heard become   *)
(* (Relays), and the events taken are the beginning of the body.           *)
(***************************************************************************)
EXTENDS ChatRelay, StopWindowLemmas

-----------------------------------------------------------------------------
(* The frames of the body, and the chunks the reading end makes of one *)
UsageObjects ==
  [given : BOOLEAN, prompt : Nat, completion : Nat,
   flat_read : Nat, flat_write : Nat, cached : Nat, creation : Nat]

FrameSet ==
  [ev : {"chunk", "done", "error"}, choices : BOOLEAN, role : BOOLEAN,
   delta : CanonChunk, usage : UsageObjects]

Read(u) ==
  IF u.given THEN [given |-> TRUE, input |-> u.prompt, output |-> u.completion,
                   cached_read |-> u.cached, cache_write |-> u.creation]
  ELSE NoUsage

Yield(f) ==
  IF f.ev # "chunk" THEN <<>>
  ELSE IF ~f.choices
       THEN IF f.usage.given THEN <<[EmptyChunk EXCEPT !.usage = Read(f.usage)]>> ELSE <<>>
       ELSE LET chunk == [f.delta EXCEPT !.usage = Read(f.usage)]
            IN  IF ~f.role /\ HasPayload(chunk) THEN <<chunk>> ELSE <<>>

Yields == [f \in FrameSet |-> Yield(f)]

Relays == [c \in Chunks |-> Relayed(c)]

LEMMA EmptyIsChunk == EmptyChunk \in CanonChunk
<1>1. <<>> \in Seq(Char) /\ <<>> \in Seq(Calls)
  BY EmptySeq
<1>2. NoUsage \in Usages
  BY DEF NoUsage, Usages
<1>3. [kind |-> "none", text |-> <<>>] \in [kind : {"none", "thinking", "signature"}, text : Texts]
  BY <1>1 DEF Texts
<1> QED
  BY <1>1, <1>2, <1>3 DEF EmptyChunk, CanonChunk, Texts

LEMMA WithUsage ==
  ASSUME NEW c \in CanonChunk, NEW u \in Usages, NEW n \in Nat \cup {NoTokens}
  PROVE  /\ [c EXCEPT !.usage = u] \in CanonChunk
         /\ [c EXCEPT !.usage = u, !.input_tokens = n] \in CanonChunk
         /\ [c EXCEPT !.usage = u].usage = u
         /\ [c EXCEPT !.usage = u, !.input_tokens = n].usage = u
BY DEF CanonChunk

LEMMA ReadType ==
  ASSUME NEW u \in UsageObjects
  PROVE  Read(u) \in Usages
BY DEF Read, UsageObjects, Usages, NoUsage

LEMMA OneChunk ==
  ASSUME NEW c \in CanonChunk
  PROVE  <<c>> \in Seq(CanonChunk)
OBVIOUS

LEMMA YieldsType == Yields \in [FrameSet -> Seq(CanonChunk)]
<1>1. ASSUME NEW f \in FrameSet PROVE Yield(f) \in Seq(CanonChunk)
  <2>1. f.delta \in CanonChunk /\ f.usage \in UsageObjects
    BY DEF FrameSet
  <2>2. Read(f.usage) \in Usages
    BY <2>1, ReadType
  <2>3. /\ [EmptyChunk EXCEPT !.usage = Read(f.usage)] \in CanonChunk
        /\ [f.delta EXCEPT !.usage = Read(f.usage)] \in CanonChunk
    BY <2>1, <2>2, EmptyIsChunk, WithUsage
  <2>4. /\ <<[EmptyChunk EXCEPT !.usage = Read(f.usage)]>> \in Seq(CanonChunk)
        /\ <<[f.delta EXCEPT !.usage = Read(f.usage)]>> \in Seq(CanonChunk)
        /\ <<>> \in Seq(CanonChunk)
    BY <2>3, OneChunk, EmptySeq
  <2> QED
    BY <2>4 DEF Yield
<1> QED
  BY <1>1 DEF Yields

LEMMA RelaysType == Relays \in [Chunks -> Seq(CanonChunk)]
<1>1. ASSUME NEW c \in Chunks PROVE Relayed(c) \in Seq(CanonChunk)
  <2>1. c \in CanonChunk /\ c.usage \in Usages
    BY ChunksAssumption DEF CanonChunk
  <2>2. NoUsage \in Usages /\ [c.usage EXCEPT !.cached_read = 0, !.cache_write = 0] \in Usages
    BY <2>1 DEF NoUsage, Usages
  <2>3. PICK x \in CanonChunk : x = [c EXCEPT !.usage = NoUsage, !.input_tokens = NoTokens]
    <3>1. NoTokens \in Nat \cup {NoTokens}
      OBVIOUS
    <3> QED
      BY <2>1, <2>2, <3>1, WithUsage
  <2>4. PICK y \in CanonChunk :
          y = [EmptyChunk EXCEPT !.usage = [c.usage EXCEPT !.cached_read = 0, !.cache_write = 0]]
    BY <2>2, EmptyIsChunk, WithUsage
  <2>5. <<x>> \in Seq(CanonChunk) /\ <<y>> \in Seq(CanonChunk) /\ <<>> \in Seq(CanonChunk)
    BY OneChunk, EmptySeq
  <2>6. Relayed(c) = (IF HasPayload(x) THEN <<x>> ELSE <<>>)
                       \o (IF IncludeUsage /\ c.usage.given THEN <<y>> ELSE <<>>)
    BY <2>3, <2>4 DEF Relayed
  <2> QED
    BY <2>5, <2>6, ConcatProperties
<1> QED
  BY <1>1 DEF Relays

-----------------------------------------------------------------------------
(* The serving end *)
LEMMA SameChunk ==
  Server!EmptyChunk = EmptyChunk /\ Server!NoUsage = NoUsage /\ Server!NoTokens = NoTokens
BY DEF Server!EmptyChunk, EmptyChunk, Server!NoUsage, NoUsage, Server!NoTokens, NoTokens

LEMMA FrameOf ==
  ASSUME NEW ev \in {"chunk", "done", "error"}, NEW choices \in BOOLEAN, NEW role \in BOOLEAN,
         NEW delta \in CanonChunk, NEW usage \in UsageObjects
  PROVE  [ev |-> ev, choices |-> choices, role |-> role, delta |-> delta, usage |-> usage]
           \in FrameSet
BY DEF FrameSet

LEMMA AbsentType ==
  Server!Absent \in UsageObjects /\ ~Server!Absent.given
BY DEF Server!Absent, UsageObjects

LEMMA FrameTypes ==
  /\ Server!RoleFrame \in FrameSet
  /\ Server!DoneFrame \in FrameSet
  /\ Server!ErrorFrame \in FrameSet
  /\ Yield(Server!RoleFrame) = <<>>
  /\ Yield(Server!DoneFrame) = <<>>
  /\ Yield(Server!ErrorFrame) = <<>>
  /\ Server!RoleFrame.ev = "chunk" /\ Server!DoneFrame.ev = "done"
  /\ Server!ErrorFrame.ev = "error"
<1>0. PICK c \in CanonChunk, u \in UsageObjects : c = Server!EmptyChunk /\ u = Server!Absent
  BY EmptyIsChunk, SameChunk, AbsentType
<1>1. PICK r : r = [ev |-> "chunk", choices |-> TRUE, role |-> TRUE, delta |-> c, usage |-> u]
  OBVIOUS
<1>2. PICK d : d = [ev |-> "done", choices |-> FALSE, role |-> FALSE, delta |-> c, usage |-> u]
  OBVIOUS
<1>3. PICK e : e = [ev |-> "error", choices |-> FALSE, role |-> FALSE, delta |-> c, usage |-> u]
  OBVIOUS
<1>8. r = Server!RoleFrame /\ d = Server!DoneFrame /\ e = Server!ErrorFrame
  BY <1>0, <1>1, <1>2, <1>3
     DEF Server!RoleFrame, Server!DoneFrame, Server!ErrorFrame, Server!Frame
<1>4. r \in FrameSet /\ r.ev = "chunk" /\ r.choices /\ r.role
  BY <1>1, FrameOf
<1>5. d \in FrameSet /\ d.ev = "done"
  BY <1>2, FrameOf
<1>6. e \in FrameSet /\ e.ev = "error"
  BY <1>3, FrameOf
<1>7. Yield(r) = <<>> /\ Yield(d) = <<>> /\ Yield(e) = <<>>
  BY <1>4, <1>5, <1>6 DEF Yield
<1> QED
  BY <1>4, <1>5, <1>6, <1>7, <1>8

(* The frame of the content of a chunk gives back that content *)
LEMMA DeltaYields ==
  ASSUME NEW c \in CanonChunk, NEW x, x = [c EXCEPT !.usage = NoUsage, !.input_tokens = NoTokens]
  PROVE  LET f == Server!DeltaFrame(x)
         IN  /\ f \in FrameSet /\ f.ev = "chunk"
             /\ HasPayload(x) => Yield(f) = <<x>>
             /\ HasPayload(x) <=> ~( /\ c.delta_text = <<>> /\ ~c.has_calls
                                     /\ c.finish = "none" /\ c.thinking.kind = "none")
<1>1. NoUsage \in Usages
  BY DEF NoUsage, Usages
<1>2. x \in CanonChunk /\ x.usage = NoUsage
  BY <1>1 DEF CanonChunk
<1>3. PICK f : f = Server!DeltaFrame(x)
  OBVIOUS
<1>4. /\ f.ev = "chunk" /\ f.choices = TRUE /\ f.role = FALSE /\ f.delta = x
      /\ f.usage = Server!Absent /\ f \in FrameSet
  <2>1. PICK u \in UsageObjects : u = Server!Absent
    BY AbsentType
  <2>2. f = [ev |-> "chunk", choices |-> TRUE, role |-> FALSE, delta |-> x, usage |-> u]
    BY <1>3, <2>1 DEF Server!DeltaFrame, Server!Frame
  <2> QED
    BY <1>2, <2>1, <2>2, FrameOf
<1>5. Read(f.usage) = NoUsage
  BY <1>4 DEF Read, Server!Absent
<1>6. [f.delta EXCEPT !.usage = Read(f.usage)] = x
  BY <1>2, <1>4, <1>5 DEF CanonChunk
<1>7. HasPayload(x) => Yield(f) = <<x>>
  BY <1>4, <1>6 DEF Yield
<1>8. /\ x.delta_text = c.delta_text /\ x.has_calls = c.has_calls
      /\ x.finish = c.finish /\ x.thinking = c.thinking /\ ~x.usage.given
  BY <1>2 DEF CanonChunk, NoUsage
<1> QED
  BY <1>3, <1>4, <1>7, <1>8 DEF HasPayload

(* The usage frame gives back the usage but for the cache *)
LEMMA UsageYields ==
  ASSUME NEW u \in Usages, u.given
  PROVE  LET f == Server!UsageFrame([Server!Absent EXCEPT
                    !.given = TRUE, !.prompt = u.input, !.completion = u.output,
                    !.flat_read = u.cached_read, !.flat_write = u.cache_write])
         IN  /\ f \in FrameSet /\ f.ev = "chunk"
             /\ Yield(f) = <<[EmptyChunk EXCEPT !.usage = [u EXCEPT !.cached_read = 0, !.cache_write = 0]]>>
<1>1. PICK v : v = [Server!Absent EXCEPT
                      !.given = TRUE, !.prompt = u.input, !.completion = u.output,
                      !.flat_read = u.cached_read, !.flat_write = u.cache_write]
  OBVIOUS
<1>2. v = [given |-> TRUE, prompt |-> u.input, completion |-> u.output,
           flat_read |-> u.cached_read, flat_write |-> u.cache_write, cached |-> 0, creation |-> 0]
  BY <1>1 DEF Server!Absent
<1>3. v \in UsageObjects
  BY <1>2 DEF UsageObjects, Usages
<1>4. PICK f : f = Server!UsageFrame(v)
  OBVIOUS
<1>5. f \in FrameSet /\ f.ev = "chunk" /\ ~f.choices /\ f.usage = v
  <2>1. PICK c \in CanonChunk : c = Server!EmptyChunk
    BY EmptyIsChunk, SameChunk
  <2>2. f = [ev |-> "chunk", choices |-> FALSE, role |-> FALSE, delta |-> c, usage |-> v]
    BY <1>4, <2>1 DEF Server!UsageFrame, Server!Frame
  <2> QED
    BY <1>3, <2>2, FrameOf
<1>6. Read(v) = [u EXCEPT !.cached_read = 0, !.cache_write = 0]
  <2>1. v.given /\ v.prompt = u.input /\ v.completion = u.output /\ v.cached = 0 /\ v.creation = 0
    BY <1>2
  <2>2. Read(v) = [given |-> TRUE, input |-> u.input, output |-> u.output,
                   cached_read |-> 0, cache_write |-> 0]
    BY <2>1 DEF Read
  <2>3. [u EXCEPT !.cached_read = 0, !.cache_write = 0]
          = [given |-> TRUE, input |-> u.input, output |-> u.output,
             cached_read |-> 0, cache_write |-> 0]
    <3>1. PICK x : x = [u EXCEPT !.cached_read = 0, !.cache_write = 0]
      OBVIOUS
    <3>2. /\ DOMAIN x = {"given", "input", "output", "cached_read", "cache_write"}
          /\ x = [k \in DOMAIN x |-> x[k]]
      BY <3>1 DEF Usages
    <3>3. x.given = TRUE /\ x.input = u.input /\ x.output = u.output
      BY <3>1 DEF Usages
    <3>4. x.cached_read = 0 /\ x.cache_write = 0
      BY <3>1 DEF Usages
    <3> QED
      BY <3>1, <3>2, <3>3, <3>4
  <2> QED
    BY <2>2, <2>3
<1>7. Yield(f) = <<[EmptyChunk EXCEPT !.usage = [u EXCEPT !.cached_read = 0, !.cache_write = 0]]>>
  BY <1>2, <1>5, <1>6 DEF Yield
<1> QED
  BY <1>1, <1>4, <1>5, <1>7

(* One more frame at the end of a body *)
LEMMA BodyMore ==
  ASSUME NEW o \in Seq(FrameSet), NEW f \in FrameSet
  PROVE  /\ Append(o, f) \in Seq(FrameSet)
         /\ o \o <<f>> = Append(o, f)
         /\ Along(Yields, Append(o, f)) = Along(Yields, o) \o Yield(f)
<1>1. Along(Yields, Append(o, f)) = Along(Yields, o) \o Yields[f]
  <2>1. ASSUME NEW G \in [FrameSet -> Seq(CanonChunk)]
        PROVE  Along(G, Append(o, f)) = Along(G, o) \o G[f]
    BY AlongAppend, SMTT(60)
  <2> QED
    BY <2>1, YieldsType
<1>2. Yields[f] = Yield(f)
  BY DEF Yields
<1>3. Append(o, f) \in Seq(FrameSet) /\ o \o <<f>> = Append(o, f)
  OBVIOUS
<1> QED
  BY <1>1, <1>2, <1>3

Plain(o, n) == \A k \in 1 .. n : o[k].ev = "chunk"

(* A frame that only speaks *)
LEMMA Speaks ==
  ASSUME NEW o \in Seq(FrameSet), Plain(o, Len(o)), NEW f \in FrameSet, f.ev = "chunk"
  PROVE  Plain(Append(o, f), Len(Append(o, f)))
<1>1. PICK n \in Nat : n = Len(o)
  OBVIOUS
<1>2. PICK p : p = Append(o, f)
  OBVIOUS
<1>3. Len(p) = n + 1 /\ p[n + 1] = f /\ \A k \in 1 .. n : p[k] = o[k]
  BY <1>1, <1>2
<1>4. ASSUME NEW k \in 1 .. n + 1 PROVE p[k].ev = "chunk"
  <2>1. CASE k = n + 1
    BY <1>3, <2>1
  <2>2. CASE k \in 1 .. n
    BY <1>1, <1>3, <2>2 DEF Plain
  <2> QED
    BY <2>1, <2>2
<1> QED
  BY <1>2, <1>3, <1>4 DEF Plain

(* A body that says one thing more, or the same *)
Longer(p, o, y) ==
  /\ p \in Seq(FrameSet)
  /\ \E e \in Seq(FrameSet) : p = o \o e
  /\ Plain(o, Len(o)) => Plain(p, Len(p))
  /\ Along(Yields, p) = Along(Yields, o) \o y
  /\ o # <<>> => p # <<>>

LEMMA NoLonger ==
  ASSUME NEW o \in Seq(FrameSet)
  PROVE  Longer(o, o, <<>>)
<1>1. Along(Yields, o) \in Seq(CanonChunk)
  BY YieldsType, AlongType
<1>2. <<>> \in Seq(FrameSet) /\ o = o \o <<>>
  BY EmptySeq, ConcatEmptySeq
<1> QED
  BY <1>1, <1>2, ConcatEmptySeq DEF Longer

LEMMA OneLonger ==
  ASSUME NEW o \in Seq(FrameSet), NEW f \in FrameSet, f.ev = "chunk"
  PROVE  Longer(o \o <<f>>, o, Yield(f)) /\ o \o <<f>> # <<>>
<1>1. PICK p : p = Append(o, f)
  OBVIOUS
<1>2. p \in Seq(FrameSet) /\ p = o \o <<f>> /\ Along(Yields, p) = Along(Yields, o) \o Yield(f)
  BY <1>1, BodyMore
<1>3. <<f>> \in Seq(FrameSet) /\ p # <<>>
  BY <1>1
<1>4. Plain(o, Len(o)) => Plain(p, Len(p))
  BY <1>1, Speaks
<1> QED
  BY <1>2, <1>3, <1>4 DEF Longer

LEMMA LongerStill ==
  ASSUME NEW p, NEW o \in Seq(FrameSet), NEW y \in Seq(CanonChunk), Longer(p, o, y),
         NEW q, NEW z \in Seq(CanonChunk), Longer(q, p, z)
  PROVE  Longer(q, o, y \o z)
<1>1. p \in Seq(FrameSet) /\ q \in Seq(FrameSet)
  BY DEF Longer
<1>2. PICK d \in Seq(FrameSet) : p = o \o d
  BY DEF Longer
<1>3. PICK e \in Seq(FrameSet) : q = p \o e
  BY DEF Longer
<1>4. q = o \o (d \o e) /\ d \o e \in Seq(FrameSet)
  <2>1. (o \o d) \o e = o \o (d \o e) /\ d \o e \in Seq(FrameSet)
    BY ConcatAssociative, ConcatProperties, SMTT(60)
  <2> QED
    BY <1>2, <1>3, <2>1
<1>5. Along(Yields, q) = Along(Yields, o) \o (y \o z)
  <2>1. PICK a \in Seq(CanonChunk) : a = Along(Yields, o)
    BY YieldsType, AlongType
  <2>2. Along(Yields, q) = (a \o y) \o z
    BY <2>1 DEF Longer
  <2>3. (a \o y) \o z = a \o (y \o z)
    BY ConcatAssociative, SMTT(60)
  <2> QED
    BY <2>1, <2>2, <2>3
<1>6. /\ Plain(o, Len(o)) => Plain(q, Len(q))
      /\ o # <<>> => q # <<>>
  BY DEF Longer
<1> QED
  BY <1>1, <1>4, <1>5, <1>6 DEF Longer

(* Role, content and usage of one chunk are put after the body in turn, and *)
(* say what becomes of the chunk (frame_chunk)                             *)
LEMMA FrameChunk ==
  ASSUME NEW s, s.out \in Seq(FrameSet), s = [first_pending |-> s.first_pending,
                                              done_sent |-> s.done_sent, out |-> s.out],
         NEW c \in Chunks, NEW t, t = Server!frame_chunk(s, c)
  PROVE  /\ t = [first_pending |-> FALSE, done_sent |-> s.done_sent, out |-> t.out]
         /\ Longer(t.out, s.out, Relayed(c))
         /\ s.first_pending => t.out # <<>>
<1>1. c \in CanonChunk /\ c.usage \in Usages
  BY ChunksAssumption DEF CanonChunk
<1>2. PICK x : x = [c EXCEPT !.usage = NoUsage, !.input_tokens = NoTokens]
  OBVIOUS
<1>3. PICK o \in Seq(FrameSet) : o = s.out
  OBVIOUS
<1>4. PICK a : a = o \o (IF s.first_pending THEN <<Server!RoleFrame>> ELSE <<>>)
  OBVIOUS
<1>5. PICK b : b = a \o Server!delta_frame(c)
  OBVIOUS
<1>6. PICK d : d = b \o (IF IncludeUsage THEN Server!usage_frame(c) ELSE <<>>)
  OBVIOUS
<1>7. t = [first_pending |-> FALSE, done_sent |-> s.done_sent, out |-> d]
  BY <1>3, <1>4, <1>5, <1>6 DEF Server!frame_chunk
<1>8. Longer(a, o, <<>>) /\ (s.first_pending => a # <<>>)
  <2>1. o \o <<>> = o
    BY ConcatEmptySeq
  <2>2. PICK r \in FrameSet : r = Server!RoleFrame /\ r.ev = "chunk" /\ Yield(r) = <<>>
    BY FrameTypes
  <2>3. CASE s.first_pending
    <3>1. a = o \o <<r>>
      BY <1>4, <2>2, <2>3
    <3> QED
      BY <3>1, <2>2, OneLonger
  <2>4. CASE ~s.first_pending
    <3>1. a = o
      BY <1>4, <2>1, <2>4
    <3> QED
      BY <3>1, <2>4, NoLonger
  <2> QED
    BY <2>3, <2>4
<1>9. Longer(b, a, IF HasPayload(x) THEN <<x>> ELSE <<>>)
  <2>0. a \in Seq(FrameSet)
    BY <1>8 DEF Longer
  <2>1. a \o <<>> = a
    BY <2>0, ConcatEmptySeq
  <2>2. PICK f \in FrameSet :
          /\ f = Server!DeltaFrame(x) /\ f.ev = "chunk"
          /\ HasPayload(x) => Yield(f) = <<x>>
          /\ HasPayload(x) <=> ~( /\ c.delta_text = <<>> /\ ~c.has_calls
                                  /\ c.finish = "none" /\ c.thinking.kind = "none")
    BY <1>1, <1>2, DeltaYields
  <2>3. Server!delta_frame(c) = IF HasPayload(x) THEN <<f>> ELSE <<>>
    BY <1>2, <2>2, SameChunk DEF Server!delta_frame
  <2>4. CASE HasPayload(x)
    <3>1. b = a \o <<f>>
      BY <1>5, <2>3, <2>4
    <3> QED
      BY <2>0, <2>2, <2>4, <3>1, OneLonger
  <2>5. CASE ~HasPayload(x)
    <3>1. b = a
      BY <1>5, <2>1, <2>3, <2>5
    <3> QED
      BY <2>0, <2>5, <3>1, NoLonger
  <2> QED
    BY <2>4, <2>5
<1>10. PICK y : y = [EmptyChunk EXCEPT !.usage = [c.usage EXCEPT !.cached_read = 0, !.cache_write = 0]]
  OBVIOUS
<1>11. Longer(d, b, IF IncludeUsage /\ c.usage.given THEN <<y>> ELSE <<>>)
  <2>0. b \in Seq(FrameSet)
    BY <1>9 DEF Longer
  <2>1. b \o <<>> = b
    BY <2>0, ConcatEmptySeq
  <2>2. CASE IncludeUsage /\ c.usage.given
    <3>1. PICK f : f = Server!UsageFrame([Server!Absent EXCEPT
                         !.given = TRUE, !.prompt = c.usage.input, !.completion = c.usage.output,
                         !.flat_read = c.usage.cached_read, !.flat_write = c.usage.cache_write])
      OBVIOUS
    <3>2. f \in FrameSet /\ f.ev = "chunk" /\ Yield(f) = <<y>>
      BY <1>1, <1>10, <2>2, <3>1, UsageYields
    <3>3. d = b \o <<f>>
      BY <1>6, <2>2, <3>1 DEF Server!usage_frame
    <3> QED
      BY <2>0, <2>2, <3>2, <3>3, OneLonger
  <2>3. CASE ~(IncludeUsage /\ c.usage.given)
    <3>1. d = b
      BY <1>6, <2>1, <2>3 DEF Server!usage_frame
    <3> QED
      BY <2>0, <2>3, <3>1, NoLonger
  <2> QED
    BY <2>2, <2>3
<1>12. Longer(d, o, Relayed(c)) /\ (s.first_pending => d # <<>>)
  <2>1. Relayed(c) = (IF HasPayload(x) THEN <<x>> ELSE <<>>)
                       \o (IF IncludeUsage /\ c.usage.given THEN <<y>> ELSE <<>>)
    BY <1>2, <1>10 DEF Relayed
  <2>2. x \in CanonChunk /\ y \in CanonChunk
    <3>1. NoUsage \in Usages /\ [c.usage EXCEPT !.cached_read = 0, !.cache_write = 0] \in Usages
      BY <1>1 DEF NoUsage, Usages
    <3>2. y \in CanonChunk
      BY <1>10, <3>1, EmptyIsChunk, WithUsage
    <3>3. x \in CanonChunk
      <4>1. NoTokens \in Nat \cup {NoTokens}
        OBVIOUS
      <4> QED
        BY <1>1, <1>2, <3>1, <4>1, WithUsage
    <3> QED
      BY <3>2, <3>3
  <2>3. PICK u \in Seq(CanonChunk) : u = IF HasPayload(x) THEN <<x>> ELSE <<>>
    BY <2>2, OneChunk, EmptySeq
  <2>4. PICK v \in Seq(CanonChunk) : v = IF IncludeUsage /\ c.usage.given THEN <<y>> ELSE <<>>
    BY <2>2, OneChunk, EmptySeq
  <2>5. Longer(b, a, u) /\ Longer(d, b, v) /\ a \in Seq(FrameSet)
    BY <1>8, <1>9, <1>11, <2>3, <2>4 DEF Longer
  <2>6. Longer(d, a, u \o v)
    BY <2>5, LongerStill
  <2>7. u \o v \in Seq(CanonChunk) /\ <<>> \in Seq(CanonChunk) /\ <<>> \o (u \o v) = u \o v
    BY EmptySeq, ConcatProperties, ConcatEmptySeq
  <2>8. Longer(d, o, <<>> \o (u \o v))
    BY <1>8, <2>6, <2>7, LongerStill
  <2>9. Relayed(c) = u \o v
    BY <2>1, <2>3, <2>4
  <2>10. s.first_pending => d # <<>>
    BY <1>8, <2>6 DEF Longer
  <2> QED
    BY <2>7, <2>8, <2>9, <2>10
<1> QED
  BY <1>3, <1>7, <1>12

-----------------------------------------------------------------------------
(* Silent before [DONE] or an error; after the error, [DONE]; or [DONE] alone *)
Shape(o, p, sent) ==
  \/ p = "open" /\ ~sent /\ Plain(o, Len(o))
  \/ /\ p \in {"failed", "closed"} /\ sent
     /\ Len(o) >= 2 /\ Plain(o, Len(o) - 2)
     /\ o[Len(o) - 1].ev = "error" /\ o[Len(o)].ev = "done"
  \/ /\ p = "closed" /\ ~sent
     /\ Len(o) >= 1 /\ Plain(o, Len(o) - 1) /\ o[Len(o)].ev = "done"

Serving(s, h, p) ==
  /\ s = [first_pending |-> s.first_pending, done_sent |-> s.done_sent, out |-> s.out]
  /\ s.first_pending \in BOOLEAN /\ s.done_sent \in BOOLEAN
  /\ s.out \in Seq(FrameSet)
  /\ h \in Seq(Chunks)
  /\ Along(Yields, s.out) = Along(Relays, h)
  /\ s.out = <<>> => s.first_pending
  /\ Shape(s.out, p, s.done_sent)

LEMMA NoRelay ==
  /\ Along(Yields, <<>>) = <<>> /\ Along(Relays, <<>>) = <<>>
BY DEF Along, Each, FlattenSeq

LEMMA HeardMore ==
  ASSUME NEW h \in Seq(Chunks), NEW c \in Chunks
  PROVE  /\ Append(h, c) \in Seq(Chunks)
         /\ Along(Relays, Append(h, c)) = Along(Relays, h) \o Relayed(c)
<1>1. ASSUME NEW G \in [Chunks -> Seq(CanonChunk)]
      PROVE  Along(G, Append(h, c)) = Along(G, h) \o G[c]
  BY AlongAppend, SMTT(60)
<1>2. Along(Relays, Append(h, c)) = Along(Relays, h) \o Relays[c]
  BY <1>1, RelaysType
<1>3. Relays[c] = Relayed(c)
  BY DEF Relays
<1> QED
  BY <1>2, <1>3

LEMMA ServingStart == Server!Init => Serving(st, heard, pump)
<1> SUFFICES ASSUME Server!Init PROVE Serving(st, heard, pump)
  OBVIOUS
<1>1. st = [first_pending |-> TRUE, done_sent |-> FALSE, out |-> <<>>] /\ heard = <<>> /\ pump = "open"
  BY DEF Server!Init, Server!New
<1>2. Plain(<<>>, Len(<<>>))
  BY DEF Plain
<1>3. Shape(st.out, pump, st.done_sent)
  BY <1>1, <1>2 DEF Shape
<1>4. Along(Yields, st.out) = Along(Relays, heard)
  BY <1>1, NoRelay
<1>5. st.out \in Seq(FrameSet) /\ heard \in Seq(Chunks)
  BY <1>1, EmptySeq
<1> QED
  BY <1>1, <1>3, <1>4, <1>5 DEF Serving

LEMMA ServingChunk ==
  ASSUME NEW s, NEW h, Serving(s, h, "open"), NEW c \in Chunks
  PROVE  LET t == Server!frame_chunk(s, c)
         IN  /\ Serving(t, Append(h, c), "open")
             /\ Longer(t.out, s.out, Relayed(c)) /\ t.out # <<>>
<1>1. PICK t : t = Server!frame_chunk(s, c)
  OBVIOUS
<1>2. /\ t = [first_pending |-> FALSE, done_sent |-> s.done_sent, out |-> t.out]
      /\ Longer(t.out, s.out, Relayed(c))
      /\ s.first_pending => t.out # <<>>
  <2>1. s.out \in Seq(FrameSet) /\ s = [first_pending |-> s.first_pending,
                                        done_sent |-> s.done_sent, out |-> s.out]
    BY DEF Serving
  <2> QED
    BY <1>1, <2>1, FrameChunk
<1>3. t.first_pending = FALSE /\ t.done_sent = s.done_sent
  BY <1>2
<1>4. ~s.done_sent /\ Plain(s.out, Len(s.out))
  BY DEF Serving, Shape
<1>5. /\ t.out \in Seq(FrameSet) /\ Plain(t.out, Len(t.out))
      /\ Along(Yields, t.out) = Along(Yields, s.out) \o Relayed(c)
  BY <1>2, <1>4 DEF Longer
<1>6. t.out # <<>>
  BY <1>2 DEF Longer, Serving
<1>7. Along(Yields, t.out) = Along(Relays, Append(h, c)) /\ Append(h, c) \in Seq(Chunks)
  BY <1>5, HeardMore DEF Serving
<1>8. Shape(t.out, "open", t.done_sent)
  BY <1>3, <1>4, <1>5 DEF Shape
<1>9. Serving(t, Append(h, c), "open")
  <2>1. t = [first_pending |-> t.first_pending, done_sent |-> t.done_sent, out |-> t.out]
    BY <1>2, <1>3
  <2>2. t.first_pending \in BOOLEAN /\ t.done_sent \in BOOLEAN
    BY <1>3 DEF Serving
  <2> QED
    BY <2>1, <2>2, <1>5, <1>6, <1>7, <1>8 DEF Serving
<1> QED
  BY <1>1, <1>2, <1>6, <1>9

(* Body p is o and a frame f that says nothing *)
After(p, o, f) ==
  /\ p \in Seq(FrameSet) /\ Len(p) = Len(o) + 1 /\ Len(o) \in Nat
  /\ p[Len(o) + 1] = f /\ \A k \in 1 .. Len(o) : p[k] = o[k]
  /\ Along(Yields, p) = Along(Yields, o)

LEMMA Closing ==
  ASSUME NEW o \in Seq(FrameSet), NEW f \in FrameSet, Yield(f) = <<>>
  PROVE  After(Append(o, f), o, f)
<1>0. PICK p : p = Append(o, f)
  OBVIOUS
<1>1. Along(Yields, o) \in Seq(CanonChunk)
  BY YieldsType, AlongType
<1>2. Along(Yields, p) = Along(Yields, o) \o <<>> /\ p \in Seq(FrameSet)
  BY <1>0, BodyMore
<1>3. Along(Yields, p) = Along(Yields, o)
  BY <1>1, <1>2, ConcatEmptySeq
<1>4. Len(p) = Len(o) + 1 /\ p[Len(o) + 1] = f /\ \A k \in 1 .. Len(o) : p[k] = o[k]
  BY <1>0
<1> QED
  BY <1>0, <1>2, <1>3, <1>4 DEF After

LEMMA ServingFail ==
  ASSUME NEW s, NEW h, Serving(s, h, "open")
  PROVE  LET t == Server!frame_error(s)
         IN  /\ Serving(t, h, "failed")
             /\ \E e \in Seq(FrameSet) : t.out = s.out \o e
             /\ \E k \in DOMAIN t.out : t.out[k].ev = "error"
<1>1. PICK t : t = Server!frame_error(s)
  OBVIOUS
<1>2. PICK o \in Seq(FrameSet) : o = s.out
  BY DEF Serving
<1>3. PICK e \in FrameSet, d \in FrameSet :
        /\ e = Server!ErrorFrame /\ d = Server!DoneFrame
        /\ e.ev = "error" /\ d.ev = "done" /\ Yield(e) = <<>> /\ Yield(d) = <<>>
  BY FrameTypes
<1>4. PICK a : a = Append(o, e)
  OBVIOUS
<1>5. PICK b : b = Append(a, d)
  OBVIOUS
<1>6. PICK n \in Nat : n = Len(o)
  OBVIOUS
<1>7. /\ a \in Seq(FrameSet) /\ Len(a) = n + 1 /\ a[n + 1] = e
      /\ \A k \in 1 .. n : a[k] = o[k]
      /\ Along(Yields, a) = Along(Yields, o)
  <2>1. After(a, o, e)
    BY <1>3, <1>4, Closing
  <2> QED
    BY <1>6, <2>1 DEF After
<1>8. /\ b \in Seq(FrameSet) /\ Len(b) = n + 2 /\ b[n + 2] = d /\ b[n + 1] = e
      /\ \A k \in 1 .. n : b[k] = o[k]
      /\ Along(Yields, b) = Along(Yields, o)
  <2>1. /\ b \in Seq(FrameSet) /\ Len(b) = Len(a) + 1 /\ b[Len(a) + 1] = d
        /\ \A k \in 1 .. Len(a) : b[k] = a[k]
        /\ Along(Yields, b) = Along(Yields, a)
    <3>1. After(b, a, d)
      BY <1>3, <1>5, <1>7, Closing
    <3> QED
      BY <3>1 DEF After
  <2>2. Len(b) = n + 2 /\ b[n + 2] = d
    BY <1>7, <2>1
  <2>3. \A k \in 1 .. n + 1 : b[k] = a[k]
    BY <1>7, <2>1
  <2> QED
    BY <1>7, <2>1, <2>2, <2>3
<1>9. b = o \o <<e, d>>
  BY <1>3, <1>4, <1>5
<1>10. t = [first_pending |-> s.first_pending, done_sent |-> TRUE, out |-> b]
  <2>1. t = [s EXCEPT !.done_sent = TRUE, !.out = b]
    BY <1>1, <1>2, <1>3, <1>9 DEF Server!frame_error
  <2>2. PICK x, y : s = [first_pending |-> x, done_sent |-> y, out |-> o] /\ x = s.first_pending
    BY <1>2 DEF Serving
  <2>3. t = [first_pending |-> x, done_sent |-> TRUE, out |-> b]
    BY <2>1, <2>2
  <2> QED
    BY <2>2, <2>3
<1>11. Plain(o, n)
  BY <1>2, <1>6 DEF Serving, Shape
<1>12. Shape(b, "failed", TRUE)
  <2>1. Plain(b, Len(b) - 2)
    BY <1>6, <1>8, <1>11 DEF Plain
  <2>2. Len(b) >= 2 /\ b[Len(b) - 1].ev = "error" /\ b[Len(b)].ev = "done"
    BY <1>3, <1>8
  <2> QED
    BY <2>1, <2>2 DEF Shape
<1>13. Serving(t, h, "failed")
  <2>1. t.out = b /\ t.done_sent = TRUE /\ t.first_pending = s.first_pending
    BY <1>10
  <2>2. b # <<>>
    BY <1>8
  <2>3. Along(Yields, b) = Along(Relays, h)
    BY <1>2, <1>8 DEF Serving
  <2> QED
    BY <1>8, <1>10, <1>12, <2>1, <2>2, <2>3 DEF Serving
<1>14. t.out = b /\ <<e, d>> \in Seq(FrameSet) /\ n + 1 \in DOMAIN b
  BY <1>8, <1>10
<1> QED
  BY <1>1, <1>2, <1>3, <1>8, <1>9, <1>13, <1>14

LEMMA ServingEnd ==
  ASSUME NEW s, NEW h, NEW p \in {"open", "failed"}, Serving(s, h, p)
  PROVE  LET t == Server!finish(s)
         IN  /\ Serving(t, h, "closed")
             /\ \E e \in Seq(FrameSet) : t.out = s.out \o e
             /\ p = "failed" => t = s
             /\ p = "open" => /\ t.out # <<>> /\ ~t.done_sent
                              /\ \A k \in 1 .. Len(t.out) : t.out[k].ev # "error"
<1>1. PICK t : t = Server!finish(s)
  OBVIOUS
<1>2. PICK o \in Seq(FrameSet) : o = s.out
  BY DEF Serving
<1>3. PICK d \in FrameSet : d = Server!DoneFrame /\ d.ev = "done" /\ Yield(d) = <<>>
  BY FrameTypes
<1>4. CASE p = "failed"
  <2>1. s.done_sent
    BY <1>4 DEF Serving, Shape
  <2>2. t = s
    BY <1>1, <2>1 DEF Server!finish
  <2>3. Shape(s.out, "closed", s.done_sent)
    BY <1>4, <2>1 DEF Serving, Shape
  <2>4. s.out = s.out \o <<>> /\ <<>> \in Seq(FrameSet)
    BY <1>2, EmptySeq, ConcatEmptySeq
  <2>5. Serving(s, h, "closed")
    BY <2>3 DEF Serving
  <2> QED
    BY <1>1, <1>4, <2>2, <2>4, <2>5
<1>5. CASE p = "open"
  <2>1. PICK b : b = Append(o, d)
    OBVIOUS
  <2>2. PICK n \in Nat : n = Len(o)
    OBVIOUS
  <2>3. /\ b \in Seq(FrameSet) /\ Len(b) = n + 1 /\ b[n + 1] = d
        /\ \A k \in 1 .. n : b[k] = o[k]
        /\ Along(Yields, b) = Along(Yields, o)
    <3>1. After(b, o, d)
      BY <1>3, <2>1, Closing
    <3> QED
      BY <2>2, <3>1 DEF After
  <2>4. ~s.done_sent /\ Plain(o, n)
    BY <1>2, <1>5, <2>2 DEF Serving, Shape
  <2>5. t = [first_pending |-> s.first_pending, done_sent |-> FALSE, out |-> b]
    <3>1. t = [s EXCEPT !.out = b]
      BY <1>1, <1>2, <1>3, <2>1, <2>4 DEF Server!finish
    <3>2. PICK x, y : s = [first_pending |-> x, done_sent |-> y, out |-> o] /\ x = s.first_pending
                      /\ y = s.done_sent /\ y \in BOOLEAN
      BY <1>2 DEF Serving
    <3>3. t = [first_pending |-> x, done_sent |-> y, out |-> b]
      BY <3>1, <3>2
    <3>4. y = FALSE
      BY <2>4, <3>2
    <3> QED
      BY <3>2, <3>3, <3>4
  <2>6. Shape(b, "closed", FALSE)
    <3>1. Plain(b, Len(b) - 1)
      BY <2>3, <2>4 DEF Plain
    <3>2. Len(b) >= 1 /\ b[Len(b)].ev = "done"
      BY <1>3, <2>3
    <3> QED
      BY <3>1, <3>2 DEF Shape
  <2>7. t.out = b /\ t.done_sent = FALSE /\ t.first_pending = s.first_pending
    BY <2>5
  <2>8. b # <<>> /\ b = o \o <<d>> /\ <<d>> \in Seq(FrameSet)
    BY <2>1, <2>3
  <2>9. Serving(t, h, "closed")
    <3>1. Along(Yields, b) = Along(Relays, h)
      BY <1>2, <2>3 DEF Serving
    <3> QED
      BY <2>3, <2>5, <2>6, <2>7, <2>8, <3>1 DEF Serving
  <2>10. \A k \in 1 .. n + 1 : b[k].ev # "error"
    <3>1. \A k \in 1 .. n : b[k].ev = "chunk"
      BY <2>3, <2>4 DEF Plain
    <3> QED
      BY <1>3, <2>3, <3>1
  <2> QED
    BY <1>1, <1>2, <1>5, <2>3, <2>7, <2>8, <2>9, <2>10
<1> QED
  BY <1>4, <1>5

-----------------------------------------------------------------------------
(* The reading end *)
ReadState(s) == "done_seen" \in DOMAIN s /\ s.done_seen \in BOOLEAN

Kinds == {"chunk"} \cup Errors

ItemSet == [kind : Kinds, chunk : CanonChunk]

LEMMA SameRead ==
  /\ Client!EmptyChunk = EmptyChunk /\ Client!NoUsage = NoUsage /\ Client!Errors = Errors
  /\ Client!Chat!EmptyChunk = EmptyChunk /\ Client!Chat!NoUsage = NoUsage
  /\ Client!Chat!Errors = Errors
  /\ \A c : Client!Chat!HasPayload(c) <=> HasPayload(c)
BY DEF Client!EmptyChunk, EmptyChunk, Client!NoUsage, NoUsage, Client!Errors, Errors,
       Client!Chat!EmptyChunk, Client!Chat!NoUsage, Client!Chat!Errors,
       Client!Chat!HasPayload, HasPayload,
       Client!NoTokens, Client!Chat!NoTokens, NoTokens

(* What a push makes of one frame *)
Pushed(s, f, r) ==
  \/ f.ev = "chunk" /\ r.kind = "chunk" /\ r.de = s /\ Yield(f) = <<r.chunk>>
     /\ r.chunk \in CanonChunk
  \/ f.ev = "chunk" /\ r.kind = "nothing" /\ r.de = s /\ Yield(f) = <<>>
  \/ f.ev = "done" /\ r.kind = "nothing" /\ Yield(f) = <<>>
     /\ ReadState(r.de) /\ r.de.done_seen
  \/ f.ev = "error" /\ r.kind = "upstream" /\ Yield(f) = <<>>

LEMMA PushData ==
  ASSUME NEW s, ReadState(s), ~s.done_seen, NEW f \in FrameSet
  PROVE  Pushed(s, f, Client!Chat!push_data(s, f))
<1>1. PICK r : r = Client!Chat!push_data(s, f)
  OBVIOUS
<1>2. f.ev \in {"chunk", "done", "error"} /\ f.delta \in CanonChunk /\ f.usage \in UsageObjects
  BY DEF FrameSet
<1>3. CASE f.ev = "done"
  <2>1. r.kind = "nothing" /\ r.de = [s EXCEPT !.done_seen = TRUE]
    BY <1>1, <1>3 DEF Client!Chat!push_data, Client!Chat!push_done, Client!Chat!Nothing,
                      Client!Chat!Out
  <2>2. ReadState(r.de) /\ r.de.done_seen
    BY <2>1 DEF ReadState
  <2>3. Yield(f) = <<>>
    BY <1>3 DEF Yield
  <2> QED
    BY <1>1, <1>3, <2>1, <2>2, <2>3 DEF Pushed
<1>4. CASE f.ev = "error"
  <2>1. r.kind = "upstream"
    BY <1>1, <1>4 DEF Client!Chat!push_data, Client!Chat!Upstream, Client!Chat!Out
  <2>2. Yield(f) = <<>>
    BY <1>4 DEF Yield
  <2> QED
    BY <1>1, <1>4, <2>1, <2>2 DEF Pushed
<1>5. CASE f.ev = "chunk"
  <2>1. r = Client!Chat!chunk_from(s, f)
    BY <1>1, <1>5 DEF Client!Chat!push_data
  <2>2. PICK u \in Usages : u = Read(f.usage)
    BY <1>2, ReadType
  <2>3. u = IF f.usage.given THEN Client!Chat!usage_from(f.usage) ELSE Client!Chat!NoUsage
    BY <2>2, SameRead DEF Read, Client!Chat!usage_from
  <2>4. PICK c \in CanonChunk : c = [f.delta EXCEPT !.usage = u]
    BY <1>2, WithUsage
  <2>5. PICK e \in CanonChunk : e = [EmptyChunk EXCEPT !.usage = u]
    BY EmptyIsChunk, WithUsage
  <2>6. CASE ~f.choices
    <3>1. r = Client!Chat!SurfaceIf(f.usage.given, s, e)
      BY <2>1, <2>3, <2>5, <2>6, SameRead DEF Client!Chat!chunk_from
    <3>2. Yield(f) = IF f.usage.given THEN <<e>> ELSE <<>>
      BY <1>5, <2>2, <2>5, <2>6 DEF Yield
    <3> QED
      BY <1>1, <1>5, <3>1, <3>2
         DEF Client!Chat!SurfaceIf, Client!Chat!Surface, Client!Chat!Nothing, Client!Chat!Out,
             Pushed
  <2>7. CASE f.choices
    <3>1. r = Client!Chat!SurfaceIf(~f.role /\ HasPayload(c), s, c)
      BY <2>1, <2>3, <2>4, <2>7, SameRead DEF Client!Chat!chunk_from
    <3>2. Yield(f) = IF ~f.role /\ HasPayload(c) THEN <<c>> ELSE <<>>
      BY <1>5, <2>2, <2>4, <2>7 DEF Yield
    <3> QED
      BY <1>1, <1>5, <3>1, <3>2
         DEF Client!Chat!SurfaceIf, Client!Chat!Surface, Client!Chat!Nothing, Client!Chat!Out,
             Pushed
  <2> QED
    BY <2>6, <2>7
<1> QED
  BY <1>2, <1>3, <1>4, <1>5

(* The caller has the chunks y, or those and an error after them *)
Handed(i, y) ==
  /\ Len(i) = Len(y)
  /\ \A k \in 1 .. Len(y) : i[k].kind = "chunk" /\ i[k].chunk = y[k]

Short(i, y) ==
  /\ Len(i) = Len(y) + 1 /\ i[Len(i)].kind \in Errors
  /\ \A k \in 1 .. Len(y) : i[k].kind = "chunk" /\ i[k].chunk = y[k]

Reading(s, b, i) ==
  /\ ReadState(s) /\ ~s.done_seen
  /\ Plain(b, Len(b))
  /\ Handed(i, Along(Yields, b))

(* [DONE] ended the stream, or it broke off, with the upstream's error or   *)
(* without                                                                 *)
Stopped(b, i) ==
  \/ /\ Handed(i, Along(Yields, b))
     /\ Len(b) >= 1 /\ Plain(b, Len(b) - 1) /\ b[Len(b)].ev = "done"
  \/ /\ Short(i, Along(Yields, b))
     /\ Plain(b, Len(b))
  \/ /\ Short(i, Along(Yields, b)) /\ i[Len(i)].kind = "upstream"
     /\ Len(b) >= 1 /\ Plain(b, Len(b) - 1) /\ b[Len(b)].ev = "error"

Receiving(d, s, b, i, ph, o) ==
  /\ d = "OpenAiChat"
  /\ b \in Seq(FrameSet) /\ Leads(b, o)
  /\ i \in Seq(ItemSet)
  /\ \/ ph \in {"sending", "streaming"} /\ Reading(s, b, i)
     \/ ph = "ended" /\ Stopped(b, i)

RelayInv ==
  Serving(st, heard, pump) /\ Receiving(dialect, state, body, items, phase, st.out)

LEMMA OneItem ==
  ASSUME NEW i \in Seq(ItemSet), NEW x \in ItemSet, NEW y \in Seq(CanonChunk), Handed(i, y)
  PROVE  /\ Append(i, x) \in Seq(ItemSet)
         /\ x.kind = "chunk" => Handed(Append(i, x), y \o <<x.chunk>>)
         /\ x.kind \in Errors => Short(Append(i, x), y)
         /\ Append(i, x)[Len(Append(i, x))] = x
<1>1. PICK n \in Nat : n = Len(y) /\ n = Len(i)
  BY DEF Handed
<1>2. PICK j \in Seq(ItemSet) : j = Append(i, x)
  BY AppendProperties
<1>3. Len(j) = n + 1 /\ j[n + 1] = x /\ \A k \in 1 .. n : j[k] = i[k]
  BY <1>1, <1>2
<1>4. \A k \in 1 .. n : j[k].kind = "chunk" /\ j[k].chunk = y[k]
  BY <1>1, <1>3 DEF Handed
<1>5. ASSUME x.kind = "chunk" PROVE Handed(j, y \o <<x.chunk>>)
  <2>1. PICK c \in CanonChunk : c = x.chunk
    BY DEF ItemSet
  <2>2. PICK z : z = y \o <<c>>
    OBVIOUS
  <2>3. Len(z) = n + 1 /\ z[n + 1] = c /\ \A k \in 1 .. n : z[k] = y[k]
    <3>1. PICK w \in Seq(CanonChunk) : w = <<c>>
      BY OneChunk
    <3>2. Len(w) = 1 /\ w[1] = c /\ z = y \o w
      BY <2>2, <3>1
    <3>3. /\ Len(z) = Len(y) + Len(w)
          /\ \A k \in 1 .. Len(y) + Len(w) :
               z[k] = IF k <= Len(y) THEN y[k] ELSE w[k - Len(y)]
      BY <3>2, ConcatProperties
    <3>4. Len(z) = n + 1 /\ \A k \in 1 .. n + 1 : z[k] = IF k <= n THEN y[k] ELSE w[k - n]
      BY <1>1, <3>2, <3>3
    <3> QED
      BY <3>2, <3>4
  <2>4. \A k \in 1 .. n + 1 : j[k].kind = "chunk" /\ j[k].chunk = z[k]
    BY <1>3, <1>4, <1>5, <2>1, <2>3
  <2> QED
    BY <1>3, <2>1, <2>2, <2>3, <2>4 DEF Handed
<1>6. ASSUME x.kind \in Errors PROVE Short(j, y)
  BY <1>1, <1>3, <1>4, <1>6 DEF Short
<1> QED
  BY <1>2, <1>3, <1>5, <1>6

LEMMA ErrItem ==
  ASSUME NEW kind \in Errors
  PROVE  Client!Err(kind) \in ItemSet /\ Client!Err(kind).kind = kind
BY SameRead, EmptyIsChunk DEF Client!Err, ItemSet, Kinds

LEMMA LeadsMore ==
  ASSUME NEW b \in Seq(FrameSet), NEW o \in Seq(FrameSet), Leads(b, o)
  PROVE  /\ \A e \in Seq(FrameSet) : Leads(b, o \o e)
         /\ Len(b) < Len(o) => /\ o[Len(b) + 1] \in FrameSet
                               /\ Leads(Append(b, o[Len(b) + 1]), o)
<1>1. PICK n \in Nat : n = Len(b)
  OBVIOUS
<1>2. PICK m \in Nat : m = Len(o) /\ n <= m
  BY <1>1 DEF Leads
<1>3. ASSUME NEW e \in Seq(FrameSet) PROVE Leads(b, o \o e)
  <2>1. PICK p : p = o \o e
    OBVIOUS
  <2>2. PICK l \in Nat : l = Len(e)
    OBVIOUS
  <2>3. Len(p) = m + l /\ \A k \in 1 .. m : p[k] = o[k]
    BY <1>2, <2>1, <2>2
  <2> QED
    BY <1>1, <1>2, <2>1, <2>3 DEF Leads
<1>4. ASSUME n < m
      PROVE  o[n + 1] \in FrameSet /\ Leads(Append(b, o[n + 1]), o)
  <2>1. PICK f \in FrameSet : f = o[n + 1]
    BY <1>2, <1>4
  <2>2. PICK p : p = Append(b, f)
    OBVIOUS
  <2>3. Len(p) = n + 1 /\ p[n + 1] = f /\ \A k \in 1 .. n : p[k] = b[k]
    BY <1>1, <2>2
  <2>4. \A k \in 1 .. n : b[k] = o[k]
    BY <1>1 DEF Leads
  <2>5. \A k \in 1 .. n + 1 : p[k] = o[k]
    BY <2>1, <2>3, <2>4
  <2> QED
    BY <1>2, <1>4, <2>1, <2>2, <2>3, <2>5 DEF Leads
<1> QED
  BY <1>1, <1>2, <1>3, <1>4

-----------------------------------------------------------------------------
(* The invariant *)
LEMMA RelayStart == Init => RelayInv
<1> SUFFICES ASSUME Init PROVE RelayInv
  OBVIOUS
<1>1. Serving(st, heard, pump)
  BY ServingStart DEF Init
<1>2. /\ dialect = "OpenAiChat" /\ state = Client!NewState(dialect)
      /\ body = <<>> /\ items = <<>> /\ phase = "sending"
  BY DEF Init, Client!Init
<1>3. state = [done_seen |-> FALSE, error_after_done |-> FALSE]
  BY <1>2 DEF Client!NewState, Client!Chat!New
<1>4. ReadState(state) /\ ~state.done_seen
  BY <1>3 DEF ReadState
<1>5. Along(Yields, body) = <<>>
  BY <1>2, NoRelay
<1>6. Plain(body, Len(body)) /\ Handed(items, Along(Yields, body))
  BY <1>2, <1>5 DEF Plain, Handed
<1>7. Leads(body, st.out)
  <2>1. st.out \in Seq(FrameSet)
    BY <1>1 DEF Serving
  <2> QED
    BY <1>2, <2>1 DEF Leads
<1>8. body \in Seq(FrameSet) /\ items \in Seq(ItemSet)
  BY <1>2, EmptySeq
<1> QED
  BY <1>1, <1>2, <1>4, <1>6, <1>7, <1>8 DEF RelayInv, Receiving, Reading

(* What the serving end writes comes after what was read *)
LEMMA ServeStep == RelayInv /\ Serve => RelayInv'
<1> SUFFICES ASSUME RelayInv, Serve PROVE RelayInv'
  OBVIOUS
<1>1. Serving(st, heard, pump) /\ Receiving(dialect, state, body, items, phase, st.out)
  BY DEF RelayInv
<1>2. Server!Next
  BY DEF Serve
<1>3. st.out \in Seq(FrameSet)
  BY <1>1 DEF Serving
<1>4. /\ Serving(st', heard', pump')
      /\ \E e \in Seq(FrameSet) : st'.out = st.out \o e
  <2>1. ASSUME NEW c \in Chunks, Server!Chunk(c)
        PROVE  Serving(st', heard', pump') /\ \E e \in Seq(FrameSet) : st'.out = st.out \o e
    <3>1. /\ pump = "open" /\ pump' = "open"
          /\ st' = Server!frame_chunk(st, c) /\ heard' = Append(heard, c)
      BY <2>1 DEF Server!Chunk
    <3>2. Serving(st', heard', "open") /\ Longer(st'.out, st.out, Relayed(c))
      BY <1>1, <3>1, ServingChunk
    <3> QED
      BY <3>1, <3>2 DEF Longer
  <2>2. CASE Server!Fail
    <3>1. pump = "open" /\ pump' = "failed" /\ st' = Server!frame_error(st) /\ heard' = heard
      BY <2>2 DEF Server!Fail
    <3> QED
      BY <1>1, <3>1, ServingFail
  <2>3. CASE Server!End
    <3>1. pump # "closed" /\ pump' = "closed" /\ st' = Server!finish(st) /\ heard' = heard
      BY <2>3 DEF Server!End
    <3>2. pump \in {"open", "failed"}
      BY <1>1, <3>1 DEF Serving, Shape
    <3> QED
      BY <1>1, <3>1, <3>2, ServingEnd
  <2> QED
    BY <1>2, <2>1, <2>2, <2>3 DEF Server!Next
<1>5. /\ dialect' = dialect /\ state' = state /\ body' = body /\ items' = items
      /\ phase' = phase
  BY DEF Serve, client
<1>6. Leads(body, st'.out)
  <2>1. body \in Seq(FrameSet) /\ Leads(body, st.out)
    BY <1>1 DEF Receiving
  <2> QED
    BY <1>3, <1>4, <2>1, LeadsMore
<1>7. Receiving(dialect', state', body', items', phase', st'.out)
  BY <1>1, <1>5, <1>6 DEF Receiving
<1> QED
  BY <1>4, <1>7 DEF RelayInv

LEMMA ConnectStep == RelayInv /\ Connect => RelayInv'
<1> SUFFICES ASSUME RelayInv, Connect PROVE RelayInv'
  OBVIOUS
<1>1. /\ phase = "sending" /\ phase' = "streaming"
      /\ dialect' = dialect /\ state' = state /\ body' = body /\ items' = items
      /\ st' = st /\ heard' = heard /\ pump' = pump
  BY DEF Connect, Client!Answered, server
<1> QED
  BY <1>1 DEF RelayInv, Receiving

LEMMA DeliverStep == RelayInv /\ Deliver => RelayInv'
<1> SUFFICES ASSUME RelayInv, Deliver PROVE RelayInv'
  OBVIOUS
<1>1. Serving(st, heard, pump) /\ Receiving(dialect, state, body, items, phase, st.out)
  BY DEF RelayInv
<1>2. st' = st /\ heard' = heard /\ pump' = pump
  BY DEF Deliver, server
<1>3. PICK f : f = st.out[Len(body) + 1]
  OBVIOUS
<1>4. PICK r : r = Client!push(f)
  OBVIOUS
<1>5. /\ phase = "streaming" /\ dialect' = dialect
      /\ body' = Append(body, f) /\ state' = r.de
      /\ items' = CASE r.kind = "chunk"          -> Append(items, Client!Ok(r.chunk))
                    [] r.kind = "nothing"        -> items
                    [] r.kind \in Client!Errors  -> Append(items, Client!Err(r.kind))
      /\ phase' = IF \/ r.kind \in Client!Errors
                     \/ r.kind = "nothing" /\ Client!finalize(r.de)
                  THEN "ended" ELSE phase
  BY <1>3, <1>4 DEF Deliver, Client!Event
<1>6. /\ dialect = "OpenAiChat" /\ body \in Seq(FrameSet) /\ Leads(body, st.out)
      /\ items \in Seq(ItemSet) /\ Reading(state, body, items)
  BY <1>1, <1>5 DEF Receiving
<1>7. f \in FrameSet /\ Leads(body', st.out)
  <2>1. st.out \in Seq(FrameSet) /\ Len(body) < Len(st.out)
    BY <1>1 DEF Serving, Deliver
  <2> QED
    BY <1>3, <1>5, <1>6, <2>1, LeadsMore
<1>8. Pushed(state, f, r)
  <2>1. r = Client!Chat!push_data(state, f)
    BY <1>4, <1>6 DEF Client!push
  <2> QED
    BY <1>6, <1>7, <2>1, PushData DEF Reading
<1>9. PICK y \in Seq(CanonChunk) : y = Along(Yields, body)
  BY <1>6, YieldsType, AlongType
<1>10. body' \in Seq(FrameSet) /\ Along(Yields, body') = y \o Yield(f)
  BY <1>5, <1>6, <1>7, <1>9, BodyMore
<1>11. Handed(items, y) /\ Plain(body, Len(body))
  BY <1>6, <1>9 DEF Reading
<1>12. /\ Len(body') >= 1 /\ Plain(body', Len(body') - 1) /\ body'[Len(body')] = f
  <2>1. PICK n \in Nat : n = Len(body)
    BY <1>6
  <2>2. Len(body') = n + 1 /\ body'[n + 1] = f /\ \A k \in 1 .. n : body'[k] = body[k]
    BY <1>5, <1>6, <1>7, <2>1
  <2>3. Plain(body', n)
    BY <1>11, <2>1, <2>2 DEF Plain
  <2> QED
    BY <2>2, <2>3
<1>13. f.ev = "chunk" => Plain(body', Len(body'))
  BY <1>5, <1>6, <1>7, <1>11, Speaks
<1>14. dialect' = "OpenAiChat"
  BY <1>5, <1>6
<1>15. CASE f.ev = "chunk" /\ r.kind = "chunk" /\ r.de = state /\ Yield(f) = <<r.chunk>>
            /\ r.chunk \in CanonChunk
  <2>1. items' = Append(items, Client!Ok(r.chunk))
    BY <1>5, <1>15, SameRead DEF Errors
  <2>2. PICK x \in ItemSet : x = Client!Ok(r.chunk) /\ x.kind = "chunk" /\ x.chunk = r.chunk
    <3>1. PICK x : x = [kind |-> "chunk", chunk |-> r.chunk]
      OBVIOUS
    <3>2. x \in ItemSet /\ x.kind = "chunk" /\ x.chunk = r.chunk
      BY <1>15, <3>1 DEF ItemSet, Kinds
    <3> QED
      BY <3>1, <3>2 DEF Client!Ok
  <2>3. items' \in Seq(ItemSet) /\ Handed(items', y \o <<r.chunk>>)
    BY <1>6, <1>11, <2>1, <2>2, OneItem
  <2>4. phase' = "streaming" /\ state' = state
    BY <1>5, <1>15, SameRead DEF Errors
  <2>5. Reading(state', body', items')
    BY <1>6, <1>10, <1>13, <1>15, <2>3, <2>4 DEF Reading
  <2> QED
    BY <1>1, <1>2, <1>7, <1>10, <1>14, <2>3, <2>4, <2>5 DEF RelayInv, Receiving
<1>16. CASE f.ev = "chunk" /\ r.kind = "nothing" /\ r.de = state /\ Yield(f) = <<>>
  <2>1. items' = items /\ state' = state
    BY <1>5, <1>16, SameRead DEF Errors
  <2>2. ~Client!finalize(state)
    BY <1>6 DEF Client!finalize, Client!Chat!finalize, Reading
  <2>3. phase' = "streaming"
    BY <1>5, <1>16, <2>2, SameRead DEF Errors
  <2>4. Along(Yields, body') = y
    BY <1>10, <1>16, ConcatEmptySeq
  <2>5. Reading(state', body', items')
    BY <1>6, <1>11, <1>13, <1>16, <2>1, <2>4 DEF Reading
  <2> QED
    BY <1>1, <1>2, <1>6, <1>7, <1>10, <1>14, <2>1, <2>3, <2>5 DEF RelayInv, Receiving
<1>17. CASE f.ev = "done" /\ r.kind = "nothing" /\ Yield(f) = <<>>
            /\ ReadState(r.de) /\ r.de.done_seen
  <2>1. items' = items
    BY <1>5, <1>17, SameRead DEF Errors
  <2>2. Client!finalize(r.de)
    BY <1>6, <1>17 DEF Client!finalize, Client!Chat!finalize
  <2>3. phase' = "ended"
    BY <1>5, <1>17, <2>2
  <2>4. Along(Yields, body') = y
    BY <1>10, <1>17, ConcatEmptySeq
  <2>5. Stopped(body', items')
    BY <1>11, <1>12, <1>17, <2>1, <2>4 DEF Stopped
  <2> QED
    BY <1>1, <1>2, <1>6, <1>7, <1>10, <1>14, <2>1, <2>3, <2>5 DEF RelayInv, Receiving
<1>18. CASE f.ev = "error" /\ r.kind = "upstream" /\ Yield(f) = <<>>
  <2>1. items' = Append(items, Client!Err("upstream")) /\ phase' = "ended"
    BY <1>5, <1>18, SameRead DEF Errors
  <2>2. PICK x \in ItemSet : x = Client!Err("upstream") /\ x.kind = "upstream"
    BY ErrItem DEF Errors
  <2>3. /\ items' \in Seq(ItemSet) /\ Short(items', y) /\ items'[Len(items')].kind = "upstream"
    <3>1. x.kind \in Errors
      BY <2>2 DEF Errors
    <3> QED
      BY <1>6, <1>11, <2>1, <2>2, <3>1, OneItem
  <2>4. Along(Yields, body') = y
    BY <1>10, <1>18, ConcatEmptySeq
  <2>5. Stopped(body', items')
    BY <1>12, <1>18, <2>3, <2>4 DEF Stopped
  <2> QED
    BY <1>1, <1>2, <1>7, <1>10, <1>14, <2>1, <2>3, <2>5 DEF RelayInv, Receiving
<1> QED
  BY <1>8, <1>15, <1>16, <1>17, <1>18 DEF Pushed

LEMMA CutStep == RelayInv /\ Cut => RelayInv'
<1> SUFFICES ASSUME RelayInv, Cut PROVE RelayInv'
  OBVIOUS
<1>1. Serving(st, heard, pump) /\ Receiving(dialect, state, body, items, phase, st.out)
  BY DEF RelayInv
<1>2. /\ st' = st /\ heard' = heard /\ pump' = pump
      /\ dialect' = dialect /\ state' = state /\ body' = body
      /\ phase = "streaming" /\ phase' = "ended"
  BY DEF Cut, Client!Broken, Client!Eof, server
<1>3. /\ dialect = "OpenAiChat" /\ body \in Seq(FrameSet) /\ Leads(body, st.out)
      /\ items \in Seq(ItemSet) /\ Reading(state, body, items)
  BY <1>1, <1>2 DEF Receiving
<1>4. ~Client!finalize(state)
  BY <1>3 DEF Client!finalize, Client!Chat!finalize, Reading
<1>5. items' = Append(items, Client!Err("transport"))
  BY <1>4 DEF Cut, Client!Broken, Client!Eof
<1>6. PICK x \in ItemSet : x = Client!Err("transport") /\ x.kind \in Errors
  BY ErrItem DEF Errors
<1>7. PICK y \in Seq(CanonChunk) : y = Along(Yields, body)
  BY <1>3, YieldsType, AlongType
<1>8. items' \in Seq(ItemSet) /\ Short(items', y)
  BY <1>3, <1>5, <1>6, <1>7, OneItem DEF Reading
<1>9. Stopped(body', items')
  BY <1>2, <1>3, <1>7, <1>8 DEF Stopped, Reading
<1> QED
  BY <1>1, <1>2, <1>3, <1>8, <1>9 DEF RelayInv, Receiving

LEMMA RelayStep == RelayInv /\ [Next]_<<server, client>> => RelayInv'
<1>1. ASSUME RelayInv, UNCHANGED <<server, client>> PROVE RelayInv'
  <2>1. /\ st' = st /\ heard' = heard /\ pump' = pump
        /\ dialect' = dialect /\ state' = state /\ body' = body /\ items' = items
        /\ phase' = phase
    BY <1>1 DEF server, client
  <2> QED
    BY <1>1, <2>1 DEF RelayInv
<1> QED
  BY <1>1, ServeStep, ConnectStep, DeliverStep, CutStep DEF Next

(* What holds of both ends and of the connection between them *)
THEOREM RelayInvariance == Spec => []RelayInv
  BY RelayStart, RelayStep, PTL DEF Spec

-----------------------------------------------------------------------------
(* What follows for the caller *)
LEMMA ConcatPrefix ==
  ASSUME NEW X, NEW x \in Seq(X), NEW z \in Seq(X)
  PROVE  IsPrefix(x, x \o z)
<1>1. PICK c \in Seq(X) : c = x \o z
  BY ConcatProperties
<1>2. PICK n \in Nat : n = Len(x)
  OBVIOUS
<1>3. PICK m \in Nat : m = Len(z)
  OBVIOUS
<1>4. Len(c) = n + m /\ \A k \in 1 .. n : c[k] = x[k]
  BY <1>1, <1>2, <1>3, ConcatProperties
<1>5. PICK u : u = [k \in 1 .. n |-> x[k]]
  OBVIOUS
<1>6. SubSeq(x, 1, n) = u
  BY <1>2, <1>5 DEF SubSeq
<1>7. SubSeq(c, 1, n) = u
  BY <1>2, <1>4, <1>5 DEF SubSeq
<1> QED
  BY <1>1, <1>2, <1>3, <1>4, <1>6, <1>7 DEF IsPrefix

LEMMA OwedAlong ==
  ASSUME heard \in Seq(Chunks)
  PROVE  Owed = Along(Relays, heard)
<1>1. \A k \in DOMAIN heard : Relays[heard[k]] = Relayed(heard[k])
  BY DEF Relays
<1>2. [k \in DOMAIN heard |-> Relayed(heard[k])] = [k \in DOMAIN heard |-> Relays[heard[k]]]
  BY <1>1
<1> QED
  BY <1>2 DEF Owed, Along, Each

LEMMA ReceivedIs ==
  ASSUME items \in Seq(ItemSet), NEW y \in Seq(CanonChunk)
  PROVE  /\ Handed(items, y) => ~Failed /\ Received = y
         /\ Short(items, y) => Failed /\ Received = y /\ Last(items) = items[Len(items)]
<1>1. PICK n \in Nat : n = Len(y)
  OBVIOUS
<1>2. y = [k \in 1 .. n |-> y[k]]
  BY <1>1
<1>3. ASSUME Handed(items, y) PROVE ~Failed /\ Received = y
  <2>1. Len(items) = n /\ \A k \in 1 .. n : items[k].kind = "chunk" /\ items[k].chunk = y[k]
    BY <1>1, <1>3 DEF Handed
  <2>2. ~Failed
    <3>1. CASE n = 0
      BY <2>1, <3>1, EmptySeq DEF Failed
    <3>2. CASE n # 0
      BY <2>1, <3>2 DEF Failed, Last, Errors
    <3> QED
      BY <3>1, <3>2
  <2>3. Received = [k \in 1 .. n |-> items[k].chunk]
    BY <2>1, <2>2 DEF Received
  <2> QED
    BY <1>2, <2>1, <2>2, <2>3
<1>4. ASSUME Short(items, y)
      PROVE  Failed /\ Received = y /\ Last(items) = items[Len(items)]
  <2>1. /\ Len(items) = n + 1 /\ items[n + 1].kind \in Errors
        /\ \A k \in 1 .. n : items[k].kind = "chunk" /\ items[k].chunk = y[k]
    BY <1>1, <1>4 DEF Short
  <2>2. Failed /\ Last(items) = items[Len(items)]
    BY <2>1 DEF Failed, Last
  <2>3. Received = [k \in 1 .. n |-> items[k].chunk]
    BY <2>1, <2>2 DEF Received
  <2> QED
    BY <1>2, <2>1, <2>2, <2>3
<1> QED
  BY <1>3, <1>4

LEMMA ReadPrefix ==
  ASSUME NEW b \in Seq(FrameSet), NEW o \in Seq(FrameSet), Leads(b, o)
  PROVE  \E z \in Seq(CanonChunk) : Along(Yields, o) = Along(Yields, b) \o z
<1>1. ASSUME NEW G \in [FrameSet -> Seq(CanonChunk)]
      PROVE  Prolongs(Along(G, o), Along(G, b), CanonChunk)
  BY AlongPrefix
<1> QED
  BY <1>1, YieldsType DEF Prolongs

LEMMA Honest == RelayInv => RelayHonest
<1> SUFFICES ASSUME RelayInv PROVE RelayHonest
  OBVIOUS
<1>1. Serving(st, heard, pump) /\ Receiving(dialect, state, body, items, phase, st.out)
  BY DEF RelayInv
<1>2. PICK o \in Seq(FrameSet) : o = st.out
  BY <1>1 DEF Serving
<1>3. /\ body \in Seq(FrameSet) /\ Leads(body, o) /\ items \in Seq(ItemSet)
      /\ heard \in Seq(Chunks) /\ Along(Yields, o) = Along(Relays, heard)
      /\ Shape(o, pump, st.done_sent)
  BY <1>1, <1>2 DEF Receiving, Serving
<1>4. PICK y \in Seq(CanonChunk) : y = Along(Yields, body)
  BY <1>3, YieldsType, AlongType
<1>5. Owed = Along(Yields, o)
  BY <1>3, OwedAlong
<1>6. Handed(items, y) \/ Short(items, y)
  BY <1>1, <1>4 DEF Receiving, Reading, Stopped
<1>7. Received = y
  BY <1>3, <1>6, ReceivedIs
<1>8. IsPrefix(Received, Owed)
  <2>1. PICK z \in Seq(CanonChunk) : Along(Yields, o) = y \o z
    BY <1>3, <1>4, ReadPrefix
  <2>2. IsPrefix(y, y \o z)
    BY ConcatPrefix
  <2> QED
    BY <1>5, <1>7, <2>1, <2>2
<1>9. PICK n \in Nat : n = Len(body) /\ n <= Len(o) /\ \A k \in 1 .. n : body[k] = o[k]
  BY <1>3 DEF Leads
<1>10. PICK m \in Nat : m = Len(o) /\ n <= m
  BY <1>9
<1>11. ASSUME phase = "ended", ~Failed
       PROVE  Received = Owed /\ pump = "closed" /\ ~st.done_sent
  <2>1. n >= 1 /\ Plain(body, n - 1) /\ body[n].ev = "done"
    <3>1. ~Short(items, y)
      BY <1>3, <1>11, ReceivedIs
    <3>2. Stopped(body, items)
      BY <1>1, <1>11 DEF Receiving
    <3> QED
      BY <1>4, <1>9, <3>1, <3>2 DEF Stopped
  <2>2. o[n].ev = "done" /\ \A k \in 1 .. n - 1 : o[k].ev = "chunk"
    BY <1>9, <2>1 DEF Plain
  <2>3. ~Plain(o, m)
    BY <1>10, <2>1, <2>2 DEF Plain
  <2>4. ~(m >= 2 /\ Plain(o, m - 2) /\ o[m - 1].ev = "error" /\ o[m].ev = "done")
    <3>1. ASSUME m >= 2, Plain(o, m - 2), o[m - 1].ev = "error" PROVE FALSE
      <4>1. CASE n = m
        BY <2>2, <3>1, <4>1
      <4>2. CASE n = m - 1
        BY <2>2, <3>1, <4>2
      <4>3. CASE n <= m - 2
        BY <2>1, <2>2, <3>1, <4>3 DEF Plain
      <4> QED
        BY <1>10, <4>1, <4>2, <4>3
    <3> QED
      BY <3>1
  <2>5. pump = "closed" /\ ~st.done_sent /\ m >= 1 /\ Plain(o, m - 1)
    BY <1>3, <1>10, <2>3, <2>4 DEF Shape
  <2>6. n = m
    <3>1. CASE n <= m - 1
      BY <2>1, <2>2, <2>5, <3>1 DEF Plain
    <3> QED
      BY <1>10, <3>1
  <2>7. body = o
    BY <1>3, <1>9, <1>10, <2>6, SeqEqual
  <2> QED
    BY <1>4, <1>5, <1>7, <2>5, <2>7
<1>12. ASSUME NEW k \in DOMAIN body, body[k].ev = "error"
       PROVE  Last(items).kind = "upstream"
  <2>1. k \in 1 .. n
    BY <1>3, <1>9, <1>12
  <2>2. ~Plain(body, n)
    BY <1>12, <2>1 DEF Plain
  <2>3. Stopped(body, items)
    BY <1>1, <1>9, <2>2 DEF Receiving, Reading
  <2>4. CASE n >= 1 /\ Plain(body, n - 1) /\ body[n].ev = "done"
    <3>1. k = n \/ k \in 1 .. n - 1
      BY <2>1
    <3> QED
      BY <1>12, <2>4, <3>1 DEF Plain
  <2>5. CASE Short(items, y) /\ items[Len(items)].kind = "upstream"
    BY <1>3, <2>5, ReceivedIs
  <2> QED
    BY <1>4, <1>9, <2>2, <2>3, <2>4, <2>5 DEF Stopped
<1> QED
  BY <1>8, <1>11, <1>12 DEF RelayHonest

(* The reading end gets what the serving end was given, each part once and *)
(* in order, whole when its stream ends without an error, and knows an     *)
(* error of the upstream from a broken connection: for every set of chunks *)
(* and bound, wherever the connection is cut (frame_chunk, frame_error,    *)
(* finish; push_data, finalize).                                           *)
THEOREM RelayAlwaysHonest == Spec => []RelayHonest
  BY Honest, RelayInvariance, PTL

-----------------------------------------------------------------------------
(* The chat surface as an implementation of TurnStream *)
Holds(o, ev) == \E k \in 1 .. Len(o) : o[k].ev = ev

Told(o) ==
  CASE o = <<>> -> "nothing"
    [] Holds(o, "error") -> "failed"
    [] Holds(o, "done") /\ ~Holds(o, "error") -> "complete"
    [] OTHER -> "speaking"

BodyState(p) == IF p = "closed" THEN "closed" ELSE "open"

TurnStep(a, b, p, q) ==
  \/ b = a /\ q = p
  \/ p = "open" /\ q = p /\ a \in {"nothing", "speaking"}
     /\ b \in {"speaking", "complete", "failed"}
  \/ p = "open" /\ q = "closed" /\ a # "speaking" /\ b = a
  \/ p = "open" /\ q = "closed" /\ a \in {"nothing", "speaking"} /\ b = "complete"

LEMMA ToldShape ==
  ASSUME NEW o \in Seq(FrameSet), NEW p, NEW sent, Shape(o, p, sent)
  PROVE  /\ p = "open" => Told(o) = IF o = <<>> THEN "nothing" ELSE "speaking"
         /\ sent => Told(o) = "failed"
         /\ p = "closed" /\ ~sent => Told(o) = "complete"
<1>1. PICK n \in Nat : n = Len(o) /\ (o = <<>> <=> n = 0)
  BY EmptySeq
<1>2. CASE p = "open" /\ ~sent /\ Plain(o, n)
  <2>1. ~Holds(o, "error") /\ ~Holds(o, "done")
    BY <1>1, <1>2 DEF Plain, Holds
  <2> QED
    BY <1>2, <2>1 DEF Told
<1>3. CASE p \in {"failed", "closed"} /\ sent /\ n >= 2 /\ o[n - 1].ev = "error"
  <2>1. n - 1 \in 1 .. Len(o) /\ o # <<>>
    BY <1>1, <1>3
  <2>2. Holds(o, "error")
    BY <1>3, <2>1 DEF Holds
  <2>3. Told(o) = "failed"
    BY <2>1, <2>2 DEF Told
  <2> QED
    BY <1>3, <2>3
<1>4. CASE p = "closed" /\ ~sent /\ n >= 1 /\ Plain(o, n - 1) /\ o[n].ev = "done"
  <2>1. n \in 1 .. Len(o) /\ o # <<>>
    BY <1>1, <1>4
  <2>2. Holds(o, "done")
    BY <1>4, <2>1 DEF Holds
  <2>3. ASSUME NEW k \in 1 .. n PROVE o[k].ev # "error"
    <3>1. k \in 1 .. n - 1 \/ k = n
      BY <2>3
    <3> QED
      BY <1>4, <3>1 DEF Plain
  <2>4. ~Holds(o, "error")
    BY <1>1, <2>3 DEF Holds
  <2>5. Told(o) = "complete"
    BY <2>1, <2>2, <2>4 DEF Told
  <2> QED
    BY <1>4, <2>5
<1> QED
  BY <1>1, <1>2, <1>3, <1>4 DEF Shape

LEMMA RelayTurn ==
  ASSUME RelayInv, RelayInv', [Next]_<<server, client>>
  PROVE  TurnStep(Told(st.out), Told(st'.out), BodyState(pump), BodyState(pump'))
<1> DEFINE Goal == TurnStep(Told(st.out), Told(st'.out), BodyState(pump), BodyState(pump'))
<1>1. Serving(st, heard, pump) /\ Serving(st', heard', pump')
  BY DEF RelayInv
<1>2. /\ st.out \in Seq(FrameSet) /\ Shape(st.out, pump, st.done_sent)
      /\ st'.out \in Seq(FrameSet) /\ Shape(st'.out, pump', st'.done_sent)
  BY <1>1 DEF Serving
<1>3. CASE st' = st /\ pump' = pump
  BY <1>3 DEF TurnStep
<1>4. pump = "open" => Told(st.out) \in {"nothing", "speaking"}
  BY <1>2, ToldShape
<1>5. ASSUME Server!Next PROVE Goal
  <2>1. ASSUME NEW c \in Chunks, Server!Chunk(c) PROVE Goal
    <3>1. pump = "open" /\ pump' = "open" /\ st' = Server!frame_chunk(st, c)
      BY <2>1 DEF Server!Chunk
    <3>2. st'.out # <<>>
      BY <1>1, <3>1, ServingChunk
    <3>3. Told(st'.out) = "speaking"
      BY <1>2, <3>1, <3>2, ToldShape
    <3> QED
      BY <1>4, <3>1, <3>3 DEF TurnStep, BodyState
  <2>2. CASE Server!Fail
    <3>1. pump = "open" /\ pump' = "failed"
      BY <2>2 DEF Server!Fail
    <3>2. st'.done_sent
      BY <1>2, <3>1 DEF Shape
    <3>3. Told(st'.out) = "failed"
      BY <1>2, <3>2, ToldShape
    <3> QED
      BY <1>4, <3>1, <3>3 DEF TurnStep, BodyState
  <2>3. CASE Server!End
    <3>1. pump # "closed" /\ pump' = "closed" /\ st' = Server!finish(st)
      BY <2>3 DEF Server!End
    <3>2. CASE pump = "failed"
      <4>1. st' = st
        BY <1>1, <3>1, <3>2, ServingEnd
      <4>2. Told(st.out) = "failed"
        BY <1>2, <3>2, ToldShape DEF Shape
      <4> QED
        BY <3>1, <3>2, <4>1, <4>2 DEF TurnStep, BodyState
    <3>3. CASE pump = "open"
      <4>1. ~st'.done_sent
        BY <1>1, <3>1, <3>3, ServingEnd
      <4>2. Told(st'.out) = "complete"
        BY <1>2, <3>1, <4>1, ToldShape
      <4> QED
        BY <1>4, <3>1, <3>3, <4>2 DEF TurnStep, BodyState
    <3> QED
      BY <1>2, <3>1, <3>2, <3>3 DEF Shape
  <2> QED
    BY <1>5, <2>1, <2>2, <2>3 DEF Server!Next
<1> QED
  BY <1>3, <1>5 DEF Next, Serve, Connect, Deliver, Cut, server

LEMMA TurnMapping ==
  ASSUME st.out \in Seq(FrameSet), st'.out \in Seq(FrameSet),
         TurnStep(Told(st.out), Told(st'.out), BodyState(pump), BodyState(pump'))
  PROVE  [Turns!Next]_(Turns!turn)
<1>1. /\ Ended("error") <=> Holds(st.out, "error")
      /\ Ended("done") <=> Holds(st.out, "done")
      /\ Ended("error")' <=> Holds(st'.out, "error")
      /\ Ended("done")' <=> Holds(st'.out, "done")
  BY DEF Ended, Holds
<1> QED
  BY <1>1 DEF TurnStep, Told, BodyState, Turns!Next, Turns!turn, Turns!Speak, Turns!Complete, Turns!Fail,
       Turns!Close, Turns!Unfinished

(* The chat surface implements the safety part of TurnStream for every set  *)
(* of chunks, either setting of the usage payload and every bound, however  *)
(* the reading end and the connection behave: the client is told one end,   *)
(* [DONE] or an error, nothing changes it afterwards, and the body of a     *)
(* turn that spoke closes only once it has one (openai_stream_response,     *)
(* sse_response).                                                           *)
THEOREM TurnsImplemented == Spec => Turns!Safety
<1>1. Init => Turns!Init
  <2>1. Init => st.out = <<>> /\ pump = "open"
    BY DEF Init, Server!Init, Server!New
  <2>2. st.out = <<>> /\ pump = "open" => Turns!Init
    BY DEF Turns!Init, Ended
  <2> QED
    BY <2>1, <2>2
<1>2. RelayInv /\ RelayInv' /\ [Next]_<<server, client>> => [Turns!Next]_(Turns!turn)
  <2>1. RelayInv => st.out \in Seq(FrameSet)
    BY DEF RelayInv, Serving
  <2>2. RelayInv' => st'.out \in Seq(FrameSet)
    BY DEF RelayInv, Serving
  <2> QED
    BY <2>1, <2>2, RelayTurn, TurnMapping
<1> QED
  BY <1>1, <1>2, RelayInvariance, PTL DEF Spec, Turns!Safety
=============================================================================
