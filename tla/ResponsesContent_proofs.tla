----------------------- MODULE ResponsesContent_proofs -----------------------
(***************************************************************************)
(* Proofs about the Responses surface.  Sound(h) are the states whose body *)
(* says what the account h says and whose snapshots agree with the deltas  *)
(* before them; Framing(h) those of them whose items are still bracketed;  *)
(* each handler is shown to lead from one to the next.  RInv and FInv are  *)
(* the inductive invariants built on them; CInv adds that the calls of the *)
(* output are those of the history (Fit).                                  *)
(***************************************************************************)
EXTENDS ResponsesContent, StopWindowLemmas

-----------------------------------------------------------------------------
(* States and frames *)
Evs == DeltaEvents \cup CloseEvents \cup
       {"created", "output_item.added", "content_part.added",
        "reasoning_summary_part.added", "completed", "incomplete", "failed"}

FrameSet ==
  [ev : Evs, pos : Nat, text : Texts, type : Types \cup {"none"}, id : Nat,
   output : Seq(ItemSet), usage : Usages, status : {"none", "completed", "incomplete"},
   reason : {"none", "max_output_tokens", "content_filter"}, seq : Nat]

Maps == UNION {[D -> Nat] : D \in SUBSET Nat}

StateSet ==
  [first : BOOLEAN, out : Seq(ItemSet), current : Nat,
   tool_items : Maps, tool_ids : Maps, open_tools : Seq(Nat),
   usage : Usages, saw_finish : FinishReasons \cup {"none"},
   completed_sent : BOOLEAN, seq : Nat, wire : Seq(FrameSet)]

LEMMA StateFields ==
  ASSUME NEW s \in StateSet
  PROVE  /\ s.first \in BOOLEAN
         /\ s.out \in Seq(ItemSet) /\ Len(s.out) \in Nat /\ DOMAIN s.out = 1 .. Len(s.out)
         /\ s.current \in Nat
         /\ s.tool_items \in Maps
         /\ s.tool_ids \in Maps
         /\ s.open_tools \in Seq(Nat) /\ Len(s.open_tools) \in Nat
         /\ s.usage \in Usages
         /\ s.saw_finish \in FinishReasons \cup {"none"}
         /\ s.completed_sent \in BOOLEAN
         /\ s.seq \in Nat
         /\ s.wire \in Seq(FrameSet) /\ Len(s.wire) \in Nat /\ DOMAIN s.wire = 1 .. Len(s.wire)
  BY DEF StateSet

LEMMA FrameFields ==
  ASSUME NEW f \in FrameSet
  PROVE  /\ f.ev \in Evs
         /\ f.pos \in Nat
         /\ f.text \in Texts
         /\ f.output \in Seq(ItemSet)
         /\ f.usage \in Usages
  BY DEF FrameSet

LEMMA EmptyText == <<>> \in Texts
  BY EmptySeq DEF Texts

LEMMA NoUsageType == NoUsage \in Usages
  BY DEF NoUsage, Usages

LEMMA ItemType ==
  ASSUME NEW type \in Types, NEW id \in Nat
  PROVE  /\ Item(type, id) \in ItemSet
         /\ Item(type, id).type = type
         /\ Item(type, id).id = id
         /\ Item(type, id).text = <<>>
  BY EmptyText DEF Item, ItemSet

LEMMA FrameType ==
  ASSUME NEW ev \in Evs, NEW pos \in Nat, NEW text \in Texts
  PROVE  /\ Frame(ev, pos, text) \in FrameSet
         /\ Frame(ev, pos, text).ev = ev
         /\ Frame(ev, pos, text).pos = pos
         /\ Frame(ev, pos, text).text = text
         /\ Frame(ev, pos, text).output = <<>>
<1>1. <<>> \in Seq(ItemSet)
  BY EmptySeq
<1> QED
  BY <1>1, NoUsageType DEF Frame, FrameSet, NoId

LEMMA AddedType ==
  ASSUME NEW pos \in Nat, NEW item \in ItemSet
  PROVE  /\ Added(pos, item) \in FrameSet
         /\ Added(pos, item).ev = "output_item.added"
         /\ Added(pos, item).pos = pos
         /\ Added(pos, item).text = <<>>
         /\ Added(pos, item).output = <<>>
<1>1. "output_item.added" \in Evs
  BY DEF Evs
<1>2. PICK f \in FrameSet : /\ f = Frame("output_item.added", pos, <<>>)
                            /\ f.ev = "output_item.added" /\ f.pos = pos
                            /\ f.text = <<>> /\ f.output = <<>>
  BY <1>1, EmptyText, FrameType
<1>3. Added(pos, item) = [f EXCEPT !.type = item.type, !.id = item.id]
  BY <1>2 DEF Added
<1>4. item.type \in Types /\ item.id \in Nat
  BY DEF ItemSet
<1> QED
  BY <1>2, <1>3, <1>4 DEF FrameSet

LEMMA FunSeq ==
  ASSUME NEW S, NEW n \in Nat, NEW q \in [1 .. n -> S]
  PROVE  q \in Seq(S) /\ Len(q) = n /\ DOMAIN q = 1 .. n
<1>1. q \in Seq(S)
  OBVIOUS
<1> QED
  BY <1>1

LEMMA Appended ==
  ASSUME NEW S, NEW q \in Seq(S), NEW x \in S, NEW p, p = Append(q, x)
  PROVE  /\ p \in Seq(S)
         /\ Len(q) \in Nat
         /\ Len(p) = Len(q) + 1
         /\ p[Len(q) + 1] = x
         /\ \A k \in 1 .. Len(q) : p[k] = q[k]
  BY AppendProperties

(* A frame with its sequence number *)
Stamped(s, f) == [f EXCEPT !.seq = s.seq]

LEMMA StampedParts ==
  ASSUME NEW s \in StateSet, NEW f \in FrameSet
  PROVE  /\ Stamped(s, f) \in FrameSet
         /\ Stamped(s, f).ev = f.ev
         /\ Stamped(s, f).pos = f.pos
         /\ Stamped(s, f).text = f.text
         /\ Stamped(s, f).output = f.output
         /\ Stamped(s, f).usage = f.usage
         /\ Stamped(s, f).status = f.status
         /\ Stamped(s, f).reason = f.reason
<1>1. s.seq \in Nat
  BY StateFields
<1> QED
  BY <1>1 DEF Stamped, FrameSet

LEMMA PushIs ==
  ASSUME NEW s \in StateSet, NEW f \in FrameSet
  PROVE  /\ Push(s, f) = [s EXCEPT !.wire = Append(s.wire, Stamped(s, f)), !.seq = s.seq + 1]
         /\ Push(s, f) \in StateSet
<1>1. PICK g \in FrameSet : g = Stamped(s, f)
  BY StampedParts
<1>2. s.wire \in Seq(FrameSet) /\ s.seq \in Nat
  BY StateFields
<1>3. PICK q : q = [k \in DOMAIN <<f>> |-> [<<f>>[k] EXCEPT !.seq = s.seq + k - 1]]
  OBVIOUS
<1>4. q = <<g>>
  <2>1. DOMAIN <<f>> = 1 .. 1 /\ <<f>>[1] = f
    OBVIOUS
  <2>2. q \in [1 .. 1 -> FrameSet] /\ q[1] = g
    BY <1>1, <1>2, <1>3, <2>1 DEF Stamped
  <2>3. q \in Seq(FrameSet) /\ Len(q) = 1
    BY <2>2, FunSeq
  <2>4. PICK r : r = <<g>>
    OBVIOUS
  <2>6. r \in Seq(FrameSet) /\ Len(r) = 1 /\ r[1] = g
    BY <2>4
  <2>5. \A k \in 1 .. Len(q) : q[k] = r[k]
    BY <2>2, <2>3, <2>6
  <2>7. q = r
    BY <2>3, <2>5, <2>6, SeqEqual
  <2> QED
    BY <2>4, <2>7
<1>5. s.wire \o q = Append(s.wire, g)
  BY <1>2, <1>4, AppendIsConcat
<1>6. Len(<<f>>) = 1
  OBVIOUS
<1>7. Push(s, f) = [s EXCEPT !.wire = s.wire \o q, !.seq = s.seq + 1]
  BY <1>3, <1>6 DEF Push, PushAll
<1>8. PICK w \in Seq(FrameSet) : w = Append(s.wire, g)
  BY <1>2, AppendProperties
<1>9. Push(s, f) = [s EXCEPT !.wire = w, !.seq = s.seq + 1]
  BY <1>5, <1>7, <1>8, Zenon
<1>10. s.seq + 1 \in Nat
  BY <1>2
<1>11. [s EXCEPT !.wire = w, !.seq = s.seq + 1] \in StateSet
  BY <1>10 DEF StateSet
<1> QED
  BY <1>1, <1>8, <1>9, <1>11, Zenon

(* What a push leaves alone *)
LEMMA PushParts ==
  ASSUME NEW s \in StateSet, NEW f \in FrameSet
  PROVE  /\ Push(s, f) \in StateSet
         /\ Push(s, f).wire = Append(s.wire, Stamped(s, f))
         /\ Push(s, f).seq = s.seq + 1
         /\ Push(s, f).first = s.first
         /\ Push(s, f).out = s.out
         /\ Push(s, f).current = s.current
         /\ Push(s, f).tool_items = s.tool_items
         /\ Push(s, f).tool_ids = s.tool_ids
         /\ Push(s, f).open_tools = s.open_tools
         /\ Push(s, f).usage = s.usage
         /\ Push(s, f).saw_finish = s.saw_finish
         /\ Push(s, f).completed_sent = s.completed_sent
<1>1. PICK t \in StateSet : t = Push(s, f)
  BY PushIs
<1>2. PICK w : w = Append(s.wire, Stamped(s, f))
  OBVIOUS
<1>3. t = [s EXCEPT !.wire = w, !.seq = s.seq + 1]
  BY <1>1, <1>2, PushIs
<1>4. /\ t.wire = w /\ t.seq = s.seq + 1 /\ t.first = s.first /\ t.out = s.out
      /\ t.current = s.current /\ t.tool_items = s.tool_items /\ t.tool_ids = s.tool_ids
      /\ t.open_tools = s.open_tools /\ t.usage = s.usage /\ t.saw_finish = s.saw_finish
      /\ t.completed_sent = s.completed_sent
  BY <1>3 DEF StateSet
<1> QED
  BY <1>1, <1>2, <1>4

LEMMA Sums ==
  ASSUME NEW a \in Nat, NEW n \in Nat
  PROVE  a + (n + 1) = a + n + 1
  OBVIOUS

LEMMA AppendFar ==
  ASSUME NEW v \in Seq(FrameSet), NEW q \in Seq(FrameSet), NEW g \in FrameSet
  PROVE  v \o Append(q, g) = Append(v \o q, g)
<1>1. v \o q \in Seq(FrameSet)
  BY ConcatProperties
<1>2. Append(q, g) = q \o <<g>> /\ Append(v \o q, g) = (v \o q) \o <<g>>
  BY <1>1, AppendIsConcat
<1>3. PICK x \in Seq(FrameSet) : x = <<g>>
  <2>1. <<g>> \in Seq(FrameSet)
    OBVIOUS
  <2> QED
    BY <2>1
<1>4. (v \o q) \o x = v \o (q \o x)
  BY ConcatAssociative
<1> QED
  BY <1>2, <1>3, <1>4

(* Frames sent together are frames sent one after another *)
LEMMA PushMore ==
  ASSUME NEW s \in StateSet, NEW fs \in Seq(FrameSet), NEW f \in FrameSet
  PROVE  /\ PushAll(s, fs) \in StateSet
         /\ PushAll(s, Append(fs, f)) = Push(PushAll(s, fs), f)
<1>1. s.wire \in Seq(FrameSet) /\ s.seq \in Nat
  BY StateFields
<1>2. PICK n \in Nat : n = Len(fs)
  OBVIOUS
<1>0. PICK p : p = Append(fs, f)
  OBVIOUS
<1>3. /\ p \in Seq(FrameSet) /\ Len(p) = n + 1 /\ p[n + 1] = f
      /\ \A k \in 1 .. n : p[k] = fs[k]
  BY <1>0, <1>2, Appended
<1>4. PICK q : q = [k \in DOMAIN fs |-> [fs[k] EXCEPT !.seq = s.seq + k - 1]]
  OBVIOUS
<1>5. PICK r : r = [k \in DOMAIN p |-> [p[k] EXCEPT !.seq = s.seq + k - 1]]
  OBVIOUS
<1>6. /\ q \in Seq(FrameSet) /\ Len(q) = n
      /\ \A k \in 1 .. n : q[k] = [fs[k] EXCEPT !.seq = s.seq + k - 1]
  <2>1. DOMAIN fs = 1 .. n /\ \A k \in 1 .. n : fs[k] \in FrameSet
    BY <1>2
  <2>2. \A k \in 1 .. n : [fs[k] EXCEPT !.seq = s.seq + k - 1] \in FrameSet
    <3> TAKE k \in 1 .. n
    <3>1. PICK g \in FrameSet : g = fs[k]
      BY <2>1
    <3>2. PICK m \in Nat : m = s.seq + k - 1
      BY <1>1
    <3>3. [g EXCEPT !.seq = m] \in FrameSet
      BY DEF FrameSet
    <3> QED
      BY <3>1, <3>2, <3>3, Zenon
  <2>3. q \in [1 .. n -> FrameSet]
    BY <1>4, <2>1, <2>2
  <2>4. q \in Seq(FrameSet) /\ Len(q) = n
    BY <2>3, FunSeq
  <2> QED
    BY <1>4, <2>1, <2>4
<1>7. /\ r \in Seq(FrameSet) /\ Len(r) = n + 1
      /\ \A k \in 1 .. n + 1 : r[k] = [p[k] EXCEPT !.seq = s.seq + k - 1]
  <2>1. DOMAIN p = 1 .. n + 1 /\ \A k \in 1 .. n + 1 : p[k] \in FrameSet
    BY <1>3
  <2>2. \A k \in 1 .. n + 1 : [p[k] EXCEPT !.seq = s.seq + k - 1] \in FrameSet
    <3> TAKE k \in 1 .. n + 1
    <3>1. PICK g \in FrameSet : g = p[k]
      BY <2>1
    <3>2. PICK m \in Nat : m = s.seq + k - 1
      BY <1>1
    <3>3. [g EXCEPT !.seq = m] \in FrameSet
      BY DEF FrameSet
    <3> QED
      BY <3>1, <3>2, <3>3, Zenon
  <2>3. r \in [1 .. n + 1 -> FrameSet]
    BY <1>5, <2>1, <2>2
  <2>4. r \in Seq(FrameSet) /\ Len(r) = n + 1
    BY <2>3, FunSeq
  <2> QED
    BY <1>5, <2>1, <2>4
<1>8. PICK w \in Seq(FrameSet) : w = s.wire \o q
  BY <1>1, <1>6, ConcatProperties
<1>9. PICK t : t = PushAll(s, fs)
  OBVIOUS
<1>10. t = [s EXCEPT !.wire = w, !.seq = s.seq + n]
  BY <1>2, <1>4, <1>8, <1>9 DEF PushAll
<1>11. t \in StateSet /\ t.wire = w /\ t.seq = s.seq + n
  <2>1. PICK m \in Nat : m = s.seq + n
    BY <1>1
  <2> QED
    BY <1>10, <2>1 DEF StateSet
<1>12. PICK g \in FrameSet : g = Stamped(t, f) /\ g = [f EXCEPT !.seq = s.seq + n]
  BY <1>11, StampedParts DEF Stamped
<1>13. r = Append(q, g)
  <2>0. PICK a : a = Append(q, g)
    OBVIOUS
  <2>1. /\ a \in Seq(FrameSet) /\ Len(a) = n + 1 /\ a[n + 1] = g
        /\ \A k \in 1 .. n : a[k] = q[k]
    BY <1>6, <2>0, Appended
  <2>2. \A k \in 1 .. n : r[k] = a[k]
    <3> TAKE k \in 1 .. n
    <3>1. k \in 1 .. n + 1
      OBVIOUS
    <3>2. r[k] = [p[k] EXCEPT !.seq = s.seq + k - 1] /\ p[k] = fs[k]
      BY <1>3, <1>7, <3>1
    <3>3. a[k] = [fs[k] EXCEPT !.seq = s.seq + k - 1]
      BY <1>6, <2>1
    <3> QED
      BY <3>2, <3>3
  <2>3. r[n + 1] = a[n + 1]
    <3>1. n + 1 \in 1 .. n + 1 /\ s.seq + (n + 1) - 1 = s.seq + n
      BY <1>1
    <3>2. r[n + 1] = [p[n + 1] EXCEPT !.seq = s.seq + (n + 1) - 1]
      BY <1>7, <3>1
    <3> QED
      BY <1>3, <1>12, <2>1, <3>1, <3>2
  <2>4. \A k \in 1 .. n + 1 : r[k] = a[k]
    <3>1. \A k \in 1 .. n + 1 : k \in 1 .. n \/ k = n + 1
      OBVIOUS
    <3> QED
      BY <2>2, <2>3, <3>1
  <2>5. r = a
    BY <1>7, <2>1, <2>4, SeqEqual
  <2> QED
    BY <2>0, <2>5
<1>14. PICK w2 \in Seq(FrameSet) : w2 = Append(w, g)
  BY AppendProperties
<1>15. s.wire \o r = w2
  <2>1. s.wire \o Append(q, g) = Append(s.wire \o q, g)
    BY <1>1, <1>6, AppendFar
  <2> QED
    BY <1>8, <1>13, <1>14, <2>1, Zenon
<1>16. PushAll(s, p) = [s EXCEPT !.wire = s.wire \o r, !.seq = s.seq + (n + 1)]
  BY <1>3, <1>5 DEF PushAll
<1>17. Push(t, f) = [t EXCEPT !.wire = Append(w, g), !.seq = s.seq + n + 1]
  <2>1. Push(t, f) = [t EXCEPT !.wire = Append(t.wire, Stamped(t, f)), !.seq = t.seq + 1]
    BY <1>11, PushIs
  <2> QED
    BY <1>11, <1>12, <2>1, Zenon
<1>18. \A v : [t EXCEPT !.wire = v, !.seq = s.seq + n + 1]
            = [s EXCEPT !.wire = v, !.seq = s.seq + n + 1]
  BY <1>10 DEF StateSet
<1>19. s.seq + (n + 1) = s.seq + n + 1
  BY <1>1, Sums
<1>20. PushAll(s, p) = [s EXCEPT !.wire = w2, !.seq = s.seq + n + 1]
  BY <1>15, <1>16, <1>19, Zenon
<1>21. Push(t, f) = [s EXCEPT !.wire = w2, !.seq = s.seq + n + 1]
  BY <1>14, <1>17, <1>18, Zenon
<1> QED
  BY <1>0, <1>9, <1>11, <1>20, <1>21, Zenon

LEMMA PushTwo ==
  ASSUME NEW s \in StateSet, NEW f \in FrameSet, NEW g \in FrameSet
  PROVE  PushAll(s, <<f, g>>) = Push(Push(s, f), g)
<1>1. <<f, g>> = Append(<<f>>, g)
  OBVIOUS
<1>2. <<f>> \in Seq(FrameSet)
  OBVIOUS
<1>3. PushAll(s, Append(<<f>>, g)) = Push(PushAll(s, <<f>>), g)
  BY <1>2, PushMore
<1> QED
  BY <1>1, <1>3, Zenon DEF Push

LEMMA PushThree ==
  ASSUME NEW s \in StateSet, NEW f \in FrameSet, NEW g \in FrameSet, NEW h \in FrameSet
  PROVE  PushAll(s, <<f, g, h>>) = Push(Push(Push(s, f), g), h)
<1>1. <<f, g, h>> = Append(<<f, g>>, h)
  OBVIOUS
<1>2. <<f, g>> \in Seq(FrameSet)
  OBVIOUS
<1>3. PushAll(s, Append(<<f, g>>, h)) = Push(PushAll(s, <<f, g>>), h)
  BY <1>2, PushMore
<1> QED
  BY <1>1, <1>3, PushTwo, Zenon

-----------------------------------------------------------------------------
(* States with one field changed *)
LEMMA Updates ==
  ASSUME NEW s \in StateSet
  PROVE  /\ \A v \in BOOLEAN : [s EXCEPT !.first = v] \in StateSet
         /\ \A v \in Seq(ItemSet) : [s EXCEPT !.out = v] \in StateSet
         /\ \A v \in Nat : [s EXCEPT !.current = v] \in StateSet
         /\ \A v \in Maps : [s EXCEPT !.tool_items = v] \in StateSet
         /\ \A v \in Maps : [s EXCEPT !.tool_ids = v] \in StateSet
         /\ \A v \in Seq(Nat) : [s EXCEPT !.open_tools = v] \in StateSet
         /\ \A v \in Usages : [s EXCEPT !.usage = v] \in StateSet
         /\ \A v \in FinishReasons \cup {"none"} : [s EXCEPT !.saw_finish = v] \in StateSet
         /\ \A v \in BOOLEAN : [s EXCEPT !.completed_sent = v] \in StateSet
<1>1. \A v \in BOOLEAN : [s EXCEPT !.first = v] \in StateSet
  BY DEF StateSet
<1>2. \A v \in Seq(ItemSet) : [s EXCEPT !.out = v] \in StateSet
  BY DEF StateSet
<1>3. \A v \in Nat : [s EXCEPT !.current = v] \in StateSet
  BY DEF StateSet
<1>4. \A v \in Maps : [s EXCEPT !.tool_items = v] \in StateSet
  BY DEF StateSet
<1>5. \A v \in Maps : [s EXCEPT !.tool_ids = v] \in StateSet
  BY DEF StateSet
<1>6. \A v \in Seq(Nat) : [s EXCEPT !.open_tools = v] \in StateSet
  BY DEF StateSet
<1>7. \A v \in Usages : [s EXCEPT !.usage = v] \in StateSet
  BY DEF StateSet
<1>8. \A v \in FinishReasons \cup {"none"} : [s EXCEPT !.saw_finish = v] \in StateSet
  BY DEF StateSet
<1>9. \A v \in BOOLEAN : [s EXCEPT !.completed_sent = v] \in StateSet
  BY DEF StateSet
<1> QED
  BY <1>1, <1>2, <1>3, <1>4, <1>5, <1>6, <1>7, <1>8, <1>9

(* t is s but for its output items *)
SameBut(s, t) ==
  /\ t.first = s.first /\ t.current = s.current
  /\ t.tool_items = s.tool_items /\ t.tool_ids = s.tool_ids
  /\ t.open_tools = s.open_tools
  /\ t.usage = s.usage /\ t.saw_finish = s.saw_finish
  /\ t.completed_sent = s.completed_sent
  /\ t.seq = s.seq /\ t.wire = s.wire

(* An output with one item changed *)
Replaced(o, p, pos, item) ==
  /\ p \in Seq(ItemSet)
  /\ Len(p) = Len(o)
  /\ p[pos] = item
  /\ \A k \in 1 .. Len(o) : k # pos => p[k] = o[k]

LEMMA WithItem ==
  ASSUME NEW s \in StateSet, NEW pos \in 1 .. Len(s.out), NEW item \in ItemSet,
         NEW t, t = [s EXCEPT !.out[pos] = item]
  PROVE  t \in StateSet /\ SameBut(s, t) /\ Replaced(s.out, t.out, pos, item)
<1>1. PICK n \in Nat : n = Len(s.out)
  BY StateFields
<1>2. s.out \in [1 .. n -> ItemSet]
  BY <1>1, StateFields
<1>3. PICK p : p = [s.out EXCEPT ![pos] = item]
  OBVIOUS
<1>4. p \in [1 .. n -> ItemSet] /\ p[pos] = item /\ \A k \in 1 .. n : k # pos => p[k] = s.out[k]
  BY <1>1, <1>2, <1>3
<1>5. p \in Seq(ItemSet) /\ Len(p) = n
  BY <1>4, FunSeq
<1>6. t = [s EXCEPT !.out = p]
  BY <1>3
<1>7. t \in StateSet
  BY <1>5, <1>6, Updates
<1>8. t.out = p /\ SameBut(s, t)
  BY <1>6 DEF StateSet, SameBut
<1> QED
  BY <1>1, <1>4, <1>5, <1>7, <1>8 DEF Replaced

LEMMA ItemParts ==
  ASSUME NEW item \in ItemSet
  PROVE  /\ item.type \in Types /\ item.id \in Nat /\ item.text \in Texts
         /\ item.status \in {"none", "in_progress", "completed", "incomplete"}
  BY DEF ItemSet

LEMMA ItemStatus ==
  ASSUME NEW item \in ItemSet, NEW v \in {"none", "in_progress", "completed", "incomplete"},
         NEW i, i = [item EXCEPT !.status = v]
  PROVE  /\ i \in ItemSet
         /\ i.type = item.type /\ i.id = item.id /\ i.text = item.text /\ i.status = v
  BY DEF ItemSet

LEMMA ItemText ==
  ASSUME NEW item \in ItemSet, NEW v \in Texts,
         NEW i, i = [item EXCEPT !.text = v]
  PROVE  /\ i \in ItemSet
         /\ i.type = item.type /\ i.id = item.id /\ i.text = v /\ i.status = item.status
  BY DEF ItemSet

-----------------------------------------------------------------------------
(* The deltas of an item in a body, as Joined has them *)
Gives(f, pos) == IF f.pos = pos /\ f.ev \in DeltaEvents THEN f.text ELSE <<>>

Told(w, pos, k) == FlattenSeq([j \in 1 .. k |-> Gives(w[j], pos)])

LEMMA GivesType ==
  ASSUME NEW f \in FrameSet, NEW pos
  PROVE  Gives(f, pos) \in Texts
  BY FrameFields, EmptyText DEF Gives

(* q is what the first k frames give an item *)
Portions(w, pos, k, q) ==
  q \in Seq(Seq(Char)) /\ Len(q) = k /\ \A j \in 1 .. k : q[j] = Gives(w[j], pos)

LEMMA TellsType ==
  ASSUME NEW w \in Seq(FrameSet), NEW pos, NEW k \in 0 .. Len(w),
         NEW q, q = [j \in 1 .. k |-> Gives(w[j], pos)]
  PROVE  Portions(w, pos, k, q)
<1>1. \A j \in 1 .. k : w[j] \in FrameSet
  OBVIOUS
<1>2. \A j \in 1 .. k : Gives(w[j], pos) \in Seq(Char)
  BY <1>1, GivesType DEF Texts
<1>3. q \in [1 .. k -> Seq(Char)] /\ k \in Nat
  BY <1>2
<1>4. q \in Seq(Seq(Char)) /\ Len(q) = k
  BY <1>3, FunSeq
<1> QED
  BY <1>4 DEF Portions

LEMMA ToldType ==
  ASSUME NEW w \in Seq(FrameSet), NEW pos, NEW k \in 0 .. Len(w)
  PROVE  Told(w, pos, k) \in Texts
<1>1. PICK q : q = [j \in 1 .. k |-> Gives(w[j], pos)]
  OBVIOUS
<1>2. q \in Seq(Seq(Char))
  BY <1>1, TellsType DEF Portions
<1>3. <<>> \in Seq(Char)
  BY EmptySeq
<1>4. FlattenSeq(q) \in Seq(Char)
  BY <1>2, <1>3, FlattenAppend
<1> QED
  BY <1>1, <1>4 DEF Told, Texts

LEMMA ToldNothing ==
  ASSUME NEW w \in Seq(FrameSet), NEW pos, NEW k \in 0 .. Len(w),
         \A j \in 1 .. k : Gives(w[j], pos) = <<>>
  PROVE  Told(w, pos, k) = <<>>
<1>1. PICK q : q = [j \in 1 .. k |-> Gives(w[j], pos)]
  OBVIOUS
<1>2. q \in Seq(Seq(Char)) /\ Len(q) = k /\ \A j \in 1 .. k : q[j] = <<>>
  <2>1. Portions(w, pos, k, q)
    BY <1>1, TellsType
  <2> QED
    BY <2>1 DEF Portions
<1>3. PICK e \in Seq(Seq(Char)) : e = <<>> /\ Len(e) = 0
  BY EmptySeq
<1>4. FlattenSeq(q) = FlattenSeq(e)
  <2>1. /\ Len(e) <= Len(q)
        /\ \A j \in 1 .. Len(e) : q[j] = e[j]
        /\ \A j \in Len(e) + 1 .. Len(q) : q[j] = <<>>
    <3>1. 0 <= Len(q) /\ \A j \in 1 .. 0 : FALSE
      BY <1>2
    <3>2. Len(e) = 0 /\ Len(q) = k
      BY <1>2, <1>3
    <3>3. \A j \in 0 + 1 .. k : q[j] = <<>>
      BY <1>2
    <3>4. /\ Len(e) <= Len(q)
          /\ \A j \in 1 .. Len(e) : q[j] = e[j]
      BY <3>1, <3>2, SMTT(60)
    <3>5. \A j \in Len(e) + 1 .. Len(q) : q[j] = <<>>
      BY <3>2, <3>3, ZenonT(60)
    <3> QED
      BY <3>4, <3>5
  <2> QED
    BY <1>2, <1>3, <2>1, FlattenPad, ZenonT(60)
<1>5. FlattenSeq(e) = <<>>
  BY <1>3 DEF FlattenSeq
<1> QED
  BY <1>1, <1>4, <1>5 DEF Told

(* What one more frame does to the deltas of an item *)
ToldOn(w, v, f, pos) ==
  /\ \A k \in 0 .. Len(w) : Told(v, pos, k) = Told(w, pos, k)
  /\ Told(v, pos, Len(w) + 1) = Told(w, pos, Len(w)) \o Gives(f, pos)

LEMMA ToldGrows ==
  ASSUME NEW w \in Seq(FrameSet), NEW f \in FrameSet, NEW v, v = Append(w, f), NEW pos
  PROVE  ToldOn(w, v, f, pos)
<1>1. PICK n \in Nat : n = Len(w)
  OBVIOUS
<1>2. v \in Seq(FrameSet) /\ Len(v) = n + 1 /\ v[n + 1] = f /\ \A k \in 1 .. n : v[k] = w[k]
  BY <1>1, Appended
<1>3. ASSUME NEW k \in 0 .. n PROVE Told(v, pos, k) = Told(w, pos, k)
  <2>1. \A j \in 1 .. k : v[j] = w[j]
    BY <1>2
  <2>2. [j \in 1 .. k |-> Gives(v[j], pos)] = [j \in 1 .. k |-> Gives(w[j], pos)]
    BY <2>1, Zenon
  <2> QED
    BY <2>2, Zenon DEF Told
<1>4. PICK q : q = [j \in 1 .. n |-> Gives(v[j], pos)]
  OBVIOUS
<1>5. PICK r : r = [j \in 1 .. n + 1 |-> Gives(v[j], pos)]
  OBVIOUS
<1>6. q \in Seq(Seq(Char)) /\ Len(q) = n /\ \A j \in 1 .. n : q[j] = Gives(v[j], pos)
  <2>1. n \in 0 .. Len(v)
    BY <1>2
  <2>2. Portions(v, pos, n, q)
    BY <1>2, <1>4, <2>1, TellsType
  <2> QED
    BY <2>2 DEF Portions
<1>7. r \in Seq(Seq(Char)) /\ Len(r) = n + 1 /\ \A j \in 1 .. n + 1 : r[j] = Gives(v[j], pos)
  <2>1. n + 1 \in 0 .. Len(v)
    BY <1>2
  <2>2. Portions(v, pos, n + 1, r)
    BY <1>2, <1>5, <2>1, TellsType
  <2> QED
    BY <2>2 DEF Portions
<1>8. PICK x \in Seq(Char) : x = Gives(f, pos)
  BY GivesType DEF Texts
<1>9. PICK a : a = Append(q, x)
  OBVIOUS
<1>10. /\ a \in Seq(Seq(Char)) /\ Len(a) = n + 1 /\ a[n + 1] = x
       /\ \A k \in 1 .. n : a[k] = q[k]
  BY <1>6, <1>9, Appended
<1>11. \A j \in 1 .. n + 1 : r[j] = a[j]
  <2> TAKE j \in 1 .. n + 1
  <2>1. CASE j = n + 1
    BY <1>2, <1>7, <1>8, <1>10, <2>1
  <2>2. CASE j # n + 1
    <3>1. j \in 1 .. n
      BY <2>2
    <3>2. a[j] = Gives(v[j], pos)
      BY <1>6, <1>10, <3>1
    <3> QED
      BY <1>7, <3>2
  <2> QED
    BY <2>1, <2>2
<1>12. r = a
  BY <1>7, <1>10, <1>11, SeqEqual
<1>13. FlattenSeq(a) = FlattenSeq(q) \o x
  BY <1>6, <1>9, FlattenAppend
<1>14. Told(v, pos, n + 1) = Told(v, pos, n) \o x
  BY <1>4, <1>5, <1>12, <1>13, Zenon DEF Told
<1>15. n \in 0 .. n
  OBVIOUS
<1>16. Told(v, pos, n) = Told(w, pos, n)
  BY <1>3, <1>15
<1> QED
  BY <1>1, <1>3, <1>8, <1>14, <1>16, Zenon DEF ToldOn

-----------------------------------------------------------------------------
(* The texts of items, of the events that close them and of the terminal's *)
(* output are what the deltas before them add up to.                       *)
Agrees(o, w) ==
  /\ \A k \in 1 .. Len(w) : w[k].pos \in 0 .. Len(o)
  /\ \A pos \in 1 .. Len(o) : o[pos].text = Told(w, pos, Len(w))
  /\ \A k \in 1 .. Len(w) : w[k].ev \in CloseEvents => w[k].text = Told(w, w[k].pos, k)
  /\ \A k \in 1 .. Len(w) : \A pos \in DOMAIN w[k].output :
       w[k].output[pos].text = Told(w, pos, k)

(* f tells nothing new of the items o, and repeats them faithfully *)
QuietFor(o, f) ==
  /\ f.ev \notin DeltaEvents
  /\ f.pos \in 0 .. Len(o)
  /\ f.ev \in CloseEvents => f.pos \in 1 .. Len(o) /\ f.text = o[f.pos].text
  /\ \A pos \in DOMAIN f.output : pos \in 1 .. Len(o) /\ f.output[pos].text = o[pos].text

LEMMA AgreesQuiet ==
  ASSUME NEW o \in Seq(ItemSet), NEW w \in Seq(FrameSet), Agrees(o, w),
         NEW f \in FrameSet, QuietFor(o, f)
  PROVE  Agrees(o, Append(w, f))
<1>1. PICK n \in Nat : n = Len(w)
  OBVIOUS
<1>2. PICK v : v = Append(w, f)
  OBVIOUS
<1>3. v \in Seq(FrameSet) /\ Len(v) = n + 1 /\ v[n + 1] = f /\ \A k \in 1 .. n : v[k] = w[k]
  BY <1>1, <1>2, Appended
<1>4. ASSUME NEW pos
      PROVE  /\ \A k \in 0 .. n : Told(v, pos, k) = Told(w, pos, k)
             /\ Told(v, pos, n + 1) = Told(w, pos, n)
  <2>1. Gives(f, pos) = <<>>
    BY DEF QuietFor, Gives
  <2>2. ToldOn(w, v, f, pos)
    BY <1>2, ToldGrows
  <2>3. PICK t \in Texts : t = Told(w, pos, n)
    BY <1>1, ToldType
  <2>4. t \o <<>> = t
    BY ConcatEmptySeq DEF Texts
  <2> QED
    BY <1>1, <2>1, <2>2, <2>3, <2>4 DEF ToldOn
<1>5. ASSUME NEW k \in 1 .. n + 1 PROVE v[k].pos \in 0 .. Len(o)
  <2>1. k = n + 1 \/ k \in 1 .. n
    OBVIOUS
  <2> QED
    BY <1>1, <1>3, <2>1 DEF Agrees, QuietFor
<1>6. ASSUME NEW pos \in 1 .. Len(o) PROVE o[pos].text = Told(v, pos, n + 1)
  BY <1>1, <1>4 DEF Agrees
<1>7. ASSUME NEW k \in 1 .. n + 1, v[k].ev \in CloseEvents
      PROVE  v[k].text = Told(v, v[k].pos, k)
  <2>1. CASE k = n + 1
    <3>1. f.ev \in CloseEvents /\ f.pos \in 1 .. Len(o) /\ f.text = o[f.pos].text
      BY <1>3, <1>7, <2>1 DEF QuietFor
    <3>2. o[f.pos].text = Told(v, f.pos, n + 1)
      BY <1>6, <3>1
    <3> QED
      BY <1>3, <2>1, <3>1, <3>2
  <2>2. CASE k # n + 1
    <3>1. k \in 1 .. n /\ k \in 0 .. n
      BY <2>2
    <3>2. w[k].text = Told(w, w[k].pos, k)
      BY <1>1, <1>3, <1>7, <3>1 DEF Agrees
    <3> QED
      BY <1>3, <1>4, <3>1, <3>2
  <2> QED
    BY <2>1, <2>2
<1>8. ASSUME NEW k \in 1 .. n + 1, NEW pos \in DOMAIN v[k].output
      PROVE  v[k].output[pos].text = Told(v, pos, k)
  <2>1. CASE k = n + 1
    <3>1. pos \in DOMAIN f.output
      BY <1>3, <1>8, <2>1
    <3>2. pos \in 1 .. Len(o) /\ f.output[pos].text = o[pos].text
      BY <3>1 DEF QuietFor
    <3>3. o[pos].text = Told(v, pos, n + 1)
      BY <1>6, <3>2
    <3> QED
      BY <1>3, <2>1, <3>2, <3>3
  <2>2. CASE k # n + 1
    <3>1. k \in 1 .. n /\ k \in 0 .. n
      BY <2>2
    <3>2. v[k] = w[k]
      BY <1>3, <3>1
    <3>3. w[k].output[pos].text = Told(w, pos, k)
      BY <1>1, <1>8, <3>1, <3>2 DEF Agrees
    <3> QED
      BY <1>4, <3>1, <3>2, <3>3
  <2> QED
    BY <2>1, <2>2
<1> QED
  BY <1>2, <1>3, <1>5, <1>6, <1>7, <1>8 DEF Agrees

LEMMA AgreesDelta ==
  ASSUME NEW o \in Seq(ItemSet), NEW w \in Seq(FrameSet), Agrees(o, w),
         NEW f \in FrameSet, f.ev \in DeltaEvents, f.pos \in 1 .. Len(o), f.output = <<>>,
         NEW p, NEW item, Replaced(o, p, f.pos, item), item.text = o[f.pos].text \o f.text
  PROVE  Agrees(p, Append(w, f))
<1>1. PICK n \in Nat : n = Len(w)
  OBVIOUS
<1>2. PICK v : v = Append(w, f)
  OBVIOUS
<1>3. v \in Seq(FrameSet) /\ Len(v) = n + 1 /\ v[n + 1] = f /\ \A k \in 1 .. n : v[k] = w[k]
  BY <1>1, <1>2, Appended
<1>4. ASSUME NEW pos
      PROVE  /\ \A k \in 0 .. n : Told(v, pos, k) = Told(w, pos, k)
             /\ Told(v, pos, n + 1) = Told(w, pos, n) \o Gives(f, pos)
  <2>2. ToldOn(w, v, f, pos)
    BY <1>2, ToldGrows
  <2> QED
    BY <1>1, <2>2 DEF ToldOn
<1>5. Len(p) = Len(o) /\ p[f.pos] = item /\ \A k \in 1 .. Len(o) : k # f.pos => p[k] = o[k]
  BY DEF Replaced
<1>6. ASSUME NEW k \in 1 .. n + 1 PROVE v[k].pos \in 0 .. Len(p)
  <2>1. k = n + 1 \/ k \in 1 .. n
    OBVIOUS
  <2>2. CASE k = n + 1
    BY <1>3, <1>5, <2>2
  <2>3. CASE k \in 1 .. n
    BY <1>1, <1>3, <1>5, <2>3 DEF Agrees
  <2> QED
    BY <2>1, <2>2, <2>3
<1>7. ASSUME NEW pos \in 1 .. Len(p) PROVE p[pos].text = Told(v, pos, n + 1)
  <2>1. o[pos].text = Told(w, pos, n)
    BY <1>1, <1>5 DEF Agrees
  <2>2. CASE pos = f.pos
    <3>1. Gives(f, pos) = f.text
      BY <2>2 DEF Gives
    <3> QED
      BY <1>4, <1>5, <2>1, <2>2, <3>1
  <2>3. CASE pos # f.pos
    <3>1. Gives(f, pos) = <<>>
      BY <2>3 DEF Gives
    <3>2. PICK t \in Texts : t = Told(w, pos, n)
      BY <1>1, ToldType
    <3>3. t \o <<>> = t
      BY ConcatEmptySeq DEF Texts
    <3> QED
      BY <1>4, <1>5, <2>1, <2>3, <3>1, <3>2, <3>3
  <2> QED
    BY <2>2, <2>3
<1>8. ASSUME NEW k \in 1 .. n + 1, v[k].ev \in CloseEvents
      PROVE  v[k].text = Told(v, v[k].pos, k)
  <2>1. k # n + 1
    BY <1>3, <1>8 DEF DeltaEvents, CloseEvents
  <2>2. k \in 1 .. n /\ k \in 0 .. n
    BY <2>1
  <2>3. w[k].text = Told(w, w[k].pos, k)
    BY <1>1, <1>3, <1>8, <2>2 DEF Agrees
  <2> QED
    BY <1>3, <1>4, <2>2, <2>3
<1>9. ASSUME NEW k \in 1 .. n + 1, NEW pos \in DOMAIN v[k].output
      PROVE  v[k].output[pos].text = Told(v, pos, k)
  <2>1. k # n + 1
    <3>1. SUFFICES ASSUME k = n + 1 PROVE FALSE
      OBVIOUS
    <3>2. pos \in DOMAIN <<>>
      BY <1>3, <1>9, <3>1
    <3> QED
      BY <3>2
  <2>2. k \in 1 .. n /\ k \in 0 .. n
    BY <2>1
  <2>3. v[k] = w[k]
    BY <1>3, <2>2
  <2>4. w[k].output[pos].text = Told(w, pos, k)
    BY <1>1, <1>9, <2>2, <2>3 DEF Agrees
  <2> QED
    BY <1>4, <2>2, <2>3, <2>4
<1> QED
  BY <1>2, <1>3, <1>6, <1>7, <1>8, <1>9 DEF Agrees

LEMMA AgreesStatus ==
  ASSUME NEW o \in Seq(ItemSet), NEW w \in Seq(FrameSet), Agrees(o, w),
         NEW pos \in 1 .. Len(o), NEW p, NEW item, Replaced(o, p, pos, item),
         item.text = o[pos].text
  PROVE  Agrees(p, w)
<1>1. Len(p) = Len(o) /\ \A k \in 1 .. Len(o) : p[k].text = o[k].text
  <2>1. \A k \in 1 .. Len(o) : p[k].text = o[k].text
    <3> TAKE k \in 1 .. Len(o)
    <3>1. CASE k = pos
      BY <3>1 DEF Replaced
    <3>2. CASE k # pos
      BY <3>2 DEF Replaced
    <3> QED
      BY <3>1, <3>2
  <2> QED
    BY <2>1 DEF Replaced
<1> QED
  BY <1>1 DEF Agrees

LEMMA AgreesItem ==
  ASSUME NEW o \in Seq(ItemSet), NEW w \in Seq(FrameSet), Agrees(o, w),
         NEW item \in ItemSet, item.text = <<>>
  PROVE  Agrees(Append(o, item), w)
<1>1. PICK n \in Nat : n = Len(o)
  OBVIOUS
<1>2. PICK p : p = Append(o, item)
  OBVIOUS
<1>3. p \in Seq(ItemSet) /\ Len(p) = n + 1 /\ p[n + 1] = item /\ \A k \in 1 .. n : p[k] = o[k]
  BY <1>1, <1>2, Appended
<1>4. ASSUME NEW k \in 1 .. Len(w) PROVE w[k].pos \in 0 .. n
  BY <1>1 DEF Agrees
<1>5. \A k \in 1 .. Len(w) : w[k].pos \in 0 .. n + 1
  <2> TAKE k \in 1 .. Len(w)
  <2>1. w[k].pos \in 0 .. n
    BY <1>4
  <2> QED
    BY <2>1
<1>6. Told(w, n + 1, Len(w)) = <<>>
  <2>1. \A j \in 1 .. Len(w) : Gives(w[j], n + 1) = <<>>
    <3> TAKE j \in 1 .. Len(w)
    <3>1. w[j].pos # n + 1
      BY <1>4
    <3> QED
      BY <3>1 DEF Gives
  <2>2. Len(w) \in 0 .. Len(w)
    OBVIOUS
  <2> QED
    BY <2>1, <2>2, ToldNothing
<1>7. \A pos \in 1 .. n + 1 : p[pos].text = Told(w, pos, Len(w))
  <2> TAKE pos \in 1 .. n + 1
  <2>1. pos = n + 1 \/ pos \in 1 .. n
    OBVIOUS
  <2>2. CASE pos = n + 1
    BY <1>3, <1>6, <2>2
  <2>3. CASE pos \in 1 .. n
    BY <1>1, <1>3, <2>3 DEF Agrees
  <2> QED
    BY <2>1, <2>2, <2>3
<1> QED
  BY <1>2, <1>3, <1>5, <1>7 DEF Agrees

-----------------------------------------------------------------------------
(* Maps, the open item and the open calls point at items of the right type *)
Call(o, pos) == pos \in 1 .. Len(o) /\ o[pos].type = "function_call"

Pointed(s) ==
  /\ s.current # NoPos =>
       s.current \in 1 .. Len(s.out) /\ s.out[s.current].type # "function_call"
  /\ \A i \in DOMAIN s.tool_items : Call(s.out, s.tool_items[i])
  /\ \A i \in DOMAIN s.tool_ids : Call(s.out, s.tool_ids[i]) /\ s.out[s.tool_ids[i]].id = i
  /\ \A k \in 1 .. Len(s.open_tools) : Call(s.out, s.open_tools[k])
  /\ s.seq = Len(s.wire)

(* p has the items of o, and perhaps more *)
Extends(o, p) ==
  /\ Len(o) <= Len(p)
  /\ \A k \in 1 .. Len(o) : p[k].type = o[k].type /\ p[k].id = o[k].id

LEMMA CallStays ==
  ASSUME NEW o \in Seq(ItemSet), NEW p \in Seq(ItemSet), Extends(o, p), NEW pos, Call(o, pos)
  PROVE  Call(p, pos) /\ p[pos].id = o[pos].id
  BY DEF Extends, Call

(* What is said and what is thought in a body *)
Spoken == [f \in FrameSet |-> IF f.ev = "output_text.delta" THEN f.text ELSE <<>>]
Mused == [f \in FrameSet |-> IF f.ev = "reasoning_summary_text.delta" THEN f.text ELSE <<>>]

LEMMA SpokenType == Spoken \in [FrameSet -> Seq(Char)] /\ Mused \in [FrameSet -> Seq(Char)]
<1>1. <<>> \in Seq(Char) /\ \A f \in FrameSet : f.text \in Seq(Char)
  BY FrameFields, EmptyText DEF Texts
<1>2. Spoken \in [FrameSet -> Seq(Char)]
  BY <1>1 DEF Spoken
<1>3. Mused \in [FrameSet -> Seq(Char)]
  BY <1>1 DEF Mused
<1> QED
  BY <1>2, <1>3

LEMMA AlongFrame ==
  ASSUME NEW w \in Seq(FrameSet), NEW g \in FrameSet
  PROVE  /\ Along(Spoken, w) \in Seq(Char) /\ Along(Mused, w) \in Seq(Char)
         /\ Along(Spoken, Append(w, g)) = Along(Spoken, w) \o Spoken[g]
         /\ Along(Mused, Append(w, g)) = Along(Mused, w) \o Mused[g]
<1>2. Along(Spoken, w) \in Seq(Char) /\ Along(Mused, w) \in Seq(Char)
  BY SpokenType, AlongType
<1>1. ASSUME NEW G \in [FrameSet -> Seq(Char)]
      PROVE  Along(G, Append(w, g)) = Along(G, w) \o G[g]
  BY AlongAppend, SMTT(60)
<1>3. Along(Spoken, Append(w, g)) = Along(Spoken, w) \o Spoken[g]
  BY <1>1, SpokenType
<1>4. Along(Mused, Append(w, g)) = Along(Mused, w) \o Mused[g]
  BY <1>1, SpokenType
<1> QED
  BY <1>2, <1>3, <1>4, ZenonT(60)

(* What the client was told so far, and what decides how the turn ends *)
Account(s) ==
  [said |-> Along(Spoken, s.wire), mused |-> Along(Mused, s.wire),
   usage |-> s.usage, finish |-> s.saw_finish, sent |-> s.completed_sent]

(* The states of a framer that has begun and whose account is h *)
Sound(h) ==
  {s \in StateSet :
     /\ ~s.first /\ s.wire # <<>>
     /\ Pointed(s) /\ Agrees(s.out, s.wire)
     /\ Account(s) = h}

SameAccount(s, t) ==
  /\ t.first = s.first /\ t.wire = s.wire
  /\ t.usage = s.usage /\ t.saw_finish = s.saw_finish /\ t.completed_sent = s.completed_sent

(* A change that sends nothing *)
LEMMA SoundWith ==
  ASSUME NEW h, NEW s \in Sound(h), NEW t \in StateSet,
         SameAccount(s, t), Pointed(t), Agrees(t.out, t.wire)
  PROVE  t \in Sound(h)
  BY DEF Sound, SameAccount, Account

LEMMA SoundState ==
  ASSUME NEW h, NEW s \in Sound(h)
  PROVE  /\ s \in StateSet /\ Pointed(s) /\ Agrees(s.out, s.wire)
         /\ ~s.first /\ s.wire # <<>> /\ Account(s) = h
  BY DEF Sound

LEMMA PointedPush ==
  ASSUME NEW s \in StateSet, Pointed(s), NEW f \in FrameSet
  PROVE  Pointed(Push(s, f))
<1>1. PICK t : t = Push(s, f)
  OBVIOUS
<1>2. /\ t.out = s.out /\ t.current = s.current /\ t.tool_items = s.tool_items
      /\ t.tool_ids = s.tool_ids /\ t.open_tools = s.open_tools
  BY <1>1, PushParts
<1>3. t.seq = s.seq + 1 /\ t.wire = Append(s.wire, Stamped(s, f))
  BY <1>1, PushParts
<1>4. Len(t.wire) = Len(s.wire) + 1
  <2>1. s.wire \in Seq(FrameSet) /\ Stamped(s, f) \in FrameSet
    BY StateFields, StampedParts
  <2> QED
    BY <1>3, <2>1, Appended
<1> QED
  BY <1>1, <1>2, <1>3, <1>4 DEF Pointed

LEMMA SoundPush ==
  ASSUME NEW h, NEW s \in Sound(h), NEW f \in FrameSet, QuietFor(s.out, f)
  PROVE  Push(s, f) \in Sound(h)
<1>1. s \in StateSet /\ Pointed(s) /\ Agrees(s.out, s.wire) /\ ~s.first /\ Account(s) = h
  BY SoundState
<1>2. PICK t \in StateSet : t = Push(s, f)
  BY <1>1, PushParts
<1>3. PICK g \in FrameSet : g = Stamped(s, f)
  BY <1>1, StampedParts
<1>4. g.ev = f.ev /\ g.pos = f.pos /\ g.text = f.text /\ g.output = f.output
  BY <1>1, <1>3, StampedParts
<1>5. /\ t.wire = Append(s.wire, g) /\ t.out = s.out /\ t.first = s.first
      /\ t.usage = s.usage /\ t.saw_finish = s.saw_finish /\ t.completed_sent = s.completed_sent
  BY <1>1, <1>2, <1>3, PushParts
<1>6. s.wire \in Seq(FrameSet) /\ s.out \in Seq(ItemSet)
  BY <1>1, StateFields
<1>7. QuietFor(s.out, g)
  BY <1>4 DEF QuietFor
<1>8. Agrees(t.out, t.wire)
  BY <1>1, <1>5, <1>6, <1>7, AgreesQuiet
<1>9. Pointed(t)
  BY <1>1, <1>2, PointedPush
<1>10. Spoken[g] = <<>> /\ Mused[g] = <<>>
  BY <1>4 DEF QuietFor, Spoken, Mused, DeltaEvents
<1>11. /\ Along(Spoken, t.wire) = Along(Spoken, s.wire) \o <<>>
       /\ Along(Mused, t.wire) = Along(Mused, s.wire) \o <<>>
  BY <1>5, <1>6, <1>10, AlongFrame
<1>12. Along(Spoken, s.wire) \in Seq(Char) /\ Along(Mused, s.wire) \in Seq(Char)
  BY <1>6, AlongFrame
<1>13. Along(Spoken, t.wire) = Along(Spoken, s.wire) /\ Along(Mused, t.wire) = Along(Mused, s.wire)
  BY <1>11, <1>12, ConcatEmptySeq
<1>14. t.wire # <<>>
  <2>1. Len(t.wire) = Len(s.wire) + 1 /\ Len(s.wire) \in Nat
    BY <1>5, <1>6, Appended
  <2> QED
    BY <2>1
<1>15. Account(t) = h
  BY <1>1, <1>5, <1>13 DEF Account
<1> QED
  BY <1>1, <1>2, <1>5, <1>8, <1>9, <1>14, <1>15 DEF Sound

-----------------------------------------------------------------------------
(* What the framer's functions keep *)

(* The account once text was sent as a delta ev *)
Credit(h, ev, text) ==
  [said |-> IF ev = "output_text.delta" THEN h.said \o text ELSE h.said,
   mused |-> IF ev = "reasoning_summary_text.delta" THEN h.mused \o text ELSE h.mused,
   usage |-> h.usage, finish |-> h.finish, sent |-> h.sent]

(* A delta, sent and kept *)
SentAndKept(s, t, pos, ev, text) ==
  /\ t \in StateSet
  /\ t.wire = Append(s.wire, Stamped(s, Frame(ev, pos, text)))
  /\ Replaced(s.out, t.out, pos, [s.out[pos] EXCEPT !.text = s.out[pos].text \o text])
  /\ t.seq = s.seq + 1
  /\ t.first = s.first /\ t.current = s.current
  /\ t.tool_items = s.tool_items /\ t.tool_ids = s.tool_ids
  /\ t.open_tools = s.open_tools
  /\ t.usage = s.usage /\ t.saw_finish = s.saw_finish
  /\ t.completed_sent = s.completed_sent

LEMMA AppendParts ==
  ASSUME NEW s \in StateSet, NEW pos \in 1 .. Len(s.out), NEW ev \in DeltaEvents,
         NEW text \in Texts
  PROVE  SentAndKept(s, append_text(s, pos, ev, text), pos, ev, text)
<1>1. ev \in Evs /\ pos \in Nat /\ s.out[pos] \in ItemSet
  BY StateFields DEF Evs
<1>2. PICK f \in FrameSet : f = Frame(ev, pos, text)
  BY <1>1, FrameType
<1>3. s.out[pos].text \o text \in Texts
  BY <1>1, ItemParts, ConcatText
<1>4. PICK item \in ItemSet : item = [s.out[pos] EXCEPT !.text = s.out[pos].text \o text]
  BY <1>1, <1>3, ItemText
<1>5. PICK u : u = [s EXCEPT !.out[pos] = item]
  OBVIOUS
<1>6. u \in StateSet /\ SameBut(s, u) /\ Replaced(s.out, u.out, pos, item)
  BY <1>5, WithItem
<1>7. append_text(s, pos, ev, text) = Push(u, f)
  BY <1>2, <1>4, <1>5, Zenon DEF append_text
<1>8. PICK t : t = Push(u, f)
  OBVIOUS
<1>9. /\ t \in StateSet
      /\ t.wire = Append(u.wire, Stamped(u, f))
      /\ t.seq = u.seq + 1
      /\ t.first = u.first
      /\ t.out = u.out
      /\ t.current = u.current
      /\ t.tool_items = u.tool_items
      /\ t.tool_ids = u.tool_ids
      /\ t.open_tools = u.open_tools
      /\ t.usage = u.usage
      /\ t.saw_finish = u.saw_finish
      /\ t.completed_sent = u.completed_sent
  BY <1>6, <1>8, PushParts
<1>10. Stamped(u, f) = Stamped(s, f)
  BY <1>6 DEF Stamped, SameBut
<1>11. t.wire = Append(s.wire, Stamped(s, f)) /\ t.seq = s.seq + 1
  BY <1>6, <1>9, <1>10 DEF SameBut
<1>12. /\ t.first = s.first /\ t.current = s.current
       /\ t.tool_items = s.tool_items /\ t.tool_ids = s.tool_ids
       /\ t.open_tools = s.open_tools
       /\ t.usage = s.usage /\ t.saw_finish = s.saw_finish
       /\ t.completed_sent = s.completed_sent
  BY <1>6, <1>9 DEF SameBut
<1> QED
  BY <1>2, <1>4, <1>6, <1>7, <1>8, <1>9, <1>11, <1>12, Zenon DEF SentAndKept

LEMMA SoundDelta ==
  ASSUME NEW h, NEW s \in Sound(h), NEW pos \in 1 .. Len(s.out), NEW ev \in DeltaEvents,
         NEW text \in Texts
  PROVE  append_text(s, pos, ev, text) \in Sound(Credit(h, ev, text))
<1>1. /\ s \in StateSet /\ Pointed(s) /\ Agrees(s.out, s.wire)
      /\ ~s.first /\ s.wire # <<>> /\ Account(s) = h
  BY SoundState
<1>2. PICK t : t = append_text(s, pos, ev, text)
  OBVIOUS
<1>3. SentAndKept(s, t, pos, ev, text)
  BY <1>1, <1>2, AppendParts
<1>4. ev \in Evs /\ pos \in Nat /\ s.out[pos] \in ItemSet
  BY <1>1, StateFields DEF Evs
<1>5. PICK g \in FrameSet : g = Stamped(s, Frame(ev, pos, text))
  BY <1>1, <1>4, FrameType, StampedParts
<1>6. g.ev = ev /\ g.pos = pos /\ g.text = text /\ g.output = <<>>
  <2>1. PICK f \in FrameSet : f = Frame(ev, pos, text)
    BY <1>4, FrameType
  <2>2. f.ev = ev /\ f.pos = pos /\ f.text = text /\ f.output = <<>>
    BY <1>4, <2>1, FrameType
  <2>3. g.ev = f.ev /\ g.pos = f.pos /\ g.text = f.text /\ g.output = f.output
    BY <1>1, <1>5, <2>1, StampedParts
  <2> QED
    BY <2>2, <2>3
<1>7. s.wire \in Seq(FrameSet) /\ s.out \in Seq(ItemSet) /\ Len(s.wire) \in Nat
  BY <1>1, StateFields
<1>8. s.out[pos].text \o text \in Texts
  BY <1>4, ItemParts, ConcatText
<1>9. PICK item \in ItemSet : item = [s.out[pos] EXCEPT !.text = s.out[pos].text \o text]
  BY <1>4, <1>8, ItemText
<1>10. item.type = s.out[pos].type /\ item.id = s.out[pos].id /\ item.text = s.out[pos].text \o text
  BY <1>4, <1>8, <1>9, ItemText
<1>11. Replaced(s.out, t.out, pos, item) /\ t.wire = Append(s.wire, g) /\ t \in StateSet
  BY <1>3, <1>5, <1>9 DEF SentAndKept
<1>12. Agrees(t.out, t.wire)
  BY <1>1, <1>6, <1>7, <1>10, <1>11, AgreesDelta
<1>13. Extends(s.out, t.out) /\ t.out \in Seq(ItemSet) /\ Len(t.out) = Len(s.out)
  <2>1. \A k \in 1 .. Len(s.out) : t.out[k].type = s.out[k].type /\ t.out[k].id = s.out[k].id
    <3> TAKE k \in 1 .. Len(s.out)
    <3>1. CASE k = pos
      BY <1>10, <1>11, <3>1 DEF Replaced
    <3>2. CASE k # pos
      BY <1>11, <3>2 DEF Replaced
    <3> QED
      BY <3>1, <3>2
  <2>2. Len(s.out) \in Nat
    BY <1>7
  <2> QED
    BY <1>11, <2>1, <2>2 DEF Replaced, Extends
<1>14. Len(t.wire) = Len(s.wire) + 1
  BY <1>7, <1>11, Appended
<1>15. Pointed(t)
  <2>1. /\ t.current = s.current /\ t.tool_items = s.tool_items /\ t.tool_ids = s.tool_ids
        /\ t.open_tools = s.open_tools /\ t.seq = s.seq + 1
    BY <1>3 DEF SentAndKept
  <2>2. \A q : Call(s.out, q) => Call(t.out, q) /\ t.out[q].id = s.out[q].id
    BY <1>7, <1>13, CallStays
  <2> QED
    BY <1>1, <1>13, <1>14, <2>1, <2>2 DEF Pointed, Extends
<1>16. Account(t) = Credit(h, ev, text)
  <2>1. /\ Along(Spoken, t.wire) = Along(Spoken, s.wire) \o Spoken[g]
        /\ Along(Mused, t.wire) = Along(Mused, s.wire) \o Mused[g]
        /\ Along(Spoken, s.wire) \in Seq(Char) /\ Along(Mused, s.wire) \in Seq(Char)
    BY <1>7, <1>11, AlongFrame
  <2>2. PICK a \in Seq(Char) : a = Along(Spoken, s.wire)
    BY <2>1
  <2>3. PICK b \in Seq(Char) : b = Along(Mused, s.wire)
    BY <2>1
  <2>4. a \o <<>> = a /\ b \o <<>> = b
    BY ConcatEmptySeq
  <2>5. Along(Spoken, t.wire) = IF ev = "output_text.delta" THEN a \o text ELSE a
    BY <1>6, <2>1, <2>2, <2>4 DEF Spoken
  <2>6. Along(Mused, t.wire) = IF ev = "reasoning_summary_text.delta" THEN b \o text ELSE b
    BY <1>6, <2>1, <2>3, <2>4 DEF Mused
  <2>7. t.usage = s.usage /\ t.saw_finish = s.saw_finish /\ t.completed_sent = s.completed_sent
    BY <1>3 DEF SentAndKept
  <2>8. h = [said |-> a, mused |-> b, usage |-> s.usage, finish |-> s.saw_finish,
             sent |-> s.completed_sent]
    BY <1>1, <2>2, <2>3 DEF Account
  <2>9. h.said = a /\ h.mused = b /\ h.usage = s.usage /\ h.finish = s.saw_finish
        /\ h.sent = s.completed_sent
    BY <2>8
  <2> QED
    BY <2>5, <2>6, <2>7, <2>9, Zenon DEF Account, Credit
<1>17. ~t.first /\ t.wire # <<>>
  <2>1. t.first = s.first
    BY <1>3 DEF SentAndKept
  <2>2. t.wire # <<>>
    BY <1>7, <1>14
  <2> QED
    BY <1>1, <2>1, <2>2
<1> QED
  BY <1>2, <1>11, <1>12, <1>15, <1>16, <1>17 DEF Sound

-----------------------------------------------------------------------------
(* The lifecycle of items in a body that goes on *)
Terminals == {"completed", "incomplete", "failed"}

(* Item pos begins with frame a, after the item before it has begun *)
BeginsAt(w, pos, a) ==
  /\ w[a].pos = pos /\ w[a].ev = "output_item.added"
  /\ \A k \in 1 .. Len(w) : w[k].pos = pos => a <= k
  /\ \A k \in 1 .. Len(w) : w[k].pos = pos /\ w[k].ev = "output_item.added" => k = a
  /\ pos > 1 => \E k \in 1 .. Len(w) :
                   k < a /\ w[k].pos = pos - 1 /\ w[k].ev = "output_item.added"

Begun(w, pos) == \E a \in 1 .. Len(w) : BeginsAt(w, pos, a)

Done(w, pos) == \E d \in 1 .. Len(w) : w[d].pos = pos /\ w[d].ev = "output_item.done"

DoneLast(w) ==
  \A d, k \in 1 .. Len(w) : w[d].ev = "output_item.done" /\ w[k].pos = w[d].pos => k <= d

(* A frame of one of n items, or of none; not the end of the body *)
Midway(f, n) ==
  /\ f.pos \in 0 .. n
  /\ f.ev \notin Terminals
  /\ f.ev = "output_item.done" => f.pos # NoPos

(* The body w has begun the items 1 .. n and has yet to finish those of O *)
Bracketed(w, n, O) ==
  /\ O \subseteq 1 .. n
  /\ \A k \in 1 .. Len(w) : Midway(w[k], n)
  /\ \A pos \in 1 .. n : Begun(w, pos)
  /\ \A pos \in 1 .. n : pos \notin O <=> Done(w, pos)
  /\ DoneLast(w)

LEMMA BegunStays ==
  ASSUME NEW w \in Seq(FrameSet), NEW f \in FrameSet, NEW v, v = Append(w, f),
         NEW pos, Begun(w, pos), f.ev # "output_item.added" \/ f.pos # pos
  PROVE  Begun(v, pos)
<1>1. PICK n \in Nat : n = Len(w)
  OBVIOUS
<1>2. v \in Seq(FrameSet) /\ Len(v) = n + 1 /\ v[n + 1] = f /\ \A k \in 1 .. n : v[k] = w[k]
  BY <1>1, Appended
<1>3. PICK a \in 1 .. n : BeginsAt(w, pos, a)
  BY <1>1 DEF Begun
<1>4. v[a].pos = pos /\ v[a].ev = "output_item.added" /\ a \in 1 .. n + 1
  BY <1>2, <1>3 DEF BeginsAt
<1>5. ASSUME NEW k \in 1 .. n + 1, v[k].pos = pos PROVE a <= k
  <2>1. k = n + 1 \/ k \in 1 .. n
    OBVIOUS
  <2>2. CASE k = n + 1
    BY <2>2
  <2>3. CASE k \in 1 .. n
    BY <1>1, <1>2, <1>3, <1>5, <2>3 DEF BeginsAt
  <2> QED
    BY <2>1, <2>2, <2>3
<1>6. ASSUME NEW k \in 1 .. n + 1, v[k].pos = pos, v[k].ev = "output_item.added" PROVE k = a
  <2>1. k # n + 1
    BY <1>2, <1>6
  <2>2. k \in 1 .. n
    BY <2>1
  <2> QED
    BY <1>1, <1>2, <1>3, <1>6, <2>2 DEF BeginsAt
<1>7. ASSUME pos > 1
      PROVE  \E k \in 1 .. n + 1 : k < a /\ v[k].pos = pos - 1 /\ v[k].ev = "output_item.added"
  <2>1. PICK k \in 1 .. n : k < a /\ w[k].pos = pos - 1 /\ w[k].ev = "output_item.added"
    BY <1>1, <1>3, <1>7 DEF BeginsAt
  <2>2. k \in 1 .. n + 1 /\ v[k] = w[k]
    BY <1>2
  <2> QED
    BY <2>1, <2>2
<1>8. BeginsAt(v, pos, a)
  BY <1>2, <1>4, <1>5, <1>6, <1>7 DEF BeginsAt
<1> QED
  BY <1>2, <1>4, <1>8 DEF Begun

LEMMA DoneGrows ==
  ASSUME NEW w \in Seq(FrameSet), NEW f \in FrameSet, NEW v, v = Append(w, f), NEW pos
  PROVE  Done(v, pos) <=> Done(w, pos) \/ (f.pos = pos /\ f.ev = "output_item.done")
<1>1. PICK n \in Nat : n = Len(w)
  OBVIOUS
<1>2. Len(v) = n + 1 /\ v[n + 1] = f /\ \A k \in 1 .. n : v[k] = w[k]
  BY <1>1, Appended
<1>3. ASSUME Done(w, pos) PROVE Done(v, pos)
  <2>1. PICK d \in 1 .. n : w[d].pos = pos /\ w[d].ev = "output_item.done"
    BY <1>1, <1>3 DEF Done
  <2>2. d \in 1 .. n + 1 /\ v[d] = w[d]
    BY <1>2
  <2> QED
    BY <1>2, <2>1, <2>2 DEF Done
<1>4. ASSUME f.pos = pos, f.ev = "output_item.done" PROVE Done(v, pos)
  <2>1. n + 1 \in 1 .. Len(v)
    BY <1>2
  <2> QED
    BY <1>2, <1>4, <2>1 DEF Done
<1>5. ASSUME Done(v, pos), ~(f.pos = pos /\ f.ev = "output_item.done") PROVE Done(w, pos)
  <2>1. PICK d \in 1 .. n + 1 : v[d].pos = pos /\ v[d].ev = "output_item.done"
    BY <1>2, <1>5 DEF Done
  <2>2. d # n + 1
    BY <1>2, <1>5, <2>1
  <2>3. d \in 1 .. n
    BY <2>2
  <2> QED
    BY <1>1, <1>2, <2>1, <2>3 DEF Done
<1> QED
  BY <1>3, <1>4, <1>5

LEMMA DoneLastGrows ==
  ASSUME NEW w \in Seq(FrameSet), NEW f \in FrameSet, NEW v, v = Append(w, f),
         DoneLast(w), ~Done(w, f.pos)
  PROVE  DoneLast(v)
<1>1. PICK n \in Nat : n = Len(w)
  OBVIOUS
<1>2. Len(v) = n + 1 /\ v[n + 1] = f /\ \A k \in 1 .. n : v[k] = w[k]
  BY <1>1, Appended
<1>3. ASSUME NEW d \in 1 .. n + 1, NEW k \in 1 .. n + 1,
             v[d].ev = "output_item.done", v[k].pos = v[d].pos
      PROVE  k <= d
  <2>1. CASE d = n + 1
    BY <2>1
  <2>2. CASE d # n + 1
    <3>1. d \in 1 .. n /\ v[d] = w[d]
      BY <1>2, <2>2
    <3>2. k # n + 1
      BY <1>1, <1>2, <1>3, <3>1 DEF Done
    <3>3. k \in 1 .. n /\ v[k] = w[k]
      BY <1>2, <3>2
    <3> QED
      BY <1>1, <1>3, <3>1, <3>3 DEF DoneLast
  <2> QED
    BY <2>1, <2>2
<1> QED
  BY <1>2, <1>3 DEF DoneLast

(* A frame of no item, or of one that is open, other than its first and last *)
LEMMA BracketedPush ==
  ASSUME NEW w \in Seq(FrameSet), NEW n \in Nat, NEW O, Bracketed(w, n, O),
         NEW f \in FrameSet, f.pos \in O \cup {NoPos},
         f.ev \notin Terminals \cup {"output_item.added", "output_item.done"}
  PROVE  Bracketed(Append(w, f), n, O)
<1>1. PICK m \in Nat : m = Len(w)
  OBVIOUS
<1>2. PICK v : v = Append(w, f)
  OBVIOUS
<1>3. Len(v) = m + 1 /\ v[m + 1] = f /\ \A k \in 1 .. m : v[k] = w[k]
  BY <1>1, <1>2, Appended
<1>0. Midway(f, n)
  <2>0. O \subseteq 1 .. n
    BY DEF Bracketed
  <2>1. f.pos \in 0 .. n
    <3>1. CASE f.pos \in O
      <4>1. f.pos \in 1 .. n
        BY <2>0, <3>1
      <4> QED
        BY <4>1
    <3>2. CASE f.pos = NoPos
      BY <3>2 DEF NoPos
    <3> QED
      BY <3>1, <3>2
  <2> QED
    BY <2>1 DEF Midway
<1>4. ASSUME NEW k \in 1 .. m + 1 PROVE Midway(v[k], n)
  <2>1. k = m + 1 \/ k \in 1 .. m
    OBVIOUS
  <2>2. CASE k = m + 1
    BY <1>0, <1>3, <2>2
  <2>3. CASE k \in 1 .. m
    BY <1>1, <1>3, <2>3 DEF Bracketed
  <2> QED
    BY <2>1, <2>2, <2>3
<1>5. ASSUME NEW pos \in 1 .. n PROVE Begun(v, pos)
  BY <1>2, BegunStays DEF Bracketed
<1>6. ASSUME NEW pos \in 1 .. n PROVE pos \notin O <=> Done(v, pos)
  <2>1. Done(v, pos) <=> Done(w, pos)
    BY <1>2, DoneGrows
  <2> QED
    BY <2>1 DEF Bracketed
<1>7. ~Done(w, f.pos)
  <2>1. CASE f.pos \in O
    BY <2>1 DEF Bracketed
  <2>2. CASE f.pos = NoPos
    <3>1. SUFFICES ASSUME NEW d \in 1 .. m, w[d].pos = NoPos, w[d].ev = "output_item.done"
                   PROVE  FALSE
      BY <1>1, <2>2 DEF Done
    <3>2. Midway(w[d], n)
      BY <1>1 DEF Bracketed
    <3> QED
      BY <3>1, <3>2 DEF Midway
  <2> QED
    BY <2>1, <2>2
<1>8. DoneLast(v)
  BY <1>2, <1>7, DoneLastGrows DEF Bracketed
<1>9. O \subseteq 1 .. n
  BY DEF Bracketed
<1> QED
  BY <1>2, <1>3, <1>4, <1>5, <1>6, <1>8, <1>9 DEF Bracketed

LEMMA BracketedDone ==
  ASSUME NEW w \in Seq(FrameSet), NEW n \in Nat, NEW O, Bracketed(w, n, O),
         NEW f \in FrameSet, f.pos \in O, f.ev = "output_item.done"
  PROVE  Bracketed(Append(w, f), n, O \ {f.pos})
<1>1. PICK m \in Nat : m = Len(w)
  OBVIOUS
<1>2. PICK v : v = Append(w, f)
  OBVIOUS
<1>3. Len(v) = m + 1 /\ v[m + 1] = f /\ \A k \in 1 .. m : v[k] = w[k]
  BY <1>1, <1>2, Appended
<1>0. O \subseteq 1 .. n
  BY DEF Bracketed
<1>4. Midway(f, n)
  <2>1. f.pos \in 1 .. n
    BY <1>0
  <2> QED
    BY <2>1 DEF Midway, Terminals, NoPos
<1>5. ASSUME NEW k \in 1 .. m + 1 PROVE Midway(v[k], n)
  <2>1. k = m + 1 \/ k \in 1 .. m
    OBVIOUS
  <2> QED
    BY <1>1, <1>3, <1>4, <2>1 DEF Bracketed
<1>6. ASSUME NEW pos \in 1 .. n PROVE Begun(v, pos)
  BY <1>2, BegunStays DEF Bracketed
<1>7. ASSUME NEW pos \in 1 .. n PROVE pos \notin O \ {f.pos} <=> Done(v, pos)
  <2>1. Done(v, pos) <=> Done(w, pos) \/ f.pos = pos
    BY <1>2, DoneGrows
  <2> QED
    BY <2>1 DEF Bracketed
<1>8. ~Done(w, f.pos)
  BY DEF Bracketed
<1>9. DoneLast(v)
  BY <1>2, <1>8, DoneLastGrows DEF Bracketed
<1> QED
  BY <1>0, <1>2, <1>3, <1>5, <1>6, <1>7, <1>9 DEF Bracketed

LEMMA BracketedAdded ==
  ASSUME NEW w \in Seq(FrameSet), NEW n \in Nat, NEW O, Bracketed(w, n, O),
         NEW f \in FrameSet, f.pos = n + 1, f.ev = "output_item.added"
  PROVE  Bracketed(Append(w, f), n + 1, O \cup {n + 1})
<1>1. PICK m \in Nat : m = Len(w)
  OBVIOUS
<1>2. PICK v : v = Append(w, f)
  OBVIOUS
<1>3. Len(v) = m + 1 /\ v[m + 1] = f /\ \A k \in 1 .. m : v[k] = w[k]
  BY <1>1, <1>2, Appended
<1>0. O \subseteq 1 .. n
  BY DEF Bracketed
<1>4. \A k \in 1 .. m : w[k].pos \in 0 .. n /\ Midway(w[k], n)
  BY <1>1 DEF Bracketed, Midway
<1>5. ASSUME NEW k \in 1 .. m + 1 PROVE Midway(v[k], n + 1)
  <2>1. k = m + 1 \/ k \in 1 .. m
    OBVIOUS
  <2>2. CASE k = m + 1
    BY <1>3, <2>2 DEF Midway, Terminals
  <2>3. CASE k \in 1 .. m
    <3>1. w[k].pos \in 0 .. n + 1
      BY <1>4, <2>3
    <3> QED
      BY <1>3, <1>4, <2>3, <3>1 DEF Midway
  <2> QED
    BY <2>1, <2>2, <2>3
<1>6. ASSUME NEW pos \in 1 .. n + 1 PROVE Begun(v, pos)
  <2>1. CASE pos \in 1 .. n
    <3>1. pos # f.pos
      BY <2>1
    <3> QED
      BY <1>2, <2>1, <3>1, BegunStays DEF Bracketed
  <2>2. CASE pos = n + 1
    <3>1. m + 1 \in 1 .. m + 1 /\ v[m + 1].pos = pos /\ v[m + 1].ev = "output_item.added"
      BY <1>3, <2>2
    <3>2. ASSUME NEW k \in 1 .. m + 1, v[k].pos = pos PROVE k = m + 1
      <4>1. SUFFICES ASSUME k \in 1 .. m PROVE FALSE
        OBVIOUS
      <4> QED
        BY <1>3, <1>4, <2>2, <3>2, <4>1
    <3>3. ASSUME pos > 1
          PROVE  \E k \in 1 .. m + 1 :
                   k < m + 1 /\ v[k].pos = pos - 1 /\ v[k].ev = "output_item.added"
      <4>1. n \in 1 .. n
        BY <2>2, <3>3
      <4>2. Begun(w, n)
        BY <4>1 DEF Bracketed
      <4>3. PICK a \in 1 .. m : w[a].pos = n /\ w[a].ev = "output_item.added"
        BY <1>1, <4>2 DEF Begun, BeginsAt
      <4>4. a \in 1 .. m + 1 /\ a < m + 1 /\ v[a] = w[a] /\ pos - 1 = n
        BY <1>3, <2>2
      <4> QED
        BY <4>3, <4>4
    <3>4. \A k \in 1 .. m + 1 : v[k].pos = pos => m + 1 <= k
      BY <3>2
    <3>5. BeginsAt(v, pos, m + 1)
      BY <1>3, <3>1, <3>2, <3>3, <3>4 DEF BeginsAt
    <3> QED
      BY <1>3, <3>1, <3>5 DEF Begun
  <2> QED
    BY <2>1, <2>2
<1>7. ~Done(w, n + 1)
  BY <1>1, <1>4 DEF Done
<1>8. ASSUME NEW pos \in 1 .. n + 1 PROVE pos \notin O \cup {n + 1} <=> Done(v, pos)
  <2>1. Done(v, pos) <=> Done(w, pos)
    BY <1>2, DoneGrows
  <2>2. CASE pos = n + 1
    BY <1>7, <2>1, <2>2
  <2>3. CASE pos \in 1 .. n
    <3>1. pos # n + 1
      BY <2>3
    <3> QED
      BY <2>1, <2>3, <3>1 DEF Bracketed
  <2> QED
    BY <2>2, <2>3
<1>9. DoneLast(v)
  BY <1>2, <1>7, DoneLastGrows DEF Bracketed
<1>10. O \cup {n + 1} \subseteq 1 .. n + 1
  <2>1. \A k \in 1 .. n : k \in 1 .. n + 1
    OBVIOUS
  <2> QED
    BY <1>0, <2>1
<1> QED
  BY <1>2, <1>3, <1>5, <1>6, <1>8, <1>9, <1>10 DEF Bracketed

-----------------------------------------------------------------------------
(* Closing an item: the frame that ends it comes after others that do not *)
Relabelled(item) ==
  [item EXCEPT !.status = IF item.status = "none" THEN item.status ELSE "completed"]

LEMMA Pair ==
  ASSUME NEW a \in Evs, NEW b \in Evs
  PROVE  <<a, b>> = Append(<<a>>, b)
  OBVIOUS

LEMMA Triple ==
  ASSUME NEW a \in Evs, NEW b \in Evs, NEW c \in Evs
  PROVE  <<a, b, c>> = Append(<<a, b>>, c)
  OBVIOUS

PartEnds == CloseEvents \ {"output_item.done"}

LEMMA DoneSteps ==
  ASSUME NEW s \in StateSet, NEW pos \in 1 .. Len(s.out),
         NEW C, C \subseteq StateSet, [s EXCEPT !.out[pos] = Relabelled(s.out[pos])] \in C,
         \A u \in C : \A ev \in PartEnds : Push(u, Frame(ev, pos, s.out[pos].text)) \in C
  PROVE  \E u \in C : done(s, pos) = Push(u, Frame("output_item.done", pos, s.out[pos].text))
<1>1. PICK item \in ItemSet : item = s.out[pos]
  BY StateFields
<1>2. PICK x \in Texts : x = item.text
  BY ItemParts
<1>3. PICK t \in C : t = [s EXCEPT !.out[pos] = Relabelled(item)]
  BY <1>1
<1>4. pos \in Nat
  BY StateFields
<1>5. PICK last \in FrameSet : last = Frame("output_item.done", pos, x)
  BY <1>4, FrameType DEF Evs, CloseEvents
<1>6. PICK evs : evs = Append(Closers(item.type), "output_item.done")
  OBVIOUS
<1>7. done(s, pos) = PushAll(t, [k \in DOMAIN evs |-> Frame(evs[k], pos, x)])
  <2>1. t = [s EXCEPT !.out[pos].status = IF @ = "none" THEN @ ELSE "completed"]
    BY <1>1, <1>3 DEF Relabelled
  <2> QED
    BY <1>1, <1>2, <1>6, <2>1, Zenon DEF done
<1>8. \A u \in C : \A ev \in PartEnds : Push(u, Frame(ev, pos, x)) \in C
  BY <1>1, <1>2
<1>9. t \in StateSet
  OBVIOUS
<1>10. CASE item.type = "message"
  <2>1. PICK f \in FrameSet : f = Frame("output_text.done", pos, x)
    BY <1>4, FrameType DEF Evs, CloseEvents
  <2>2. PICK g \in FrameSet : g = Frame("content_part.done", pos, x)
    BY <1>4, FrameType DEF Evs, CloseEvents
  <2>3. evs = <<"output_text.done", "content_part.done", "output_item.done">>
    <3>1. Closers(item.type) = <<"output_text.done", "content_part.done">>
      BY <1>10 DEF Closers
    <3>2. Append(<<"output_text.done", "content_part.done">>, "output_item.done") =
            <<"output_text.done", "content_part.done", "output_item.done">>
      BY Triple DEF Evs, CloseEvents
    <3> QED
      BY <1>6, <3>1, <3>2, Zenon
  <2>4. [k \in DOMAIN evs |-> Frame(evs[k], pos, x)] = <<f, g, last>>
    BY <1>5, <2>1, <2>2, <2>3
  <2>5. done(s, pos) = Push(Push(Push(t, f), g), last)
    <3>1. PushAll(t, <<f, g, last>>) = Push(Push(Push(t, f), g), last)
      BY <1>9, PushThree
    <3> QED
      BY <1>7, <2>4, <3>1, Zenon
  <2>6. PICK u \in C : u = Push(t, f)
    BY <1>8, <2>1 DEF PartEnds, CloseEvents
  <2>7. PICK v \in C : v = Push(u, g)
    BY <1>8, <2>2 DEF PartEnds, CloseEvents
  <2> QED
    BY <1>1, <1>2, <1>5, <2>5, <2>6, <2>7
<1>11. ASSUME NEW ev \in PartEnds, Closers(item.type) = <<ev>>
       PROVE  \E u \in C : done(s, pos) = Push(u, last)
  <2>1. PICK f \in FrameSet : f = Frame(ev, pos, x)
    BY <1>4, FrameType DEF Evs, PartEnds
  <2>2. evs = <<ev, "output_item.done">>
    <3>1. ev \in Evs /\ "output_item.done" \in Evs
      BY DEF PartEnds, Evs, CloseEvents
    <3> QED
      BY <1>6, <1>11, <3>1, Pair
  <2>3. [k \in DOMAIN evs |-> Frame(evs[k], pos, x)] = <<f, last>>
    BY <1>5, <2>1, <2>2
  <2>4. done(s, pos) = Push(Push(t, f), last)
    <3>1. PushAll(t, <<f, last>>) = Push(Push(t, f), last)
      BY <1>9, PushTwo
    <3> QED
      BY <1>7, <2>3, <3>1, Zenon
  <2>5. PICK u \in C : u = Push(t, f)
    BY <1>8, <2>1
  <2> QED
    BY <2>4, <2>5
<1>12. CASE item.type = "reasoning"
  <2>1. Closers(item.type) = <<"reasoning_summary_part.done">>
    BY <1>12 DEF Closers
  <2> QED
    BY <1>1, <1>2, <1>5, <1>11, <2>1 DEF PartEnds, CloseEvents
<1>13. CASE item.type = "function_call"
  <2>1. Closers(item.type) = <<"function_call_arguments.done">>
    BY <1>13 DEF Closers
  <2> QED
    BY <1>1, <1>2, <1>5, <1>11, <2>1 DEF PartEnds, CloseEvents
<1>14. item.type \in Types
  BY ItemParts
<1> QED
  BY <1>10, <1>12, <1>13, <1>14 DEF Types

(* t has the items of s, with the same texts, and the same bookkeeping *)
SameItems(s, t) ==
  /\ t.current = s.current
  /\ t.tool_items = s.tool_items /\ t.tool_ids = s.tool_ids
  /\ t.open_tools = s.open_tools
  /\ Len(t.out) = Len(s.out)
  /\ \A k \in 1 .. Len(s.out) :
       /\ t.out[k].type = s.out[k].type /\ t.out[k].id = s.out[k].id
       /\ t.out[k].text = s.out[k].text

LEMMA SameItemsPush ==
  ASSUME NEW s \in StateSet, NEW t \in StateSet, SameItems(s, t), NEW f \in FrameSet
  PROVE  SameItems(s, Push(t, f))
<1>1. PICK u : u = Push(t, f)
  OBVIOUS
<1>2. /\ u.current = t.current /\ u.tool_items = t.tool_items /\ u.tool_ids = t.tool_ids
      /\ u.open_tools = t.open_tools /\ u.out = t.out
  BY <1>1, PushParts
<1> QED
  BY <1>1, <1>2 DEF SameItems

LEMMA RelabelledParts ==
  ASSUME NEW item \in ItemSet
  PROVE  /\ Relabelled(item) \in ItemSet
         /\ Relabelled(item).type = item.type
         /\ Relabelled(item).id = item.id
         /\ Relabelled(item).text = item.text
<1>1. PICK v \in {"none", "in_progress", "completed", "incomplete"} :
        v = IF item.status = "none" THEN item.status ELSE "completed"
  BY ItemParts
<1>2. PICK i : i = [item EXCEPT !.status = v]
  OBVIOUS
<1>3. i \in ItemSet /\ i.type = item.type /\ i.id = item.id /\ i.text = item.text
  BY <1>2, ItemStatus
<1> QED
  BY <1>1, <1>2, <1>3 DEF Relabelled

LEMMA SoundRelabel ==
  ASSUME NEW h, NEW s \in Sound(h), NEW pos \in 1 .. Len(s.out),
         NEW t, t = [s EXCEPT !.out[pos] = Relabelled(s.out[pos])]
  PROVE  t \in Sound(h) /\ SameItems(s, t)
<1>1. s \in StateSet /\ Pointed(s) /\ Agrees(s.out, s.wire)
  BY SoundState
<1>2. s.out[pos] \in ItemSet /\ s.out \in Seq(ItemSet) /\ s.wire \in Seq(FrameSet)
  BY <1>1, StateFields
<1>3. PICK item \in ItemSet : item = Relabelled(s.out[pos])
  BY <1>2, RelabelledParts
<1>4. item.type = s.out[pos].type /\ item.id = s.out[pos].id /\ item.text = s.out[pos].text
  BY <1>2, <1>3, RelabelledParts
<1>5. t = [s EXCEPT !.out[pos] = item]
  BY <1>3
<1>6. t \in StateSet /\ SameBut(s, t) /\ Replaced(s.out, t.out, pos, item)
  BY <1>1, <1>5, WithItem
<1>7. Agrees(t.out, s.wire)
  BY <1>1, <1>2, <1>4, <1>6, AgreesStatus
<1>8. SameItems(s, t)
  <2>1. ASSUME NEW k \in 1 .. Len(s.out)
        PROVE  /\ t.out[k].type = s.out[k].type /\ t.out[k].id = s.out[k].id
               /\ t.out[k].text = s.out[k].text
    <3>1. CASE k = pos
      BY <1>4, <1>6, <3>1 DEF Replaced
    <3>2. CASE k # pos
      BY <1>6, <3>2 DEF Replaced
    <3> QED
      BY <3>1, <3>2
  <2> QED
    BY <1>6, <2>1 DEF SameItems, SameBut, Replaced
<1>9. Pointed(t)
  <2>1. t.seq = s.seq /\ t.wire = s.wire
    BY <1>6 DEF SameBut
  <2>2. \A q : Call(s.out, q) => Call(t.out, q) /\ t.out[q].id = s.out[q].id
    BY <1>8 DEF Call, SameItems
  <2>3. /\ t.current = s.current /\ t.tool_items = s.tool_items /\ t.tool_ids = s.tool_ids
        /\ t.open_tools = s.open_tools /\ Len(t.out) = Len(s.out)
        /\ \A k \in 1 .. Len(s.out) : t.out[k].type = s.out[k].type
    BY <1>8 DEF SameItems
  <2>4. t.current # NoPos => t.current \in 1 .. Len(t.out) /\ t.out[t.current].type # "function_call"
    BY <1>1, <2>3 DEF Pointed
  <2>5. /\ \A i \in DOMAIN t.tool_items : Call(t.out, t.tool_items[i])
        /\ \A i \in DOMAIN t.tool_ids : Call(t.out, t.tool_ids[i]) /\ t.out[t.tool_ids[i]].id = i
        /\ \A k \in 1 .. Len(t.open_tools) : Call(t.out, t.open_tools[k])
        /\ t.seq = Len(t.wire)
    <3>1. /\ \A i \in DOMAIN s.tool_items : Call(s.out, s.tool_items[i])
          /\ \A i \in DOMAIN s.tool_ids : Call(s.out, s.tool_ids[i]) /\ s.out[s.tool_ids[i]].id = i
          /\ \A k \in 1 .. Len(s.open_tools) : Call(s.out, s.open_tools[k])
          /\ s.seq = Len(s.wire)
      BY <1>1 DEF Pointed
    <3>2. \A i \in DOMAIN t.tool_items : Call(t.out, t.tool_items[i])
      BY <2>2, <2>3, <3>1, ZenonT(90)
    <3>3. \A i \in DOMAIN t.tool_ids : Call(t.out, t.tool_ids[i]) /\ t.out[t.tool_ids[i]].id = i
      BY <2>2, <2>3, <3>1, ZenonT(90)
    <3>4. \A k \in 1 .. Len(t.open_tools) : Call(t.out, t.open_tools[k])
      BY <2>2, <2>3, <3>1, ZenonT(90)
    <3>5. t.seq = Len(t.wire)
      BY <2>1, <3>1
    <3> QED
      BY <3>2, <3>3, <3>4, <3>5
  <2> QED
    BY <2>4, <2>5 DEF Pointed
<1>10. SameAccount(s, t) /\ t.wire = s.wire
  BY <1>6 DEF SameBut, SameAccount
<1>11. t \in Sound(h)
  BY <1>6, <1>7, <1>9, <1>10, SoundWith
<1> QED
  BY <1>8, <1>11

(* What a frame that closes item pos repeats *)
LEMMA CloserQuiet ==
  ASSUME NEW u \in StateSet, NEW pos \in 1 .. Len(u.out), NEW ev \in CloseEvents,
         NEW x \in Texts, x = u.out[pos].text
  PROVE  Frame(ev, pos, x) \in FrameSet /\ QuietFor(u.out, Frame(ev, pos, x))
<1>1. ev \in Evs /\ pos \in Nat /\ pos \in 0 .. Len(u.out)
  BY StateFields DEF Evs
<1>2. PICK f \in FrameSet : /\ f = Frame(ev, pos, x)
                            /\ f.ev = ev /\ f.pos = pos /\ f.text = x /\ f.output = <<>>
  BY <1>1, FrameType
<1>3. ev \notin DeltaEvents
  BY DEF CloseEvents, DeltaEvents
<1>4. DOMAIN f.output = {}
  BY <1>2
<1> QED
  BY <1>1, <1>2, <1>3, <1>4 DEF QuietFor

LEMMA DoneSound ==
  ASSUME NEW h, NEW s \in Sound(h), NEW pos \in 1 .. Len(s.out)
  PROVE  done(s, pos) \in Sound(h) /\ SameItems(s, done(s, pos))
<1>1. s \in StateSet
  BY SoundState
<1>2. PICK x \in Texts : x = s.out[pos].text
  <2>1. s.out[pos] \in ItemSet
    BY <1>1, StateFields
  <2> QED
    BY <2>1, ItemParts
<1>3. PICK C : C = {u \in Sound(h) : SameItems(s, u)}
  OBVIOUS
<1>4. C \subseteq StateSet
  BY <1>3, SoundState
<1>5. [s EXCEPT !.out[pos] = Relabelled(s.out[pos])] \in C
  BY <1>3, SoundRelabel
<1>6. ASSUME NEW u \in C, NEW ev \in CloseEvents
      PROVE  Push(u, Frame(ev, pos, x)) \in C
  <2>1. u \in StateSet /\ u \in Sound(h) /\ SameItems(s, u)
    BY <1>3, <1>4
  <2>2. pos \in 1 .. Len(u.out) /\ x = u.out[pos].text
    BY <1>2, <2>1 DEF SameItems
  <2>3. PICK f \in FrameSet : f = Frame(ev, pos, x) /\ QuietFor(u.out, f)
    BY <2>1, <2>2, CloserQuiet
  <2>4. Push(u, f) \in Sound(h)
    BY <2>1, <2>3, SoundPush
  <2>5. SameItems(s, Push(u, f))
    BY <1>1, <2>1, SameItemsPush
  <2> QED
    BY <1>3, <2>3, <2>4, <2>5
<1>7. \E u \in C : done(s, pos) = Push(u, Frame("output_item.done", pos, s.out[pos].text))
  <2>1. \A u \in C : \A ev \in PartEnds : Push(u, Frame(ev, pos, s.out[pos].text)) \in C
    BY <1>2, <1>6 DEF PartEnds
  <2> QED
    BY <1>1, <1>4, <1>5, <2>1, DoneSteps
<1>8. done(s, pos) \in C
  BY <1>2, <1>6, <1>7 DEF CloseEvents
<1> QED
  BY <1>3, <1>8

LEMMA DoneBracketed ==
  ASSUME NEW s \in StateSet, NEW pos \in 1 .. Len(s.out), NEW n \in Nat, NEW O,
         Bracketed(s.wire, n, O), pos \in O
  PROVE  Bracketed(done(s, pos).wire, n, O \ {pos})
<1>1. PICK item \in ItemSet : item = s.out[pos]
  BY StateFields
<1>2. PICK x \in Texts : x = item.text
  BY ItemParts
<1>3. PICK C : C = {u \in StateSet : Bracketed(u.wire, n, O)}
  OBVIOUS
<1>4. [s EXCEPT !.out[pos] = Relabelled(item)] \in C
  <2>1. PICK i \in ItemSet : i = Relabelled(item)
    BY RelabelledParts
  <2>2. PICK t : t = [s EXCEPT !.out[pos] = i]
    OBVIOUS
  <2>3. t \in StateSet /\ t.wire = s.wire
    BY <2>2, WithItem DEF SameBut
  <2> QED
    BY <1>3, <2>1, <2>2, <2>3
<1>5. ASSUME NEW u \in C, NEW ev \in CloseEvents
      PROVE  \E g \in FrameSet : /\ Push(u, Frame(ev, pos, x)) \in StateSet
                                 /\ Push(u, Frame(ev, pos, x)).wire = Append(u.wire, g)
                                 /\ g.ev = ev /\ g.pos = pos
  <2>1. u \in StateSet /\ ev \in Evs /\ pos \in Nat
    BY <1>3, StateFields DEF Evs
  <2>2. PICK f \in FrameSet : f = Frame(ev, pos, x) /\ f.ev = ev /\ f.pos = pos
    BY <2>1, FrameType
  <2>3. PICK g \in FrameSet : g = Stamped(u, f) /\ g.ev = ev /\ g.pos = pos
    BY <2>1, <2>2, StampedParts
  <2>4. Push(u, f) \in StateSet /\ Push(u, f).wire = Append(u.wire, g)
    BY <2>1, <2>3, PushParts
  <2> QED
    BY <2>2, <2>3, <2>4
<1>6. ASSUME NEW u \in C, NEW ev \in PartEnds
      PROVE  Push(u, Frame(ev, pos, x)) \in C
  <2>1. PICK g \in FrameSet : /\ Push(u, Frame(ev, pos, x)) \in StateSet
                              /\ Push(u, Frame(ev, pos, x)).wire = Append(u.wire, g)
                              /\ g.ev = ev /\ g.pos = pos
    BY <1>5 DEF PartEnds
  <2>2. g.ev \notin Terminals \cup {"output_item.added", "output_item.done"}
    BY <2>1 DEF PartEnds, CloseEvents, Terminals
  <2>3. u.wire \in Seq(FrameSet) /\ Bracketed(u.wire, n, O)
    BY <1>3, StateFields
  <2>4. Bracketed(Append(u.wire, g), n, O)
    BY <2>1, <2>2, <2>3, BracketedPush
  <2> QED
    BY <1>3, <2>1, <2>4
<1>7. PICK u \in C : done(s, pos) = Push(u, Frame("output_item.done", pos, x))
  <2>1. C \subseteq StateSet
    BY <1>3
  <2> QED
    BY <1>1, <1>2, <1>4, <1>6, <2>1, DoneSteps
<1>8. PICK g \in FrameSet : /\ done(s, pos).wire = Append(u.wire, g)
                            /\ g.ev = "output_item.done" /\ g.pos = pos
  BY <1>5, <1>7 DEF CloseEvents
<1>9. u.wire \in Seq(FrameSet) /\ Bracketed(u.wire, n, O)
  BY <1>3, StateFields
<1> QED
  BY <1>8, <1>9, BracketedDone

-----------------------------------------------------------------------------
(* Closing the open item *)
LEMMA CurrentReset ==
  ASSUME NEW h, NEW s \in Sound(h), NEW t, t = [s EXCEPT !.current = NoPos]
  PROVE  /\ t \in Sound(h)
         /\ t.current = NoPos /\ t.wire = s.wire /\ t.out = s.out
         /\ t.tool_items = s.tool_items /\ t.tool_ids = s.tool_ids
         /\ t.open_tools = s.open_tools
<1>1. s \in StateSet /\ Pointed(s) /\ Agrees(s.out, s.wire)
  BY SoundState
<1>2. NoPos \in Nat
  BY DEF NoPos
<1>3. t \in StateSet
  BY <1>1, <1>2, Updates
<1>4. /\ t.current = NoPos /\ t.wire = s.wire /\ t.out = s.out /\ t.seq = s.seq
      /\ t.tool_items = s.tool_items /\ t.tool_ids = s.tool_ids
      /\ t.open_tools = s.open_tools /\ SameAccount(s, t)
  BY <1>1 DEF StateSet, SameAccount
<1>5. Pointed(t)
  BY <1>1, <1>4 DEF Pointed
<1> QED
  BY <1>1, <1>3, <1>4, <1>5, SoundWith

(* The items and the calls of s, none of them open but calls *)
Settled(s, t) ==
  /\ t.current = NoPos
  /\ t.tool_items = s.tool_items /\ t.tool_ids = s.tool_ids
  /\ t.open_tools = s.open_tools
  /\ Len(t.out) = Len(s.out)
  /\ \A k \in 1 .. Len(s.out) :
       /\ t.out[k].type = s.out[k].type /\ t.out[k].id = s.out[k].id
       /\ t.out[k].text = s.out[k].text

LEMMA CloseCurrentSound ==
  ASSUME NEW h, NEW s \in Sound(h)
  PROVE  close_current(s) \in Sound(h) /\ Settled(s, close_current(s))
<1>1. s \in StateSet /\ Pointed(s)
  BY SoundState
<1>2. CASE s.current = NoPos
  BY <1>2 DEF close_current, Settled
<1>3. CASE s.current # NoPos
  <2>1. PICK t : t = [s EXCEPT !.current = NoPos]
    OBVIOUS
  <2>2. /\ t \in Sound(h)
        /\ t.current = NoPos /\ t.wire = s.wire /\ t.out = s.out
        /\ t.tool_items = s.tool_items /\ t.tool_ids = s.tool_ids
        /\ t.open_tools = s.open_tools
    BY <2>1, CurrentReset
  <2>3. PICK pos \in 1 .. Len(t.out) : pos = s.current
    BY <1>1, <1>3, <2>2 DEF Pointed
  <2>4. done(t, pos) \in Sound(h) /\ SameItems(t, done(t, pos))
    BY <2>2, DoneSound
  <2>5. close_current(s) = done(t, pos)
    BY <1>3, <2>1, <2>3 DEF close_current
  <2> QED
    BY <2>2, <2>4, <2>5 DEF SameItems, Settled
<1> QED
  BY <1>2, <1>3

LEMMA CloseCurrentBracketed ==
  ASSUME NEW h, NEW s \in Sound(h), NEW n \in Nat, NEW O, Bracketed(s.wire, n, O),
         s.current # NoPos => s.current \in O
  PROVE  Bracketed(close_current(s).wire, n, O \ {s.current})
<1>1. s \in StateSet /\ Pointed(s)
  BY SoundState
<1>2. CASE s.current = NoPos
  <2>1. O \subseteq 1 .. n
    BY DEF Bracketed
  <2>2. O \ {s.current} = O
    BY <1>2, <2>1 DEF NoPos
  <2> QED
    BY <1>2, <2>2 DEF close_current
<1>3. CASE s.current # NoPos
  <2>1. PICK t : t = [s EXCEPT !.current = NoPos]
    OBVIOUS
  <2>2. t \in Sound(h) /\ t.wire = s.wire /\ t.out = s.out
    BY <2>1, CurrentReset
  <2>3. PICK pos \in 1 .. Len(t.out) : pos = s.current
    BY <1>1, <1>3, <2>2 DEF Pointed
  <2>4. t \in StateSet
    BY <2>2, SoundState
  <2>5. Bracketed(done(t, pos).wire, n, O \ {pos})
    BY <1>3, <2>2, <2>3, <2>4, DoneBracketed
  <2>6. close_current(s) = done(t, pos)
    BY <1>3, <2>1, <2>3 DEF close_current
  <2> QED
    BY <2>3, <2>5, <2>6
<1> QED
  BY <1>2, <1>3

-----------------------------------------------------------------------------
(* Closing the calls, one after another *)
Closing(s, N, f) ==
  f = [n \in 0 .. N |-> IF n = 0 THEN [s EXCEPT !.open_tools = <<>>]
                        ELSE done(f[n - 1], s.open_tools[n])]

LEMMA ClosingExists ==
  ASSUME NEW s, NEW N \in Nat
  PROVE  \E f : Closing(s, N, f)
<1> DEFINE Bad == {m \in 0 .. N : ~\E f : Closing(s, m, f)}
<1>1. SUFFICES ASSUME Bad # {} PROVE FALSE
  <2>1. N \in 0 .. N
    OBVIOUS
  <2> QED
    BY <1>1, <2>1
<1>2. PICK m \in Bad : \A k \in Bad : m <= k
  <2>1. Bad \subseteq Nat
    OBVIOUS
  <2> HIDE DEF Bad
  <2> QED
    BY <1>1, <2>1, LeastNat
<1>3. CASE m = 0
  <2>1. PICK f : f = [n \in 0 .. 0 |-> [s EXCEPT !.open_tools = <<>>]]
    OBVIOUS
  <2>2. Closing(s, 0, f)
    BY <2>1 DEF Closing
  <2> QED
    BY <1>2, <1>3, <2>2
<1>4. CASE m # 0
  <2>1. PICK p \in Nat : p = m - 1 /\ m = p + 1 /\ p \in 0 .. N
    BY <1>2, <1>4
  <2>2. p \notin Bad
    <3> HIDE DEF Bad
    <3> QED
      BY <1>2, <2>1
  <2>3. PICK f : Closing(s, p, f)
    BY <2>1, <2>2
  <2>4. PICK last : last = done(f[p], s.open_tools[p + 1])
    OBVIOUS
  <2>5. PICK g : g = [n \in 0 .. p + 1 |-> IF n = p + 1 THEN last ELSE f[n]]
    OBVIOUS
  <2>6. \A n \in 0 .. p : g[n] = f[n]
    BY <2>5
  <2>7. ASSUME NEW n \in 0 .. p + 1
        PROVE  g[n] = IF n = 0 THEN [s EXCEPT !.open_tools = <<>>]
                      ELSE done(g[n - 1], s.open_tools[n])
    <3>1. CASE n = p + 1
      <4>1. g[n] = last /\ n # 0 /\ n - 1 = p
        BY <2>5, <3>1
      <4>2. g[n - 1] = f[p]
        BY <2>6, <4>1
      <4> QED
        BY <2>4, <3>1, <4>1, <4>2
    <3>2. CASE n # p + 1
      <4>1. n \in 0 .. p /\ (n # 0 => n - 1 \in 0 .. p)
        BY <3>2
      <4>2. f[n] = IF n = 0 THEN [s EXCEPT !.open_tools = <<>>]
                   ELSE done(f[n - 1], s.open_tools[n])
        BY <2>3, <4>1 DEF Closing
      <4> QED
        BY <2>6, <4>1, <4>2
    <3> QED
      BY <3>1, <3>2
  <2>8. g = [n \in 0 .. p + 1 |-> IF n = 0 THEN [s EXCEPT !.open_tools = <<>>]
                                  ELSE done(g[n - 1], s.open_tools[n])]
    BY <2>5, <2>7
  <2>9. Closing(s, m, g)
    BY <2>1, <2>8 DEF Closing
  <2> QED
    BY <1>2, <2>9
<1> QED
  BY <1>3, <1>4

LEMMA CloseToolsIs ==
  ASSUME NEW s \in StateSet
  PROVE  \E f : /\ close_tools(s) = f[Len(s.open_tools)]
                /\ f[0] = [s EXCEPT !.open_tools = <<>>]
                /\ \A n \in 1 .. Len(s.open_tools) : f[n] = done(f[n - 1], s.open_tools[n])
<1>1. PICK L \in Nat : L = Len(s.open_tools)
  BY StateFields
<1>2. \E g : Closing(s, L, g)
  BY ClosingExists
<1>3. PICK f : f = CHOOSE g : Closing(s, L, g)
  OBVIOUS
<1>4. Closing(s, L, f)
  BY <1>2, <1>3
<1>5. close_tools(s) = f[L]
  BY <1>1, <1>3 DEF close_tools, Closing
<1>6. f[0] = [s EXCEPT !.open_tools = <<>>]
  BY <1>4 DEF Closing
<1>7. \A n \in 1 .. L : f[n] = done(f[n - 1], s.open_tools[n])
  BY <1>4 DEF Closing
<1> QED
  BY <1>1, <1>5, <1>6, <1>7

LEMMA ToolsReset ==
  ASSUME NEW h, NEW s \in Sound(h), NEW t, t = [s EXCEPT !.open_tools = <<>>]
  PROVE  /\ t \in Sound(h)
         /\ t.current = s.current /\ t.wire = s.wire /\ t.out = s.out
<1>1. s \in StateSet /\ Pointed(s) /\ Agrees(s.out, s.wire)
  BY SoundState
<1>2. PICK e \in Seq(Nat) : e = <<>> /\ Len(e) = 0
  BY EmptySeq
<1>3. t \in StateSet
  BY <1>1, <1>2, Updates
<1>4. /\ t.current = s.current /\ t.wire = s.wire /\ t.out = s.out /\ t.seq = s.seq
      /\ t.tool_items = s.tool_items /\ t.tool_ids = s.tool_ids
      /\ t.open_tools = e /\ SameAccount(s, t)
  BY <1>1, <1>2 DEF StateSet, SameAccount
<1>5. Pointed(t)
  BY <1>1, <1>2, <1>4 DEF Pointed
<1> QED
  BY <1>1, <1>3, <1>4, <1>5, SoundWith

(* No call is named twice among the open ones *)
OnceEach(s) ==
  \A j, k \in 1 .. Len(s.open_tools) : s.open_tools[j] = s.open_tools[k] => j = k

LEMMA CloseToolsSound ==
  ASSUME NEW h, NEW s \in Sound(h)
  PROVE  /\ close_tools(s) \in Sound(h)
         /\ Len(close_tools(s).out) = Len(s.out)
         /\ \A n \in Nat : OnceEach(s) /\ Bracketed(s.wire, n, {s.open_tools[k] : k \in 1 .. Len(s.open_tools)})
              => Bracketed(close_tools(s).wire, n, {})
<1>1. s \in StateSet /\ Pointed(s)
  BY SoundState
<1>2. PICK q \in Seq(Nat) : q = s.open_tools
  BY <1>1, StateFields
<1>3. PICK L \in Nat : L = Len(q)
  OBVIOUS
<1>4. PICK l \in Nat : l = Len(s.out)
  BY <1>1, StateFields
<1>5. \A k \in 1 .. L : q[k] \in 1 .. l
  BY <1>1, <1>2, <1>3, <1>4 DEF Pointed, Call
<1>6. PICK f : /\ close_tools(s) = f[L]
               /\ f[0] = [s EXCEPT !.open_tools = <<>>]
               /\ \A n \in 1 .. L : f[n] = done(f[n - 1], q[n])
  BY <1>1, <1>2, <1>3, CloseToolsIs
<1> DEFINE Good(i) == f[i] \in Sound(h) /\ Len(f[i].out) = l
           Bad == {i \in 0 .. L : ~Good(i)}
<1>7. Good(0)
  BY <1>4, <1>6, ToolsReset
<1>8. Bad = {}
  <2>1. SUFFICES ASSUME Bad # {} PROVE FALSE
    OBVIOUS
  <2>2. PICK m \in Bad : \A k \in Bad : m <= k
    <3>1. Bad \subseteq Nat
      OBVIOUS
    <3> HIDE DEF Bad
    <3> QED
      BY <2>1, <3>1, LeastNat
  <2>3. m \in 0 .. L /\ ~Good(m)
    BY <2>2
  <2>4. m # 0
    BY <1>7, <2>3
  <2>5. PICK p \in Nat : p = m - 1 /\ p \in 0 .. L /\ m \in 1 .. L /\ p < m
    BY <2>3, <2>4
  <2>6. Good(p)
    BY <2>2, <2>5
  <2>7. PICK pos \in 1 .. Len(f[p].out) : pos = q[m]
    BY <1>5, <2>5, <2>6
  <2>8. done(f[p], pos) \in Sound(h) /\ SameItems(f[p], done(f[p], pos))
    BY <2>6, DoneSound
  <2>9. f[m] = done(f[p], pos)
    BY <1>6, <2>5, <2>7
  <2>10. Good(m)
    BY <2>6, <2>8, <2>9 DEF SameItems
  <2> QED
    BY <2>3, <2>10
<1>9. \A i \in 0 .. L : Good(i)
  BY <1>8
<1>10. L \in 0 .. L
  OBVIOUS
<1>11. close_tools(s) \in Sound(h) /\ Len(close_tools(s).out) = Len(s.out)
  BY <1>4, <1>6, <1>9, <1>10
<1>12. ASSUME NEW n \in Nat, OnceEach(s),
              Bracketed(s.wire, n, {q[k] : k \in 1 .. L})
       PROVE  Bracketed(f[L].wire, n, {})
  <2> DEFINE Rest(i) == {q[k] : k \in i + 1 .. L}
             Fine(i) == Bracketed(f[i].wire, n, Rest(i))
             Worse == {i \in 0 .. L : ~Fine(i)}
  <2>1. Fine(0)
    <3>1. f[0].wire = s.wire
      BY <1>6, ToolsReset
    <3>2. Rest(0) = {q[k] : k \in 1 .. L}
      OBVIOUS
    <3> QED
      BY <1>12, <3>1, <3>2
  <2>2. Worse = {}
    <3>1. SUFFICES ASSUME Worse # {} PROVE FALSE
      OBVIOUS
    <3>2. PICK m \in Worse : \A k \in Worse : m <= k
      <4>1. Worse \subseteq Nat
        OBVIOUS
      <4> HIDE DEF Worse
      <4> QED
        BY <3>1, <4>1, LeastNat
    <3>3. m \in 0 .. L /\ ~Fine(m)
      BY <3>2
    <3>4. m # 0
      BY <2>1, <3>3
    <3>5. PICK p \in Nat : p = m - 1 /\ p \in 0 .. L /\ m \in 1 .. L /\ p < m /\ m = p + 1
      BY <3>3, <3>4
    <3>6. Fine(p)
      <4>1. p \in 0 .. L /\ ~(m <= p)
        BY <3>5
      <4>2. p \notin Worse
        <5> HIDE DEF Worse
        <5> QED
          BY <3>2, <4>1
      <4> HIDE DEF Fine
      <4> QED
        BY <4>1, <4>2
    <3>7. f[p] \in Sound(h) /\ Len(f[p].out) = l
      BY <1>9, <3>5
    <3>8. f[p] \in StateSet
      BY <3>7, SoundState
    <3>9. PICK pos \in 1 .. Len(f[p].out) : pos = q[m]
      BY <1>5, <3>5, <3>7
    <3>10. pos \in Rest(p)
      <4>1. m \in p + 1 .. L
        BY <3>5
      <4> QED
        BY <3>9, <4>1
    <3>11. Rest(p) \ {pos} = Rest(m)
      <4>1. ASSUME NEW k \in p + 1 .. L PROVE q[k] = pos <=> k = m
        <5>1. k \in 1 .. L
          BY <3>5
        <5> QED
          BY <1>2, <1>3, <1>12, <3>5, <3>9, <5>1 DEF OnceEach
      <4>2. \A k \in p + 1 .. L : k # m <=> k \in m + 1 .. L
        BY <3>5
      <4>3. \A k \in m + 1 .. L : k \in p + 1 .. L
        BY <3>5
      <4> QED
        BY <4>1, <4>2, <4>3
    <3> HIDE DEF Rest
    <3>12. Bracketed(done(f[p], pos).wire, n, Rest(p) \ {pos})
      BY <3>6, <3>8, <3>10, DoneBracketed
    <3>13. f[m] = done(f[p], pos)
      BY <1>6, <3>5, <3>9
    <3>14. Fine(m)
      BY <3>11, <3>12, <3>13
    <3> QED
      BY <3>3, <3>14
  <2>3. Fine(L)
    BY <1>10, <2>2
  <2>4. Rest(L) = {}
    OBVIOUS
  <2> QED
    BY <2>3, <2>4
<1> QED
  BY <1>2, <1>3, <1>6, <1>11, <1>12

-----------------------------------------------------------------------------
(* The items that are open, and the calls that arguments may still reach *)
Called(s) == {s.open_tools[k] : k \in 1 .. Len(s.open_tools)}

Current(s) == IF s.current = NoPos THEN {} ELSE {s.current}

Handy(s) ==
  /\ OnceEach(s)
  /\ \A i \in DOMAIN s.tool_items : s.tool_items[i] \in Called(s)
  /\ \A i \in DOMAIN s.tool_ids : s.tool_ids[i] \in Called(s)

Woven(s) == Bracketed(s.wire, Len(s.out), Called(s) \cup Current(s)) /\ Handy(s)

(* The states of a turn under way: what was sent is sound, and until the   *)
(* terminal every item is either done or open.                             *)
Framing(h) == {s \in Sound(h) : h.sent \/ Woven(s)}

LEMMA FramingState ==
  ASSUME NEW h, NEW s \in Framing(h)
  PROVE  /\ s \in Sound(h) /\ s \in StateSet /\ Pointed(s) /\ Agrees(s.out, s.wire)
         /\ ~s.first /\ s.wire # <<>> /\ Account(s) = h
         /\ h.sent \/ Woven(s)
  BY SoundState DEF Framing

(* The open item is not one of the open calls *)
LEMMA Apart ==
  ASSUME NEW s \in StateSet, Pointed(s)
  PROVE  s.current \notin Called(s) /\ Called(s) \subseteq 1 .. Len(s.out)
<1>1. \A k \in 1 .. Len(s.open_tools) : Call(s.out, s.open_tools[k])
  BY DEF Pointed
<1>2. ASSUME NEW k \in 1 .. Len(s.open_tools), s.current = s.open_tools[k] PROVE FALSE
  <2>1. s.open_tools[k] \in 1 .. Len(s.out) /\ s.out[s.open_tools[k]].type = "function_call"
    BY <1>1 DEF Call
  <2>2. s.current # NoPos
    BY <1>2, <2>1 DEF NoPos
  <2> QED
    BY <1>2, <2>1, <2>2 DEF Pointed
<1> QED
  BY <1>1, <1>2 DEF Called, Call

LEMMA CloseCurrentFraming ==
  ASSUME NEW h, NEW s \in Framing(h)
  PROVE  close_current(s) \in Framing(h) /\ Settled(s, close_current(s))
<1>1. /\ s \in Sound(h) /\ s \in StateSet /\ Pointed(s) /\ (h.sent \/ Woven(s))
  BY FramingState
<1>2. PICK t : t = close_current(s)
  OBVIOUS
<1>3. t \in Sound(h) /\ Settled(s, t)
  BY <1>1, <1>2, CloseCurrentSound
<1>4. ASSUME ~h.sent PROVE Woven(t)
  <2>1. PICK O : O = Called(s) \cup Current(s)
    OBVIOUS
  <2>2. PICK n \in Nat : n = Len(s.out)
    BY <1>1, StateFields
  <2>3. Bracketed(s.wire, n, O) /\ Handy(s)
    BY <1>1, <1>4, <2>1, <2>2 DEF Woven
  <2>4. s.current # NoPos => s.current \in O
    BY <2>1 DEF Current
  <2>5. Bracketed(t.wire, n, O \ {s.current})
    BY <1>1, <1>2, <2>3, <2>4, CloseCurrentBracketed
  <2>6. Called(t) = Called(s) /\ Current(t) = {} /\ Len(t.out) = n
    BY <1>3, <2>2 DEF Settled, Called, Current
  <2>7. O \ {s.current} = Called(t) \cup Current(t)
    BY <1>1, <2>1, <2>6, Apart DEF Current
  <2>8. Handy(t)
    BY <1>3, <2>3, <2>6 DEF Handy, OnceEach, Settled
  <2> QED
    BY <2>5, <2>6, <2>7, <2>8 DEF Woven
<1> QED
  BY <1>2, <1>3, <1>4 DEF Framing

-----------------------------------------------------------------------------
(* A new message or reasoning item *)
Opened(s, t, pos, item) ==
  /\ t = [s EXCEPT !.out = Append(s.out, item), !.current = pos]
  /\ pos = Len(s.out) + 1

LEMMA OpenedSound ==
  ASSUME NEW h, NEW s \in Sound(h), NEW item \in ItemSet, item.text = <<>>,
         item.type # "function_call", NEW pos, NEW t, Opened(s, t, pos, item)
  PROVE  /\ t \in Sound(h)
         /\ t.wire = s.wire /\ t.current = pos /\ pos \in 1 .. Len(t.out)
         /\ Len(t.out) = Len(s.out) + 1
         /\ t.tool_items = s.tool_items /\ t.tool_ids = s.tool_ids
         /\ t.open_tools = s.open_tools
<1>1. s \in StateSet /\ Pointed(s) /\ Agrees(s.out, s.wire)
  BY SoundState
<1>2. s.out \in Seq(ItemSet) /\ s.wire \in Seq(FrameSet)
  BY <1>1, StateFields
<1>3. PICK n \in Nat : n = Len(s.out)
  BY <1>2
<1>4. PICK p : p = Append(s.out, item)
  OBVIOUS
<1>5. /\ p \in Seq(ItemSet) /\ Len(p) = n + 1 /\ p[n + 1] = item
      /\ \A k \in 1 .. n : p[k] = s.out[k]
  BY <1>2, <1>3, <1>4, Appended
<1>6. t = [s EXCEPT !.out = p, !.current = pos] /\ pos = n + 1
  BY <1>3, <1>4 DEF Opened
<1>12. pos \in Nat
  BY <1>6
<1>7. /\ t \in StateSet /\ t.out = p /\ t.current = pos /\ t.wire = s.wire /\ t.seq = s.seq
      /\ t.tool_items = s.tool_items /\ t.tool_ids = s.tool_ids
      /\ t.open_tools = s.open_tools /\ SameAccount(s, t)
  <2>1. t = [s EXCEPT !.out = p, !.current = pos] /\ p \in Seq(ItemSet)
    BY <1>5, <1>6
  <2> QED
    BY <1>1, <1>12, <2>1 DEF StateSet, SameAccount
<1>8. Agrees(t.out, t.wire)
  BY <1>1, <1>2, <1>4, <1>7, AgreesItem
<1>9. Extends(s.out, p)
  BY <1>3, <1>5 DEF Extends
<1>10. Pointed(t)
  <2>1. \A q : Call(s.out, q) => Call(p, q) /\ p[q].id = s.out[q].id
    BY <1>2, <1>5, <1>9, CallStays
  <2>2. pos \in 1 .. Len(p) /\ p[pos].type # "function_call"
    BY <1>5, <1>6
  <2> QED
    BY <1>1, <1>7, <2>1, <2>2 DEF Pointed
<1>11. t \in Sound(h)
  BY <1>1, <1>7, <1>8, <1>10, SoundWith
<1> QED
  BY <1>3, <1>5, <1>6, <1>7, <1>11

(* An added event, or the start of a part, tells nothing *)
LEMMA StartQuiet ==
  ASSUME NEW o \in Seq(ItemSet), NEW f \in FrameSet, f.pos \in 0 .. Len(o),
         f.ev \notin DeltaEvents, f.ev \notin CloseEvents, f.output = <<>>
  PROVE  QuietFor(o, f)
<1>1. DOMAIN f.output = {}
  OBVIOUS
<1> QED
  BY <1>1 DEF QuietFor

(* t is s with a frame like f sent *)
Started(s, t, f) ==
  /\ \E g \in FrameSet : t.wire = Append(s.wire, g) /\ g.ev = f.ev /\ g.pos = f.pos
  /\ t.out = s.out /\ t.current = s.current
  /\ t.tool_items = s.tool_items /\ t.tool_ids = s.tool_ids
  /\ t.open_tools = s.open_tools

LEMMA StartSound ==
  ASSUME NEW h, NEW s \in Sound(h), NEW f \in FrameSet, f.pos \in 0 .. Len(s.out),
         f.ev \notin DeltaEvents, f.ev \notin CloseEvents, f.output = <<>>
  PROVE  Push(s, f) \in Sound(h) /\ Started(s, Push(s, f), f)
<1>1. s \in StateSet /\ s.out \in Seq(ItemSet)
  BY SoundState, StateFields
<1>2. QuietFor(s.out, f)
  BY <1>1, StartQuiet
<1>3. Push(s, f) \in Sound(h)
  BY <1>2, SoundPush
<1>4. PICK g \in FrameSet : g = Stamped(s, f) /\ g.ev = f.ev /\ g.pos = f.pos
  BY <1>1, StampedParts
<1>5. Push(s, f).wire = Append(s.wire, g)
  BY <1>1, <1>4, PushParts
<1> QED
  BY <1>1, <1>3, <1>4, <1>5, PushParts DEF Started

PartAdded(type) == IF type = "message" THEN "content_part.added"
                   ELSE "reasoning_summary_part.added"

LEMMA NewItem ==
  ASSUME NEW h, NEW s \in Framing(h), s.current = NoPos,
         NEW type \in {"message", "reasoning"}, NEW pos, NEW t,
         Opened(s, t, pos, Item(type, NoId))
  PROVE  /\ PushAll(t, <<Added(pos, Item(type, NoId)), Frame(PartAdded(type), pos, <<>>)>>) \in Framing(h)
         /\ PushAll(t, <<Added(pos, Item(type, NoId)), Frame(PartAdded(type), pos, <<>>)>>).current # NoPos
<1>1. /\ s \in Sound(h) /\ s \in StateSet /\ Pointed(s) /\ (h.sent \/ Woven(s))
  BY FramingState
<1>2. PICK item \in ItemSet : item = Item(type, NoId) /\ item.text = <<>> /\ item.type = type
  <2>1. type \in Types /\ NoId \in Nat
    BY DEF Types, NoId
  <2> QED
    BY <2>1, ItemType
<1>3. PICK n \in Nat : n = Len(s.out)
  BY <1>1, StateFields
<1>4. /\ t \in Sound(h) /\ t.wire = s.wire /\ t.current = pos /\ Len(t.out) = n + 1
      /\ t.tool_items = s.tool_items /\ t.tool_ids = s.tool_ids
      /\ t.open_tools = s.open_tools
  BY <1>1, <1>2, <1>3, OpenedSound
<1>5. pos \in Nat /\ pos = n + 1 /\ pos # NoPos /\ pos \in 0 .. Len(t.out)
  BY <1>3, <1>4 DEF Opened, NoPos
<1>6. PICK f \in FrameSet : /\ f = Added(pos, item)
                            /\ f.ev = "output_item.added" /\ f.pos = pos /\ f.output = <<>>
  BY <1>5, AddedType
<1>7. PartAdded(type) \in Evs \ (DeltaEvents \cup CloseEvents \cup Terminals
                                  \cup {"output_item.added", "output_item.done"})
  BY DEF PartAdded, Evs, DeltaEvents, CloseEvents, Terminals
<1>8. PICK g \in FrameSet : /\ g = Frame(PartAdded(type), pos, <<>>)
                            /\ g.ev = PartAdded(type) /\ g.pos = pos /\ g.output = <<>>
  BY <1>5, <1>7, EmptyText, FrameType
<1>9. PICK u : u = Push(t, f)
  OBVIOUS
<1>10. "output_item.added" \notin DeltaEvents \cup CloseEvents
  BY DEF DeltaEvents, CloseEvents
<1>20. u \in Sound(h) /\ Started(t, u, f)
  BY <1>4, <1>5, <1>6, <1>9, <1>10, StartSound
<1>11. /\ u \in Sound(h) /\ u.out = t.out /\ u.current = t.current
       /\ u.tool_items = t.tool_items /\ u.tool_ids = t.tool_ids /\ u.open_tools = t.open_tools
  BY <1>20 DEF Started
<1>12. PICK x \in FrameSet : u.wire = Append(t.wire, x) /\ x.ev = f.ev /\ x.pos = f.pos
  BY <1>20 DEF Started
<1>13. PICK v : v = Push(u, g)
  OBVIOUS
<1>21. v \in Sound(h) /\ Started(u, v, g)
  <2>1. g.pos \in 0 .. Len(u.out)
    BY <1>5, <1>8, <1>11
  <2>2. g.ev \notin DeltaEvents /\ g.ev \notin CloseEvents
    BY <1>7, <1>8
  <2> QED
    BY <1>8, <1>11, <1>13, <2>1, <2>2, StartSound
<1>14. /\ v \in Sound(h) /\ v.out = u.out /\ v.current = u.current
       /\ v.tool_items = u.tool_items /\ v.tool_ids = u.tool_ids /\ v.open_tools = u.open_tools
  BY <1>21 DEF Started
<1>15. PICK y \in FrameSet : v.wire = Append(u.wire, y) /\ y.ev = g.ev /\ y.pos = g.pos
  BY <1>21 DEF Started
<1>16. ASSUME ~h.sent PROVE Woven(v)
  <2>1. s.wire \in Seq(FrameSet) /\ u.wire \in Seq(FrameSet)
    BY <1>1, <1>11, SoundState, StateFields
  <2>2. Bracketed(s.wire, n, Called(s)) /\ Handy(s)
    <3>1. Current(s) = {}
      BY DEF Current
    <3>2. Called(s) \cup Current(s) = Called(s)
      BY <3>1
    <3> QED
      BY <1>1, <1>3, <1>16, <3>2 DEF Woven
  <2>3. Bracketed(u.wire, n + 1, Called(s) \cup {n + 1})
    BY <1>4, <1>5, <1>6, <1>12, <2>1, <2>2, BracketedAdded
  <2>4. y.pos \in (Called(s) \cup {n + 1}) \cup {NoPos}
    BY <1>5, <1>8, <1>15
  <2>5. y.ev \notin Terminals \cup {"output_item.added", "output_item.done"}
    BY <1>7, <1>8, <1>15
  <2>6. n + 1 \in Nat
    OBVIOUS
  <2>7. Bracketed(v.wire, n + 1, Called(s) \cup {n + 1})
    BY <1>15, <2>1, <2>3, <2>4, <2>5, <2>6, BracketedPush
  <2>8. Called(v) = Called(s) /\ Current(v) = {n + 1} /\ Len(v.out) = n + 1
    BY <1>4, <1>5, <1>11, <1>14 DEF Called, Current
  <2>9. Handy(v)
    BY <1>4, <1>11, <1>14, <2>2, <2>8 DEF Handy, OnceEach
  <2> QED
    BY <2>7, <2>8, <2>9 DEF Woven
<1>17. PushAll(t, <<f, g>>) = v
  BY <1>4, <1>9, <1>13, SoundState, PushTwo
<1>18. v \in Framing(h) /\ v.current # NoPos
  BY <1>4, <1>5, <1>11, <1>14, <1>16 DEF Framing
<1> QED
  BY <1>2, <1>6, <1>8, <1>17, <1>18

LEMMA OpenItemFraming ==
  ASSUME NEW h, NEW s \in Framing(h), NEW type \in {"message", "reasoning"}
  PROVE  open_item(s, type) \in Framing(h) /\ open_item(s, type).current # NoPos
<1>1. CASE s.current # NoPos /\ s.out[s.current].type = type
  BY <1>1 DEF open_item
<1>2. CASE ~(s.current # NoPos /\ s.out[s.current].type = type)
  <2>1. PICK t \in Framing(h) : t = close_current(s) /\ t.current = NoPos
    BY CloseCurrentFraming DEF Settled
  <2>2. PICK pos : pos = Len(t.out) + 1
    OBVIOUS
  <2>3. PICK u : u = [t EXCEPT !.out = Append(t.out, Item(type, NoId)), !.current = pos]
    OBVIOUS
  <2>4. Opened(t, u, pos, Item(type, NoId))
    BY <2>2, <2>3 DEF Opened
  <2>5. open_item(s, type) =
          PushAll(u, <<Added(pos, Item(type, NoId)), Frame(PartAdded(type), pos, <<>>)>>)
    BY <1>2, <2>1, <2>2, <2>3, Zenon DEF open_item, PartAdded
  <2> QED
    BY <2>1, <2>4, <2>5, NewItem
<1> QED
  BY <1>1, <1>2

-----------------------------------------------------------------------------
(* Deltas *)
LEMMA AccountOf ==
  ASSUME NEW h, NEW s \in Sound(h)
  PROVE  /\ h = [said |-> h.said, mused |-> h.mused, usage |-> h.usage,
                 finish |-> h.finish, sent |-> h.sent]
         /\ h.said \in Texts /\ h.mused \in Texts
         /\ h.said = Along(Spoken, s.wire) /\ h.mused = Along(Mused, s.wire)
         /\ h.usage = s.usage /\ h.finish = s.saw_finish /\ h.sent = s.completed_sent
<1>1. s \in StateSet /\ Account(s) = h
  BY SoundState
<1>2. s.wire \in Seq(FrameSet)
  BY <1>1, StateFields
<1>3. Along(Spoken, s.wire) \in Seq(Char) /\ Along(Mused, s.wire) \in Seq(Char)
  BY <1>2, SpokenType, AlongType
<1>4. PICK x \in Seq(Char) : x = Along(Spoken, s.wire)
  BY <1>3
<1>5. PICK y \in Seq(Char) : y = Along(Mused, s.wire)
  BY <1>3
<1>6. h = [said |-> x, mused |-> y, usage |-> s.usage, finish |-> s.saw_finish,
           sent |-> s.completed_sent]
  BY <1>1, <1>4, <1>5 DEF Account
<1> QED
  BY <1>4, <1>5, <1>6 DEF Texts

(* Arguments, and texts that are empty, leave the account alone *)
LEMMA CreditNothing ==
  ASSUME NEW h, NEW s \in Sound(h), NEW ev, NEW text,
         text = <<>> \/ ev = "function_call_arguments.delta"
  PROVE  Credit(h, ev, text) = h
<1>1. /\ h = [said |-> h.said, mused |-> h.mused, usage |-> h.usage,
              finish |-> h.finish, sent |-> h.sent]
      /\ h.said \in Texts /\ h.mused \in Texts
  BY AccountOf
<1>2. h.said \o <<>> = h.said /\ h.mused \o <<>> = h.mused
  BY <1>1, ConcatEmptySeq DEF Texts
<1>3. PICK x : x = IF ev = "output_text.delta" THEN h.said \o text ELSE h.said
  OBVIOUS
<1>4. PICK y : y = IF ev = "reasoning_summary_text.delta" THEN h.mused \o text ELSE h.mused
  OBVIOUS
<1>5. x = h.said
  BY <1>2, <1>3
<1>6. y = h.mused
  BY <1>2, <1>4
<1>7. Credit(h, ev, text) = [said |-> x, mused |-> y, usage |-> h.usage,
                             finish |-> h.finish, sent |-> h.sent]
  BY <1>3, <1>4, Zenon DEF Credit
<1> QED
  BY <1>1, <1>5, <1>6, <1>7, Zenon

LEMMA CreditSent ==
  ASSUME NEW h, NEW ev, NEW text
  PROVE  Credit(h, ev, text).sent = h.sent
  BY DEF Credit

LEMMA DeltaFraming ==
  ASSUME NEW h, NEW s \in Framing(h), NEW pos \in 1 .. Len(s.out), NEW ev \in DeltaEvents,
         NEW text \in Texts, h.sent \/ pos \in Called(s) \cup Current(s)
  PROVE  append_text(s, pos, ev, text) \in Framing(Credit(h, ev, text))
<1>1. s \in Sound(h) /\ s \in StateSet /\ (h.sent \/ Woven(s))
  BY FramingState
<1>2. PICK t : t = append_text(s, pos, ev, text)
  OBVIOUS
<1>3. t \in Sound(Credit(h, ev, text))
  BY <1>1, <1>2, SoundDelta
<1>4. SentAndKept(s, t, pos, ev, text)
  BY <1>1, <1>2, AppendParts
<1>5. ASSUME ~h.sent PROVE Woven(t)
  <2>1. PICK n \in Nat : n = Len(s.out)
    BY <1>1, StateFields
  <2>2. PICK O : O = Called(s) \cup Current(s)
    OBVIOUS
  <2>3. Bracketed(s.wire, n, O) /\ Handy(s)
    BY <1>1, <1>5, <2>1, <2>2 DEF Woven
  <2>4. ev \in Evs /\ pos \in Nat
    BY <2>1 DEF Evs
  <2>5. PICK f \in FrameSet : f = Frame(ev, pos, text) /\ f.ev = ev /\ f.pos = pos
    BY <2>4, FrameType
  <2>6. PICK g \in FrameSet : g = Stamped(s, f) /\ g.ev = ev /\ g.pos = pos
    BY <1>1, <2>5, StampedParts
  <2>7. t.wire = Append(s.wire, g)
    BY <1>4, <2>5, <2>6 DEF SentAndKept
  <2>8. g.pos \in O \cup {NoPos}
    BY <1>5, <2>2, <2>6
  <2>9. g.ev \notin Terminals \cup {"output_item.added", "output_item.done"}
    BY <2>6 DEF DeltaEvents, Terminals
  <2>10. s.wire \in Seq(FrameSet)
    BY <1>1, StateFields
  <2>11. Bracketed(t.wire, n, O)
    BY <2>3, <2>7, <2>8, <2>9, <2>10, BracketedPush
  <2>12. /\ t.current = s.current /\ t.tool_items = s.tool_items /\ t.tool_ids = s.tool_ids
         /\ t.open_tools = s.open_tools
    BY <1>4 DEF SentAndKept
  <2>13. Len(t.out) = n
    BY <1>4, <2>1 DEF SentAndKept, Replaced
  <2>14. Called(t) \cup Current(t) = O /\ Handy(t)
    BY <2>2, <2>3, <2>12 DEF Called, Current, Handy, OnceEach
  <2> QED
    BY <2>11, <2>13, <2>14 DEF Woven
<1> QED
  BY <1>2, <1>3, <1>5, CreditSent DEF Framing

(* What a chunk says and what it thinks *)
Saying(c) == c.delta_text
Musing(c) == IF c.thinking.kind = "thinking" THEN c.thinking.text ELSE <<>>

LEMMA ChunkFields ==
  ASSUME NEW c \in CanonChunk
  PROVE  /\ Saying(c) \in Texts /\ Musing(c) \in Texts
         /\ c.thinking.kind = "thinking" => c.thinking.text \in Texts
         /\ c.calls \in Seq(Calls)
         /\ c.usage \in Usages
         /\ c.finish \in FinishReasons \cup {"none"}
  BY EmptyText DEF CanonChunk, Saying, Musing

(* A piece of text or of thinking goes to the open item of its type *)
LEMMA PieceFraming ==
  ASSUME NEW h, NEW s \in Framing(h), NEW type \in {"message", "reasoning"},
         NEW ev \in DeltaEvents, NEW text \in Texts
  PROVE  append_text(open_item(s, type), open_item(s, type).current, ev, text)
           \in Framing(Credit(h, ev, text))
<1>1. PICK t \in Framing(h) : t = open_item(s, type) /\ t.current # NoPos
  BY OpenItemFraming
<1>2. t \in StateSet /\ Pointed(t)
  BY FramingState
<1>3. PICK pos \in 1 .. Len(t.out) : pos = t.current
  BY <1>1, <1>2 DEF Pointed
<1>4. pos \in Current(t)
  BY <1>1, <1>3 DEF Current
<1>5. append_text(t, pos, ev, text) \in Framing(Credit(h, ev, text))
  BY <1>4, DeltaFraming
<1> QED
  BY <1>1, <1>3, <1>5

LEMMA TextSection ==
  ASSUME NEW h, NEW s \in Framing(h), NEW c \in CanonChunk
  PROVE  text_section(s, c) \in Framing(Credit(h, "output_text.delta", Saying(c)))
<1>1. s \in Sound(h) /\ Saying(c) \in Texts
  BY FramingState, ChunkFields
<1>2. CASE c.delta_text = <<>>
  <2>1. Credit(h, "output_text.delta", Saying(c)) = h
    BY <1>1, <1>2, CreditNothing DEF Saying
  <2> QED
    BY <1>2, <2>1 DEF text_section
<1>3. CASE c.delta_text # <<>>
  <2>1. "output_text.delta" \in DeltaEvents
    BY DEF DeltaEvents
  <2>2. text_section(s, c) =
          append_text(open_item(s, "message"), open_item(s, "message").current,
                      "output_text.delta", Saying(c))
    BY <1>3 DEF text_section, Saying
  <2> QED
    BY <1>1, <2>1, <2>2, PieceFraming
<1> QED
  BY <1>2, <1>3

LEMMA ThinkingSection ==
  ASSUME NEW h, NEW s \in Framing(h), NEW c \in CanonChunk
  PROVE  thinking_section(s, c)
           \in Framing(Credit(h, "reasoning_summary_text.delta", Musing(c)))
<1>1. s \in Sound(h) /\ Musing(c) \in Texts
  BY FramingState, ChunkFields
<1>2. CASE c.thinking.kind # "thinking"
  <2>1. Credit(h, "reasoning_summary_text.delta", Musing(c)) = h
    BY <1>1, <1>2, CreditNothing DEF Musing
  <2> QED
    BY <1>2, <2>1 DEF thinking_section
<1>3. CASE c.thinking.kind = "thinking"
  <2>1. "reasoning_summary_text.delta" \in DeltaEvents
    BY DEF DeltaEvents
  <2>2. thinking_section(s, c) =
          append_text(open_item(s, "reasoning"), open_item(s, "reasoning").current,
                      "reasoning_summary_text.delta", Musing(c))
    BY <1>3 DEF thinking_section, Musing
  <2> QED
    BY <1>1, <2>1, <2>2, PieceFraming
<1> QED
  BY <1>2, <1>3

-----------------------------------------------------------------------------
(* Calls *)
Inserted(f, key, val, g) ==
  /\ g \in Maps
  /\ DOMAIN g = DOMAIN f \cup {key}
  /\ g[key] = val
  /\ \A k \in DOMAIN f : k # key => g[k] = f[k]

LEMMA InsertMaps ==
  ASSUME NEW f \in Maps, NEW key \in Nat, NEW val \in Nat
  PROVE  Inserted(f, key, val, Insert(f, key, val))
<1>0. PICK g : g = Insert(f, key, val)
  OBVIOUS
<1>1. PICK D \in SUBSET Nat : f \in [D -> Nat]
  BY DEF Maps
<1>2. D \cup {key} \in SUBSET Nat /\ DOMAIN f = D
  BY <1>1
<1>3. g \in [D \cup {key} -> Nat]
  BY <1>0, <1>1, <1>2 DEF Insert
<1>4. g \in Maps
  BY <1>2, <1>3 DEF Maps
<1> QED
  BY <1>0, <1>4 DEF Insert, Inserted

(* A call opened with tc *)
CallOpened(s, tc, t, pos, ids) ==
  /\ pos = Len(s.out) + 1
  /\ ids = (IF tc.id # NoId THEN Insert(s.tool_ids, tc.id, pos) ELSE s.tool_ids)
  /\ t = [s EXCEPT !.out = Append(s.out, Item("function_call", tc.id)),
                   !.tool_items = Insert(s.tool_items, tc.index, pos),
                   !.tool_ids = ids,
                   !.open_tools = Append(s.open_tools, pos)]

(* What it adds to the state *)
CallKept(s, t) ==
  /\ t.wire = s.wire /\ t.current = s.current
  /\ Len(t.out) = Len(s.out) + 1
  /\ Len(t.open_tools) = Len(s.open_tools) + 1
  /\ t.open_tools[Len(s.open_tools) + 1] = Len(s.out) + 1
  /\ \A k \in 1 .. Len(s.open_tools) : t.open_tools[k] = s.open_tools[k]
  /\ \A i \in DOMAIN t.tool_items :
       \/ t.tool_items[i] = Len(s.out) + 1
       \/ i \in DOMAIN s.tool_items /\ t.tool_items[i] = s.tool_items[i]
  /\ \A i \in DOMAIN t.tool_ids :
       \/ t.tool_ids[i] = Len(s.out) + 1
       \/ i \in DOMAIN s.tool_ids /\ t.tool_ids[i] = s.tool_ids[i]

LEMMA CallOpenedSound ==
  ASSUME NEW h, NEW s \in Sound(h), NEW tc \in Calls, NEW t, NEW pos, NEW ids,
         CallOpened(s, tc, t, pos, ids)
  PROVE  t \in Sound(h) /\ CallKept(s, t)
<1>1. s \in StateSet /\ Pointed(s) /\ Agrees(s.out, s.wire)
  BY SoundState
<1>2. /\ s.out \in Seq(ItemSet) /\ s.wire \in Seq(FrameSet) /\ s.open_tools \in Seq(Nat)
      /\ s.tool_items \in Maps /\ s.tool_ids \in Maps
  BY <1>1, StateFields
<1>3. PICK n \in Nat : n = Len(s.out)
  BY <1>2
<1>4. PICK L \in Nat : L = Len(s.open_tools)
  BY <1>2
<1>5. tc.id \in Nat /\ tc.index \in Nat
  BY DEF Calls
<1>6. PICK item \in ItemSet : /\ item = Item("function_call", tc.id)
                              /\ item.type = "function_call" /\ item.id = tc.id /\ item.text = <<>>
  BY <1>5, ItemType DEF Types
<1>7. pos \in Nat /\ pos = n + 1
  BY <1>3 DEF CallOpened
<1>8. PICK p : p = Append(s.out, item)
  OBVIOUS
<1>9. /\ p \in Seq(ItemSet) /\ Len(p) = n + 1 /\ p[n + 1] = item
      /\ \A k \in 1 .. n : p[k] = s.out[k]
  BY <1>2, <1>3, <1>8, Appended
<1>10. PICK q : q = Append(s.open_tools, pos)
  OBVIOUS
<1>11. /\ q \in Seq(Nat) /\ Len(q) = L + 1 /\ q[L + 1] = pos
       /\ \A k \in 1 .. L : q[k] = s.open_tools[k]
  BY <1>2, <1>4, <1>7, <1>10, Appended
<1>23. PICK items : items = Insert(s.tool_items, tc.index, pos)
  OBVIOUS
<1>24. Inserted(s.tool_items, tc.index, pos, items)
  BY <1>2, <1>5, <1>7, <1>23, InsertMaps
<1>12. /\ items \in Maps
       /\ DOMAIN items = DOMAIN s.tool_items \cup {tc.index}
       /\ items[tc.index] = pos
       /\ \A k \in DOMAIN s.tool_items : k # tc.index => items[k] = s.tool_items[k]
  BY <1>24 DEF Inserted
<1>13. /\ ids \in Maps
       /\ \A i \in DOMAIN ids : \/ i = tc.id /\ ids[i] = pos
                                \/ i \in DOMAIN s.tool_ids /\ ids[i] = s.tool_ids[i]
  <2>1. CASE tc.id = NoId
    BY <1>2, <2>1 DEF CallOpened
  <2>2. CASE tc.id # NoId
    <3>1. ids = Insert(s.tool_ids, tc.id, pos)
      BY <2>2 DEF CallOpened
    <3>2. Inserted(s.tool_ids, tc.id, pos, ids)
      BY <1>2, <1>5, <1>7, <3>1, InsertMaps
    <3> QED
      BY <3>2 DEF Inserted
  <2> QED
    BY <2>1, <2>2
<1>14. t = [s EXCEPT !.out = p, !.tool_items = items, !.tool_ids = ids, !.open_tools = q]
  BY <1>6, <1>8, <1>10, <1>23, Zenon DEF CallOpened
<1>15. /\ t \in StateSet /\ t.out = p /\ t.current = s.current /\ t.wire = s.wire /\ t.seq = s.seq
       /\ t.tool_items = items /\ t.tool_ids = ids /\ t.open_tools = q /\ SameAccount(s, t)
  <2>1. p \in Seq(ItemSet) /\ items \in Maps /\ ids \in Maps /\ q \in Seq(Nat)
    BY <1>9, <1>11, <1>12, <1>13
  <2> QED
    BY <1>1, <1>14, <2>1 DEF StateSet, SameAccount
<1>16. Agrees(t.out, t.wire)
  BY <1>1, <1>2, <1>6, <1>8, <1>15, AgreesItem
<1>17. Extends(s.out, p)
  BY <1>3, <1>9 DEF Extends
<1>18. \A m : Call(s.out, m) => Call(p, m) /\ p[m].id = s.out[m].id
  BY <1>2, <1>9, <1>17, CallStays
<1>19. Call(p, pos) /\ p[pos].id = tc.id
  BY <1>6, <1>7, <1>9 DEF Call
<1>20. Pointed(t)
  <2>1. t.current # NoPos => t.current \in 1 .. Len(p) /\ p[t.current].type # "function_call"
    BY <1>1, <1>3, <1>9, <1>15 DEF Pointed
  <2>2. \A i \in DOMAIN items : Call(p, items[i])
    BY <1>1, <1>12, <1>18, <1>19 DEF Pointed
  <2>3. \A i \in DOMAIN ids : Call(p, ids[i]) /\ p[ids[i]].id = i
    BY <1>1, <1>13, <1>18, <1>19 DEF Pointed
  <2>4. \A k \in 1 .. Len(q) : Call(p, q[k])
    <3> TAKE k \in 1 .. Len(q)
    <3>1. k \in 1 .. L \/ k = L + 1
      BY <1>11
    <3> QED
      BY <1>1, <1>4, <1>11, <1>18, <1>19, <3>1 DEF Pointed
  <2> QED
    BY <1>1, <1>15, <2>1, <2>2, <2>3, <2>4 DEF Pointed
<1>21. t \in Sound(h)
  BY <1>1, <1>15, <1>16, <1>20, SoundWith
<1>22. CallKept(s, t)
  BY <1>3, <1>4, <1>7, <1>9, <1>11, <1>12, <1>13, <1>15 DEF CallKept
<1> QED
  BY <1>21, <1>22

(* The position a call is known by when its name is heard *)
Known(s, tc) ==
  IF tc.id # NoId THEN Lookup(s.tool_ids, tc.id) ELSE Lookup(s.tool_items, tc.index)

(* A sound state without an open item in which all of n items but the last *)
(* have begun, and only the calls before the last are open                 *)
LEMMA CallFraming ==
  ASSUME NEW h, NEW s \in Framing(h), NEW tc \in Calls, NEW t, NEW pos, NEW ids,
         CallOpened(s, tc, t, pos, ids)
  PROVE  Push(close_current(t), Added(pos, Item("function_call", tc.id))) \in Framing(h)
<1>1. /\ s \in Sound(h) /\ s \in StateSet /\ Pointed(s) /\ (h.sent \/ Woven(s))
  BY FramingState
<1>2. PICK n \in Nat : n = Len(s.out)
  BY <1>1, StateFields
<1>3. PICK L \in Nat : L = Len(s.open_tools)
  BY <1>1, StateFields
<1>4. t \in Sound(h) /\ CallKept(s, t)
  BY <1>1, CallOpenedSound
<1>5. PICK u : u = close_current(t)
  OBVIOUS
<1>6. u \in Sound(h) /\ Settled(t, u)
  BY <1>4, <1>5, CloseCurrentSound
<1>7. pos \in Nat /\ pos = n + 1
  BY <1>2 DEF CallOpened
<1>8. Len(u.out) = n + 1
  BY <1>2, <1>4, <1>6 DEF CallKept, Settled
<1>9. PICK item \in ItemSet : item = Item("function_call", tc.id)
  <2>1. tc.id \in Nat /\ "function_call" \in Types
    BY DEF Calls, Types
  <2> QED
    BY <2>1, ItemType
<1>10. PICK f \in FrameSet : /\ f = Added(pos, item)
                             /\ f.ev = "output_item.added" /\ f.pos = pos /\ f.output = <<>>
  BY <1>7, AddedType
<1>11. PICK v : v = Push(u, f)
  OBVIOUS
<1>12. v \in Sound(h) /\ Started(u, v, f)
  <2>1. f.pos \in 0 .. Len(u.out)
    BY <1>7, <1>8, <1>10
  <2>2. f.ev \notin DeltaEvents /\ f.ev \notin CloseEvents
    BY <1>10 DEF DeltaEvents, CloseEvents
  <2> QED
    BY <1>6, <1>10, <1>11, <2>1, <2>2, StartSound
<1>13. PICK x \in FrameSet : v.wire = Append(u.wire, x) /\ x.ev = f.ev /\ x.pos = f.pos
  BY <1>12 DEF Started
<1>14. ASSUME ~h.sent PROVE Woven(v)
  <2>1. PICK O : O = Called(s) \cup Current(s)
    OBVIOUS
  <2>2. Bracketed(s.wire, n, O) /\ Handy(s)
    BY <1>1, <1>2, <1>14, <2>1 DEF Woven
  <2>3. t.wire = s.wire /\ t.current = s.current
    BY <1>4 DEF CallKept
  <2>4. t.current # NoPos => t.current \in O
    BY <2>1, <2>3 DEF Current
  <2>5. Bracketed(u.wire, n, O \ {t.current})
    BY <1>4, <1>5, <2>2, <2>3, <2>4, CloseCurrentBracketed
  <2>6. O \ {t.current} = Called(s)
    BY <1>1, <2>1, <2>3, Apart DEF Current
  <2>7. u.wire \in Seq(FrameSet)
    BY <1>6, SoundState, StateFields
  <2>8. Bracketed(v.wire, n + 1, Called(s) \cup {n + 1})
    BY <1>7, <1>10, <1>13, <2>5, <2>6, <2>7, BracketedAdded
  <2>9. v.open_tools = t.open_tools /\ v.current = NoPos /\ Len(v.out) = n + 1
        /\ v.tool_items = t.tool_items /\ v.tool_ids = t.tool_ids
    BY <1>6, <1>8, <1>12 DEF Started, Settled
  <2>10. /\ Len(t.open_tools) = L + 1 /\ t.open_tools[L + 1] = n + 1
         /\ \A k \in 1 .. L : t.open_tools[k] = s.open_tools[k]
         /\ \A i \in DOMAIN t.tool_items :
              \/ t.tool_items[i] = n + 1
              \/ i \in DOMAIN s.tool_items /\ t.tool_items[i] = s.tool_items[i]
         /\ \A i \in DOMAIN t.tool_ids :
              \/ t.tool_ids[i] = n + 1
              \/ i \in DOMAIN s.tool_ids /\ t.tool_ids[i] = s.tool_ids[i]
    BY <1>2, <1>3, <1>4 DEF CallKept
  <2>11. \A k \in 1 .. L + 1 : k \in 1 .. L \/ k = L + 1
    OBVIOUS
  <2>12. \A k \in 1 .. L : k \in 1 .. L + 1
    OBVIOUS
  <2>13. L + 1 \in 1 .. L + 1
    OBVIOUS
  <2>14. Called(v) = Called(s) \cup {n + 1}
    <3>1. \A k \in 1 .. L + 1 : t.open_tools[k] \in Called(s) \cup {n + 1}
      BY <1>3, <2>10, <2>11 DEF Called
    <3>2. \A k \in 1 .. L : s.open_tools[k] \in {t.open_tools[j] : j \in 1 .. L + 1}
      BY <2>10, <2>12
    <3>3. n + 1 \in {t.open_tools[j] : j \in 1 .. L + 1}
      BY <2>10, <2>13
    <3>4. Called(v) = {t.open_tools[j] : j \in 1 .. L + 1}
      BY <2>9, <2>10 DEF Called
    <3>5. Called(s) = {s.open_tools[j] : j \in 1 .. L}
      BY <1>3 DEF Called
    <3> QED
      BY <3>1, <3>2, <3>3, <3>4, <3>5
  <2>15. Handy(v)
    <3>1. n + 1 \notin Called(s)
      <4>1. Called(s) \subseteq 1 .. n
        BY <1>1, <1>2, Apart
      <4> QED
        BY <4>1
    <3>2. ASSUME NEW j \in 1 .. L + 1, NEW k \in 1 .. L + 1, t.open_tools[j] = t.open_tools[k]
          PROVE  j = k
      <4>1. CASE j \in 1 .. L /\ k \in 1 .. L
        BY <1>3, <2>2, <2>10, <3>2, <4>1 DEF Handy, OnceEach
      <4>2. \A i \in 1 .. L : t.open_tools[i] \in Called(s)
        BY <1>3, <2>10 DEF Called
      <4>3. CASE j \notin 1 .. L \/ k \notin 1 .. L
        BY <2>10, <2>11, <3>1, <3>2, <4>2, <4>3
      <4> QED
        BY <4>1, <4>3
    <3>3. OnceEach(v)
      BY <2>9, <2>10, <3>2 DEF OnceEach
    <3>4. \A i \in DOMAIN v.tool_items : v.tool_items[i] \in Called(v)
      BY <2>2, <2>9, <2>10, <2>14 DEF Handy
    <3>5. \A i \in DOMAIN v.tool_ids : v.tool_ids[i] \in Called(v)
      BY <2>2, <2>9, <2>10, <2>14 DEF Handy
    <3> QED
      BY <3>3, <3>4, <3>5 DEF Handy
  <2>16. Current(v) = {}
    BY <2>9 DEF Current
  <2>17. Called(v) \cup Current(v) = Called(s) \cup {n + 1}
    BY <2>14, <2>16
  <2> QED
    BY <2>8, <2>9, <2>15, <2>17 DEF Woven
<1>15. v \in Framing(h)
  BY <1>12, <1>14 DEF Framing
<1> QED
  BY <1>5, <1>9, <1>10, <1>11, <1>15

LEMMA OpenCallFraming ==
  ASSUME NEW h, NEW s \in Framing(h), NEW tc \in Calls
  PROVE  open_call(s, tc) \in Framing(h)
<1>1. CASE Known(s, tc) # NoPos
  BY <1>1, Zenon DEF open_call, Known
<1>2. CASE Known(s, tc) = NoPos
  <2>1. PICK pos : pos = Len(s.out) + 1
    OBVIOUS
  <2>2. PICK ids : ids = IF tc.id # NoId THEN Insert(s.tool_ids, tc.id, pos) ELSE s.tool_ids
    OBVIOUS
  <2>3. PICK t : t = [s EXCEPT !.out = Append(s.out, Item("function_call", tc.id)),
                               !.tool_items = Insert(s.tool_items, tc.index, pos),
                               !.tool_ids = ids,
                               !.open_tools = Append(s.open_tools, pos)]
    OBVIOUS
  <2>4. CallOpened(s, tc, t, pos, ids)
    BY <2>1, <2>2, <2>3 DEF CallOpened
  <2>5. open_call(s, tc) = Push(close_current(t), Added(pos, Item("function_call", tc.id)))
    BY <1>2, <2>1, <2>2, <2>3, Zenon DEF open_call, Known
  <2> QED
    BY <2>4, <2>5, CallFraming
<1> QED
  BY <1>1, <1>2

(* Where arguments go *)
LEMMA ResolvedCall ==
  ASSUME NEW h, NEW s \in Framing(h), NEW tc, NEW pos, pos = resolved(s, tc), pos # NoPos
  PROVE  pos \in 1 .. Len(s.out) /\ (h.sent \/ pos \in Called(s))
<1>1. Pointed(s) /\ (h.sent \/ Woven(s))
  BY FramingState
<1>2. \/ \E i \in DOMAIN s.tool_ids : pos = s.tool_ids[i]
      \/ \E i \in DOMAIN s.tool_items : pos = s.tool_items[i]
  BY DEF resolved, Lookup
<1>3. pos \in 1 .. Len(s.out)
  BY <1>1, <1>2 DEF Pointed, Call
<1>4. Woven(s) => pos \in Called(s)
  BY <1>2 DEF Woven, Handy
<1> QED
  BY <1>1, <1>3, <1>4

LEMMA ToolDelta ==
  ASSUME NEW h, NEW s \in Framing(h), NEW tc \in Calls
  PROVE  tool_delta(s, tc) \in Framing(h)
<1>1. PICK t \in Framing(h) : t = IF tc.name THEN open_call(s, tc) ELSE s
  BY OpenCallFraming
<1>2. PICK pos : pos = resolved(t, tc)
  OBVIOUS
<1>3. tool_delta(s, tc) = IF tc.args = <<>> \/ pos = NoPos THEN t
                          ELSE append_text(t, pos, "function_call_arguments.delta", tc.args)
  BY <1>1, <1>2, Zenon DEF tool_delta
<1>4. CASE tc.args = <<>> \/ pos = NoPos
  BY <1>3, <1>4
<1>5. CASE ~(tc.args = <<>> \/ pos = NoPos)
  <2>1. pos \in 1 .. Len(t.out) /\ (h.sent \/ pos \in Called(t))
    BY <1>2, <1>5, ResolvedCall
  <2>2. tc.args \in Texts
    BY DEF Calls
  <2>3. "function_call_arguments.delta" \in DeltaEvents
    BY DEF DeltaEvents
  <2>4. append_text(t, pos, "function_call_arguments.delta", tc.args)
          \in Framing(Credit(h, "function_call_arguments.delta", tc.args))
    BY <2>1, <2>2, <2>3, DeltaFraming
  <2>5. t \in Sound(h)
    BY FramingState
  <2>6. Credit(h, "function_call_arguments.delta", tc.args) = h
    BY <2>5, CreditNothing
  <2> QED
    BY <1>3, <1>5, <2>4, <2>6
<1> QED
  BY <1>4, <1>5

(* The calls of a chunk, one after another *)
Feeding(s, q, N, f) ==
  f = [n \in 0 .. N |-> IF n = 0 THEN s ELSE tool_delta(f[n - 1], q[n])]

LEMMA FeedingExists ==
  ASSUME NEW s, NEW q, NEW N \in Nat
  PROVE  \E f : Feeding(s, q, N, f)
<1> DEFINE Bad == {m \in 0 .. N : ~\E f : Feeding(s, q, m, f)}
<1>1. SUFFICES ASSUME Bad # {} PROVE FALSE
  <2>1. N \in 0 .. N
    OBVIOUS
  <2> QED
    BY <1>1, <2>1
<1>2. PICK m \in Bad : \A k \in Bad : m <= k
  <2>1. Bad \subseteq Nat
    OBVIOUS
  <2> HIDE DEF Bad
  <2> QED
    BY <1>1, <2>1, LeastNat
<1>3. CASE m = 0
  <2>1. PICK f : f = [n \in 0 .. 0 |-> s]
    OBVIOUS
  <2>2. Feeding(s, q, 0, f)
    BY <2>1 DEF Feeding
  <2> QED
    BY <1>2, <1>3, <2>2
<1>4. CASE m # 0
  <2>1. PICK p \in Nat : p = m - 1 /\ m = p + 1 /\ p \in 0 .. N
    BY <1>2, <1>4
  <2>2. p \notin Bad
    <3> HIDE DEF Bad
    <3> QED
      BY <1>2, <2>1
  <2>3. PICK f : Feeding(s, q, p, f)
    BY <2>1, <2>2
  <2>4. PICK last : last = tool_delta(f[p], q[p + 1])
    OBVIOUS
  <2>5. PICK g : g = [n \in 0 .. p + 1 |-> IF n = p + 1 THEN last ELSE f[n]]
    OBVIOUS
  <2>6. \A n \in 0 .. p : g[n] = f[n]
    BY <2>5
  <2>7. ASSUME NEW n \in 0 .. p + 1
        PROVE  g[n] = IF n = 0 THEN s ELSE tool_delta(g[n - 1], q[n])
    <3>1. CASE n = p + 1
      <4>1. g[n] = last /\ n # 0 /\ n - 1 = p
        BY <2>5, <3>1
      <4>2. g[n - 1] = f[p]
        BY <2>6, <4>1
      <4> QED
        BY <2>4, <3>1, <4>1, <4>2
    <3>2. CASE n # p + 1
      <4>1. n \in 0 .. p /\ (n # 0 => n - 1 \in 0 .. p)
        BY <3>2
      <4>2. f[n] = IF n = 0 THEN s ELSE tool_delta(f[n - 1], q[n])
        BY <2>3, <4>1 DEF Feeding
      <4> QED
        BY <2>6, <4>1, <4>2
    <3> QED
      BY <3>1, <3>2
  <2>8. g = [n \in 0 .. p + 1 |-> IF n = 0 THEN s ELSE tool_delta(g[n - 1], q[n])]
    BY <2>5, <2>7
  <2>9. Feeding(s, q, m, g)
    BY <2>1, <2>8 DEF Feeding
  <2> QED
    BY <1>2, <2>9
<1> QED
  BY <1>3, <1>4

LEMMA ToolSectionIs ==
  ASSUME NEW s, NEW c, c.calls \in Seq(Calls)
  PROVE  \E f : /\ tool_section(s, c) = f[Len(c.calls)]
                /\ f[0] = s
                /\ \A n \in 1 .. Len(c.calls) : f[n] = tool_delta(f[n - 1], c.calls[n])
<1>1. PICK L \in Nat : L = Len(c.calls)
  OBVIOUS
<1>2. \E g : Feeding(s, c.calls, L, g)
  BY FeedingExists
<1>3. PICK f : f = CHOOSE g : Feeding(s, c.calls, L, g)
  OBVIOUS
<1>4. Feeding(s, c.calls, L, f)
  BY <1>2, <1>3
<1>5. tool_section(s, c) = f[L]
  BY <1>1, <1>3 DEF tool_section, Feeding
<1>6. f[0] = s
  BY <1>4 DEF Feeding
<1>7. \A n \in 1 .. L : f[n] = tool_delta(f[n - 1], c.calls[n])
  BY <1>4 DEF Feeding
<1> QED
  BY <1>1, <1>5, <1>6, <1>7

LEMMA ToolSection ==
  ASSUME NEW h, NEW s \in Framing(h), NEW c \in CanonChunk
  PROVE  tool_section(s, c) \in Framing(h)
<1>1. PICK q \in Seq(Calls) : q = c.calls
  BY ChunkFields
<1>2. PICK L \in Nat : L = Len(q)
  OBVIOUS
<1>3. PICK f : /\ tool_section(s, c) = f[L]
               /\ f[0] = s
               /\ \A n \in 1 .. L : f[n] = tool_delta(f[n - 1], q[n])
  BY <1>1, <1>2, ToolSectionIs
<1> DEFINE Good(i) == f[i] \in Framing(h)
           Bad == {i \in 0 .. L : ~Good(i)}
<1>4. Good(0)
  BY <1>3
<1>5. Bad = {}
  <2>1. SUFFICES ASSUME Bad # {} PROVE FALSE
    OBVIOUS
  <2>2. PICK m \in Bad : \A k \in Bad : m <= k
    <3>1. Bad \subseteq Nat
      OBVIOUS
    <3> HIDE DEF Bad
    <3> QED
      BY <2>1, <3>1, LeastNat
  <2>3. m \in 0 .. L /\ ~Good(m)
    BY <2>2
  <2>4. m # 0
    BY <1>4, <2>3
  <2>5. PICK p \in Nat : p = m - 1 /\ p \in 0 .. L /\ m \in 1 .. L /\ ~(m <= p)
    BY <2>3, <2>4
  <2>6. Good(p)
    <3>1. p \notin Bad
      <4> HIDE DEF Bad
      <4> QED
        BY <2>2, <2>5
    <3> HIDE DEF Good
    <3> QED
      BY <2>5, <3>1
  <2>7. f[m] = tool_delta(f[p], q[m]) /\ q[m] \in Calls
    BY <1>2, <1>3, <2>5
  <2>8. Good(m)
    BY <2>6, <2>7, ToolDelta
  <2> QED
    BY <2>3, <2>8
<1>6. L \in 0 .. L
  OBVIOUS
<1> QED
  BY <1>3, <1>5, <1>6

-----------------------------------------------------------------------------
(* A body whose items are bracketed, whether or not it goes on *)
Kept(w, n) ==
  /\ \A k \in 1 .. Len(w) : w[k].pos \in 0 .. n
  /\ \A pos \in 1 .. n : Begun(w, pos)
  /\ DoneLast(w)
  /\ \A k \in 1 .. Len(w) : w[k].ev = "output_item.done" => w[k].pos # NoPos
  /\ \A t \in 1 .. Len(w) : w[t].ev \in {"completed", "incomplete"} =>
       \A pos \in 1 .. n : \E d \in 1 .. Len(w) :
         d < t /\ w[d].pos = pos /\ w[d].ev = "output_item.done"

LEMMA KeptMidway ==
  ASSUME NEW w \in Seq(FrameSet), NEW n \in Nat, NEW O, Bracketed(w, n, O)
  PROVE  Kept(w, n)
<1>1. \A k \in 1 .. Len(w) : Midway(w[k], n)
  BY DEF Bracketed
<1>2. \A k \in 1 .. Len(w) : w[k].ev \notin {"completed", "incomplete"}
  BY <1>1 DEF Midway, Terminals
<1> QED
  BY <1>1, <1>2 DEF Bracketed, Kept, Midway

(* A frame of no item at the end of a body *)
LEMMA KeptEnd ==
  ASSUME NEW w \in Seq(FrameSet), NEW n \in Nat, Kept(w, n),
         NEW f \in FrameSet, f.pos = NoPos,
         f.ev \notin {"output_item.added", "output_item.done"},
         f.ev \in {"completed", "incomplete"} => \A pos \in 1 .. n : Done(w, pos)
  PROVE  Kept(Append(w, f), n)
<1>1. PICK m \in Nat : m = Len(w)
  OBVIOUS
<1>2. PICK v : v = Append(w, f)
  OBVIOUS
<1>3. Len(v) = m + 1 /\ v[m + 1] = f /\ \A k \in 1 .. m : v[k] = w[k]
  BY <1>1, <1>2, Appended
<1>4. \A k \in 1 .. m + 1 : k = m + 1 \/ k \in 1 .. m
  OBVIOUS
<1>5. ASSUME NEW k \in 1 .. m + 1
      PROVE  v[k].pos \in 0 .. n /\ (v[k].ev = "output_item.done" => v[k].pos # NoPos)
  <2>1. CASE k = m + 1
    BY <1>3, <2>1 DEF NoPos
  <2>2. CASE k \in 1 .. m
    BY <1>1, <1>3, <2>2 DEF Kept
  <2> QED
    BY <1>4, <2>1, <2>2
<1>6. ASSUME NEW pos \in 1 .. n PROVE Begun(v, pos)
  BY <1>2, BegunStays DEF Kept
<1>7. ~Done(w, f.pos)
  BY <1>1 DEF Done, Kept
<1>8. DoneLast(v)
  BY <1>2, <1>7, DoneLastGrows DEF Kept
<1>9. ASSUME NEW t \in 1 .. m + 1, v[t].ev \in {"completed", "incomplete"}, NEW pos \in 1 .. n
      PROVE  \E d \in 1 .. m + 1 : d < t /\ v[d].pos = pos /\ v[d].ev = "output_item.done"
  <2>1. CASE t = m + 1
    <3>1. Done(w, pos)
      BY <1>3, <1>9, <2>1
    <3>2. PICK d \in 1 .. m : w[d].pos = pos /\ w[d].ev = "output_item.done"
      BY <1>1, <3>1 DEF Done
    <3>3. d \in 1 .. m + 1 /\ d < t /\ v[d] = w[d]
      BY <1>3, <2>1
    <3> QED
      BY <3>2, <3>3
  <2>2. CASE t \in 1 .. m
    <3>0. v[t] = w[t]
      BY <1>3, <2>2
    <3>1. PICK d \in 1 .. m : d < t /\ w[d].pos = pos /\ w[d].ev = "output_item.done"
      BY <1>1, <3>0, <1>9, <2>2, SMTT(60) DEF Kept
    <3>2. d \in 1 .. m + 1 /\ v[d] = w[d]
      BY <1>3
    <3> QED
      BY <3>1, <3>2
  <2> QED
    BY <1>4, <2>1, <2>2
<1>10. \A t \in 1 .. m + 1 : v[t].ev \in {"completed", "incomplete"} =>
         \A pos \in 1 .. n : \E d \in 1 .. m + 1 :
           d < t /\ v[d].pos = pos /\ v[d].ev = "output_item.done"
  BY <1>9
<1>11. Kept(v, n)
  BY <1>3, <1>5, <1>6, <1>8, <1>10 DEF Kept
<1> QED
  BY <1>2, <1>11

LEMMA KeptWoven ==
  ASSUME NEW h, NEW s \in Framing(h), ~h.sent
  PROVE  Kept(s.wire, Len(s.out))
<1>1. s \in StateSet /\ Woven(s)
  BY FramingState
<1>2. s.wire \in Seq(FrameSet) /\ Len(s.out) \in Nat
  BY <1>1, StateFields
<1> QED
  BY <1>1, <1>2, KeptMidway DEF Woven

-----------------------------------------------------------------------------
(* The terminal *)
AsSent(h) ==
  [said |-> h.said, mused |-> h.mused, usage |-> h.usage, finish |-> h.finish, sent |-> TRUE]

Verdict(why) == IF Incomplete(why) THEN "incomplete" ELSE "completed"

(* A frame whose status and reason are those of a turn that ended for why *)
Labelled(f, why) == f.status = f.ev /\ f.reason = incomplete_reason(why)

(* The last frame of a body is the terminal that h calls for *)
Concluded(w, h) ==
  /\ w[Len(w)].ev = Verdict(h.finish)
  /\ Labelled(w[Len(w)], h.finish)
  /\ w[Len(w)].usage = wire_usage(h.usage)
  /\ \A pos \in DOMAIN w[Len(w)].output :
       w[Len(w)].output[pos].status \in {"none", w[Len(w)].ev}

LEMMA SentSound ==
  ASSUME NEW h, NEW s \in Sound(h), NEW t, t = [s EXCEPT !.completed_sent = TRUE]
  PROVE  /\ t \in Sound(AsSent(h))
         /\ t.wire = s.wire /\ t.out = s.out /\ t.current = s.current
         /\ t.tool_items = s.tool_items /\ t.tool_ids = s.tool_ids
         /\ t.open_tools = s.open_tools
<1>1. /\ s \in StateSet /\ Pointed(s) /\ Agrees(s.out, s.wire)
      /\ ~s.first /\ s.wire # <<>> /\ Account(s) = h
  BY SoundState
<1>2. t \in StateSet
  BY <1>1, Updates
<1>3. /\ t.wire = s.wire /\ t.out = s.out /\ t.current = s.current /\ t.seq = s.seq
      /\ t.tool_items = s.tool_items /\ t.tool_ids = s.tool_ids
      /\ t.open_tools = s.open_tools /\ t.first = s.first
      /\ t.usage = s.usage /\ t.saw_finish = s.saw_finish /\ t.completed_sent = TRUE
  BY <1>1 DEF StateSet
<1>4. Pointed(t)
  BY <1>1, <1>3 DEF Pointed
<1>5. Account(t) = AsSent(h)
  <2>1. /\ h.said = Along(Spoken, s.wire) /\ h.mused = Along(Mused, s.wire)
        /\ h.usage = s.usage /\ h.finish = s.saw_finish
    BY AccountOf
  <2> QED
    BY <1>3, <2>1, Zenon DEF Account, AsSent
<1> QED
  BY <1>1, <1>2, <1>3, <1>4, <1>5 DEF Sound

WireUsageType(u) == wire_usage(u) \in Usages

LEMMA WireUsage ==
  ASSUME NEW u \in Usages
  PROVE  WireUsageType(u)
  BY DEF Usages, wire_usage, WireUsageType

(* The items as the terminal repeats them *)
FinalOutput(o, ev, p) ==
  /\ p \in Seq(ItemSet) /\ DOMAIN p = 1 .. Len(o)
  /\ \A k \in 1 .. Len(o) : p[k].text = o[k].text /\ p[k].status \in {"none", ev}

LEMMA FinalOutputIs ==
  ASSUME NEW o \in Seq(ItemSet), NEW ev \in {"completed", "incomplete"}, NEW p,
         p = [k \in DOMAIN o |-> IF o[k].status = "none" THEN o[k]
                                 ELSE [o[k] EXCEPT !.status = ev]]
  PROVE  FinalOutput(o, ev, p)
<1>1. PICK n \in Nat : n = Len(o)
  OBVIOUS
<1>2. DOMAIN o = 1 .. n /\ \A k \in 1 .. n : o[k] \in ItemSet
  BY <1>1
<1>3. ASSUME NEW k \in 1 .. n
      PROVE  p[k] \in ItemSet /\ p[k].text = o[k].text /\ p[k].status \in {"none", ev}
  <2>1. PICK item \in ItemSet : item = o[k]
    BY <1>2
  <2>2. p[k] = IF item.status = "none" THEN item ELSE [item EXCEPT !.status = ev]
    BY <1>2, <2>1
  <2>3. PICK i : i = [item EXCEPT !.status = ev]
    OBVIOUS
  <2>4. i \in ItemSet /\ i.text = item.text /\ i.status = ev
    BY <2>3, ItemStatus
  <2> QED
    BY <2>1, <2>2, <2>3, <2>4
<1>4. p \in [1 .. n -> ItemSet]
  BY <1>2, <1>3
<1>5. p \in Seq(ItemSet) /\ DOMAIN p = 1 .. n
  BY <1>4, FunSeq
<1> QED
  BY <1>1, <1>3, <1>5 DEF FinalOutput

(* The terminal frame of s *)
TerminalFrame(s, f) ==
  /\ f \in FrameSet
  /\ f.ev = Verdict(s.saw_finish) /\ f.pos = NoPos
  /\ Labelled(f, s.saw_finish)
  /\ f.usage = wire_usage(s.usage)
  /\ FinalOutput(s.out, f.ev, f.output)

LEMMA TerminalFrameIs ==
  ASSUME NEW s \in StateSet
  PROVE  TerminalFrame(s, rx_terminal_frame(s))
<1>1. s.out \in Seq(ItemSet) /\ s.usage \in Usages
  BY StateFields
<1>2. PICK ev \in {"completed", "incomplete"} : ev = Verdict(s.saw_finish)
  BY DEF Verdict
<1>3. NoPos \in Nat /\ ev \in Evs
  BY DEF Evs, NoPos
<1>4. PICK g \in FrameSet : g = Frame(ev, NoPos, <<>>) /\ g.ev = ev /\ g.pos = NoPos
  BY <1>3, EmptyText, FrameType
<1>5. PICK p : p = [k \in DOMAIN s.out |-> IF s.out[k].status = "none" THEN s.out[k]
                                           ELSE [s.out[k] EXCEPT !.status = ev]]
  OBVIOUS
<1>6. FinalOutput(s.out, ev, p)
  BY <1>1, <1>5, FinalOutputIs
<1>7. PICK reason \in {"none", "max_output_tokens", "content_filter"} :
        reason = incomplete_reason(s.saw_finish)
  BY DEF incomplete_reason
<1>8. PICK u \in Usages : u = wire_usage(s.usage)
  BY <1>1, WireUsage DEF WireUsageType
<1>9. PICK f : f = [g EXCEPT !.output = p, !.usage = u, !.status = ev, !.reason = reason]
  OBVIOUS
<1>10. rx_terminal_frame(s) = f
  BY <1>2, <1>4, <1>5, <1>7, <1>8, <1>9, Zenon DEF rx_terminal_frame, Verdict
<1>11. p \in Seq(ItemSet)
  BY <1>6 DEF FinalOutput
<1>12. /\ f \in FrameSet /\ f.ev = ev /\ f.pos = NoPos /\ f.usage = u /\ f.output = p
      /\ f.status = ev /\ f.reason = reason
  BY <1>4, <1>9, <1>11 DEF FrameSet
<1> QED
  BY <1>2, <1>6, <1>7, <1>8, <1>10, <1>12 DEF TerminalFrame, Labelled

(* The state once the turn that h tells of was concluded *)
Finished(h, t) ==
  /\ t \in Sound(AsSent(h))
  /\ Concluded(t.wire, h)
  /\ ~h.sent => Kept(t.wire, Len(t.out))

LEMMA CloseAll ==
  ASSUME NEW h, NEW s \in Framing(h), NEW u, u = [s EXCEPT !.completed_sent = TRUE],
         NEW t, t = close_all(u)
  PROVE  /\ t \in Sound(AsSent(h))
         /\ Len(t.out) = Len(s.out)
         /\ ~h.sent => Bracketed(t.wire, Len(s.out), {})
<1>1. /\ s \in Sound(h) /\ s \in StateSet /\ Pointed(s) /\ (h.sent \/ Woven(s))
  BY FramingState
<1>2. PICK n \in Nat : n = Len(s.out)
  BY <1>1, StateFields
<1>3. /\ u \in Sound(AsSent(h))
      /\ u.wire = s.wire /\ u.out = s.out /\ u.current = s.current
      /\ u.open_tools = s.open_tools
  BY <1>1, SentSound
<1>4. PICK v : v = close_current(u)
  OBVIOUS
<1>5. v \in Sound(AsSent(h)) /\ Settled(u, v)
  BY <1>3, <1>4, CloseCurrentSound
<1>6. t = close_tools(v)
  BY <1>4 DEF close_all
<1>7. t \in Sound(AsSent(h)) /\ Len(t.out) = Len(v.out)
  BY <1>5, <1>6, CloseToolsSound
<1>8. v.open_tools = s.open_tools /\ Len(v.out) = n
  BY <1>2, <1>3, <1>5 DEF Settled
<1>9. ASSUME ~h.sent PROVE Bracketed(t.wire, n, {})
  <2>1. PICK O : O = Called(s) \cup Current(s)
    OBVIOUS
  <2>2. Bracketed(u.wire, n, O) /\ OnceEach(s)
    BY <1>1, <1>2, <1>3, <1>9, <2>1 DEF Woven, Handy
  <2>3. u.current # NoPos => u.current \in O
    BY <1>3, <2>1 DEF Current
  <2>4. Bracketed(v.wire, n, O \ {u.current})
    BY <1>3, <1>4, <2>2, <2>3, CloseCurrentBracketed
  <2>5. O \ {u.current} = Called(s)
    BY <1>1, <1>3, <2>1, Apart DEF Current
  <2>6. OnceEach(v) /\ Bracketed(v.wire, n, {v.open_tools[k] : k \in 1 .. Len(v.open_tools)})
    <3>1. OnceEach(v)
      BY <1>8, <2>2 DEF OnceEach
    <3>2. {v.open_tools[k] : k \in 1 .. Len(v.open_tools)} = Called(s)
      BY <1>8 DEF Called
    <3> QED
      BY <2>4, <2>5, <3>1, <3>2
  <2> QED
    BY <1>5, <1>6, <2>6, CloseToolsSound
<1> QED
  BY <1>2, <1>7, <1>8, <1>9

LEMMA TerminalFinishes ==
  ASSUME NEW h, NEW s \in Framing(h)
  PROVE  Finished(h, terminal(s))
<1>1. s \in StateSet /\ s \in Sound(h)
  BY FramingState
<1>2. PICK n \in Nat : n = Len(s.out)
  BY <1>1, StateFields
<1>3. PICK t : t = close_all([s EXCEPT !.completed_sent = TRUE])
  OBVIOUS
<1>4. /\ t \in Sound(AsSent(h)) /\ Len(t.out) = n
      /\ ~h.sent => Bracketed(t.wire, n, {})
  BY <1>2, <1>3, CloseAll
<1>5. t \in StateSet /\ t.wire \in Seq(FrameSet) /\ t.out \in Seq(ItemSet)
  BY <1>4, SoundState, StateFields
<1>6. PICK f : f = rx_terminal_frame(t)
  OBVIOUS
<1>7. TerminalFrame(t, f)
  BY <1>5, <1>6, TerminalFrameIs
<1>8. /\ f \in FrameSet /\ f.ev \in {"completed", "incomplete"} /\ f.pos = NoPos
  BY <1>7 DEF TerminalFrame, Verdict
<1>9. QuietFor(t.out, f)
  <2>1. \A pos \in DOMAIN f.output : pos \in 1 .. Len(t.out) /\ f.output[pos].text = t.out[pos].text
    BY <1>7 DEF TerminalFrame, FinalOutput
  <2>2. f.ev \notin DeltaEvents /\ f.ev \notin CloseEvents /\ f.pos \in 0 .. Len(t.out)
    BY <1>4, <1>8 DEF DeltaEvents, CloseEvents, NoPos
  <2> QED
    BY <2>1, <2>2 DEF QuietFor
<1>10. PICK v : v = Push(t, f)
  OBVIOUS
<1>11. v \in Sound(AsSent(h))
  BY <1>4, <1>8, <1>9, <1>10, SoundPush
<1>12. PICK g \in FrameSet : g = Stamped(t, f)
  BY <1>5, <1>8, StampedParts
<1>13. /\ g.ev = f.ev /\ g.pos = f.pos /\ g.text = f.text /\ g.output = f.output
       /\ g.usage = f.usage /\ g.status = f.status /\ g.reason = f.reason
  BY <1>5, <1>8, <1>12, StampedParts
<1>14. v.wire = Append(t.wire, g) /\ v.out = t.out
  BY <1>5, <1>8, <1>10, <1>12, PushParts
<1>15. v.wire[Len(v.wire)] = g
  <2>1. Len(v.wire) = Len(t.wire) + 1 /\ v.wire[Len(t.wire) + 1] = g
    BY <1>5, <1>14, Appended
  <2> QED
    BY <2>1
<1>16. t.saw_finish = h.finish /\ t.usage = h.usage
  BY <1>4, AccountOf DEF AsSent
<1>17. Concluded(v.wire, h)
  <2>1. \A pos \in DOMAIN g.output : g.output[pos].status \in {"none", g.ev}
    BY <1>7, <1>13 DEF TerminalFrame, FinalOutput
  <2>2. g.ev = Verdict(h.finish) /\ g.usage = wire_usage(h.usage)
    BY <1>7, <1>13, <1>16 DEF TerminalFrame
  <2>3. Labelled(g, h.finish)
    BY <1>7, <1>13, <1>16 DEF TerminalFrame, Labelled
  <2> QED
    BY <1>15, <2>1, <2>2, <2>3 DEF Concluded
<1>18. ASSUME ~h.sent PROVE Kept(v.wire, n)
  <2>1. Bracketed(t.wire, n, {})
    BY <1>4, <1>18
  <2>2. \A pos \in 1 .. n : Done(t.wire, pos)
    BY <2>1 DEF Bracketed
  <2>3. Kept(t.wire, n)
    BY <1>5, <2>1, KeptMidway
  <2>4. g.ev \notin {"output_item.added", "output_item.done"} /\ g.pos = NoPos
    BY <1>8, <1>13
  <2> QED
    BY <1>5, <1>14, <2>2, <2>3, <2>4, KeptEnd
<1>19. terminal(s) = v
  BY <1>3, <1>6, <1>10 DEF terminal
<1> QED
  BY <1>4, <1>11, <1>14, <1>17, <1>18, <1>19 DEF Finished

-----------------------------------------------------------------------------
(* The first frame *)
Zero == [said |-> <<>>, mused |-> <<>>, usage |-> NoUsage, finish |-> "none", sent |-> FALSE]

LEMMA NewStateType ==
  /\ NewState \in StateSet
  /\ Pointed(NewState)
  /\ NewState.wire = <<>> /\ NewState.out = <<>> /\ NewState.first = TRUE
<1>1. PICK m : m = [i \in {} |-> NoPos]
  OBVIOUS
<1>2. m \in [{} -> Nat] /\ DOMAIN m = {}
  BY <1>1
<1>3. m \in Maps
  BY <1>2 DEF Maps
<1>4. <<>> \in Seq(ItemSet) /\ <<>> \in Seq(FrameSet) /\ <<>> \in Seq(Nat)
  BY EmptySeq
<1>5. NoPos \in Nat /\ 0 \in Nat
  BY DEF NoPos
<1>6. NewState = [first |-> TRUE, out |-> <<>>, current |-> NoPos, tool_items |-> m,
                  tool_ids |-> m, open_tools |-> <<>>, usage |-> NoUsage,
                  saw_finish |-> "none", completed_sent |-> FALSE, seq |-> 0, wire |-> <<>>]
  BY <1>1 DEF NewState
<1>7. NewState \in StateSet
  BY <1>3, <1>4, <1>5, <1>6, NoUsageType DEF StateSet
<1>8. Len(<<>>) = 0
  OBVIOUS
<1>9. /\ NewState.current = NoPos /\ NewState.tool_items = m /\ NewState.tool_ids = m
      /\ NewState.open_tools = <<>> /\ NewState.seq = 0 /\ NewState.wire = <<>>
      /\ NewState.out = <<>> /\ NewState.first = TRUE
  BY <1>6
<1>10. Pointed(NewState)
  BY <1>2, <1>8, <1>9 DEF Pointed
<1> QED
  BY <1>7, <1>9, <1>10

LEMMA CreatedFraming ==
  created(NewState) \in Framing(Zero)
<1>1. /\ NewState \in StateSet /\ Pointed(NewState)
      /\ NewState.wire = <<>> /\ NewState.out = <<>> /\ NewState.first = TRUE
  BY NewStateType
<1>2. PICK s : s = [NewState EXCEPT !.first = FALSE]
  OBVIOUS
<1>3. /\ s.out = <<>> /\ s.wire = <<>> /\ s.current = NewState.current
      /\ s.tool_items = NewState.tool_items /\ s.tool_ids = NewState.tool_ids
      /\ s.open_tools = NewState.open_tools /\ s.seq = NewState.seq /\ s.first = FALSE
      /\ s.usage = NewState.usage /\ s.saw_finish = NewState.saw_finish
      /\ s.completed_sent = NewState.completed_sent
  BY <1>1, <1>2 DEF StateSet
<1>4. s \in StateSet
  <2>1. FALSE \in BOOLEAN
    OBVIOUS
  <2> QED
    BY <1>1, <1>2, <2>1, Updates
<1>5. Pointed(s)
  BY <1>1, <1>3 DEF Pointed
<1>6. PICK f \in FrameSet : /\ f = Frame("created", NoPos, <<>>)
                            /\ f.ev = "created" /\ f.pos = NoPos /\ f.output = <<>>
  <2>1. NoPos \in Nat /\ "created" \in Evs
    BY DEF NoPos, Evs
  <2> QED
    BY <2>1, EmptyText, FrameType
<1>7. PICK g \in FrameSet : g = Stamped(s, f)
  BY <1>4, StampedParts
<1>8. g.ev = "created" /\ g.pos = NoPos /\ g.output = <<>>
  BY <1>4, <1>6, <1>7, StampedParts
<1>9. PICK t : t = Push(s, f)
  OBVIOUS
<1>10. /\ t \in StateSet /\ t.wire = Append(<<>>, g) /\ t.out = <<>> /\ t.first = FALSE
       /\ t.current = s.current /\ t.tool_items = s.tool_items /\ t.tool_ids = s.tool_ids
       /\ t.open_tools = s.open_tools
       /\ t.usage = s.usage /\ t.saw_finish = s.saw_finish /\ t.completed_sent = s.completed_sent
  BY <1>3, <1>4, <1>7, <1>9, PushParts
<1>11. PICK e \in Seq(FrameSet) : e = <<>> /\ Len(e) = 0
  BY EmptySeq
<1>12. PICK o \in Seq(ItemSet) : o = <<>> /\ Len(o) = 0
  BY EmptySeq
<1>13. g.ev \notin DeltaEvents /\ g.ev \notin CloseEvents
  BY <1>8 DEF DeltaEvents, CloseEvents
<1>14. Agrees(t.out, t.wire)
  <2>1. Agrees(o, e)
    BY <1>11, <1>12 DEF Agrees
  <2>2. g.pos \in 0 .. Len(o)
    BY <1>8, <1>12 DEF NoPos
  <2>3. QuietFor(o, g)
    BY <1>8, <1>13, <2>2, StartQuiet
  <2> QED
    BY <1>10, <1>11, <1>12, <2>1, <2>3, AgreesQuiet
<1>15. Pointed(t)
  BY <1>4, <1>5, <1>9, PointedPush
<1>16. Account(t) = Zero
  <2>1. Spoken[g] = <<>> /\ Mused[g] = <<>>
    BY <1>8 DEF Spoken, Mused
  <2>2. /\ Along(Spoken, Append(e, g)) = Along(Spoken, e) \o <<>>
        /\ Along(Mused, Append(e, g)) = Along(Mused, e) \o <<>>
    BY <2>1, AlongFrame
  <2>3. Along(Spoken, e) = <<>> /\ Along(Mused, e) = <<>>
    BY <1>11, EmptyAlong
  <2>4. <<>> \o <<>> = <<>>
    OBVIOUS
  <2>5. Along(Spoken, t.wire) = <<>> /\ Along(Mused, t.wire) = <<>>
    BY <1>10, <1>11, <2>2, <2>3, <2>4
  <2>6. t.usage = NoUsage /\ t.saw_finish = "none" /\ t.completed_sent = FALSE
    BY <1>3, <1>10 DEF NewState
  <2> QED
    BY <2>5, <2>6, Zenon DEF Account, Zero
<1>17. t.wire # <<>>
  <2>1. Len(Append(e, g)) = Len(e) + 1
    BY Appended
  <2>2. Append(e, g) # <<>>
    BY <1>11, <2>1
  <2> QED
    BY <1>10, <1>11, <2>2
<1>18. t \in Sound(Zero)
  BY <1>10, <1>14, <1>15, <1>16, <1>17 DEF Sound
<1>19. Woven(t)
  <2>1. Bracketed(e, 0, {})
    BY <1>11 DEF Bracketed, DoneLast
  <2>2. Bracketed(Append(e, g), 0, {})
    <3>1. g.ev \notin Terminals \cup {"output_item.added", "output_item.done"}
      BY <1>8 DEF Terminals
    <3> QED
      BY <1>8, <2>1, <3>1, BracketedPush
  <2>3. /\ t.current = NoPos /\ t.open_tools = <<>>
        /\ t.tool_items = [i \in {} |-> NoPos] /\ t.tool_ids = [i \in {} |-> NoPos]
    BY <1>3, <1>10 DEF NewState
  <2>4. Len(t.open_tools) = 0 /\ DOMAIN t.tool_items = {} /\ DOMAIN t.tool_ids = {}
    BY <2>3
  <2>5. Called(t) = {} /\ Current(t) = {} /\ Handy(t)
    BY <2>3, <2>4 DEF Called, Current, Handy, OnceEach
  <2>6. Len(t.out) = 0
    BY <1>10, <1>12
  <2>7. Called(t) \cup Current(t) = {}
    BY <2>5
  <2> QED
    BY <1>10, <1>11, <2>2, <2>5, <2>6, <2>7 DEF Woven
<1>20. created(NewState) = t
  BY <1>1, <1>2, <1>6, <1>9, Zenon DEF created
<1> QED
  BY <1>18, <1>19, <1>20 DEF Framing

(* h is the account of the turn so far, which may not have begun *)
Under(h, s) ==
  \/ s = NewState /\ h = Zero
  \/ s \in Framing(h)

LEMMA CreatedUnder ==
  ASSUME NEW h, NEW s, Under(h, s)
  PROVE  created(s) \in Framing(h)
<1>1. CASE s \in Framing(h)
  <2>1. ~s.first
    BY <1>1, FramingState
  <2> QED
    BY <1>1, <2>1 DEF created
<1> QED
  BY <1>1, CreatedFraming DEF Under

-----------------------------------------------------------------------------
(* The end of a chunk *)
Noted(h, c) ==
  [said |-> h.said, mused |-> h.mused,
   usage |-> IF c.usage.given THEN c.usage ELSE h.usage,
   finish |-> IF c.finish # "none" THEN c.finish ELSE h.finish,
   sent |-> h.sent]

(* The terminal is due *)
Due(h) == h.finish # "none" /\ h.usage.given /\ ~h.sent

(* The state after a chunk that makes h the account of the turn *)
Heard(h, t) == IF Due(h) THEN Finished(h, t) ELSE t \in Framing(h)

(* t is s with what c reports written down *)
Jotted(s, c, t) ==
  t = [s EXCEPT !.usage = IF c.usage.given THEN c.usage ELSE s.usage,
                !.saw_finish = IF c.finish # "none" THEN c.finish ELSE s.saw_finish]

LEMMA NotedFraming ==
  ASSUME NEW h, NEW s \in Framing(h), NEW c \in CanonChunk, NEW t, Jotted(s, c, t)
  PROVE  /\ t \in Framing(Noted(h, c))
         /\ t.wire = s.wire /\ t.out = s.out
         /\ t.completed_sent = s.completed_sent
         /\ t.usage = Noted(h, c).usage /\ t.saw_finish = Noted(h, c).finish
<1>1. /\ s \in Sound(h) /\ s \in StateSet /\ Pointed(s) /\ Agrees(s.out, s.wire)
      /\ ~s.first /\ s.wire # <<>> /\ Account(s) = h /\ (h.sent \/ Woven(s))
  BY FramingState
<1>2. /\ h.said = Along(Spoken, s.wire) /\ h.mused = Along(Mused, s.wire)
      /\ h.usage = s.usage /\ h.finish = s.saw_finish /\ h.sent = s.completed_sent
  BY <1>1, AccountOf
<1>3. PICK u \in Usages : u = IF c.usage.given THEN c.usage ELSE s.usage
  BY <1>1, StateFields, ChunkFields
<1>4. PICK fin \in FinishReasons \cup {"none"} :
        fin = IF c.finish # "none" THEN c.finish ELSE s.saw_finish
  BY <1>1, StateFields, ChunkFields
<1>5. t = [s EXCEPT !.usage = u, !.saw_finish = fin]
  BY <1>3, <1>4 DEF Jotted
<1>6. /\ t \in StateSet
      /\ t.wire = s.wire /\ t.out = s.out /\ t.current = s.current /\ t.seq = s.seq
      /\ t.tool_items = s.tool_items /\ t.tool_ids = s.tool_ids
      /\ t.open_tools = s.open_tools /\ t.first = s.first
      /\ t.usage = u /\ t.saw_finish = fin /\ t.completed_sent = s.completed_sent
  BY <1>1, <1>5 DEF StateSet
<1>7. Pointed(t)
  BY <1>1, <1>6 DEF Pointed
<1>8. Noted(h, c).usage = u /\ Noted(h, c).finish = fin /\ Noted(h, c).sent = h.sent
  BY <1>2, <1>3, <1>4 DEF Noted
<1>9. Account(t) = Noted(h, c)
  BY <1>2, <1>3, <1>4, <1>6, Zenon DEF Account, Noted
<1>10. t \in Sound(Noted(h, c))
  BY <1>1, <1>6, <1>7, <1>9 DEF Sound
<1>11. Woven(s) => Woven(t)
  <2>1. Called(t) = Called(s) /\ Current(t) = Current(s)
    BY <1>6 DEF Called, Current
  <2>2. Handy(s) => Handy(t)
    BY <1>6, <2>1 DEF Handy, OnceEach
  <2> QED
    BY <1>6, <2>1, <2>2 DEF Woven
<1> QED
  BY <1>1, <1>6, <1>8, <1>10, <1>11 DEF Framing

LEMMA EndingSection ==
  ASSUME NEW h, NEW s \in Framing(h), NEW c \in CanonChunk
  PROVE  Heard(Noted(h, c), ending_section(s, c))
<1>1. PICK t : t = [s EXCEPT !.usage = IF c.usage.given THEN c.usage ELSE s.usage,
                             !.saw_finish = IF c.finish # "none" THEN c.finish ELSE s.saw_finish]
  OBVIOUS
<1>2. PICK n : n = Noted(h, c)
  OBVIOUS
<1>3. /\ t \in Framing(n) /\ t.completed_sent = s.completed_sent
      /\ t.usage = n.usage /\ t.saw_finish = n.finish
  <2>1. Jotted(s, c, t)
    BY <1>1 DEF Jotted
  <2> QED
    BY <1>2, <2>1, NotedFraming
<1>4. ending_section(s, c) = IF t.saw_finish # "none" /\ t.usage.given /\ ~t.completed_sent
                             THEN terminal(t) ELSE t
  BY <1>1, Zenon DEF ending_section
<1>5. n.sent = t.completed_sent
  <2>1. t \in Sound(n)
    BY <1>3, FramingState
  <2> QED
    BY <2>1, AccountOf
<1>6. ending_section(s, c) = IF Due(n) THEN terminal(t) ELSE t
  BY <1>3, <1>4, <1>5 DEF Due
<1>7. Due(n) => Finished(n, terminal(t))
  BY <1>3, TerminalFinishes
<1> QED
  BY <1>2, <1>3, <1>6, <1>7 DEF Heard

(* The account once chunk c was heard *)
Heeded(h, c) ==
  [said |-> h.said \o Saying(c), mused |-> h.mused \o Musing(c),
   usage |-> IF c.usage.given THEN c.usage ELSE h.usage,
   finish |-> IF c.finish # "none" THEN c.finish ELSE h.finish,
   sent |-> h.sent]

LEMMA HeededIs ==
  ASSUME NEW h, NEW c
  PROVE  Heeded(h, c) = Noted(Credit(Credit(h, "output_text.delta", Saying(c)),
                                     "reasoning_summary_text.delta", Musing(c)), c)
<1>1. PICK x : x = h.said \o Saying(c)
  OBVIOUS
<1>2. PICK y : y = h.mused \o Musing(c)
  OBVIOUS
<1>3. PICK i : i = Credit(h, "output_text.delta", Saying(c))
  OBVIOUS
<1>4. i = [said |-> x, mused |-> h.mused, usage |-> h.usage, finish |-> h.finish,
           sent |-> h.sent]
  BY <1>1, <1>3 DEF Credit
<1>5. /\ i.said = x /\ i.mused = h.mused /\ i.usage = h.usage /\ i.finish = h.finish
      /\ i.sent = h.sent
  BY <1>4
<1>6. PICK j : j = Credit(i, "reasoning_summary_text.delta", Musing(c))
  OBVIOUS
<1>7. j = [said |-> x, mused |-> y, usage |-> h.usage, finish |-> h.finish, sent |-> h.sent]
  BY <1>2, <1>5, <1>6 DEF Credit
<1>8. j.said = x /\ j.mused = y /\ j.usage = h.usage /\ j.finish = h.finish /\ j.sent = h.sent
  BY <1>7
<1>9. Noted(j, c) = [said |-> x, mused |-> y,
                     usage |-> IF c.usage.given THEN c.usage ELSE h.usage,
                     finish |-> IF c.finish # "none" THEN c.finish ELSE h.finish,
                     sent |-> h.sent]
  BY <1>8, Zenon DEF Noted
<1> QED
  BY <1>1, <1>2, <1>3, <1>6, <1>9, Zenon DEF Heeded

LEMMA FrameItem ==
  ASSUME NEW h, NEW s, Under(h, s), NEW c \in CanonChunk
  PROVE  Heard(Heeded(h, c), frame_item(s, c))
<1>1. PICK t1 \in Framing(h) : t1 = created(s)
  BY CreatedUnder
<1>2. PICK i : i = Credit(h, "output_text.delta", Saying(c))
  OBVIOUS
<1>3. PICK t2 \in Framing(i) : t2 = text_section(t1, c)
  BY <1>2, TextSection
<1>4. PICK j : j = Credit(i, "reasoning_summary_text.delta", Musing(c))
  OBVIOUS
<1>5. PICK t3 \in Framing(j) : t3 = thinking_section(t2, c)
  BY <1>4, ThinkingSection
<1>6. PICK t4 \in Framing(j) : t4 = tool_section(t3, c)
  BY ToolSection
<1>7. Heard(Noted(j, c), ending_section(t4, c))
  BY EndingSection
<1>8. frame_item(s, c) = ending_section(t4, c)
  BY <1>1, <1>3, <1>5, <1>6, Zenon DEF frame_item
<1>9. Heeded(h, c) = Noted(j, c)
  BY <1>2, <1>4, HeededIs
<1> QED
  BY <1>7, <1>8, <1>9

-----------------------------------------------------------------------------
(* The end of the body *)

(* t is the state once the error was framed after s *)
Broken(h, s, t) ==
  /\ t \in Sound(AsSent(h))
  /\ t.wire[Len(t.wire)].ev = "failed"
  /\ Kept(s.wire, Len(s.out)) => Kept(t.wire, Len(t.out))

LEMMA FrameError ==
  ASSUME NEW h, NEW s, Under(h, s)
  PROVE  Broken(h, created(s), frame_error(s))
<1>1. PICK t1 \in Framing(h) : t1 = created(s)
  BY CreatedUnder
<1>2. PICK u : u = [t1 EXCEPT !.completed_sent = TRUE]
  OBVIOUS
<1>3. u \in Sound(AsSent(h)) /\ u.wire = t1.wire /\ u.out = t1.out
  BY <1>2, FramingState, SentSound
<1>4. u \in StateSet /\ u.wire \in Seq(FrameSet) /\ u.out \in Seq(ItemSet) /\ Len(u.out) \in Nat
  BY <1>3, SoundState, StateFields
<1>5. PICK f \in FrameSet : /\ f = Frame("failed", NoPos, <<>>)
                            /\ f.ev = "failed" /\ f.pos = NoPos /\ f.output = <<>>
  <2>1. NoPos \in Nat /\ "failed" \in Evs
    BY DEF NoPos, Evs
  <2> QED
    BY <2>1, EmptyText, FrameType
<1>6. PICK t : t = Push(u, f)
  OBVIOUS
<1>7. t \in Sound(AsSent(h)) /\ Started(u, t, f)
  <2>1. f.pos \in 0 .. Len(u.out)
    BY <1>4, <1>5 DEF NoPos
  <2>2. f.ev \notin DeltaEvents /\ f.ev \notin CloseEvents
    BY <1>5 DEF DeltaEvents, CloseEvents
  <2> QED
    BY <1>3, <1>5, <1>6, <2>1, <2>2, StartSound
<1>8. PICK g \in FrameSet : t.wire = Append(u.wire, g) /\ g.ev = f.ev /\ g.pos = f.pos
  BY <1>7 DEF Started
<1>9. t.wire[Len(t.wire)] = g
  <2>1. Len(t.wire) = Len(u.wire) + 1 /\ t.wire[Len(u.wire) + 1] = g
    BY <1>4, <1>8, Appended
  <2> QED
    BY <2>1
<1>10. Kept(t1.wire, Len(t1.out)) => Kept(t.wire, Len(t.out))
  <2>1. t.out = t1.out
    BY <1>3, <1>7 DEF Started
  <2>2. g.ev \notin {"output_item.added", "output_item.done", "completed", "incomplete"}
        /\ g.pos = NoPos
    BY <1>5, <1>8
  <2>3. SUFFICES ASSUME Kept(u.wire, Len(u.out)) PROVE Kept(t.wire, Len(u.out))
    BY <1>3, <2>1
  <2>4. PICK n \in Nat : n = Len(u.out)
    BY <1>4
  <2>5. Kept(u.wire, n)
    BY <2>3, <2>4
  <2>6. Kept(Append(u.wire, g), n)
    BY <1>4, <2>2, <2>5, KeptEnd
  <2> QED
    BY <1>8, <2>4, <2>6
<1>11. frame_error(s) = t
  BY <1>1, <1>2, <1>5, <1>6, Zenon DEF frame_error
<1> QED
  BY <1>1, <1>5, <1>7, <1>8, <1>9, <1>10, <1>11 DEF Broken

LEMMA Finish ==
  ASSUME NEW h, NEW s, Under(h, s)
  PROVE  IF s = NewState \/ h.sent THEN finish(s) = s ELSE Finished(h, finish(s))
<1>1. CASE s = NewState
  BY <1>1, NewStateType DEF finish
<1>2. CASE s # NewState
  <2>1. s \in Framing(h)
    BY <1>2 DEF Under
  <2>2. ~s.first /\ s.completed_sent = h.sent
    <3>1. ~s.first /\ s \in Sound(h)
      BY <2>1, FramingState
    <3> QED
      BY <3>1, AccountOf
  <2>3. finish(s) = IF h.sent THEN s ELSE terminal(s)
    BY <2>2 DEF finish
  <2> QED
    BY <1>2, <2>1, <2>3, TerminalFinishes
<1> QED
  BY <1>1, <1>2

-----------------------------------------------------------------------------
(* What the upstream said and thought, chunk after chunk *)
Speech == [c \in CanonChunk |-> Saying(c)]
Thought == [c \in CanonChunk |-> Musing(c)]

(* h is the account of the turn, and credits it with all that was heard *)
Credited(h) ==
  /\ Under(h, st)
  /\ h.said = Along(Speech, heard)
  /\ h.mused = Along(Thought, heard)

RInv == heard \in Seq(Chunks) /\ \E h : Credited(h)

LEMMA SpeechType ==
  Speech \in [CanonChunk -> Seq(Char)] /\ Thought \in [CanonChunk -> Seq(Char)]
<1>1. \A c \in CanonChunk : Saying(c) \in Seq(Char) /\ Musing(c) \in Seq(Char)
  BY ChunkFields DEF Texts
<1>2. Speech \in [CanonChunk -> Seq(Char)]
  BY <1>1 DEF Speech
<1>3. Thought \in [CanonChunk -> Seq(Char)]
  BY <1>1 DEF Thought
<1> QED
  BY <1>2, <1>3

LEMMA HeardMore ==
  ASSUME NEW q \in Seq(CanonChunk), NEW c \in CanonChunk
  PROVE  /\ Along(Speech, Append(q, c)) = Along(Speech, q) \o Saying(c)
         /\ Along(Thought, Append(q, c)) = Along(Thought, q) \o Musing(c)
<1>1. ASSUME NEW G \in [CanonChunk -> Seq(Char)]
      PROVE  Along(G, Append(q, c)) = Along(G, q) \o G[c]
  BY AlongAppend, SMTT(60)
<1>2. Speech[c] = Saying(c) /\ Thought[c] = Musing(c)
  BY DEF Speech, Thought
<1>3. Along(Speech, Append(q, c)) = Along(Speech, q) \o Speech[c]
  BY <1>1, SpeechType
<1>4. Along(Thought, Append(q, c)) = Along(Thought, q) \o Thought[c]
  BY <1>1, SpeechType
<1> QED
  BY <1>2, <1>3, <1>4, ZenonT(60)

LEMMA AsSentParts ==
  ASSUME NEW h
  PROVE  /\ AsSent(h).said = h.said /\ AsSent(h).mused = h.mused
         /\ AsSent(h).usage = h.usage /\ AsSent(h).finish = h.finish /\ AsSent(h).sent = TRUE
  BY DEF AsSent

LEMMA HeededParts ==
  ASSUME NEW h, NEW c
  PROVE  /\ Heeded(h, c).said = h.said \o Saying(c)
         /\ Heeded(h, c).mused = h.mused \o Musing(c)
         /\ Heeded(h, c).usage = (IF c.usage.given THEN c.usage ELSE h.usage)
         /\ Heeded(h, c).finish = (IF c.finish # "none" THEN c.finish ELSE h.finish)
         /\ Heeded(h, c).sent = h.sent
  BY DEF Heeded

(* Once the terminal was sent, soundness is all there is to keep *)
LEMMA SentUnder ==
  ASSUME NEW h, NEW s \in Sound(AsSent(h))
  PROVE  Under(AsSent(h), s)
  BY AsSentParts DEF Framing, Under

(* The account after each action *)
AfterChunk(h, c) == IF Due(Heeded(h, c)) THEN AsSent(Heeded(h, c)) ELSE Heeded(h, c)

LEMMA ChunkUnder ==
  ASSUME NEW h, NEW s, Under(h, s), NEW c \in CanonChunk
  PROVE  Under(AfterChunk(h, c), frame_item(s, c))
<1>1. PICK t : t = frame_item(s, c)
  OBVIOUS
<1>2. PICK i : i = Heeded(h, c)
  OBVIOUS
<1>3. Heard(i, t)
  BY <1>1, <1>2, FrameItem
<1>4. CASE Due(i)
  <2>1. t \in Sound(AsSent(i))
    BY <1>3, <1>4 DEF Heard, Finished
  <2> QED
    BY <1>1, <1>2, <1>4, <2>1, SentUnder DEF AfterChunk
<1>5. CASE ~Due(i)
  BY <1>1, <1>2, <1>3, <1>5 DEF Heard, Under, AfterChunk
<1> QED
  BY <1>4, <1>5

LEMMA FailUnder ==
  ASSUME NEW h, NEW s, Under(h, s)
  PROVE  Under(AsSent(h), frame_error(s))
<1>1. Broken(h, created(s), frame_error(s))
  BY FrameError
<1> QED
  BY <1>1, SentUnder DEF Broken

AfterEnd(h, s) == IF s = NewState \/ h.sent THEN h ELSE AsSent(h)

LEMMA EndUnder ==
  ASSUME NEW h, NEW s, Under(h, s)
  PROVE  Under(AfterEnd(h, s), finish(s))
<1>1. CASE s = NewState \/ h.sent
  <2>1. finish(s) = s
    BY <1>1, Finish
  <2> QED
    BY <1>1, <2>1 DEF AfterEnd
<1>2. CASE ~(s = NewState \/ h.sent)
  <2>1. Finished(h, finish(s))
    BY <1>2, Finish
  <2>2. Under(AsSent(h), finish(s))
    BY <2>1, SentUnder DEF Finished
  <2> QED
    BY <1>2, <2>2 DEF AfterEnd
<1> QED
  BY <1>1, <1>2

LEMMA RInvInit == Init => RInv
<1> SUFFICES ASSUME Init PROVE RInv
  OBVIOUS
<1>1. st = NewState /\ heard = <<>>
  BY DEF Init
<1>2. Under(Zero, st)
  BY <1>1 DEF Under
<1>3. Along(Speech, heard) = <<>> /\ Along(Thought, heard) = <<>>
  BY <1>1, EmptyAlong
<1>4. Credited(Zero)
  BY <1>2, <1>3 DEF Credited, Zero
<1>5. heard \in Seq(Chunks)
  BY <1>1, EmptySeq
<1> QED
  BY <1>4, <1>5 DEF RInv

LEMMA RInvNext == RInv /\ [Next]_vars => RInv'
<1> SUFFICES ASSUME RInv, [Next]_vars PROVE RInv'
  OBVIOUS
<1>1. heard \in Seq(Chunks) /\ heard \in Seq(CanonChunk)
  BY ChunksAssumption DEF RInv
<1>2. PICK h : Credited(h)
  BY DEF RInv
<1>3. Under(h, st) /\ h.said = Along(Speech, heard) /\ h.mused = Along(Thought, heard)
  BY <1>2 DEF Credited
<1>4. ASSUME NEW c \in Chunks, Chunk(c) PROVE RInv'
  <2>1. st' = frame_item(st, c) /\ heard' = Append(heard, c) /\ c \in CanonChunk
    BY <1>4, ChunksAssumption DEF Chunk
  <2>2. PICK i : i = AfterChunk(h, c)
    OBVIOUS
  <2>3. Under(i, st')
    BY <1>3, <2>1, <2>2, ChunkUnder
  <2>4. i.said = h.said \o Saying(c) /\ i.mused = h.mused \o Musing(c)
    BY <2>2, HeededParts, AsSentParts DEF AfterChunk
  <2>5. i.said = Along(Speech, heard') /\ i.mused = Along(Thought, heard')
    BY <1>1, <1>3, <2>1, <2>4, HeardMore
  <2>6. heard' \in Seq(Chunks)
    BY <1>1, <2>1, AppendProperties
  <2>7. Credited(i)'
    BY <2>3, <2>5 DEF Credited
  <2> QED
    BY <2>6, <2>7 DEF RInv
<1>5. ASSUME NEW i, Under(i, st'), heard' = heard, i.said = h.said, i.mused = h.mused
      PROVE  RInv'
  <2>1. Credited(i)'
    BY <1>3, <1>5 DEF Credited
  <2> QED
    BY <1>1, <1>5, <2>1 DEF RInv
<1>6. CASE Fail
  <2>1. st' = frame_error(st) /\ heard' = heard
    BY <1>6 DEF Fail
  <2>2. Under(AsSent(h), st')
    BY <1>3, <2>1, FailUnder
  <2> QED
    BY <1>5, <2>1, <2>2, AsSentParts
<1>7. CASE End
  <2>1. st' = finish(st) /\ heard' = heard
    BY <1>7 DEF End
  <2>2. Under(AfterEnd(h, st), st')
    BY <1>3, <2>1, EndUnder
  <2>3. AfterEnd(h, st).said = h.said /\ AfterEnd(h, st).mused = h.mused
    BY AsSentParts DEF AfterEnd
  <2> QED
    BY <1>5, <2>1, <2>2, <2>3
<1>8. CASE UNCHANGED vars
  <2>1. st' = st /\ heard' = heard
    BY <1>8 DEF vars
  <2> QED
    BY <1>3, <1>5, <2>1
<1> QED
  BY <1>4, <1>6, <1>7, <1>8 DEF Next

(* What the upstream said and thought is what the client was told, and all *)
(* that was sent is sound.                                                 *)
THEOREM SoundnessInvariance == Spec => []RInv
<1>1. Init => RInv
  BY RInvInit
<1>2. RInv /\ [Next]_vars => RInv'
  BY RInvNext
<1> QED
  BY <1>1, <1>2, PTL DEF Spec

-----------------------------------------------------------------------------
(* The maps of the framer, its open item and its open calls always point   *)
(* at items of the right type, and the sequence number counts the frames   *)
(* (open_item, open_call, stamp).                                          *)
THEOREM WellFormed == Spec => []TypeOK
<1>1. RInv => TypeOK
  <2> SUFFICES ASSUME RInv PROVE TypeOK
    OBVIOUS
  <2>1. PICK h : Under(h, st)
    BY DEF RInv, Credited
  <2>2. st \in StateSet /\ Pointed(st)
    BY <2>1, NewStateType, FramingState DEF Under
  <2>3. /\ DOMAIN st.out = 1 .. Len(st.out) /\ st.out \in Seq(ItemSet)
        /\ DOMAIN st.open_tools = 1 .. Len(st.open_tools) /\ st.usage \in Usages
    <3>1. st.open_tools \in Seq(Nat)
      BY <2>2, StateFields
    <3>2. DOMAIN st.open_tools = 1 .. Len(st.open_tools)
      BY <3>1
    <3> QED
      BY <2>2, <3>2, StateFields
  <2>4. \A k \in DOMAIN st.out : st.out[k] \in ItemSet
    BY <2>3
  <2> QED
    BY <2>2, <2>3, <2>4 DEF TypeOK, Pointed, Call, wire
<1> QED
  BY <1>1, SoundnessInvariance, PTL

(* What the body shows is what its frames say and think *)
LEMMA ShownIs ==
  ASSUME st.wire \in Seq(FrameSet)
  PROVE  /\ Shown("output_text.delta") = Along(Spoken, st.wire)
         /\ Shown("reasoning_summary_text.delta") = Along(Mused, st.wire)
<1>1. \A k \in DOMAIN st.wire : st.wire[k] \in FrameSet
  OBVIOUS
<1>2. [k \in DOMAIN st.wire |-> IF st.wire[k].ev = "output_text.delta" THEN st.wire[k].text ELSE <<>>]
        = Each(Spoken, st.wire)
  BY <1>1 DEF Each, Spoken
<1>3. [k \in DOMAIN st.wire |-> IF st.wire[k].ev = "reasoning_summary_text.delta"
                                THEN st.wire[k].text ELSE <<>>]
        = Each(Mused, st.wire)
  BY <1>1 DEF Each, Mused
<1> QED
  BY <1>2, <1>3, Zenon DEF Shown, Along, wire

LEMMA HeardIs ==
  ASSUME heard \in Seq(CanonChunk)
  PROVE  /\ FlattenSeq([k \in DOMAIN heard |-> heard[k].delta_text]) = Along(Speech, heard)
         /\ FlattenSeq([k \in DOMAIN heard |->
              IF heard[k].thinking.kind = "thinking" THEN heard[k].thinking.text ELSE <<>>])
              = Along(Thought, heard)
<1>1. \A k \in DOMAIN heard : heard[k] \in CanonChunk
  OBVIOUS
<1>2. [k \in DOMAIN heard |-> heard[k].delta_text] = Each(Speech, heard)
  BY <1>1 DEF Each, Speech, Saying
<1>3. [k \in DOMAIN heard |->
         IF heard[k].thinking.kind = "thinking" THEN heard[k].thinking.text ELSE <<>>]
        = Each(Thought, heard)
  BY <1>1 DEF Each, Thought, Musing
<1> QED
  BY <1>2, <1>3, Zenon DEF Along

LEMMA JoinedIs ==
  ASSUME NEW pos, NEW k
  PROVE  Joined(pos, k) = Told(st.wire, pos, k)
  BY Zenon DEF Joined, Told, Gives, wire

LEMMA Carried == RInv => TextCarried
<1> SUFFICES ASSUME RInv PROVE TextCarried
  OBVIOUS
<1>1. PICK h : Credited(h)
  BY DEF RInv
<1>2. Under(h, st) /\ h.said = Along(Speech, heard) /\ h.mused = Along(Thought, heard)
  BY <1>1 DEF Credited
<1>3. heard \in Seq(CanonChunk)
  BY ChunksAssumption DEF RInv
<1>4. st \in StateSet /\ h.said = Along(Spoken, st.wire) /\ h.mused = Along(Mused, st.wire)
      /\ Agrees(st.out, st.wire)
  <2>1. CASE st = NewState /\ h = Zero
    <3>1. st \in StateSet /\ st.wire = <<>> /\ st.out = <<>>
      BY <2>1, NewStateType
    <3>2. Len(<<>>) = 0
      OBVIOUS
    <3>3. Agrees(st.out, st.wire)
      BY <3>1, <3>2 DEF Agrees
    <3>4. h.said = <<>> /\ h.mused = <<>>
      BY <2>1 DEF Zero
    <3> QED
      BY <3>1, <3>3, <3>4, EmptyAlong
  <2>2. CASE st \in Framing(h)
    BY <2>2, FramingState, AccountOf
  <2> QED
    BY <1>2, <2>1, <2>2 DEF Under
<1>5. st.wire \in Seq(FrameSet) /\ DOMAIN st.wire = 1 .. Len(st.wire)
  BY <1>4, StateFields
<1>6. Shown("output_text.delta") = FlattenSeq([k \in DOMAIN heard |-> heard[k].delta_text])
  BY <1>2, <1>3, <1>4, <1>5, ShownIs, HeardIs, Zenon
<1>7. Shown("reasoning_summary_text.delta") =
        FlattenSeq([k \in DOMAIN heard |->
          IF heard[k].thinking.kind = "thinking" THEN heard[k].thinking.text ELSE <<>>])
  BY <1>2, <1>3, <1>4, <1>5, ShownIs, HeardIs, Zenon
<1>8. ASSUME NEW k \in DOMAIN st.wire
      PROVE  /\ st.wire[k].ev \in CloseEvents => st.wire[k].text = Joined(st.wire[k].pos, k)
             /\ \A pos \in DOMAIN st.wire[k].output :
                  st.wire[k].output[pos].text = Joined(pos, k)
  BY <1>4, <1>5, JoinedIs DEF Agrees
<1> QED
  BY <1>6, <1>7, <1>8 DEF TextCarried, wire

(* Text and thinking reach the client whole and in order, and every text a *)
(* done event or the terminal repeats is what the deltas of that item      *)
(* added up to, whatever the upstream sends and in whatever order          *)
(* (append_text, done, rx_terminal_frame).                                 *)
THEOREM TextAlwaysCarried == Spec => []TextCarried
  BY Carried, SoundnessInvariance, PTL

-----------------------------------------------------------------------------
(* Turns that say nothing after their finish but a usage report, as every  *)
(* upstream of this surface promises                                       *)
Bare(c) == c = [EmptyChunk EXCEPT !.usage = c.usage]

Finishing ==
  \A q \in Seq(Chunks) : Turn(q) =>
    \A j, k \in DOMAIN q : j < k /\ q[j].finish # "none" => Bare(q[k])

LEMMA BareParts ==
  ASSUME NEW c, Bare(c)
  PROVE  /\ c.delta_text = <<>> /\ c.thinking.kind = "none" /\ c.calls = <<>>
         /\ c.finish = "none"
  BY DEF Bare, EmptyChunk

(* A chunk that carries a usage at most adds nothing to a finished body *)
LEMMA BareChunk ==
  ASSUME NEW h, NEW s \in Framing(h), h.sent, NEW c \in CanonChunk, Bare(c)
  PROVE  frame_item(s, c).wire = s.wire /\ frame_item(s, c).out = s.out
<1>1. c.delta_text = <<>> /\ c.thinking.kind = "none" /\ c.calls = <<>>
  BY BareParts
<1>2. created(s) = s
  <2>1. ~s.first
    BY FramingState
  <2> QED
    BY <2>1 DEF created
<1>3. text_section(s, c) = s
  BY <1>1 DEF text_section
<1>4. thinking_section(s, c) = s
  BY <1>1 DEF thinking_section
<1>5. tool_section(s, c) = s
  <2>1. PICK q : q = c.calls
    OBVIOUS
  <2>2. q \in Seq(Calls) /\ Len(q) = 0
    BY <1>1, <2>1, ChunkFields
  <2>3. PICK f : tool_section(s, c) = f[Len(c.calls)] /\ f[0] = s
    BY <2>1, <2>2, ToolSectionIs
  <2> QED
    BY <2>1, <2>2, <2>3
<1>6. PICK t : t = [s EXCEPT !.usage = IF c.usage.given THEN c.usage ELSE s.usage,
                             !.saw_finish = IF c.finish # "none" THEN c.finish ELSE s.saw_finish]
  OBVIOUS
<1>7. Jotted(s, c, t)
  BY <1>6 DEF Jotted
<1>8. t.wire = s.wire /\ t.out = s.out /\ t.completed_sent = s.completed_sent
  BY <1>7, NotedFraming
<1>9. s.completed_sent
  <2>1. s \in Sound(h)
    BY FramingState
  <2> QED
    BY <2>1, AccountOf
<1>10. ending_section(s, c) = t
  BY <1>6, <1>8, <1>9, Zenon DEF ending_section
<1>11. frame_item(s, c) = t
  BY <1>2, <1>3, <1>4, <1>5, <1>10, Zenon DEF frame_item
<1> QED
  BY <1>8, <1>11

-----------------------------------------------------------------------------
ReportsOnce ==
  \A q \in Seq(Chunks) : Turn(q) =>
    \A j, k \in DOMAIN q : q[j].usage.given /\ q[k].usage.given => j = k

Finals == {"completed", "incomplete"}

(* The only finish heard in q is that of the account h *)
Reasoned(h, q) ==
  /\ \A k \in 1 .. Len(q) : q[k].finish # "none" => q[k].finish = h.finish
  /\ h.finish # "none" => \E k \in 1 .. Len(q) : q[k].finish = h.finish

(* A final frame tells the truth about the account h *)
Truthful(h, f) ==
  /\ f.ev \in Terminals
  /\ f.ev \in Finals => /\ f.ev = Verdict(h.finish) /\ Labelled(f, h.finish)
                        /\ \A pos \in DOMAIN f.output : f.output[pos].status \in {"none", f.ev}

(* The body of a turn that has begun: its items are bracketed, and its     *)
(* last frame is a terminal exactly when one was sent                      *)
Ordered(h, s) ==
  /\ Kept(s.wire, Len(s.out))
  /\ IF h.sent THEN Truthful(h, s.wire[Len(s.wire)])
     ELSE s.wire[Len(s.wire)].ev \notin Terminals

(* The only usage heard in q is that of the account h *)
Charged(h, q) ==
  /\ \A k \in 1 .. Len(q) : q[k].usage.given => q[k].usage = h.usage
  /\ h.usage.given => \E k \in 1 .. Len(q) : q[k].usage.given

(* The usage of the account h is the one heard in q, and the one sent *)
Metered(h, s, q, p) ==
  /\ Charged(h, q)
  /\ h.sent /\ p = "open" => h.usage.given
  /\ s # NewState /\ s.wire[Len(s.wire)].ev \in Finals =>
       s.wire[Len(s.wire)].usage = wire_usage(h.usage)

(* h is the account of a turn q that keeps the upstream's promise, of      *)
(* which s has come and p is the pump                                      *)
Regular(h, s, q, p) ==
  /\ Under(h, s)
  /\ Reasoned(h, q)
  /\ s = NewState => q = <<>> /\ p # "failed"
  /\ s # NewState => Ordered(h, s)
  /\ h.sent /\ p = "open" => h.finish # "none"
  /\ p = "failed" => h.sent
  /\ ReportsOnce => Metered(h, s, q, p)

FInv ==
  /\ heard \in Seq(Chunks)
  /\ pump \in {"open", "failed", "closed"}
  /\ \E h : Regular(h, st, heard, pump)

LEMMA NotNew ==
  ASSUME NEW h, NEW s \in Framing(h)
  PROVE  s # NewState /\ s.wire \in Seq(FrameSet) /\ s.wire # <<>> /\ Len(s.wire) \in Nat \ {0}
<1>1. s \in StateSet /\ s.wire # <<>>
  BY FramingState
<1>2. s.wire \in Seq(FrameSet) /\ Len(s.wire) \in Nat
  BY <1>1, StateFields
<1>3. Len(s.wire) # 0
  BY <1>1, <1>2, EmptySeq
<1> QED
  BY <1>1, <1>2, <1>3, NewStateType

LEMMA WovenLast ==
  ASSUME NEW h, NEW s \in Framing(h), ~h.sent
  PROVE  s.wire[Len(s.wire)].ev \notin Terminals
<1>1. Woven(s) /\ Len(s.wire) \in Nat \ {0}
  BY FramingState, NotNew
<1>2. Len(s.wire) \in 1 .. Len(s.wire)
  BY <1>1
<1>3. Midway(s.wire[Len(s.wire)], Len(s.out))
  BY <1>1, <1>2 DEF Woven, Bracketed
<1> QED
  BY <1>3 DEF Midway

LEMMA FinalsAre == Finals \subseteq Terminals /\ "failed" \in Terminals /\ "failed" \notin Finals
  BY DEF Finals, Terminals

LEMMA FInvInit == Init => FInv
<1> SUFFICES ASSUME Init PROVE FInv
  OBVIOUS
<1>1. st = NewState /\ heard = <<>> /\ pump = "open"
  BY DEF Init
<1>2. heard \in Seq(Chunks) /\ Len(heard) = 0
  BY <1>1, EmptySeq
<1>3. Zero.finish = "none" /\ Zero.sent = FALSE /\ ~Zero.usage.given
  BY DEF Zero, NoUsage
<1>4. Reasoned(Zero, heard)
  BY <1>2, <1>3 DEF Reasoned
<1>5. Metered(Zero, st, heard, pump)
  BY <1>1, <1>2, <1>3 DEF Metered, Charged
<1>6. Regular(Zero, st, heard, pump)
  BY <1>1, <1>3, <1>4, <1>5 DEF Regular, Under
<1> QED
  BY <1>1, <1>2, <1>6 DEF FInv

(* What a turn looks like after one more chunk *)
LEMMA FinishOnce ==
  ASSUME Finishing, NEW q \in Seq(Chunks), NEW c \in Chunks, Turn(Append(q, c)),
         NEW k \in 1 .. Len(q), q[k].finish # "none"
  PROVE  Bare(c)
<1>1. PICK n \in Nat : n = Len(q)
  OBVIOUS
<1>2. PICK p : p = Append(q, c)
  OBVIOUS
<1>3. p \in Seq(Chunks) /\ Len(p) = n + 1 /\ p[n + 1] = c /\ \A i \in 1 .. n : p[i] = q[i]
  BY <1>1, <1>2, Appended
<1>4. DOMAIN p = 1 .. n + 1
  BY <1>3
<1>5. k \in DOMAIN p /\ n + 1 \in DOMAIN p /\ k < n + 1 /\ p[k].finish # "none"
  BY <1>1, <1>3, <1>4
<1>6. Bare(p[n + 1])
  BY <1>2, <1>3, <1>5 DEF Finishing
<1> QED
  BY <1>3, <1>6

LEMMA ReportOnce ==
  ASSUME ReportsOnce, NEW q \in Seq(Chunks), NEW c \in Chunks, Turn(Append(q, c)),
         NEW k \in 1 .. Len(q), q[k].usage.given
  PROVE  ~c.usage.given
<1>1. PICK n \in Nat : n = Len(q)
  OBVIOUS
<1>2. PICK p : p = Append(q, c)
  OBVIOUS
<1>3. p \in Seq(Chunks) /\ Len(p) = n + 1 /\ p[n + 1] = c /\ \A i \in 1 .. n : p[i] = q[i]
  BY <1>1, <1>2, Appended
<1>4. DOMAIN p = 1 .. n + 1
  BY <1>3
<1>5. k \in DOMAIN p /\ n + 1 \in DOMAIN p /\ k # n + 1 /\ p[k].usage.given
  BY <1>1, <1>3, <1>4
<1>6. ~p[n + 1].usage.given
  BY <1>2, <1>3, <1>5 DEF ReportsOnce
<1> QED
  BY <1>3, <1>6

(* What the account says of the finish, one chunk later *)
LEMMA ReasonedMore ==
  ASSUME Finishing, NEW q \in Seq(Chunks), NEW c \in Chunks, Turn(Append(q, c)),
         NEW h, Reasoned(h, q), NEW j,
         j.finish = IF c.finish # "none" THEN c.finish ELSE h.finish
  PROVE  Reasoned(j, Append(q, c))
<1>1. PICK n \in Nat : n = Len(q)
  OBVIOUS
<1>2. PICK p : p = Append(q, c)
  OBVIOUS
<1>3. p \in Seq(Chunks) /\ Len(p) = n + 1 /\ p[n + 1] = c /\ \A i \in 1 .. n : p[i] = q[i]
  BY <1>1, <1>2, Appended
<1>4. ASSUME NEW k \in 1 .. n + 1, p[k].finish # "none" PROVE p[k].finish = j.finish
  <2>1. CASE k = n + 1
    BY <1>3, <1>4, <2>1
  <2>2. CASE k # n + 1
    <3>1. k \in 1 .. n /\ p[k] = q[k]
      BY <1>3, <2>2
    <3>2. c.finish = "none"
      BY <1>1, <1>4, <3>1, FinishOnce, BareParts
    <3>3. q[k].finish = h.finish
      BY <1>1, <1>4, <3>1 DEF Reasoned
    <3> QED
      BY <3>1, <3>2, <3>3
  <2> QED
    BY <2>1, <2>2
<1>5. ASSUME j.finish # "none" PROVE \E k \in 1 .. n + 1 : p[k].finish = j.finish
  <2>1. CASE c.finish # "none"
    <3>1. n + 1 \in 1 .. n + 1
      OBVIOUS
    <3> QED
      BY <1>3, <2>1, <3>1
  <2>2. CASE c.finish = "none"
    <3>1. PICK k \in 1 .. n : q[k].finish = h.finish
      BY <1>1, <1>5, <2>2 DEF Reasoned
    <3>2. k \in 1 .. n + 1
      OBVIOUS
    <3> QED
      BY <1>3, <2>2, <3>1, <3>2
  <2> QED
    BY <2>1, <2>2
<1>6. Reasoned(j, p)
  BY <1>3, <1>4, <1>5 DEF Reasoned
<1> QED
  BY <1>2, <1>6

(* What it says of the usage *)
LEMMA ChargedMore ==
  ASSUME ReportsOnce, NEW q \in Seq(Chunks), NEW c \in Chunks, Turn(Append(q, c)),
         NEW h, Charged(h, q), NEW j,
         j.usage = IF c.usage.given THEN c.usage ELSE h.usage
  PROVE  Charged(j, Append(q, c))
<1>1. PICK n \in Nat : n = Len(q)
  OBVIOUS
<1>2. PICK p : p = Append(q, c)
  OBVIOUS
<1>3. p \in Seq(Chunks) /\ Len(p) = n + 1 /\ p[n + 1] = c /\ \A i \in 1 .. n : p[i] = q[i]
  BY <1>1, <1>2, Appended
<1>4. ASSUME NEW k \in 1 .. n + 1, p[k].usage.given PROVE p[k].usage = j.usage
  <2>1. CASE k = n + 1
    BY <1>3, <1>4, <2>1
  <2>2. CASE k # n + 1
    <3>1. k \in 1 .. n /\ p[k] = q[k]
      BY <1>3, <2>2
    <3>2. ~c.usage.given
      BY <1>1, <1>4, <3>1, ReportOnce
    <3>3. q[k].usage = h.usage
      BY <1>1, <1>4, <3>1 DEF Charged
    <3> QED
      BY <3>1, <3>2, <3>3
  <2> QED
    BY <2>1, <2>2
<1>5. ASSUME j.usage.given PROVE \E k \in 1 .. n + 1 : p[k].usage.given
  <2>1. CASE c.usage.given
    <3>1. n + 1 \in 1 .. n + 1
      OBVIOUS
    <3> QED
      BY <1>3, <2>1, <3>1
  <2>2. CASE ~c.usage.given
    <3>1. PICK k \in 1 .. n : q[k].usage.given
      BY <1>1, <1>5, <2>2 DEF Charged
    <3>2. k \in 1 .. n + 1
      OBVIOUS
    <3> QED
      BY <1>3, <2>2, <3>1, <3>2
  <2> QED
    BY <2>1, <2>2
<1>6. Charged(j, p)
  BY <1>3, <1>4, <1>5 DEF Charged
<1> QED
  BY <1>2, <1>6

-----------------------------------------------------------------------------
(* What each action leaves of a regular turn *)
LEMMA RegularParts ==
  ASSUME NEW h, NEW s, NEW q, NEW p, Regular(h, s, q, p)
  PROVE  /\ Under(h, s) /\ Reasoned(h, q)
         /\ s = NewState => q = <<>> /\ p # "failed" /\ h = Zero
         /\ s # NewState => s \in Framing(h) /\ Ordered(h, s)
         /\ h.sent /\ p = "open" => h.finish # "none"
         /\ p = "failed" => h.sent
         /\ ReportsOnce => Metered(h, s, q, p)
<1>1. Under(h, s)
  BY DEF Regular
<1>2. s = NewState => h = Zero
  BY <1>1, NotNew DEF Under
<1>3. s # NewState => s \in Framing(h)
  BY <1>1 DEF Under
<1> QED
  BY <1>1, <1>2, <1>3 DEF Regular

(* A chunk before the terminal *)
LEMMA ChunkRegular ==
  ASSUME Finishing, NEW q \in Seq(Chunks), NEW c \in Chunks, Turn(Append(q, c)),
         NEW h, NEW s, Regular(h, s, q, "open"), ~h.sent
  PROVE  Regular(AfterChunk(h, c), frame_item(s, c), Append(q, c), "open")
<1>1. c \in CanonChunk
  BY ChunksAssumption
<1>2. PICK i : i = Heeded(h, c)
  OBVIOUS
<1>3. /\ i.finish = (IF c.finish # "none" THEN c.finish ELSE h.finish)
      /\ i.usage = (IF c.usage.given THEN c.usage ELSE h.usage)
      /\ ~i.sent
  BY <1>2, HeededParts
<1>4. PICK j : j = AfterChunk(h, c)
  OBVIOUS
<1>5. PICK t : t = frame_item(s, c)
  OBVIOUS
<1>6. j.finish = i.finish /\ j.usage = i.usage /\ (j.sent <=> Due(i))
  BY <1>2, <1>3, <1>4, AsSentParts DEF AfterChunk
<1>7. Under(h, s) /\ Reasoned(h, q)
  BY RegularParts
<1>8. Under(j, t)
  BY <1>1, <1>4, <1>5, <1>7, ChunkUnder
<1>9. Heard(i, t)
  BY <1>1, <1>2, <1>5, <1>7, FrameItem
<1>10. PICK r : r = Append(q, c)
  OBVIOUS
<1>11. Reasoned(j, r)
  BY <1>3, <1>6, <1>7, <1>10, ReasonedMore
<1>12. ReportsOnce => Charged(j, r)
  <2>1. ReportsOnce => Charged(h, q)
    BY RegularParts DEF Metered
  <2> QED
    BY <1>3, <1>6, <1>10, <2>1, ChargedMore
<1>13. CASE Due(i)
  <2>1. t \in Sound(AsSent(i)) /\ Concluded(t.wire, i) /\ Kept(t.wire, Len(t.out))
    BY <1>3, <1>9, <1>13 DEF Heard, Finished
  <2>2. j = AsSent(i)
    BY <1>2, <1>4, <1>13 DEF AfterChunk
  <2>3. t # NewState
    <3>1. ~t.first
      BY <2>1, SoundState
    <3> QED
      BY <3>1, NewStateType
  <2>4. i.finish # "none" /\ i.usage.given
    BY <1>13 DEF Due
  <2>5. Verdict(i.finish) \in Terminals
    BY DEF Verdict, Terminals
  <2>6. Truthful(j, t.wire[Len(t.wire)])
    BY <1>6, <2>1, <2>5 DEF Truthful, Concluded
  <2>7. Ordered(j, t)
    BY <1>6, <1>13, <2>1, <2>6 DEF Ordered
  <2>8. ReportsOnce => Metered(j, t, r, "open")
    BY <1>6, <1>12, <2>1, <2>4 DEF Metered, Concluded
  <2>9. Regular(j, t, r, "open")
    BY <1>6, <1>8, <1>11, <2>3, <2>4, <2>7, <2>8 DEF Regular
  <2> QED
    BY <1>4, <1>5, <1>10, <2>9
<1>14. CASE ~Due(i)
  <2>1. t \in Framing(i) /\ ~j.sent
    BY <1>6, <1>9, <1>14 DEF Heard
  <2>2. Kept(t.wire, Len(t.out))
    BY <1>3, <2>1, KeptWoven
  <2>3. t.wire[Len(t.wire)].ev \notin Terminals
    BY <1>3, <2>1, WovenLast
  <2>4. Ordered(j, t)
    BY <2>1, <2>2, <2>3 DEF Ordered
  <2>5. t # NewState
    BY <2>1, NotNew
  <2>6. ReportsOnce => Metered(j, t, r, "open")
    BY <1>12, <2>1, <2>3, FinalsAre DEF Metered
  <2>7. Regular(j, t, r, "open")
    BY <1>8, <1>11, <2>1, <2>4, <2>5, <2>6 DEF Regular
  <2> QED
    BY <1>4, <1>5, <1>10, <2>7
<1> QED
  BY <1>13, <1>14

(* A chunk after it, which can only be a usage report *)
LEMMA LateChunkBare ==
  ASSUME Finishing, NEW q \in Seq(Chunks), NEW c \in Chunks, Turn(Append(q, c)),
         NEW h, NEW s, Regular(h, s, q, "open"), h.sent
  PROVE  /\ Bare(c) /\ c \in CanonChunk /\ s \in Framing(h) /\ s # NewState
         /\ frame_item(s, c).wire = s.wire /\ frame_item(s, c).out = s.out
<1>1. Reasoned(h, q) /\ h.finish # "none"
  BY RegularParts
<1>2. PICK k \in 1 .. Len(q) : q[k].finish # "none"
  BY <1>1 DEF Reasoned
<1>3. Bare(c)
  BY <1>2, FinishOnce
<1>4. Zero.sent = FALSE
  BY DEF Zero
<1>5. s # NewState /\ s \in Framing(h)
  BY <1>4, RegularParts
<1>6. c \in CanonChunk
  BY ChunksAssumption
<1> QED
  BY <1>3, <1>5, <1>6, BareChunk

LEMMA LateChunkRegular ==
  ASSUME Finishing, NEW q \in Seq(Chunks), NEW c \in Chunks, Turn(Append(q, c)),
         NEW h, NEW s, Regular(h, s, q, "open"), h.sent
  PROVE  Regular(AfterChunk(h, c), frame_item(s, c), Append(q, c), "open")
<1>1. PICK t : t = frame_item(s, c)
  OBVIOUS
<1>2. PICK i : i = Heeded(h, c)
  OBVIOUS
<1>3. /\ Bare(c) /\ c \in CanonChunk /\ s # NewState
      /\ t.wire = s.wire /\ t.out = s.out
  BY <1>1, LateChunkBare
<1>4. /\ i.finish = (IF c.finish # "none" THEN c.finish ELSE h.finish)
      /\ i.usage = (IF c.usage.given THEN c.usage ELSE h.usage)
      /\ i.sent
  BY <1>2, HeededParts
<1>5. ~Due(i)
  BY <1>4 DEF Due
<1>6. PICK j : j = AfterChunk(h, c)
  OBVIOUS
<1>7. j = i /\ j.finish = h.finish
  BY <1>2, <1>3, <1>4, <1>5, <1>6, BareParts DEF AfterChunk
<1>8. /\ Under(h, s) /\ Reasoned(h, q) /\ Ordered(h, s) /\ h.finish # "none"
  BY <1>3, RegularParts
<1>9. Under(j, t)
  BY <1>1, <1>3, <1>6, <1>8, ChunkUnder
<1>10. PICK r : r = Append(q, c)
  OBVIOUS
<1>11. Reasoned(j, r)
  BY <1>4, <1>7, <1>8, <1>10, ReasonedMore
<1>12. t # NewState
  <2>1. Heard(i, t)
    BY <1>1, <1>2, <1>3, <1>8, FrameItem
  <2>2. t \in Framing(i)
    BY <1>5, <2>1 DEF Heard
  <2> QED
    BY <2>2, NotNew
<1>13. Truthful(h, s.wire[Len(s.wire)]) /\ Kept(s.wire, Len(s.out))
  BY <1>8 DEF Ordered
<1>14. Truthful(j, t.wire[Len(t.wire)])
  BY <1>3, <1>7, <1>13 DEF Truthful
<1>15. Ordered(j, t)
  BY <1>3, <1>4, <1>7, <1>13, <1>14 DEF Ordered
<1>16. ASSUME ReportsOnce PROVE Metered(j, t, r, "open")
  <2>1. Metered(h, s, q, "open")
    BY <1>16, RegularParts
  <2>2. Charged(h, q) /\ h.usage.given
    BY <2>1 DEF Metered
  <2>3. PICK k \in 1 .. Len(q) : q[k].usage.given
    BY <2>2 DEF Charged
  <2>4. ~c.usage.given
    BY <1>16, <2>3, ReportOnce
  <2>5. j.usage = h.usage
    BY <1>4, <1>7, <2>4
  <2>6. Charged(j, r)
    BY <1>4, <1>7, <1>10, <1>16, <2>2, ChargedMore
  <2> QED
    BY <1>3, <2>1, <2>2, <2>5, <2>6 DEF Metered
<1>17. Regular(j, t, r, "open")
  BY <1>7, <1>8, <1>9, <1>11, <1>12, <1>15, <1>16 DEF Regular
<1> QED
  BY <1>1, <1>6, <1>10, <1>17

LEMMA CreatedOrdered ==
  ASSUME NEW h, NEW s, NEW q, NEW p, Regular(h, s, q, p)
  PROVE  Kept(created(s).wire, Len(created(s).out))
<1>1. CASE s = NewState
  <2>1. created(s) \in Framing(h)
    BY RegularParts, CreatedUnder
  <2>2. ~h.sent
    BY <1>1, RegularParts DEF Zero
  <2> QED
    BY <2>1, <2>2, KeptWoven
<1>2. CASE s # NewState
  <2>1. s \in Framing(h) /\ Ordered(h, s)
    BY <1>2, RegularParts
  <2>2. ~s.first
    BY <2>1, FramingState
  <2>3. created(s) = s
    BY <2>2 DEF created
  <2> QED
    BY <2>1, <2>3 DEF Ordered
<1> QED
  BY <1>1, <1>2

(* The source fails *)
LEMMA FailRegular ==
  ASSUME NEW h, NEW s, NEW q, Regular(h, s, q, "open")
  PROVE  Regular(AsSent(h), frame_error(s), q, "failed")
<1>1. PICK t : t = frame_error(s)
  OBVIOUS
<1>2. PICK j : j = AsSent(h)
  OBVIOUS
<1>3. j.finish = h.finish /\ j.usage = h.usage /\ j.sent
  BY <1>2, AsSentParts
<1>4. Under(h, s) /\ Reasoned(h, q)
  BY RegularParts
<1>5. Broken(h, created(s), t)
  BY <1>1, <1>4, FrameError
<1>6. t \in Sound(j) /\ t.wire[Len(t.wire)].ev = "failed" /\ Kept(t.wire, Len(t.out))
  BY <1>2, <1>5, CreatedOrdered DEF Broken
<1>7. Under(j, t)
  BY <1>2, <1>6, SentUnder
<1>8. t # NewState
  <2>1. ~t.first
    BY <1>6, SoundState
  <2> QED
    BY <2>1, NewStateType
<1>9. Reasoned(j, q)
  BY <1>3, <1>4 DEF Reasoned
<1>10. Ordered(j, t)
  BY <1>3, <1>6, FinalsAre DEF Ordered, Truthful
<1>11. ReportsOnce => Metered(j, t, q, "failed")
  <2>1. ReportsOnce => Charged(h, q)
    BY RegularParts DEF Metered
  <2>2. Charged(h, q) => Charged(j, q)
    BY <1>3 DEF Charged
  <2> QED
    BY <1>6, <2>1, <2>2, FinalsAre DEF Metered
<1>12. Regular(j, t, q, "failed")
  BY <1>3, <1>7, <1>8, <1>9, <1>10, <1>11 DEF Regular
<1> QED
  BY <1>1, <1>2, <1>12

(* The source is exhausted *)
LEMMA EndRegular ==
  ASSUME NEW h, NEW s, NEW q, NEW p, Regular(h, s, q, p)
  PROVE  Regular(AfterEnd(h, s), finish(s), q, "closed")
<1>1. Under(h, s) /\ Reasoned(h, q)
  BY RegularParts
<1>2. CASE s = NewState \/ h.sent
  <2>1. finish(s) = s /\ AfterEnd(h, s) = h
    BY <1>1, <1>2, Finish DEF AfterEnd
  <2>2. ReportsOnce => Metered(h, s, q, "closed")
    BY RegularParts DEF Metered
  <2>3. Regular(h, s, q, "closed")
    BY <2>2 DEF Regular
  <2> QED
    BY <2>1, <2>3
<1>3. CASE s # NewState /\ ~h.sent
  <2>1. PICK t : t = finish(s)
    OBVIOUS
  <2>2. PICK j : j = AsSent(h)
    OBVIOUS
  <2>3. j = AfterEnd(h, s)
    BY <1>3, <2>2 DEF AfterEnd
  <2>4. j.finish = h.finish /\ j.usage = h.usage /\ j.sent
    BY <2>2, AsSentParts
  <2>5. t \in Sound(j) /\ Concluded(t.wire, h) /\ Kept(t.wire, Len(t.out))
    BY <1>1, <1>3, <2>1, <2>2, Finish DEF Finished
  <2>6. Under(j, t)
    BY <2>2, <2>5, SentUnder
  <2>7. t # NewState
    <3>1. ~t.first
      BY <2>5, SoundState
    <3> QED
      BY <3>1, NewStateType
  <2>8. Reasoned(j, q)
    BY <1>1, <2>4 DEF Reasoned
  <2>9. Verdict(h.finish) \in Terminals
    BY DEF Verdict, Terminals
  <2>10. Truthful(j, t.wire[Len(t.wire)])
    BY <2>4, <2>5, <2>9 DEF Truthful, Concluded
  <2>11. Ordered(j, t)
    BY <2>4, <2>5, <2>10 DEF Ordered
  <2>12. ReportsOnce => Metered(j, t, q, "closed")
    <3>1. ReportsOnce => Charged(h, q)
      BY RegularParts DEF Metered
    <3>2. Charged(h, q) => Charged(j, q)
      BY <2>4 DEF Charged
    <3> QED
      BY <2>4, <2>5, <3>1, <3>2 DEF Metered, Concluded
  <2>13. Regular(j, t, q, "closed")
    BY <2>6, <2>7, <2>8, <2>11, <2>12 DEF Regular
  <2> QED
    BY <2>1, <2>3, <2>13
<1> QED
  BY <1>2, <1>3

LEMMA FInvNext == Finishing /\ FInv /\ [Next]_vars => FInv'
<1> SUFFICES ASSUME Finishing, FInv, [Next]_vars PROVE FInv'
  OBVIOUS
<1>1. heard \in Seq(Chunks) /\ pump \in {"open", "failed", "closed"}
  BY DEF FInv
<1>2. PICK h : Regular(h, st, heard, pump)
  BY DEF FInv
<1>3. ASSUME NEW c \in Chunks, Chunk(c) PROVE FInv'
  <2>1. /\ pump = "open" /\ pump' = "open" /\ Turn(Append(heard, c))
        /\ st' = frame_item(st, c) /\ heard' = Append(heard, c)
    BY <1>3 DEF Chunk
  <2>2. Regular(AfterChunk(h, c), frame_item(st, c), Append(heard, c), "open")
    BY <1>1, <1>2, <2>1, ChunkRegular, LateChunkRegular
  <2>3. Regular(AfterChunk(h, c), st', heard', pump')
    BY <2>1, <2>2
  <2>4. heard' \in Seq(Chunks)
    BY <1>1, <2>1, AppendProperties
  <2> QED
    BY <2>1, <2>3, <2>4 DEF FInv
<1>4. CASE Fail
  <2>1. pump = "open" /\ pump' = "failed" /\ st' = frame_error(st) /\ heard' = heard
    BY <1>4 DEF Fail
  <2>2. Regular(AsSent(h), frame_error(st), heard, "failed")
    BY <1>2, <2>1, FailRegular
  <2>3. Regular(AsSent(h), st', heard', pump')
    BY <2>1, <2>2
  <2> QED
    BY <1>1, <2>1, <2>3 DEF FInv
<1>5. CASE End
  <2>1. pump' = "closed" /\ st' = finish(st) /\ heard' = heard
    BY <1>5 DEF End
  <2>2. Regular(AfterEnd(h, st), finish(st), heard, "closed")
    BY <1>2, EndRegular
  <2>3. Regular(AfterEnd(h, st), st', heard', pump')
    BY <2>1, <2>2
  <2> QED
    BY <1>1, <2>1, <2>3 DEF FInv
<1>6. CASE UNCHANGED vars
  BY <1>6 DEF FInv, vars
<1> QED
  BY <1>3, <1>4, <1>5, <1>6 DEF Next

(* Of every turn that keeps the upstream's promise there is one account    *)
(* that the history, the state and the body agree on (frame_item,          *)
(* frame_error, finish).                                                   *)
THEOREM AccountInvariance == Finishing => (Spec => []FInv)
<1> SUFFICES ASSUME Finishing PROVE Spec => []FInv
  OBVIOUS
<1>1. Init => FInv
  BY FInvInit
<1>2. FInv /\ [Next]_vars => FInv'
  BY FInvNext
<1> QED
  BY <1>1, <1>2, PTL DEF Spec

-----------------------------------------------------------------------------
(* A kept body brackets its items *)
LEMMA KeptBrackets ==
  ASSUME st \in StateSet, Kept(st.wire, Len(st.out))
  PROVE  ItemsBracketed
<1>1. PICK w : w = st.wire
  OBVIOUS
<1>2. PICK n \in Nat : n = Len(st.out)
  BY StateFields
<1>3. w \in Seq(FrameSet) /\ DOMAIN w = 1 .. Len(w) /\ DOMAIN st.out = 1 .. n
  BY <1>1, <1>2, StateFields
<1>4. Kept(w, n) /\ wire = w
  BY <1>1, <1>2 DEF wire
<1> SUFFICES ASSUME NEW pos \in 1 .. n
    PROVE  \E added \in Frames(pos, "output_item.added") :
             /\ \A k \in DOMAIN w : w[k].pos = pos => k >= added
             /\ Cardinality(Frames(pos, "output_item.added")) = 1
             /\ pos > 1 => \E k \in Frames(pos - 1, "output_item.added") : k < added
             /\ \A d \in Frames(pos, "output_item.done"), k \in DOMAIN w :
                  w[k].pos = pos => k <= d
             /\ \A t \in DOMAIN w : w[t].ev \in {"completed", "incomplete"} =>
                  \E d \in Frames(pos, "output_item.done") : d < t
  BY <1>3, <1>4 DEF ItemsBracketed
<1>5. \A p, e : Frames(p, e) = {k \in 1 .. Len(w) : w[k].pos = p /\ w[k].ev = e}
  BY <1>3, <1>4 DEF Frames
<1>6. PICK a \in 1 .. Len(w) : BeginsAt(w, pos, a)
  BY <1>4 DEF Kept, Begun
<1>7. Frames(pos, "output_item.added") = {a}
  BY <1>5, <1>6 DEF BeginsAt
<1>8. Cardinality(Frames(pos, "output_item.added")) = 1
  BY <1>7, FS_Singleton
<1>9. \A k \in DOMAIN w : w[k].pos = pos => k >= a
  BY <1>3, <1>6 DEF BeginsAt
<1>10. pos > 1 => \E k \in Frames(pos - 1, "output_item.added") : k < a
  BY <1>5, <1>6 DEF BeginsAt
<1>11. \A d \in Frames(pos, "output_item.done"), k \in DOMAIN w : w[k].pos = pos => k <= d
  <2>1. DoneLast(w)
    BY <1>4 DEF Kept
  <2> QED
    BY <1>3, <1>5, <2>1 DEF DoneLast
<1>12. \A t \in DOMAIN w : w[t].ev \in {"completed", "incomplete"} =>
         \E d \in Frames(pos, "output_item.done") : d < t
  <2> SUFFICES ASSUME NEW t \in DOMAIN w, w[t].ev \in {"completed", "incomplete"}
               PROVE  \E d \in Frames(pos, "output_item.done") : d < t
    OBVIOUS
  <2>1. PICK d \in 1 .. Len(w) : d < t /\ w[d].pos = pos /\ w[d].ev = "output_item.done"
    BY <1>3, <1>4 DEF Kept
  <2> QED
    BY <1>5, <2>1
<1> QED
  BY <1>7, <1>8, <1>9, <1>10, <1>11, <1>12

(* Every item is added once, in position order, done at most once, with    *)
(* all its other frames between, and a final frame finds all items done,   *)
(* for every turn that keeps the upstream's promise (open_item, open_call, *)
(* close_all, rx_terminal_frame).                                          *)
THEOREM ItemsAlwaysBracketed == Finishing => (Spec => []ItemsBracketed)
<1> SUFFICES ASSUME Finishing PROVE Spec => []ItemsBracketed
  OBVIOUS
<1>1. FInv => ItemsBracketed
  <2> SUFFICES ASSUME FInv PROVE ItemsBracketed
    OBVIOUS
  <2>1. PICK h : Regular(h, st, heard, pump)
    BY DEF FInv
  <2>2. CASE st = NewState
    <3>1. DOMAIN st.out = {}
      BY <2>2, NewStateType
    <3> QED
      BY <3>1 DEF ItemsBracketed
  <2>3. CASE st # NewState
    <3>1. st \in Framing(h) /\ Ordered(h, st)
      BY <2>1, <2>3, RegularParts
    <3>2. st \in StateSet /\ Kept(st.wire, Len(st.out))
      BY <3>1, FramingState DEF Ordered
    <3> QED
      BY <3>2, KeptBrackets
  <2> QED
    BY <2>2, <2>3
<1> QED
  BY <1>1, AccountInvariance, PTL

-----------------------------------------------------------------------------
(* What a final frame at the end of the body says, given the account *)
LEMMA EndedParts ==
  ASSUME NEW h, Regular(h, st, heard, pump), Ended
  PROVE  /\ st # NewState /\ Reasoned(h, heard)
         /\ st.wire[Len(st.wire)].ev \in Finals
         /\ Truthful(h, st.wire[Len(st.wire)])
<1>1. st.wire # <<>> /\ st.wire[Len(st.wire)].ev \in Finals
  BY DEF Ended, wire, Finals
<1>2. st # NewState
  BY <1>1, NewStateType
<1>3. Ordered(h, st) /\ Reasoned(h, heard)
  BY <1>2, RegularParts
<1> QED
  BY <1>1, <1>2, <1>3, FinalsAre DEF Ordered

LEMMA Honest == FInv => VerdictHonest
<1> SUFFICES ASSUME FInv, Ended PROVE VerdictHonest
  BY DEF VerdictHonest
<1>1. PICK h : Regular(h, st, heard, pump)
  BY DEF FInv
<1>2. PICK f : f = st.wire[Len(st.wire)]
  OBVIOUS
<1>3. Reasoned(h, heard) /\ f.ev \in Finals /\ Truthful(h, f)
  BY <1>1, <1>2, EndedParts
<1>4. f.ev = Verdict(h.finish)
  BY <1>3 DEF Truthful
<1>5. ~Incomplete("none")
  BY DEF Incomplete
<1>6. DOMAIN heard = 1 .. Len(heard)
  BY DEF FInv
<1>7. f.ev = "incomplete" <=> \E k \in DOMAIN heard : Incomplete(heard[k].finish)
  <2>1. f.ev = "incomplete" <=> Incomplete(h.finish)
    BY <1>4 DEF Verdict
  <2>2. ASSUME NEW k \in DOMAIN heard, Incomplete(heard[k].finish) PROVE Incomplete(h.finish)
    <3>1. heard[k].finish # "none"
      BY <1>5, <2>2
    <3>2. heard[k].finish = h.finish
      BY <1>3, <1>6, <3>1 DEF Reasoned
    <3> QED
      BY <2>2, <3>2
  <2>3. ASSUME Incomplete(h.finish) PROVE \E k \in DOMAIN heard : Incomplete(heard[k].finish)
    <3>1. h.finish # "none"
      BY <1>5, <2>3
    <3>2. PICK k \in DOMAIN heard : heard[k].finish = h.finish
      BY <1>3, <1>6, <3>1 DEF Reasoned
    <3> QED
      BY <2>3, <3>2
  <2> QED
    BY <2>1, <2>2, <2>3
<1>8. \A pos \in DOMAIN f.output : f.output[pos].status \in {"none", f.ev}
  BY <1>3 DEF Truthful
<1>9. f.status = f.ev /\ f.reason = incomplete_reason(h.finish)
  BY <1>3 DEF Truthful, Labelled
<1>10. ASSUME NEW why \in {"length", "content_filter"}
       PROVE  f.reason = incomplete_reason(why)
                <=> \E k \in DOMAIN heard : heard[k].finish = why
  <2>1. f.reason = incomplete_reason(why) <=> h.finish = why
    BY <1>9 DEF incomplete_reason
  <2>2. ASSUME NEW k \in DOMAIN heard, heard[k].finish = why PROVE h.finish = why
    BY <1>3, <1>6, <2>2 DEF Reasoned
  <2>3. ASSUME h.finish = why PROVE \E k \in DOMAIN heard : heard[k].finish = why
    BY <1>3, <1>6, <2>3 DEF Reasoned
  <2> QED
    BY <2>1, <2>2, <2>3
<1> QED
  BY <1>2, <1>7, <1>8, <1>9, <1>10 DEF VerdictHonest, wire

(* An answer the upstream cut short never claims to be complete, nor the   *)
(* reverse; its status and its items agree with it, and the reason it      *)
(* gives is the upstream's (rx_terminal_frame).                            *)
THEOREM VerdictAlwaysHonest == Finishing => (Spec => []VerdictHonest)
<1> SUFFICES ASSUME Finishing PROVE Spec => []VerdictHonest
  OBVIOUS
<1> QED
  BY Honest, AccountInvariance, PTL

LEMMA Carries == ReportsOnce /\ FInv => UsageCarried
<1> SUFFICES ASSUME ReportsOnce, FInv, Ended,
                    NEW k \in DOMAIN heard, heard[k].usage.given
             PROVE  /\ st.wire[Len(st.wire)].usage.input = heard[k].usage.input
                    /\ st.wire[Len(st.wire)].usage.output = heard[k].usage.output
  BY DEF UsageCarried, wire
<1>1. PICK h : Regular(h, st, heard, pump)
  BY DEF FInv
<1>2. PICK f : f = st.wire[Len(st.wire)]
  OBVIOUS
<1>3. st # NewState /\ f.ev \in Finals
  BY <1>1, <1>2, EndedParts
<1>4. Metered(h, st, heard, pump)
  BY <1>1, RegularParts
<1>5. f.usage = wire_usage(h.usage)
  BY <1>2, <1>3, <1>4 DEF Metered
<1>6. heard \in Seq(Chunks) /\ DOMAIN heard = 1 .. Len(heard)
  BY DEF FInv
<1>7. heard[k].usage = h.usage
  BY <1>4, <1>6 DEF Metered, Charged
<1>8. heard[k] \in CanonChunk
  BY <1>6, ChunksAssumption
<1>9. h.usage \in Usages
  BY <1>7, <1>8, ChunkFields
<1>10. ASSUME NEW u \in Usages
       PROVE  wire_usage(u).input = u.input /\ wire_usage(u).output = u.output
  BY DEF wire_usage, Usages
<1> QED
  BY <1>2, <1>5, <1>7, <1>9, <1>10

(* The terminal of a turn carries the usage the upstream reported for it,  *)
(* when it reports one at most (ending_section, rx_terminal_frame).        *)
THEOREM UsageAlwaysCarried == Finishing /\ ReportsOnce => (Spec => []UsageCarried)
<1> SUFFICES ASSUME Finishing, ReportsOnce PROVE Spec => []UsageCarried
  OBVIOUS
<1> QED
  BY Carries, AccountInvariance, PTL

-----------------------------------------------------------------------------
(* What the client of TurnStream has been told by body w *)
Voice(w) ==
  CASE w = <<>>                                  -> "nothing"
    [] w # <<>> /\ w[Len(w)].ev \in Finals       -> "complete"
    [] w # <<>> /\ w[Len(w)].ev = "failed"       -> "failed"
    [] OTHER                                     -> "speaking"

Body(p) == IF p = "closed" THEN "closed" ELSE "open"

(* A step of TurnStream, or none *)
TurnStep(x, y, b, c) ==
  \/ x = y /\ b = c
  \/ b = "open" /\ c = b /\ x \in {"nothing", "speaking"} /\ y \in {"speaking", "complete", "failed"}
  \/ b = "open" /\ c = "closed" /\ x # "speaking" /\ y = x
  \/ b = "open" /\ c = "closed" /\ x \in {"nothing", "speaking"} /\ y = "complete"

LEMMA TurnMapping ==
  ASSUME TurnStep(Voice(st.wire), Voice(st'.wire), Body(pump), Body(pump'))
  PROVE  [Turns!Next]_(Turns!turn)
<1>1. Voice(st.wire) = CASE wire = <<>> -> "nothing"
                         [] Ended -> "complete"
                         [] wire # <<>> /\ wire[Len(wire)].ev = "failed" -> "failed"
                         [] OTHER -> "speaking"
  BY DEF Voice, wire, Ended, Finals
<1>2. Voice(st'.wire) = (CASE wire = <<>> -> "nothing"
                           [] Ended -> "complete"
                           [] wire # <<>> /\ wire[Len(wire)].ev = "failed" -> "failed"
                           [] OTHER -> "speaking")'
  BY DEF Voice, wire, Ended, Finals
<1> QED
  BY <1>1, <1>2, Zenon DEF TurnStep, Body, Turns!Next, Turns!turn, Turns!Speak, Turns!Complete,
     Turns!Fail, Turns!Close, Turns!Unfinished

(* What a regular turn has told the client *)
LEMMA VoiceOf ==
  ASSUME NEW h, NEW s, NEW q, NEW p, Regular(h, s, q, p)
  PROVE  /\ h.sent => Voice(s.wire) \in {"complete", "failed"} /\ s # NewState
         /\ ~h.sent => Voice(s.wire) \in {"nothing", "speaking"}
         /\ s = NewState => Voice(s.wire) = "nothing"
         /\ s # NewState => Voice(s.wire) # "nothing" /\ s.completed_sent = h.sent
<1>1. CASE s = NewState
  <2>1. s.wire = <<>> /\ ~h.sent
    BY <1>1, NewStateType, RegularParts DEF Zero
  <2> QED
    BY <1>1, <2>1 DEF Voice
<1>2. CASE s # NewState
  <2>1. s \in Framing(h) /\ Ordered(h, s)
    BY <1>2, RegularParts
  <2>2. s.wire # <<>> /\ s.completed_sent = h.sent
    <3>1. s \in Sound(h)
      BY <2>1, FramingState
    <3> QED
      BY <2>1, <3>1, NotNew, AccountOf
  <2>3. h.sent <=> s.wire[Len(s.wire)].ev \in Terminals
    BY <2>1 DEF Ordered, Truthful
  <2> QED
    BY <1>2, <2>2, <2>3 DEF Voice, Finals, Terminals
<1> QED
  BY <1>1, <1>2

LEMMA StepTurn ==
  ASSUME Finishing, ~LateErrors, FInv, [Next]_vars
  PROVE  TurnStep(Voice(st.wire), Voice(st'.wire), Body(pump), Body(pump'))
<1> DEFINE Goal == TurnStep(Voice(st.wire), Voice(st'.wire), Body(pump), Body(pump'))
<1>1. heard \in Seq(Chunks)
  BY DEF FInv
<1>2. PICK h : Regular(h, st, heard, pump)
  BY DEF FInv
<1>3. /\ h.sent => Voice(st.wire) \in {"complete", "failed"} /\ st # NewState
      /\ ~h.sent => Voice(st.wire) \in {"nothing", "speaking"}
      /\ st = NewState => Voice(st.wire) = "nothing"
      /\ st # NewState => st.completed_sent = h.sent
  BY <1>2, VoiceOf
<1>4. ASSUME NEW c \in Chunks, Chunk(c) PROVE Goal
  <2>1. /\ pump = "open" /\ pump' = "open" /\ Turn(Append(heard, c))
        /\ st' = frame_item(st, c)
    BY <1>4 DEF Chunk
  <2>2. Body(pump) = "open" /\ Body(pump') = "open"
    BY <2>1 DEF Body
  <2>3. CASE h.sent
    <3>1. st'.wire = st.wire
      BY <1>1, <1>2, <2>1, <2>3, LateChunkBare
    <3> QED
      BY <2>2, <3>1 DEF TurnStep
  <2>4. CASE ~h.sent
    <3>1. Regular(AfterChunk(h, c), st', Append(heard, c), "open")
      BY <1>1, <1>2, <2>1, <2>4, ChunkRegular
    <3>2. c \in CanonChunk
      BY ChunksAssumption
    <3>3. Under(h, st)
      BY <1>2, RegularParts
    <3>4. Heard(Heeded(h, c), st')
      BY <2>1, <3>2, <3>3, FrameItem
    <3>5. st'.wire # <<>>
      <4>1. CASE Due(Heeded(h, c))
        <5>1. st' \in Sound(AsSent(Heeded(h, c)))
          BY <3>4, <4>1 DEF Heard, Finished
        <5> QED
          BY <5>1, SoundState
      <4>2. CASE ~Due(Heeded(h, c))
        <5>1. st' \in Framing(Heeded(h, c))
          BY <3>4, <4>2 DEF Heard
        <5> QED
          BY <5>1, NotNew
      <4> QED
        BY <4>1, <4>2
    <3>6. Voice(st'.wire) \in {"speaking", "complete", "failed"}
      BY <3>5 DEF Voice
    <3> QED
      BY <1>3, <2>2, <2>4, <3>6 DEF TurnStep
  <2> QED
    BY <2>3, <2>4
<1>5. ASSUME Fail PROVE Goal
  <2>1. /\ pump = "open" /\ pump' = "failed" /\ ~st.completed_sent
        /\ st' = frame_error(st)
    BY <1>5 DEF Fail
  <2>2. Body(pump) = "open" /\ Body(pump') = "open"
    BY <2>1 DEF Body
  <2>3. Voice(st.wire) \in {"nothing", "speaking"}
    BY <1>3, <2>1
  <2>4. Under(h, st)
    BY <1>2, RegularParts
  <2>5. Broken(h, created(st), st')
    BY <2>1, <2>4, FrameError
  <2>6. st'.wire # <<>> /\ st'.wire[Len(st'.wire)].ev = "failed"
    BY <2>5, SoundState DEF Broken
  <2>7. Voice(st'.wire) = "failed"
    BY <2>6, FinalsAre DEF Voice
  <2> QED
    BY <2>2, <2>3, <2>7 DEF TurnStep
<1>6. ASSUME End PROVE Goal
  <2>1. pump # "closed" /\ pump' = "closed" /\ st' = finish(st)
    BY <1>6 DEF End
  <2>2. Body(pump) = "open" /\ Body(pump') = "closed"
    BY <2>1 DEF Body
  <2>3. Under(h, st)
    BY <1>2, RegularParts
  <2>4. CASE st = NewState \/ h.sent
    <3>1. st' = st
      BY <2>1, <2>3, <2>4, Finish
    <3>2. Voice(st.wire) # "speaking"
      BY <1>3, <2>4
    <3> QED
      BY <2>2, <3>1, <3>2 DEF TurnStep
  <2>5. CASE st # NewState /\ ~h.sent
    <3>1. st' \in Sound(AsSent(h)) /\ Concluded(st'.wire, h)
      BY <2>1, <2>3, <2>5, Finish DEF Finished
    <3>2. st'.wire # <<>> /\ st'.wire[Len(st'.wire)].ev \in Finals
      BY <3>1, SoundState DEF Concluded, Verdict, Finals
    <3>3. Voice(st'.wire) = "complete"
      BY <3>2, FinalsAre DEF Voice
    <3> QED
      BY <1>3, <2>2, <2>5, <3>3 DEF TurnStep
  <2> QED
    BY <2>4, <2>5
<1>7. CASE UNCHANGED vars
  BY <1>7 DEF vars, TurnStep
<1> QED
  BY <1>4, <1>5, <1>6, <1>7 DEF Next

(* The Responses surface implements the safety part of TurnStream for      *)
(* every turn that keeps the upstream's promise: the client is told one    *)
(* terminal, nothing after it, and the body closes on a turn that spoke    *)
(* only once it has it, provided the source does not fail after the turn   *)
(* was completed (responses_stream_response, sse_response).                *)
THEOREM TurnsImplemented == Finishing /\ ~LateErrors => (Spec => ImplementsTurn)
<1> SUFFICES ASSUME Finishing, ~LateErrors PROVE Spec => ImplementsTurn
  OBVIOUS
<1>1. Init => Turns!Init
  <2>1. Init => st.wire = <<>> /\ pump = "open"
    BY NewStateType DEF Init
  <2>2. st.wire = <<>> /\ pump = "open" => Turns!Init
    BY DEF Turns!Init, wire, Ended
  <2> QED
    BY <2>1, <2>2
<1>2. FInv /\ [Next]_vars => [Turns!Next]_(Turns!turn)
  BY StepTurn, TurnMapping
<1> QED
  BY <1>1, <1>2, AccountInvariance, PTL DEF Spec, ImplementsTurn, Turns!Safety

-----------------------------------------------------------------------------
(* The calls that arguments belong to                                      *)
LEMMA Callees ==
  /\ \A x, y : <<"id", x>> # <<"index", y>> /\ <<"id", x>> # Nobody /\ <<"index", y>> # Nobody
  /\ \A x, y : <<"id", x>> = <<"id", y>> => x = y
  /\ \A x, y : <<"index", x>> = <<"index", y>> => x = y
  BY DEF Nobody

LEMMA NewestExists ==
  ASSUME NEW n \in Nat, NEW S \in SUBSET (1 .. n), S # {}
  PROVE  \E m \in S : \A l \in S : l <= m
<1> DEFINE U == {k \in Nat : \A l \in S : l <= k}
<1>1. n \in U
  OBVIOUS
<1>2. U # {} /\ U \subseteq Nat
  BY <1>1
<1> HIDE DEF U
<1>3. PICK m \in U : \A k \in U : m <= k
  BY <1>2, LeastNat
<1>4. m \in Nat /\ \A l \in S : l <= m
  BY <1>3 DEF U
<1>5. m \in S
  <2>1. SUFFICES ASSUME m \notin S PROVE FALSE
    OBVIOUS
  <2>2. \A l \in S : l \in Nat /\ l >= 1 /\ l <= m /\ l # m
    BY <1>4, <2>1
  <2>3. m >= 1
    <3>1. PICK l \in S : TRUE
      OBVIOUS
    <3> QED
      BY <1>4, <2>2, <3>1
  <2>4. PICK k \in Nat : k = m - 1
    BY <1>4, <2>3
  <2>5. \A l \in S : l <= k
    BY <1>4, <2>2, <2>4
  <2>6. k \in U
    BY <2>5 DEF U
  <2>7. m <= k
    BY <1>3, <2>6
  <2> QED
    BY <1>4, <2>4, <2>7
<1> QED
  BY <1>4, <1>5

(* The first n deltas decide *)
SameStart(q, r, n) == \A m \in 1 .. n : r[m] = q[m]

LEMMA StartDecides ==
  ASSUME NEW q, NEW r, NEW n \in Nat, SameStart(q, r, n)
  PROVE  /\ NamedBy(r, n) = NamedBy(q, n)
         /\ Given(r, n) = Given(q, n)
         /\ \A i : AtIndex(r, n, i) = AtIndex(q, n, i)
         /\ n > 0 => Owner(r, n) = Owner(q, n)
<1>1. \A m \in 1 .. n : r[m] = q[m]
  BY DEF SameStart
<1>2. NamedBy(r, n) = NamedBy(q, n) /\ \A m \in NamedBy(q, n) : r[m] = q[m]
  BY <1>1 DEF NamedBy
<1>3. Given(r, n) = Given(q, n)
  BY <1>2 DEF Given
<1>4. \A i : NamedAt(r, n, i) = NamedAt(q, n, i) /\ NamedAt(q, n, i) \subseteq NamedBy(q, n)
  BY <1>2 DEF NamedAt
<1>5. \A i : MarkedAt(r, n, i) = MarkedAt(q, n, i) /\ MarkedAt(q, n, i) \subseteq NamedBy(q, n)
  BY <1>2, <1>4 DEF MarkedAt
<1>6. ASSUME NEW i PROVE AtIndex(r, n, i) = AtIndex(q, n, i)
  <2>1. NewestAt(r, n, i) = NewestAt(q, n, i)
    BY <1>5 DEF NewestAt
  <2>2. CASE MarkedAt(q, n, i) # {}
    <3>0. MarkedAt(q, n, i) \subseteq 1 .. n
      BY <1>5 DEF NamedBy
    <3>1. NewestAt(q, n, i) \in MarkedAt(q, n, i)
      BY <2>2, <3>0, NewestExists DEF NewestAt
    <3> QED
      BY <1>2, <1>5, <2>1, <2>2, <3>1 DEF AtIndex
  <2>3. CASE MarkedAt(q, n, i) = {}
    BY <1>4, <1>5, <2>3 DEF AtIndex
  <2> QED
    BY <2>2, <2>3
<1>7. ASSUME n > 0 PROVE Owner(r, n) = Owner(q, n)
  <2>1. r[n] = q[n]
    BY <1>1, <1>7
  <2> QED
    BY <1>3, <1>6, <2>1 DEF Owner
<1> QED
  BY <1>2, <1>3, <1>6, <1>7

(* A delta more *)
LEMMA NamedNext ==
  ASSUME NEW r, NEW l \in Nat, NEW n \in Nat, n = l + 1
  PROVE  /\ NamedBy(r, n) = NamedBy(r, l) \cup (IF r[n].name THEN {n} ELSE {})
         /\ \A i : NamedAt(r, n, i) =
                     NamedAt(r, l, i) \cup (IF r[n].name /\ r[n].index = i THEN {n} ELSE {})
         /\ \A i : MarkedAt(r, n, i) =
                     MarkedAt(r, l, i) \cup (IF r[n].name /\ r[n].index = i /\ r[n].id # NoId
                                             THEN {n} ELSE {})
         /\ Given(r, n) = Given(r, l) \cup (IF r[n].name /\ r[n].id # NoId THEN {r[n].id} ELSE {})
<1>1. 1 .. n = (1 .. l) \cup {n}
  OBVIOUS
<1>2. NamedBy(r, n) = NamedBy(r, l) \cup (IF r[n].name THEN {n} ELSE {})
  BY <1>1 DEF NamedBy
<1>3. ASSUME NEW i
      PROVE  NamedAt(r, n, i) =
               NamedAt(r, l, i) \cup (IF r[n].name /\ r[n].index = i THEN {n} ELSE {})
  BY <1>2 DEF NamedAt
<1>4. ASSUME NEW i
      PROVE  MarkedAt(r, n, i) =
               MarkedAt(r, l, i) \cup (IF r[n].name /\ r[n].index = i /\ r[n].id # NoId
                                       THEN {n} ELSE {})
  BY <1>3 DEF MarkedAt
<1>5. Given(r, n) = Given(r, l) \cup (IF r[n].name /\ r[n].id # NoId THEN {r[n].id} ELSE {})
  BY <1>2 DEF Given
<1> QED
  BY <1>2, <1>3, <1>4, <1>5

LEMMA NamedWithin ==
  ASSUME NEW r, NEW n \in Nat
  PROVE  /\ NamedBy(r, n) \subseteq 1 .. n
         /\ \A i : NamedAt(r, n, i) \subseteq NamedBy(r, n) /\ MarkedAt(r, n, i) \subseteq NamedAt(r, n, i)
         /\ \A i : \A m \in MarkedAt(r, n, i) : r[m].id \in Given(r, n)
  BY DEF NamedBy, NamedAt, MarkedAt, Given

LEMMA NewestIs ==
  ASSUME NEW r, NEW n \in Nat, NEW i, MarkedAt(r, n, i) # {}
  PROVE  /\ NewestAt(r, n, i) \in MarkedAt(r, n, i)
         /\ \A m \in MarkedAt(r, n, i) : m <= NewestAt(r, n, i)
<1>1. MarkedAt(r, n, i) \subseteq 1 .. n
  BY NamedWithin
<1>2. \E m \in MarkedAt(r, n, i) : \A l \in MarkedAt(r, n, i) : l <= m
  BY <1>1, NewestExists
<1> QED
  BY <1>2 DEF NewestAt

(* Whom the index i stands for after one delta more *)
IndexNext(r, l, n, i) ==
  AtIndex(r, n, i) =
    IF ~(r[n].name /\ r[n].index = i) THEN AtIndex(r, l, i)
    ELSE IF r[n].id # NoId THEN <<"id", r[n].id>>
    ELSE IF AtIndex(r, l, i) = Nobody THEN <<"index", i>>
    ELSE AtIndex(r, l, i)

LEMMA AtIndexNext ==
  ASSUME NEW r, NEW l \in Nat, NEW n \in Nat, n = l + 1, NEW i
  PROVE  IndexNext(r, l, n, i)
<1>1. /\ NamedAt(r, n, i) =
            NamedAt(r, l, i) \cup (IF r[n].name /\ r[n].index = i THEN {n} ELSE {})
      /\ MarkedAt(r, n, i) =
           MarkedAt(r, l, i) \cup (IF r[n].name /\ r[n].index = i /\ r[n].id # NoId
                                   THEN {n} ELSE {})
  BY NamedNext
<1>2. CASE ~(r[n].name /\ r[n].index = i)
  <2>1. NamedAt(r, n, i) = NamedAt(r, l, i) /\ MarkedAt(r, n, i) = MarkedAt(r, l, i)
    BY <1>1, <1>2
  <2>2. NewestAt(r, n, i) = NewestAt(r, l, i)
    BY <2>1 DEF NewestAt
  <2> QED
    BY <1>2, <2>1, <2>2 DEF IndexNext, AtIndex
<1>3. CASE r[n].name /\ r[n].index = i /\ r[n].id # NoId
  <2>1. MarkedAt(r, n, i) = MarkedAt(r, l, i) \cup {n}
    BY <1>1, <1>3
  <2>2. MarkedAt(r, n, i) \subseteq 1 .. n /\ n \in MarkedAt(r, n, i)
    BY <2>1, NamedWithin
  <2>3. NewestAt(r, n, i) \in MarkedAt(r, n, i) /\ n <= NewestAt(r, n, i)
    BY <2>2, NewestIs
  <2>4. NewestAt(r, n, i) = n
    BY <2>2, <2>3
  <2> QED
    BY <1>3, <2>2, <2>4 DEF IndexNext, AtIndex
<1>4. CASE r[n].name /\ r[n].index = i /\ ~(r[n].id # NoId)
  <2>1. NamedAt(r, n, i) = NamedAt(r, l, i) \cup {n} /\ MarkedAt(r, n, i) = MarkedAt(r, l, i)
    BY <1>1, <1>4
  <2>2. NewestAt(r, n, i) = NewestAt(r, l, i)
    BY <2>1 DEF NewestAt
  <2>3. CASE MarkedAt(r, l, i) # {}
    <3>1. AtIndex(r, l, i) # Nobody
      BY <2>3, Callees DEF AtIndex
    <3> QED
      BY <1>4, <2>1, <2>2, <2>3, <3>1 DEF IndexNext, AtIndex
  <2>4. CASE MarkedAt(r, l, i) = {}
    <3>1. AtIndex(r, n, i) = <<"index", i>>
      BY <2>1, <2>4 DEF AtIndex
    <3>2. AtIndex(r, l, i) = <<"index", i>> \/ AtIndex(r, l, i) = Nobody
      BY <2>4 DEF AtIndex
    <3> QED
      BY <1>4, <3>1, <3>2 DEF IndexNext
  <2> QED
    BY <2>3, <2>4
<1> QED
  BY <1>2, <1>3, <1>4

-----------------------------------------------------------------------------
(* A call that is known was named before *)
LEMMA NamedGrows ==
  ASSUME NEW r, NEW n \in Nat, NEW m \in 0 .. n
  PROVE  /\ NamedBy(r, m) \subseteq NamedBy(r, n)
         /\ Given(r, m) \subseteq Given(r, n)
         /\ \A i : NamedAt(r, m, i) \subseteq NamedAt(r, n, i) /\ MarkedAt(r, m, i) \subseteq MarkedAt(r, n, i)
<1>1. 1 .. m \subseteq 1 .. n
  OBVIOUS
<1>2. NamedBy(r, m) \subseteq NamedBy(r, n)
  BY <1>1 DEF NamedBy
<1>3. Given(r, m) \subseteq Given(r, n)
  BY <1>2 DEF Given
<1>4. ASSUME NEW i PROVE NamedAt(r, m, i) \subseteq NamedAt(r, n, i) /\ MarkedAt(r, m, i) \subseteq MarkedAt(r, n, i)
  BY <1>2 DEF NamedAt, MarkedAt
<1> QED
  BY <1>2, <1>3, <1>4

LEMMA OwnerById ==
  ASSUME NEW r, NEW n \in Nat, NEW id, n > 0, Owner(r, n) = <<"id", id>>
  PROVE  id \in Given(r, n)
<1>1. CASE r[n].id \in Given(r, n)
  BY <1>1, Callees DEF Owner
<1>2. CASE r[n].id \notin Given(r, n)
  <2>1. AtIndex(r, n, r[n].index) = <<"id", id>>
    BY <1>2 DEF Owner
  <2>2. MarkedAt(r, n, r[n].index) # {} /\ id = r[NewestAt(r, n, r[n].index)].id
    BY <2>1, Callees DEF AtIndex
  <2>3. NewestAt(r, n, r[n].index) \in MarkedAt(r, n, r[n].index)
    BY <2>2, NewestIs
  <2> QED
    BY <2>2, <2>3, NamedWithin
<1> QED
  BY <1>1, <1>2

LEMMA OwnerByIndex ==
  ASSUME NEW r, NEW n \in Nat, NEW i, n > 0, Owner(r, n) = <<"index", i>>
  PROVE  NamedAt(r, n, i) # {}
<1>1. r[n].id \notin Given(r, n)
  BY Callees DEF Owner
<1>2. AtIndex(r, n, r[n].index) = <<"index", i>>
  BY <1>1 DEF Owner
<1> QED
  BY <1>2, Callees DEF AtIndex

LEMMA NamedOwner ==
  ASSUME NEW r, NEW n \in Nat, n > 0, r[n].name
  PROVE  Owner(r, n) # Nobody
<1>1. n \in NamedAt(r, n, r[n].index)
  BY DEF NamedAt, NamedBy
<1>2. AtIndex(r, n, r[n].index) # Nobody
  BY <1>1, Callees DEF AtIndex
<1> QED
  BY <1>2, Callees DEF Owner

LEMMA GivenOwns ==
  ASSUME NEW r, NEW n \in Nat, NEW id \in Given(r, n)
  PROVE  \E m \in 1 .. n : Owner(r, m) = <<"id", id>>
<1>1. PICK m \in NamedBy(r, n) : r[m].id = id /\ id # NoId
  BY DEF Given
<1>2. m \in 1 .. n /\ r[m].name
  BY <1>1 DEF NamedBy
<1>3. m \in NamedBy(r, m)
  BY <1>2 DEF NamedBy
<1>4. r[m].id \in Given(r, m)
  BY <1>1, <1>3 DEF Given
<1> QED
  BY <1>1, <1>2, <1>4 DEF Owner

LEMMA IndexOwns ==
  ASSUME NEW r, NEW n \in Nat, NEW i, AtIndex(r, n, i) # Nobody
  PROVE  \E m \in 1 .. n : Owner(r, m) = AtIndex(r, n, i)
<1>1. CASE MarkedAt(r, n, i) # {}
  <2>1. NewestAt(r, n, i) \in MarkedAt(r, n, i)
    BY <1>1, NewestIs
  <2>2. r[NewestAt(r, n, i)].id \in Given(r, n)
    BY <2>1, NamedWithin
  <2>3. AtIndex(r, n, i) = <<"id", r[NewestAt(r, n, i)].id>>
    BY <1>1 DEF AtIndex
  <2> QED
    BY <2>2, <2>3, GivenOwns
<1>2. CASE MarkedAt(r, n, i) = {}
  <2>1. NamedAt(r, n, i) # {} /\ AtIndex(r, n, i) = <<"index", i>>
    BY <1>2 DEF AtIndex
  <2>2. PICK m \in NamedAt(r, n, i) : TRUE
    BY <2>1
  <2>3. m \in 1 .. n /\ r[m].name /\ r[m].index = i /\ r[m].id = NoId
    BY <1>2, <2>2 DEF NamedAt, NamedBy, MarkedAt
  <2>4. m \in 0 .. n /\ m \in Nat
    BY <2>3
  <2>5. MarkedAt(r, m, i) = {}
    BY <1>2, <2>4, NamedGrows
  <2>6. m \in NamedAt(r, m, i)
    BY <2>3 DEF NamedAt, NamedBy
  <2>7. AtIndex(r, m, i) = <<"index", i>>
    BY <2>5, <2>6 DEF AtIndex
  <2>8. r[m].id \notin Given(r, m)
    BY <2>3 DEF Given
  <2>9. Owner(r, m) = <<"index", i>>
    BY <2>3, <2>7, <2>8 DEF Owner
  <2> QED
    BY <2>1, <2>3, <2>9
<1> QED
  BY <1>1, <1>2

(* When a name opens a call *)
FirstNamed(r, n) == \A m \in 1 .. n - 1 : Owner(r, m) # Owner(r, n)

New(r, l, n) ==
  IF r[n].id # NoId THEN r[n].id \notin Given(r, l) ELSE AtIndex(r, l, r[n].index) = Nobody

LEMMA FirstNaming ==
  ASSUME NEW r, NEW l \in Nat, NEW n \in Nat, n = l + 1, r[n].name
  PROVE  /\ FirstNamed(r, n) <=> New(r, l, n)
         /\ Owner(r, n) = IF r[n].id # NoId THEN <<"id", r[n].id>> ELSE AtIndex(r, n, r[n].index)
<1>1. 1 .. n - 1 = 1 .. l /\ n > 0
  OBVIOUS
<1>2. PICK i : i = r[n].index
  OBVIOUS
<1>3. IndexNext(r, l, n, i)
  BY AtIndexNext
<1>4. Given(r, n) = Given(r, l) \cup (IF r[n].id # NoId THEN {r[n].id} ELSE {})
  BY NamedNext
<1>5. CASE r[n].id # NoId
  <2>1. Owner(r, n) = <<"id", r[n].id>>
    BY <1>4, <1>5 DEF Owner
  <2>2. ASSUME NEW m \in 1 .. l, Owner(r, m) = <<"id", r[n].id>> PROVE r[n].id \in Given(r, l)
    <3>1. m \in Nat /\ m > 0 /\ m \in 0 .. l
      OBVIOUS
    <3>2. r[n].id \in Given(r, m)
      BY <2>2, <3>1, OwnerById
    <3> QED
      BY <3>1, <3>2, NamedGrows
  <2>3. r[n].id \in Given(r, l) => \E m \in 1 .. l : Owner(r, m) = <<"id", r[n].id>>
    BY GivenOwns
  <2> QED
    BY <1>1, <1>5, <2>1, <2>2, <2>3 DEF FirstNamed, New
<1>6. CASE r[n].id = NoId
  <2>1. r[n].id \notin Given(r, n)
    BY <1>6 DEF Given
  <2>2. Owner(r, n) = AtIndex(r, n, i)
    BY <1>2, <2>1 DEF Owner
  <2>3. CASE AtIndex(r, l, i) = Nobody
    <3>1. Owner(r, n) = <<"index", i>>
      BY <1>2, <1>3, <1>6, <2>2, <2>3 DEF IndexNext
    <3>2. NamedAt(r, l, i) = {}
      BY <2>3, Callees DEF AtIndex
    <3>3. ASSUME NEW m \in 1 .. l, Owner(r, m) = <<"index", i>> PROVE FALSE
      <4>1. m \in Nat /\ m > 0 /\ m \in 0 .. l
        OBVIOUS
      <4>2. NamedAt(r, m, i) # {}
        BY <3>3, <4>1, OwnerByIndex
      <4> QED
        BY <3>2, <4>1, <4>2, NamedGrows
    <3> QED
      BY <1>1, <1>2, <1>6, <2>2, <2>3, <3>1, <3>3 DEF FirstNamed, New
  <2>4. CASE AtIndex(r, l, i) # Nobody
    <3>1. Owner(r, n) = AtIndex(r, l, i)
      BY <1>2, <1>3, <1>6, <2>2, <2>4 DEF IndexNext
    <3>2. \E m \in 1 .. l : Owner(r, m) = AtIndex(r, l, i)
      BY <2>4, IndexOwns
    <3> QED
      BY <1>1, <1>2, <1>6, <2>2, <2>4, <3>1, <3>2 DEF FirstNamed, New
  <2> QED
    BY <2>3, <2>4
<1> QED
  BY <1>5, <1>6

(* An id that is named again is named under its own index, and by then no  *)
(* other id has been named under it                                        *)
SteadyIds(q) ==
  \A m, n \in DOMAIN q :
    m < n /\ q[m].name /\ q[n].name /\ q[m].id = q[n].id /\ q[n].id # NoId =>
      /\ q[m].index = q[n].index
      /\ \A l \in m .. n : q[l].name /\ q[l].index = q[n].index /\ q[l].id # NoId =>
           q[l].id = q[n].id

LEMMA SteadyAgain ==
  ASSUME NEW r \in Seq(Calls), SteadyIds(r), NEW l \in Nat, NEW n \in Nat, n = l + 1, n <= Len(r),
         r[n].name, r[n].id \in Given(r, l)
  PROVE  AtIndex(r, l, r[n].index) = <<"id", r[n].id>>
<1>0. PICK N \in Nat : N = Len(r) /\ DOMAIN r = 1 .. N
  OBVIOUS
<1>1. PICK id : id = r[n].id
  OBVIOUS
<1>2. PICK i : i = r[n].index
  OBVIOUS
<1>3. PICK m \in 1 .. l : r[m].name /\ r[m].id = id /\ id # NoId
  BY <1>1 DEF Given, NamedBy
<1>4. m \in 1 .. N /\ n \in 1 .. N /\ m < n
  BY <1>0
<1>5. /\ r[m].index = i
      /\ \A k \in m .. n : r[k].name /\ r[k].index = i /\ r[k].id # NoId => r[k].id = id
  BY <1>0, <1>1, <1>2, <1>3, <1>4 DEF SteadyIds
<1>6. m \in MarkedAt(r, l, i)
  BY <1>3, <1>5 DEF MarkedAt, NamedAt, NamedBy
<1>7. PICK k : k = NewestAt(r, l, i)
  OBVIOUS
<1>8. k \in MarkedAt(r, l, i) /\ m <= k
  BY <1>6, <1>7, NewestIs
<1>9. k \in 1 .. l /\ r[k].name /\ r[k].index = i /\ r[k].id # NoId
  BY <1>8 DEF MarkedAt, NamedAt, NamedBy
<1>10. k \in m .. n
  BY <1>8, <1>9
<1>11. r[k].id = id
  BY <1>5, <1>9, <1>10
<1> QED
  BY <1>1, <1>2, <1>6, <1>7, <1>11 DEF AtIndex

LEMMA SteadyStart ==
  ASSUME NEW q \in Seq(Calls), NEW r \in Seq(Calls), SteadyIds(r), Len(q) <= Len(r),
         SameStart(q, r, Len(q))
  PROVE  SteadyIds(q)
<1>1. PICK a \in Nat : a = Len(q) /\ DOMAIN q = 1 .. a
  OBVIOUS
<1>2. PICK b \in Nat : b = Len(r) /\ DOMAIN r = 1 .. b
  OBVIOUS
<1>3. a <= b /\ \A k \in 1 .. a : r[k] = q[k] /\ k \in 1 .. b
  BY <1>1, <1>2 DEF SameStart
<1> SUFFICES ASSUME NEW m \in 1 .. a, NEW n \in 1 .. a,
                    m < n, q[m].name, q[n].name, q[m].id = q[n].id, q[n].id # NoId
             PROVE  /\ q[m].index = q[n].index
                    /\ \A l \in m .. n : q[l].name /\ q[l].index = q[n].index /\ q[l].id # NoId =>
                         q[l].id = q[n].id
  BY <1>1 DEF SteadyIds
<1>4. r[m] = q[m] /\ r[n] = q[n] /\ m \in 1 .. b /\ n \in 1 .. b
  BY <1>3
<1>5. /\ r[m].index = r[n].index
      /\ \A l \in m .. n : r[l].name /\ r[l].index = r[n].index /\ r[l].id # NoId =>
           r[l].id = r[n].id
  BY <1>2, <1>4 DEF SteadyIds
<1>6. \A l \in m .. n : l \in 1 .. a
  OBVIOUS
<1> QED
  BY <1>3, <1>4, <1>5, <1>6

-----------------------------------------------------------------------------
(* The callers, their arguments and their items, one more at a time *)
Callee == {"id", "index", "nobody"} \X Nat

LEMMA OwnerType ==
  ASSUME NEW q \in Seq(Calls), NEW n \in 1 .. Len(q)
  PROVE  Owner(q, n) \in Callee
<1>1. PICK l \in Nat : l = Len(q)
  OBVIOUS
<1>2. \A k \in 1 .. l : q[k] \in Calls
  BY <1>1
<1>3. \A k \in 1 .. l : q[k].id \in Nat /\ q[k].index \in Nat
  BY <1>2 DEF Calls
<1>4. n \in Nat /\ n \in 1 .. l /\ n \in 0 .. l
  BY <1>1
<1>5. CASE q[n].id \in Given(q, n)
  BY <1>3, <1>4, <1>5 DEF Owner, Callee
<1>6. CASE q[n].id \notin Given(q, n)
  <2>1. PICK i \in Nat : i = q[n].index
    BY <1>3, <1>4
  <2>2. Owner(q, n) = AtIndex(q, n, i)
    BY <1>6, <2>1 DEF Owner
  <2>3. CASE MarkedAt(q, n, i) # {}
    <3>1. NewestAt(q, n, i) \in MarkedAt(q, n, i)
      BY <1>4, <2>3, NewestIs
    <3>2. NewestAt(q, n, i) \in 1 .. n
      BY <1>4, <3>1, NamedWithin
    <3>3. NewestAt(q, n, i) \in 1 .. l
      BY <1>4, <3>2
    <3>4. q[NewestAt(q, n, i)].id \in Nat
      BY <1>3, <3>3
    <3> QED
      BY <2>2, <2>3, <3>4 DEF AtIndex, Callee
  <2>4. CASE MarkedAt(q, n, i) = {}
    BY <2>2, <2>4 DEF AtIndex, Callee, Nobody
  <2> QED
    BY <2>3, <2>4
<1> QED
  BY <1>5, <1>6

CallersOf(q) == [n \in DOMAIN q |-> IF q[n].name /\ FirstNamed(q, n) THEN <<Owner(q, n)>> ELSE <<>>]

LEMMA CallersIs ==
  ASSUME NEW q
  PROVE  Callers(q) = FlattenSeq(CallersOf(q))
  BY DEF Callers, CallersOf, FirstNamed

LEMMA CallersOfType ==
  ASSUME NEW q \in Seq(Calls), NEW n \in Nat, Len(q) = n
  PROVE  CallersOf(q) \in [1 .. n -> Seq(Callee)]
<1>1. DOMAIN q = 1 .. n
  OBVIOUS
<1>2. <<>> \in Seq(Callee)
  BY EmptySeq
<1>3. ASSUME NEW k \in 1 .. n PROVE <<Owner(q, k)>> \in Seq(Callee)
  <2>1. PICK w \in Callee : w = Owner(q, k)
    BY OwnerType
  <2> QED
    BY <2>1
<1> HIDE DEF Callee
<1> QED
  BY <1>1, <1>2, <1>3 DEF CallersOf

(* The callers after one delta more *)
CallersNext(q, tc, r, n) ==
  Callers(r) = IF tc.name /\ FirstNamed(r, n) THEN Append(Callers(q), Owner(r, n)) ELSE Callers(q)

LEMMA CallersAppend ==
  ASSUME NEW q \in Seq(Calls), NEW tc \in Calls, NEW n, n = Len(q) + 1, NEW r, r = Append(q, tc)
  PROVE  Callers(q) \in Seq(Callee) /\ CallersNext(q, tc, r, n)
<1>1. PICK l \in Nat : l = Len(q) /\ DOMAIN q = 1 .. l
  OBVIOUS
<1>2. r \in Seq(Calls) /\ Len(r) = l + 1 /\ DOMAIN r = 1 .. l + 1
      /\ r[l + 1] = tc /\ \A k \in 1 .. l : r[k] = q[k]
  BY <1>1, AppendProperties
<1>3. PICK g \in [1 .. l -> Seq(Callee)] : g = CallersOf(q)
  BY <1>1, CallersOfType
<1>4. PICK h \in [1 .. l + 1 -> Seq(Callee)] : h = CallersOf(r)
  <2>1. PICK m \in Nat : m = l + 1
    OBVIOUS
  <2>2. CallersOf(r) \in [1 .. m -> Seq(Callee)]
    BY <1>2, <2>1, CallersOfType
  <2> QED
    BY <2>1, <2>2
<1>5. \A k \in 1 .. l : Owner(r, k) = Owner(q, k)
  <2> TAKE k \in 1 .. l
  <2>1. k \in Nat /\ k > 0 /\ SameStart(q, r, k)
    BY <1>2 DEF SameStart
  <2> QED
    BY <2>1, StartDecides
<1>6. ASSUME NEW k \in 1 .. l PROVE h[k] = g[k]
  <2>1. k \in DOMAIN q /\ k \in DOMAIN r /\ r[k] = q[k] /\ Owner(r, k) = Owner(q, k)
    BY <1>1, <1>2, <1>5
  <2>2. \A m \in 1 .. k - 1 : Owner(r, m) = Owner(q, m)
    BY <1>5
  <2>3. FirstNamed(r, k) <=> FirstNamed(q, k)
    BY <2>1, <2>2 DEF FirstNamed
  <2> QED
    BY <1>3, <1>4, <2>1, <2>3 DEF CallersOf
<1>7. n \in DOMAIN r /\ r[n] = tc
  BY <1>1, <1>2
<1>8. h[n] = IF tc.name /\ FirstNamed(r, n) THEN <<Owner(r, n)>> ELSE <<>>
  BY <1>4, <1>7 DEF CallersOf
<1>9. FlattenSeq(g) \in Seq(Callee) /\ FlattenSeq(h) = FlattenSeq(g) \o h[l + 1]
  <2>1. \A k \in 1 .. l : h[k] = g[k]
    BY <1>6
  <2> QED
    BY <2>1, JoinOneMore, Zenon
<1>10. PICK w \in Callee : w = Owner(r, n)
  <2>1. n \in 1 .. Len(r)
    BY <1>1, <1>2
  <2> QED
    BY <1>2, <2>1, OwnerType
<1>11. FlattenSeq(g) \o <<>> = FlattenSeq(g) /\ FlattenSeq(g) \o <<w>> = Append(FlattenSeq(g), w)
  BY <1>9, ConcatEmptySeq, AppendIsConcat
<1> QED
  BY <1>1, <1>3, <1>4, <1>8, <1>9, <1>10, <1>11, CallersIs DEF CallersNext

ArgPieces(q, w) == [m \in DOMAIN q |-> IF Owner(q, m) = w THEN q[m].args ELSE <<>>]

LEMMA ArgPiecesType ==
  ASSUME NEW q \in Seq(Calls), NEW n \in Nat, Len(q) = n, NEW w
  PROVE  ArgPieces(q, w) \in [1 .. n -> Seq(Char)]
<1>1. DOMAIN q = 1 .. n
  OBVIOUS
<1>2. <<>> \in Seq(Char)
  BY EmptySeq
<1>3. \A k \in 1 .. n : q[k] \in Calls
  OBVIOUS
<1>4. \A k \in 1 .. n : q[k].args \in Seq(Char)
  BY <1>3 DEF Calls, Texts
<1> QED
  BY <1>1, <1>2, <1>4 DEF ArgPieces

LEMMA ArgsOfType ==
  ASSUME NEW q \in Seq(Calls), NEW w
  PROVE  /\ ArgsOf(q, w) \in Texts
         /\ (\A m \in 1 .. Len(q) : Owner(q, m) # w) => ArgsOf(q, w) = <<>>
<1>1. PICK l \in Nat : l = Len(q) /\ DOMAIN q = 1 .. l
  OBVIOUS
<1>2. PICK g \in [1 .. l -> Seq(Char)] : g = ArgPieces(q, w)
  BY <1>1, ArgPiecesType
<1>3. g \in Seq(Seq(Char)) /\ <<>> \in Seq(Char)
  BY <1>2, EmptySeq
<1>4. FlattenSeq(g) \in Texts
  BY <1>3, FlattenAppend DEF Texts
<1>5. ASSUME \A m \in 1 .. l : Owner(q, m) # w PROVE FlattenSeq(g) = <<>>
  <2>1. \A k \in 1 .. l : g[k] = <<>>
    BY <1>1, <1>2, <1>5 DEF ArgPieces
  <2> QED
    BY <2>1, JoinEmpty, Zenon
<1> QED
  BY <1>1, <1>2, <1>4, <1>5 DEF ArgsOf, ArgPieces

(* What the delta tc, the n-th of r, adds to the arguments sent for w *)
ArgsNext(q, tc, r, n, w) ==
  ArgsOf(r, w) = ArgsOf(q, w) \o (IF Owner(r, n) = w THEN tc.args ELSE <<>>)

LEMMA ArgsOfAppend ==
  ASSUME NEW q \in Seq(Calls), NEW tc \in Calls, NEW n, n = Len(q) + 1, NEW r, r = Append(q, tc),
         NEW w
  PROVE  ArgsNext(q, tc, r, n, w)
<1>1. PICK l \in Nat : l = Len(q) /\ DOMAIN q = 1 .. l
  OBVIOUS
<1>2. r \in Seq(Calls) /\ Len(r) = l + 1 /\ DOMAIN r = 1 .. l + 1
      /\ r[l + 1] = tc /\ \A k \in 1 .. l : r[k] = q[k]
  BY <1>1, AppendProperties
<1>3. PICK g \in [1 .. l -> Seq(Char)] : g = ArgPieces(q, w)
  BY <1>1, ArgPiecesType
<1>4. PICK h \in [1 .. l + 1 -> Seq(Char)] : h = ArgPieces(r, w)
  <2>1. PICK m \in Nat : m = l + 1
    OBVIOUS
  <2>2. ArgPieces(r, w) \in [1 .. m -> Seq(Char)]
    BY <1>2, <2>1, ArgPiecesType
  <2> QED
    BY <2>1, <2>2
<1>5. ASSUME NEW k \in 1 .. l PROVE h[k] = g[k]
  <2>1. k \in Nat /\ k > 0 /\ SameStart(q, r, k)
    BY <1>2 DEF SameStart
  <2>2. Owner(r, k) = Owner(q, k)
    BY <2>1, StartDecides
  <2>3. k \in DOMAIN q /\ k \in DOMAIN r /\ r[k] = q[k]
    BY <1>1, <1>2
  <2> QED
    BY <1>3, <1>4, <2>2, <2>3 DEF ArgPieces
<1>6. n \in DOMAIN r /\ r[n] = tc
  BY <1>1, <1>2
<1>7. h[n] = IF Owner(r, n) = w THEN tc.args ELSE <<>>
  BY <1>4, <1>6 DEF ArgPieces
<1>8. FlattenSeq(h) = FlattenSeq(g) \o h[l + 1]
  <2>1. \A k \in 1 .. l : h[k] = g[k]
    BY <1>5
  <2> QED
    BY <2>1, JoinOneMore, Zenon
<1> QED
  BY <1>1, <1>3, <1>4, <1>7, <1>8 DEF ArgsOf, ArgPieces, ArgsNext

CallMarks(o) == [pos \in DOMAIN o |-> IF o[pos].type = "function_call" THEN <<pos>> ELSE <<>>]

LEMMA CallMarksType ==
  ASSUME NEW o \in Seq(ItemSet), NEW n \in Nat, Len(o) = n
  PROVE  CallMarks(o) \in [1 .. n -> Seq(Nat)]
<1>1. DOMAIN o = 1 .. n
  OBVIOUS
<1>2. <<>> \in Seq(Nat) /\ \A k \in 1 .. n : <<k>> \in Seq(Nat)
  BY EmptySeq
<1> QED
  BY <1>1, <1>2 DEF CallMarks

LEMMA CallItemsAppend ==
  ASSUME NEW o \in Seq(ItemSet), NEW item \in ItemSet, item.type = "function_call"
  PROVE  /\ CallItems(o) \in Seq(Nat)
         /\ CallItems(Append(o, item)) = Append(CallItems(o), Len(o) + 1)
<1>1. PICK n \in Nat : n = Len(o) /\ DOMAIN o = 1 .. n
  OBVIOUS
<1>2. PICK p \in Seq(ItemSet) : p = Append(o, item)
  BY AppendProperties
<1>3. Len(p) = n + 1 /\ DOMAIN p = 1 .. n + 1 /\ p[n + 1] = item /\ \A k \in 1 .. n : p[k] = o[k]
  BY <1>1, <1>2, AppendProperties
<1>4. PICK g \in [1 .. n -> Seq(Nat)] : g = CallMarks(o)
  BY <1>1, CallMarksType
<1>5. PICK h \in [1 .. n + 1 -> Seq(Nat)] : h = CallMarks(p)
  <2>1. PICK m \in Nat : m = n + 1
    OBVIOUS
  <2>2. CallMarks(p) \in [1 .. m -> Seq(Nat)]
    BY <1>3, <2>1, CallMarksType
  <2> QED
    BY <2>1, <2>2
<1>6. \A k \in 1 .. n : k \in 1 .. n + 1 /\ h[k] = g[k]
  BY <1>1, <1>3, <1>4, <1>5 DEF CallMarks
<1>7. h[n + 1] = <<n + 1>>
  <2>1. n + 1 \in 1 .. n + 1
    OBVIOUS
  <2> QED
    BY <1>3, <1>5, <2>1 DEF CallMarks
<1>8. FlattenSeq(g) \in Seq(Nat) /\ FlattenSeq(h) = FlattenSeq(g) \o h[n + 1]
  <2>1. \A k \in 1 .. n : h[k] = g[k]
    BY <1>6
  <2> QED
    BY <2>1, JoinOneMore, Zenon
<1>9. FlattenSeq(g) \o <<n + 1>> = Append(FlattenSeq(g), n + 1)
  BY <1>8, AppendIsConcat
<1> QED
  BY <1>1, <1>2, <1>4, <1>5, <1>7, <1>8, <1>9 DEF CallItems, CallMarks

(* The calls of o are those of p, with the same arguments *)
SameCalls(o, p) ==
  /\ Len(o) <= Len(p)
  /\ \A k \in 1 .. Len(o) :
       p[k].type = o[k].type /\ (o[k].type = "function_call" => p[k].text = o[k].text)
  /\ \A k \in Len(o) + 1 .. Len(p) : p[k].type # "function_call"

SameMarks(o, p) ==
  /\ Len(o) <= Len(p)
  /\ \A k \in 1 .. Len(o) : p[k].type = o[k].type
  /\ \A k \in Len(o) + 1 .. Len(p) : p[k].type # "function_call"

LEMMA CallItemsSame ==
  ASSUME NEW o \in Seq(ItemSet), NEW p \in Seq(ItemSet), SameMarks(o, p)
  PROVE  CallItems(p) = CallItems(o)
<1>1. PICK n \in Nat : n = Len(o) /\ DOMAIN o = 1 .. n
  OBVIOUS
<1>2. PICK m \in Nat : m = Len(p) /\ DOMAIN p = 1 .. m
  OBVIOUS
<1>3. PICK g \in [1 .. n -> Seq(Nat)] : g = CallMarks(o)
  BY <1>1, CallMarksType
<1>4. PICK h \in [1 .. m -> Seq(Nat)] : h = CallMarks(p)
  BY <1>2, CallMarksType
<1>5. n <= m
  BY <1>1, <1>2 DEF SameMarks
<1>6. g \in Seq(Seq(Nat)) /\ h \in Seq(Seq(Nat)) /\ Len(g) = n /\ Len(h) = m
  BY <1>3, <1>4
<1>7. \A k \in 1 .. n : h[k] = g[k]
  <2> TAKE k \in 1 .. n
  <2>1. k \in 1 .. m /\ p[k].type = o[k].type
    BY <1>1, <1>2, <1>5 DEF SameMarks
  <2> QED
    BY <1>1, <1>2, <1>3, <1>4, <2>1 DEF CallMarks
<1>8. \A k \in n + 1 .. m : h[k] = <<>>
  <2> TAKE k \in n + 1 .. m
  <2>1. k \in 1 .. m /\ p[k].type # "function_call"
    BY <1>1, <1>2, <1>5 DEF SameMarks
  <2> QED
    BY <1>2, <1>4, <2>1 DEF CallMarks
<1>9. FlattenSeq(h) = FlattenSeq(g)
  BY <1>5, <1>6, <1>7, <1>8, FlattenPad
<1> QED
  BY <1>3, <1>4, <1>9 DEF CallItems, CallMarks

-----------------------------------------------------------------------------
(* The calls of s, their arguments and the ways to them are those of t *)
Undisturbed(s, t) ==
  t.tool_items = s.tool_items /\ t.tool_ids = s.tool_ids /\ SameCalls(s.out, t.out)

LEMMA UndisturbedSelf ==
  ASSUME NEW s \in StateSet
  PROVE  Undisturbed(s, s)
<1>1. Len(s.out) \in Nat
  BY StateFields
<1> QED
  BY <1>1 DEF Undisturbed, SameCalls

LEMMA UndisturbedOn ==
  ASSUME NEW s \in StateSet, NEW t \in StateSet, NEW u \in StateSet,
         Undisturbed(s, t), Undisturbed(t, u)
  PROVE  Undisturbed(s, u)
<1>1. PICK a \in Nat : a = Len(s.out)
  BY StateFields
<1>2. PICK b \in Nat : b = Len(t.out)
  BY StateFields
<1>3. PICK c \in Nat : c = Len(u.out)
  BY StateFields
<1>4. a <= b /\ b <= c
  BY <1>1, <1>2, <1>3 DEF Undisturbed, SameCalls
<1>5. ASSUME NEW k \in 1 .. a
      PROVE  /\ u.out[k].type = s.out[k].type
             /\ s.out[k].type = "function_call" => u.out[k].text = s.out[k].text
  <2>1. k \in 1 .. b
    BY <1>4
  <2>2. t.out[k].type = s.out[k].type /\ (s.out[k].type = "function_call" => t.out[k].text = s.out[k].text)
    BY <1>1 DEF Undisturbed, SameCalls
  <2>3. u.out[k].type = t.out[k].type /\ (t.out[k].type = "function_call" => u.out[k].text = t.out[k].text)
    BY <1>2, <2>1 DEF Undisturbed, SameCalls
  <2> QED
    BY <2>2, <2>3
<1>6. ASSUME NEW k \in a + 1 .. c PROVE u.out[k].type # "function_call"
  <2>1. CASE k <= b
    <3>1. k \in 1 .. b /\ k \in a + 1 .. b
      BY <2>1
    <3>2. t.out[k].type # "function_call"
      BY <1>1, <1>2, <3>1 DEF Undisturbed, SameCalls
    <3> QED
      BY <1>2, <3>1, <3>2 DEF Undisturbed, SameCalls
  <2>2. CASE ~(k <= b)
    <3>1. k \in b + 1 .. c
      BY <2>2
    <3> QED
      BY <1>2, <1>3, <3>1 DEF Undisturbed, SameCalls
  <2> QED
    BY <2>1, <2>2
<1>7. u.tool_items = s.tool_items /\ u.tool_ids = s.tool_ids
  BY DEF Undisturbed
<1>8. a <= c
  BY <1>4
<1> QED
  BY <1>1, <1>3, <1>5, <1>6, <1>7, <1>8 DEF Undisturbed, SameCalls

(* The items of s and no others, with the same texts *)
LEMMA SameTexts ==
  ASSUME NEW s \in StateSet, NEW t, t.tool_items = s.tool_items, t.tool_ids = s.tool_ids,
         Len(t.out) = Len(s.out),
         \A k \in 1 .. Len(s.out) : t.out[k].type = s.out[k].type /\ t.out[k].text = s.out[k].text
  PROVE  Undisturbed(s, t)
<1>1. PICK a \in Nat : a = Len(s.out)
  BY StateFields
<1>2. a <= a /\ a + 1 .. a = {}
  BY <1>1
<1> QED
  BY <1>1, <1>2 DEF Undisturbed, SameCalls

LEMMA SameOut ==
  ASSUME NEW s \in StateSet, NEW t, t.tool_items = s.tool_items, t.tool_ids = s.tool_ids,
         t.out = s.out
  PROVE  Undisturbed(s, t)
  BY SameTexts

LEMMA PushUndisturbed ==
  ASSUME NEW s \in StateSet, NEW f \in FrameSet
  PROVE  Undisturbed(s, Push(s, f))
<1>1. PICK t : t = Push(s, f)
  OBVIOUS
<1>2. t.tool_items = s.tool_items /\ t.tool_ids = s.tool_ids /\ t.out = s.out
  BY <1>1, PushParts
<1> QED
  BY <1>1, <1>2, SameOut

LEMMA SettledUndisturbed ==
  ASSUME NEW s \in StateSet, NEW t, Settled(s, t)
  PROVE  Undisturbed(s, t)
<1>1. /\ t.tool_items = s.tool_items /\ t.tool_ids = s.tool_ids /\ Len(t.out) = Len(s.out)
      /\ \A k \in 1 .. Len(s.out) : t.out[k].type = s.out[k].type /\ t.out[k].text = s.out[k].text
  BY DEF Settled
<1> QED
  BY <1>1, SameTexts

LEMMA DoneUndisturbed ==
  ASSUME NEW s \in StateSet, NEW t, SameItems(s, t)
  PROVE  Undisturbed(s, t)
<1>1. /\ t.tool_items = s.tool_items /\ t.tool_ids = s.tool_ids /\ Len(t.out) = Len(s.out)
      /\ \A k \in 1 .. Len(s.out) : t.out[k].type = s.out[k].type /\ t.out[k].text = s.out[k].text
  BY DEF SameItems
<1> QED
  BY <1>1, SameTexts

(* A new item that is no call *)
LEMMA OpenedUndisturbed ==
  ASSUME NEW s \in StateSet, NEW item \in ItemSet, item.type # "function_call",
         NEW pos, NEW t, Opened(s, t, pos, item)
  PROVE  t \in StateSet /\ Undisturbed(s, t)
<1>1. PICK n \in Nat : n = Len(s.out)
  BY StateFields
<1>2. s.out \in Seq(ItemSet)
  BY StateFields
<1>3. PICK p : p = Append(s.out, item)
  OBVIOUS
<1>4. /\ p \in Seq(ItemSet) /\ Len(p) = n + 1 /\ p[n + 1] = item
      /\ \A k \in 1 .. n : p[k] = s.out[k]
  BY <1>1, <1>2, <1>3, Appended
<1>5. t = [s EXCEPT !.out = p, !.current = pos] /\ pos \in Nat
  BY <1>1, <1>3 DEF Opened
<1>6. t \in StateSet /\ t.out = p /\ t.tool_items = s.tool_items /\ t.tool_ids = s.tool_ids
  BY <1>4, <1>5 DEF StateSet
<1>7. \A k \in n + 1 .. n + 1 : p[k].type # "function_call"
  BY <1>4
<1>8. n <= n + 1
  OBVIOUS
<1> QED
  BY <1>1, <1>4, <1>6, <1>7, <1>8 DEF Undisturbed, SameCalls

LEMMA OpenItemUndisturbed ==
  ASSUME NEW h, NEW s \in Framing(h), NEW type \in {"message", "reasoning"}
  PROVE  Undisturbed(s, open_item(s, type))
<1>0. s \in StateSet
  BY FramingState
<1>1. CASE s.current # NoPos /\ s.out[s.current].type = type
  BY <1>0, <1>1, UndisturbedSelf DEF open_item
<1>2. CASE ~(s.current # NoPos /\ s.out[s.current].type = type)
  <2>1. PICK t \in Framing(h) : t = close_current(s) /\ Settled(s, t)
    BY CloseCurrentFraming
  <2>2. t \in StateSet /\ Undisturbed(s, t)
    BY <1>0, <2>1, FramingState, SettledUndisturbed
  <2>3. PICK item \in ItemSet : item = Item(type, NoId) /\ item.type = type
    <3>1. type \in Types /\ NoId \in Nat
      BY DEF Types, NoId
    <3> QED
      BY <3>1, ItemType
  <2>4. PICK pos : pos = Len(t.out) + 1
    OBVIOUS
  <2>5. PICK u : u = [t EXCEPT !.out = Append(t.out, item), !.current = pos]
    OBVIOUS
  <2>6. u \in StateSet /\ Undisturbed(t, u)
    <3>1. Opened(t, u, pos, item)
      BY <2>4, <2>5 DEF Opened
    <3> QED
      BY <2>2, <2>3, <3>1, OpenedUndisturbed
  <2>7. pos \in Nat
    BY <2>2, <2>4, StateFields
  <2>8. PICK f \in FrameSet : f = Added(pos, item)
    BY <2>7, AddedType
  <2>9. PICK g \in FrameSet : g = Frame(PartAdded(type), pos, <<>>)
    <3>1. PartAdded(type) \in Evs
      BY DEF PartAdded, Evs
    <3> QED
      BY <2>7, <3>1, EmptyText, FrameType
  <2>10. open_item(s, type) = PushAll(u, <<f, g>>)
    BY <1>2, <2>1, <2>3, <2>4, <2>5, <2>8, <2>9, Zenon DEF open_item, PartAdded
  <2>11. PushAll(u, <<f, g>>) = Push(Push(u, f), g)
    BY <2>6, PushTwo
  <2>12. PICK v \in StateSet : v = Push(u, f) /\ Undisturbed(u, v)
    BY <2>6, PushParts, PushUndisturbed
  <2>13. PICK x \in StateSet : x = Push(v, g) /\ Undisturbed(v, x)
    BY PushParts, PushUndisturbed
  <2>14. Undisturbed(s, u)
    BY <1>0, <2>2, <2>6, UndisturbedOn
  <2>15. Undisturbed(s, v)
    BY <1>0, <2>6, <2>12, <2>14, UndisturbedOn
  <2>16. Undisturbed(s, x)
    BY <1>0, <2>13, <2>15, UndisturbedOn
  <2> QED
    BY <2>10, <2>11, <2>12, <2>13, <2>16
<1> QED
  BY <1>1, <1>2

(* Text for an item that is no call *)
LEMMA TextUndisturbed ==
  ASSUME NEW s \in StateSet, NEW pos \in 1 .. Len(s.out), NEW ev \in DeltaEvents, NEW text \in Texts,
         s.out[pos].type # "function_call"
  PROVE  Undisturbed(s, append_text(s, pos, ev, text))
<1>1. PICK t : t = append_text(s, pos, ev, text)
  OBVIOUS
<1>2. SentAndKept(s, t, pos, ev, text)
  BY <1>1, AppendParts
<1>3. PICK a \in Nat : a = Len(s.out)
  BY StateFields
<1>4. PICK item \in ItemSet : item = s.out[pos]
  BY StateFields
<1>5. PICK y \in Texts : y = item.text \o text
  BY ItemParts, ConcatText
<1>6. PICK z : z = [item EXCEPT !.text = y]
  OBVIOUS
<1>7. z.type = item.type
  BY <1>6, ItemText
<1>8. Replaced(s.out, t.out, pos, z)
  BY <1>2, <1>4, <1>5, <1>6 DEF SentAndKept
<1>9. Len(t.out) = a /\ t.out[pos] = z /\ \A k \in 1 .. a : k # pos => t.out[k] = s.out[k]
  BY <1>3, <1>8 DEF Replaced
<1>10. \A k \in 1 .. a : /\ t.out[k].type = s.out[k].type
                         /\ s.out[k].type = "function_call" => t.out[k].text = s.out[k].text
  BY <1>4, <1>7, <1>9
<1>11. a <= a /\ a + 1 .. a = {}
  OBVIOUS
<1>12. t.tool_items = s.tool_items /\ t.tool_ids = s.tool_ids
  BY <1>2 DEF SentAndKept
<1> QED
  BY <1>1, <1>3, <1>9, <1>10, <1>11, <1>12 DEF Undisturbed, SameCalls

LEMMA PieceUndisturbed ==
  ASSUME NEW h, NEW s \in Framing(h), NEW type \in {"message", "reasoning"},
         NEW ev \in DeltaEvents, NEW text \in Texts
  PROVE  Undisturbed(s, append_text(open_item(s, type), open_item(s, type).current, ev, text))
<1>1. PICK t \in Framing(h) : t = open_item(s, type) /\ t.current # NoPos
  BY OpenItemFraming
<1>2. s \in StateSet /\ t \in StateSet /\ Pointed(t)
  BY FramingState
<1>3. PICK pos \in 1 .. Len(t.out) : pos = t.current /\ t.out[pos].type # "function_call"
  BY <1>1, <1>2 DEF Pointed
<1>4. PICK u : u = append_text(t, pos, ev, text)
  OBVIOUS
<1>5. u \in StateSet
  BY <1>2, <1>4, AppendParts DEF SentAndKept
<1>6. Undisturbed(t, u)
  BY <1>2, <1>3, <1>4, TextUndisturbed
<1>7. Undisturbed(s, t)
  BY <1>1, OpenItemUndisturbed
<1>8. Undisturbed(s, u)
  BY <1>2, <1>5, <1>6, <1>7, UndisturbedOn
<1> QED
  BY <1>1, <1>3, <1>4, <1>8

LEMMA TextSectionUndisturbed ==
  ASSUME NEW h, NEW s \in Framing(h), NEW c \in CanonChunk
  PROVE  Undisturbed(s, text_section(s, c))
<1>1. s \in StateSet /\ Saying(c) \in Texts
  BY FramingState, ChunkFields
<1>2. CASE c.delta_text = <<>>
  BY <1>1, <1>2, UndisturbedSelf DEF text_section
<1>3. CASE c.delta_text # <<>>
  <2>1. "output_text.delta" \in DeltaEvents
    BY DEF DeltaEvents
  <2>2. text_section(s, c) =
          append_text(open_item(s, "message"), open_item(s, "message").current,
                      "output_text.delta", Saying(c))
    BY <1>3 DEF text_section, Saying
  <2> QED
    BY <1>1, <2>1, <2>2, PieceUndisturbed
<1> QED
  BY <1>2, <1>3

LEMMA ThinkingSectionUndisturbed ==
  ASSUME NEW h, NEW s \in Framing(h), NEW c \in CanonChunk
  PROVE  Undisturbed(s, thinking_section(s, c))
<1>1. s \in StateSet /\ Musing(c) \in Texts
  BY FramingState, ChunkFields
<1>2. CASE c.thinking.kind # "thinking"
  BY <1>1, <1>2, UndisturbedSelf DEF thinking_section
<1>3. CASE c.thinking.kind = "thinking"
  <2>1. "reasoning_summary_text.delta" \in DeltaEvents
    BY DEF DeltaEvents
  <2>2. thinking_section(s, c) =
          append_text(open_item(s, "reasoning"), open_item(s, "reasoning").current,
                      "reasoning_summary_text.delta", Musing(c))
    BY <1>3 DEF thinking_section, Musing
  <2> QED
    BY <1>1, <2>1, <2>2, PieceUndisturbed
<1> QED
  BY <1>2, <1>3

LEMMA CreatedUndisturbed ==
  ASSUME NEW s \in StateSet
  PROVE  created(s) \in StateSet /\ Undisturbed(s, created(s))
<1>1. CASE ~s.first
  BY <1>1, UndisturbedSelf DEF created
<1>2. CASE s.first
  <2>1. PICK u : u = [s EXCEPT !.first = FALSE]
    OBVIOUS
  <2>2. u \in StateSet /\ u.out = s.out /\ u.tool_items = s.tool_items /\ u.tool_ids = s.tool_ids
    <3>1. FALSE \in BOOLEAN
      OBVIOUS
    <3> QED
      BY <2>1, <3>1 DEF StateSet
  <2>3. Undisturbed(s, u)
    BY <2>2, SameOut
  <2>4. PICK f \in FrameSet : f = Frame("created", NoPos, <<>>)
    <3>1. NoPos \in Nat /\ "created" \in Evs
      BY DEF NoPos, Evs
    <3> QED
      BY <3>1, EmptyText, FrameType
  <2>5. PICK v \in StateSet : v = Push(u, f) /\ Undisturbed(u, v)
    BY <2>2, PushParts, PushUndisturbed
  <2>6. created(s) = v
    BY <1>2, <2>1, <2>4, <2>5, Zenon DEF created
  <2> QED
    BY <2>2, <2>3, <2>5, <2>6, UndisturbedOn
<1> QED
  BY <1>1, <1>2, StateFields

LEMMA CloseToolsUndisturbed ==
  ASSUME NEW h, NEW s \in Sound(h)
  PROVE  Undisturbed(s, close_tools(s))
<1>1. s \in StateSet /\ Pointed(s)
  BY SoundState
<1>2. PICK q \in Seq(Nat) : q = s.open_tools
  BY <1>1, StateFields
<1>3. PICK L \in Nat : L = Len(q)
  OBVIOUS
<1>4. PICK l \in Nat : l = Len(s.out)
  BY <1>1, StateFields
<1>5. \A k \in 1 .. L : q[k] \in 1 .. l
  BY <1>1, <1>2, <1>3, <1>4 DEF Pointed, Call
<1>6. PICK f : /\ close_tools(s) = f[L]
               /\ f[0] = [s EXCEPT !.open_tools = <<>>]
               /\ \A n \in 1 .. L : f[n] = done(f[n - 1], q[n])
  BY <1>1, <1>2, <1>3, CloseToolsIs
<1> DEFINE Good(i) == f[i] \in Sound(h) /\ Len(f[i].out) = l /\ Undisturbed(s, f[i])
           Bad == {i \in 0 .. L : ~Good(i)}
<1>7. Good(0)
  <2>1. PICK t : t = f[0]
    OBVIOUS
  <2>2. t \in Sound(h) /\ t.out = s.out
    BY <1>6, <2>1, ToolsReset
  <2>3. t.tool_items = s.tool_items /\ t.tool_ids = s.tool_ids
    BY <1>1, <1>6, <2>1 DEF StateSet
  <2> QED
    BY <1>1, <1>4, <2>1, <2>2, <2>3, SameOut
<1>8. Bad = {}
  <2>1. SUFFICES ASSUME Bad # {} PROVE FALSE
    OBVIOUS
  <2>2. PICK m \in Bad : \A k \in Bad : m <= k
    <3>1. Bad \subseteq Nat
      OBVIOUS
    <3> HIDE DEF Bad
    <3> QED
      BY <2>1, <3>1, LeastNat
  <2>3. m \in 0 .. L /\ ~Good(m)
    BY <2>2
  <2>4. m # 0
    BY <1>7, <2>3
  <2>5. PICK p \in Nat : p = m - 1 /\ p \in 0 .. L /\ m \in 1 .. L /\ p < m
    BY <2>3, <2>4
  <2>6. Good(p)
    BY <2>2, <2>5
  <2>7. PICK g : g = f[p]
    OBVIOUS
  <2>8. g \in Sound(h) /\ g \in StateSet /\ Len(g.out) = l /\ Undisturbed(s, g)
    BY <2>6, <2>7, SoundState
  <2>9. PICK pos \in 1 .. Len(g.out) : pos = q[m]
    BY <1>5, <2>5, <2>8
  <2>10. PICK t : t = done(g, pos)
    OBVIOUS
  <2>11. t \in Sound(h) /\ SameItems(g, t)
    BY <2>8, <2>10, DoneSound
  <2>12. t \in StateSet /\ Len(t.out) = l /\ Undisturbed(g, t)
    BY <2>8, <2>11, SoundState, DoneUndisturbed DEF SameItems
  <2>13. Undisturbed(s, t)
    BY <1>1, <2>8, <2>12, UndisturbedOn
  <2>14. f[m] = t
    BY <1>6, <2>5, <2>7, <2>9, <2>10
  <2>15. Good(m)
    BY <2>11, <2>12, <2>13, <2>14
  <2> QED
    BY <2>3, <2>15
<1>9. \A i \in 0 .. L : Good(i)
  BY <1>8
<1>10. L \in 0 .. L
  OBVIOUS
<1> QED
  BY <1>6, <1>9, <1>10

LEMMA TerminalUndisturbed ==
  ASSUME NEW h, NEW s \in Framing(h)
  PROVE  Undisturbed(s, terminal(s))
<1>1. s \in StateSet /\ s \in Sound(h)
  BY FramingState
<1>2. PICK u : u = [s EXCEPT !.completed_sent = TRUE]
  OBVIOUS
<1>3. u \in Sound(AsSent(h)) /\ u.out = s.out /\ u.tool_items = s.tool_items /\ u.tool_ids = s.tool_ids
  BY <1>1, <1>2, SentSound
<1>4. u \in StateSet /\ Undisturbed(s, u)
  BY <1>1, <1>3, SoundState, SameOut
<1>5. PICK v : v = close_current(u)
  OBVIOUS
<1>6. v \in Sound(AsSent(h)) /\ Settled(u, v)
  BY <1>3, <1>5, CloseCurrentSound
<1>7. v \in StateSet /\ Undisturbed(u, v)
  BY <1>4, <1>6, SoundState, SettledUndisturbed
<1>8. PICK t : t = close_tools(v)
  OBVIOUS
<1>9. t \in Sound(AsSent(h)) /\ Undisturbed(v, t)
  BY <1>6, <1>8, CloseToolsSound, CloseToolsUndisturbed
<1>10. t \in StateSet
  BY <1>9, SoundState
<1>11. PICK f \in FrameSet : f = rx_terminal_frame(t)
  BY <1>10, TerminalFrameIs DEF TerminalFrame
<1>12. PICK x \in StateSet : x = Push(t, f) /\ Undisturbed(t, x)
  BY <1>10, PushParts, PushUndisturbed
<1>13. terminal(s) = x
  BY <1>2, <1>5, <1>8, <1>11, <1>12 DEF terminal, close_all
<1>14. Undisturbed(s, v)
  BY <1>1, <1>4, <1>7, UndisturbedOn
<1>15. Undisturbed(s, t)
  BY <1>1, <1>7, <1>9, <1>10, <1>14, UndisturbedOn
<1>16. Undisturbed(s, x)
  BY <1>1, <1>10, <1>12, <1>15, UndisturbedOn
<1> QED
  BY <1>13, <1>16

LEMMA EndingUndisturbed ==
  ASSUME NEW h, NEW s \in Framing(h), NEW c \in CanonChunk
  PROVE  Undisturbed(s, ending_section(s, c))
<1>1. PICK t : t = [s EXCEPT !.usage = IF c.usage.given THEN c.usage ELSE s.usage,
                             !.saw_finish = IF c.finish # "none" THEN c.finish ELSE s.saw_finish]
  OBVIOUS
<1>2. PICK n : n = Noted(h, c)
  OBVIOUS
<1>3. t \in Framing(n) /\ t.out = s.out
  <2>1. Jotted(s, c, t)
    BY <1>1 DEF Jotted
  <2> QED
    BY <1>2, <2>1, NotedFraming
<1>4. s \in StateSet /\ t \in StateSet
  BY <1>3, FramingState
<1>5. t.tool_items = s.tool_items /\ t.tool_ids = s.tool_ids
  BY <1>1, <1>4 DEF StateSet
<1>6. Undisturbed(s, t)
  BY <1>3, <1>4, <1>5, SameOut
<1>7. ending_section(s, c) = t \/ ending_section(s, c) = terminal(t)
  BY <1>1, Zenon DEF ending_section
<1>8. PICK x : x = terminal(t)
  OBVIOUS
<1>9. x \in StateSet
  BY <1>3, <1>8, TerminalFinishes, SoundState DEF Finished
<1>10. Undisturbed(t, x)
  BY <1>3, <1>8, TerminalUndisturbed
<1>11. Undisturbed(s, x)
  BY <1>4, <1>6, <1>9, <1>10, UndisturbedOn
<1> QED
  BY <1>6, <1>7, <1>8, <1>11

LEMMA UnderState ==
  ASSUME NEW h, NEW s, Under(h, s)
  PROVE  s \in StateSet
  BY NewStateType, FramingState DEF Under

LEMMA ErrorUndisturbed ==
  ASSUME NEW h, NEW s, Under(h, s)
  PROVE  Undisturbed(s, frame_error(s))
<1>1. PICK t \in Framing(h) : t = created(s)
  BY CreatedUnder
<1>2. s \in StateSet /\ t \in StateSet /\ Undisturbed(s, t)
  BY <1>1, UnderState, CreatedUndisturbed
<1>3. PICK u : u = [t EXCEPT !.completed_sent = TRUE]
  OBVIOUS
<1>4. u \in StateSet /\ u.out = t.out /\ u.tool_items = t.tool_items /\ u.tool_ids = t.tool_ids
  BY <1>1, <1>3, FramingState, SentSound, SoundState
<1>5. Undisturbed(t, u)
  BY <1>2, <1>4, SameOut
<1>6. PICK f \in FrameSet : f = Frame("failed", NoPos, <<>>)
  <2>1. NoPos \in Nat /\ "failed" \in Evs
    BY DEF NoPos, Evs
  <2> QED
    BY <2>1, EmptyText, FrameType
<1>7. PICK x \in StateSet : x = Push(u, f) /\ Undisturbed(u, x)
  BY <1>4, PushParts, PushUndisturbed
<1>8. frame_error(s) = x
  BY <1>1, <1>3, <1>6, <1>7, Zenon DEF frame_error
<1>9. Undisturbed(s, u)
  BY <1>2, <1>4, <1>5, UndisturbedOn
<1>10. Undisturbed(s, x)
  BY <1>2, <1>4, <1>7, <1>9, UndisturbedOn
<1> QED
  BY <1>8, <1>10

LEMMA FinishUndisturbed ==
  ASSUME NEW h, NEW s, Under(h, s)
  PROVE  Undisturbed(s, finish(s))
<1>1. s \in StateSet
  BY UnderState
<1>2. CASE s.completed_sent \/ s.first
  BY <1>1, <1>2, UndisturbedSelf DEF finish
<1>3. CASE ~(s.completed_sent \/ s.first)
  <2>1. s # NewState
    BY <1>3, NewStateType
  <2>2. s \in Framing(h)
    BY <2>1 DEF Under
  <2> QED
    BY <1>3, <2>2, TerminalUndisturbed DEF finish
<1> QED
  BY <1>2, <1>3

-----------------------------------------------------------------------------
(* Which call an id or an index leads to *)
Once(q) == \A m, n \in 1 .. Len(q) : q[m] = q[n] => m = n

(* The map f leads from i to the item of the caller that a names for i *)
Routes(f, a, sp, ws) ==
  \A i \in DOMAIN f : \E k \in 1 .. Len(sp) : sp[k] = f[i] /\ ws[k] = a[i]

LEMMA OnceMore ==
  ASSUME NEW S, NEW q \in Seq(S), NEW x \in S, Once(q), \A k \in 1 .. Len(q) : q[k] # x,
         NEW p, p = Append(q, x)
  PROVE  Once(p)
<1>1. PICK n \in Nat : n = Len(q)
  OBVIOUS
<1>2. Len(p) = n + 1 /\ p[n + 1] = x /\ \A k \in 1 .. n : p[k] = q[k]
  BY <1>1, Appended
<1>3. \A k \in 1 .. n + 1 : k \in 1 .. n \/ k = n + 1
  BY <1>1
<1> SUFFICES ASSUME NEW j \in 1 .. n + 1, NEW k \in 1 .. n + 1, p[j] = p[k] PROVE j = k
  BY <1>2 DEF Once
<1>4. CASE j \in 1 .. n /\ k \in 1 .. n
  BY <1>1, <1>2, <1>4 DEF Once
<1>5. CASE ~(j \in 1 .. n /\ k \in 1 .. n)
  BY <1>1, <1>2, <1>3, <1>5
<1> QED
  BY <1>4, <1>5

LEMMA RoutesOn ==
  ASSUME NEW S, NEW sp \in Seq(S), NEW x \in S, NEW T, NEW ws \in Seq(T), NEW y \in T,
         Len(sp) = Len(ws), NEW f, NEW a, NEW b, Routes(f, a, sp, ws), \A i \in DOMAIN f : b[i] = a[i]
  PROVE  Routes(f, b, Append(sp, x), Append(ws, y))
<1>1. PICK n \in Nat : n = Len(sp) /\ n = Len(ws)
  OBVIOUS
<1>2. PICK u : u = Append(sp, x)
  OBVIOUS
<1>3. PICK v : v = Append(ws, y)
  OBVIOUS
<1>4. Len(u) = n + 1 /\ \A k \in 1 .. n : u[k] = sp[k] /\ k \in 1 .. n + 1
  BY <1>1, <1>2, Appended
<1>5. \A k \in 1 .. n : v[k] = ws[k]
  BY <1>1, <1>3, Appended
<1>6. ASSUME NEW i \in DOMAIN f PROVE \E k \in 1 .. n + 1 : u[k] = f[i] /\ v[k] = b[i]
  <2>1. PICK k \in 1 .. n : sp[k] = f[i] /\ ws[k] = a[i]
    BY <1>1 DEF Routes
  <2> QED
    BY <1>4, <1>5, <2>1
<1> QED
  BY <1>2, <1>3, <1>4, <1>6 DEF Routes

AgreeBut(f, key, a, b) == \A i \in DOMAIN f : i # key => b[i] = a[i]

LEMMA RoutesMore ==
  ASSUME NEW S, NEW sp \in Seq(S), NEW x \in S, NEW T, NEW ws \in Seq(T), NEW y \in T,
         Len(sp) = Len(ws), NEW f, NEW a, NEW b, NEW g, NEW key,
         Routes(f, a, sp, ws), AgreeBut(f, key, a, b),
         Inserted(f, key, x, g), b[key] = y
  PROVE  Routes(g, b, Append(sp, x), Append(ws, y))
<1>1. PICK n \in Nat : n = Len(sp) /\ n = Len(ws)
  OBVIOUS
<1>2. PICK u : u = Append(sp, x)
  OBVIOUS
<1>3. PICK v : v = Append(ws, y)
  OBVIOUS
<1>4. Len(u) = n + 1 /\ u[n + 1] = x /\ \A k \in 1 .. n : u[k] = sp[k] /\ k \in 1 .. n + 1
  BY <1>1, <1>2, Appended
<1>5. v[n + 1] = y /\ \A k \in 1 .. n : v[k] = ws[k]
  BY <1>1, <1>3, Appended
<1>6. ASSUME NEW i \in DOMAIN g PROVE \E k \in 1 .. n + 1 : u[k] = g[i] /\ v[k] = b[i]
  <2>1. CASE i = key
    <3>1. g[i] = x /\ b[i] = y
      BY <2>1 DEF Inserted
    <3>2. n + 1 \in 1 .. n + 1
      OBVIOUS
    <3> QED
      BY <1>4, <1>5, <3>1, <3>2
  <2>2. CASE i # key
    <3>1. i \in DOMAIN f /\ g[i] = f[i] /\ b[i] = a[i]
      BY <2>2 DEF Inserted, AgreeBut
    <3>2. PICK k \in 1 .. n : sp[k] = f[i] /\ ws[k] = a[i]
      BY <1>1, <3>1 DEF Routes
    <3> QED
      BY <1>4, <1>5, <3>1, <3>2
  <2> QED
    BY <2>1, <2>2
<1> QED
  BY <1>2, <1>3, <1>4, <1>6 DEF Routes

-----------------------------------------------------------------------------
ById == [i \in Nat |-> <<"id", i>>]
ByIndex(q) == [i \in Nat |-> AtIndex(q, Len(q), i)]

(* The callers of a history: each once, and each the owner of some delta *)
OwnersOf(q) ==
  /\ Once(Callers(q))
  /\ \A k \in 1 .. Len(Callers(q)) :
       Callers(q)[k] # Nobody /\ \E m \in 1 .. Len(q) : Callers(q)[k] = Owner(q, m)

(* The ids and the indices that s knows are those q has named, and they    *)
(* lead to the items of their callers                                      *)
Ways(s, q) ==
  /\ Len(CallItems(s.out)) = Len(Callers(q))
  /\ Once(CallItems(s.out))
  /\ \A k \in 1 .. Len(CallItems(s.out)) : Call(s.out, CallItems(s.out)[k])
  /\ DOMAIN s.tool_ids = Given(q, Len(q))
  /\ \A i \in Nat : i \in DOMAIN s.tool_items <=> ByIndex(q)[i] # Nobody
  /\ Routes(s.tool_ids, ById, CallItems(s.out), Callers(q))
  /\ Routes(s.tool_items, ByIndex(q), CallItems(s.out), Callers(q))

(* The items hold the arguments that q sends their callers ws *)
Holds(s, q, ws) ==
  \A k \in 1 .. Len(CallItems(s.out)) : s.out[CallItems(s.out)[k]].text = ArgsOf(q, ws[k])

Fit(s, q) == OwnersOf(q) /\ Ways(s, q) /\ Holds(s, q, Callers(q))

LEMMA FitUndisturbed ==
  ASSUME NEW s \in StateSet, NEW t \in StateSet, Undisturbed(s, t), NEW q, NEW r, NEW ws
  PROVE  /\ Ways(s, q) => Ways(t, q)
         /\ Ways(s, q) /\ Holds(s, r, ws) => Holds(t, r, ws)
<1>1. s.out \in Seq(ItemSet) /\ t.out \in Seq(ItemSet)
  BY StateFields
<1>2. SameCalls(s.out, t.out) /\ t.tool_items = s.tool_items /\ t.tool_ids = s.tool_ids
  BY DEF Undisturbed
<1>3. CallItems(t.out) = CallItems(s.out)
  BY <1>1, <1>2, CallItemsSame DEF SameCalls, SameMarks
<1>4. PICK a \in Nat : a = Len(s.out)
  BY <1>1
<1>5. PICK b \in Nat : b = Len(t.out)
  BY <1>1
<1>6. \A p : Call(s.out, p) => Call(t.out, p) /\ t.out[p].text = s.out[p].text
  <2>1. a <= b
    BY <1>2, <1>4, <1>5 DEF SameCalls
  <2> SUFFICES ASSUME NEW p \in 1 .. a, s.out[p].type = "function_call"
               PROVE  p \in 1 .. b /\ t.out[p].type = "function_call" /\ t.out[p].text = s.out[p].text
    BY <1>4, <1>5 DEF Call
  <2>2. p \in 1 .. b
    BY <2>1
  <2> QED
    BY <1>2, <1>4, <2>2 DEF SameCalls
<1>7. ASSUME Ways(s, q) PROVE Ways(t, q)
  BY <1>2, <1>3, <1>6, <1>7 DEF Ways
<1>8. ASSUME Ways(s, q), Holds(s, r, ws) PROVE Holds(t, r, ws)
  <2>1. \A k \in 1 .. Len(CallItems(s.out)) : Call(s.out, CallItems(s.out)[k])
    BY <1>8 DEF Ways
  <2> QED
    BY <1>3, <1>6, <1>8, <2>1 DEF Holds
<1> QED
  BY <1>7, <1>8

-----------------------------------------------------------------------------
(* A delta more: what it changes about the history *)
OneMore(q, tc, r, l, n) ==
  /\ r = Append(q, tc) /\ l = Len(q) /\ n = l + 1
  /\ q \in Seq(Calls) /\ tc \in Calls

LEMMA OneMoreParts ==
  ASSUME NEW q, NEW tc, NEW r, NEW l, NEW n, OneMore(q, tc, r, l, n)
  PROVE  /\ q \in Seq(Calls) /\ tc \in Calls /\ r \in Seq(Calls)
         /\ l \in Nat /\ n \in Nat /\ n = l + 1 /\ l = Len(q) /\ n = Len(r)
         /\ r[n] = tc
         /\ \A m \in 0 .. l : SameStart(q, r, m)
         /\ Given(r, l) = Given(q, l)
         /\ \A i : AtIndex(r, l, i) = AtIndex(q, l, i)
         /\ \A m \in 1 .. l : Owner(r, m) = Owner(q, m)
         /\ tc.id \in Nat /\ tc.index \in Nat /\ tc.args \in Texts
<1>1. q \in Seq(Calls) /\ tc \in Calls /\ r = Append(q, tc) /\ l = Len(q) /\ n = l + 1
  BY DEF OneMore
<1>2. l \in Nat /\ n \in Nat
  BY <1>1
<1>3. r \in Seq(Calls) /\ Len(r) = l + 1 /\ r[l + 1] = tc /\ \A k \in 1 .. l : r[k] = q[k]
  BY <1>1, Appended
<1>4. \A m \in 0 .. l : SameStart(q, r, m)
  BY <1>2, <1>3 DEF SameStart
<1>5. SameStart(q, r, l)
  BY <1>2, <1>4
<1>6. Given(r, l) = Given(q, l) /\ \A i : AtIndex(r, l, i) = AtIndex(q, l, i)
  BY <1>2, <1>5, StartDecides
<1>7. \A m \in 1 .. l : Owner(r, m) = Owner(q, m)
  <2> TAKE m \in 1 .. l
  <2>1. m \in Nat /\ m > 0 /\ SameStart(q, r, m)
    BY <1>2, <1>4
  <2> QED
    BY <2>1, StartDecides
<1>8. tc.id \in Nat /\ tc.index \in Nat /\ tc.args \in Texts
  BY <1>1 DEF Calls
<1> QED
  BY <1>1, <1>2, <1>3, <1>4, <1>6, <1>7, <1>8

LEMMA OwnersMore ==
  ASSUME NEW q, NEW tc, NEW r, NEW l, NEW n, OneMore(q, tc, r, l, n), OwnersOf(q)
  PROVE  OwnersOf(r)
<1>1. /\ q \in Seq(Calls) /\ tc \in Calls /\ r \in Seq(Calls)
      /\ l \in Nat /\ n \in Nat /\ n = l + 1 /\ l = Len(q) /\ n = Len(r) /\ r[n] = tc
      /\ \A m \in 1 .. l : Owner(r, m) = Owner(q, m)
  BY OneMoreParts
<1>2. r = Append(q, tc)
  BY DEF OneMore
<1>3. PICK ws \in Seq(Callee) : ws = Callers(q)
  BY <1>1, CallersAppend
<1>4. PICK w \in Callee : w = Owner(r, n)
  <2>1. n \in 1 .. Len(r)
    BY <1>1
  <2> QED
    BY <1>1, <2>1, OwnerType
<1>5. PICK b \in Nat : b = Len(ws)
  OBVIOUS
<1>6. Once(ws) /\ \A k \in 1 .. b : ws[k] # Nobody /\ \E m \in 1 .. l : ws[k] = Owner(r, m)
  BY <1>1, <1>3, <1>5 DEF OwnersOf
<1>7. \A m \in 1 .. l : m \in 1 .. n
  BY <1>1
<1>8. n \in 1 .. n
  BY <1>1
<1>9. PICK vs : vs = Callers(r)
  OBVIOUS
<1>10. vs = IF tc.name /\ FirstNamed(r, n) THEN Append(ws, w) ELSE ws
  <2>1. n = Len(q) + 1
    BY <1>1
  <2>2. CallersNext(q, tc, r, n)
    BY <1>1, <1>2, <2>1, CallersAppend
  <2> QED
    BY <1>3, <1>4, <1>9, <2>2 DEF CallersNext
<1>11. CASE tc.name /\ FirstNamed(r, n)
  <2>1. \A k \in 1 .. b : ws[k] # w
    <3>1. 1 .. n - 1 = 1 .. l
      BY <1>1
    <3>2. \A m \in 1 .. l : Owner(r, m) # w
      BY <1>4, <1>11, <3>1 DEF FirstNamed
    <3> QED
      BY <1>6, <3>2
  <2>2. w # Nobody
    BY <1>1, <1>4, <1>11, NamedOwner
  <2>3. vs = Append(ws, w)
    BY <1>10, <1>11
  <2>4. Once(vs)
    BY <1>5, <1>6, <2>1, <2>3, OnceMore
  <2>5. Len(vs) = b + 1 /\ vs[b + 1] = w /\ \A k \in 1 .. b : vs[k] = ws[k]
    BY <1>5, <2>3, Appended
  <2>6. \A k \in 1 .. b + 1 : vs[k] # Nobody /\ \E m \in 1 .. n : vs[k] = Owner(r, m)
    <3> TAKE k \in 1 .. b + 1
    <3>1. CASE k = b + 1
      BY <1>4, <1>8, <2>2, <2>5, <3>1
    <3>2. CASE k # b + 1
      <4>1. k \in 1 .. b
        BY <3>2
      <4> QED
        BY <1>6, <1>7, <2>5, <4>1
    <3> QED
      BY <3>1, <3>2
  <2> QED
    BY <1>1, <1>9, <2>4, <2>5, <2>6 DEF OwnersOf
<1>12. CASE ~(tc.name /\ FirstNamed(r, n))
  <2>1. vs = ws
    BY <1>10, <1>12
  <2> QED
    BY <1>1, <1>5, <1>6, <1>7, <1>9, <2>1 DEF OwnersOf
<1> QED
  BY <1>11, <1>12

(* A call is known in s by a name heard again *)
LEMMA KnownIs ==
  ASSUME NEW s \in StateSet, Pointed(s), NEW q, NEW tc, NEW r, NEW l, NEW n,
         OneMore(q, tc, r, l, n), Ways(s, q)
  PROVE  Known(s, tc) = NoPos <=> New(r, l, n)
<1>1. /\ tc \in Calls /\ l \in Nat /\ l = Len(q) /\ r[n] = tc /\ Given(r, l) = Given(q, l)
      /\ \A i : AtIndex(r, l, i) = AtIndex(q, l, i)
      /\ tc.id \in Nat /\ tc.index \in Nat
  BY OneMoreParts
<1>2. DOMAIN s.tool_ids = Given(q, l) /\ \A i \in DOMAIN s.tool_ids : s.tool_ids[i] # NoPos
  <2>1. \A i \in DOMAIN s.tool_ids : s.tool_ids[i] \in 1 .. Len(s.out)
    BY DEF Pointed, Call
  <2> QED
    BY <1>1, <2>1 DEF Ways, NoPos
<1>3. /\ tc.index \in DOMAIN s.tool_items <=> AtIndex(q, l, tc.index) # Nobody
      /\ \A i \in DOMAIN s.tool_items : s.tool_items[i] # NoPos
  <2>1. \A i \in DOMAIN s.tool_items : s.tool_items[i] \in 1 .. Len(s.out)
    BY DEF Pointed, Call
  <2>2. \A i \in Nat : ByIndex(q)[i] = AtIndex(q, l, i)
    BY <1>1 DEF ByIndex
  <2> QED
    BY <1>1, <2>1, <2>2 DEF Ways, NoPos
<1>4. CASE tc.id # NoId
  <2>1. Known(s, tc) = Lookup(s.tool_ids, tc.id) /\ (New(r, l, n) <=> tc.id \notin Given(q, l))
    BY <1>1, <1>4 DEF Known, New
  <2> QED
    BY <1>2, <2>1 DEF Lookup
<1>5. CASE tc.id = NoId
  <2>1. Known(s, tc) = Lookup(s.tool_items, tc.index)
        /\ (New(r, l, n) <=> AtIndex(q, l, tc.index) = Nobody)
    BY <1>1, <1>5 DEF Known, New
  <2> QED
    BY <1>3, <2>1 DEF Lookup
<1> QED
  BY <1>4, <1>5

(* The delta opens no call: the ways stay as they were *)
LEMMA WaysStay ==
  ASSUME NEW s, NEW q, NEW tc, NEW r, NEW l, NEW n, OneMore(q, tc, r, l, n), Ways(s, q),
         SteadyIds(r), ~tc.name \/ ~New(r, l, n)
  PROVE  Ways(s, r) /\ Callers(r) = Callers(q)
<1>1. /\ q \in Seq(Calls) /\ tc \in Calls /\ r \in Seq(Calls)
      /\ l \in Nat /\ n \in Nat /\ n = l + 1 /\ l = Len(q) /\ n = Len(r) /\ r[n] = tc
      /\ Given(r, l) = Given(q, l)
      /\ \A i : AtIndex(r, l, i) = AtIndex(q, l, i)
  BY OneMoreParts
<1>2. r = Append(q, tc)
  BY DEF OneMore
<1>3. Callers(r) = Callers(q)
  <2>1. n = Len(q) + 1
    BY <1>1
  <2>2. CallersNext(q, tc, r, n)
    BY <1>1, <1>2, <2>1, CallersAppend
  <2>3. ~(tc.name /\ FirstNamed(r, n))
    BY <1>1, FirstNaming
  <2> QED
    BY <2>2, <2>3 DEF CallersNext
<1>4. Given(r, n) = Given(q, l)
  <2>0. l \in Nat /\ n \in Nat /\ n = l + 1
    BY <1>1
  <2>1. Given(r, n) = Given(r, l) \cup (IF r[n].name /\ r[n].id # NoId THEN {r[n].id} ELSE {})
    BY <2>0, NamedNext
  <2>2. tc.name /\ tc.id # NoId => tc.id \in Given(r, l)
    BY <1>1 DEF New
  <2> QED
    BY <1>1, <2>1, <2>2
<1>5. ASSUME NEW i PROVE AtIndex(r, n, i) = AtIndex(q, l, i)
  <2>1. IndexNext(r, l, n, i)
    BY <1>1, AtIndexNext
  <2>2. CASE ~(tc.name /\ tc.index = i)
    BY <1>1, <2>1, <2>2 DEF IndexNext
  <2>3. CASE tc.name /\ tc.index = i /\ tc.id # NoId
    <3>1. tc.id \in Given(r, l)
      BY <1>1, <2>3 DEF New
    <3>2. AtIndex(r, l, i) = <<"id", tc.id>>
      <4>1. n <= Len(r)
        BY <1>1
      <4> QED
        BY <1>1, <2>3, <3>1, <4>1, SteadyAgain
    <3> QED
      BY <1>1, <2>1, <2>3, <3>2 DEF IndexNext
  <2>4. CASE tc.name /\ tc.index = i /\ tc.id = NoId
    <3>1. AtIndex(r, l, i) # Nobody
      BY <1>1, <2>4 DEF New
    <3> QED
      BY <1>1, <2>1, <2>4, <3>1 DEF IndexNext
  <2> QED
    BY <2>2, <2>3, <2>4
<1>6. ByIndex(r) = ByIndex(q)
  BY <1>1, <1>5 DEF ByIndex
<1>7. Given(r, Len(r)) = Given(q, Len(q))
  BY <1>1, <1>4
<1>8. Ways(s, r)
  BY <1>3, <1>6, <1>7 DEF Ways
<1> QED
  BY <1>3, <1>8

(* The delta opens a call *)
Widened(s, q, tc, t, r, w) ==
  /\ Ways(t, r)
  /\ CallItems(t.out) = Append(CallItems(s.out), Len(s.out) + 1)
  /\ Callers(r) = Append(Callers(q), w)
  /\ t.out = Append(s.out, Item("function_call", tc.id))

LEMMA WaysWiden ==
  ASSUME NEW s \in StateSet, NEW q, NEW tc, NEW r, NEW l, NEW n, OneMore(q, tc, r, l, n),
         Ways(s, q), tc.name, New(r, l, n), NEW t, NEW pos, NEW ids, CallOpened(s, tc, t, pos, ids)
  PROVE  Widened(s, q, tc, t, r, Owner(r, n))
<1>1. /\ q \in Seq(Calls) /\ tc \in Calls /\ r \in Seq(Calls)
      /\ l \in Nat /\ n \in Nat /\ n = l + 1 /\ l = Len(q) /\ n = Len(r) /\ r[n] = tc
      /\ Given(r, l) = Given(q, l)
      /\ \A i : AtIndex(r, l, i) = AtIndex(q, l, i)
      /\ tc.id \in Nat /\ tc.index \in Nat
  BY OneMoreParts
<1>2. r = Append(q, tc)
  BY DEF OneMore
<1>3. PICK w \in Callee : w = Owner(r, n)
  <2>1. n \in 1 .. Len(r)
    BY <1>1
  <2> QED
    BY <1>1, <2>1, OwnerType
<1>4. PICK ws \in Seq(Callee) : ws = Callers(q)
  BY <1>1, CallersAppend
<1>5. Callers(r) = Append(ws, w)
  <2>1. n = Len(q) + 1
    BY <1>1
  <2>2. CallersNext(q, tc, r, n)
    BY <1>1, <1>2, <2>1, CallersAppend
  <2>3. FirstNamed(r, n)
    BY <1>1, FirstNaming
  <2> QED
    BY <1>3, <1>4, <2>2, <2>3 DEF CallersNext
<1>6. PICK o \in Seq(ItemSet) : o = s.out
  BY StateFields
<1>7. PICK a \in Nat : a = Len(o)
  OBVIOUS
<1>8. PICK item \in ItemSet : /\ item = Item("function_call", tc.id)
                              /\ item.type = "function_call" /\ item.text = <<>>
  BY <1>1, ItemType DEF Types
<1>9. PICK p : p = Append(o, item)
  OBVIOUS
<1>10. /\ p \in Seq(ItemSet) /\ Len(p) = a + 1 /\ p[a + 1] = item
       /\ \A k \in 1 .. a : p[k] = o[k]
  BY <1>7, <1>9, Appended
<1>11. pos \in Nat /\ pos = a + 1
  BY <1>6, <1>7 DEF CallOpened
<1>12. PICK items : items = Insert(s.tool_items, tc.index, pos)
  OBVIOUS
<1>13. Inserted(s.tool_items, tc.index, pos, items)
  <2>1. s.tool_items \in Maps
    BY StateFields
  <2> QED
    BY <1>1, <1>11, <1>12, <2>1, InsertMaps
<1>14. PICK opens \in Seq(Nat) : opens = Append(s.open_tools, pos)
  <2>1. s.open_tools \in Seq(Nat)
    BY StateFields
  <2> QED
    BY <1>11, <2>1, AppendProperties
<1>15. tc.id # NoId => Inserted(s.tool_ids, tc.id, pos, ids)
  <2>1. s.tool_ids \in Maps
    BY StateFields
  <2> QED
    BY <1>1, <1>11, <2>1, InsertMaps DEF CallOpened
<1>16. tc.id = NoId => ids = s.tool_ids
  BY DEF CallOpened
<1>17. ids \in Maps /\ items \in Maps
  <2>1. s.tool_ids \in Maps
    BY StateFields
  <2> QED
    BY <1>13, <1>15, <1>16, <2>1 DEF Inserted
<1>18. t = [s EXCEPT !.out = p, !.tool_items = items, !.tool_ids = ids, !.open_tools = opens]
  BY <1>6, <1>8, <1>9, <1>12, <1>14, Zenon DEF CallOpened
<1>19. t.out = p /\ t.tool_items = items /\ t.tool_ids = ids
  BY <1>18 DEF StateSet
<1>20. PICK sp \in Seq(Nat) : sp = CallItems(o)
  BY <1>8, CallItemsAppend
<1>21. PICK up : up = CallItems(p)
  OBVIOUS
<1>22. up = Append(sp, pos)
  BY <1>7, <1>8, <1>9, <1>11, <1>20, <1>21, CallItemsAppend
<1>23. PICK b \in Nat : b = Len(sp) /\ b = Len(ws)
  BY <1>4, <1>6, <1>20 DEF Ways
<1>24. Len(up) = b + 1 /\ up[b + 1] = pos /\ \A k \in 1 .. b : up[k] = sp[k]
  <2>1. pos \in Nat
    BY <1>11
  <2>2. Len(up) = Len(sp) + 1 /\ up[Len(sp) + 1] = pos /\ \A k \in 1 .. Len(sp) : up[k] = sp[k]
    BY <1>22, <2>1, Appended
  <2> QED
    BY <1>23, <2>2
<1>25. Once(sp) /\ \A k \in 1 .. b : Call(o, sp[k])
  BY <1>6, <1>20, <1>23 DEF Ways
<1>26. Once(up)
  <2>1. \A k \in 1 .. b : sp[k] \in 1 .. a
    BY <1>7, <1>25 DEF Call
  <2>2. \A k \in 1 .. b : sp[k] # pos
    BY <1>11, <2>1
  <2> QED
    BY <1>11, <1>22, <1>23, <1>25, <2>2, OnceMore
<1>27. \A k \in 1 .. b + 1 : Call(p, up[k])
  <2>1. \A m : Call(o, m) => Call(p, m)
    BY <1>7, <1>10 DEF Call
  <2>2. Call(p, pos)
    BY <1>8, <1>10, <1>11 DEF Call
  <2>3. \A k \in 1 .. b + 1 : k \in 1 .. b \/ k = b + 1
    OBVIOUS
  <2> QED
    BY <1>24, <1>25, <2>1, <2>2, <2>3
<1>28. Len(Callers(r)) = b + 1
  BY <1>5, <1>23, Appended
<1>29. DOMAIN ids = Given(r, n)
  <2>1. Given(r, n) = Given(r, l) \cup (IF r[n].name /\ r[n].id # NoId THEN {r[n].id} ELSE {})
    BY <1>1, NamedNext
  <2>2. DOMAIN s.tool_ids = Given(q, l)
    BY <1>1 DEF Ways
  <2> QED
    BY <1>1, <1>15, <1>16, <2>1, <2>2 DEF Inserted
<1>30. AtIndex(r, n, tc.index) = w
  <2>1. IndexNext(r, l, n, tc.index)
    BY <1>1, AtIndexNext
  <2>2. w = IF r[n].id # NoId THEN <<"id", r[n].id>> ELSE AtIndex(r, n, r[n].index)
    BY <1>1, <1>3, FirstNaming
  <2> QED
    BY <1>1, <2>1, <2>2 DEF IndexNext
<1>31. \A i : i # tc.index => AtIndex(r, n, i) = AtIndex(q, l, i)
  <2> SUFFICES ASSUME NEW i, i # tc.index PROVE AtIndex(r, n, i) = AtIndex(q, l, i)
    OBVIOUS
  <2>1. IndexNext(r, l, n, i)
    BY <1>1, AtIndexNext
  <2> QED
    BY <1>1, <2>1 DEF IndexNext
<1>32. PICK A : A = ByIndex(q)
  OBVIOUS
<1>33. PICK B : B = ByIndex(r)
  OBVIOUS
<1>34. /\ \A i \in Nat : A[i] = AtIndex(q, l, i) /\ B[i] = AtIndex(r, n, i)
       /\ B[tc.index] = w
       /\ \A i \in Nat : i # tc.index => B[i] = A[i]
  <2>1. \A i \in Nat : A[i] = AtIndex(q, l, i) /\ B[i] = AtIndex(r, n, i)
    BY <1>1, <1>32, <1>33 DEF ByIndex
  <2> QED
    BY <1>1, <1>30, <1>31, <2>1
<1>35. w # Nobody
  BY <1>1, <1>3, NamedOwner
<1>36. \A i \in Nat : i \in DOMAIN items <=> B[i] # Nobody
  <2>1. \A i \in Nat : i \in DOMAIN s.tool_items <=> A[i] # Nobody
    BY <1>32 DEF Ways
  <2>2. DOMAIN items = DOMAIN s.tool_items \cup {tc.index}
    BY <1>13 DEF Inserted
  <2> QED
    BY <1>34, <1>35, <2>1, <2>2
<1>37. Routes(items, B, up, Append(ws, w))
  <2>1. Routes(s.tool_items, A, sp, ws)
    BY <1>4, <1>6, <1>20, <1>32 DEF Ways
  <2>2. DOMAIN s.tool_items \subseteq Nat
    BY StateFields DEF Maps
  <2>3. AgreeBut(s.tool_items, tc.index, A, B)
    BY <1>34, <2>2 DEF AgreeBut
  <2>4. Len(sp) = Len(ws)
    BY <1>23
  <2>5. Routes(items, B, Append(sp, pos), Append(ws, w))
    <3>1. pos \in Nat /\ B[tc.index] = w
      BY <1>11, <1>34
    <3> QED
      BY <1>13, <2>1, <2>3, <2>4, <3>1, RoutesMore
  <2> QED
    BY <1>22, <2>5
<1>38. Routes(ids, ById, up, Append(ws, w))
  <2>1. Routes(s.tool_ids, ById, sp, ws)
    BY <1>4, <1>6, <1>20 DEF Ways
  <2>2. Len(sp) = Len(ws)
    BY <1>23
  <2>3. CASE tc.id = NoId
    <3>1. Routes(s.tool_ids, ById, Append(sp, pos), Append(ws, w))
      BY <1>11, <2>1, <2>2, RoutesOn
    <3> QED
      BY <1>16, <1>22, <2>3, <3>1
  <2>4. CASE tc.id # NoId
    <3>1. ById[tc.id] = w
      <4>1. w = <<"id", tc.id>>
        BY <1>1, <1>3, <2>4, FirstNaming
      <4> QED
        BY <1>1, <4>1 DEF ById
    <3>2. Inserted(s.tool_ids, tc.id, pos, ids)
      BY <1>15, <2>4
    <3>3. AgreeBut(s.tool_ids, tc.id, ById, ById)
      BY DEF AgreeBut
    <3>4. Routes(ids, ById, Append(sp, pos), Append(ws, w))
      BY <1>11, <2>1, <2>2, <3>1, <3>2, <3>3, RoutesMore
    <3> QED
      BY <1>22, <3>4
  <2> QED
    BY <2>3, <2>4
<1>39. Ways(t, r)
  <2>1. DOMAIN t.tool_ids = Given(r, Len(r))
    BY <1>1, <1>19, <1>29
  <2>2. CallItems(t.out) = up /\ Callers(r) = Append(ws, w)
    BY <1>5, <1>19, <1>21
  <2> QED
    BY <1>19, <1>24, <1>26, <1>27, <1>28, <1>33, <1>36, <1>37, <1>38, <2>1, <2>2 DEF Ways
<1>40. CallItems(t.out) = Append(CallItems(s.out), Len(s.out) + 1)
  BY <1>6, <1>7, <1>11, <1>19, <1>20, <1>21, <1>22
<1> QED
  BY <1>3, <1>4, <1>5, <1>6, <1>8, <1>9, <1>19, <1>39, <1>40 DEF Widened

LEMMA OpenedHolds ==
  ASSUME NEW s \in StateSet, NEW q, NEW tc, NEW r, NEW l, NEW n, OneMore(q, tc, r, l, n),
         Ways(s, q), Holds(s, q, Callers(q)), FirstNamed(r, n), NEW t,
         Widened(s, q, tc, t, r, Owner(r, n))
  PROVE  Holds(t, q, Callers(r))
<1>1. /\ q \in Seq(Calls) /\ tc \in Calls /\ r \in Seq(Calls)
      /\ l \in Nat /\ n \in Nat /\ n = l + 1 /\ l = Len(q) /\ n = Len(r)
      /\ \A m \in 1 .. l : Owner(r, m) = Owner(q, m)
      /\ tc.id \in Nat
  BY OneMoreParts
<1>2. PICK w \in Callee : w = Owner(r, n)
  <2>1. n \in 1 .. Len(r)
    BY <1>1
  <2> QED
    BY <1>1, <2>1, OwnerType
<1>3. PICK ws \in Seq(Callee) : ws = Callers(q)
  BY <1>1, CallersAppend
<1>4. PICK o \in Seq(ItemSet) : o = s.out
  BY StateFields
<1>5. PICK a \in Nat : a = Len(o)
  OBVIOUS
<1>6. PICK item \in ItemSet : /\ item = Item("function_call", tc.id)
                              /\ item.type = "function_call" /\ item.text = <<>>
  BY <1>1, ItemType DEF Types
<1>7. PICK sp \in Seq(Nat) : sp = CallItems(o)
  BY <1>6, CallItemsAppend
<1>8. PICK p : p = t.out
  OBVIOUS
<1>9. p = Append(o, item)
  BY <1>4, <1>6, <1>8 DEF Widened
<1>10. p[a + 1] = item /\ \A k \in 1 .. a : p[k] = o[k]
  BY <1>5, <1>9, Appended
<1>11. PICK pos \in Nat : pos = a + 1
  OBVIOUS
<1>12. PICK up : up = CallItems(p)
  OBVIOUS
<1>13. up = Append(sp, pos)
  BY <1>4, <1>5, <1>7, <1>8, <1>11, <1>12 DEF Widened
<1>14. PICK vs : vs = Callers(r)
  OBVIOUS
<1>15. vs = Append(ws, w)
  BY <1>2, <1>3, <1>14 DEF Widened
<1>16. PICK b \in Nat : b = Len(sp) /\ b = Len(ws)
  BY <1>3, <1>4, <1>7 DEF Ways
<1>17. Len(up) = b + 1 /\ up[b + 1] = pos /\ \A k \in 1 .. b : up[k] = sp[k]
  <2>1. Len(up) = Len(sp) + 1 /\ up[Len(sp) + 1] = pos /\ \A k \in 1 .. Len(sp) : up[k] = sp[k]
    BY <1>13, Appended
  <2> QED
    BY <1>16, <2>1
<1>18. vs[b + 1] = w /\ \A k \in 1 .. b : vs[k] = ws[k]
  BY <1>15, <1>16, Appended
<1>19. \A k \in 1 .. b : sp[k] \in 1 .. a /\ o[sp[k]].text = ArgsOf(q, ws[k])
  BY <1>3, <1>4, <1>5, <1>7, <1>16 DEF Ways, Call, Holds
<1>20. ArgsOf(q, w) = <<>>
  <2>1. \A m \in 1 .. l : Owner(q, m) # w
    <3>1. 1 .. n - 1 = 1 .. l
      BY <1>1
    <3> QED
      BY <1>1, <1>2, <3>1 DEF FirstNamed
  <2> QED
    BY <1>1, <2>1, ArgsOfType
<1>21. ASSUME NEW k \in 1 .. b + 1 PROVE p[up[k]].text = ArgsOf(q, vs[k])
  <2>1. CASE k = b + 1
    BY <1>6, <1>10, <1>11, <1>17, <1>18, <1>20, <2>1
  <2>2. CASE k # b + 1
    <3>1. k \in 1 .. b
      BY <2>2
    <3> QED
      BY <1>10, <1>17, <1>18, <1>19, <3>1
  <2> QED
    BY <2>1, <2>2
<1> QED
  BY <1>8, <1>12, <1>14, <1>17, <1>21 DEF Holds

(* A delta under way: its call is open, its arguments are not yet there *)
Underway(h, s, q, r) == s \in Framing(h) /\ Ways(s, r) /\ Holds(s, q, Callers(r))

LEMMA OpenCallFits ==
  ASSUME NEW h, NEW s \in Framing(h), NEW q, NEW tc, NEW r, NEW l, NEW n,
         OneMore(q, tc, r, l, n), Ways(s, q), Holds(s, q, Callers(q)), SteadyIds(r), tc.name
  PROVE  Underway(h, open_call(s, tc), q, r)
<1>1. s \in StateSet /\ s \in Sound(h) /\ Pointed(s)
  BY FramingState
<1>2. tc \in Calls /\ l \in Nat /\ n \in Nat /\ n = l + 1 /\ r[n] = tc /\ tc.id \in Nat
  BY OneMoreParts
<1>3. Known(s, tc) = NoPos <=> New(r, l, n)
  BY <1>1, KnownIs
<1>4. open_call(s, tc) \in Framing(h)
  BY <1>2, OpenCallFraming
<1>5. CASE Known(s, tc) # NoPos
  <2>1. open_call(s, tc) = s
    BY <1>5, Zenon DEF open_call, Known
  <2>2. Ways(s, r) /\ Callers(r) = Callers(q)
    BY <1>3, <1>5, WaysStay
  <2> QED
    BY <2>1, <2>2 DEF Underway
<1>6. CASE Known(s, tc) = NoPos
  <2>1. PICK pos : pos = Len(s.out) + 1
    OBVIOUS
  <2>2. PICK ids : ids = IF tc.id # NoId THEN Insert(s.tool_ids, tc.id, pos) ELSE s.tool_ids
    OBVIOUS
  <2>3. PICK t : t = [s EXCEPT !.out = Append(s.out, Item("function_call", tc.id)),
                               !.tool_items = Insert(s.tool_items, tc.index, pos),
                               !.tool_ids = ids,
                               !.open_tools = Append(s.open_tools, pos)]
    OBVIOUS
  <2>4. CallOpened(s, tc, t, pos, ids)
    BY <2>1, <2>2, <2>3 DEF CallOpened
  <2>5. open_call(s, tc) = Push(close_current(t), Added(pos, Item("function_call", tc.id)))
    BY <1>6, <2>1, <2>2, <2>3, Zenon DEF open_call, Known
  <2>6. New(r, l, n)
    BY <1>3, <1>6
  <2>7. FirstNamed(r, n)
    BY <1>2, <2>6, FirstNaming
  <2>8. Widened(s, q, tc, t, r, Owner(r, n))
    BY <1>1, <2>4, <2>6, WaysWiden
  <2>9. Ways(t, r) /\ Holds(t, q, Callers(r))
    BY <1>1, <2>7, <2>8, OpenedHolds DEF Widened
  <2>10. t \in Sound(h) /\ t \in StateSet
    BY <1>1, <1>2, <2>4, CallOpenedSound, SoundState
  <2>11. PICK u : u = close_current(t)
    OBVIOUS
  <2>12. u \in Sound(h) /\ Settled(t, u)
    BY <2>10, <2>11, CloseCurrentSound
  <2>13. u \in StateSet /\ Undisturbed(t, u)
    BY <2>10, <2>12, SoundState, SettledUndisturbed
  <2>14. PICK item \in ItemSet : item = Item("function_call", tc.id)
    <3>1. "function_call" \in Types
      BY DEF Types
    <3> QED
      BY <1>2, <3>1, ItemType
  <2>15. PICK f \in FrameSet : f = Added(pos, item)
    <3>1. pos \in Nat
      BY <1>1, <2>1, StateFields
    <3> QED
      BY <3>1, AddedType
  <2>16. PICK v \in StateSet : v = Push(u, f) /\ Undisturbed(u, v)
    BY <2>13, PushParts, PushUndisturbed
  <2>17. Undisturbed(t, v)
    BY <2>10, <2>13, <2>16, UndisturbedOn
  <2>18. Ways(v, r) /\ Holds(v, q, Callers(r))
    BY <2>9, <2>10, <2>17, FitUndisturbed
  <2>19. open_call(s, tc) = v
    BY <2>5, <2>11, <2>14, <2>15, <2>16
  <2> QED
    BY <1>4, <2>18, <2>19 DEF Underway
<1> QED
  BY <1>5, <1>6

(* Where the arguments of a delta go *)
Leading(s, r, n, pos) ==
  /\ pos = NoPos => Owner(r, n) = Nobody
  /\ pos # NoPos => \E k \in 1 .. Len(CallItems(s.out)) :
       CallItems(s.out)[k] = pos /\ Callers(r)[k] = Owner(r, n)

LEMMA ResolvedIs ==
  ASSUME NEW s \in StateSet, Pointed(s), NEW q, NEW tc, NEW r, NEW l, NEW n,
         OneMore(q, tc, r, l, n), Ways(s, r), NEW pos, pos = resolved(s, tc)
  PROVE  Leading(s, r, n, pos)
<1>1. tc \in Calls /\ n = Len(r) /\ r[n] = tc /\ tc.id \in Nat /\ tc.index \in Nat
  BY OneMoreParts
<1>2. /\ DOMAIN s.tool_ids = Given(r, n)
      /\ \A i \in DOMAIN s.tool_ids : s.tool_ids[i] # NoPos
      /\ \A i \in DOMAIN s.tool_items : s.tool_items[i] # NoPos
  <2>1. \A i \in DOMAIN s.tool_ids : s.tool_ids[i] \in 1 .. Len(s.out)
    BY DEF Pointed, Call
  <2>2. \A i \in DOMAIN s.tool_items : s.tool_items[i] \in 1 .. Len(s.out)
    BY DEF Pointed, Call
  <2> QED
    BY <1>1, <2>1, <2>2 DEF Ways, NoPos
<1>3. NoId \notin Given(r, n)
  BY DEF Given
<1>4. CASE tc.id \in Given(r, n)
  <2>1. Owner(r, n) = <<"id", tc.id>>
    BY <1>1, <1>4 DEF Owner
  <2>2. pos = s.tool_ids[tc.id] /\ pos # NoPos
    BY <1>2, <1>3, <1>4 DEF resolved, Lookup
  <2>3. ById[tc.id] = <<"id", tc.id>>
    BY <1>1 DEF ById
  <2>4. Routes(s.tool_ids, ById, CallItems(s.out), Callers(r))
    BY DEF Ways
  <2> QED
    BY <1>2, <1>4, <2>1, <2>2, <2>3, <2>4 DEF Routes, Leading
<1>5. CASE tc.id \notin Given(r, n)
  <2>1. Owner(r, n) = AtIndex(r, n, tc.index)
    BY <1>1, <1>5 DEF Owner
  <2>2. pos = Lookup(s.tool_items, tc.index)
    BY <1>2, <1>5 DEF resolved, Lookup
  <2>3. ByIndex(r)[tc.index] = AtIndex(r, n, tc.index)
    BY <1>1 DEF ByIndex
  <2>4. /\ Routes(s.tool_items, ByIndex(r), CallItems(s.out), Callers(r))
        /\ tc.index \in DOMAIN s.tool_items <=> ByIndex(r)[tc.index] # Nobody
    BY <1>1 DEF Ways
  <2>5. CASE tc.index \in DOMAIN s.tool_items
    <3>1. pos = s.tool_items[tc.index] /\ pos # NoPos
      BY <1>2, <2>2, <2>5 DEF Lookup
    <3> QED
      BY <2>1, <2>3, <2>4, <2>5, <3>1 DEF Routes, Leading
  <2>6. CASE tc.index \notin DOMAIN s.tool_items
    <3>1. pos = NoPos
      BY <2>2, <2>6 DEF Lookup
    <3> QED
      BY <2>1, <2>3, <2>4, <2>6, <3>1 DEF Leading
  <2> QED
    BY <2>5, <2>6
<1> QED
  BY <1>4, <1>5

(* Arguments that go to no call, or none at all *)
LEMMA NothingHolds ==
  ASSUME NEW s \in StateSet, NEW q, NEW tc, NEW r, NEW l, NEW n, OneMore(q, tc, r, l, n),
         OwnersOf(r), Ways(s, r), Holds(s, q, Callers(r)), tc.args = <<>> \/ Owner(r, n) = Nobody
  PROVE  Holds(s, r, Callers(r))
<1>1. q \in Seq(Calls) /\ tc \in Calls
  BY OneMoreParts
<1>2. PICK sp : sp = CallItems(s.out)
  OBVIOUS
<1>3. PICK ws : ws = Callers(r)
  OBVIOUS
<1>4. PICK b : b = Len(sp) /\ b = Len(ws)
  BY <1>2, <1>3 DEF Ways
<1>5. ASSUME NEW k \in 1 .. b PROVE ArgsOf(r, ws[k]) = ArgsOf(q, ws[k])
  <2>1. PICK w : w = ws[k]
    OBVIOUS
  <2>2. w # Nobody
    BY <1>3, <1>4, <2>1 DEF OwnersOf
  <2>3. ArgsOf(r, w) = ArgsOf(q, w) \o (IF Owner(r, n) = w THEN tc.args ELSE <<>>)
    <3>1. r = Append(q, tc) /\ n = Len(q) + 1
      BY DEF OneMore
    <3>2. ArgsNext(q, tc, r, n, w)
      BY <1>1, <3>1, ArgsOfAppend
    <3> QED
      BY <3>2 DEF ArgsNext
  <2>4. (IF Owner(r, n) = w THEN tc.args ELSE <<>>) = <<>>
    BY <2>2
  <2>5. ArgsOf(q, w) \in Seq(Char)
    BY <1>1, ArgsOfType DEF Texts
  <2>6. ArgsOf(q, w) \o <<>> = ArgsOf(q, w)
    BY <2>5, ConcatEmptySeq
  <2> QED
    BY <2>1, <2>3, <2>4, <2>6
<1> QED
  BY <1>2, <1>3, <1>4, <1>5 DEF Holds

(* Arguments that go to a call *)
LEMMA SomethingHolds ==
  ASSUME NEW s \in StateSet, NEW q, NEW tc, NEW r, NEW l, NEW n, OneMore(q, tc, r, l, n),
         OwnersOf(r), Ways(s, r), Holds(s, q, Callers(r)),
         NEW j \in 1 .. Len(CallItems(s.out)), Callers(r)[j] = Owner(r, n),
         NEW pos, pos = CallItems(s.out)[j],
         NEW t, t = append_text(s, pos, "function_call_arguments.delta", tc.args)
  PROVE  Ways(t, r) /\ Holds(t, r, Callers(r))
<1>1. q \in Seq(Calls) /\ tc \in Calls /\ tc.args \in Texts
  BY OneMoreParts
<1>2. PICK o \in Seq(ItemSet) : o = s.out
  BY StateFields
<1>3. PICK a \in Nat : a = Len(o)
  OBVIOUS
<1>4. PICK sp : sp = CallItems(o)
  OBVIOUS
<1>5. PICK ws : ws = Callers(r)
  OBVIOUS
<1>6. PICK b : b = Len(sp) /\ b = Len(ws)
  BY <1>2, <1>4, <1>5 DEF Ways
<1>7. /\ \A k \in 1 .. b : sp[k] \in 1 .. a /\ o[sp[k]].type = "function_call"
      /\ \A k, m \in 1 .. b : sp[k] = sp[m] => k = m
      /\ \A k, m \in 1 .. b : ws[k] = ws[m] => k = m
      /\ \A k \in 1 .. b : o[sp[k]].text = ArgsOf(q, ws[k])
  BY <1>2, <1>3, <1>4, <1>5, <1>6 DEF Ways, OwnersOf, Once, Call, Holds
<1>8. j \in 1 .. b /\ pos = sp[j] /\ pos \in 1 .. a /\ ws[j] = Owner(r, n)
  BY <1>2, <1>4, <1>5, <1>6, <1>7
<1>9. "function_call_arguments.delta" \in DeltaEvents
  BY DEF DeltaEvents
<1>10. SentAndKept(s, t, pos, "function_call_arguments.delta", tc.args)
  <2>1. pos \in 1 .. Len(s.out)
    BY <1>2, <1>3, <1>8
  <2> QED
    BY <1>1, <1>9, <2>1, AppendParts
<1>11. PICK item \in ItemSet : item = o[pos]
  BY <1>3, <1>8
<1>12. PICK y \in Texts : y = item.text \o tc.args
  BY <1>1, ItemParts, ConcatText
<1>13. PICK z : z = [item EXCEPT !.text = y]
  OBVIOUS
<1>14. z.type = item.type /\ z.text = y
  BY <1>13, ItemText
<1>15. PICK p : p = t.out
  OBVIOUS
<1>16. Replaced(o, p, pos, z)
  BY <1>2, <1>10, <1>11, <1>12, <1>13, <1>15 DEF SentAndKept
<1>17. p \in Seq(ItemSet) /\ Len(p) = a /\ p[pos] = z /\ \A k \in 1 .. a : k # pos => p[k] = o[k]
  BY <1>3, <1>16 DEF Replaced
<1>18. \A k \in 1 .. a : p[k].type = o[k].type
  BY <1>11, <1>14, <1>17
<1>19. CallItems(p) = sp
  <2>1. SameMarks(o, p)
    <3>1. a <= a /\ a + 1 .. a = {}
      OBVIOUS
    <3> QED
      BY <1>3, <1>17, <1>18, <3>1 DEF SameMarks
  <2> QED
    BY <1>4, <1>17, <2>1, CallItemsSame
<1>20. t.tool_items = s.tool_items /\ t.tool_ids = s.tool_ids
  BY <1>10 DEF SentAndKept
<1>21. Ways(t, r)
  <2>1. \A k \in 1 .. b : Call(p, sp[k])
    BY <1>7, <1>17, <1>18 DEF Call
  <2> QED
    BY <1>2, <1>4, <1>6, <1>15, <1>19, <1>20, <2>1 DEF Ways
<1>22. ASSUME NEW k \in 1 .. b PROVE p[sp[k]].text = ArgsOf(r, ws[k])
  <2>1. PICK w : w = ws[k]
    OBVIOUS
  <2>2. ArgsOf(r, w) = ArgsOf(q, w) \o (IF Owner(r, n) = w THEN tc.args ELSE <<>>)
    <3>1. r = Append(q, tc) /\ n = Len(q) + 1
      BY DEF OneMore
    <3>2. ArgsNext(q, tc, r, n, w)
      BY <1>1, <3>1, ArgsOfAppend
    <3> QED
      BY <3>2 DEF ArgsNext
  <2>3. o[sp[k]].text = ArgsOf(q, w)
    BY <1>7, <2>1
  <2>4. CASE k = j
    BY <1>8, <1>11, <1>12, <1>14, <1>17, <2>1, <2>2, <2>3, <2>4
  <2>5. CASE k # j
    <3>1. sp[k] # pos /\ w # Owner(r, n) /\ sp[k] \in 1 .. a
      BY <1>7, <1>8, <2>1, <2>5
    <3>2. p[sp[k]] = o[sp[k]]
      BY <1>17, <3>1
    <3>3. ArgsOf(q, w) \in Seq(Char)
      BY <1>1, ArgsOfType DEF Texts
    <3>4. ArgsOf(r, w) = ArgsOf(q, w) \o <<>>
      BY <2>2, <3>1
    <3>5. ArgsOf(r, w) = ArgsOf(q, w)
      BY <3>3, <3>4, ConcatEmptySeq
    <3> QED
      BY <2>1, <2>3, <3>2, <3>5
  <2> QED
    BY <2>4, <2>5
<1>23. Holds(t, r, ws)
  BY <1>6, <1>15, <1>19, <1>22 DEF Holds
<1> QED
  BY <1>5, <1>21, <1>23

(* The states of a turn under way whose calls are those of q *)
Fitting(h, q) == {s \in Framing(h) : Fit(s, q)}

LEMMA DeltaFits ==
  ASSUME NEW h, NEW q \in Seq(Calls), NEW s \in Fitting(h, q), NEW tc \in Calls,
         NEW r, r = Append(q, tc), SteadyIds(r)
  PROVE  tool_delta(s, tc) \in Fitting(h, r)
<1>1. s \in Framing(h) /\ OwnersOf(q) /\ Ways(s, q) /\ Holds(s, q, Callers(q))
  BY DEF Fitting, Fit
<1>2. PICK l : l = Len(q)
  OBVIOUS
<1>3. PICK n : n = l + 1
  OBVIOUS
<1>4. OneMore(q, tc, r, l, n)
  BY <1>2, <1>3 DEF OneMore
<1>5. OwnersOf(r)
  BY <1>1, <1>4, OwnersMore
<1>6. PICK t : t = IF tc.name THEN open_call(s, tc) ELSE s
  OBVIOUS
<1>7. Underway(h, t, q, r)
  <2>1. CASE tc.name
    <3>1. Underway(h, open_call(s, tc), q, r)
      BY <1>1, <1>4, <2>1, OpenCallFits
    <3> QED
      BY <1>6, <2>1, <3>1
  <2>2. CASE ~tc.name
    <3>1. Ways(s, r) /\ Callers(r) = Callers(q)
      BY <1>1, <1>4, <2>2, WaysStay
    <3> QED
      BY <1>1, <1>6, <2>2, <3>1 DEF Underway
  <2> QED
    BY <2>1, <2>2
<1>8. t \in Framing(h) /\ Ways(t, r) /\ Holds(t, q, Callers(r))
  BY <1>7 DEF Underway
<1>9. t \in StateSet /\ Pointed(t)
  BY <1>8, FramingState
<1>10. PICK pos : pos = resolved(t, tc)
  OBVIOUS
<1>11. PICK x : x = tool_delta(s, tc)
  OBVIOUS
<1>12. x = IF tc.args = <<>> \/ pos = NoPos THEN t
           ELSE append_text(t, pos, "function_call_arguments.delta", tc.args)
  BY <1>6, <1>10, <1>11, Zenon DEF tool_delta
<1>13. x \in Framing(h)
  BY <1>1, <1>11, ToolDelta
<1>14. Leading(t, r, n, pos)
  BY <1>4, <1>8, <1>9, <1>10, ResolvedIs
<1>15. CASE tc.args = <<>> \/ pos = NoPos
  <2>0. tc.args = <<>> \/ Owner(r, n) = Nobody
    BY <1>14, <1>15 DEF Leading
  <2>1. Holds(t, r, Callers(r))
    BY <1>4, <1>5, <1>8, <1>9, <2>0, NothingHolds
  <2> QED
    BY <1>5, <1>8, <1>11, <1>12, <1>13, <1>15, <2>1 DEF Fitting, Fit
<1>16. CASE ~(tc.args = <<>> \/ pos = NoPos)
  <2>1. PICK j \in 1 .. Len(CallItems(t.out)) : CallItems(t.out)[j] = pos /\ Callers(r)[j] = Owner(r, n)
    BY <1>14, <1>16 DEF Leading
  <2>2. x = append_text(t, pos, "function_call_arguments.delta", tc.args)
    BY <1>12, <1>16
  <2>3. Ways(x, r) /\ Holds(x, r, Callers(r))
    BY <1>4, <1>5, <1>8, <1>9, <2>1, <2>2, SomethingHolds
  <2> QED
    BY <1>5, <1>11, <1>13, <2>3 DEF Fitting, Fit
<1> QED
  BY <1>15, <1>16

LEMMA FittingUndisturbed ==
  ASSUME NEW h, NEW q, NEW s \in Fitting(h, q), NEW i, NEW t \in Framing(i), Undisturbed(s, t)
  PROVE  t \in Fitting(i, q)
<1>1. s \in StateSet /\ t \in StateSet
  BY FramingState DEF Fitting
<1>2. OwnersOf(q) /\ Ways(s, q) /\ Holds(s, q, Callers(q))
  BY DEF Fitting, Fit
<1>3. Ways(t, q) /\ Holds(t, q, Callers(q))
  BY <1>1, <1>2, FitUndisturbed
<1> QED
  BY <1>2, <1>3 DEF Fitting, Fit

(* The calls of a chunk, one by one *)
Fed(s, calls, L, t, f) ==
  /\ t = f[L]
  /\ f[0] = s
  /\ \A n \in 1 .. L : f[n] = tool_delta(f[n - 1], calls[n])

LEMMA SectionFed ==
  ASSUME NEW s, NEW c \in CanonChunk, NEW calls, calls = c.calls, NEW L, L = Len(calls)
  PROVE  \E f : Fed(s, calls, L, tool_section(s, c), f)
<1>1. c.calls \in Seq(Calls)
  BY ChunkFields
<1>2. PICK f : /\ tool_section(s, c) = f[L]
               /\ f[0] = s
               /\ \A n \in 1 .. L : f[n] = tool_delta(f[n - 1], calls[n])
  BY <1>1, ToolSectionIs
<1> QED
  BY <1>2 DEF Fed

LEMMA SectionFits ==
  ASSUME NEW h, NEW q \in Seq(Calls), NEW s \in Fitting(h, q), NEW c \in CanonChunk,
         NEW r, r = q \o c.calls, SteadyIds(r)
  PROVE  tool_section(s, c) \in Fitting(h, r)
<1>1. PICK calls \in Seq(Calls) : calls = c.calls
  BY ChunkFields
<1>2. PICK L \in Nat : L = Len(calls)
  OBVIOUS
<1>3. PICK f : /\ tool_section(s, c) = f[L]
               /\ f[0] = s
               /\ \A n \in 1 .. L : f[n] = tool_delta(f[n - 1], calls[n])
  <2>1. \E g : Fed(s, calls, L, tool_section(s, c), g)
    BY <1>1, <1>2, SectionFed
  <2> QED
    BY <2>1 DEF Fed
<1>4. PICK D : D = [n \in 0 .. L |-> Fitting(h, Beginning(q, calls, n))]
  OBVIOUS
<1>5. f[0] \in D[0]
  <2>1. D[0] = Fitting(h, Beginning(q, calls, 0))
    BY <1>4
  <2> QED
    BY <1>3, <2>1, FirstOfEnds
<1>6. r \in Seq(Calls) /\ r = Beginning(q, calls, L)
  <2>1. r = Beginning(q, calls, Len(calls))
    BY <1>1, FirstOfEnds
  <2>2. r \in Seq(Calls)
    BY <1>1, ConcatProperties
  <2> QED
    BY <1>2, <2>1, <2>2
<1>7. ASSUME NEW n \in 0 .. L PROVE SteadyIds(Beginning(q, calls, n))
  <2>1. PICK p \in Seq(Calls) : p = Beginning(q, calls, n) /\ Len(p) = Len(q) + n
    BY <1>2, FirstOfType
  <2>2. PICK l \in Nat : l = Len(q)
    OBVIOUS
  <2>3. Len(r) = l + L
    BY <1>1, <1>2, <2>2, ConcatProperties
  <2>4. Len(p) <= Len(r)
    BY <2>1, <2>2, <2>3
  <2>5. SameStart(p, r, Len(p))
    <3> SUFFICES ASSUME NEW m \in 1 .. l + n PROVE r[m] = p[m]
      BY <2>1, <2>2 DEF SameStart
    <3>1. m \in 1 .. l + L
      OBVIOUS
    <3>2. r[m] = IF m <= l THEN q[m] ELSE calls[m - l]
      BY <1>6, <2>2, <3>1 DEF Beginning
    <3>3. p[m] = IF m <= l THEN q[m] ELSE calls[m - l]
      BY <2>1, <2>2 DEF Beginning
    <3> QED
      BY <3>2, <3>3
  <2>6. SteadyIds(p)
    BY <1>6, <2>4, <2>5, SteadyStart
  <2> QED
    BY <2>1, <2>6
<1>8. ASSUME NEW n \in 1 .. L, f[n - 1] \in D[n - 1] PROVE f[n] \in D[n]
  <2>1. PICK p \in Nat : p = n - 1 /\ p \in 0 .. L /\ n = p + 1 /\ n \in 0 .. L
    OBVIOUS
  <2>2. PICK x \in Seq(Calls) : x = Beginning(q, calls, p)
    BY <1>2, <2>1, FirstOfType
  <2>3. PICK t \in Fitting(h, x) : t = f[n - 1]
    BY <1>4, <1>8, <2>1, <2>2
  <2>4. PICK tc \in Calls : tc = calls[n]
    BY <1>2
  <2>5. PICK y : y = Append(x, tc)
    OBVIOUS
  <2>6. y = Beginning(q, calls, n)
    <3>1. p \in 0 .. Len(calls) - 1
      BY <1>2, <2>1
    <3>2. Beginning(q, calls, p + 1) = Append(Beginning(q, calls, p), calls[p + 1])
      BY <3>1, FirstOfNext
    <3> QED
      BY <2>1, <2>2, <2>4, <2>5, <3>2
  <2>7. SteadyIds(y)
    BY <1>7, <2>1, <2>6
  <2>8. tool_delta(t, tc) \in Fitting(h, y)
    BY <2>5, <2>7, DeltaFits
  <2> QED
    BY <1>3, <1>4, <2>1, <2>3, <2>4, <2>6, <2>8
<1> DEFINE Bad == {n \in 0 .. L : f[n] \notin D[n]}
<1>9. Bad = {}
  <2>1. SUFFICES ASSUME Bad # {} PROVE FALSE
    OBVIOUS
  <2>2. PICK m \in Bad : \A k \in Bad : m <= k
    <3>1. Bad \subseteq Nat
      OBVIOUS
    <3> HIDE DEF Bad
    <3> QED
      BY <2>1, <3>1, LeastNat
  <2>3. m \in 0 .. L /\ f[m] \notin D[m]
    BY <2>2
  <2>4. m # 0
    BY <1>5, <2>3
  <2>5. PICK p \in Nat : p = m - 1 /\ p \in 0 .. L /\ m \in 1 .. L /\ ~(m <= p)
    BY <2>3, <2>4
  <2>6. f[p] \in D[p]
    <3>1. p \notin Bad
      <4> HIDE DEF Bad
      <4> QED
        BY <2>2, <2>5
    <3> QED
      BY <2>5, <3>1
  <2> QED
    BY <1>8, <2>3, <2>5, <2>6
<1>10. L \in 0 .. L
  OBVIOUS
<1>11. f[L] \in D[L]
  BY <1>9, <1>10
<1> QED
  BY <1>3, <1>4, <1>6, <1>10, <1>11

-----------------------------------------------------------------------------
(* The calls of a turn *)
CallsFrom == [c \in CanonChunk |-> c.calls]
AllCalls(q) == Along(CallsFrom, q)

LEMMA CallsFromType == CallsFrom \in [CanonChunk -> Seq(Calls)]
<1>1. \A c \in CanonChunk : c.calls \in Seq(Calls)
  BY ChunkFields
<1> QED
  BY <1>1 DEF CallsFrom

LEMMA AllCallsType ==
  ASSUME NEW q \in Seq(CanonChunk)
  PROVE  AllCalls(q) \in Seq(Calls)
<1>1. ASSUME NEW G \in [CanonChunk -> Seq(Calls)] PROVE Along(G, q) \in Seq(Calls)
  BY AlongType, SMTT(60)
<1> QED
  BY <1>1, CallsFromType DEF AllCalls

LEMMA MoreCalls ==
  ASSUME NEW q \in Seq(CanonChunk), NEW c \in CanonChunk
  PROVE  AllCalls(Append(q, c)) = AllCalls(q) \o c.calls
<1>1. ASSUME NEW G \in [CanonChunk -> Seq(Calls)]
      PROVE  Along(G, Append(q, c)) = Along(G, q) \o G[c]
  BY AlongAppend, SMTT(60)
<1>2. CallsFrom[c] = c.calls
  BY DEF CallsFrom
<1>3. Along(CallsFrom, Append(q, c)) = Along(CallsFrom, q) \o CallsFrom[c]
  BY <1>1, CallsFromType
<1> QED
  BY <1>2, <1>3, ZenonT(60) DEF AllCalls

LEMMA HeardCallsAre ==
  ASSUME heard \in Seq(CanonChunk)
  PROVE  HeardCalls = AllCalls(heard)
<1>1. \A k \in DOMAIN heard : heard[k] \in CanonChunk
  OBVIOUS
<1>2. [k \in DOMAIN heard |-> heard[k].calls] = Each(CallsFrom, heard)
  BY <1>1 DEF Each, CallsFrom
<1> QED
  BY <1>2, Zenon DEF HeardCalls, AllCalls, Along

(* Before the first chunk there is nothing to fit *)
LEMMA NothingJoined ==
  ASSUME NEW f, DOMAIN f = {}, f = [n \in DOMAIN f |-> f[n]]
  PROVE  FlattenSeq(f) = <<>>
<1>1. PICK m \in Nat : m = 0
  OBVIOUS
<1>2. f \in [1 .. m -> Seq({})] /\ \A k \in 1 .. m : f[k] = <<>>
  BY <1>1
<1> QED
  BY <1>1, <1>2, JoinEmpty

LEMMA NewStateFits == Fit(NewState, <<>>)
<1>1. PICK e : e = <<>> /\ Len(e) = 0 /\ DOMAIN e = {}
  OBVIOUS
<1>2. Callers(e) = <<>>
  <2>1. PICK f : f = [n \in DOMAIN e |->
                       IF e[n].name /\ \A m \in 1 .. n - 1 : Owner(e, m) # Owner(e, n)
                       THEN <<Owner(e, n)>> ELSE <<>>]
    OBVIOUS
  <2>2. DOMAIN f = {} /\ f = [n \in DOMAIN f |-> f[n]]
    BY <1>1, <2>1
  <2>3. FlattenSeq(f) = <<>>
    BY <2>2, NothingJoined
  <2> QED
    BY <2>1, <2>3 DEF Callers
<1>3. PICK o : o = NewState.out /\ o = <<>> /\ DOMAIN o = {}
  BY NewStateType
<1>4. CallItems(o) = <<>>
  <2>1. PICK f : f = [pos \in DOMAIN o |->
                       IF o[pos].type = "function_call" THEN <<pos>> ELSE <<>>]
    OBVIOUS
  <2>2. DOMAIN f = {} /\ f = [n \in DOMAIN f |-> f[n]]
    BY <1>3, <2>1
  <2>3. FlattenSeq(f) = <<>>
    BY <2>2, NothingJoined
  <2> QED
    BY <2>1, <2>3 DEF CallItems
<1>5. DOMAIN NewState.tool_ids = {} /\ DOMAIN NewState.tool_items = {}
  BY DEF NewState
<1>6. \A i : NamedAt(e, 0, i) = {} /\ MarkedAt(e, 0, i) = {}
  BY DEF NamedAt, MarkedAt, NamedBy
<1>7. \A i : AtIndex(e, 0, i) = Nobody
  BY <1>6 DEF AtIndex
<1>8. Given(e, 0) = {}
  BY DEF Given, NamedBy
<1>9. \A i \in Nat : ByIndex(e)[i] = Nobody
  BY <1>1, <1>7 DEF ByIndex
<1>10. Len(Callers(e)) = 0 /\ Len(CallItems(NewState.out)) = 0
  BY <1>2, <1>3, <1>4
<1>11. OwnersOf(e)
  BY <1>10 DEF OwnersOf, Once
<1>12. Ways(NewState, e)
  BY <1>1, <1>5, <1>8, <1>9, <1>10 DEF Ways, Once, Routes
<1>13. Holds(NewState, e, Callers(e))
  BY <1>10 DEF Holds
<1> QED
  BY <1>1, <1>11, <1>12, <1>13 DEF Fit

-----------------------------------------------------------------------------
(* What each action leaves of the fit *)
LEMMA FitOn ==
  ASSUME NEW s \in StateSet, NEW t \in StateSet, Undisturbed(s, t), NEW q, Fit(s, q)
  PROVE  Fit(t, q)
<1>1. OwnersOf(q) /\ Ways(s, q) /\ Holds(s, q, Callers(q))
  BY DEF Fit
<1>2. Ways(t, q) /\ Holds(t, q, Callers(q))
  BY <1>1, FitUndisturbed
<1> QED
  BY <1>1, <1>2 DEF Fit

LEMMA ChunkFits ==
  ASSUME NEW h, NEW s, Under(h, s), NEW c \in CanonChunk, NEW q \in Seq(Calls), Fit(s, q),
         NEW r, r = q \o c.calls, SteadyIds(r)
  PROVE  Fit(frame_item(s, c), r)
<1>1. PICK t1 \in Framing(h) : t1 = created(s)
  BY CreatedUnder
<1>2. s \in StateSet /\ t1 \in StateSet
  BY UnderState, FramingState
<1>3. Undisturbed(s, t1)
  BY <1>1, <1>2, CreatedUndisturbed
<1>4. t1 \in Fitting(h, q)
  BY <1>2, <1>3, FitOn DEF Fitting
<1>5. PICK i : i = Credit(h, "output_text.delta", Saying(c))
  OBVIOUS
<1>6. PICK t2 \in Framing(i) : t2 = text_section(t1, c)
  BY <1>5, TextSection
<1>7. t2 \in Fitting(i, q)
  <2>1. Undisturbed(t1, t2)
    BY <1>6, TextSectionUndisturbed
  <2> QED
    BY <1>4, <2>1, FittingUndisturbed
<1>8. PICK j : j = Credit(i, "reasoning_summary_text.delta", Musing(c))
  OBVIOUS
<1>9. PICK t3 \in Framing(j) : t3 = thinking_section(t2, c)
  BY <1>8, ThinkingSection
<1>10. t3 \in Fitting(j, q)
  <2>1. Undisturbed(t2, t3)
    BY <1>9, ThinkingSectionUndisturbed
  <2> QED
    BY <1>7, <2>1, FittingUndisturbed
<1>11. PICK t4 \in Fitting(j, r) : t4 = tool_section(t3, c)
  BY <1>10, SectionFits
<1>12. t4 \in Framing(j) /\ t4 \in StateSet /\ Fit(t4, r)
  BY FramingState DEF Fitting
<1>13. PICK t : t = frame_item(s, c)
  OBVIOUS
<1>14. t = ending_section(t4, c)
  BY <1>1, <1>6, <1>9, <1>11, <1>13, Zenon DEF frame_item
<1>15. Undisturbed(t4, t)
  BY <1>12, <1>14, EndingUndisturbed
<1>16. t \in StateSet
  <2>1. Under(AfterChunk(h, c), t)
    BY <1>13, ChunkUnder
  <2> QED
    BY <2>1, UnderState
<1> QED
  BY <1>12, <1>13, <1>15, <1>16, FitOn

LEMMA FailFits ==
  ASSUME NEW h, NEW s, Under(h, s), NEW q, Fit(s, q)
  PROVE  Fit(frame_error(s), q)
<1>1. PICK t : t = frame_error(s)
  OBVIOUS
<1>2. s \in StateSet /\ t \in StateSet
  <2>1. Under(AsSent(h), t)
    BY <1>1, FailUnder
  <2> QED
    BY <2>1, UnderState
<1>3. Undisturbed(s, t)
  BY <1>1, ErrorUndisturbed
<1> QED
  BY <1>1, <1>2, <1>3, FitOn

LEMMA EndFits ==
  ASSUME NEW h, NEW s, Under(h, s), NEW q, Fit(s, q)
  PROVE  Fit(finish(s), q)
<1>1. PICK t : t = finish(s)
  OBVIOUS
<1>2. s \in StateSet /\ t \in StateSet
  <2>1. Under(AfterEnd(h, s), t)
    BY <1>1, EndUnder
  <2> QED
    BY <2>1, UnderState
<1>3. Undisturbed(s, t)
  BY <1>1, FinishUndisturbed
<1> QED
  BY <1>1, <1>2, <1>3, FitOn

(* Turns in which an id stays the newest under its index for as long as it *)
(* is named again                                                          *)
SteadyTurns == \A q \in Seq(Chunks) : Turn(q) => SteadyIds(AllCalls(q))

(* What was sent is sound, and its calls are those of the turn *)
CInv ==
  /\ heard \in Seq(Chunks)
  /\ \E h : Under(h, st)
  /\ Fit(st, AllCalls(heard))

LEMMA CInvInit == Init => CInv
<1> SUFFICES ASSUME Init PROVE CInv
  OBVIOUS
<1>1. st = NewState /\ heard = <<>>
  BY DEF Init
<1>2. Under(Zero, st)
  BY <1>1 DEF Under
<1>3. AllCalls(heard) = <<>>
  BY <1>1, EmptyAlong DEF AllCalls
<1>4. heard \in Seq(Chunks)
  BY <1>1, EmptySeq
<1> QED
  BY <1>1, <1>2, <1>3, <1>4, NewStateFits DEF CInv

LEMMA CInvNext == SteadyTurns /\ CInv /\ [Next]_vars => CInv'
<1> SUFFICES ASSUME SteadyTurns, CInv, [Next]_vars PROVE CInv'
  OBVIOUS
<1>1. heard \in Seq(Chunks) /\ heard \in Seq(CanonChunk) /\ Fit(st, AllCalls(heard))
  BY ChunksAssumption DEF CInv
<1>2. PICK h : Under(h, st)
  BY DEF CInv
<1>3. ASSUME NEW c \in Chunks, Chunk(c) PROVE CInv'
  <2>1. st' = frame_item(st, c) /\ heard' = Append(heard, c) /\ c \in CanonChunk
        /\ Turn(heard')
    BY <1>3, ChunksAssumption DEF Chunk
  <2>2. heard' \in Seq(Chunks)
    BY <1>1, <2>1, AppendProperties
  <2>3. PICK q \in Seq(Calls) : q = AllCalls(heard)
    BY <1>1, AllCallsType
  <2>4. PICK r : r = AllCalls(heard')
    OBVIOUS
  <2>5. r = q \o c.calls
    BY <1>1, <2>1, <2>3, <2>4, MoreCalls
  <2>6. SteadyIds(r)
    BY <2>1, <2>2, <2>4 DEF SteadyTurns
  <2>7. PICK s : s = st /\ Under(h, s) /\ Fit(s, q)
    BY <1>1, <1>2, <2>3
  <2>8. Fit(frame_item(s, c), r)
    BY <2>1, <2>5, <2>6, <2>7, ChunkFits
  <2>9. Under(AfterChunk(h, c), frame_item(s, c))
    BY <2>1, <2>7, ChunkUnder
  <2> QED
    BY <2>1, <2>2, <2>4, <2>7, <2>8, <2>9 DEF CInv
<1>4. ASSUME NEW i, Under(i, st'), heard' = heard, Fit(st', AllCalls(heard)) PROVE CInv'
  BY <1>1, <1>4 DEF CInv
<1>5. PICK q : q = AllCalls(heard)
  OBVIOUS
<1>6. CASE Fail
  <2>1. st' = frame_error(st) /\ heard' = heard
    BY <1>6 DEF Fail
  <2>2. Under(AsSent(h), st')
    BY <1>2, <2>1, FailUnder
  <2>3. Fit(st', q)
    BY <1>1, <1>2, <1>5, <2>1, FailFits
  <2> QED
    BY <1>4, <1>5, <2>1, <2>2, <2>3
<1>7. CASE End
  <2>1. st' = finish(st) /\ heard' = heard
    BY <1>7 DEF End
  <2>2. Under(AfterEnd(h, st), st')
    BY <1>2, <2>1, EndUnder
  <2>3. Fit(st', q)
    BY <1>1, <1>2, <1>5, <2>1, EndFits
  <2> QED
    BY <1>4, <1>5, <2>1, <2>2, <2>3
<1>8. CASE UNCHANGED vars
  <2>1. st' = st /\ heard' = heard
    BY <1>8 DEF vars
  <2> QED
    BY <1>1, <1>2, <1>4, <2>1
<1> QED
  BY <1>3, <1>6, <1>7, <1>8 DEF Next

(* The items of the calls, the two maps that lead to them and the          *)
(* arguments they hold are, at every moment, what the history of the turn  *)
(* says: one item for each call named, each id and index leading to its    *)
(* own (open_call, resolved, tool_items, tool_ids).                        *)
THEOREM RoutingInvariance == SteadyTurns => (Spec => []CInv)
<1>1. Init => CInv
  BY CInvInit
<1>2. SteadyTurns /\ CInv /\ [Next]_vars => CInv'
  BY CInvNext
<1> SUFFICES ASSUME SteadyTurns PROVE Spec => []CInv
  OBVIOUS
<1>3. CInv /\ [Next]_vars => CInv'
  BY <1>2
<1> QED
  BY <1>1, <1>3, PTL DEF Spec

LEMMA CallersAre ==
  ASSUME NEW q \in Seq(Calls)
  PROVE  Callers(q) \in Seq(Callee)
<1>1. [index |-> 0, id |-> 0, name |-> FALSE, args |-> <<>>] \in Calls
  BY EmptyText DEF Calls
<1> QED
  BY <1>1, CallersAppend

LEMMA Reaching == CInv => ArgsReachTheirCall
<1> SUFFICES ASSUME CInv PROVE ArgsReachTheirCall
  OBVIOUS
<1>1. heard \in Seq(CanonChunk)
  BY ChunksAssumption DEF CInv
<1>2. PICK q : q = HeardCalls
  OBVIOUS
<1>3. Fit(st, q)
  BY <1>1, <1>2, HeardCallsAre DEF CInv
<1>4. PICK ws : ws = Callers(q)
  OBVIOUS
<1>5. PICK sp : sp = CallItems(st.out)
  OBVIOUS
<1>6. Len(sp) = Len(ws) /\ \A k \in 1 .. Len(sp) : st.out[sp[k]].text = ArgsOf(q, ws[k])
  BY <1>3, <1>4, <1>5 DEF Fit, Ways, Holds
<1>7. DOMAIN ws = 1 .. Len(ws)
  <2>1. q \in Seq(Calls)
    BY <1>1, <1>2, HeardCallsAre, AllCallsType
  <2>2. ws \in Seq(Callee)
    BY <1>4, <2>1, CallersAre
  <2> QED
    BY <2>2
<1> QED
  BY <1>2, <1>4, <1>5, <1>6, <1>7 DEF ArgsReachTheirCall

(* Each call the upstream names is one item, which holds all the arguments *)
(* sent for it and no others, however parallel calls interleave and        *)
(* indices repeat, for every turn in which an id that is named again is    *)
(* the newest under its index (open_call, resolved).                       *)
THEOREM ArgsAlwaysReach == SteadyTurns => (Spec => []ArgsReachTheirCall)
<1> SUFFICES ASSUME SteadyTurns PROVE Spec => []ArgsReachTheirCall
  OBVIOUS
<1>1. Spec => []CInv
  BY RoutingInvariance
<1>2. CInv => ArgsReachTheirCall
  BY Reaching
<1> QED
  BY <1>1, <1>2, PTL
=============================================================================
