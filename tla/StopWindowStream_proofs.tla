----------------------- MODULE StopWindowStream_proofs -----------------------
(***************************************************************************)
(* What the stop window guarantees on every stream, for every alphabet,    *)
(* every list of stop sequences and every bound.                           *)
(***************************************************************************)
EXTENDS StopWindowStream, StopWindowLemmas

LEMMA PrefixOfConcat ==
  ASSUME NEW x \in Texts, NEW y \in Texts
  PROVE  IsPrefix(x, x \o y)
<1>1. PICK c : c = x \o y
  OBVIOUS
<1>2. /\ c \in Texts /\ Len(c) = Len(x) + Len(y) /\ Len(x) \in Nat /\ Len(y) \in Nat
      /\ \A i \in 1 .. Len(x) : c[i] = x[i]
  BY <1>1, ConcatText, TextLen
<1>3. Len(x) <= Len(c)
  BY <1>2
<1>4. PICK u : u = SubSeq(c, 1, Len(x))
  OBVIOUS
<1>5. u \in Texts /\ Len(u) = Len(x) /\ \A i \in 1 .. Len(x) : u[i] = c[i]
  <2>1. 1 \in 1 .. Len(c) + 1 /\ Len(x) \in 0 .. Len(c)
    BY <1>2
  <2> QED
    BY <1>2, <1>4, <2>1, PartOfText
<1>6. u = x
  BY <1>2, <1>5, SeqEqual DEF Texts
<1>7. SubSeq(x, 1, Len(x)) = x
  BY SubSeqFull DEF Texts
<1> QED
  BY <1>1, <1>3, <1>4, <1>6, <1>7 DEF IsPrefix

LEMMA PrefixIsBeginning ==
  ASSUME NEW x \in Texts, NEW y \in Texts, IsPrefix(x, y)
  PROVE  \E z \in Texts : y = x \o z
<1>1. Len(x) \in Nat /\ Len(y) \in Nat /\ Len(x) <= Len(y)
      /\ SubSeq(x, 1, Len(x)) = SubSeq(y, 1, Len(x))
  BY TextLen DEF IsPrefix
<1>2. SubSeq(x, 1, Len(x)) = x
  BY SubSeqFull DEF Texts
<1>3. PICK n \in 0 .. Len(y) : n = Len(x)
  BY <1>1
<1>4. n + 1 \in 1 .. Len(y) + 1 /\ Len(y) \in 0 .. Len(y)
  BY <1>1, <1>3
<1>5. PICK z \in Texts : z = SubSeq(y, n + 1, Len(y))
  BY <1>4, PartOfText
<1>6. SubSeq(y, 1, n) \o SubSeq(y, n + 1, Len(y)) = y
  BY Halves
<1> QED
  BY <1>1, <1>2, <1>3, <1>5, <1>6

LEMMA Empty ==
  /\ <<>> \in Texts
  /\ Len(<<>>) = 0
  /\ \A x \in Texts : x \o <<>> = x /\ <<>> \o x = x
  BY EmptySeq, ConcatEmptySeq DEF Texts

LEMMA PrefixGrows ==
  ASSUME NEW x \in Texts, NEW y \in Texts, NEW d \in Texts, IsPrefix(x, y)
  PROVE  IsPrefix(x, y \o d)
<1>1. PICK z \in Texts : y = x \o z
  BY PrefixIsBeginning
<1>2. PICK e \in Texts : e = z \o d
  BY ConcatText
<1>3. y \o d = x \o e
  <2>1. (x \o z) \o d = x \o (z \o d)
    BY Assoc, ZenonT(40)
  <2> QED
    BY <1>1, <1>2, <2>1, Zenon
<1> QED
  BY <1>3, PrefixOfConcat

LEMMA DeltaText ==
  ASSUME NEW d \in Deltas
  PROVE  d \in Texts
  BY BoundsAssumption DEF Deltas, Texts

-----------------------------------------------------------------------------
(***************************************************************************)
(* The inductive invariant.  NothingLost alone is inductive once the tail  *)
(* is known to be gathered from the current block only (Surrendered).  For *)
(* NoLeakBeforeFiring two facts are added: once the client has seen part   *)
(* of a block, exactly MaxLen - 1 characters of it are withheld, so that a *)
(* stop sequence completed by the next delta begins in the tail (Full);    *)
(* and no sequence occurs in the text of the block so far (Quiet).         *)
(***************************************************************************)
Types ==
  /\ win \in Windows
  /\ win.kind \in {"none", "text"}
  /\ win.block \in -1 .. MaxBlocks
  /\ win.matched \in {<<>>} \cup ToSet(StopSeqs)
  /\ block \in 0 .. MaxBlocks
  /\ open \in BOOLEAN
  /\ fed \in Texts
  /\ emitted \in Texts
  /\ Len(fed) <= MaxFed

Little == Len(win.tail) < (IF HasWindow THEN MaxLen ELSE 1)

Surrendered ==
  ~open \/ win.block # block \/ win.matched # <<>> => win.tail = <<>>

Full ==
  win.matched = <<>> /\ open /\ HasWindow /\ emitted # <<>> =>
    win.block = block /\ Len(win.tail) = MaxLen - 1

Quiet == win.matched = <<>> => \A k \in Live : ~Occurs(StopSeqs[k], fed)

IInv ==
  /\ Types
  /\ Little
  /\ Surrendered
  /\ NothingLost
  /\ ShownIsPrefix
  /\ Full
  /\ Quiet

LEMMA NothingOccursInNothing ==
  ASSUME NEW k \in Live
  PROVE  ~Occurs(StopSeqs[k], <<>>)
  BY EmptySeq DEF Occurs

LEMMA InitIInv == Init => IInv
<1> SUFFICES ASSUME Init PROVE IInv
  OBVIOUS
<1>1. /\ win.tail = <<>> /\ win.block = -1 /\ win.kind = "none" /\ win.matched = <<>>
      /\ win \in Windows
  BY EmptySeq DEF Init, NewWindow, Windows, NoBlock, Texts
<1>2. block = 0 /\ open = TRUE /\ fed = <<>> /\ emitted = <<>>
  BY DEF Init
<1>3. MaxFed \in Nat /\ MaxBlocks \in Nat
  BY BoundsAssumption
<1>4. Types
  BY <1>1, <1>2, <1>3, Empty DEF Types
<1>5. Little
  BY <1>1, MaxLenIsMax, Empty DEF Little
<1>6. Surrendered /\ NothingLost
  BY <1>1, <1>2, Empty DEF Surrendered, NothingLost, Withheld
<1>7. ShownIsPrefix
  BY <1>2, Empty, PrefixOfConcat DEF ShownIsPrefix
<1>8. Full
  BY <1>2 DEF Full
<1>9. Quiet
  BY <1>2, NothingOccursInNothing DEF Quiet
<1> QED
  BY <1>4, <1>5, <1>6, <1>7, <1>8, <1>9 DEF IInv

(* Closing shows the withheld tail *)
LEMMA CloseIInv == IInv /\ Close => IInv'
<1> SUFFICES ASSUME IInv, Close PROVE IInv'
  OBVIOUS
<1>1. /\ Types /\ Little /\ Surrendered /\ NothingLost /\ ShownIsPrefix /\ Quiet
  BY DEF IInv
<1>2. /\ open /\ open' = FALSE /\ block' = block /\ fed' = fed
      /\ emitted' = IF HasTail(win) THEN emitted \o win.tail ELSE emitted
      /\ win' = IF HasTail(win) THEN TakeTail(win) ELSE win
  BY DEF Close
<1>3. /\ win \in Windows /\ block \in Nat /\ win.tail \in Texts
      /\ emitted \in Texts /\ fed \in Texts
  BY <1>1 DEF Types, Windows
<1>4. HasTail(win) <=> win.tail # <<>>
  BY <1>1, <1>3 DEF HasTail, NoBlock, Surrendered
<1>5. /\ win' \in Windows /\ win'.block = win.block /\ win'.kind = win.kind
      /\ win'.matched = win.matched /\ win'.tail = <<>>
  BY <1>2, <1>3, <1>4, EmptySeq DEF TakeTail, Windows, Texts
<1>6. emitted' = emitted \o win.tail
  BY <1>2, <1>3, <1>4, Empty
<1>7. Types'
  <2>1. emitted' \in Texts
    BY <1>3, <1>6, ConcatText
  <2> QED
    BY <1>1, <1>2, <1>5, <2>1 DEF Types
<1>8. Little'
  BY <1>5, MaxLenIsMax, Empty DEF Little
<1>9. Surrendered' /\ Full'
  BY <1>2, <1>5 DEF Surrendered, Full
<1>10. win.matched = <<>> => emitted' = fed
  BY <1>1, <1>2, <1>6, <1>3, Empty DEF NothingLost, Withheld, Surrendered
<1>11. NothingLost'
  BY <1>2, <1>3, <1>5, <1>10, Empty DEF NothingLost, Withheld
<1>12. ShownIsPrefix'
  <2>1. CASE win.matched = <<>>
    <3>1. IsPrefix(fed, fed)
      BY <1>3, Empty, PrefixOfConcat
    <3> QED
      BY <1>2, <1>10, <2>1, <3>1 DEF ShownIsPrefix
  <2>2. CASE win.matched # <<>>
    BY <1>1, <1>2, <1>3, <1>6, <2>2, Empty DEF Surrendered, ShownIsPrefix
  <2> QED
    BY <2>1, <2>2
<1>13. Quiet'
  BY <1>1, <1>2, <1>5 DEF Quiet
<1> QED
  BY <1>7, <1>8, <1>9, <1>11, <1>12, <1>13 DEF IInv

(* The next block starts with nothing withheld *)
LEMMA OpenIInv == IInv /\ Open => IInv'
<1> SUFFICES ASSUME IInv, Open PROVE IInv'
  OBVIOUS
<1>1. /\ Types /\ Little /\ Surrendered
  BY DEF IInv
<1>2. /\ ~open /\ block + 1 < MaxBlocks /\ block' = block + 1 /\ open' = TRUE
      /\ fed' = <<>> /\ emitted' = <<>> /\ win' = win
  BY DEF Open
<1>3. win.tail = <<>>
  BY <1>1, <1>2 DEF Surrendered
<1>4. Types'
  <2>1. MaxBlocks \in Nat /\ MaxFed \in Nat
    BY BoundsAssumption
  <2>2. block' \in 0 .. MaxBlocks
    BY <1>1, <1>2, <2>1 DEF Types
  <2> QED
    BY <1>1, <1>2, <2>1, <2>2, Empty DEF Types
<1>5. Little' /\ Surrendered' /\ Full'
  BY <1>1, <1>2, <1>3 DEF Little, Surrendered, Full
<1>6. NothingLost'
  BY <1>2, <1>3, Empty DEF NothingLost, Withheld
<1>7. ShownIsPrefix'
  BY <1>2, Empty, PrefixOfConcat DEF ShownIsPrefix
<1>8. Quiet'
  BY <1>2, NothingOccursInNothing DEF Quiet
<1> QED
  BY <1>4, <1>5, <1>6, <1>7, <1>8 DEF IInv

(* What a delta changes, when no sequence had fired: the buffer is what    *)
(* was withheld and the delta, and fed' is emitted followed by it.         *)
Gathers(d, t, buf) ==
  /\ Buffered(win, block, "text", d, buf)
  /\ t = Withheld
  /\ buf = t \o d
  /\ fed = emitted \o t
  /\ fed' = emitted \o buf

LEMMA Gathered ==
  ASSUME IInv, NEW d \in Deltas, Delta(d), win.matched = <<>>
  PROVE  \E t, buf \in Texts : Gathers(d, t, buf)
<1>1. /\ win \in Windows /\ block \in Nat /\ emitted \in Texts /\ win.tail \in Texts
      /\ NothingLost /\ d \in Texts
  BY DeltaText DEF IInv, Types, Windows
<1>2. open /\ fed' = fed \o d
  BY DEF Delta
<1>3. PICK t \in Texts : t = Withheld
  BY <1>1, Empty DEF Withheld
<1>4. Retarget(win, block, "text").tail = t
  <2>1. Retarget(win, block, "text").tail = IF win.block = block THEN win.tail ELSE <<>>
    BY <1>1, RetargetType, Zenon
  <2> QED
    BY <1>2, <1>3, <2>1 DEF Withheld
<1>5. PICK buf \in Texts : buf = t \o d
  BY <1>1, <1>3, ConcatText
<1>6. fed = emitted \o t
  BY <1>1, <1>3 DEF NothingLost
<1>7. fed' = emitted \o buf
  <2>1. emitted \in Texts /\ d \in Texts
    BY <1>1
  <2>2. (emitted \o t) \o d = emitted \o (t \o d)
    BY <2>1, Assoc, ZenonT(40)
  <2> QED
    BY <1>2, <1>5, <1>6, <2>2, Zenon
<1>8. Gathers(d, t, buf)
  BY <1>1, <1>3, <1>4, <1>5, <1>6, <1>7 DEF Gathers, Buffered
<1> QED
  BY <1>8

(* The parts of the typing that every delta preserves *)
LEMMA DeltaTypes ==
  ASSUME IInv, NEW d \in Deltas, Delta(d)
  PROVE  /\ win' \in Windows
         /\ win'.kind \in {"none", "text"}
         /\ block' \in 0 .. MaxBlocks
         /\ open' \in BOOLEAN
         /\ fed' \in Texts
         /\ emitted' \in Texts
         /\ Len(fed') <= MaxFed
<1>1. /\ win \in Windows /\ block \in Nat /\ block \in 0 .. MaxBlocks /\ open \in BOOLEAN
      /\ emitted \in Texts /\ fed \in Texts /\ win.kind \in {"none", "text"}
      /\ d \in Texts
  BY DeltaText DEF IInv, Types
<1>2. /\ open' = open /\ block' = block /\ fed' = fed \o d
      /\ Len(fed) + Len(d) <= MaxFed
      /\ win' = Feed(win, block, "text", d).win
      /\ emitted' = emitted \o Feed(win, block, "text", d).emit
  BY DEF Delta
<1>3. PICK e : e = Feed(win, block, "text", d).emit
  OBVIOUS
<1>4. win' \in Windows /\ e \in Texts
  BY <1>1, <1>2, <1>3, FeedType
<1>5. win'.kind \in {"none", "text"}
  <2>1. win'.kind \in {win.kind, "text"}
    BY <1>1, <1>2, FeedKind
  <2> QED
    BY <1>1, <2>1
<1>6. fed' \in Texts /\ Len(fed') <= MaxFed
  BY <1>1, <1>2, ConcatText
<1>7. emitted' \in Texts
  BY <1>1, <1>2, <1>3, <1>4, ConcatText
<1> QED
  BY <1>1, <1>2, <1>4, <1>5, <1>6, <1>7

(* After a sequence has fired nothing more is shown *)
LEMMA DeltaAfterFiring ==
  ASSUME IInv, NEW d \in Deltas, Delta(d), win.matched # <<>>
  PROVE  IInv'
<1>1. /\ Types /\ Little /\ Surrendered /\ ShownIsPrefix
      /\ emitted \in Texts /\ fed \in Texts /\ d \in Texts
  BY DeltaText DEF IInv, Types
<1>2. Feed(win, block, "text", d).win = win /\ Feed(win, block, "text", d).emit = <<>>
  BY DEF Feed
<1>3. /\ win' = win /\ open' = open /\ block' = block /\ fed' = fed \o d
      /\ emitted' = emitted \o <<>>
  BY <1>2 DEF Delta
<1>4. emitted' = emitted
  BY <1>1, <1>3, Empty
<1>5. Types'
  BY <1>1, <1>3, DeltaTypes DEF Types
<1>6. Little' /\ Surrendered' /\ NothingLost' /\ Full' /\ Quiet'
  BY <1>1, <1>3 DEF Little, Surrendered, NothingLost, Full, Quiet
<1>7. ShownIsPrefix'
  BY <1>1, <1>3, <1>4, PrefixGrows DEF ShownIsPrefix
<1> QED
  BY <1>5, <1>6, <1>7 DEF IInv

(* A delta that completes a sequence *)
LEMMA DeltaFires ==
  ASSUME IInv, NEW d \in Deltas, Delta(d),
         NEW t \in Texts, NEW buf \in Texts, Gathers(d, t, buf), Fired(buf) # {}
  PROVE  IInv'
<1>0. /\ Buffered(win, block, "text", d, buf) /\ win.matched = <<>>
      /\ t = Withheld /\ buf = t \o d
      /\ fed = emitted \o t /\ fed' = emitted \o buf
  BY DEF Gathers, Buffered
<1>1. /\ win \in Windows /\ block \in Nat /\ emitted \in Texts /\ d \in Texts
      /\ block \in 0 .. MaxBlocks
  BY DeltaText DEF IInv, Types
<1>2. /\ block' = block
      /\ win' = Feed(win, block, "text", d).win
      /\ emitted' = emitted \o Feed(win, block, "text", d).emit
  BY DEF Delta
<1>3. /\ win'.block = block /\ win'.tail = <<>> /\ win'.matched # <<>>
      /\ win'.matched = StopSeqs[FirstFired(buf)] /\ FirstFired(buf) \in Live
  <2>1. HasFired(Feed(win, block, "text", d), block, buf)
    BY <1>0, FeedFires
  <2> QED
    BY <1>2, <2>1 DEF HasFired
<1>4. PICK n \in 0 .. Len(buf) : Feed(win, block, "text", d).emit = SubSeq(buf, 1, n)
  <2>1. HasFired(Feed(win, block, "text", d), block, buf)
    BY <1>0, FeedFires
  <2> QED
    BY <2>1, Zenon DEF HasFired
<1>5. Types'
  <2>1. win'.matched \in ToSet(StopSeqs)
    <3>1. FirstFired(buf) \in DOMAIN StopSeqs
      BY <1>3 DEF Live
    <3> QED
      BY <1>3, <3>1, Zenon DEF ToSet
  <2>2. win'.block \in -1 .. MaxBlocks
    BY <1>1, <1>3
  <2> QED
    BY <2>1, <2>2, DeltaTypes DEF Types
<1>6. Little'
  BY <1>3, MaxLenIsMax, Empty DEF Little
<1>7. Surrendered' /\ NothingLost' /\ Full' /\ Quiet'
  BY <1>3 DEF Surrendered, NothingLost, Full, Quiet
<1>8. ShownIsPrefix'
  <2>1. PICK u : u = emitted \o SubSeq(buf, 1, n)
    OBVIOUS
  <2>2. PICK k : k = SubSeq(buf, n + 1, Len(buf))
    OBVIOUS
  <2>3. u \in Texts /\ k \in Texts /\ u \o k = emitted \o buf
    BY <1>1, <2>1, <2>2, Regroup
  <2>4. emitted' = u /\ fed' = u \o k
    BY <1>0, <1>2, <1>4, <2>1, <2>3
  <2> QED
    BY <2>3, <2>4, PrefixOfConcat DEF ShownIsPrefix
<1> QED
  BY <1>5, <1>6, <1>7, <1>8 DEF IInv

(* A delta that completes none: Straddle shows that none occurs in the     *)
(* text of the block either.                                               *)
LEMMA DeltaPasses ==
  ASSUME IInv, NEW d \in Deltas, Delta(d),
         NEW t \in Texts, NEW buf \in Texts, Gathers(d, t, buf), Fired(buf) = {}
  PROVE  IInv'
<1>0. /\ Buffered(win, block, "text", d, buf) /\ win.matched = <<>>
      /\ t = Withheld /\ buf = t \o d
      /\ fed = emitted \o t /\ fed' = emitted \o buf
  BY DEF Gathers, Buffered
<1>1. /\ win \in Windows /\ block \in Nat /\ emitted \in Texts /\ d \in Texts
      /\ block \in 0 .. MaxBlocks
  BY DeltaText DEF IInv, Types
<1>2. /\ open /\ open' = open /\ block' = block
      /\ win' = Feed(win, block, "text", d).win
      /\ emitted' = emitted \o Feed(win, block, "text", d).emit
  BY DEF Delta
<1>3. /\ win'.block = block /\ win'.matched = <<>>
      /\ win'.tail = SubSeq(buf, Split(buf) + 1, Len(buf))
      /\ emitted' = emitted \o SubSeq(buf, 1, Split(buf))
  <2>1. HasPassed(Feed(win, block, "text", d), block, buf)
    BY <1>0, FeedPasses
  <2> QED
    BY <1>2, <2>1, Zenon DEF HasPassed
<1>4. PICK n \in 0 .. Len(buf) : n = Split(buf)
  BY SplitInside
<1>5. Len(buf) \in Nat
  BY TextLen
<1>6. 1 \in 1 .. Len(buf) + 1 /\ n + 1 \in 1 .. Len(buf) + 1 /\ Len(buf) \in 0 .. Len(buf)
  BY <1>5
<1>7. PICK h \in Texts : h = SubSeq(buf, 1, n) /\ Len(h) = n
  <2>1. SubSeq(buf, 1, n) \in Texts
        /\ Len(SubSeq(buf, 1, n)) = IF 1 <= n THEN n - 1 + 1 ELSE 0
    BY <1>5, <1>6, PartOfText, Zenon
  <2>2. Len(SubSeq(buf, 1, n)) = n
    BY <1>5, <2>1
  <2> QED
    BY <2>1, <2>2, Zenon
<1>8. PICK k \in Texts : k = SubSeq(buf, n + 1, Len(buf)) /\ Len(k) = Len(buf) - n
  <2>1. SubSeq(buf, n + 1, Len(buf)) \in Texts
        /\ Len(SubSeq(buf, n + 1, Len(buf))) = IF n + 1 <= Len(buf) THEN Len(buf) - (n + 1) + 1 ELSE 0
    BY <1>5, <1>6, PartOfText, Zenon
  <2>2. Len(SubSeq(buf, n + 1, Len(buf))) = Len(buf) - n
    BY <1>5, <2>1
  <2> QED
    BY <2>1, <2>2, Zenon
<1>9. buf = h \o k
  BY <1>7, <1>8, Halves
<1>10. emitted' = emitted \o h /\ win'.tail = k
  BY <1>3, <1>4, <1>7, <1>8
<1>11. Types'
  <2>1. win'.block \in -1 .. MaxBlocks /\ win'.matched \in {<<>>} \cup ToSet(StopSeqs)
    BY <1>1, <1>3
  <2> QED
    BY <2>1, DeltaTypes DEF Types
<1>12. HasWindow => /\ Len(k) <= MaxLen - 1
                    /\ n > 0 => Len(k) = MaxLen - 1
  BY <1>4, <1>8, SplitBounds
<1>13. Little'
  <2>1. CASE HasWindow
    BY <1>8, <1>10, <1>12, <2>1, MaxLenIsMax, TextLen DEF Little
  <2>2. CASE ~HasWindow
    <3>1. n = Len(buf)
      BY <1>4, <1>5, <2>2 DEF Split, MaxLen
    <3> QED
      BY <1>5, <1>8, <1>10, <2>2, <3>1 DEF Little
  <2> QED
    BY <2>1, <2>2
<1>14. Surrendered'
  BY <1>2, <1>3 DEF Surrendered
<1>15. PICK u : u = emitted \o SubSeq(buf, 1, n)
  OBVIOUS
<1>16. u \in Texts /\ u \o k = fed' /\ emitted' = u
  <2>1. u \in Texts /\ u \o SubSeq(buf, n + 1, Len(buf)) = emitted \o buf
    BY <1>1, <1>15, Regroup
  <2> QED
    BY <2>1, <1>0, <1>3, <1>4, <1>8, <1>15
<1>17. NothingLost'
  <2>1. Withheld' = k
    BY <1>2, <1>3, <1>10 DEF Withheld
  <2> QED
    BY <1>16, <2>1 DEF NothingLost
<1>18. ShownIsPrefix'
  BY <1>8, <1>16, PrefixOfConcat DEF ShownIsPrefix
<1>19. Full'
  <2>1. SUFFICES ASSUME HasWindow, emitted' # <<>> PROVE Len(k) = MaxLen - 1
    BY <1>2, <1>3, <1>10 DEF Full
  <2>2. CASE n > 0
    BY <1>12, <2>1, <2>2
  <2>3. CASE ~(n > 0)
    <3>1. h = <<>>
      BY <1>7, <2>3, EmptySeq DEF Texts
    <3>2. emitted # <<>>
      BY <1>1, <1>10, <2>1, <3>1, Empty
    <3>3. Len(win.tail) = MaxLen - 1 /\ win.block = block
      BY <1>0, <1>2, <2>1, <3>2 DEF IInv, Full
    <3>4. Len(t) = MaxLen - 1
      BY <1>0, <1>2, <3>3 DEF Withheld
    <3>5. Len(buf) = Len(t) + Len(d) /\ Len(d) \in Nat /\ Len(t) \in Nat
      BY <1>0, <1>1, ConcatText, TextLen
    <3> QED
      BY <1>5, <1>8, <1>12, <2>1, <2>3, <3>4, <3>5, MaxLenIsMax
  <2> QED
    BY <2>2, <2>3
<1>20. Quiet'
  <2>1. SUFFICES ASSUME NEW j \in Live, Occurs(StopSeqs[j], fed') PROVE FALSE
    BY DEF Quiet
  <2>2. PICK s \in Texts : s = StopSeqs[j] /\ s # <<>>
    BY LiveSeqs DEF Live
  <2>3. Occurs(s, emitted \o (t \o d)) /\ ~Occurs(s, emitted \o t)
    BY <1>0, <2>1, <2>2 DEF IInv, Quiet
  <2>4. emitted = <<>> \/ Len(t) >= Len(s) - 1
    <3>1. SUFFICES ASSUME emitted # <<>> PROVE Len(t) >= Len(s) - 1
      OBVIOUS
    <3>2. HasWindow
      BY DEF HasWindow
    <3>3. Len(win.tail) = MaxLen - 1 /\ win.block = block
      BY <1>0, <1>2, <3>1, <3>2 DEF IInv, Full
    <3>4. Len(t) = MaxLen - 1
      BY <1>0, <1>2, <3>3 DEF Withheld
    <3>5. Len(s) <= MaxLen /\ MaxLen \in Nat /\ Len(s) \in Nat
      BY <2>2, <3>2, MaxLenIsMax, TextLen
    <3> QED
      BY <3>4, <3>5
  <2>5. Occurs(s, t \o d)
    BY <1>1, <2>2, <2>3, <2>4, Straddle, Zenon
  <2>6. j \in Fired(buf)
    BY <1>0, <2>2, <2>5 DEF Fired
  <2> QED
    BY <2>6
<1> QED
  BY <1>11, <1>13, <1>14, <1>17, <1>18, <1>19, <1>20 DEF IInv

LEMMA DeltaIInv ==
  ASSUME IInv, NEW d \in Deltas, Delta(d)
  PROVE  IInv'
<1>1. CASE win.matched # <<>>
  BY <1>1, DeltaAfterFiring
<1>2. CASE win.matched = <<>>
  <2>1. PICK t \in Texts, buf \in Texts : Gathers(d, t, buf)
    BY <1>2, Gathered
  <2> QED
    BY <2>1, DeltaFires, DeltaPasses
<1> QED
  BY <1>1, <1>2

(* The invariant is inductive *)
THEOREM Inductive == Spec => []IInv
<1>1. IInv /\ [Next]_vars => IInv'
  <2> SUFFICES ASSUME IInv, [Next]_vars PROVE IInv'
    OBVIOUS
  <2>1. ASSUME NEW d \in Deltas, Delta(d) PROVE IInv'
    BY <2>1, DeltaIInv
  <2>2. CASE Close
    BY <2>2, CloseIInv
  <2>3. CASE Open
    BY <2>3, OpenIInv
  <2>4. CASE UNCHANGED vars
    BY <2>4 DEF vars, IInv, Types, Little, Surrendered, NothingLost, ShownIsPrefix,
                Full, Quiet, Withheld
  <2> QED
    BY <2>1, <2>2, <2>3, <2>4 DEF Next
<1> QED
  BY <1>1, InitIInv, PTL DEF Spec

(* Whatever the upstream sends, in whatever pieces, the window is well     *)
(* formed and withholds at most MaxLen - 1 characters (StopWindow::feed).  *)
THEOREM WellFormed == Spec => []TypeOK
<1>1. IInv => TypeOK
  <2> SUFFICES ASSUME IInv PROVE TypeOK
    OBVIOUS
  <2>1. Types /\ Little /\ Surrendered /\ NothingLost
    BY DEF IInv
  <2>2. /\ win \in Windows /\ win.tail \in Texts /\ emitted \in Texts /\ fed \in Texts
        /\ Len(fed) <= MaxFed /\ MaxFed \in Nat
    BY <2>1, BoundsAssumption DEF Types, Windows
  <2>3. Len(win.tail) <= MaxFed
    <3>1. CASE win.tail = <<>>
      BY <2>2, <3>1, EmptySeq
    <3>2. CASE win.tail # <<>>
      <4>1. fed = emitted \o win.tail
        BY <2>1, <3>2 DEF Surrendered, NothingLost, Withheld
      <4>2. Len(fed) = Len(emitted) + Len(win.tail)
        BY <2>2, <4>1, ConcatText
      <4> QED
        BY <2>2, <4>2, TextLen
    <3> QED
      BY <3>1, <3>2
  <2>4. win.tail \in BoundedSeq(Char, MaxFed)
    <3>1. PICK n : n = Len(win.tail)
      OBVIOUS
    <3>2. n \in 0 .. MaxFed /\ win.tail \in [1 .. n -> Char]
      BY <2>2, <2>3, <3>1, TextLen DEF Texts
    <3> QED
      BY <3>2 DEF BoundedSeq, SeqOf
  <2>5. win \in [tail : BoundedSeq(Char, MaxFed), block : -1 .. MaxBlocks,
                 kind : {"none", "text"}, matched : {<<>>} \cup ToSet(StopSeqs)]
    BY <2>1, <2>4 DEF Types, Windows
  <2>6. win.matched # <<>> => win.tail = <<>>
    BY <2>1 DEF Surrendered
  <2> QED
    BY <2>1, <2>2, <2>5, <2>6 DEF TypeOK, Little
<1> QED
  BY <1>1, Inductive, PTL

(* Until a sequence fires, what the client has seen of the block and what  *)
(* is withheld are together what the upstream sent.                        *)
THEOREM NothingIsLost == Spec => []NothingLost
<1>1. IInv => NothingLost
  BY DEF IInv
<1> QED
  BY <1>1, Inductive, PTL

(* The client sees the beginning of what the upstream sent, fired or not *)
THEOREM ShowsABeginning == Spec => []ShownIsPrefix
<1>1. IInv => ShownIsPrefix
  BY DEF IInv
<1> QED
  BY <1>1, Inductive, PTL

(* Keeping MaxLen - 1 characters back is enough: no stop sequence, however *)
(* it is cut into deltas, is in what the client has seen and what is       *)
(* withheld before one fires.                                              *)
THEOREM NoLeak == Spec => []NoLeakBeforeFiring
<1>1. IInv => NoLeakBeforeFiring
  BY DEF IInv, Quiet, NothingLost, NoLeakBeforeFiring
<1> QED
  BY <1>1, Inductive, PTL

-----------------------------------------------------------------------------
(* Where a sequence is found does not depend on what follows it *)
LEMMA FindIs ==
  ASSUME NEW s \in Texts, NEW b \in Texts, NEW p \in 1 .. Len(b), OccursAt(s, b, p),
         \A q \in 1 .. Len(b) : OccursAt(s, b, q) => p <= q
  PROVE  Occurs(s, b) /\ Find(s, b) = p
<1>1. Len(b) \in Nat
  BY TextLen
<1>2. \A q \in 1 .. Len(b) :
        OccursAt(s, b, q) /\ (\A r \in 1 .. Len(b) : OccursAt(s, b, r) => q <= r) => q = p
  BY <1>1
<1> QED
  BY <1>2 DEF Occurs, Find

LEMMA FindFirst ==
  ASSUME NEW s \in Texts, NEW b \in Texts, Occurs(s, b)
  PROVE  \A q \in 1 .. Len(b) : OccursAt(s, b, q) => Find(s, b) <= q
<1> DEFINE T == {p \in 1 .. Len(b) : OccursAt(s, b, p)}
<1>1. T \subseteq Nat /\ T # {}
  BY DEF Occurs, Texts
<1>2. PICK p \in T : \A q \in T : p <= q
  BY <1>1, LeastNat
<1>3. p = Find(s, b)
  BY <1>2, FindIs
<1> QED
  BY <1>2, <1>3

(* An occurrence in x is one in x \o d, and the other way round if it ends *)
(* in x                                                                    *)
LEMMA OccursBefore ==
  ASSUME NEW s \in Texts, s # <<>>, NEW x \in Texts, NEW d \in Texts, NEW p \in 1 .. Len(x),
         p + Len(s) - 1 <= Len(x)
  PROVE  OccursAt(s, x \o d, p) <=> OccursAt(s, x, p)
<1>1. PICK c : c = x \o d
  OBVIOUS
<1>2. /\ c \in Texts /\ Len(c) = Len(x) + Len(d)
      /\ \A i \in 1 .. Len(x) + Len(d) : c[i] = IF i <= Len(x) THEN x[i] ELSE d[i - Len(x)]
  BY <1>1, ConcatText
<1>3. Len(x) \in Nat /\ Len(d) \in Nat /\ Len(s) \in Nat
  BY TextLen
<1>4. \A i \in 1 .. Len(s) : c[p + i - 1] = x[p + i - 1]
  <2> TAKE i \in 1 .. Len(s)
  <2>1. p + i - 1 \in 1 .. Len(x) + Len(d) /\ p + i - 1 <= Len(x)
    BY <1>3
  <2> QED
    BY <1>2, <2>1
<1>5. p \in 1 .. Len(c) /\ p + Len(s) - 1 <= Len(c)
  BY <1>2, <1>3
<1>6. OccursAt(s, c, p) <=> \A i \in 1 .. Len(s) : c[p + i - 1] = s[i]
  BY <1>2, <1>5, OccursPointwise
<1>7. OccursAt(s, x, p) <=> \A i \in 1 .. Len(s) : x[p + i - 1] = s[i]
  BY OccursPointwise
<1> QED
  BY <1>1, <1>4, <1>6, <1>7

LEMMA FindStays ==
  ASSUME NEW s \in Texts, s # <<>>, NEW x \in Texts, NEW d \in Texts, Occurs(s, x)
  PROVE  Occurs(s, x \o d) /\ Find(s, x \o d) = Find(s, x)
<1>1. PICK p \in 1 .. Len(x) : p = Find(s, x) /\ OccursAt(s, x, p)
  BY FindInside
<1>2. PICK c \in Texts : c = x \o d /\ Len(c) = Len(x) + Len(d)
  BY ConcatText
<1>3. Len(x) \in Nat /\ Len(d) \in Nat /\ Len(s) \in Nat
  BY TextLen
<1>4. p + Len(s) - 1 <= Len(x)
  BY <1>1 DEF OccursAt
<1>5. p \in 1 .. Len(c) /\ OccursAt(s, c, p)
  BY <1>1, <1>2, <1>3, <1>4, OccursBefore
<1>6. ASSUME NEW q \in 1 .. Len(c), OccursAt(s, c, q) PROVE p <= q
  <2>1. SUFFICES ASSUME ~(p <= q) PROVE FALSE
    OBVIOUS
  <2>2. q \in 1 .. Len(x) /\ q + Len(s) - 1 <= Len(x)
    BY <1>3, <1>4, <2>1
  <2>3. OccursAt(s, x, q)
    BY <1>2, <1>6, <2>2, OccursBefore
  <2>4. p <= q
    BY <1>1, <2>2, <2>3, FindFirst
  <2> QED
    BY <2>1, <2>4
<1> QED
  BY <1>1, <1>2, <1>5, <1>6, FindIs

(* An occurrence in b is one in x \o b, further on *)
LEMMA OccursBehind ==
  ASSUME NEW s \in Texts, s # <<>>, NEW x \in Texts, NEW b \in Texts, NEW q \in 1 .. Len(b)
  PROVE  OccursAt(s, x \o b, Len(x) + q) <=> OccursAt(s, b, q)
<1>1. PICK c : c = x \o b
  OBVIOUS
<1>2. /\ c \in Texts /\ Len(c) = Len(x) + Len(b)
      /\ \A i \in 1 .. Len(x) + Len(b) : c[i] = IF i <= Len(x) THEN x[i] ELSE b[i - Len(x)]
  BY <1>1, ConcatText
<1>3. Len(x) \in Nat /\ Len(b) \in Nat /\ Len(s) \in Nat
  BY TextLen
<1>4. PICK p : p = Len(x) + q
  OBVIOUS
<1>5. p \in 1 .. Len(c) /\ (p + Len(s) - 1 <= Len(c) <=> q + Len(s) - 1 <= Len(b))
  BY <1>2, <1>3, <1>4
<1>6. ASSUME q + Len(s) - 1 <= Len(b), NEW i \in 1 .. Len(s)
      PROVE  c[p + i - 1] = b[q + i - 1]
  <2>1. PICK j : j = p + i - 1
    OBVIOUS
  <2>2. j \in 1 .. Len(x) + Len(b) /\ ~(j <= Len(x)) /\ j - Len(x) = q + i - 1
    BY <1>3, <1>4, <1>6, <2>1
  <2> QED
    BY <1>2, <2>1, <2>2
<1>7. OccursAt(s, c, p) <=> /\ p + Len(s) - 1 <= Len(c)
                            /\ \A i \in 1 .. Len(s) : c[p + i - 1] = s[i]
  BY <1>2, <1>5, OccursPointwise
<1>8. OccursAt(s, b, q) <=> /\ q + Len(s) - 1 <= Len(b)
                            /\ \A i \in 1 .. Len(s) : b[q + i - 1] = s[i]
  BY OccursPointwise
<1> QED
  BY <1>1, <1>4, <1>5, <1>6, <1>7, <1>8

(* The window looks for s in the buffer t \o d only; it finds it where it  *)
(* is in everything said, x being what was released before.               *)
LEMMA FindShifts ==
  ASSUME NEW s \in Texts, s # <<>>, NEW x \in Texts, NEW t \in Texts, NEW d \in Texts,
         ~Occurs(s, x \o t), x = <<>> \/ Len(t) >= Len(s) - 1, Occurs(s, t \o d)
  PROVE  Occurs(s, x \o (t \o d)) /\ Find(s, x \o (t \o d)) = Len(x) + Find(s, t \o d)
<1>1. PICK b \in Texts : b = t \o d /\ Len(b) = Len(t) + Len(d)
  BY ConcatText
<1>2. PICK a \in Texts : a = x \o b /\ Len(a) = Len(x) + Len(b)
  BY ConcatText
<1>3. PICK q \in 1 .. Len(b) : q = Find(s, b) /\ OccursAt(s, b, q)
  BY <1>1, FindInside
<1>4. /\ Len(x) \in Nat /\ Len(t) \in Nat /\ Len(d) \in Nat /\ Len(b) \in Nat
      /\ Len(s) \in Nat \ {0}
  BY TextLen, EmptySeq DEF Texts
<1>5. Len(x) + q \in 1 .. Len(a)
  BY <1>2, <1>4
<1>6. OccursAt(s, a, Len(x) + q)
  BY <1>2, <1>3, OccursBehind
<1>7. ASSUME NEW p \in 1 .. Len(a), OccursAt(s, a, p) PROVE Len(x) + q <= p
  <2>1. p - Len(x) \in 1 .. Len(b) /\ OccursAt(s, b, p - Len(x))
    BY <1>1, <1>2, <1>7, StraddleAt
  <2>2. q <= p - Len(x)
    BY <1>1, <1>3, <2>1, FindFirst
  <2> QED
    BY <1>4, <2>2
<1>8. Occurs(s, a) /\ Find(s, a) = Len(x) + q
  BY <1>5, <1>6, <1>7, FindIs
<1> QED
  BY <1>1, <1>2, <1>3, <1>8

(***************************************************************************)
(* With one stop sequence the cut is exact.  Before it fires that follows  *)
(* from IInv (Quiet, and Full: what is withheld is what Split keeps back). *)
(* Afterwards the block it fired in has the text before its first          *)
(* occurrence, the later ones nothing.                                     *)
(***************************************************************************)
OneSequence == HasWindow /\ \A j, k \in Live : StopSeqs[j] = StopSeqs[k]

Sequence == StopSeqs[CHOOSE k \in Live : TRUE]

CutAt(text) == SubSeq(text, 1, Find(Sequence, text) - 1)

Cuts ==
  win.matched # <<>> =>
    /\ win.block <= block
    /\ win.block # block => emitted = <<>>
    /\ win.block = block => Occurs(Sequence, fed) /\ emitted = CutAt(fed)

LEMMA SequenceType ==
  ASSUME OneSequence
  PROVE  /\ Sequence \in Texts /\ Sequence # <<>> /\ Len(Sequence) <= MaxLen
         /\ Live # {}
         /\ \A k \in Live : StopSeqs[k] = Sequence
<1>1. PICK k \in Live : Sequence = StopSeqs[k]
  BY DEF OneSequence, HasWindow, Sequence
<1>2. StopSeqs[k] \in Texts /\ StopSeqs[k] # <<>>
  BY LiveSeqs DEF Live
<1>3. Len(StopSeqs[k]) <= MaxLen
  BY MaxLenIsMax DEF OneSequence
<1> QED
  BY <1>1, <1>2, <1>3 DEF OneSequence, HasWindow

LEMMA BeginningType ==
  ASSUME NEW b \in Texts, NEW n \in 0 .. Len(b)
  PROVE  /\ SubSeq(b, 1, n) \in Texts
         /\ Len(SubSeq(b, 1, n)) = n
         /\ \A i \in 1 .. n : SubSeq(b, 1, n)[i] = b[i]
<1>1. Len(b) \in Nat /\ 1 \in 1 .. Len(b) + 1 /\ n - 1 + 1 = n
  BY TextLen
<1>2. /\ SubSeq(b, 1, n) \in Texts
      /\ Len(SubSeq(b, 1, n)) = IF 1 <= n THEN n - 1 + 1 ELSE 0
      /\ \A i \in 1 .. n - 1 + 1 : SubSeq(b, 1, n)[i] = b[1 + i - 1]
  BY <1>1, PartOfText
<1>3. \A i \in 1 .. n : 1 + i - 1 = i
  OBVIOUS
<1> QED
  BY <1>1, <1>2, <1>3

(* The beginning of a text does not depend on what follows *)
LEMMA CutStays ==
  ASSUME OneSequence, NEW x \in Texts, NEW d \in Texts, Occurs(Sequence, x)
  PROVE  Occurs(Sequence, x \o d) /\ CutAt(x \o d) = CutAt(x)
<1>1. Occurs(Sequence, x \o d) /\ Find(Sequence, x \o d) = Find(Sequence, x)
  BY SequenceType, FindStays
<1>2. PICK p \in 1 .. Len(x) : p = Find(Sequence, x)
  BY SequenceType, FindInside
<1>3. PICK c \in Texts : /\ c = x \o d /\ Len(c) = Len(x) + Len(d)
                        /\ \A i \in 1 .. Len(x) : c[i] = x[i]
  <2>1. \A i \in 1 .. Len(x) : i \in 1 .. Len(x) + Len(d) /\ i <= Len(x)
    BY TextLen
  <2> QED
    BY <2>1, ConcatText
<1>4. Len(x) \in Nat /\ Len(d) \in Nat
  BY TextLen
<1>5. SubSeq(c, 1, p - 1) = SubSeq(x, 1, p - 1)
  <2>1. p - 1 \in 0 .. Len(c) /\ p - 1 \in 0 .. Len(x)
    BY <1>3, <1>4
  <2>2. PICK u : u = SubSeq(c, 1, p - 1)
    OBVIOUS
  <2>3. PICK v : v = SubSeq(x, 1, p - 1)
    OBVIOUS
  <2>6. u \in Texts /\ Len(u) = p - 1 /\ \A i \in 1 .. p - 1 : u[i] = c[i]
    BY <2>1, <2>2, BeginningType
  <2>7. v \in Texts /\ Len(v) = p - 1 /\ \A i \in 1 .. p - 1 : v[i] = x[i]
    BY <2>1, <2>3, BeginningType
  <2>4. \A i \in 1 .. p - 1 : u[i] = v[i]
    BY <1>3, <1>4, <2>6, <2>7
  <2>5. u = v
    BY <2>4, <2>6, <2>7, SeqEqual DEF Texts
  <2> QED
    BY <2>2, <2>3, <2>5
<1> QED
  BY <1>1, <1>2, <1>3, <1>5 DEF CutAt

(* Released text and the beginning of the buffer are the beginning of both *)
LEMMA BeginningOfBoth ==
  ASSUME NEW x \in Texts, NEW b \in Texts, NEW n \in 0 .. Len(b)
  PROVE  x \o SubSeq(b, 1, n) = SubSeq(x \o b, 1, Len(x) + n)
<1>1. PICK c : c = x \o b
  OBVIOUS
<1>2. /\ c \in Texts /\ Len(c) = Len(x) + Len(b)
      /\ \A i \in 1 .. Len(x) + Len(b) : c[i] = IF i <= Len(x) THEN x[i] ELSE b[i - Len(x)]
  BY <1>1, ConcatText
<1>3. Len(x) \in Nat /\ Len(b) \in Nat
  BY TextLen
<1>4. PICK h : h = SubSeq(b, 1, n)
  OBVIOUS
<1>5. h \in Texts /\ Len(h) = n /\ \A i \in 1 .. n : h[i] = b[i]
  BY <1>4, BeginningType
<1>6. PICK l \in 0 .. Len(c) : l = Len(x) + n
  BY <1>2, <1>3
<1>11. PICK u : u = SubSeq(c, 1, l)
  OBVIOUS
<1>7. u \in Texts /\ Len(u) = l /\ \A i \in 1 .. l : u[i] = c[i]
  BY <1>2, <1>11, BeginningType
<1>12. PICK v : v = x \o h
  OBVIOUS
<1>8. /\ v \in Texts /\ Len(v) = l
      /\ \A i \in 1 .. l : v[i] = IF i <= Len(x) THEN x[i] ELSE h[i - Len(x)]
  BY <1>5, <1>6, <1>12, ConcatText
<1>9. ASSUME NEW i \in 1 .. l PROVE u[i] = v[i]
  <2>1. i \in 1 .. Len(x) + Len(b) /\ (~(i <= Len(x)) => i - Len(x) \in 1 .. n)
    BY <1>3, <1>6
  <2> QED
    BY <1>2, <1>5, <1>7, <1>8, <2>1
<1>10. u = v
  BY <1>7, <1>8, <1>9, SeqEqual DEF Texts
<1> QED
  BY <1>1, <1>4, <1>6, <1>10, <1>11, <1>12

LEMMA FeedCuts ==
  ASSUME NEW w, NEW idx, NEW kind, NEW incoming, NEW buf,
         Buffered(w, idx, kind, incoming, buf), Fired(buf) # {}
  PROVE  Feed(w, idx, kind, incoming).emit
           = SubSeq(buf, 1, Find(StopSeqs[FirstFired(buf)], buf) - 1)
<1>1. w.matched = <<>> /\ buf = Retarget(w, idx, kind).tail \o incoming
  BY DEF Buffered
<1>2. PICK e : e = SubSeq(buf, 1, Find(StopSeqs[FirstFired(buf)], buf) - 1)
  OBVIOUS
<1>3. PICK u : u = [Retarget(w, idx, kind) EXCEPT !.tail = <<>>,
                                                !.matched = StopSeqs[FirstFired(buf)]]
  OBVIOUS
<1>4. Feed(w, idx, kind, incoming) = [win |-> u, emit |-> e]
  BY <1>1, <1>2, <1>3, Zenon DEF Feed
<1>5. Feed(w, idx, kind, incoming).emit = e
  BY <1>4
<1> QED
  BY <1>2, <1>5

LEMMA CloseCuts == IInv /\ Cuts /\ Close => Cuts'
<1> SUFFICES ASSUME IInv, Cuts, Close PROVE Cuts'
  OBVIOUS
<1>1. /\ block' = block /\ fed' = fed
      /\ emitted' = IF HasTail(win) THEN emitted \o win.tail ELSE emitted
      /\ win' = IF HasTail(win) THEN TakeTail(win) ELSE win
  BY DEF Close
<1>2. win \in Windows /\ (win.matched # <<>> => win.tail = <<>>)
  BY DEF IInv, Types, Surrendered
<1>3. win'.matched = win.matched /\ win'.block = win.block
  BY <1>1, <1>2 DEF TakeTail, Windows
<1>4. win.matched # <<>> => emitted' = emitted
  BY <1>1, <1>2 DEF HasTail
<1> QED
  BY <1>1, <1>3, <1>4 DEF Cuts

LEMMA OpenCuts == IInv /\ Cuts /\ Open => Cuts'
<1> SUFFICES ASSUME IInv, Cuts, Open PROVE Cuts'
  OBVIOUS
<1>1. block' = block + 1 /\ emitted' = <<>> /\ win' = win
  BY DEF Open
<1>2. block \in Nat /\ win.block \in Int
  BY BoundsAssumption DEF IInv, Types
<1> QED
  BY <1>1, <1>2 DEF Cuts

LEMMA DeltaCuts ==
  ASSUME OneSequence, IInv, Cuts, NEW d \in Deltas, Delta(d)
  PROVE  Cuts'
<1>1. /\ win \in Windows /\ block \in Nat /\ emitted \in Texts /\ fed \in Texts /\ d \in Texts
  BY DeltaText DEF IInv, Types
<1>2. /\ open /\ block' = block /\ fed' = fed \o d
      /\ win' = Feed(win, block, "text", d).win
      /\ emitted' = emitted \o Feed(win, block, "text", d).emit
  BY DEF Delta
<1>3. CASE win.matched # <<>>
  <2>1. win' = win /\ emitted' = emitted
    BY <1>1, <1>2, <1>3, Empty DEF Feed
  <2>2. Occurs(Sequence, fed) =>
          Occurs(Sequence, fed \o d) /\ CutAt(fed \o d) = CutAt(fed)
    BY <1>1, CutStays
  <2> QED
    BY <1>2, <1>3, <2>1, <2>2 DEF Cuts
<1>4. CASE win.matched = <<>>
  <2>1. PICK t \in Texts, buf \in Texts : Gathers(d, t, buf)
    BY <1>4, Gathered
  <2>2. /\ Buffered(win, block, "text", d, buf) /\ t = Withheld /\ buf = t \o d
        /\ fed = emitted \o t /\ fed' = emitted \o buf
    BY <2>1 DEF Gathers
  <2>3. CASE Fired(buf) = {}
    <3>1. HasPassed(Feed(win, block, "text", d), block, buf)
      BY <1>1, <1>4, <2>2, <2>3, FeedPasses
    <3>2. win'.matched = <<>>
      BY <1>2, <3>1, Zenon DEF HasPassed
    <3> QED
      BY <3>2 DEF Cuts
  <2>4. CASE Fired(buf) # {}
    <3>1. HasFired(Feed(win, block, "text", d), block, buf)
      BY <1>1, <1>4, <2>2, <2>4, FeedFires
    <3>2. FirstFired(buf) \in Live /\ Occurs(StopSeqs[FirstFired(buf)], buf)
      BY <2>4, FirstFiredIsLive
    <3>3. StopSeqs[FirstFired(buf)] = Sequence /\ Occurs(Sequence, buf)
      BY <3>2, SequenceType
    <3>4. /\ win'.block = block
          /\ emitted' = emitted \o SubSeq(buf, 1, Find(Sequence, buf) - 1)
      <4>1. Feed(win, block, "text", d).win.block = block
        BY <3>1, Zenon DEF HasFired
      <4>2. Feed(win, block, "text", d).emit
              = SubSeq(buf, 1, Find(StopSeqs[FirstFired(buf)], buf) - 1)
        BY <2>2, <2>4, FeedCuts, Zenon
      <4> QED
        BY <1>2, <3>3, <4>1, <4>2, Zenon
    <3>5. ~Occurs(Sequence, emitted \o t)
      <4>1. PICK k \in Live : StopSeqs[k] = Sequence
        BY SequenceType
      <4> QED
        BY <1>4, <2>2, <4>1 DEF IInv, Quiet
    <3>6. emitted = <<>> \/ Len(t) >= Len(Sequence) - 1
      <4>1. SUFFICES ASSUME emitted # <<>> PROVE Len(t) >= Len(Sequence) - 1
        OBVIOUS
      <4>2. Len(win.tail) = MaxLen - 1 /\ win.block = block
        BY <1>2, <1>4, <4>1 DEF IInv, Full, OneSequence
      <4>3. Len(t) = MaxLen - 1
        BY <1>2, <2>2, <4>2 DEF Withheld
      <4>4. MaxLen \in Nat /\ Len(Sequence) \in Nat
        BY MaxLenNat, SequenceType, TextLen
      <4> QED
        BY <4>3, <4>4, SequenceType
    <3>7. /\ Occurs(Sequence, fed')
          /\ Find(Sequence, fed') = Len(emitted) + Find(Sequence, buf)
      BY <1>1, <2>2, <3>3, <3>5, <3>6, SequenceType, FindShifts
    <3>8. PICK n \in 0 .. Len(buf) : n = Find(Sequence, buf) - 1
      <4>1. Find(Sequence, buf) \in 1 .. Len(buf) /\ Len(buf) \in Nat
        BY <3>3, SequenceType, FindInside, TextLen
      <4> QED
        BY <4>1
    <3>9. emitted' = CutAt(fed')
      <4>1. emitted \o SubSeq(buf, 1, n) = SubSeq(emitted \o buf, 1, Len(emitted) + n)
        BY <1>1, BeginningOfBoth
      <4>2. Len(emitted) + n = Find(Sequence, fed') - 1
        <5>1. Len(emitted) \in Nat /\ Find(Sequence, buf) = n + 1
          BY <1>1, <3>8, <3>3, SequenceType, FindInside, TextLen
        <5> QED
          BY <3>7, <5>1
      <4> QED
        BY <2>2, <3>4, <3>8, <4>1, <4>2 DEF CutAt
    <3> QED
      BY <1>1, <1>2, <3>4, <3>7, <3>9 DEF Cuts
  <2> QED
    BY <2>3, <2>4
<1> QED
  BY <1>3, <1>4

LEMMA CutsExactly ==
  ASSUME OneSequence, IInv, Cuts
  PROVE  ExactCut
<1>1. /\ win \in Windows /\ block \in Nat /\ emitted \in Texts /\ fed \in Texts
      /\ win.tail \in Texts /\ open \in BOOLEAN
  BY DEF IInv, Types, Windows
<1>2. CASE win.matched # <<>>
  BY <1>2 DEF Cuts, ExactCut, Cut, CutAt, Sequence
<1>3. CASE win.matched = <<>>
  <2>1. ~Occurs(Sequence, fed)
    <3>1. PICK k \in Live : StopSeqs[k] = Sequence
      BY SequenceType
    <3> QED
      BY <1>3, <3>1 DEF IInv, Quiet
  <2>2. PICK t \in Texts : t = Withheld /\ fed = emitted \o t
    BY <1>1, <1>3, Empty DEF IInv, NothingLost, Withheld
  <2>3. CASE ~open
    BY <1>1, <1>3, <2>1, <2>2, <2>3, Empty DEF Withheld, ExactCut, Cut, Sequence
  <2>4. CASE open
    <3>1. Len(t) < MaxLen /\ (emitted # <<>> => Len(t) = MaxLen - 1)
      <4>1. Len(win.tail) < MaxLen /\ MaxLen \in Nat \ {0}
        BY MaxLenIsMax DEF IInv, Little, OneSequence
      <4>2. Len(t) < MaxLen
        BY <2>2, <4>1, Empty DEF Withheld
      <4>3. emitted # <<>> => win.block = block /\ Len(win.tail) = MaxLen - 1
        BY <1>3, <2>4 DEF IInv, Full, OneSequence
      <4> QED
        BY <2>2, <2>4, <4>2, <4>3 DEF Withheld
    <3>2. /\ Len(fed) = Len(emitted) + Len(t) /\ Len(emitted) \in Nat /\ Len(t) \in Nat
          /\ MaxLen \in Nat \ {0}
      BY <1>1, <2>2, ConcatText, TextLen, MaxLenIsMax DEF OneSequence
    <3>3. emitted = <<>> <=> Len(emitted) = 0
      BY <1>1, EmptySeq DEF Texts
    <3>4. Split(fed) = Len(emitted)
      BY <3>1, <3>2, <3>3 DEF Split
    <3>5. emitted = SubSeq(fed, 1, Len(emitted))
      <4>1. SubSeq(t, 1, 0) = <<>>
        BY SubSeqProperties DEF Texts
      <4>2. 0 \in 0 .. Len(t)
        BY <3>2
      <4>3. emitted \o SubSeq(t, 1, 0) = SubSeq(emitted \o t, 1, Len(emitted) + 0)
        BY <1>1, <4>2, BeginningOfBoth
      <4>4. Len(emitted) + 0 = Len(emitted)
        BY <3>2
      <4>5. emitted \o <<>> = emitted
        BY <1>1, Empty
      <4> QED
        BY <2>2, <4>1, <4>3, <4>4, <4>5, Zenon
    <3> QED
      BY <1>3, <2>1, <2>4, <3>4, <3>5 DEF ExactCut, Cut, Sequence
  <2> QED
    BY <1>1, <2>3, <2>4
<1> QED
  BY <1>2, <1>3

(* With one stop sequence, for every alphabet, every way of cutting the    *)
(* text into deltas and every number of blocks, what the client has seen   *)
(* of a block is a function of its text alone: the text before the first   *)
(* occurrence, or what Split releases of it, or all of it once the block   *)
(* has closed (StopWindow::feed, take_tail).                               *)
THEOREM CutIsExact == OneSequence => (Spec => []ExactCut)
<1> SUFFICES ASSUME OneSequence PROVE Spec => []ExactCut
  OBVIOUS
<1>1. Init => Cuts
  BY DEF Init, NewWindow, Cuts
<1>2. IInv /\ Cuts /\ [Next]_vars => Cuts'
  <2> SUFFICES ASSUME IInv, Cuts, [Next]_vars PROVE Cuts'
    OBVIOUS
  <2>1. ASSUME NEW d \in Deltas, Delta(d) PROVE Cuts'
    BY <2>1, DeltaCuts
  <2>2. CASE UNCHANGED vars
    BY <2>2 DEF vars, Cuts
  <2> QED
    BY <2>1, <2>2, CloseCuts, OpenCuts DEF Next
<1>3. IInv /\ Cuts => ExactCut
  BY CutsExactly
<1> QED
  BY <1>1, <1>2, <1>3, Inductive, PTL DEF Spec
=============================================================================
