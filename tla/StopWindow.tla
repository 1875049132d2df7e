----------------------------- MODULE StopWindow -----------------------------
(***************************************************************************)
(* The sliding window that withholds a client stop sequence from the       *)
(* Anthropic stream (StopWindow in dialect/anthropic/stream.rs).  The      *)
(* module is pure: a window is a record, feed and take_tail return the     *)
(* next window together with the text they hand to the caller.             *)
(*                                                                         *)
(* When no stop sequence is usable there is no window (stop_window = None, *)
(* HasWindow is FALSE) and the caller forwards text untouched.             *)
(***************************************************************************)
EXTENDS Canonical

CONSTANT StopSeqs   \* the request's stop_sequences, in request order

ASSUME StopSeqsAssumption == StopSeqs \in Seq(Seq(Char))

NoBlock == -1

(* StopWindow::new drops empty sequences and returns None when none is left *)
Live == {k \in DOMAIN StopSeqs : StopSeqs[k] # <<>>}

HasWindow == Live # {}

MaxLen ==
  IF HasWindow
  THEN CHOOSE n \in {Len(StopSeqs[k]) : k \in Live} :
         \A k \in Live : Len(StopSeqs[k]) <= n
  ELSE 0

(* matched is empty until a sequence has fired *)
Windows == [tail : Texts, block : Nat \cup {NoBlock},
            kind : {"none", "text", "thinking"}, matched : Texts]

NewWindow == [tail |-> <<>>, block |-> NoBlock, kind |-> "none", matched |-> <<>>]

OccursAt(s, buf, p) ==
  /\ p + Len(s) - 1 <= Len(buf)
  /\ SubSeq(buf, p, p + Len(s) - 1) = s

Occurs(s, buf) == \E p \in 1 .. Len(buf) : OccursAt(s, buf, p)

(* str::find: the leftmost occurrence *)
Find(s, buf) ==
  CHOOSE p \in 1 .. Len(buf) :
    /\ OccursAt(s, buf, p)
    /\ \A q \in 1 .. Len(buf) : OccursAt(s, buf, q) => p <= q

(* Only the first sequence of the list that occurs is looked at, wherever  *)
(* in the buffer the others may occur.                                     *)
Fired(buf) == {k \in Live : Occurs(StopSeqs[k], buf)}

FirstFired(buf) == CHOOSE k \in Fired(buf) : \A j \in Fired(buf) : k <= j

(* Mutants: one character too many, or too few, is withheld *)
Split_wide(buf) == IF Len(buf) <= MaxLen THEN 0 ELSE Len(buf) - MaxLen

Split_narrow(buf) ==
  IF MaxLen < 2 \/ Len(buf) <= MaxLen - 2 THEN 0 ELSE Len(buf) - (MaxLen - 2)

(* How many leading characters of the buffer can be released: all but the  *)
(* last MaxLen - 1.                                                        *)
Split(buf) ==
  LET keep == IF MaxLen = 0 THEN 0 ELSE MaxLen - 1
  IN  IF Len(buf) <= keep THEN 0 ELSE Len(buf) - keep

(* The caller has flushed the previous block before the index changes *)
Retarget(w, idx, kind) ==
  IF w.block = idx THEN w
  ELSE [w EXCEPT !.block = idx, !.kind = kind, !.tail = <<>>]

(* Mutant: the withheld tail is not put before the incoming text *)
Feed_forgetful(w, idx, kind, incoming) ==
  IF w.matched # <<>> THEN [win |-> w, emit |-> <<>>]
  ELSE LET v == Retarget(w, idx, kind)
       IN  IF Fired(incoming) # {}
           THEN LET s == StopSeqs[FirstFired(incoming)]
                IN  [win  |-> [v EXCEPT !.tail = <<>>, !.matched = s],
                     emit |-> SubSeq(incoming, 1, Find(s, incoming) - 1)]
           ELSE [win |-> v, emit |-> incoming]

Feed(w, idx, kind, incoming) ==
  IF w.matched # <<>>
  THEN [win |-> w, emit |-> <<>>]
  ELSE LET v   == Retarget(w, idx, kind)
           buf == v.tail \o incoming
       IN  IF Fired(buf) # {}
           THEN LET s == StopSeqs[FirstFired(buf)]
                IN  [win  |-> [v EXCEPT !.tail = <<>>, !.matched = s],
                     emit |-> SubSeq(buf, 1, Find(s, buf) - 1)]
           ELSE [win  |-> [v EXCEPT !.tail = SubSeq(buf, Split(buf) + 1, Len(buf))],
                 emit |-> SubSeq(buf, 1, Split(buf))]

HasTail(w) == w.block # NoBlock /\ w.tail # <<>>

TakeTail(w) == [w EXCEPT !.tail = <<>>]

=============================================================================
