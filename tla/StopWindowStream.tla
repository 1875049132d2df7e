-------------------------- MODULE StopWindowStream --------------------------
(***************************************************************************)
(* One stop window at work on one stream: the upstream feeds the open      *)
(* content block deltas of every size, the block closes, the next one      *)
(* opens.  fed and emitted are histories of the current block: what the    *)
(* upstream sent into it and what the window let the client see.           *)
(***************************************************************************)
EXTENDS StopWindow, SequencesExt

CONSTANTS MaxDelta,   \* longest delta the upstream sends
          MaxFed,     \* bound on the characters of one block
          MaxBlocks   \* bound on the blocks of a stream

ASSUME BoundsAssumption == {MaxDelta, MaxFed, MaxBlocks} \subseteq Nat

VARIABLES win,      \* the window
          block,    \* index of the current block
          open,     \* whether it is still open
          fed, emitted

vars == <<win, block, open, fed, emitted>>

Deltas == UNION {[1 .. n -> Char] : n \in 1 .. MaxDelta}

Init ==
  /\ win = NewWindow
  /\ block = 0
  /\ open = TRUE
  /\ fed = <<>>
  /\ emitted = <<>>

(* A text delta of the open block passes through feed *)
Delta(d) ==
  /\ open
  /\ Len(fed) + Len(d) <= MaxFed
  /\ LET r == Feed(win, block, "text", d)
     IN  /\ win' = r.win
         /\ emitted' = emitted \o r.emit
  /\ fed' = fed \o d
  /\ UNCHANGED <<block, open>>

(* Mutant: the block closes without surrendering the tail *)
Close_dropping ==
  /\ open
  /\ open' = FALSE
  /\ UNCHANGED <<win, block, fed, emitted>>

(* The block closes: the tail it withheld is surrendered into it first *)
Close ==
  /\ open
  /\ open' = FALSE
  /\ emitted' = IF HasTail(win) THEN emitted \o win.tail ELSE emitted
  /\ win' = IF HasTail(win) THEN TakeTail(win) ELSE win
  /\ UNCHANGED <<block, fed>>

(* The next block opens; the window learns of it with its first delta *)
Open ==
  /\ ~open
  /\ block + 1 < MaxBlocks
  /\ block' = block + 1
  /\ open' = TRUE
  /\ fed' = <<>>
  /\ emitted' = <<>>
  /\ UNCHANGED win

Next == (\E d \in Deltas : Delta(d)) \/ Close \/ Open

Spec == Init /\ [][Next]_vars

-----------------------------------------------------------------------------
(* The window is well formed and withholds no more than MaxLen - 1         *)
(* characters, and none once a sequence has fired.                         *)
TypeOK ==
  /\ win \in [tail : BoundedSeq(Char, MaxFed), block : -1 .. MaxBlocks,
              kind : {"none", "text"}, matched : {<<>>} \cup ToSet(StopSeqs)]
  /\ Len(win.tail) < (IF HasWindow THEN MaxLen ELSE 1)
  /\ win.matched # <<>> => win.tail = <<>>
  /\ {fed, emitted} \subseteq Texts

Withheld == IF open /\ win.block = block THEN win.tail ELSE <<>>

(* As long as no sequence has fired, the window neither loses, reorders    *)
(* nor invents text: what the client has seen of a block, followed by what *)
(* is withheld, is what the upstream sent, and a closed block was shown    *)
(* whole (feed, take_tail, flush_stop_tail).                               *)
NothingLost == win.matched = <<>> => emitted \o Withheld = fed

(* While no sequence has fired, none is in what the client saw, however    *)
(* the upstream cut the text into deltas.                                  *)
NoLeakBeforeFiring ==
  win.matched = <<>> => \A k \in Live : ~Occurs(StopSeqs[k], emitted \o Withheld)

(* What a client sees is always the beginning of what the upstream said *)
ShownIsPrefix == IsPrefix(emitted, fed)

(* With one stop sequence the window is exact: what the client has seen of *)
(* the block is a function of the text alone, never of its division into   *)
(* deltas, namely the text before the leftmost occurrence, or all of it    *)
(* but the last MaxLen - 1 characters, or all of it once the block closed. *)
Cut(text) ==
  LET s == StopSeqs[CHOOSE k \in Live : TRUE]
  IN  IF Occurs(s, text) THEN SubSeq(text, 1, Find(s, text) - 1)
      ELSE IF open THEN SubSeq(text, 1, Split(text)) ELSE text

ExactCut ==
  IF win.matched # <<>> /\ win.block # block
  THEN emitted = <<>>
  ELSE emitted = Cut(fed)

(* The struct's own comment (anthropic/stream.rs:18): the window           *)
(* recognises a client stop sequence inside the streamed text and keeps it *)
(* from reaching the client.                                               *)
NeverShown == \A k \in Live : ~Occurs(StopSeqs[k], emitted)
=============================================================================
