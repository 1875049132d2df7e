--------------------------- MODULE BlockingBridge ---------------------------
(***************************************************************************)
(* The blocking client (client_sync.rs): a background thread with a        *)
(* runtime of its own pumps the async chunk stream into a bounded channel, *)
(* the caller's thread iterates over the other end.  Items are numbered in *)
(* the order the stream yields them; 0 is the error item of a runtime that *)
(* could not be built.                                                     *)
(***************************************************************************)
EXTENDS Integers, Sequences, TLAPS

CONSTANTS CHUNK_FEED,  \* capacity of the channel
          MaxItems     \* bound on the items of the stream

ASSUME CapacityAssumption == CHUNK_FEED \in Nat \ {0} /\ MaxItems \in Nat

VARIABLES thread,    \* the pump: "starting", "awaiting", "sending", "gone"
          yielded,   \* how many items the stream has yielded
          queue,     \* the channel
          iterator,  \* the caller: "idle", "blocked" in next, "exhausted", "dropped"
          got        \* history: what next has returned

vars == <<thread, yielded, queue, iterator, got>>

BuildError == 0

Init ==
  /\ thread = "starting"
  /\ yielded = 0
  /\ queue = <<>>
  /\ iterator = "idle"
  /\ got = <<>>

(* The pump *)

Build ==
  /\ thread = "starting"
  /\ thread' = "awaiting"
  /\ UNCHANGED <<yielded, queue, iterator, got>>

(* The error is sent by try_send, and lost if the iterator is gone *)
BuildFails ==
  /\ thread = "starting"
  /\ thread' = "gone"
  /\ queue' = IF iterator = "dropped" THEN queue ELSE Append(queue, BuildError)
  /\ UNCHANGED <<yielded, iterator, got>>

(* s.next() is ready: an item, or the end of the stream *)
Yield ==
  /\ thread = "awaiting"
  /\ yielded < MaxItems
  /\ yielded' = yielded + 1
  /\ thread' = "sending"
  /\ UNCHANGED <<queue, iterator, got>>

Exhaust ==
  /\ thread = "awaiting"
  /\ thread' = "gone"
  /\ UNCHANGED <<yielded, queue, iterator, got>>

(* Mutant: the channel is not bounded *)
Send_unbounded ==
  /\ thread = "sending"
  /\ iterator # "dropped"
  /\ queue' = Append(queue, yielded)
  /\ thread' = "awaiting"
  /\ UNCHANGED <<yielded, iterator, got>>

(* Mutant: a full channel loses the item *)
Send_lossy ==
  /\ thread = "sending"
  /\ iterator # "dropped"
  /\ queue' = IF Len(queue) < CHUNK_FEED THEN Append(queue, yielded) ELSE queue
  /\ thread' = "awaiting"
  /\ UNCHANGED <<yielded, iterator, got>>

(* tx.send waits for room *)
Send ==
  /\ thread = "sending"
  /\ iterator # "dropped"
  /\ Len(queue) < CHUNK_FEED
  /\ queue' = Append(queue, yielded)
  /\ thread' = "awaiting"
  /\ UNCHANGED <<yielded, iterator, got>>

(* Mutant: a failed send is ignored and the thread waits on *)
SendFails_ignored ==
  /\ thread = "sending"
  /\ iterator = "dropped"
  /\ UNCHANGED vars

(* tx.send fails once the iterator is dropped: the thread returns, and with *)
(* the stream the HTTP response is dropped.                                *)
SendFails ==
  /\ thread = "sending"
  /\ iterator = "dropped"
  /\ thread' = "gone"
  /\ UNCHANGED <<yielded, queue, iterator, got>>

(* The iterator *)

Next_call ==
  /\ iterator = "idle"
  /\ iterator' = "blocked"
  /\ UNCHANGED <<thread, yielded, queue, got>>

Next_some ==
  /\ iterator = "blocked"
  /\ queue # <<>>
  /\ got' = Append(got, Head(queue))
  /\ queue' = Tail(queue)
  /\ iterator' = "idle"
  /\ UNCHANGED <<thread, yielded>>

(* Mutant: a closed channel is not drained *)
Next_none_hasty ==
  /\ iterator = "blocked"
  /\ thread = "gone"
  /\ iterator' = "exhausted"
  /\ UNCHANGED <<thread, yielded, queue, got>>

(* Mutant: the close of the channel is not noticed *)
Next_none_never == FALSE /\ UNCHANGED vars

(* recv fails when the channel is closed and drained *)
Next_none ==
  /\ iterator = "blocked"
  /\ queue = <<>>
  /\ thread = "gone"
  /\ iterator' = "exhausted"
  /\ UNCHANGED <<thread, yielded, queue, got>>

(* What is still in the channel goes with it *)
Drop ==
  /\ iterator \in {"idle", "exhausted"}
  /\ iterator' = "dropped"
  /\ queue' = <<>>
  /\ UNCHANGED <<thread, yielded, got>>

Pump == Build \/ BuildFails \/ Send \/ SendFails
Iterate == Next_some \/ Next_none

Next == Pump \/ Yield \/ Exhaust \/ Next_call \/ Iterate \/ Drop

(* The two threads run; whether the upstream ever speaks again is its own  *)
(* business, the client sets no timeout.                                   *)
Spec == Init /\ [][Next]_vars /\ WF_vars(Pump) /\ WF_vars(Iterate)

(* An upstream that goes on speaking until it ends *)
LiveSpec == Spec /\ WF_vars(Yield \/ Exhaust)

-----------------------------------------------------------------------------
InFlight == IF thread = "sending" THEN <<yielded>> ELSE <<>>

(* A slow caller holds the upstream back: never are more items read from   *)
(* the socket than the caller took, plus the channel, plus the one the     *)
(* pump is holding (client_sync.rs:7: "pays backpressure onto the socket   *)
(* instead of buffering the whole stream in memory").                      *)
Backpressure == iterator # "dropped" => yielded - Len(got) <= CHUNK_FEED + 1

(* Nothing is lost, repeated or reordered between the two threads: what    *)
(* the caller got, what is queued and what the pump holds are the items of *)
(* the stream, in wire order (BlockingChunks).                             *)
InWireOrder ==
  LET items == got \o queue \o InFlight
  IN  iterator # "dropped" =>
        items = <<BuildError>> \/ items = [k \in 1 .. yielded |-> k]

(* None means the end: by then the caller has had every item, or the error *)
(* of the runtime (next).                                                  *)
NoneIsTheEnd ==
  iterator = "exhausted" =>
    /\ thread = "gone" /\ queue = <<>>
    /\ got = <<BuildError>> \/ Len(got) = yielded

(* A call of next returns, provided the upstream goes on speaking: neither *)
(* a full nor a closed channel leaves the two threads waiting for each     *)
(* other (next, stream_blocking).                                          *)
NextReturns == iterator = "blocked" ~> iterator # "blocked"

(* The HTTP request of a dropped iterator is aborted (client_sync.rs:25:   *)
(* "when the iterator is dropped the channel closes and the pump's send    *)
(* fails, aborting the HTTP request").                                     *)
DropAborts == iterator = "dropped" ~> thread = "gone"

-----------------------------------------------------------------------------
(* The hand-over between the two threads, for every capacity of the        *)
(* channel and every length of the stream                                  *)
TypeInv ==
  /\ thread \in {"starting", "awaiting", "sending", "gone"}
  /\ iterator \in {"idle", "blocked", "exhausted", "dropped"}
  /\ yielded \in Nat
  /\ queue \in Seq(Nat)
  /\ got \in Seq(Nat)

Held == IF thread = "sending" THEN 1 ELSE 0

(* The runtime came up: the caller's items, then the channel's, then the   *)
(* one the pump holds count up to the last item the stream has yielded.    *)
Counted ==
  /\ Len(got) + Len(queue) + Held = yielded
  /\ Len(queue) <= CHUNK_FEED
  /\ \A k \in 1 .. Len(got) : got[k] = k
  /\ \A k \in 1 .. Len(queue) : queue[k] = Len(got) + k

(* It did not: its error is all there is *)
Unbuilt ==
  /\ thread = "gone"
  /\ yielded = 0
  /\ Len(got) + Len(queue) = 1
  /\ \A k \in 1 .. Len(got) : got[k] = BuildError
  /\ \A k \in 1 .. Len(queue) : queue[k] = BuildError

Fresh ==
  thread = "starting" /\ iterator # "dropped" => yielded = 0 /\ got = <<>> /\ queue = <<>>

Closed == iterator = "exhausted" => thread = "gone" /\ queue = <<>>

IInv ==
  /\ TypeInv
  /\ Fresh
  /\ Closed
  /\ iterator # "dropped" => Counted \/ Unbuilt

-----------------------------------------------------------------------------
LEMMA InitIInv == Init => IInv
  BY CapacityAssumption
  DEF Init, IInv, TypeInv, Fresh, Closed, Counted, Held

(* The invariant is inductive: only Send, Next_some, BuildFails and Drop   *)
(* touch the channel.                                                      *)
LEMMA NextIInv == IInv /\ [Next]_vars => IInv'
<1> SUFFICES ASSUME IInv, [Next]_vars PROVE IInv'
  OBVIOUS
<1> USE CapacityAssumption DEF IInv, TypeInv, Fresh, Closed
<1>1. CASE UNCHANGED vars
  BY <1>1 DEF vars, Counted, Unbuilt, Held
<1>2. CASE Build
  BY <1>2 DEF Build, Counted, Unbuilt, Held
<1>3. CASE BuildFails
  <2>1. CASE iterator = "dropped"
    BY <1>3, <2>1 DEF BuildFails
  <2>2. CASE iterator # "dropped"
    <3>1. queue' = <<0>> /\ got' = <<>> /\ yielded' = 0 /\ thread' = "gone"
      BY <1>3, <2>2 DEF BuildFails, BuildError
    <3>2. Unbuilt'
      BY <3>1 DEF Unbuilt, BuildError
    <3> QED
      BY <1>3, <2>2, <3>1, <3>2 DEF BuildFails
  <2> QED
    BY <2>1, <2>2
<1>4. CASE Yield
  BY <1>4 DEF Yield, Counted, Unbuilt, Held
<1>5. CASE Exhaust
  BY <1>5 DEF Exhaust, Counted, Unbuilt, Held
<1>6. CASE Send
  <2>1. Counted
    BY <1>6 DEF Send, Unbuilt
  <2>2. /\ queue' = Append(queue, yielded) /\ Len(queue') = Len(queue) + 1
        /\ \A k \in 1 .. Len(queue) : queue'[k] = queue[k]
        /\ queue'[Len(queue) + 1] = yielded
    BY <1>6 DEF Send
  <2>3. yielded = Len(got) + Len(queue) + 1
    BY <1>6, <2>1 DEF Send, Counted, Held
  <2>4. Counted'
    BY <1>6, <2>1, <2>2, <2>3 DEF Send, Counted, Held
  <2> QED
    BY <1>6, <2>4 DEF Send
<1>7. CASE SendFails
  BY <1>7 DEF SendFails
<1>8. CASE Next_call
  BY <1>8 DEF Next_call, Counted, Unbuilt, Held
<1>9. CASE Next_some
  <2>1. /\ Len(queue) >= 1 /\ Head(queue) = queue[1] /\ Head(queue) \in Nat
        /\ queue' \in Seq(Nat) /\ Len(queue') = Len(queue) - 1
        /\ \A k \in 1 .. Len(queue') : queue'[k] = queue[k + 1]
    BY <1>9 DEF Next_some
  <2>2. /\ got' \in Seq(Nat) /\ Len(got') = Len(got) + 1
        /\ \A k \in 1 .. Len(got) : got'[k] = got[k]
        /\ got'[Len(got) + 1] = queue[1]
    BY <1>9, <2>1 DEF Next_some
  <2>3. ASSUME Counted PROVE Counted'
    <3>1. thread' = thread /\ yielded' = yielded
      BY <1>9 DEF Next_some
    <3>2. queue[1] = Len(got) + 1
      BY <2>1, <2>3 DEF Counted
    <3> HIDE DEF IInv, TypeInv, Fresh, Closed
    <3>3. Len(got) \in Nat /\ Len(queue) \in Nat /\ Held \in Nat /\ Held' = Held
      BY <3>1 DEF IInv, TypeInv, Held
    <3>4. Len(got') + Len(queue') + Held' = yielded' /\ Len(queue') <= CHUNK_FEED
      BY <2>1, <2>2, <2>3, <3>1, <3>3 DEF Counted
    <3>5. ASSUME NEW k \in 1 .. Len(got') PROVE got'[k] = k
      <4>1. k \in 1 .. Len(got) \/ k = Len(got) + 1
        BY <2>2, <3>3
      <4> QED
        BY <2>2, <2>3, <3>2, <4>1 DEF Counted
    <3>6. ASSUME NEW k \in 1 .. Len(queue') PROVE queue'[k] = Len(got') + k
      <4>1. k + 1 \in 1 .. Len(queue)
        BY <2>1, <3>3
      <4> QED
        BY <2>1, <2>2, <2>3, <3>3, <4>1 DEF Counted
    <3> QED
      BY <3>4, <3>5, <3>6 DEF Counted
  <2>4. Unbuilt => Unbuilt'
    BY <1>9, <2>1, <2>2 DEF Next_some, Unbuilt
  <2>5. TypeInv'
    BY <1>9, <2>1, <2>2 DEF Next_some
  <2>6. Fresh' /\ Closed'
    BY <1>9 DEF Next_some
  <2> QED
    BY <1>9, <2>3, <2>4, <2>5, <2>6 DEF Next_some
<1>10. CASE Next_none
  BY <1>10 DEF Next_none, Counted, Unbuilt, Held
<1>11. CASE Drop
  BY <1>11 DEF Drop
<1> QED
  BY <1>1, <1>2, <1>3, <1>4, <1>5, <1>6, <1>7, <1>8, <1>9, <1>10, <1>11
  DEF Next, Pump, Iterate

THEOREM Inductive == Spec => []IInv
<1>1. Init => IInv
  BY InitIInv
<1>2. IInv /\ [Next]_vars => IInv'
  BY NextIInv
<1> QED
  BY <1>1, <1>2, PTL DEF Spec

-----------------------------------------------------------------------------
(* No more items are in flight than the channel holds, and one *)
LEMMA IInvBackpressure == IInv => Backpressure
  BY CapacityAssumption
  DEF IInv, TypeInv, Counted, Unbuilt, Held, Backpressure

(* For every capacity of the channel the upstream is held back by a slow   *)
(* caller (stream_blocking).                                               *)
THEOREM HeldBack == Spec => []Backpressure
  BY Inductive, IInvBackpressure, PTL

LEMMA IInvNoneIsTheEnd == IInv => NoneIsTheEnd
<1> SUFFICES ASSUME IInv, iterator = "exhausted"
             PROVE  /\ thread = "gone" /\ queue = <<>>
                    /\ got = <<BuildError>> \/ Len(got) = yielded
  BY DEF NoneIsTheEnd
<1>1. thread = "gone" /\ queue = <<>>
  BY DEF IInv, Closed
<1>2. CASE Counted
  BY <1>1, <1>2 DEF IInv, TypeInv, Counted, Held
<1>3. CASE Unbuilt
  BY <1>1, <1>3 DEF IInv, TypeInv, Unbuilt
<1> QED
  BY <1>1, <1>2, <1>3 DEF IInv

(* A caller that is told None has had every item of the stream (next) *)
THEOREM EndIsTrue == Spec => []NoneIsTheEnd
  BY Inductive, IInvNoneIsTheEnd, PTL

LEMMA IInvInWireOrder == IInv => InWireOrder
<1> DEFINE items == got \o queue \o InFlight
<1> SUFFICES ASSUME IInv, iterator # "dropped"
             PROVE  items = <<BuildError>> \/ items = [k \in 1 .. yielded |-> k]
  BY DEF InWireOrder
<1>1. /\ InFlight \in Seq(Nat) /\ Len(InFlight) = Held
      /\ \A k \in 1 .. Held : InFlight[k] = yielded
  BY DEF IInv, TypeInv, InFlight, Held
<1>2. /\ items \in Seq(Nat) /\ Len(items) = Len(got) + Len(queue) + Len(InFlight)
      /\ \A k \in 1 .. Len(items) :
           items[k] = IF k <= Len(got) THEN got[k]
                      ELSE IF k <= Len(got) + Len(queue) THEN queue[k - Len(got)]
                      ELSE InFlight[k - Len(got) - Len(queue)]
  <2> DEFINE both == got \o queue
  <2>1. /\ both \in Seq(Nat) /\ Len(both) = Len(got) + Len(queue)
        /\ \A k \in 1 .. Len(both) :
             both[k] = IF k <= Len(got) THEN got[k] ELSE queue[k - Len(got)]
    BY DEF IInv, TypeInv
  <2> HIDE DEF both
  <2> HIDE DEF IInv
  <2> DEFINE last == InFlight
  <2>0. last \in Seq(Nat) /\ both \in Seq(Nat)
    BY <1>1, <2>1
  <2> HIDE DEF last
  <2>2. /\ both \o last \in Seq(Nat)
        /\ Len(both \o last) = Len(both) + Len(last)
        /\ \A k \in 1 .. Len(both) + Len(last) :
             (both \o last)[k] = IF k <= Len(both) THEN both[k]
                                 ELSE last[k - Len(both)]
    BY <2>0
  <2> USE DEF last
  <2>3. items = both \o InFlight
    BY DEF both
  <2>4. Len(got) \in Nat /\ Len(queue) \in Nat /\ Len(InFlight) \in Nat
    BY <1>1 DEF IInv, TypeInv
  <2> HIDE DEF items
  <2>5. /\ items \in Seq(Nat) /\ Len(items) = Len(got) + Len(queue) + Len(InFlight)
    BY <2>1, <2>2, <2>3
  <2>6. ASSUME NEW k \in 1 .. Len(items)
        PROVE  items[k] = IF k <= Len(got) THEN got[k]
                          ELSE IF k <= Len(got) + Len(queue) THEN queue[k - Len(got)]
                          ELSE InFlight[k - Len(got) - Len(queue)]
    BY <2>1, <2>2, <2>3, <2>4, <2>5, SMTT(30)
  <2> QED
    BY <2>5, <2>6
<1> HIDE DEF items
<1>3. CASE Counted
  <2>1. Len(items) = yielded
    BY <1>1, <1>2, <1>3 DEF Counted
  <2>2. ASSUME NEW k \in 1 .. yielded PROVE items[k] = k
    <3>1. /\ Len(got) \in Nat /\ Len(queue) \in Nat /\ Held \in {0, 1}
          /\ Len(got) + Len(queue) + Held = yielded
      BY <1>3 DEF IInv, TypeInv, Held, Counted
    <3>2. items[k] = IF k <= Len(got) THEN got[k]
                     ELSE IF k <= Len(got) + Len(queue) THEN queue[k - Len(got)]
                     ELSE InFlight[k - Len(got) - Len(queue)]
      BY <1>2, <2>1
    <3>3. CASE k <= Len(got)
      BY <1>3, <3>1, <3>2, <3>3 DEF Counted
    <3>4. CASE Len(got) < k /\ k <= Len(got) + Len(queue)
      <4>1. k - Len(got) \in 1 .. Len(queue)
        BY <3>1, <3>4
      <4>2. queue[k - Len(got)] = Len(got) + (k - Len(got))
        BY <1>3, <4>1 DEF Counted
      <4> QED
        BY <3>1, <3>2, <3>4, <4>2
    <3>5. CASE Len(got) + Len(queue) < k
      <4>1. k = yielded /\ Held = 1 /\ k - Len(got) - Len(queue) = 1
        BY <3>1, <3>5
      <4> QED
        BY <1>1, <3>1, <3>2, <3>5, <4>1
    <3> QED
      BY <3>1, <3>3, <3>4, <3>5
  <2> QED
    BY <1>2, <2>1, <2>2 DEF IInv, TypeInv
<1>4. CASE Unbuilt
  BY <1>1, <1>2, <1>4 DEF Unbuilt, IInv, TypeInv, Held
<1> QED
  BY <1>3, <1>4 DEF IInv

(* The caller gets the items of the stream in wire order, none twice and   *)
(* none left out, for every interleaving of the two threads.               *)
THEOREM WireOrder == Spec => []InWireOrder
  BY Inductive, IInvInWireOrder, PTL
=============================================================================
