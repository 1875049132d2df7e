----------------------------- MODULE TurnStream -----------------------------
(***************************************************************************)
(* What every streamed response promises its client, whatever the dialect: *)
(* the stream speaks for a while, ends with one terminal (a completion or  *)
(* an in-band error) that nothing follows, and only then is the body       *)
(* closed.  A stream whose upstream never said anything may close mute.    *)
(* The framers of the three surfaces are shown to implement it.            *)
(***************************************************************************)
VARIABLES said,   \* how far the stream has come, as its client can tell
          body    \* whether the response body is still being written

turn == <<said, body>>

TypeOK ==
  /\ said \in {"nothing", "speaking", "complete", "failed"}
  /\ body \in {"open", "closed"}

Init == said = "nothing" /\ body = "open"

Unfinished == said \in {"nothing", "speaking"}

Speak ==
  /\ body = "open"
  /\ Unfinished
  /\ said' = "speaking"
  /\ UNCHANGED body

Complete ==
  /\ body = "open"
  /\ Unfinished
  /\ said' = "complete"
  /\ UNCHANGED body

Fail ==
  /\ body = "open"
  /\ Unfinished
  /\ said' = "failed"
  /\ UNCHANGED body

(* The finalizer completes a turn the upstream left open, and may complete *)
(* one it never began.                                                     *)
Close ==
  /\ body = "open"
  /\ body' = "closed"
  /\ \/ said # "speaking" /\ said' = said
     \/ Unfinished /\ said' = "complete"

Next == Speak \/ Complete \/ Fail \/ Close

(* What may happen, without the promise that the body closes *)
Safety == Init /\ [][Next]_turn

Spec == Safety /\ WF_turn(Close)
=============================================================================
