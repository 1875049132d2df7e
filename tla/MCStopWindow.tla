---------------------------- MODULE MCStopWindow ----------------------------
(* Stop sequences and alphabet for the StopWindowStream runs *)
EXTENDS StopWindowStream

CONSTANTS a, b

MCChar == {a, b}

(* Overlaps itself, so a partial match can restart inside a partial match; *)
(* the empty sequence next to it is dropped by StopWindow::new.            *)
OneSeq == << <<>>, <<a, b, a>> >>

(* A short sequence and a long one that do not contain each other *)
TwoSeqs == << <<a, a, b>>, <<b, b>> >>
=============================================================================
