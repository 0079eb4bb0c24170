---------------------------- MODULE MCSessionLog ----------------------------
(* Values of SessionLog's constants for the model checker.                 *)
EXTENDS SessionLog, TLC

CONSTANTS w1, w2

\* One session saves as it goes, the other when it is told to.
TwoWriters == {w1, w2}
TwoAutoSave == (w1 :> TRUE) @@ (w2 :> FALSE)
=============================================================================
