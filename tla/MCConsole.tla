----------------------------- MODULE MCConsole -----------------------------
(* Console for the model checker: its constants are plain numbers.         *)
EXTENDS Console
=============================================================================
