-------------------------- MODULE MCSessionCatalog --------------------------
(* Values of SessionCatalog's constants for the model checker.             *)
EXTENDS SessionViews

CONSTANTS repl, cmd

OneHost == {repl}
OneCommand == {cmd}

(* The one id begins with the other.                                       *)
Names == <<<<"a">>, <<"a", "b">>>>
=============================================================================
