---------------------------- MODULE MCMapReduce ----------------------------
(* Values of MapReduce's constants for the model checker.                  *)
EXTENDS MapReduce, TLC

CONSTANTS x, y, z

PageOf(text, chars) == [text |-> text, chars |-> chars]

\* Three windows, the last of two pages, with a blank page between; and a
\* document that shares a window's text with it.
TwoDocs ==
  ("a" :> <<PageOf("p", 3), PageOf("q", 9), PageOf("", 0), PageOf("r", 2), PageOf("s", 2)>>) @@
  ("b" :> <<PageOf("q", 9)>>)

SomeAnswers == {{x}, {y, z}}
=============================================================================
