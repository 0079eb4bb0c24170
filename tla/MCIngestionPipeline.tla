------------------------ MODULE MCIngestionPipeline ------------------------
(* Values of IngestionPipeline's constants for the model checker.          *)
EXTENDS IngestionPipeline

\* Sources 2 and 3 name one entity; 1 and 3 share a file name's stem.
SharedEntity == <<"a", "b", "b">>
SharedStem == <<"x", "y", "x">>
OwnEntity == <<"a", "b", "c">>
OwnLetter == <<"x", "y", "z">>
=============================================================================
