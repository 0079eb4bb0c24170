-------------------------- MODULE MCArtifactWriter --------------------------
(* Values of ArtifactWriter's constants for the model checker.             *)
EXTENDS ArtifactWriter, TLC

CONSTANTS w1, w2

OneWriter == {w1}
TwoWriters == {w1, w2}
Alike == Permutations(TwoWriters)
=============================================================================
