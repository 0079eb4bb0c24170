---------------------------- MODULE AtomicEntity ----------------------------
(***************************************************************************)
(* What ArtifactWriter.write_entity promises of one entity's directory     *)
(* (artifacts/writer.py): it holds one complete version, each write        *)
(* replaces it once or not at all, and a write that fails leaves it alone. *)
(* Versions are numbered in the order their writes begin; 0 is no version. *)
(***************************************************************************)
EXTENDS Naturals

VARIABLES
  value,    \* the version the entity has
  pending,  \* versions being written
  begun     \* writes begun so far

vars == <<value, pending, begun>>

Init == value = 0 /\ pending = {} /\ begun = 0

Begin ==
  /\ begun' = begun + 1 /\ pending' = pending \cup {begun + 1}
  /\ UNCHANGED value

Commit(v) == value' = v /\ pending' = pending \ {v} /\ UNCHANGED begun

Fail(v) == pending' = pending \ {v} /\ UNCHANGED <<value, begun>>

Next == Begin \/ \E v \in pending : Commit(v) \/ Fail(v)

Spec == Init /\ [][Next]_vars
=============================================================================
