--------------------------- MODULE ArtifactWriter ---------------------------
(***************************************************************************)
(* ArtifactWriter.write_entity of artifacts/writer.py: the staging, trash  *)
(* and rename protocol by which a new version of one entity's directory    *)
(* replaces the old one.                                                   *)
(*                                                                         *)
(* The ingestion pipeline runs write_entity in a thread per source, and    *)
(* nothing keeps two sources, or two processes, from writing the same      *)
(* entity: a step here is one system call, and the writers' steps          *)
(* interleave.  A rename onto an existing directory fails, since a version *)
(* always holds its manifest (external: rename(2) through pathlib).        *)
(*                                                                         *)
(* The siblings no action uses (NeverRestore, ...) are forms a plausible   *)
(* bug would give a definition, for checking the properties.               *)
(***************************************************************************)
EXTENDS Naturals

CONSTANTS
  Writers,    \* calls of write_entity that may be under way at once
  Faults,     \* "stage": staging fails; "rename": a rename fails;
              \* "restore": so does the one that restores; "crash"
  MaxWrites   \* bound of the model: calls of write_entity

ASSUME ArtifactAssumption ==
  /\ Faults \subseteq {"stage", "rename", "restore", "crash"}
  /\ MaxWrites \in Nat

VARIABLES
  dest,      \* the version in the entity's directory, 0 when it is absent
  pc,        \* where each writer is
  version,   \* the version each writer writes
  staging,   \* its staging directory: "none", "partial" or "full"
  trash,     \* the version it moved aside, 0 when there is none
  writes,    \* calls so far
  litter,    \* versions left in .trash for good
  latest,    \* the version promoted last
  raised     \* versions whose call raised

local == <<pc, version, staging, trash>>
vars == <<dest, pc, version, staging, trash, writes, litter, latest, raised>>

Init ==
  /\ dest = 0 /\ writes = 0 /\ litter = {} /\ latest = 0 /\ raised = {}
  /\ pc = [w \in Writers |-> "idle"]
  /\ version = [w \in Writers |-> 0]
  /\ staging = [w \in Writers |-> "none"]
  /\ trash = [w \in Writers |-> 0]

Move(w, place) == pc' = [pc EXCEPT ![w] = place]
Stage(w, content) == staging' = [staging EXCEPT ![w] = content]

(* The call returns or raises.                                             *)
Leave(w) ==
  /\ pc' = [pc EXCEPT ![w] = "idle"]
  /\ version' = [version EXCEPT ![w] = 0]
  /\ trash' = [trash EXCEPT ![w] = 0]

(* The arguments are validated; the staging directory is made.             *)
BeginAt(w, place) ==
  /\ pc[w] = "idle" /\ writes < MaxWrites
  /\ writes' = writes + 1
  /\ version' = [version EXCEPT ![w] = writes + 1]
  /\ Stage(w, "partial") /\ Move(w, place)
  /\ UNCHANGED <<dest, trash, litter, latest, raised>>
Begin(w) == BeginAt(w, "staging")

(* Every file and the manifest are written.                                *)
WriteFiles(w) ==
  /\ pc[w] = "staging"
  /\ Stage(w, "full") /\ Move(w, "staged")
  /\ UNCHANGED <<dest, version, trash, writes, litter, latest, raised>>

(* dest.exists()                                                           *)
FindDest(w) ==
  /\ pc[w] = "staged"
  /\ Move(w, IF dest # 0 THEN "moving" ELSE "promoting")
  /\ UNCHANGED <<dest, version, staging, trash, writes, litter, latest, raised>>

MoveAside(w) ==
  /\ pc[w] = "moving" /\ dest # 0
  /\ trash' = [trash EXCEPT ![w] = dest] /\ dest' = 0
  /\ Move(w, "promoting")
  /\ UNCHANGED <<version, staging, writes, litter, latest, raised>>

Promote(w) ==
  /\ pc[w] = "promoting" /\ dest = 0
  /\ dest' = version[w] /\ latest' = version[w]
  /\ Stage(w, "none") /\ Move(w, "cleaning")
  /\ UNCHANGED <<version, trash, writes, litter, raised>>

(* The old version is dropped and the call returns.                        *)
DropTrash(w) ==
  /\ pc[w] = "cleaning" /\ Leave(w)
  /\ UNCHANGED <<dest, staging, writes, litter, latest, raised>>

(* A step raises: staging or a rename fails, or another writer has taken   *)
(* the directory away or put one in its place.                             *)
Disturbed(w) == (pc[w] = "moving" /\ dest = 0) \/ (pc[w] = "promoting" /\ dest # 0)
MayRaiseLate(w) ==
  Disturbed(w) \/ (pc[w] = "cleaning" /\ "rename" \in Faults)
MayRaise(w) ==
  \/ Disturbed(w)
  \/ pc[w] = "staging" /\ "stage" \in Faults
  \/ pc[w] \in {"moving", "promoting"} /\ "rename" \in Faults

Raise(w) ==
  /\ MayRaise(w) /\ Move(w, "failing")
  /\ UNCHANGED <<dest, version, staging, trash, writes, litter, latest, raised>>

(* What the call has moved aside and not restored stays in .trash.         *)
GiveUpDropping(w) ==
  Leave(w) /\ raised' = raised \cup {version[w]} /\ UNCHANGED litter
GiveUp(w) ==
  /\ Leave(w)
  /\ raised' = raised \cup {version[w]}
  /\ litter' = litter \cup ({trash[w]} \ {0})

(* The handler removes the staging directory and looks whether there is a  *)
(* version to restore.                                                     *)
NeverRestore(w) == FALSE
MustRestore(w) == trash[w] # 0 /\ dest = 0

HandleFailure(w) ==
  /\ pc[w] = "failing" /\ Stage(w, "none")
  /\ \/ MustRestore(w) /\ Move(w, "restoring") /\ UNCHANGED <<version, trash, litter, raised>>
     \/ ~MustRestore(w) /\ GiveUp(w)
  /\ UNCHANGED <<dest, writes, latest>>

(* trash.rename(dest), any OSError suppressed.                             *)
Restore(w) ==
  /\ pc[w] = "restoring"
  /\ \/ /\ dest = 0 /\ dest' = trash[w]
        /\ Leave(w) /\ raised' = raised \cup {version[w]} /\ UNCHANGED litter
     \/ (dest # 0 \/ "restore" \in Faults) /\ GiveUp(w) /\ UNCHANGED dest
  /\ UNCHANGED <<staging, writes, latest>>

(* The process dies with every call in it; nothing cleans up after it.     *)
Crash ==
  /\ "crash" \in Faults /\ \E w \in Writers : pc[w] # "idle"
  /\ pc' = [w \in Writers |-> "idle"]
  /\ version' = [w \in Writers |-> 0]
  /\ staging' = [w \in Writers |-> "none"]
  /\ trash' = [w \in Writers |-> 0]
  /\ litter' = litter \cup ({trash[w] : w \in Writers} \ {0})
  /\ UNCHANGED <<dest, writes, latest, raised>>

(* No call left to make and none under way.                                *)
Quiet ==
  writes = MaxWrites /\ (\A w \in Writers : pc[w] = "idle") /\ UNCHANGED vars

Next ==
  \/ \E w \in Writers :
       \/ Begin(w) \/ WriteFiles(w) \/ FindDest(w) \/ MoveAside(w) \/ Promote(w)
       \/ DropTrash(w) \/ Raise(w) \/ HandleFailure(w) \/ Restore(w)
  \/ Crash \/ Quiet

Spec == Init /\ [][Next]_vars

-----------------------------------------------------------------------------
(* Properties.                                                             *)

Places == {"idle", "staging", "staged", "moving", "promoting", "cleaning",
           "failing", "restoring"}

(* Every variable has its type, and a call that is about to promote holds  *)
(* a completely staged version.                                            *)
TypeOK ==
  /\ dest \in Nat /\ writes \in Nat /\ latest \in Nat
  /\ litter \subseteq Nat /\ raised \subseteq Nat
  /\ pc \in [Writers -> Places] /\ version \in [Writers -> Nat]
  /\ staging \in [Writers -> {"none", "partial", "full"}] /\ trash \in [Writers -> Nat]
  /\ \A w \in Writers : pc[w] \in {"staged", "moving", "promoting"} => staging[w] = "full"

(* A version whose call raised never becomes visible afterwards, neither   *)
(* promoted nor moved aside by a later write and restored: whatever the    *)
(* writers do to each other, ArtifactWriteError means "not written".       *)
RaisedNeverVisible ==
  \A v \in raised : v # dest /\ v # latest /\ \A w \in Writers : v # trash[w]

(* The version promoted last is never deleted: it is in the directory, or  *)
(* some call or a crash has left it in .trash.                             *)
LatestKept ==
  latest # 0 => \/ dest = latest
                \/ \E w \in Writers : trash[w] = latest
                \/ latest \in litter

(* The docstring's promise for calls that do not overlap: the directory    *)
(* holds "either the previous version or the new one".  While a call has   *)
(* the previous version aside, that is the one that counts.                *)
Underway == {version[w] : w \in {x \in Writers :
               pc[x] \in {"staging", "staged", "moving", "promoting", "failing", "restoring"}}}
Visible ==
  IF dest = 0 /\ \E w \in Writers : trash[w] # 0
  THEN trash[CHOOSE w \in Writers : trash[w] # 0] ELSE dest
Abstract == INSTANCE AtomicEntity
              WITH value <- Visible, pending <- Underway, begun <- writes
ImplementsAtomicEntity == Abstract!Spec
=============================================================================
