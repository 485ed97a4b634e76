------------------------------- MODULE MCFiles -------------------------------
(* Model-checking instance of the operations that keep files and records in  *)
(* step: conversation turns with their artifacts, exports and backups, and   *)
(* restores and imports.  Each behaviour is one of them.                     *)
EXTENDS ConversationTurns, WorkspaceCopy, WorkspaceReturn, TLC

VARIABLE part

(* The target and the archive differ only where they matter. *)
MCInit ==
    /\ part \in {"turns", "copies", "returns"}
    /\ Init /\ CopyInit /\ ReturnInit
    /\ part = "returns" \/ target = Absent
    /\ part = "returns" \/ archive = "first"

(* Bound: the archive is replaced by a sound one or by one that is refused.  *)
Replaced == archive' \in {archive, "second", "payload"}

MCNext ==
    \/ part = "turns" /\ Next /\ UNCHANGED <<copyVars, returnVars, part>>
    \/ part = "copies" /\ CopyNext /\ UNCHANGED <<vars, returnVars, part>>
    \/ part = "returns" /\ ReturnNext /\ Replaced /\ UNCHANGED <<vars, copyVars, part>>

MCSpec == MCInit /\ [][MCNext]_<<vars, copyVars, returnVars, part>>

\* Turns, copies and returns are the same two processes.
Symmetry == Permutations(Turns) \cup Permutations(Ops) \cup Permutations(Conversations)
==============================================================================
