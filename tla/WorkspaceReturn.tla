-------------------------- MODULE WorkspaceReturn --------------------------
(***************************************************************************)
(* Restore of a backup (restore_impl.py) and import of a state package     *)
(* (state_package.py) into an absent or empty target directory.            *)
(*                                                                         *)
(* A return verifies the archive, builds and validates the workspace in a  *)
(* staging directory next to the target, moves an empty target aside,      *)
(* renames the staging directory onto the target and, for a restore,       *)
(* validates it there in a fresh process.  Two returns may have the same   *)
(* target, and its owner may put a file there or start to work in it.      *)
(* Every look at the target, every rename and every removal is a step of   *)
(* its own; any may fail and the process may crash.                        *)
(*                                                                         *)
(* A workspace is named by the return that staged it: what is in it        *)
(* follows from the archive.  Renames follow POSIX: a directory replaces   *)
(* an absent or an empty one only.                                         *)
(***************************************************************************)
EXTENDS Naturals

CONSTANTS Returns     \* calls of restore_*_backup and import_state_package

ASSUME ReturnAssumption == Returns \cap {"commit", "file"} = {}

VARIABLES archive,    \* the archive at its path
          target,     \* the target directory
          stage,      \* the staging directory of each return
          aside,      \* the .empty directory of each return
          ret         \* the state of each return

returnVars == <<archive, target, stage, aside, ret>>

\* A directory and what is in it: workspaces, a commit made in the workspace, a
\* file of the owner.
Dir == [there : BOOLEAN, has : SUBSET (Returns \cup {"commit", "file"})]
Absent == [there |-> FALSE, has |-> {}]
Empty == [there |-> TRUE, has |-> {}]
Vacant(d) == d.has = {}

\* Two archives as copies make them, and those that a program damaged, cut short
\* or wrote by other rules: in their ZIP members, the checksums of the members,
\* the manifest or the payload.
Sound == {"first", "second"}
Archives == Sound \cup {"members", "checksums", "manifest", "payload"}

ReturnRunning == {"verified", "read", "stage", "validate", "check", "moveAside", "replace", "settle",
            "fresh", "cleanup", "finish", "undoStage", "undoTarget", "undoAside"}
ReturnEnded == {"refused", "done", "failed", "rollbackError", "crashed"}

ReturnInit ==
    /\ archive \in Archives
    /\ target \in {Absent, Empty}
    /\ stage = [r \in Returns |-> Absent]
    /\ aside = [r \in Returns |-> Absent]
    /\ ret = [r \in Returns |-> [pc |-> "idle", import |-> FALSE, existed |-> FALSE,
                                 published |-> FALSE, checked |-> "none", staged |-> "none"]]
----------------------------------------------------------------------------
\* The owner of the target and of the archive.

\* A file that is not part of a workspace; a missing target is created for it.
PutFile ==
    /\ target.has = {}
    /\ \A r \in Returns : "file" \notin aside[r].has
    /\ target' = [there |-> TRUE, has |-> {"file"}]
    /\ UNCHANGED <<archive, stage, aside, ret>>

\* Work in a workspace that has appeared at the target.
CommitThere ==
    /\ target.has \cap Returns # {} /\ "commit" \notin target.has
    /\ target' = [target EXCEPT !.has = @ \cup {"commit"}]
    /\ UNCHANGED <<archive, stage, aside, ret>>

\* Another archive is put in place of the first.
ArchiveChanges ==
    /\ archive = "first"
    /\ archive' \in Archives \ {"first"}
    /\ UNCHANGED <<target, stage, aside, ret>>

Owner == PutFile \/ CommitThere \/ ArchiveChanges
----------------------------------------------------------------------------
\* Before publication.

ReturnGo(r, pc) == ret' = [ret EXCEPT ![r].pc = pc]
LooksOnly == UNCHANGED <<archive, target, stage, aside>>

\* _validate_archive_inventory: names, types and sizes of the ZIP members.
MembersOk(a) == a # "members"

\* Every member has the size and the digest of its entry, and no other is there.
ChecksumsOk(a) == a # "checksums"

\* Versions, categories, identities and the counts of what is to follow.
ManifestOk(a) == a # "manifest"

\* The snapshot or nested package is what the manifest says, the files are those
\* of its records; of a package, the records and the graph they make.
PayloadOk(a) == a # "payload"

Accepted(a) == MembersOk(a) /\ ChecksumsOk(a) /\ ManifestOk(a) /\ PayloadOk(a)

\* The archive is verified.
Verified(r, import) ==
    /\ ret[r].pc = "idle"
    /\ ret' = [ret EXCEPT ![r].pc = IF Accepted(archive) THEN "verified" ELSE "refused",
                          ![r].import = import,
                          ![r].checked = IF Accepted(archive) THEN archive ELSE "none",
                          ![r].staged = IF import /\ Accepted(archive) THEN archive ELSE "none"]
    /\ LooksOnly

\* verify_backup; a backup of the other kind is refused as an unsound one is.
VerifyBackup(r) == Verified(r, FALSE)

\* _load_package reads the package once: it stays in memory from here on.
LoadPackage(r) == Verified(r, TRUE)

\* _prepare_target
PrepareTarget(r) ==
    /\ ret[r].pc = "verified" /\ ~ret[r].import
    /\ ret' = [ret EXCEPT ![r].pc = IF Vacant(target) THEN "read" ELSE "refused",
                          ![r].existed = target.there]
    /\ LooksOnly

\* _target_conflicts: every directory with something in it is a conflict.
TargetConflicts(r) ==
    /\ ret[r].pc = "verified" /\ ret[r].import
    /\ ret' = [ret EXCEPT ![r].pc = IF Vacant(target) THEN "stage" ELSE "refused",
                          ![r].existed = target.there]
    /\ LooksOnly

SameDigest(r) == archive = ret[r].checked

\* _read_verified_members reads the backup again and compares the digest.
ReadAgain(r) ==
    /\ ret[r].pc = "read"
    /\ ret' = [ret EXCEPT ![r].pc = IF SameDigest(r) THEN "stage" ELSE "refused",
                          ![r].staged = IF SameDigest(r) THEN archive ELSE "none"]
    /\ LooksOnly

\* The workspace is built in the staging directory: from the members of a
\* backup, or row by row and file by file from a package.
Build(r) ==
    /\ ret[r].pc = "stage"
    /\ stage' = [stage EXCEPT ![r] = [there |-> TRUE, has |-> {r}]]
    /\ ReturnGo(r, "validate")
    /\ UNCHANGED <<archive, target, aside>>

StageRestore(r) == ~ret[r].import /\ Build(r)
StageImport(r) == ret[r].import /\ Build(r)

\* Identity, versions, revision, the integrity of the database and the counts of
\* its rows are looked at; a mismatch is one of Fails.
Validate(r) ==
    /\ ret[r].pc = "validate"
    /\ ReturnGo(r, "check")
    /\ LooksOnly

\* validate_restored_workspace, _validate_imported_workspace
ValidateRestored(r) == ~ret[r].import /\ Validate(r)
ValidateImported(r) == ret[r].import /\ Validate(r)
----------------------------------------------------------------------------
\* Publication: _publish_target, _publish_import_target.

\* A restore wants the target as _prepare_target found it.
TargetAsFound(r) ==
    /\ Vacant(target)
    /\ ret[r].import \/ target.there = ret[r].existed

Check(r) ==
    /\ ret[r].pc = "check"
    /\ TargetAsFound(r)
    /\ ReturnGo(r, IF target.there THEN "moveAside" ELSE "replace")
    /\ LooksOnly

MoveAside(r) ==
    /\ ret[r].pc = "moveAside"
    /\ target.there
    /\ aside' = [aside EXCEPT ![r] = target]
    /\ target' = Absent
    /\ ReturnGo(r, "replace")
    /\ UNCHANGED <<archive, stage>>

\* os.replace of a directory fails on a target that has something in it.
Replaceable == Vacant(target)

Replace(r) ==
    /\ ret[r].pc = "replace"
    /\ Replaceable
    /\ target' = stage[r]
    /\ stage' = [stage EXCEPT ![r] = Absent]
    /\ ret' = [ret EXCEPT ![r].pc = "settle", ![r].published = TRUE]
    /\ UNCHANGED <<archive, aside>>

\* The parent directory is synchronized.
ReturnSettle(r) ==
    /\ ret[r].pc = "settle"
    /\ ReturnGo(r, IF ret[r].import THEN "cleanup" ELSE "fresh")
    /\ LooksOnly

\* _validate_in_fresh_process finds a workspace of the archive, untouched, at the
\* target: a commit there has changed the revision.
Fresh(r) ==
    /\ ret[r].pc = "fresh"
    /\ target.has \cap Returns # {} /\ "commit" \notin target.has
    /\ ReturnGo(r, "cleanup")
    /\ LooksOnly

\* Mutant: the directory moved aside is removed with all that is in it.
CleanupTree(r) ==
    /\ ret[r].pc = "cleanup"
    /\ aside' = [aside EXCEPT ![r] = Absent]
    /\ ReturnGo(r, "finish")
    /\ UNCHANGED <<archive, target, stage>>

\* rmdir refuses a directory that somebody has put something into.
Cleanup(r) ==
    /\ ret[r].pc = "cleanup"
    /\ Vacant(aside[r])
    /\ aside' = [aside EXCEPT ![r] = Absent]
    /\ ReturnGo(r, "finish")
    /\ UNCHANGED <<archive, target, stage>>

Finish(r) ==
    /\ ret[r].pc = "finish"
    /\ ReturnGo(r, "done")
    /\ LooksOnly
----------------------------------------------------------------------------
\* Failure.

\* Nothing to undo before staging, and after the renames _rollback_restore,
\* the handler of _publish_target or _rollback_import_publication: the target
\* first.  An import has nothing left to do after its cleanup.
ReturnAfterFailure(r) ==
    IF ret[r].pc \in {"verified", "read"} THEN "refused"
    ELSE IF ret[r].published \/ aside[r].there THEN "undoTarget" ELSE "undoStage"

\* A check fails, an exception, a timeout of the fresh process.
Fails(r) ==
    /\ ret[r].pc \in ReturnRunning \ {"undoStage", "undoTarget", "undoAside"}
    /\ ret[r].pc = "finish" => ~ret[r].import
    /\ ReturnGo(r, ReturnAfterFailure(r))
    /\ LooksOnly

\* Only what this return has put there is removed: the published workspace.
UndoTarget(r) ==
    /\ ret[r].pc = "undoTarget"
    /\ target' = IF ret[r].published THEN Absent ELSE target
    /\ ReturnGo(r, "undoAside")
    /\ UNCHANGED <<archive, stage, aside>>

\* The directory moved aside comes back, if the target is free for it; a
\* restore that has removed it already makes an empty one.
UndoAside(r) ==
    /\ ret[r].pc = "undoAside"
    /\ \/ /\ aside[r].there /\ Vacant(target)
          /\ target' = aside[r]
          /\ aside' = [aside EXCEPT ![r] = Absent]
       \/ /\ ~aside[r].there
          /\ target' = IF ret[r].existed /\ ~ret[r].import /\ ~target.there THEN Empty ELSE target
          /\ UNCHANGED aside
    /\ ReturnGo(r, "undoStage")
    /\ UNCHANGED <<archive, stage>>

\* The staging directory goes: with _rollback_restore, which reports a failure,
\* or with rmtree(ignore_errors) of an import, which does not.
UndoStage(r) ==
    /\ ret[r].pc = "undoStage"
    /\ stage' \in {[stage EXCEPT ![r] = Absent]} \cup (IF ret[r].import THEN {stage} ELSE {})
    /\ ReturnGo(r, "failed")
    /\ UNCHANGED <<archive, target, aside>>

\* A rollback that cannot be completed is reported as such; the staging
\* directory is removed all the same, if it can be.
UndoFails(r) ==
    /\ ret[r].pc \in {"undoTarget", "undoAside"} \/ (ret[r].pc = "undoStage" /\ ~ret[r].import)
    /\ stage' \in {stage, [stage EXCEPT ![r] = Absent]}
    /\ ReturnGo(r, "rollbackError")
    /\ UNCHANGED <<archive, target, aside>>

ReturnCrash(r) ==
    /\ ret[r].pc \in ReturnRunning
    /\ ReturnGo(r, "crashed")
    /\ LooksOnly

ReturnStep(r) ==
    \/ VerifyBackup(r) \/ LoadPackage(r) \/ PrepareTarget(r) \/ TargetConflicts(r)
    \/ ReadAgain(r) \/ StageRestore(r) \/ StageImport(r)
    \/ ValidateRestored(r) \/ ValidateImported(r)
    \/ Check(r) \/ MoveAside(r) \/ Replace(r) \/ ReturnSettle(r) \/ Fresh(r) \/ Cleanup(r) \/ Finish(r)
    \/ Fails(r) \/ UndoTarget(r) \/ UndoAside(r) \/ UndoStage(r) \/ UndoFails(r) \/ ReturnCrash(r)

ReturnNext == Owner \/ \E r \in Returns : ReturnStep(r)
ReturnSpec == ReturnInit /\ [][ReturnNext]_returnVars
----------------------------------------------------------------------------
\* The directories that a workspace, a commit or a file can be in.
Places == {target} \cup {stage[r] : r \in Returns} \cup {aside[r] : r \in Returns}

\* Type correctness; a directory that is not there has nothing in it, and a
\* workspace is moved, never duplicated.
ReturnTypeOK ==
    /\ archive \in Archives
    /\ target \in Dir
    /\ stage \in [Returns -> {Absent} \cup {[there |-> TRUE, has |-> {r}] : r \in Returns}]
    /\ aside \in [Returns -> Dir]
    /\ ret \in [Returns -> [pc : ReturnRunning \cup ReturnEnded \cup {"idle"}, import : BOOLEAN,
                             existed : BOOLEAN, published : BOOLEAN,
                             checked : Archives \cup {"none"}, staged : Archives \cup {"none"}]]
    /\ \A d \in Places : d.there \/ d = Absent
    /\ \A r \in Returns : ret[r].published => stage[r] = Absent

\* Whatever workspace a return has put at the target, or is about to build, comes
\* from the archive it has verified, although a restore reads the archive twice
\* and its owner may put another there in between.
StagedAsVerified ==
    \A r \in Returns : ret[r].published \/ stage[r].there =>
        ret[r].staged \in Sound /\ ret[r].staged = ret[r].checked

\* Two returns at most have been started.
Paired ==
    \A r, q, s \in Returns : r # q /\ q # s /\ r # s =>
        "idle" \in {ret[r].pc, ret[q].pc, ret[s].pc}

\* A workspace whose restore or import was reported done is not destroyed by a
\* second return, neither by its rollback, when it was past its checks, nor by
\* its cleanup: at worst it has been moved aside.  Of three returns this is not
\* true: one that moves the workspace of a second aside leaves the target to a
\* third, and the rollback of the second removes whatever is at the target.
DoneWorkspaceKept ==
    \A r \in Returns : Paired /\ ret[r].pc = "done" =>
        r \in target.has \/ \E q \in Returns : r \in aside[q].has

\* No return but one has been started.
Alone == \A r, q \in Returns : r # q => "idle" \in {ret[r].pc, ret[q].pc}

FileThere == \E d \in Places : "file" \in d.has

\* With one return, a file put at the target at any moment survives it: neither
\* the publication nor the removal of the directory moved aside nor a rollback
\* (rmtree of a published target) takes it along.
FileNeverLost == FileThere /\ Alone => FileThere'

\* With one return, a reported failure leaves the target as it was found, or with
\* the file that caused the failure: no workspace, no directory moved aside, no
\* staging directory of a restore, and no empty target missing after a restore.
FailedReturnLeavesTarget ==
    \A r \in Returns : Alone /\ ret[r].pc = "failed" =>
        /\ target.has \subseteq {"file"}
        /\ aside[r] = Absent
        /\ ~ret[r].import => stage[r] = Absent
        /\ ret[r].existed => target.there

\* Restores and imports whose target is used by its owner and by each other,
\* with failures and crashes at every step: what is put in place is what was
\* verified, no finished workspace is destroyed by a second return, and a return
\* that is alone leaves its target as it was when it fails and never takes the
\* owner's file along.
ReturnsSound ==
    /\ [](ReturnTypeOK /\ StagedAsVerified /\ DoneWorkspaceKept /\ FailedReturnLeavesTarget)
    /\ [][FileNeverLost]_returnVars
============================================================================
