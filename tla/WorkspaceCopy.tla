--------------------------- MODULE WorkspaceCopy ---------------------------
(***************************************************************************)
(* State package export (state_package.py) and backup creation             *)
(* (backup.py, backup_manifest.py) from a workspace that other processes   *)
(* keep writing.                                                           *)
(*                                                                         *)
(* A copy reads the database and the artifact files in several steps,      *)
(* publishes an archive at its output path and, for a backup, registers it *)
(* in the workspace.  Every read, rename, link, unlink and transaction is  *)
(* a step of its own; any of them may fail, and the process may crash.     *)
(*                                                                         *)
(* Every commit is a new revision, so the content of the database is       *)
(* identified by it.  Artifact records and their files are kept apart      *)
(* because they are written and read apart.  Archive formats, checksums    *)
(* and the omission of secrets are left out.                               *)
(***************************************************************************)
EXTENDS Naturals

CONSTANTS Copies,     \* calls of export_state_package and create_*_backup
          Arts,       \* artifacts
          MaxRev      \* bound: state revision of the source workspace

VARIABLES rev,        \* schema_metadata.state_revision
          wsRev,      \* the state revision in workspace.json
          arts,       \* registered artifacts
          managed,    \* managed artifact files
          writer,     \* another process: idle, the artifact it registers, syncing
          out,        \* the file at each output path
          inventory,  \* copies with a backup_manifest record
          copy        \* the state of each copy

source == <<rev, wsRev, arts, managed, writer>>
copyVars == <<source, out, inventory, copy>>

None == "none"

\* Neither a copy nor an artifact is named as what stands for none or for a
\* state of writer.
ASSUME CopyAssumption ==
    MaxRev \in Nat /\ None \notin Copies /\ Arts \cap {"idle", "syncing"} = {}

CopyKinds == {"package", "state", "workspace"}

\* Packages share one output path and backups another.
Paths == {"package", "backup"}
PathOf(kind) == IF kind = "package" THEN "package" ELSE "backup"

\* An archive: who made it, the revision its manifest names, the revisions its
\* content was read at, its artifact records and the artifact files in it.
Archive == [by : Copies \cup {None}, kind : CopyKinds, rev : 0 .. MaxRev,
            reads : SUBSET (0 .. MaxRev), arts : SUBSET Arts, files : SUBSET Arts]
NoFile == [by |-> None, kind |-> "package", rev |-> 0, reads |-> {}, arts |-> {}, files |-> {}]

CopyRunning == {"load", "identity", "snapshot", "identityFile", "rows", "files", "revision",
            "unchanged", "publish", "settle", "register", "sync", "unpublish"}
CopyEnded == {"refused", "done", "failed", "rollbackError", "crashed"}

CopyInit ==
    /\ rev = 0 /\ wsRev = 0 /\ arts = {} /\ managed = {} /\ writer = "idle"
    /\ out = [p \in Paths |-> NoFile]
    /\ inventory = {}
    /\ copy = [c \in Copies |-> [pc |-> "idle", made |-> NoFile]]
----------------------------------------------------------------------------
\* Other processes of the workspace: an artifact is a file first and a record
\* next, and workspace.json follows every commit.

\* Opening for writing repairs workspace.json, so a writer starts in step.
WriteFile(a) ==
    /\ writer = "idle" /\ wsRev = rev
    /\ a \notin managed
    /\ managed' = managed \cup {a}
    /\ writer' = a
    /\ UNCHANGED <<rev, wsRev, arts>>

\* An artifact record, or any other commit.
CommitWrite ==
    /\ writer \in Arts \cup {"idle"} /\ rev < MaxRev
    /\ writer = "idle" => wsRev = rev
    /\ rev' = rev + 1
    /\ arts' = arts \cup ({writer} \cap Arts)
    /\ writer' = "syncing"
    /\ UNCHANGED <<wsRev, managed>>

\* _sync_after_commit, or the repair of the next open.
SyncWorkspace ==
    /\ writer \in {"idle", "syncing"} /\ wsRev # rev
    /\ wsRev' = rev
    /\ writer' = "idle"
    /\ UNCHANGED <<rev, arts, managed>>

\* The process dies, or its registration fails and it removes its file.
WriterStops ==
    /\ writer # "idle"
    /\ managed' \in {managed, managed \ ({writer} \cap Arts)}
    /\ writer' = "idle"
    /\ UNCHANGED <<rev, wsRev, arts>>

Writer ==
    /\ (\E a \in Arts : WriteFile(a)) \/ CommitWrite \/ SyncWorkspace \/ WriterStops
    /\ UNCHANGED <<out, inventory, copy>>
----------------------------------------------------------------------------
\* Reading the source.

CopyGo(c, pc) == copy' = [copy EXCEPT ![c].pc = pc]
Kind(c) == copy[c].made.kind
ReadsOnly == UNCHANGED <<source, out, inventory>>

\* _prepare_output, and the same check in export_state_package.
CopyStart(c, kind) ==
    /\ copy[c].pc = "idle"
    /\ copy' = [copy EXCEPT ![c] =
          [pc |-> IF out[PathOf(kind)] = NoFile THEN "load" ELSE "refused",
           made |-> [NoFile EXCEPT !.by = c, !.kind = kind]]]
    /\ ReadsOnly

\* open_state_repository loads workspace.json before it opens the database.
CopyLoad(c) ==
    /\ copy[c].pc = "load"
    /\ copy' = [copy EXCEPT ![c].pc = "identity", ![c].made.rev = wsRev]
    /\ ReadsOnly

\* _source_identity
CopyIdentity(c) ==
    /\ copy[c].pc = "identity"
    /\ rev = copy[c].made.rev
    /\ CopyGo(c, IF Kind(c) = "workspace" THEN "snapshot" ELSE "rows")
    /\ ReadsOnly

\* _create_sqlite_snapshot and _verify_sqlite_snapshot
CopySnapshot(c) ==
    /\ copy[c].pc = "snapshot"
    /\ rev = copy[c].made.rev
    /\ copy' = [copy EXCEPT ![c].pc = "identityFile", ![c].made.arts = arts,
                            ![c].made.reads = {rev}]
    /\ ReadsOnly

\* _read_workspace_identity
CopyIdentityFile(c) ==
    /\ copy[c].pc = "identityFile"
    /\ wsRev = copy[c].made.rev
    /\ CopyGo(c, "rows")
    /\ ReadsOnly

\* The rows: all records of a package; the artifact records, besides the
\* snapshot, of a full backup.
CopyRows(c) ==
    /\ copy[c].pc = "rows"
    /\ copy' = [copy EXCEPT ![c].pc = "files", ![c].made.reads = @ \cup {rev},
                            ![c].made.files = arts,
                            ![c].made.arts = IF Kind(c) = "workspace" THEN @ ELSE arts]
    /\ ReadsOnly

\* A package wants the files its records name, a full backup no others besides.
FilesMatch(c) ==
    /\ copy[c].made.files \subseteq managed
    /\ Kind(c) = "workspace" => copy[c].made.files = managed

\* The files are read, and the remaining records, audit events and migrations.
CopyFiles(c) ==
    /\ copy[c].pc = "files"
    /\ FilesMatch(c)
    /\ copy' = [copy EXCEPT ![c].pc = IF Kind(c) = "workspace" THEN "unchanged" ELSE "revision",
                            ![c].made.reads = @ \cup {rev}]
    /\ ReadsOnly

\* The manifest names the revision read last; the verification of the package
\* compares it with the workspace record in it.
RevisionAgrees(c) == rev = copy[c].made.rev

CopyRevision(c) ==
    /\ copy[c].pc = "revision"
    /\ RevisionAgrees(c)
    /\ CopyGo(c, IF Kind(c) = "package" THEN "publish" ELSE "unchanged")
    /\ ReadsOnly

\* _ensure_source_unchanged
SourceUnchanged(c) == rev = copy[c].made.rev /\ wsRev = copy[c].made.rev

CopyUnchanged(c) ==
    /\ copy[c].pc = "unchanged"
    /\ SourceUnchanged(c)
    /\ CopyGo(c, "publish")
    /\ ReadsOnly
----------------------------------------------------------------------------
\* Publication and registration.

\* os.link never replaces a file; os.replace, which a package uses, does.
OutputFree(c) == Kind(c) = "package" \/ out[PathOf(Kind(c))] = NoFile

CopyPublish(c) ==
    /\ copy[c].pc = "publish"
    /\ OutputFree(c)
    /\ out' = [out EXCEPT ![PathOf(Kind(c))] = copy[c].made]
    /\ CopyGo(c, "settle")
    /\ UNCHANGED <<source, inventory>>

\* The directory is synchronized; a published backup is verified again.
CopySettle(c) ==
    /\ copy[c].pc = "settle"
    /\ CopyGo(c, IF Kind(c) = "package" THEN "done" ELSE "register")
    /\ ReadsOnly

\* Mutant: the revision is not compared.
RegisterUnchecked(c) == rev < MaxRev

\* register_verified compares the revision in its transaction.
StillCurrent(c) == rev = copy[c].made.rev /\ rev < MaxRev

\* Opening for writing repairs workspace.json before the transaction.
CopyRegister(c) ==
    /\ copy[c].pc = "register"
    /\ StillCurrent(c)
    /\ inventory' = inventory \cup {c}
    /\ wsRev' = rev
    /\ rev' = rev + 1
    /\ CopyGo(c, "sync")
    /\ UNCHANGED <<arts, managed, writer, out>>

\* _sync_after_commit: workspace.json never goes down, so it fails when another
\* process has written a newer revision there.
CopySync(c) ==
    /\ copy[c].pc = "sync"
    /\ wsRev <= copy[c].made.rev + 1
    /\ wsRev' = copy[c].made.rev + 1
    /\ CopyGo(c, "done")
    /\ UNCHANGED <<rev, arts, managed, writer, out, inventory>>

\* A published file is removed first.
CopyAfterFailure(c) ==
    IF copy[c].pc \in {"settle", "register", "sync"} THEN "unpublish" ELSE "failed"

\* A check that fails, or an I/O error.  In "sync" the transaction has committed.
CopyFails(c) ==
    /\ copy[c].pc \in CopyRunning \ {"unpublish"}
    /\ CopyGo(c, CopyAfterFailure(c))
    /\ ReadsOnly

\* _rollback_publication, _rollback_export_publication and the rollback of a
\* registration unlink whatever is at the path.
CopyUnpublish(c) ==
    /\ copy[c].pc = "unpublish"
    /\ \/ /\ out' = [out EXCEPT ![PathOf(Kind(c))] = NoFile]
          /\ CopyGo(c, "failed")
       \/ /\ CopyGo(c, "rollbackError")
          /\ UNCHANGED out
    /\ UNCHANGED <<source, inventory>>

CopyCrash(c) ==
    /\ copy[c].pc \in CopyRunning
    /\ CopyGo(c, "crashed")
    /\ ReadsOnly

CopyStep(c) ==
    \/ \E kind \in CopyKinds : CopyStart(c, kind)
    \/ CopyLoad(c) \/ CopyIdentity(c) \/ CopySnapshot(c) \/ CopyIdentityFile(c)
    \/ CopyRows(c) \/ CopyFiles(c) \/ CopyRevision(c) \/ CopyUnchanged(c)
    \/ CopyPublish(c) \/ CopySettle(c) \/ CopyRegister(c) \/ CopySync(c)
    \/ CopyFails(c) \/ CopyUnpublish(c) \/ CopyCrash(c)

CopyNext == Writer \/ \E c \in Copies : CopyStep(c)
CopySpec == CopyInit /\ [][CopyNext]_copyVars
----------------------------------------------------------------------------
\* Type correctness, with workspace.json never ahead of the database (what
\* StateStore proves of it holds with copies in the workspace too).
CopyTypeOK ==
    /\ rev \in 0 .. MaxRev /\ wsRev \in 0 .. rev
    /\ arts \subseteq managed /\ managed \subseteq Arts
    /\ writer \in Arts \cup {"idle", "syncing"}
    /\ out \in [Paths -> Archive]
    /\ inventory \subseteq Copies
    /\ copy \in [Copies -> [pc : CopyRunning \cup CopyEnded \cup {"idle"}, made : Archive]]

\* Whatever archive can be found at an output path shows the workspace at one
\* moment, the revision its manifest names: no read of it saw another revision
\* and its artifact files are those of its records, however writers ran between
\* the reads of _build_export_members and of create_workspace_backup.
ArchiveIsOneMoment ==
    \A p \in Paths : out[p] # NoFile =>
        out[p].reads = {out[p].rev} /\ out[p].files = out[p].arts

\* register_verified enters a backup only while the workspace is still at the
\* backup's revision with the backup's artifacts, and the archive it enters is
\* the one at the output path.
RegisteredIsCurrent ==
    \A c \in inventory' \ inventory :
        /\ copy[c].made.rev = rev /\ copy[c].made.arts = arts
        /\ out["backup"] = copy[c].made

\* The archive of a finished backup stays at its path and in the inventory:
\* later backups to the same path neither replace nor remove it.
FinishedBackupStays ==
    \A c \in Copies : copy[c].pc = "done" /\ Kind(c) # "package" =>
        out["backup"] = copy[c].made /\ c \in inventory

\* A copy that reports an ordinary failure leaves no archive of its own behind,
\* at whatever step it failed ("rollbackError" reports that it could not).
FailedCopyLeavesNothing ==
    \A c \in Copies : copy[c].pc \in {"refused", "failed"} =>
        \A p \in Paths : out[p].by # c

\* Exports and backups beside writers, failures and crashes: an archive shows
\* one moment, a finished backup stays, a failed copy leaves nothing, and what
\* is registered is current.
CopiesSound ==
    /\ [](CopyTypeOK /\ ArchiveIsOneMoment /\ FinishedBackupStays /\ FailedCopyLeavesNothing)
    /\ [][RegisteredIsCurrent]_copyVars
============================================================================
