----------------------------- MODULE StateStore -----------------------------
(***************************************************************************)
(* The workspace's SQLite state repository: its creation and migration,    *)
(* records with optimistic revisions, audit events, and the copy of the    *)
(* state revision kept in workspace.json.  Several processes may hold the  *)
(* workspace open; each may crash between any two of its steps.            *)
(*                                                                         *)
(* A BEGIN IMMEDIATE ... COMMIT block is one step (SQLite's lock makes it  *)
(* one), except the first transaction of a new file, which creates the     *)
(* file before it commits.  Reading workspace.json and replacing it are    *)
(* two steps: no lock covers them.                                         *)
(***************************************************************************)
EXTENDS Naturals

CONSTANTS
    Proc,            \* processes that open the workspace
    Records,         \* record identifiers
    OriginRecords,   \* those of type instruction_origin
    CurrentSchema,   \* CURRENT_SCHEMA_VERSION
    MaxRevision,     \* bound: commits explored
    MaxFailures      \* bound: migrations that fail for an outside reason

ASSUME StoreAssumption ==
    /\ Records # {}
    /\ OriginRecords \subseteq Records
    /\ CurrentSchema \in Nat \ {0}
    /\ MaxRevision \in Nat
    /\ MaxFailures \in Nat

VARIABLES
    dbFile,          \* the database file: absent, empty (created), ready
    schemaVersion,   \* schema_metadata.schema_version
    stateRevision,   \* schema_metadata.state_revision
    records,         \* the records table
    auditEvents,     \* number of rows of audit_events
    completed,       \* completed migration_history rows, by from_version
    failed,          \* failed migration_history rows, by from_version
    wsRevision,      \* state_revision in workspace.json
    pc, mode,        \* where a process is, and how it holds the repository
    wsLoaded,        \* state_revision of the workspace record it loaded
    revSeen,         \* the database revision it read or committed
    verSeen,         \* apply_migrations' current_version
    target, snap     \* the record being updated and the copy that was read

dbVars == <<dbFile, schemaVersion, stateRevision, records, auditEvents,
            completed, failed>>
procVars == <<pc, mode, wsLoaded, revSeen, verSeen, target, snap>>
vars == <<dbVars, wsRevision, procVars>>

Versions == 0..(CurrentSchema - 1)

(* rev is the record's revision; statusEdits and contentEdits count the    *)
(* committed updates whose effect its status and its content contain.      *)
RecordRow == [rev : Nat, statusEdits : Nat, contentEdits : Nat]
NoRow == [rev |-> 0, statusEdits |-> 0, contentEdits |-> 0]

AnyRecord == CHOOSE r \in Records : TRUE

PC == {"closed", "bootstrap", "bootstrapTxn", "openRead", "migrateRead",
       "migrate", "openRevision", "openSync", "syncLoad", "syncWrite",
       "idle", "updateCheck", "updateStatus", "updateContent"}
Mode == {"none", "opening", "ro", "rw"}

Init ==
    /\ dbFile = "absent"
    /\ schemaVersion = 0
    /\ stateRevision = 0
    /\ records = [r \in Records |-> NoRow]
    /\ auditEvents = 0
    /\ completed = [v \in Versions |-> 0]
    /\ failed = [v \in Versions |-> 0]
    /\ wsRevision = 0
    /\ pc = [p \in Proc |-> "closed"]
    /\ mode = [p \in Proc |-> "none"]
    /\ wsLoaded = [p \in Proc |-> 0]
    /\ revSeen = [p \in Proc |-> 0]
    /\ verSeen = [p \in Proc |-> 0]
    /\ target = [p \in Proc |-> AnyRecord]
    /\ snap = [p \in Proc |-> NoRow]

Goto(p, l) == pc' = [pc EXCEPT ![p] = l]
SetMode(p, m) == mode' = [mode EXCEPT ![p] = m]

(* Nothing of the handle is left: connection.close(), or the process died. *)
Forget(p) ==
    /\ wsLoaded' = [wsLoaded EXCEPT ![p] = 0]
    /\ revSeen' = [revSeen EXCEPT ![p] = 0]
    /\ verSeen' = [verSeen EXCEPT ![p] = 0]
    /\ target' = [target EXCEPT ![p] = AnyRecord]
    /\ snap' = [snap EXCEPT ![p] = NoRow]

Close(p) == Goto(p, "closed") /\ SetMode(p, "none") /\ Forget(p)
-----------------------------------------------------------------------------
(* initialize_state_repository: refused when the database file exists. *)
InitializeStart(p) ==
    /\ pc[p] = "closed"
    /\ dbFile = "absent"
    /\ wsLoaded' = [wsLoaded EXCEPT ![p] = wsRevision]
    /\ Goto(p, "bootstrap") /\ SetMode(p, "opening")
    /\ UNCHANGED <<dbVars, wsRevision, revSeen, verSeen, target, snap>>

(* BEGIN IMMEDIATE of _bootstrap: SQLite creates the file and takes its    *)
(* lock, which another initializer waits for.                              *)
BootstrapBegin(p) ==
    /\ pc[p] = "bootstrap"
    /\ \A q \in Proc : pc[q] # "bootstrapTxn"
    /\ dbFile' = IF dbFile = "absent" THEN "empty" ELSE dbFile
    /\ Goto(p, "bootstrapTxn")
    /\ UNCHANGED <<schemaVersion, stateRevision, records, auditEvents, completed,
                   failed, wsRevision, mode, wsLoaded, revSeen, verSeen, target, snap>>

(* CREATE TABLE schema_metadata ... COMMIT at schema version 0. *)
BootstrapCommit(p) ==
    /\ pc[p] = "bootstrapTxn"
    /\ dbFile = "empty"
    /\ dbFile' = "ready"
    /\ Goto(p, "migrateRead")
    /\ UNCHANGED <<schemaVersion, stateRevision, records, auditEvents, completed,
                   failed, wsRevision, mode, wsLoaded, revSeen, verSeen, target, snap>>

(* The tables exist already: another initializer won, ROLLBACK and raise. *)
BootstrapRollback(p) ==
    /\ pc[p] = "bootstrapTxn"
    /\ dbFile = "ready"
    /\ Close(p)
    /\ UNCHANGED <<dbVars, wsRevision>>

(* open_state_repository up to the connection. *)
OpenStart(p, m) ==
    /\ pc[p] = "closed"
    /\ dbFile # "absent"
    /\ wsLoaded' = [wsLoaded EXCEPT ![p] = wsRevision]
    /\ Goto(p, "openRead") /\ SetMode(p, m)
    /\ UNCHANGED <<dbVars, wsRevision, revSeen, verSeen, target, snap>>

(* apply_migrations loops while the version is below the current schema. *)
MigrationPendingOneTooFar(v) == v <= CurrentSchema
MigrationPending(v) == v < CurrentSchema

(* Where an open goes once the database's identity is validated: a reader  *)
(* is done, a writer migrates first when the schema is old.                *)
AfterIdentity(p) ==
    IF mode[p] = "ro" THEN "idle"
    ELSE IF MigrationPending(schemaVersion) THEN "migrateRead" ELSE "openSync"

(* _validate_database_identity: without the metadata table the open fails. *)
OpenRead(p) ==
    /\ pc[p] = "openRead"
    /\ \/ /\ dbFile # "ready"
          /\ Close(p)
       \/ /\ dbFile = "ready"
          /\ revSeen' = [revSeen EXCEPT ![p] = stateRevision]
          /\ Goto(p, AfterIdentity(p))
          /\ UNCHANGED <<mode, wsLoaded, verSeen, target, snap>>
    /\ UNCHANGED <<dbVars, wsRevision>>

(* apply_migrations reads the version it will count up from. *)
MigrateRead(p) ==
    /\ pc[p] = "migrateRead"
    /\ verSeen' = [verSeen EXCEPT ![p] = schemaVersion]
    /\ Goto(p, IF MigrationPending(schemaVersion) THEN "migrate" ELSE "openRevision")
    /\ UNCHANGED <<dbVars, wsRevision, mode, wsLoaded, revSeen, target, snap>>

(* CREATE TABLE of tables that do not exist yet, and UPDATE               *)
(* schema_metadata ... WHERE schema_version = from_version.                *)
AnySchema(p) == TRUE
SchemaAsExpected(p) == schemaVersion = verSeen[p]

(* _apply_migration: the schema statements, the version and the completed  *)
(* history row commit together, only from the version that was expected.   *)
ApplyMigration(p) ==
    /\ pc[p] = "migrate"
    /\ SchemaAsExpected(p)
    /\ schemaVersion' = verSeen[p] + 1
    /\ completed' = [completed EXCEPT ![verSeen[p]] = @ + 1]
    /\ verSeen' = [verSeen EXCEPT ![p] = @ + 1]
    /\ Goto(p, IF MigrationPending(verSeen[p] + 1) THEN "migrate" ELSE "openRevision")
    /\ UNCHANGED <<dbFile, stateRevision, records, auditEvents, failed,
                   wsRevision, mode, wsLoaded, revSeen, target, snap>>

(* The version moved on, or a statement failed: ROLLBACK, a failed history *)
(* row in a transaction of its own, MigrationError.                        *)
FailMigration(p) ==
    /\ pc[p] = "migrate"
    /\ \/ ~SchemaAsExpected(p)
       \/ \A v \in Versions : failed[v] < MaxFailures
    /\ failed' = [failed EXCEPT ![verSeen[p]] = @ + 1]
    /\ Close(p)
    /\ UNCHANGED <<dbFile, schemaVersion, stateRevision, records, auditEvents,
                   completed, wsRevision>>

(* The revision is read again after the migrations. *)
OpenRevision(p) ==
    /\ pc[p] = "openRevision"
    /\ revSeen' = [revSeen EXCEPT ![p] = stateRevision]
    /\ Goto(p, "openSync")
    /\ UNCHANGED <<dbVars, wsRevision, mode, wsLoaded, verSeen, target, snap>>

NothingToRepair(p) == FALSE
RepairNeeded(p) == wsLoaded[p] < revSeen[p]

(* _sync_workspace_revision compares with the workspace loaded at the      *)
(* start: ahead of the database is StateRevisionMismatchError, behind is   *)
(* repaired.                                                               *)
OpenSync(p) ==
    /\ pc[p] = "openSync"
    /\ \/ wsLoaded[p] > revSeen[p] /\ Close(p)
       \/ /\ wsLoaded[p] <= revSeen[p] /\ RepairNeeded(p)
          /\ Goto(p, "syncLoad")
          /\ UNCHANGED <<mode, wsLoaded, revSeen, verSeen, target, snap>>
       \/ /\ wsLoaded[p] <= revSeen[p] /\ ~RepairNeeded(p)
          /\ Goto(p, "idle") /\ SetMode(p, "rw")
          /\ UNCHANGED <<wsLoaded, revSeen, verSeen, target, snap>>
    /\ UNCHANGED <<dbVars, wsRevision>>

PublishNeeded(p) == revSeen[p] > wsRevision

(* update_workspace_state_revision, the part that reads: a lower revision  *)
(* raises (which fails an open, and fails a caller whose commit stands),   *)
(* an equal one is done.                                                   *)
SyncLoad(p) ==
    /\ pc[p] = "syncLoad"
    /\ \/ revSeen[p] < wsRevision /\ mode[p] = "opening" /\ Close(p)
       \/ /\ \/ revSeen[p] < wsRevision /\ mode[p] = "rw" /\ Goto(p, "idle") /\ UNCHANGED mode
             \/ /\ revSeen[p] >= wsRevision /\ ~PublishNeeded(p)
                /\ Goto(p, "idle") /\ SetMode(p, "rw")
             \/ /\ revSeen[p] >= wsRevision /\ PublishNeeded(p)
                /\ Goto(p, "syncWrite") /\ UNCHANGED mode
          /\ wsLoaded' = [wsLoaded EXCEPT ![p] = wsRevision]
          /\ UNCHANGED <<revSeen, verSeen, target, snap>>
    /\ UNCHANGED <<dbVars, wsRevision>>

(* The state_revision of the record written: model_copy's update. *)
PublishedRevision(p) == revSeen[p]

(* The part that writes: the file is replaced by the record that was       *)
(* loaded with the new revision, then loaded again.                        *)
SyncWrite(p) ==
    /\ pc[p] = "syncWrite"
    /\ wsRevision' = PublishedRevision(p)
    /\ wsLoaded' = [wsLoaded EXCEPT ![p] = PublishedRevision(p)]
    /\ Goto(p, "idle") /\ SetMode(p, "rw")
    /\ UNCHANGED <<dbVars, revSeen, verSeen, target, snap>>
-----------------------------------------------------------------------------
(* The revision _commit_state_revision reads back. *)
RevisionReadTwiceBumped == stateRevision + 2
RevisionReadBack == stateRevision + 1

(* _commit_state_revision, COMMIT, and on to _sync_after_commit. *)
CommitStateRevision(p) ==
    /\ stateRevision < MaxRevision
    /\ stateRevision' = stateRevision + 1
    /\ revSeen' = [revSeen EXCEPT ![p] = RevisionReadBack]
    /\ Goto(p, "syncLoad")

(* SELECT 1 FROM records WHERE id = ? finds nothing. *)
AnyIdentifier(r) == TRUE
IdentifierFree(r) == records[r].rev = 0

(* create_record: _require_write, then in the transaction the identifier   *)
(* must be new.                                                            *)
CreateRecord(p, r) ==
    /\ pc[p] = "idle" /\ mode[p] = "rw"
    /\ IdentifierFree(r)
    /\ records' = [records EXCEPT ![r].rev = 1]
    /\ CommitStateRevision(p)
    /\ UNCHANGED <<dbFile, schemaVersion, auditEvents, completed, failed,
                   wsRevision, mode, wsLoaded, verSeen, target, snap>>

(* get_record by a caller that will update: the copy it computes from and  *)
(* the revision it will pass as expected_revision.                         *)
GetRecord(p, r) ==
    /\ pc[p] = "idle" /\ mode[p] = "rw"
    /\ records[r].rev > 0
    /\ target' = [target EXCEPT ![p] = r]
    /\ snap' = [snap EXCEPT ![p] = records[r]]
    /\ Goto(p, "updateCheck")
    /\ UNCHANGED <<dbVars, wsRevision, mode, wsLoaded, revSeen, verSeen>>

(* update_record before its transaction: a stale revision, or new content  *)
(* for an instruction_origin record, is refused.                           *)
UpdateCheck(p) ==
    /\ pc[p] = "updateCheck"
    /\ \/ /\ records[target[p]].rev # snap[p].rev
          /\ Goto(p, "idle")
       \/ /\ records[target[p]].rev = snap[p].rev
          /\ Goto(p, "updateStatus")
       \/ /\ records[target[p]].rev = snap[p].rev
          /\ target[p] \notin OriginRecords
          /\ Goto(p, "updateContent")
    /\ UNCHANGED <<dbVars, wsRevision, mode, wsLoaded, revSeen, verSeen, target, snap>>

(* The row the caller computed from the copy it read. *)
UpdatedRow(p) ==
    [rev |-> records[target[p]].rev + 1,
     statusEdits |-> snap[p].statusEdits + (IF pc[p] = "updateStatus" THEN 1 ELSE 0),
     contentEdits |-> snap[p].contentEdits + (IF pc[p] = "updateContent" THEN 1 ELSE 0)]

(* UPDATE ... WHERE id = ? AND revision = ? *)
UpdateAnyRevision(p) == TRUE
UpdateMatches(p) == records[target[p]].rev = snap[p].rev

UpdateRecord(p) ==
    /\ pc[p] \in {"updateStatus", "updateContent"}
    /\ UpdateMatches(p)
    /\ records' = [records EXCEPT ![target[p]] = UpdatedRow(p)]
    /\ CommitStateRevision(p)
    /\ UNCHANGED <<dbFile, schemaVersion, auditEvents, completed, failed,
                   wsRevision, mode, wsLoaded, verSeen, target, snap>>

(* changes() is not 1: ROLLBACK, StaleRevisionError. *)
UpdateStale(p) ==
    /\ pc[p] \in {"updateStatus", "updateContent"}
    /\ ~UpdateMatches(p)
    /\ Goto(p, "idle")
    /\ UNCHANGED <<dbVars, wsRevision, mode, wsLoaded, revSeen, verSeen, target, snap>>

(* BEGIN IMMEDIATE timed out: the update raises and the handle stays open. *)
UpdateLockTimeout(p) ==
    /\ pc[p] \in {"updateStatus", "updateContent"}
    /\ Goto(p, "idle")
    /\ UNCHANGED <<dbVars, wsRevision, mode, wsLoaded, revSeen, verSeen, target, snap>>

(* AuditService.append *)
AppendAudit(p) ==
    /\ pc[p] = "idle" /\ mode[p] = "rw"
    /\ auditEvents' = auditEvents + 1
    /\ CommitStateRevision(p)
    /\ UNCHANGED <<dbFile, schemaVersion, records, completed, failed,
                   wsRevision, mode, wsLoaded, verSeen, target, snap>>

(* The process closes the repository, an open raises, or it dies: at any   *)
(* point, between a commit and its sync as well.                           *)
CloseOrCrash(p) ==
    /\ pc[p] # "closed"
    /\ Close(p)
    /\ UNCHANGED <<dbVars, wsRevision>>
-----------------------------------------------------------------------------
ProcStep(p) ==
    \/ BootstrapBegin(p) \/ BootstrapCommit(p) \/ BootstrapRollback(p)
    \/ OpenRead(p) \/ MigrateRead(p) \/ ApplyMigration(p) \/ FailMigration(p)
    \/ OpenRevision(p) \/ OpenSync(p) \/ SyncLoad(p) \/ SyncWrite(p)
    \/ UpdateCheck(p) \/ UpdateRecord(p) \/ UpdateStale(p) \/ UpdateLockTimeout(p)

Request(p) ==
    \/ InitializeStart(p)
    \/ \E m \in {"opening", "ro"} : OpenStart(p, m)
    \/ \E r \in Records : CreateRecord(p, r) \/ GetRecord(p, r)
    \/ AppendAudit(p)

Next == \E p \in Proc : ProcStep(p) \/ Request(p) \/ CloseOrCrash(p)

Spec == Init /\ [][Next]_vars

(* The same with a choice of who runs: all processes, or one of them alone. *)
VARIABLE crew

CrewInit == Init /\ crew \in {Proc} \union {{p} : p \in Proc}
CrewNext ==
    /\ \E p \in crew : ProcStep(p) \/ Request(p) \/ CloseOrCrash(p)
    /\ UNCHANGED crew

CrewSpec == CrewInit /\ [][CrewNext]_<<vars, crew>>
-----------------------------------------------------------------------------
StoreTypeOK ==
    /\ dbFile \in {"absent", "empty", "ready"}
    /\ schemaVersion \in 0..CurrentSchema
    /\ stateRevision \in Nat
    /\ records \in [Records -> RecordRow]
    /\ auditEvents \in Nat
    /\ completed \in [Versions -> Nat]
    /\ failed \in [Versions -> Nat]
    /\ wsRevision \in Nat

ControlTypeOK == pc \in [Proc -> PC] /\ mode \in [Proc -> Mode]

LocalTypeOK ==
    /\ wsLoaded \in [Proc -> Nat]
    /\ revSeen \in [Proc -> Nat]
    /\ verSeen \in [Proc -> 0..CurrentSchema]
    /\ target \in [Proc -> Records]
    /\ snap \in [Proc -> RecordRow]

TypeOK == StoreTypeOK /\ ControlTypeOK /\ LocalTypeOK

(* workspace.json never shows a revision the database has not committed,   *)
(* whatever interleaving or crash, so that the refusal "workspace state    *)
(* revision is ahead of the authoritative database" of an open can only    *)
(* mean tampering or a lost database: no process reaches the comparison    *)
(* with a loaded revision above the one it read.                           *)
WorkspaceNeverAhead ==
    /\ wsRevision <= stateRevision
    /\ \A p \in Proc : pc[p] = "openSync" => wsLoaded[p] <= revSeen[p]

(* No update of a record is lost: the row contains the effect of every     *)
(* update that was committed on it (revision 1 is the creation), and an    *)
(* instruction_origin row has the content it was created with.             *)
NoLostUpdate ==
    \A r \in Records :
        /\ records[r].rev > 0 =>
              records[r].rev = 1 + records[r].statusEdits + records[r].contentEdits
        /\ r \in OriginRecords => records[r].contentEdits = 0

(* Every migration below the schema version completed exactly once, and    *)
(* none at or above it, although several processes may migrate at once,    *)
(* fail and retry: migration_history and schema_version commit together.   *)
MigratedOnce ==
    \A v \in Versions : completed[v] = IF v < schemaVersion THEN 1 ELSE 0

(* A repository that is open for writing has the current schema, so no     *)
(* operation meets a missing table.                                        *)
WriterSchemaCurrent ==
    \A p \in Proc : mode[p] = "rw" => dbFile = "ready" /\ schemaVersion = CurrentSchema

(* Migrations, with processes that race, fail, crash and retry: each one   *)
(* happens once, and nobody writes before the last.                        *)
MigrationsSound == MigratedOnce /\ WriterSchemaCurrent

(* The repository implements the ledger its callers rely on: one record or *)
(* one audit event per revision, and a published revision that was reached. *)
Ledger == INSTANCE RevisionLedger WITH
    revisionOf <- [r \in Records |-> records[r].rev],
    auditCount <- auditEvents,
    revision <- stateRevision,
    published <- wsRevision

ImplementsLedger == Ledger!LedgerSpec

(* Whenever a repository open for writing is at rest, its revision is in   *)
(* workspace.json, and no sync is refused.                                 *)
SyncedWhenAtRest ==
    \A p \in Proc :
        /\ pc[p] = "syncLoad" => revSeen[p] >= wsRevision
        /\ pc[p] = "idle" /\ mode[p] = "rw" => wsRevision = stateRevision

(* One process alone keeps workspace.json in step, even when it dies       *)
(* between a commit and its sync and opens the repository again            *)
(* (_sync_after_commit, _sync_workspace_revision); two can take it back.   *)
SyncedAlone == \A p \in Proc : crew = {p} => SyncedWhenAtRest
-----------------------------------------------------------------------------
(***************************************************************************)
(* The inductive invariant behind the theorems of StateStoreProofs.        *)
(***************************************************************************)
Updating == {"updateCheck", "updateStatus", "updateContent"}

(* A process in the migration loop has a migration left to apply. *)
LoopInv == \A p \in Proc : pc[p] = "migrate" => verSeen[p] < CurrentSchema

(* A process past the migrations, and every writer, has a migrated file. *)
PhaseInv ==
    \A p \in Proc :
        /\ pc[p] \in {"migrateRead", "migrate"} => dbFile = "ready"
        /\ pc[p] \in {"openRevision", "openSync", "syncLoad", "syncWrite"} =>
              dbFile = "ready" /\ schemaVersion = CurrentSchema
        /\ pc[p] \in {"bootstrap", "bootstrapTxn", "migrateRead", "migrate",
                     "openRevision", "openSync"} => mode[p] # "ro"
        /\ mode[p] = "rw" => dbFile = "ready" /\ schemaVersion = CurrentSchema
        /\ pc[p] \in Updating => mode[p] = "rw"

(* Every revision a process remembers is one the database has committed. *)
SeenInv ==
    /\ wsRevision <= stateRevision
    /\ \A p \in Proc :
        /\ wsLoaded[p] <= stateRevision
        /\ revSeen[p] <= stateRevision
        /\ pc[p] = "openSync" => wsLoaded[p] <= revSeen[p]

(* The copy an updater holds is the row, as long as the revision is the    *)
(* same: revisions never come back.                                        *)
SnapInv ==
    \A p \in Proc :
        /\ pc[p] \in Updating =>
              /\ snap[p].rev > 0
              /\ snap[p].rev <= records[target[p]].rev
              /\ snap[p].rev = records[target[p]].rev => snap[p] = records[target[p]]
        /\ pc[p] = "updateContent" => target[p] \notin OriginRecords

(* The row's revision counts the edits it contains. *)
RowInv ==
    \A r \in Records :
        /\ records[r].rev = 0 => records[r] = NoRow
        /\ records[r].rev > 0 =>
              records[r].rev = 1 + records[r].statusEdits + records[r].contentEdits
        /\ r \in OriginRecords => records[r].contentEdits = 0

IInv == TypeOK /\ LoopInv /\ PhaseInv /\ SeenInv /\ SnapInv /\ RowInv /\ MigratedOnce

(* A process alone: what it has loaded and seen is what there is, and      *)
(* workspace.json is behind only on the way to a sync.                     *)
AloneInv ==
    \A p \in Proc : crew = {p} =>
        /\ \A q \in Proc \ {p} : pc[q] = "closed"
        /\ pc[p] # "closed" => wsLoaded[p] = wsRevision
        /\ pc[p] \in {"openSync", "syncLoad", "syncWrite"} => revSeen[p] = stateRevision
        /\ pc[p] \in {"idle"} \union Updating /\ mode[p] = "rw" => wsRevision = stateRevision
=============================================================================
