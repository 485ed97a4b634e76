-------------------------- MODULE StateStoreProofs --------------------------
(***************************************************************************)
(* Proofs about StateStore, for any set of processes and of records, any   *)
(* number of schema versions and any bounds.  IInv is proved inductive one *)
(* conjunct at a time, each lemma having one step per action.              *)
(***************************************************************************)
EXTENDS StateStore, TLAPS

(* A fresh process's target is a record. *)
LEMMA AnyRecordType == AnyRecord \in Records
  BY StoreAssumption DEF AnyRecord

(* The row of a record that does not exist is a row. *)
LEMMA NoRowType == NoRow \in RecordRow
  BY DEF NoRow, RecordRow

(* The initial state satisfies the inductive invariant. *)
LEMMA InitIInv == Init => IInv
  <1> SUFFICES ASSUME Init PROVE IInv
    OBVIOUS
  <1> USE StoreAssumption, AnyRecordType
  <1>1. TypeOK
    BY DEF Init, TypeOK, StoreTypeOK, ControlTypeOK, LocalTypeOK, Versions, RecordRow, NoRow, PC, Mode
  <1>2. LoopInv /\ PhaseInv /\ SeenInv /\ SnapInv
    BY DEF Init, LoopInv, PhaseInv, SeenInv, SnapInv, Updating
  <1>3. RowInv /\ MigratedOnce
    BY DEF Init, RowInv, NoRow, MigratedOnce, Versions
  <1>4. QED
    BY <1>1, <1>2, <1>3 DEF IInv

(* Every step keeps the database and workspace.json within their types. *)
LEMMA StoreTypeStep ==
    ASSUME TypeOK, LoopInv, [Next]_vars
    PROVE  StoreTypeOK'
  <1> USE StoreAssumption, AnyRecordType, NoRowType
  <1>1. CASE UNCHANGED vars
    BY <1>1 DEF vars, dbVars, procVars, TypeOK, StoreTypeOK, ControlTypeOK,
      LocalTypeOK, Versions, LoopInv
  <1>2. ASSUME NEW p \in Proc, ProcStep(p) \/ Request(p) \/ CloseOrCrash(p)
        PROVE  StoreTypeOK'
    <2>1. CASE InitializeStart(p)
      BY <2>1 DEF InitializeStart, Goto, SetMode, dbVars, TypeOK, StoreTypeOK,
        ControlTypeOK, LocalTypeOK, Versions, LoopInv
    <2>2. CASE BootstrapBegin(p)
      BY <2>2 DEF BootstrapBegin, Goto, SetMode, dbVars, TypeOK, StoreTypeOK,
        ControlTypeOK, LocalTypeOK, Versions, LoopInv
    <2>3. CASE BootstrapCommit(p)
      BY <2>3 DEF BootstrapCommit, Goto, SetMode, dbVars, TypeOK, StoreTypeOK,
        ControlTypeOK, LocalTypeOK, Versions, LoopInv
    <2>4. CASE BootstrapRollback(p)
      BY <2>4 DEF BootstrapRollback, Goto, SetMode, Close, Forget, dbVars,
        TypeOK, StoreTypeOK, ControlTypeOK, LocalTypeOK, Versions, LoopInv
    <2>5. CASE \E m \in {"opening", "ro"} : OpenStart(p, m)
      BY <2>5 DEF OpenStart, Goto, SetMode, dbVars, TypeOK, StoreTypeOK,
        ControlTypeOK, LocalTypeOK, Versions, LoopInv
    <2>6. CASE OpenRead(p)
      BY <2>6 DEF OpenRead, Goto, SetMode, AfterIdentity, MigrationPending,
        Close, Forget, dbVars, TypeOK, StoreTypeOK, ControlTypeOK,
        LocalTypeOK, Versions, LoopInv
    <2>7. CASE MigrateRead(p)
      BY <2>7 DEF MigrateRead, Goto, SetMode, MigrationPending, dbVars,
        TypeOK, StoreTypeOK, ControlTypeOK, LocalTypeOK, Versions, LoopInv
    <2>8. CASE ApplyMigration(p)
      <3>1. verSeen[p] \in Versions /\ verSeen[p] + 1 \in 0..CurrentSchema
        BY <2>8 DEF ApplyMigration, TypeOK, LocalTypeOK, LoopInv, Versions
      <3>2. completed' \in [Versions -> Nat]
        BY <2>8, <3>1 DEF ApplyMigration, TypeOK, StoreTypeOK
      <3>3. QED
        BY <2>8, <3>1, <3>2 DEF ApplyMigration, TypeOK, StoreTypeOK
    <2>9. CASE FailMigration(p)
      BY <2>9 DEF FailMigration, Goto, SetMode, SchemaAsExpected, Close,
        Forget, dbVars, TypeOK, StoreTypeOK, ControlTypeOK, LocalTypeOK,
        Versions, LoopInv
    <2>10. CASE OpenRevision(p)
      BY <2>10 DEF OpenRevision, Goto, SetMode, dbVars, TypeOK, StoreTypeOK,
        ControlTypeOK, LocalTypeOK, Versions, LoopInv
    <2>11. CASE OpenSync(p)
      BY <2>11 DEF OpenSync, Goto, SetMode, RepairNeeded, Close, Forget,
        dbVars, TypeOK, StoreTypeOK, ControlTypeOK, LocalTypeOK, Versions,
        LoopInv
    <2>12. CASE SyncLoad(p)
      BY <2>12 DEF SyncLoad, Goto, SetMode, PublishNeeded, Close, Forget,
        dbVars, TypeOK, StoreTypeOK, ControlTypeOK, LocalTypeOK, Versions,
        LoopInv
    <2>13. CASE SyncWrite(p)
      BY <2>13 DEF SyncWrite, Goto, SetMode, PublishedRevision, dbVars,
        TypeOK, StoreTypeOK, ControlTypeOK, LocalTypeOK, Versions, LoopInv
    <2>14. CASE \E r \in Records : CreateRecord(p, r)
      <3>1. PICK r \in Records : CreateRecord(p, r)
        BY <2>14
      <3>2. records[r] \in RecordRow /\ [records[r] EXCEPT !.rev = 1] \in RecordRow
        BY DEF TypeOK, StoreTypeOK, RecordRow
      <3>3. records' = [records EXCEPT ![r] = [records[r] EXCEPT !.rev = 1]]
        BY <3>1 DEF CreateRecord, TypeOK, StoreTypeOK
      <3>4. records' \in [Records -> RecordRow]
        BY <3>2, <3>3 DEF TypeOK, StoreTypeOK
      <3>5. QED
        BY <3>1, <3>4 DEF CreateRecord, CommitStateRevision, TypeOK, StoreTypeOK
    <2>15. CASE \E r \in Records : GetRecord(p, r)
      BY <2>15 DEF GetRecord, Goto, SetMode, dbVars, TypeOK, StoreTypeOK,
        ControlTypeOK, LocalTypeOK, Versions, LoopInv
    <2>16. CASE UpdateCheck(p)
      BY <2>16 DEF UpdateCheck, Goto, SetMode, dbVars, TypeOK, StoreTypeOK,
        ControlTypeOK, LocalTypeOK, Versions, LoopInv
    <2>17. CASE UpdateRecord(p)
      <3>1. records[target[p]] \in RecordRow /\ snap[p] \in RecordRow
        BY DEF TypeOK, StoreTypeOK, LocalTypeOK
      <3>2. UpdatedRow(p) \in RecordRow
        BY <3>1 DEF UpdatedRow, RecordRow
      <3>3. records' \in [Records -> RecordRow]
        BY <2>17, <3>2 DEF UpdateRecord, TypeOK, StoreTypeOK
      <3>4. QED
        BY <2>17, <3>3 DEF UpdateRecord, CommitStateRevision, TypeOK, StoreTypeOK
    <2>18. CASE UpdateStale(p)
      BY <2>18 DEF UpdateStale, Goto, SetMode, UpdateMatches, dbVars, TypeOK,
        StoreTypeOK, ControlTypeOK, LocalTypeOK, Versions, LoopInv
    <2>19. CASE UpdateLockTimeout(p)
      BY <2>19 DEF UpdateLockTimeout, Goto, SetMode, dbVars, TypeOK,
        StoreTypeOK, ControlTypeOK, LocalTypeOK, Versions, LoopInv
    <2>20. CASE AppendAudit(p)
      BY <2>20 DEF AppendAudit, Goto, SetMode, CommitStateRevision,
        RevisionReadBack, dbVars, TypeOK, StoreTypeOK, ControlTypeOK,
        LocalTypeOK, Versions, LoopInv
    <2>21. CASE CloseOrCrash(p)
      BY <2>21 DEF CloseOrCrash, Goto, SetMode, Close, Forget, dbVars, TypeOK,
        StoreTypeOK, ControlTypeOK, LocalTypeOK, Versions, LoopInv
    <2>q. QED
      BY <1>2, <2>1, <2>2, <2>3, <2>4, <2>5, <2>6, <2>7, <2>8, <2>9, <2>10,
        <2>11, <2>12, <2>13, <2>14, <2>15, <2>16, <2>17, <2>18, <2>19, <2>20,
        <2>21 DEF ProcStep, Request
  <1>3. QED
    BY <1>1, <1>2 DEF Next

(* Every step goes to a known place in a known mode. *)
LEMMA ControlTypeStep ==
    ASSUME TypeOK, [Next]_vars
    PROVE  ControlTypeOK'
  <1> USE StoreAssumption, AnyRecordType, NoRowType
  <1>1. CASE UNCHANGED vars
    BY <1>1 DEF vars, dbVars, procVars, TypeOK, ControlTypeOK, PC, Mode
  <1>2. ASSUME NEW p \in Proc, ProcStep(p) \/ Request(p) \/ CloseOrCrash(p)
        PROVE  ControlTypeOK'
    <2>1. CASE InitializeStart(p)
      BY <2>1 DEF InitializeStart, Goto, SetMode, dbVars, TypeOK,
        ControlTypeOK, PC, Mode
    <2>2. CASE BootstrapBegin(p)
      BY <2>2 DEF BootstrapBegin, Goto, SetMode, dbVars, TypeOK,
        ControlTypeOK, PC, Mode
    <2>3. CASE BootstrapCommit(p)
      BY <2>3 DEF BootstrapCommit, Goto, SetMode, dbVars, TypeOK,
        ControlTypeOK, PC, Mode
    <2>4. CASE BootstrapRollback(p)
      BY <2>4 DEF BootstrapRollback, Goto, SetMode, Close, Forget, dbVars,
        TypeOK, ControlTypeOK, PC, Mode
    <2>5. CASE \E m \in {"opening", "ro"} : OpenStart(p, m)
      BY <2>5 DEF OpenStart, Goto, SetMode, dbVars, TypeOK, ControlTypeOK, PC,
        Mode
    <2>6. CASE OpenRead(p)
      BY <2>6 DEF OpenRead, Goto, SetMode, AfterIdentity, MigrationPending,
        Close, Forget, dbVars, TypeOK, ControlTypeOK, PC, Mode
    <2>7. CASE MigrateRead(p)
      BY <2>7 DEF MigrateRead, Goto, SetMode, MigrationPending, dbVars,
        TypeOK, ControlTypeOK, PC, Mode
    <2>8. CASE ApplyMigration(p)
      BY <2>8 DEF ApplyMigration, Goto, SetMode, MigrationPending,
        SchemaAsExpected, dbVars, TypeOK, ControlTypeOK, PC, Mode
    <2>9. CASE FailMigration(p)
      BY <2>9 DEF FailMigration, Goto, SetMode, SchemaAsExpected, Close,
        Forget, dbVars, TypeOK, ControlTypeOK, PC, Mode
    <2>10. CASE OpenRevision(p)
      BY <2>10 DEF OpenRevision, Goto, SetMode, dbVars, TypeOK, ControlTypeOK,
        PC, Mode
    <2>11. CASE OpenSync(p)
      BY <2>11 DEF OpenSync, Goto, SetMode, RepairNeeded, Close, Forget,
        dbVars, TypeOK, ControlTypeOK, PC, Mode
    <2>12. CASE SyncLoad(p)
      BY <2>12 DEF SyncLoad, Goto, SetMode, PublishNeeded, Close, Forget,
        dbVars, TypeOK, ControlTypeOK, PC, Mode
    <2>13. CASE SyncWrite(p)
      BY <2>13 DEF SyncWrite, Goto, SetMode, PublishedRevision, dbVars,
        TypeOK, ControlTypeOK, PC, Mode
    <2>14. CASE \E r \in Records : CreateRecord(p, r)
      BY <2>14 DEF CreateRecord, Goto, SetMode, IdentifierFree,
        CommitStateRevision, RevisionReadBack, dbVars, TypeOK, ControlTypeOK,
        PC, Mode
    <2>15. CASE \E r \in Records : GetRecord(p, r)
      BY <2>15 DEF GetRecord, Goto, SetMode, dbVars, TypeOK, ControlTypeOK,
        PC, Mode
    <2>16. CASE UpdateCheck(p)
      BY <2>16 DEF UpdateCheck, Goto, SetMode, dbVars, TypeOK, ControlTypeOK,
        PC, Mode
    <2>17. CASE UpdateRecord(p)
      BY <2>17 DEF UpdateRecord, Goto, SetMode, CommitStateRevision,
        RevisionReadBack, dbVars, TypeOK, ControlTypeOK, PC, Mode
    <2>18. CASE UpdateStale(p)
      BY <2>18 DEF UpdateStale, Goto, SetMode, UpdateMatches, dbVars, TypeOK,
        ControlTypeOK, PC, Mode
    <2>19. CASE UpdateLockTimeout(p)
      BY <2>19 DEF UpdateLockTimeout, Goto, SetMode, dbVars, TypeOK,
        ControlTypeOK, PC, Mode
    <2>20. CASE AppendAudit(p)
      BY <2>20 DEF AppendAudit, Goto, SetMode, CommitStateRevision,
        RevisionReadBack, dbVars, TypeOK, ControlTypeOK, PC, Mode
    <2>21. CASE CloseOrCrash(p)
      BY <2>21 DEF CloseOrCrash, Goto, SetMode, Close, Forget, dbVars, TypeOK,
        ControlTypeOK, PC, Mode
    <2>q. QED
      BY <1>2, <2>1, <2>2, <2>3, <2>4, <2>5, <2>6, <2>7, <2>8, <2>9, <2>10,
        <2>11, <2>12, <2>13, <2>14, <2>15, <2>16, <2>17, <2>18, <2>19, <2>20,
        <2>21 DEF ProcStep, Request
  <1>3. QED
    BY <1>1, <1>2 DEF Next

(* Every step keeps the processes' locals within their types. *)
LEMMA LocalTypeStep ==
    ASSUME TypeOK, LoopInv, [Next]_vars
    PROVE  LocalTypeOK'
  <1> USE StoreAssumption, AnyRecordType, NoRowType
  <1>1. CASE UNCHANGED vars
    BY <1>1 DEF vars, dbVars, procVars, TypeOK, StoreTypeOK, ControlTypeOK,
      LocalTypeOK, LoopInv
  <1>2. ASSUME NEW p \in Proc, ProcStep(p) \/ Request(p) \/ CloseOrCrash(p)
        PROVE  LocalTypeOK'
    <2>1. CASE InitializeStart(p)
      BY <2>1 DEF InitializeStart, Goto, SetMode, dbVars, TypeOK, StoreTypeOK,
        ControlTypeOK, LocalTypeOK, LoopInv
    <2>2. CASE BootstrapBegin(p)
      BY <2>2 DEF BootstrapBegin, Goto, SetMode, dbVars, TypeOK, StoreTypeOK,
        ControlTypeOK, LocalTypeOK, LoopInv
    <2>3. CASE BootstrapCommit(p)
      BY <2>3 DEF BootstrapCommit, Goto, SetMode, dbVars, TypeOK, StoreTypeOK,
        ControlTypeOK, LocalTypeOK, LoopInv
    <2>4. CASE BootstrapRollback(p)
      BY <2>4 DEF BootstrapRollback, Goto, SetMode, Close, Forget, dbVars,
        TypeOK, StoreTypeOK, ControlTypeOK, LocalTypeOK, LoopInv
    <2>5. CASE \E m \in {"opening", "ro"} : OpenStart(p, m)
      BY <2>5 DEF OpenStart, Goto, SetMode, dbVars, TypeOK, StoreTypeOK,
        ControlTypeOK, LocalTypeOK, LoopInv
    <2>6. CASE OpenRead(p)
      BY <2>6 DEF OpenRead, Goto, SetMode, AfterIdentity, MigrationPending,
        Close, Forget, dbVars, TypeOK, StoreTypeOK, ControlTypeOK,
        LocalTypeOK, LoopInv
    <2>7. CASE MigrateRead(p)
      BY <2>7 DEF MigrateRead, Goto, SetMode, MigrationPending, dbVars,
        TypeOK, StoreTypeOK, ControlTypeOK, LocalTypeOK, LoopInv
    <2>8. CASE ApplyMigration(p)
      BY <2>8 DEF ApplyMigration, Goto, SetMode, MigrationPending,
        SchemaAsExpected, dbVars, TypeOK, StoreTypeOK, ControlTypeOK,
        LocalTypeOK, LoopInv
    <2>9. CASE FailMigration(p)
      BY <2>9 DEF FailMigration, Goto, SetMode, SchemaAsExpected, Close,
        Forget, dbVars, TypeOK, StoreTypeOK, ControlTypeOK, LocalTypeOK,
        LoopInv
    <2>10. CASE OpenRevision(p)
      BY <2>10 DEF OpenRevision, Goto, SetMode, dbVars, TypeOK, StoreTypeOK,
        ControlTypeOK, LocalTypeOK, LoopInv
    <2>11. CASE OpenSync(p)
      BY <2>11 DEF OpenSync, Goto, SetMode, RepairNeeded, Close, Forget,
        dbVars, TypeOK, StoreTypeOK, ControlTypeOK, LocalTypeOK, LoopInv
    <2>12. CASE SyncLoad(p)
      BY <2>12 DEF SyncLoad, Goto, SetMode, PublishNeeded, Close, Forget,
        dbVars, TypeOK, StoreTypeOK, ControlTypeOK, LocalTypeOK, LoopInv
    <2>13. CASE SyncWrite(p)
      BY <2>13 DEF SyncWrite, Goto, SetMode, PublishedRevision, dbVars,
        TypeOK, StoreTypeOK, ControlTypeOK, LocalTypeOK, LoopInv
    <2>14. CASE \E r \in Records : CreateRecord(p, r)
      BY <2>14 DEF CreateRecord, Goto, SetMode, IdentifierFree,
        CommitStateRevision, RevisionReadBack, dbVars, TypeOK, StoreTypeOK,
        ControlTypeOK, LocalTypeOK, LoopInv
    <2>15. CASE \E r \in Records : GetRecord(p, r)
      BY <2>15 DEF GetRecord, Goto, SetMode, dbVars, TypeOK, StoreTypeOK,
        ControlTypeOK, LocalTypeOK, LoopInv
    <2>16. CASE UpdateCheck(p)
      BY <2>16 DEF UpdateCheck, Goto, SetMode, dbVars, TypeOK, StoreTypeOK,
        ControlTypeOK, LocalTypeOK, LoopInv
    <2>17. CASE UpdateRecord(p)
      BY <2>17 DEF UpdateRecord, Goto, SetMode, CommitStateRevision,
        RevisionReadBack, dbVars, TypeOK, StoreTypeOK, ControlTypeOK,
        LocalTypeOK, LoopInv
    <2>18. CASE UpdateStale(p)
      BY <2>18 DEF UpdateStale, Goto, SetMode, UpdateMatches, dbVars, TypeOK,
        StoreTypeOK, ControlTypeOK, LocalTypeOK, LoopInv
    <2>19. CASE UpdateLockTimeout(p)
      BY <2>19 DEF UpdateLockTimeout, Goto, SetMode, dbVars, TypeOK,
        StoreTypeOK, ControlTypeOK, LocalTypeOK, LoopInv
    <2>20. CASE AppendAudit(p)
      BY <2>20 DEF AppendAudit, Goto, SetMode, CommitStateRevision,
        RevisionReadBack, dbVars, TypeOK, StoreTypeOK, ControlTypeOK,
        LocalTypeOK, LoopInv
    <2>21. CASE CloseOrCrash(p)
      BY <2>21 DEF CloseOrCrash, Goto, SetMode, Close, Forget, dbVars, TypeOK,
        StoreTypeOK, ControlTypeOK, LocalTypeOK, LoopInv
    <2>q. QED
      BY <1>2, <2>1, <2>2, <2>3, <2>4, <2>5, <2>6, <2>7, <2>8, <2>9, <2>10,
        <2>11, <2>12, <2>13, <2>14, <2>15, <2>16, <2>17, <2>18, <2>19, <2>20,
        <2>21 DEF ProcStep, Request
  <1>3. QED
    BY <1>1, <1>2 DEF Next

(* apply_migrations never loops past the current schema. *)
LEMMA LoopStep ==
    ASSUME TypeOK, LoopInv, [Next]_vars
    PROVE  LoopInv'
  <1> USE StoreAssumption
  <1>1. CASE UNCHANGED vars
    BY <1>1 DEF vars, dbVars, procVars, TypeOK, StoreTypeOK, ControlTypeOK,
      LocalTypeOK, Versions, LoopInv
  <1>2. ASSUME NEW p \in Proc, ProcStep(p) \/ Request(p) \/ CloseOrCrash(p)
        PROVE  LoopInv'
    <2>1. CASE InitializeStart(p)
      BY <2>1 DEF InitializeStart, Goto, SetMode, dbVars, TypeOK, StoreTypeOK,
        ControlTypeOK, LocalTypeOK, Versions, LoopInv
    <2>2. CASE BootstrapBegin(p)
      BY <2>2 DEF BootstrapBegin, Goto, SetMode, dbVars, TypeOK, StoreTypeOK,
        ControlTypeOK, LocalTypeOK, Versions, LoopInv
    <2>3. CASE BootstrapCommit(p)
      BY <2>3 DEF BootstrapCommit, Goto, SetMode, dbVars, TypeOK, StoreTypeOK,
        ControlTypeOK, LocalTypeOK, Versions, LoopInv
    <2>4. CASE BootstrapRollback(p)
      BY <2>4 DEF BootstrapRollback, Goto, SetMode, Close, Forget, dbVars,
        TypeOK, StoreTypeOK, ControlTypeOK, LocalTypeOK, Versions, LoopInv
    <2>5. CASE \E m \in {"opening", "ro"} : OpenStart(p, m)
      BY <2>5 DEF OpenStart, Goto, SetMode, dbVars, TypeOK, StoreTypeOK,
        ControlTypeOK, LocalTypeOK, Versions, LoopInv
    <2>6. CASE OpenRead(p)
      BY <2>6 DEF OpenRead, Goto, SetMode, AfterIdentity, MigrationPending,
        Close, Forget, dbVars, TypeOK, StoreTypeOK, ControlTypeOK,
        LocalTypeOK, Versions, LoopInv
    <2>7. CASE MigrateRead(p)
      BY <2>7 DEF MigrateRead, Goto, SetMode, MigrationPending, dbVars,
        TypeOK, StoreTypeOK, ControlTypeOK, LocalTypeOK, Versions, LoopInv
    <2>8. CASE ApplyMigration(p)
      BY <2>8 DEF ApplyMigration, Goto, SetMode, MigrationPending,
        SchemaAsExpected, dbVars, TypeOK, StoreTypeOK, ControlTypeOK,
        LocalTypeOK, Versions, LoopInv
    <2>9. CASE FailMigration(p)
      BY <2>9 DEF FailMigration, Goto, SetMode, SchemaAsExpected, Close,
        Forget, dbVars, TypeOK, StoreTypeOK, ControlTypeOK, LocalTypeOK,
        Versions, LoopInv
    <2>10. CASE OpenRevision(p)
      BY <2>10 DEF OpenRevision, Goto, SetMode, dbVars, TypeOK, StoreTypeOK,
        ControlTypeOK, LocalTypeOK, Versions, LoopInv
    <2>11. CASE OpenSync(p)
      BY <2>11 DEF OpenSync, Goto, SetMode, RepairNeeded, Close, Forget,
        dbVars, TypeOK, StoreTypeOK, ControlTypeOK, LocalTypeOK, Versions,
        LoopInv
    <2>12. CASE SyncLoad(p)
      BY <2>12 DEF SyncLoad, Goto, SetMode, PublishNeeded, Close, Forget,
        dbVars, TypeOK, StoreTypeOK, ControlTypeOK, LocalTypeOK, Versions,
        LoopInv
    <2>13. CASE SyncWrite(p)
      BY <2>13 DEF SyncWrite, Goto, SetMode, PublishedRevision, dbVars,
        TypeOK, StoreTypeOK, ControlTypeOK, LocalTypeOK, Versions, LoopInv
    <2>14. CASE \E r \in Records : CreateRecord(p, r)
      BY <2>14 DEF CreateRecord, Goto, SetMode, IdentifierFree,
        CommitStateRevision, RevisionReadBack, dbVars, TypeOK, StoreTypeOK,
        ControlTypeOK, LocalTypeOK, Versions, LoopInv
    <2>15. CASE \E r \in Records : GetRecord(p, r)
      BY <2>15 DEF GetRecord, Goto, SetMode, dbVars, TypeOK, StoreTypeOK,
        ControlTypeOK, LocalTypeOK, Versions, LoopInv
    <2>16. CASE UpdateCheck(p)
      BY <2>16 DEF UpdateCheck, Goto, SetMode, dbVars, TypeOK, StoreTypeOK,
        ControlTypeOK, LocalTypeOK, Versions, LoopInv
    <2>17. CASE UpdateRecord(p)
      BY <2>17 DEF UpdateRecord, Goto, SetMode, UpdatedRow, UpdateMatches,
        CommitStateRevision, RevisionReadBack, dbVars, TypeOK, StoreTypeOK,
        ControlTypeOK, LocalTypeOK, Versions, LoopInv
    <2>18. CASE UpdateStale(p)
      BY <2>18 DEF UpdateStale, Goto, SetMode, UpdateMatches, dbVars, TypeOK,
        StoreTypeOK, ControlTypeOK, LocalTypeOK, Versions, LoopInv
    <2>19. CASE UpdateLockTimeout(p)
      BY <2>19 DEF UpdateLockTimeout, Goto, SetMode, dbVars, TypeOK,
        StoreTypeOK, ControlTypeOK, LocalTypeOK, Versions, LoopInv
    <2>20. CASE AppendAudit(p)
      BY <2>20 DEF AppendAudit, Goto, SetMode, CommitStateRevision,
        RevisionReadBack, dbVars, TypeOK, StoreTypeOK, ControlTypeOK,
        LocalTypeOK, Versions, LoopInv
    <2>21. CASE CloseOrCrash(p)
      BY <2>21 DEF CloseOrCrash, Goto, SetMode, Close, Forget, dbVars, TypeOK,
        StoreTypeOK, ControlTypeOK, LocalTypeOK, Versions, LoopInv
    <2>q. QED
      BY <1>2, <2>1, <2>2, <2>3, <2>4, <2>5, <2>6, <2>7, <2>8, <2>9, <2>10,
        <2>11, <2>12, <2>13, <2>14, <2>15, <2>16, <2>17, <2>18, <2>19, <2>20,
        <2>21 DEF ProcStep, Request
  <1>3. QED
    BY <1>1, <1>2 DEF Next

(* No step undoes the migration a writer or an opening process relies on. *)
LEMMA PhaseStep ==
    ASSUME TypeOK, LoopInv, PhaseInv, [Next]_vars
    PROVE  PhaseInv'
  <1> USE StoreAssumption
  <1>1. CASE UNCHANGED vars
    BY <1>1 DEF vars, dbVars, procVars, TypeOK, StoreTypeOK, ControlTypeOK,
      LocalTypeOK, LoopInv, PhaseInv, Updating
  <1>2. ASSUME NEW p \in Proc, ProcStep(p) \/ Request(p) \/ CloseOrCrash(p)
        PROVE  PhaseInv'
    <2>1. CASE InitializeStart(p)
      BY <2>1 DEF InitializeStart, Goto, SetMode, dbVars, TypeOK, StoreTypeOK,
        ControlTypeOK, LocalTypeOK, LoopInv, PhaseInv, Updating
    <2>2. CASE BootstrapBegin(p)
      BY <2>2 DEF BootstrapBegin, Goto, SetMode, dbVars, TypeOK, StoreTypeOK,
        ControlTypeOK, LocalTypeOK, LoopInv, PhaseInv, Updating
    <2>3. CASE BootstrapCommit(p)
      BY <2>3 DEF BootstrapCommit, Goto, SetMode, dbVars, TypeOK, StoreTypeOK,
        ControlTypeOK, LocalTypeOK, LoopInv, PhaseInv, Updating
    <2>4. CASE BootstrapRollback(p)
      BY <2>4 DEF BootstrapRollback, Goto, SetMode, Close, Forget, dbVars,
        TypeOK, StoreTypeOK, ControlTypeOK, LocalTypeOK, LoopInv, PhaseInv,
        Updating
    <2>5. CASE \E m \in {"opening", "ro"} : OpenStart(p, m)
      BY <2>5 DEF OpenStart, Goto, SetMode, dbVars, TypeOK, StoreTypeOK,
        ControlTypeOK, LocalTypeOK, LoopInv, PhaseInv, Updating
    <2>6. CASE OpenRead(p)
      <3>1. CASE Close(p)
        BY <2>6, <3>1 DEF OpenRead, Close, Goto, SetMode, dbVars, PhaseInv, Updating,
          TypeOK, ControlTypeOK
      <3>2. CASE ~Close(p)
        <4>1. /\ dbFile = "ready" /\ pc' = [pc EXCEPT ![p] = AfterIdentity(p)]
              /\ UNCHANGED <<mode, dbFile, schemaVersion>>
          BY <2>6, <3>2 DEF OpenRead, Goto, dbVars
        <4>2. /\ AfterIdentity(p) \in {"idle", "migrateRead", "openSync"}
              /\ AfterIdentity(p) # "idle" => mode[p] # "ro"
              /\ AfterIdentity(p) = "openSync" => schemaVersion = CurrentSchema
          BY DEF AfterIdentity, MigrationPending, TypeOK, StoreTypeOK
        <4>3. QED
          BY <4>1, <4>2 DEF PhaseInv, Updating, TypeOK, ControlTypeOK
      <3>3. QED
        BY <3>1, <3>2
    <2>7. CASE MigrateRead(p)
      <3>1. ~MigrationPending(schemaVersion) => schemaVersion = CurrentSchema
        BY DEF MigrationPending, TypeOK, StoreTypeOK
      <3>2. QED
        BY <2>7, <3>1 DEF MigrateRead, Goto, dbVars, PhaseInv, Updating, TypeOK, ControlTypeOK
    <2>8. CASE ApplyMigration(p)
      <3>1. /\ schemaVersion = verSeen[p] /\ schemaVersion < CurrentSchema
            /\ schemaVersion' = schemaVersion + 1 /\ dbFile = "ready"
        BY <2>8 DEF ApplyMigration, SchemaAsExpected, LoopInv, PhaseInv
      <3>2. ~MigrationPending(verSeen[p] + 1) => schemaVersion' = CurrentSchema
        BY <3>1 DEF MigrationPending, TypeOK, StoreTypeOK
      <3>3. QED
        BY <2>8, <3>1, <3>2 DEF ApplyMigration, Goto, PhaseInv, Updating, TypeOK, ControlTypeOK
    <2>9. CASE FailMigration(p)
      BY <2>9 DEF FailMigration, Goto, SetMode, SchemaAsExpected, Close,
        Forget, dbVars, TypeOK, StoreTypeOK, ControlTypeOK, LocalTypeOK,
        LoopInv, PhaseInv, Updating
    <2>10. CASE OpenRevision(p)
      BY <2>10 DEF OpenRevision, Goto, SetMode, dbVars, TypeOK, StoreTypeOK,
        ControlTypeOK, LocalTypeOK, LoopInv, PhaseInv, Updating
    <2>11. CASE OpenSync(p)
      BY <2>11 DEF OpenSync, Goto, SetMode, RepairNeeded, Close, Forget,
        dbVars, TypeOK, StoreTypeOK, ControlTypeOK, LocalTypeOK, LoopInv,
        PhaseInv, Updating
    <2>12. CASE SyncLoad(p)
      BY <2>12 DEF SyncLoad, Goto, SetMode, PublishNeeded, Close, Forget,
        dbVars, TypeOK, StoreTypeOK, ControlTypeOK, LocalTypeOK, LoopInv,
        PhaseInv, Updating
    <2>13. CASE SyncWrite(p)
      BY <2>13 DEF SyncWrite, Goto, SetMode, PublishedRevision, dbVars,
        TypeOK, StoreTypeOK, ControlTypeOK, LocalTypeOK, LoopInv, PhaseInv,
        Updating
    <2>14. CASE \E r \in Records : CreateRecord(p, r)
      BY <2>14 DEF CreateRecord, Goto, SetMode, IdentifierFree,
        CommitStateRevision, RevisionReadBack, dbVars, TypeOK, StoreTypeOK,
        ControlTypeOK, LocalTypeOK, LoopInv, PhaseInv, Updating
    <2>15. CASE \E r \in Records : GetRecord(p, r)
      BY <2>15 DEF GetRecord, Goto, SetMode, dbVars, TypeOK, StoreTypeOK,
        ControlTypeOK, LocalTypeOK, LoopInv, PhaseInv, Updating
    <2>16. CASE UpdateCheck(p)
      BY <2>16 DEF UpdateCheck, Goto, SetMode, dbVars, TypeOK, StoreTypeOK,
        ControlTypeOK, LocalTypeOK, LoopInv, PhaseInv, Updating
    <2>17. CASE UpdateRecord(p)
      BY <2>17 DEF UpdateRecord, Goto, SetMode, UpdateMatches,
        CommitStateRevision, RevisionReadBack, dbVars, TypeOK, StoreTypeOK,
        ControlTypeOK, LocalTypeOK, LoopInv, PhaseInv, Updating
    <2>18. CASE UpdateStale(p)
      BY <2>18 DEF UpdateStale, Goto, SetMode, UpdateMatches, dbVars, TypeOK,
        StoreTypeOK, ControlTypeOK, LocalTypeOK, LoopInv, PhaseInv, Updating
    <2>19. CASE UpdateLockTimeout(p)
      BY <2>19 DEF UpdateLockTimeout, Goto, SetMode, dbVars, TypeOK,
        StoreTypeOK, ControlTypeOK, LocalTypeOK, LoopInv, PhaseInv, Updating
    <2>20. CASE AppendAudit(p)
      BY <2>20 DEF AppendAudit, Goto, SetMode, CommitStateRevision,
        RevisionReadBack, dbVars, TypeOK, StoreTypeOK, ControlTypeOK,
        LocalTypeOK, LoopInv, PhaseInv, Updating
    <2>21. CASE CloseOrCrash(p)
      BY <2>21 DEF CloseOrCrash, Goto, SetMode, Close, Forget, dbVars, TypeOK,
        StoreTypeOK, ControlTypeOK, LocalTypeOK, LoopInv, PhaseInv, Updating
    <2>q. QED
      BY <1>2, <2>1, <2>2, <2>3, <2>4, <2>5, <2>6, <2>7, <2>8, <2>9, <2>10,
        <2>11, <2>12, <2>13, <2>14, <2>15, <2>16, <2>17, <2>18, <2>19, <2>20,
        <2>21 DEF ProcStep, Request
  <1>3. QED
    BY <1>1, <1>2 DEF Next

(* The database's revision only grows, so remembered revisions stay reached. *)
LEMMA SeenStep ==
    ASSUME TypeOK, SeenInv, [Next]_vars
    PROVE  SeenInv'
  <1> USE StoreAssumption
  <1>1. CASE UNCHANGED vars
    BY <1>1 DEF vars, dbVars, procVars, TypeOK, StoreTypeOK, ControlTypeOK,
      LocalTypeOK, SeenInv
  <1>2. ASSUME NEW p \in Proc, ProcStep(p) \/ Request(p) \/ CloseOrCrash(p)
        PROVE  SeenInv'
    <2>1. CASE InitializeStart(p)
      BY <2>1 DEF InitializeStart, Goto, SetMode, dbVars, TypeOK, StoreTypeOK,
        ControlTypeOK, LocalTypeOK, SeenInv
    <2>2. CASE BootstrapBegin(p)
      BY <2>2 DEF BootstrapBegin, Goto, SetMode, dbVars, TypeOK, StoreTypeOK,
        ControlTypeOK, LocalTypeOK, SeenInv
    <2>3. CASE BootstrapCommit(p)
      BY <2>3 DEF BootstrapCommit, Goto, SetMode, dbVars, TypeOK, StoreTypeOK,
        ControlTypeOK, LocalTypeOK, SeenInv
    <2>4. CASE BootstrapRollback(p)
      BY <2>4 DEF BootstrapRollback, Goto, SetMode, Close, Forget, dbVars,
        TypeOK, StoreTypeOK, ControlTypeOK, LocalTypeOK, SeenInv
    <2>5. CASE \E m \in {"opening", "ro"} : OpenStart(p, m)
      BY <2>5 DEF OpenStart, Goto, SetMode, dbVars, TypeOK, StoreTypeOK,
        ControlTypeOK, LocalTypeOK, SeenInv
    <2>6. CASE OpenRead(p)
      <3>1. CASE Close(p)
        BY <2>6, <3>1 DEF OpenRead, Close, Goto, Forget, dbVars, TypeOK, ControlTypeOK,
          LocalTypeOK, StoreTypeOK, SeenInv
      <3>2. CASE ~Close(p)
        <4>1. /\ revSeen' = [revSeen EXCEPT ![p] = stateRevision]
              /\ UNCHANGED <<wsLoaded, wsRevision, stateRevision>>
          BY <2>6, <3>2 DEF OpenRead, dbVars
        <4>2. \A q \in Proc : q # p => pc'[q] = pc[q]
          BY <2>6 DEF OpenRead, Goto, Close, TypeOK, ControlTypeOK
        <4>3. QED
          BY <4>1, <4>2 DEF TypeOK, LocalTypeOK, StoreTypeOK, SeenInv
      <3>3. QED
        BY <3>1, <3>2
    <2>7. CASE MigrateRead(p)
      BY <2>7 DEF MigrateRead, Goto, SetMode, MigrationPending, dbVars,
        TypeOK, StoreTypeOK, ControlTypeOK, LocalTypeOK, SeenInv
    <2>8. CASE ApplyMigration(p)
      BY <2>8 DEF ApplyMigration, Goto, SetMode, MigrationPending,
        SchemaAsExpected, dbVars, TypeOK, StoreTypeOK, ControlTypeOK,
        LocalTypeOK, SeenInv
    <2>9. CASE FailMigration(p)
      BY <2>9 DEF FailMigration, Goto, SetMode, SchemaAsExpected, Close,
        Forget, dbVars, TypeOK, StoreTypeOK, ControlTypeOK, LocalTypeOK,
        SeenInv
    <2>10. CASE OpenRevision(p)
      BY <2>10 DEF OpenRevision, Goto, SetMode, dbVars, TypeOK, StoreTypeOK,
        ControlTypeOK, LocalTypeOK, SeenInv
    <2>11. CASE OpenSync(p)
      BY <2>11 DEF OpenSync, Goto, SetMode, RepairNeeded, Close, Forget,
        dbVars, TypeOK, StoreTypeOK, ControlTypeOK, LocalTypeOK, SeenInv
    <2>12. CASE SyncLoad(p)
      BY <2>12 DEF SyncLoad, Goto, SetMode, PublishNeeded, Close, Forget,
        dbVars, TypeOK, StoreTypeOK, ControlTypeOK, LocalTypeOK, SeenInv
    <2>13. CASE SyncWrite(p)
      BY <2>13 DEF SyncWrite, Goto, SetMode, PublishedRevision, dbVars,
        TypeOK, StoreTypeOK, ControlTypeOK, LocalTypeOK, SeenInv
    <2>14. CASE \E r \in Records : CreateRecord(p, r)
      BY <2>14 DEF CreateRecord, Goto, SetMode, IdentifierFree,
        CommitStateRevision, RevisionReadBack, dbVars, TypeOK, StoreTypeOK,
        ControlTypeOK, LocalTypeOK, SeenInv
    <2>15. CASE \E r \in Records : GetRecord(p, r)
      BY <2>15 DEF GetRecord, Goto, SetMode, dbVars, TypeOK, StoreTypeOK,
        ControlTypeOK, LocalTypeOK, SeenInv
    <2>16. CASE UpdateCheck(p)
      BY <2>16 DEF UpdateCheck, Goto, SetMode, dbVars, TypeOK, StoreTypeOK,
        ControlTypeOK, LocalTypeOK, SeenInv
    <2>17. CASE UpdateRecord(p)
      BY <2>17 DEF UpdateRecord, Goto, SetMode, UpdatedRow, UpdateMatches,
        CommitStateRevision, RevisionReadBack, dbVars, TypeOK, StoreTypeOK,
        ControlTypeOK, LocalTypeOK, SeenInv
    <2>18. CASE UpdateStale(p)
      BY <2>18 DEF UpdateStale, Goto, SetMode, UpdateMatches, dbVars, TypeOK,
        StoreTypeOK, ControlTypeOK, LocalTypeOK, SeenInv
    <2>19. CASE UpdateLockTimeout(p)
      BY <2>19 DEF UpdateLockTimeout, Goto, SetMode, dbVars, TypeOK,
        StoreTypeOK, ControlTypeOK, LocalTypeOK, SeenInv
    <2>20. CASE AppendAudit(p)
      BY <2>20 DEF AppendAudit, Goto, SetMode, CommitStateRevision,
        RevisionReadBack, dbVars, TypeOK, StoreTypeOK, ControlTypeOK,
        LocalTypeOK, SeenInv
    <2>21. CASE CloseOrCrash(p)
      BY <2>21 DEF CloseOrCrash, Goto, SetMode, Close, Forget, dbVars, TypeOK,
        StoreTypeOK, ControlTypeOK, LocalTypeOK, SeenInv
    <2>q. QED
      BY <1>2, <2>1, <2>2, <2>3, <2>4, <2>5, <2>6, <2>7, <2>8, <2>9, <2>10,
        <2>11, <2>12, <2>13, <2>14, <2>15, <2>16, <2>17, <2>18, <2>19, <2>20,
        <2>21 DEF ProcStep, Request
  <1>3. QED
    BY <1>1, <1>2 DEF Next

(* A committed update makes every other copy of the row stale. *)
LEMMA SnapStep ==
    ASSUME TypeOK, SnapInv, RowInv, [Next]_vars
    PROVE  SnapInv'
  <1> USE StoreAssumption, AnyRecordType
  <1>1. CASE UNCHANGED vars
    BY <1>1 DEF vars, dbVars, procVars, TypeOK, StoreTypeOK, ControlTypeOK,
      LocalTypeOK, RecordRow, SnapInv, RowInv, Updating
  <1>2. ASSUME NEW p \in Proc, ProcStep(p) \/ Request(p) \/ CloseOrCrash(p)
        PROVE  SnapInv'
    <2>1. CASE InitializeStart(p)
      BY <2>1 DEF InitializeStart, Goto, SetMode, dbVars, TypeOK, StoreTypeOK,
        ControlTypeOK, LocalTypeOK, RecordRow, SnapInv, RowInv, Updating
    <2>2. CASE BootstrapBegin(p)
      BY <2>2 DEF BootstrapBegin, Goto, SetMode, dbVars, TypeOK, StoreTypeOK,
        ControlTypeOK, LocalTypeOK, RecordRow, SnapInv, RowInv, Updating
    <2>3. CASE BootstrapCommit(p)
      BY <2>3 DEF BootstrapCommit, Goto, SetMode, dbVars, TypeOK, StoreTypeOK,
        ControlTypeOK, LocalTypeOK, RecordRow, SnapInv, RowInv, Updating
    <2>4. CASE BootstrapRollback(p)
      BY <2>4 DEF BootstrapRollback, Goto, SetMode, Close, Forget, dbVars,
        TypeOK, StoreTypeOK, ControlTypeOK, LocalTypeOK, RecordRow, SnapInv,
        RowInv, Updating
    <2>5. CASE \E m \in {"opening", "ro"} : OpenStart(p, m)
      BY <2>5 DEF OpenStart, Goto, SetMode, dbVars, TypeOK, StoreTypeOK,
        ControlTypeOK, LocalTypeOK, RecordRow, SnapInv, RowInv, Updating
    <2>6. CASE OpenRead(p)
      <3>1. AfterIdentity(p) \notin Updating /\ "closed" \notin Updating
        BY DEF AfterIdentity, Updating
      <3>2. pc'[p] \notin Updating /\ \A q \in Proc : q # p => pc'[q] = pc[q]
        BY <2>6, <3>1 DEF OpenRead, Goto, Close, TypeOK, ControlTypeOK
      <3>3. \A q \in Proc : q # p => target'[q] = target[q] /\ snap'[q] = snap[q]
        BY <2>6 DEF OpenRead, Close, Forget, TypeOK, LocalTypeOK
      <3>4. QED
        BY <2>6, <3>2, <3>3 DEF OpenRead, dbVars, SnapInv, Updating
    <2>7. CASE MigrateRead(p)
      BY <2>7 DEF MigrateRead, Goto, SetMode, MigrationPending, dbVars,
        TypeOK, StoreTypeOK, ControlTypeOK, LocalTypeOK, RecordRow, SnapInv,
        RowInv, Updating
    <2>8. CASE ApplyMigration(p)
      BY <2>8 DEF ApplyMigration, Goto, SetMode, MigrationPending,
        SchemaAsExpected, dbVars, TypeOK, StoreTypeOK, ControlTypeOK,
        LocalTypeOK, RecordRow, SnapInv, RowInv, Updating
    <2>9. CASE FailMigration(p)
      BY <2>9 DEF FailMigration, Goto, SetMode, SchemaAsExpected, Close,
        Forget, dbVars, TypeOK, StoreTypeOK, ControlTypeOK, LocalTypeOK,
        RecordRow, SnapInv, RowInv, Updating
    <2>10. CASE OpenRevision(p)
      BY <2>10 DEF OpenRevision, Goto, SetMode, dbVars, TypeOK, StoreTypeOK,
        ControlTypeOK, LocalTypeOK, RecordRow, SnapInv, RowInv, Updating
    <2>11. CASE OpenSync(p)
      BY <2>11 DEF OpenSync, Goto, SetMode, RepairNeeded, Close, Forget,
        dbVars, TypeOK, StoreTypeOK, ControlTypeOK, LocalTypeOK, RecordRow,
        SnapInv, RowInv, Updating
    <2>12. CASE SyncLoad(p)
      BY <2>12 DEF SyncLoad, Goto, SetMode, PublishNeeded, Close, Forget,
        dbVars, TypeOK, StoreTypeOK, ControlTypeOK, LocalTypeOK, RecordRow,
        SnapInv, RowInv, Updating
    <2>13. CASE SyncWrite(p)
      BY <2>13 DEF SyncWrite, Goto, SetMode, PublishedRevision, dbVars,
        TypeOK, StoreTypeOK, ControlTypeOK, LocalTypeOK, RecordRow, SnapInv,
        RowInv, Updating
    <2>14. CASE \E r \in Records : CreateRecord(p, r)
      BY <2>14 DEF CreateRecord, Goto, SetMode, IdentifierFree,
        CommitStateRevision, RevisionReadBack, dbVars, TypeOK, StoreTypeOK,
        ControlTypeOK, LocalTypeOK, RecordRow, SnapInv, RowInv, Updating
    <2>15. CASE \E r \in Records : GetRecord(p, r)
      BY <2>15 DEF GetRecord, Goto, SetMode, dbVars, TypeOK, StoreTypeOK,
        ControlTypeOK, LocalTypeOK, RecordRow, SnapInv, RowInv, Updating
    <2>16. CASE UpdateCheck(p)
      BY <2>16 DEF UpdateCheck, Goto, SetMode, dbVars, TypeOK, StoreTypeOK,
        ControlTypeOK, LocalTypeOK, RecordRow, SnapInv, RowInv, Updating
    <2>17. CASE UpdateRecord(p)
      <3>1. /\ records' = [records EXCEPT ![target[p]] = UpdatedRow(p)]
            /\ pc' = [pc EXCEPT ![p] = "syncLoad"]
            /\ UNCHANGED <<target, snap>>
        BY <2>17 DEF UpdateRecord, CommitStateRevision, Goto
      <3>2. UpdatedRow(p).rev = records[target[p]].rev + 1
        BY DEF UpdatedRow
      <3>3. records[target[p]].rev \in Nat /\ \A q \in Proc : snap[q].rev \in Nat
        BY DEF TypeOK, StoreTypeOK, LocalTypeOK, RecordRow
      <3>4. QED
        BY <3>1, <3>2, <3>3 DEF SnapInv, Updating, TypeOK, StoreTypeOK, ControlTypeOK,
          LocalTypeOK
    <2>18. CASE UpdateStale(p)
      BY <2>18 DEF UpdateStale, Goto, SetMode, UpdateMatches, dbVars, TypeOK,
        StoreTypeOK, ControlTypeOK, LocalTypeOK, RecordRow, SnapInv, RowInv,
        Updating
    <2>19. CASE UpdateLockTimeout(p)
      BY <2>19 DEF UpdateLockTimeout, Goto, SetMode, dbVars, TypeOK,
        StoreTypeOK, ControlTypeOK, LocalTypeOK, RecordRow, SnapInv, RowInv,
        Updating
    <2>20. CASE AppendAudit(p)
      BY <2>20 DEF AppendAudit, Goto, SetMode, CommitStateRevision,
        RevisionReadBack, dbVars, TypeOK, StoreTypeOK, ControlTypeOK,
        LocalTypeOK, RecordRow, SnapInv, RowInv, Updating
    <2>21. CASE CloseOrCrash(p)
      BY <2>21 DEF CloseOrCrash, Goto, SetMode, Close, Forget, dbVars, TypeOK,
        StoreTypeOK, ControlTypeOK, LocalTypeOK, RecordRow, SnapInv, RowInv,
        Updating
    <2>q. QED
      BY <1>2, <2>1, <2>2, <2>3, <2>4, <2>5, <2>6, <2>7, <2>8, <2>9, <2>10,
        <2>11, <2>12, <2>13, <2>14, <2>15, <2>16, <2>17, <2>18, <2>19, <2>20,
        <2>21 DEF ProcStep, Request
  <1>3. QED
    BY <1>1, <1>2 DEF Next

(* An update that commits adds its edit to the row it was computed from. *)
LEMMA RowStep ==
    ASSUME TypeOK, SnapInv, RowInv, [Next]_vars
    PROVE  RowInv'
  <1> USE StoreAssumption, AnyRecordType
  <1>1. CASE UNCHANGED vars
    BY <1>1 DEF vars, dbVars, procVars, TypeOK, StoreTypeOK, ControlTypeOK,
      LocalTypeOK, RecordRow, NoRow, SnapInv, RowInv, Updating
  <1>2. ASSUME NEW p \in Proc, ProcStep(p) \/ Request(p) \/ CloseOrCrash(p)
        PROVE  RowInv'
    <2>1. CASE InitializeStart(p)
      BY <2>1 DEF InitializeStart, Goto, SetMode, dbVars, TypeOK, StoreTypeOK,
        ControlTypeOK, LocalTypeOK, RecordRow, NoRow, SnapInv, RowInv,
        Updating
    <2>2. CASE BootstrapBegin(p)
      BY <2>2 DEF BootstrapBegin, Goto, SetMode, dbVars, TypeOK, StoreTypeOK,
        ControlTypeOK, LocalTypeOK, RecordRow, NoRow, SnapInv, RowInv,
        Updating
    <2>3. CASE BootstrapCommit(p)
      BY <2>3 DEF BootstrapCommit, Goto, SetMode, dbVars, TypeOK, StoreTypeOK,
        ControlTypeOK, LocalTypeOK, RecordRow, NoRow, SnapInv, RowInv,
        Updating
    <2>4. CASE BootstrapRollback(p)
      BY <2>4 DEF BootstrapRollback, Goto, SetMode, Close, Forget, dbVars,
        TypeOK, StoreTypeOK, ControlTypeOK, LocalTypeOK, RecordRow, NoRow,
        SnapInv, RowInv, Updating
    <2>5. CASE \E m \in {"opening", "ro"} : OpenStart(p, m)
      BY <2>5 DEF OpenStart, Goto, SetMode, dbVars, TypeOK, StoreTypeOK,
        ControlTypeOK, LocalTypeOK, RecordRow, NoRow, SnapInv, RowInv,
        Updating
    <2>6. CASE OpenRead(p)
      BY <2>6 DEF OpenRead, Goto, SetMode, AfterIdentity, MigrationPending,
        Close, Forget, dbVars, TypeOK, StoreTypeOK, ControlTypeOK,
        LocalTypeOK, RecordRow, NoRow, SnapInv, RowInv, Updating
    <2>7. CASE MigrateRead(p)
      BY <2>7 DEF MigrateRead, Goto, SetMode, MigrationPending, dbVars,
        TypeOK, StoreTypeOK, ControlTypeOK, LocalTypeOK, RecordRow, NoRow,
        SnapInv, RowInv, Updating
    <2>8. CASE ApplyMigration(p)
      BY <2>8 DEF ApplyMigration, Goto, SetMode, MigrationPending,
        SchemaAsExpected, dbVars, TypeOK, StoreTypeOK, ControlTypeOK,
        LocalTypeOK, RecordRow, NoRow, SnapInv, RowInv, Updating
    <2>9. CASE FailMigration(p)
      BY <2>9 DEF FailMigration, Goto, SetMode, SchemaAsExpected, Close,
        Forget, dbVars, TypeOK, StoreTypeOK, ControlTypeOK, LocalTypeOK,
        RecordRow, NoRow, SnapInv, RowInv, Updating
    <2>10. CASE OpenRevision(p)
      BY <2>10 DEF OpenRevision, Goto, SetMode, dbVars, TypeOK, StoreTypeOK,
        ControlTypeOK, LocalTypeOK, RecordRow, NoRow, SnapInv, RowInv,
        Updating
    <2>11. CASE OpenSync(p)
      BY <2>11 DEF OpenSync, Goto, SetMode, RepairNeeded, Close, Forget,
        dbVars, TypeOK, StoreTypeOK, ControlTypeOK, LocalTypeOK, RecordRow,
        NoRow, SnapInv, RowInv, Updating
    <2>12. CASE SyncLoad(p)
      BY <2>12 DEF SyncLoad, Goto, SetMode, PublishNeeded, Close, Forget,
        dbVars, TypeOK, StoreTypeOK, ControlTypeOK, LocalTypeOK, RecordRow,
        NoRow, SnapInv, RowInv, Updating
    <2>13. CASE SyncWrite(p)
      BY <2>13 DEF SyncWrite, Goto, SetMode, PublishedRevision, dbVars,
        TypeOK, StoreTypeOK, ControlTypeOK, LocalTypeOK, RecordRow, NoRow,
        SnapInv, RowInv, Updating
    <2>14. CASE \E r \in Records : CreateRecord(p, r)
      BY <2>14 DEF CreateRecord, Goto, SetMode, IdentifierFree,
        CommitStateRevision, RevisionReadBack, dbVars, TypeOK, StoreTypeOK,
        ControlTypeOK, LocalTypeOK, RecordRow, NoRow, SnapInv, RowInv,
        Updating
    <2>15. CASE \E r \in Records : GetRecord(p, r)
      BY <2>15 DEF GetRecord, Goto, SetMode, dbVars, TypeOK, StoreTypeOK,
        ControlTypeOK, LocalTypeOK, RecordRow, NoRow, SnapInv, RowInv,
        Updating
    <2>16. CASE UpdateCheck(p)
      BY <2>16 DEF UpdateCheck, Goto, SetMode, dbVars, TypeOK, StoreTypeOK,
        ControlTypeOK, LocalTypeOK, RecordRow, NoRow, SnapInv, RowInv,
        Updating
    <2>17. CASE UpdateRecord(p)
      <3>1. records' = [records EXCEPT ![target[p]] = UpdatedRow(p)]
        BY <2>17 DEF UpdateRecord
      <3>2. pc[p] \in {"updateStatus", "updateContent"} /\ snap[p] = records[target[p]]
        BY <2>17 DEF UpdateRecord, UpdateMatches, SnapInv, Updating
      <3>3. records[target[p]] \in RecordRow /\ records[target[p]].rev > 0
        BY <3>2 DEF SnapInv, Updating, TypeOK, StoreTypeOK, LocalTypeOK
      <3>4. /\ UpdatedRow(p).rev > 0
            /\ UpdatedRow(p).rev = 1 + UpdatedRow(p).statusEdits + UpdatedRow(p).contentEdits
        <4>1. records[target[p]].rev =
                1 + records[target[p]].statusEdits + records[target[p]].contentEdits
          BY <3>3 DEF RowInv, TypeOK, LocalTypeOK
        <4>2. /\ records[target[p]].rev \in Nat /\ records[target[p]].statusEdits \in Nat
              /\ records[target[p]].contentEdits \in Nat
          BY <3>3 DEF RecordRow
        <4>3. CASE pc[p] = "updateStatus"
          BY <4>1, <4>2, <4>3, <3>2 DEF UpdatedRow
        <4>4. CASE pc[p] = "updateContent"
          BY <4>1, <4>2, <4>4, <3>2 DEF UpdatedRow
        <4>5. QED
          BY <3>2, <4>3, <4>4
      <3>5. target[p] \in OriginRecords => UpdatedRow(p).contentEdits = 0
        BY <3>2, <3>3 DEF UpdatedRow, SnapInv, RowInv, RecordRow, TypeOK, LocalTypeOK
      <3>6. QED
        BY <3>1, <3>4, <3>5 DEF RowInv, TypeOK, StoreTypeOK, LocalTypeOK
    <2>18. CASE UpdateStale(p)
      BY <2>18 DEF UpdateStale, Goto, SetMode, UpdateMatches, dbVars, TypeOK,
        StoreTypeOK, ControlTypeOK, LocalTypeOK, RecordRow, NoRow, SnapInv,
        RowInv, Updating
    <2>19. CASE UpdateLockTimeout(p)
      BY <2>19 DEF UpdateLockTimeout, Goto, SetMode, dbVars, TypeOK,
        StoreTypeOK, ControlTypeOK, LocalTypeOK, RecordRow, NoRow, SnapInv,
        RowInv, Updating
    <2>20. CASE AppendAudit(p)
      BY <2>20 DEF AppendAudit, Goto, SetMode, CommitStateRevision,
        RevisionReadBack, dbVars, TypeOK, StoreTypeOK, ControlTypeOK,
        LocalTypeOK, RecordRow, NoRow, SnapInv, RowInv, Updating
    <2>21. CASE CloseOrCrash(p)
      BY <2>21 DEF CloseOrCrash, Goto, SetMode, Close, Forget, dbVars, TypeOK,
        StoreTypeOK, ControlTypeOK, LocalTypeOK, RecordRow, NoRow, SnapInv,
        RowInv, Updating
    <2>q. QED
      BY <1>2, <2>1, <2>2, <2>3, <2>4, <2>5, <2>6, <2>7, <2>8, <2>9, <2>10,
        <2>11, <2>12, <2>13, <2>14, <2>15, <2>16, <2>17, <2>18, <2>19, <2>20,
        <2>21 DEF ProcStep, Request
  <1>3. QED
    BY <1>1, <1>2 DEF Next

(* A migration completes only from the version it starts at. *)
LEMMA OnceStep ==
    ASSUME TypeOK, LoopInv, MigratedOnce, [Next]_vars
    PROVE  MigratedOnce'
  <1> USE StoreAssumption
  <1>1. CASE UNCHANGED vars
    BY <1>1 DEF vars, dbVars, procVars, TypeOK, StoreTypeOK, ControlTypeOK,
      LocalTypeOK, Versions, LoopInv, MigratedOnce
  <1>2. ASSUME NEW p \in Proc, ProcStep(p) \/ Request(p) \/ CloseOrCrash(p)
        PROVE  MigratedOnce'
    <2>1. CASE InitializeStart(p)
      BY <2>1 DEF InitializeStart, Goto, SetMode, dbVars, TypeOK, StoreTypeOK,
        ControlTypeOK, LocalTypeOK, Versions, LoopInv, MigratedOnce
    <2>2. CASE BootstrapBegin(p)
      BY <2>2 DEF BootstrapBegin, Goto, SetMode, dbVars, TypeOK, StoreTypeOK,
        ControlTypeOK, LocalTypeOK, Versions, LoopInv, MigratedOnce
    <2>3. CASE BootstrapCommit(p)
      BY <2>3 DEF BootstrapCommit, Goto, SetMode, dbVars, TypeOK, StoreTypeOK,
        ControlTypeOK, LocalTypeOK, Versions, LoopInv, MigratedOnce
    <2>4. CASE BootstrapRollback(p)
      BY <2>4 DEF BootstrapRollback, Goto, SetMode, Close, Forget, dbVars,
        TypeOK, StoreTypeOK, ControlTypeOK, LocalTypeOK, Versions, LoopInv,
        MigratedOnce
    <2>5. CASE \E m \in {"opening", "ro"} : OpenStart(p, m)
      BY <2>5 DEF OpenStart, Goto, SetMode, dbVars, TypeOK, StoreTypeOK,
        ControlTypeOK, LocalTypeOK, Versions, LoopInv, MigratedOnce
    <2>6. CASE OpenRead(p)
      BY <2>6 DEF OpenRead, Goto, SetMode, AfterIdentity, MigrationPending,
        Close, Forget, dbVars, TypeOK, StoreTypeOK, ControlTypeOK,
        LocalTypeOK, Versions, LoopInv, MigratedOnce
    <2>7. CASE MigrateRead(p)
      BY <2>7 DEF MigrateRead, Goto, SetMode, MigrationPending, dbVars,
        TypeOK, StoreTypeOK, ControlTypeOK, LocalTypeOK, Versions, LoopInv,
        MigratedOnce
    <2>8. CASE ApplyMigration(p)
      BY <2>8 DEF ApplyMigration, Goto, SetMode, MigrationPending,
        SchemaAsExpected, dbVars, TypeOK, StoreTypeOK, ControlTypeOK,
        LocalTypeOK, Versions, LoopInv, MigratedOnce
    <2>9. CASE FailMigration(p)
      BY <2>9 DEF FailMigration, Goto, SetMode, SchemaAsExpected, Close,
        Forget, dbVars, TypeOK, StoreTypeOK, ControlTypeOK, LocalTypeOK,
        Versions, LoopInv, MigratedOnce
    <2>10. CASE OpenRevision(p)
      BY <2>10 DEF OpenRevision, Goto, SetMode, dbVars, TypeOK, StoreTypeOK,
        ControlTypeOK, LocalTypeOK, Versions, LoopInv, MigratedOnce
    <2>11. CASE OpenSync(p)
      BY <2>11 DEF OpenSync, Goto, SetMode, RepairNeeded, Close, Forget,
        dbVars, TypeOK, StoreTypeOK, ControlTypeOK, LocalTypeOK, Versions,
        LoopInv, MigratedOnce
    <2>12. CASE SyncLoad(p)
      BY <2>12 DEF SyncLoad, Goto, SetMode, PublishNeeded, Close, Forget,
        dbVars, TypeOK, StoreTypeOK, ControlTypeOK, LocalTypeOK, Versions,
        LoopInv, MigratedOnce
    <2>13. CASE SyncWrite(p)
      BY <2>13 DEF SyncWrite, Goto, SetMode, PublishedRevision, dbVars,
        TypeOK, StoreTypeOK, ControlTypeOK, LocalTypeOK, Versions, LoopInv,
        MigratedOnce
    <2>14. CASE \E r \in Records : CreateRecord(p, r)
      BY <2>14 DEF CreateRecord, Goto, SetMode, IdentifierFree,
        CommitStateRevision, RevisionReadBack, dbVars, TypeOK, StoreTypeOK,
        ControlTypeOK, LocalTypeOK, Versions, LoopInv, MigratedOnce
    <2>15. CASE \E r \in Records : GetRecord(p, r)
      BY <2>15 DEF GetRecord, Goto, SetMode, dbVars, TypeOK, StoreTypeOK,
        ControlTypeOK, LocalTypeOK, Versions, LoopInv, MigratedOnce
    <2>16. CASE UpdateCheck(p)
      BY <2>16 DEF UpdateCheck, Goto, SetMode, dbVars, TypeOK, StoreTypeOK,
        ControlTypeOK, LocalTypeOK, Versions, LoopInv, MigratedOnce
    <2>17. CASE UpdateRecord(p)
      BY <2>17 DEF UpdateRecord, Goto, SetMode, UpdatedRow, UpdateMatches,
        CommitStateRevision, RevisionReadBack, dbVars, TypeOK, StoreTypeOK,
        ControlTypeOK, LocalTypeOK, Versions, LoopInv, MigratedOnce
    <2>18. CASE UpdateStale(p)
      BY <2>18 DEF UpdateStale, Goto, SetMode, UpdateMatches, dbVars, TypeOK,
        StoreTypeOK, ControlTypeOK, LocalTypeOK, Versions, LoopInv,
        MigratedOnce
    <2>19. CASE UpdateLockTimeout(p)
      BY <2>19 DEF UpdateLockTimeout, Goto, SetMode, dbVars, TypeOK,
        StoreTypeOK, ControlTypeOK, LocalTypeOK, Versions, LoopInv,
        MigratedOnce
    <2>20. CASE AppendAudit(p)
      BY <2>20 DEF AppendAudit, Goto, SetMode, CommitStateRevision,
        RevisionReadBack, dbVars, TypeOK, StoreTypeOK, ControlTypeOK,
        LocalTypeOK, Versions, LoopInv, MigratedOnce
    <2>21. CASE CloseOrCrash(p)
      BY <2>21 DEF CloseOrCrash, Goto, SetMode, Close, Forget, dbVars, TypeOK,
        StoreTypeOK, ControlTypeOK, LocalTypeOK, Versions, LoopInv,
        MigratedOnce
    <2>q. QED
      BY <1>2, <2>1, <2>2, <2>3, <2>4, <2>5, <2>6, <2>7, <2>8, <2>9, <2>10,
        <2>11, <2>12, <2>13, <2>14, <2>15, <2>16, <2>17, <2>18, <2>19, <2>20,
        <2>21 DEF ProcStep, Request
  <1>3. QED
    BY <1>1, <1>2 DEF Next

(* The invariant is inductive. *)
LEMMA NextIInv == IInv /\ [Next]_vars => IInv'
  BY StoreTypeStep, ControlTypeStep, LocalTypeStep, LoopStep, PhaseStep, SeenStep, SnapStep, RowStep, OnceStep
     DEF IInv, TypeOK

(* IInv holds in every reachable state. *)
LEMMA IInvAlways == Spec => []IInv
  BY InitIInv, NextIInv, PTL DEF Spec

(* Type correctness: every step of every process, crashes included, keeps  *)
(* the database, workspace.json and the local variables within their types. *)
THEOREM TypeCorrect == Spec => []TypeOK
  <1>1. IInv => TypeOK
    BY DEF IInv
  <1>2. QED
    BY <1>1, IInvAlways, PTL

(* workspace.json is never ahead of the database, and no open is refused    *)
(* for it, with any number of processes crashing at any point.             *)
THEOREM WorkspaceBehind == Spec => []WorkspaceNeverAhead
  <1>1. IInv => WorkspaceNeverAhead
    BY DEF IInv, SeenInv, WorkspaceNeverAhead
  <1>2. QED
    BY <1>1, IInvAlways, PTL

(* The optimistic revision check of update_record loses no update. *)
THEOREM UpdatesKept == Spec => []NoLostUpdate
  <1>1. IInv => NoLostUpdate
    BY DEF IInv, RowInv, NoLostUpdate
  <1>2. QED
    BY <1>1, IInvAlways, PTL

(* Concurrent, failing and crashing migrators complete every migration     *)
(* exactly once, and no repository is open for writing before the last.    *)
THEOREM MigrationsOnce == Spec => []MigrationsSound
  <1>1. IInv => MigrationsSound
    BY DEF IInv, PhaseInv, MigrationsSound, WriterSchemaCurrent
  <1>2. QED
    BY <1>1, IInvAlways, PTL

(* The repository implements RevisionLedger: every step of a process is a  *)
(* commit of one record or one audit event, a publication, or a stutter.   *)
THEOREM LedgerRefinement == Spec => ImplementsLedger
  <1>1. Init => Ledger!LedgerInit
    BY DEF Init, Ledger!LedgerInit, NoRow
  <1>2. IInv /\ [Next]_vars => [Ledger!LedgerNext]_(Ledger!ledgerVars)
    <2> SUFFICES ASSUME IInv, [Next]_vars
                 PROVE  [Ledger!LedgerNext]_(Ledger!ledgerVars)
      OBVIOUS
    <2> USE DEF Ledger!ledgerVars
    <2>1. CASE UNCHANGED <<records, auditEvents, stateRevision, wsRevision>>
      BY <2>1
    <2>2. ASSUME NEW p \in Proc, SyncWrite(p)
          PROVE  Ledger!LedgerNext
      <3>1. revSeen[p] \in 0..stateRevision
        BY DEF IInv, SeenInv, TypeOK, StoreTypeOK, LocalTypeOK
      <3>2. QED
        BY <2>2, <3>1 DEF SyncWrite, PublishedRevision, dbVars, Ledger!LedgerNext, Ledger!Publish
    <2>3. ASSUME NEW p \in Proc, NEW r \in Records, CreateRecord(p, r)
          PROVE  Ledger!LedgerNext
      <3>1. records' = [records EXCEPT ![r] = [records[r] EXCEPT !.rev = 1]] /\ records[r].rev = 0
        BY <2>3 DEF CreateRecord, IdentifierFree, IInv, TypeOK, StoreTypeOK
      <3>2. \A x \in Records : records[x] \in RecordRow
        BY DEF IInv, TypeOK, StoreTypeOK
      <3>3. \A x \in Records : records'[x].rev = IF x = r THEN records[x].rev + 1 ELSE records[x].rev
        BY <3>1, <3>2 DEF RecordRow, IInv, TypeOK, StoreTypeOK
      <3>4. Ledger!CommitRecord(r)
        BY <2>3, <3>3 DEF CreateRecord, CommitStateRevision, Ledger!CommitRecord
      <3>5. QED
        BY <3>4 DEF Ledger!LedgerNext
    <2>4. ASSUME NEW p \in Proc, UpdateRecord(p)
          PROVE  Ledger!LedgerNext
      <3>1. target[p] \in Records /\ UpdatedRow(p).rev = records[target[p]].rev + 1
        BY DEF UpdatedRow, IInv, TypeOK, LocalTypeOK
      <3>2. PICK r \in Records : r = target[p]
        BY <3>1
      <3>3. \A x \in Records : records'[x].rev = IF x = r THEN records[x].rev + 1 ELSE records[x].rev
        BY <2>4, <3>1, <3>2 DEF UpdateRecord, IInv, TypeOK, StoreTypeOK
      <3>4. Ledger!CommitRecord(r)
        BY <2>4, <3>3 DEF UpdateRecord, CommitStateRevision, Ledger!CommitRecord
      <3>5. QED
        BY <3>4 DEF Ledger!LedgerNext
    <2>5. ASSUME NEW p \in Proc, AppendAudit(p)
          PROVE  Ledger!LedgerNext
      BY <2>5 DEF AppendAudit, CommitStateRevision, Ledger!LedgerNext, Ledger!CommitAudit
    <2>6. ASSUME NEW p \in Proc,
                 \/ InitializeStart(p) \/ BootstrapBegin(p) \/ BootstrapCommit(p)
                 \/ BootstrapRollback(p) \/ \E m \in {"opening", "ro"} : OpenStart(p, m)
                 \/ OpenRead(p) \/ MigrateRead(p) \/ ApplyMigration(p) \/ FailMigration(p)
                 \/ OpenRevision(p) \/ OpenSync(p) \/ SyncLoad(p) \/ UpdateCheck(p)
                 \/ \E r \in Records : GetRecord(p, r)
                 \/ UpdateStale(p) \/ UpdateLockTimeout(p) \/ CloseOrCrash(p)
          PROVE  UNCHANGED <<records, auditEvents, stateRevision, wsRevision>>
      BY <2>6 DEF InitializeStart, BootstrapBegin, BootstrapCommit, BootstrapRollback,
        OpenStart, OpenRead, MigrateRead, ApplyMigration, FailMigration, OpenRevision,
        OpenSync, SyncLoad, UpdateCheck, GetRecord, UpdateStale, UpdateLockTimeout,
        CloseOrCrash, dbVars
    <2>7. CASE UNCHANGED vars
      BY <2>1, <2>7 DEF vars, dbVars
    <2>8. QED
      BY <2>1, <2>2, <2>3, <2>4, <2>5, <2>6, <2>7 DEF Next, ProcStep, Request
  <1>3. QED
    BY <1>1, <1>2, IInvAlways, PTL DEF Spec, ImplementsLedger, Ledger!LedgerSpec

(* What a process alone keeps true of itself. *)
Alone(p) ==
    /\ pc[p] # "closed" => wsLoaded[p] = wsRevision
    /\ pc[p] \in {"openSync", "syncLoad", "syncWrite"} => revSeen[p] = stateRevision
    /\ pc[p] \in {"idle"} \union Updating /\ mode[p] = "rw" => wsRevision = stateRevision

(* Each of its steps keeps it: a sync that is reached publishes what was   *)
(* committed, since nobody else commits or publishes in between.           *)
LEMMA AloneStep ==
    ASSUME IInv, NEW p \in Proc, Alone(p), ProcStep(p) \/ Request(p) \/ CloseOrCrash(p)
    PROVE  Alone(p)' /\ \A q \in Proc \ {p} : pc'[q] = pc[q]
  <1>1. pc \in [Proc -> PC] /\ mode \in [Proc -> Mode]
    BY DEF IInv, TypeOK, ControlTypeOK
  <1>2. /\ wsLoaded \in [Proc -> Nat] /\ revSeen \in [Proc -> Nat]
        /\ wsRevision \in Nat /\ stateRevision \in Nat
    BY DEF IInv, TypeOK, LocalTypeOK, StoreTypeOK
  <1>3. wsRevision <= stateRevision /\ (pc[p] \in Updating => mode[p] = "rw")
    BY DEF IInv, SeenInv, PhaseInv
  <1>4. Alone(p)' /\ \A q \in Proc \ {p} : pc'[q] = pc[q]
    <2> USE <1>1, <1>2, <1>3 DEF Alone, Updating, dbVars
    <2>1. CASE InitializeStart(p)
      BY <2>1 DEF InitializeStart, Goto, SetMode
    <2>2. CASE BootstrapBegin(p)
      BY <2>2 DEF BootstrapBegin, Goto, SetMode
    <2>3. CASE BootstrapCommit(p)
      BY <2>3 DEF BootstrapCommit, Goto, SetMode
    <2>4. CASE BootstrapRollback(p)
      BY <2>4 DEF BootstrapRollback, Close, Forget, Goto, SetMode
    <2>5. CASE \E m \in {"opening", "ro"} : OpenStart(p, m)
      BY <2>5 DEF OpenStart, Goto, SetMode
    <2>6. CASE OpenRead(p)
      BY <2>6 DEF OpenRead, AfterIdentity, Close, Forget, Goto, SetMode
    <2>7. CASE MigrateRead(p)
      BY <2>7 DEF MigrateRead, Goto, SetMode
    <2>8. CASE ApplyMigration(p)
      BY <2>8 DEF ApplyMigration, Goto, SetMode
    <2>9. CASE FailMigration(p)
      BY <2>9 DEF FailMigration, Close, Forget, Goto, SetMode
    <2>10. CASE OpenRevision(p)
      BY <2>10 DEF OpenRevision, Goto, SetMode
    <2>11. CASE OpenSync(p)
      BY <2>11 DEF OpenSync, RepairNeeded, Close, Forget, Goto, SetMode
    <2>12. CASE SyncLoad(p)
      BY <2>12 DEF SyncLoad, PublishNeeded, Close, Forget, Goto, SetMode
    <2>13. CASE SyncWrite(p)
      BY <2>13 DEF SyncWrite, PublishedRevision, Goto, SetMode
    <2>14. CASE \E r \in Records : CreateRecord(p, r)
      BY <2>14 DEF CreateRecord, CommitStateRevision, RevisionReadBack, Goto, SetMode
    <2>15. CASE \E r \in Records : GetRecord(p, r)
      BY <2>15 DEF GetRecord, Goto, SetMode
    <2>16. CASE UpdateCheck(p)
      BY <2>16 DEF UpdateCheck, Goto, SetMode
    <2>17. CASE UpdateRecord(p)
      BY <2>17 DEF UpdateRecord, CommitStateRevision, RevisionReadBack, Goto, SetMode
    <2>18. CASE UpdateStale(p)
      BY <2>18 DEF UpdateStale, Goto, SetMode
    <2>19. CASE UpdateLockTimeout(p)
      BY <2>19 DEF UpdateLockTimeout, Goto, SetMode
    <2>20. CASE AppendAudit(p)
      BY <2>20 DEF AppendAudit, CommitStateRevision, RevisionReadBack, Goto, SetMode
    <2>21. CASE CloseOrCrash(p)
      BY <2>21 DEF CloseOrCrash, Close, Forget, Goto, SetMode
    <2>q. QED
      BY <2>1, <2>2, <2>3, <2>4, <2>5, <2>6, <2>7, <2>8, <2>9, <2>10, <2>11, <2>12, <2>13, <2>14, <2>15, <2>16, <2>17, <2>18, <2>19, <2>20, <2>21 DEF ProcStep, Request
  <1>5. QED
    BY <1>4

LEMMA CrewInitially == CrewInit => IInv /\ AloneInv /\ crew \in SUBSET Proc
  <1>1. CrewInit => AloneInv /\ crew \in SUBSET Proc
    BY DEF CrewInit, Init, AloneInv, Updating
  <1>2. QED
    BY <1>1, InitIInv DEF CrewInit

LEMMA CrewPreserved ==
    IInv /\ AloneInv /\ crew \in SUBSET Proc /\ [CrewNext]_<<vars, crew>>
        => IInv' /\ AloneInv' /\ (crew \in SUBSET Proc)'
  <1> SUFFICES ASSUME IInv, AloneInv, crew \in SUBSET Proc, [CrewNext]_<<vars, crew>>
               PROVE  IInv' /\ AloneInv' /\ crew' = crew
    OBVIOUS
  <1>1. CASE UNCHANGED <<vars, crew>>
    <2>1. IInv'
      BY <1>1, NextIInv
    <2>2. AloneInv'
      BY <1>1 DEF vars, dbVars, procVars, AloneInv
    <2>3. QED
      BY <1>1, <2>1, <2>2
  <1>2. CASE CrewNext
    <2>1. PICK p \in crew : ProcStep(p) \/ Request(p) \/ CloseOrCrash(p)
      BY <1>2 DEF CrewNext
    <2>2. p \in Proc /\ crew' = crew
      BY <1>2, <2>1 DEF CrewNext
    <2>3. IInv'
      BY <2>1, <2>2, NextIInv DEF Next
    <2>4. AloneInv'
      <3> SUFFICES ASSUME NEW q \in Proc, crew = {q}
                   PROVE  Alone(q)' /\ \A x \in Proc \ {q} : pc'[x] = "closed"
        BY <2>2 DEF AloneInv, Alone
      <3>1. q = p
        BY <2>1
      <3>2. Alone(p) /\ \A x \in Proc \ {p} : pc[x] = "closed"
        BY <3>1 DEF AloneInv, Alone
      <3>3. QED
        BY <2>1, <2>2, <3>1, <3>2, AloneStep
    <2>5. QED
      BY <2>2, <2>3, <2>4
  <1>3. QED
    BY <1>1, <1>2

(* A process that is alone on a workspace keeps workspace.json in step     *)
(* with the database whenever its repository is at rest, although it may   *)
(* die between any commit and its sync (_sync_after_commit,                *)
(* _sync_workspace_revision).                                              *)
THEOREM AloneStaysSynced == CrewSpec => []SyncedAlone
  <1>1. IInv /\ AloneInv => SyncedAlone
    <2> SUFFICES ASSUME IInv, AloneInv, NEW p \in Proc, crew = {p} PROVE SyncedWhenAtRest
      BY DEF SyncedAlone
    <2>1. wsRevision \in Nat /\ stateRevision \in Nat /\ wsRevision <= stateRevision
      BY DEF IInv, TypeOK, StoreTypeOK, SeenInv
    <2>2. QED
      BY <2>1 DEF AloneInv, SyncedWhenAtRest, Updating
  <1>2. QED
    BY <1>1, CrewInitially, CrewPreserved, PTL DEF CrewSpec
=============================================================================
