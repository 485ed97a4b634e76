------------------------- MODULE ConversationTurns -------------------------
(***************************************************************************)
(* Local conversation turns (local_conversation.py and                     *)
(* streaming_conversation.py) with the artifact service and the managed    *)
(* files they write through.  A turn is written as a sequence of items:    *)
(* instruction origins, artifacts (a file, then its record) and events,    *)
(* each in a transaction of its own.  Only after an item's call has        *)
(* returned does the turn remember it as created; on an exception the turn *)
(* removes what it remembers, the records in one transaction and then the  *)
(* files.  Several turns, each with its own connection, may run at once    *)
(* and any of them may crash.                                              *)
(*                                                                         *)
(* Text, prompt packaging, model bindings and the runtime's answer are     *)
(* abstracted to what they decide: whether the turn goes on and whether it *)
(* has an assistant text.                                                  *)
(***************************************************************************)
EXTENDS Integers, Sequences, FiniteSets, FiniteSetsExt

CONSTANTS Turns,            \* calls of execute_turn or execute_streaming_turn
          Conversations,    \* conversations that exist
          Ops,              \* operation identifiers callers use
          MaxConcurrent,    \* bound on turns running at the same time
          MaxEvents,        \* _MAX_EVENTS_PER_CONVERSATION
          Faults            \* which failures outside the transactions may happen

ASSUME TurnsAssumption ==
    /\ MaxConcurrent \in Nat \ {0}
    /\ MaxEvents \in Nat \ {0}
    /\ Faults \subseteq {"late", "cleanup"}

VARIABLES pc,       \* where each turn is
          ask,      \* its conversation, operation and parent event
          seq,      \* starting_sequence
          outcome,  \* the runtime's outcome, once known
          done,     \* how many items of its plan it remembers as created
          records,  \* records in the database, named <<turn, kind>>
          files     \* managed files, named by the turn that published them

vars == <<pc, ask, seq, outcome, done, records, files>>

Origins == {"userOrigin", "runtimeOrigin"}
Artifacts == {"userFile", "contextFile", "assistantFile"}
Events == {"userEvent", "contextEvent", "assistantEvent", "errorEvent"}
Kinds == Origins \cup Artifacts \cup Events

\* The items of a turn in the order the code writes them.
Plan(result) ==
    CASE result = "none"      -> <<"userOrigin">>
      [] result = "completed" -> <<"userOrigin", "runtimeOrigin", "userFile",
                                   "contextFile", "assistantFile", "userEvent",
                                   "contextEvent", "assistantEvent">>
      [] result = "error"     -> <<"userOrigin", "userFile", "contextFile",
                                   "userEvent", "contextEvent", "errorEvent">>

NoParent == <<>>
EventIds == Turns \X Events
NoAsk == [conv |-> "none", op |-> "none", parent |-> NoParent]

Checking == {"parent", "sequence"}
Writing == {"write", "register", "commit", "settle", "generate", "audit"}
Undoing == {"undo", "unlink"}
Running == Checking \cup Writing \cup Undoing
Ended == {"returned", "failed", "rollbackError", "refused", "crashed"}

Init ==
    /\ pc = [t \in Turns |-> "idle"]
    /\ ask = [t \in Turns |-> NoAsk]
    /\ seq = [t \in Turns |-> 0]
    /\ outcome = [t \in Turns |-> "none"]
    /\ done = [t \in Turns |-> 0]
    /\ records = {}
    /\ files = {}

Item(t) == Plan(outcome[t])[done[t] + 1]
Created(t) == {<<t, Plan(outcome[t])[i]>> : i \in 1 .. done[t]}
Path(t, k) == <<ask[t].conv, ask[t].op, k>>
PathsInUse == {Path(f[1], f[2]) : f \in files}
Stored == {r \in records : r[2] \in Events}

\* The parent and the sequence hint an event of a turn is given.
ParentOf(e) ==
    CASE e[2] = "userEvent"    -> ask[e[1]].parent
      [] e[2] = "contextEvent" -> <<e[1], "userEvent">>
      [] OTHER                 -> <<e[1], "contextEvent">>

Hint(e) == seq[e[1]] + (CASE e[2] = "userEvent"    -> 0
                          [] e[2] = "contextEvent" -> 1
                          [] OTHER                 -> 2)

\* get_conversation_event returns the event only when its parent is stored.
ParentStored(e) == ParentOf(e) = NoParent \/ ParentOf(e) \in records
Readable(e) == e \in records /\ ParentStored(e)

----------------------------------------------------------------------------
\* Before the first write.  Each check is a query of its own.

OperationUnused(op) == \A r \in records : ask[r[1]].op # op

Start(t) ==
    /\ pc[t] = "idle"
    /\ Cardinality({u \in Turns : pc[u] \in Running}) < MaxConcurrent
    /\ \E conv \in Conversations, op \in Ops, parent \in EventIds \cup {NoParent} :
          /\ parent # NoParent => parent \in records
          /\ OperationUnused(op)
          /\ ask' = [ask EXCEPT ![t] = [conv |-> conv, op |-> op, parent |-> parent]]
    /\ pc' = [pc EXCEPT ![t] = "parent"]
    /\ UNCHANGED <<seq, outcome, done, records, files>>

\* DuplicateConversationOperationError.
RefuseOperation(t) ==
    /\ pc[t] = "idle"
    /\ \E op \in Ops : ~OperationUnused(op)
    /\ pc' = [pc EXCEPT ![t] = "refused"]
    /\ UNCHANGED <<ask, seq, outcome, done, records, files>>

ValidateParent(t) ==
    /\ pc[t] = "parent"
    /\ LET p == ask[t].parent
       IN  p # NoParent => Readable(p) /\ ask[p[1]].conv = ask[t].conv
    /\ pc' = [pc EXCEPT ![t] = "sequence"]
    /\ UNCHANGED <<ask, seq, outcome, done, records, files>>

EventsOf(conv) == {e \in Stored : ask[e[1]].conv = conv}

NextSequence(conv) ==
    IF EventsOf(conv) = {} THEN 0
    ELSE Max({Hint(e) : e \in EventsOf(conv)}) + 1

\* list_conversation_events restores the events of every conversation, so an
\* unreadable one anywhere refuses the turn.
TakeSequence(t) ==
    /\ pc[t] = "sequence"
    /\ \A e \in Stored : Readable(e)
    /\ Cardinality(EventsOf(ask[t].conv)) < MaxEvents
    /\ seq' = [seq EXCEPT ![t] = NextSequence(ask[t].conv)]
    /\ pc' = [pc EXCEPT ![t] = "write"]
    /\ UNCHANGED <<ask, outcome, done, records, files>>

\* A failed check, a missing binding or an adapter mismatch.
Refuse(t) ==
    /\ pc[t] \in Checking
    /\ pc' = [pc EXCEPT ![t] = "refused"]
    /\ UNCHANGED <<ask, seq, outcome, done, records, files>>

----------------------------------------------------------------------------
\* Writing the items.

CommitOrigin(t) ==
    /\ pc[t] = "write"
    /\ Item(t) \in Origins
    /\ records' = records \cup {<<t, Item(t)>>}
    /\ pc' = [pc EXCEPT ![t] = "settle"]
    /\ UNCHANGED <<ask, seq, outcome, done, files>>

\* publish_new_workspace_file never replaces a file.
Unpublished(t, k) == Path(t, k) \notin PathsInUse

PublishFile(t) ==
    /\ pc[t] = "write"
    /\ Item(t) \in Artifacts
    /\ Unpublished(t, Item(t))
    /\ files' = files \cup {<<t, Item(t)>>}
    /\ pc' = [pc EXCEPT ![t] = "register"]
    /\ UNCHANGED <<ask, seq, outcome, done, records>>

Register(t) ==
    /\ pc[t] = "register"
    /\ records' = records \cup {<<t, Item(t)>>}
    /\ pc' = [pc EXCEPT ![t] = "settle"]
    /\ UNCHANGED <<ask, seq, outcome, done, files>>

\* The registration rolls back; cleanup removes the file unless it fails too.
RegisterFails(t) ==
    /\ pc[t] = "register"
    /\ \/ files' = files \ {<<t, Item(t)>>}
       \/ "cleanup" \in Faults /\ files' = files
    /\ pc' = [pc EXCEPT ![t] = "undo"]
    /\ UNCHANGED <<ask, seq, outcome, done, records>>

CheckEventParent(t) ==
    /\ pc[t] = "write"
    /\ Item(t) \in Events
    /\ LET p == ParentOf(<<t, Item(t)>>)
       IN  p # NoParent => Readable(p) /\ ask[p[1]].conv = ask[t].conv
    /\ pc' = [pc EXCEPT ![t] = "commit"]
    /\ UNCHANGED <<ask, seq, outcome, done, records, files>>

CommitEvent(t) ==
    /\ pc[t] = "commit"
    /\ records' = records \cup {<<t, Item(t)>>}
    /\ pc' = [pc EXCEPT ![t] = "settle"]
    /\ UNCHANGED <<ask, seq, outcome, done, files>>

\* After the commit: workspace.json follows, the record is read back, and the
\* turn remembers it.
AfterItem(t) ==
    IF outcome[t] = "none" THEN "generate"
    ELSE IF done[t] + 1 = Len(Plan(outcome[t])) THEN "audit" ELSE "write"

Settle(t) ==
    /\ pc[t] = "settle"
    /\ Item(t) \in Events => ParentStored(<<t, Item(t)>>)
    /\ done' = [done EXCEPT ![t] = @ + 1]
    /\ pc' = [pc EXCEPT ![t] = AfterItem(t)]
    /\ UNCHANGED <<ask, seq, outcome, records, files>>

\* A turn that remembers nothing has nothing to undo.
AfterFailure(t) == IF done[t] = 0 THEN "failed" ELSE "undo"

\* The call raises although its transaction committed: the read-back finds the
\* parent gone, or the workspace file could not follow.
LateFailure(t) ==
    /\ pc[t] = "settle"
    /\ \/ "late" \in Faults
       \/ Item(t) \in Events /\ ~ParentStored(<<t, Item(t)>>)
    /\ pc' = [pc EXCEPT ![t] = AfterFailure(t)]
    /\ UNCHANGED <<ask, seq, outcome, done, records, files>>

\* The runtime answers: with a text that passes the scans, or without one.
Generate(t) ==
    /\ pc[t] = "generate"
    /\ \E result \in {"completed", "error"} : outcome' = [outcome EXCEPT ![t] = result]
    /\ pc' = [pc EXCEPT ![t] = "write"]
    /\ UNCHANGED <<ask, seq, done, records, files>>

\* A rejected context, a refused publication, a failed transaction.
Fail(t) ==
    /\ pc[t] \in {"write", "commit", "generate", "audit"}
    /\ pc' = [pc EXCEPT ![t] = AfterFailure(t)]
    /\ UNCHANGED <<ask, seq, outcome, done, records, files>>

AppendAudit(t) ==
    /\ pc[t] = "audit"
    /\ pc' = [pc EXCEPT ![t] = "returned"]
    /\ UNCHANGED <<ask, seq, outcome, done, records, files>>

----------------------------------------------------------------------------
\* _rollback_created.

\* Mutants: all records but the last; every file under the turn's path.
AllButTheLast(t) == {<<t, Plan(outcome[t])[i]>> : i \in 1 .. (done[t] - 1)}
FilesUnderPath(t) == {f \in files : Path(f[1], f[2]) = Path(t, f[2])}

RemovedRecords(t) == Created(t)
RemovedFiles(t) == {f \in Created(t) : f[2] \in Artifacts}

\* The transaction, and the workspace file that follows it or does not.
UndoRecords(t) ==
    /\ pc[t] = "undo"
    /\ \/ /\ records' = records \ RemovedRecords(t)
          /\ \E next \in {"unlink", "rollbackError"} : pc' = [pc EXCEPT ![t] = next]
       \/ /\ pc' = [pc EXCEPT ![t] = "rollbackError"]
          /\ UNCHANGED records
    /\ UNCHANGED <<ask, seq, outcome, done, files>>

\* Each file is tried; those that could not be removed make it an error.
UnlinkFiles(t) ==
    /\ pc[t] = "unlink"
    /\ \E kept \in SUBSET RemovedFiles(t) :
          /\ files' = files \ (RemovedFiles(t) \ kept)
          /\ pc' = [pc EXCEPT ![t] = IF kept = {} THEN "failed" ELSE "rollbackError"]
    /\ UNCHANGED <<ask, seq, outcome, done, records>>

\* The process dies.
Crash(t) ==
    /\ pc[t] \in Running
    /\ pc' = [pc EXCEPT ![t] = "crashed"]
    /\ UNCHANGED <<ask, seq, outcome, done, records, files>>

Step(t) ==
    \/ ValidateParent(t) \/ TakeSequence(t) \/ Refuse(t)
    \/ CommitOrigin(t) \/ PublishFile(t) \/ Register(t) \/ RegisterFails(t)
    \/ CheckEventParent(t) \/ CommitEvent(t) \/ Settle(t) \/ LateFailure(t)
    \/ Generate(t) \/ Fail(t) \/ AppendAudit(t)
    \/ UndoRecords(t) \/ UnlinkFiles(t)

\* Every turn has been called and has ended.
AllEnded == (\A t \in Turns : pc[t] \in Ended) /\ UNCHANGED vars

Next == (\E t \in Turns : Start(t) \/ RefuseOperation(t) \/ Step(t) \/ Crash(t)) \/ AllEnded

Spec == Init /\ [][Next]_vars

----------------------------------------------------------------------------
\* Every variable has its type (_CreatedTurnState and the event fields).
TypeOK ==
    /\ pc \in [Turns -> {"idle"} \cup Running \cup Ended]
    /\ ask \in [Turns -> [conv : Conversations \cup {"none"},
                          op : Ops \cup {"none"},
                          parent : EventIds \cup {NoParent}]]
    /\ seq \in [Turns -> Nat]
    /\ outcome \in [Turns -> {"none", "completed", "error"}]
    /\ done \in [Turns -> Nat]
    /\ \A t \in Turns : done[t] <= Len(Plan(outcome[t]))
    /\ records \subseteq Turns \X Kinds
    /\ files \subseteq Turns \X Artifacts

\* A turn that raises anything but LocalConversationRollbackError has left no
\* record and no managed file behind.
FailedTurnLeavesNothing ==
    \A t \in Turns : pc[t] = "failed" =>
        \A x \in records \cup files : x[1] # t

\* A turn that raises, and whose rollback did not fail, leaves at most the record
\* and the file of the one item it was writing: whatever fails, at whatever item
\* and beside whatever other turn, everything the turn remembered is removed.
FailedTurnLeavesOneItem ==
    \A t \in Turns : pc[t] = "failed" =>
        \A x \in records \cup files : x[1] = t =>
            done[t] < Len(Plan(outcome[t])) /\ x[2] = Item(t)

\* A turn that returned a result keeps all its records and files, whatever
\* turns run, fail and roll back beside it or after it.
CompletedTurnWhole ==
    \A t \in Turns : pc[t] = "returned" =>
        LET all == {<<t, Plan(outcome[t])[i]>> : i \in 1 .. Len(Plan(outcome[t]))}
        IN  all \subseteq records /\ {x \in all : x[2] \in Artifacts} \subseteq files

\* An artifact record always has its file, at every point of a turn, of its
\* rollback and of a crash: _register follows the publication and the rollback
\* removes the records first.
ArtifactHasFile == \A r \in records : r[2] \in Artifacts => r \in files

\* Two turns of one conversation with the same operation never both return: the
\* operation check is a query outside any transaction, and what holds the turns
\* apart is that their files would have the same managed path (_turn_path), which
\* is published once.  Turns of two conversations that start together share no
\* path, and both may return.
OneTurnPerOperation ==
    \A t, u \in Turns :
        t # u /\ pc[t] = "returned" /\ pc[u] = "returned" =>
            ask[t].op # ask[u].op \/ ask[t].conv # ask[u].conv

\* An event loses its parent (and list_conversation_events then refuses every
\* later turn of every conversation) in two ways only: it is the item a failed or
\* crashed turn was writing, or its turn continued another turn that was not
\* finished and rolled back.  A rollback never parts the events it remembers, and
\* a turn that continues a returned turn never loses its parent.
ParentsKept ==
    \A e \in Stored :
        \/ ParentStored(e)
        \/ e \notin Created(e[1])
        \/ ParentOf(e)[1] # e[1] /\ pc[ParentOf(e)[1]] \in {"unlink"} \cup (Ended \ {"returned", "refused"})

\* An event sorts after its parent: the sequence hint read before the turn
\* wrote anything is still above its parent's when the event is written.
SequenceAfterParent ==
    \A e \in Stored : ParentOf(e) \in Stored => Hint(ParentOf(e)) < Hint(e)

\* Turns that run at once, fail, roll back or crash at any item: one that
\* returned keeps its records and files and is the only one of its operation in
\* its conversation, one that failed leaves at most the item it was writing, and no artifact
\* record is without its file at any moment.
TurnsWhole ==
    /\ TypeOK
    /\ FailedTurnLeavesOneItem /\ CompletedTurnWhole
    /\ ArtifactHasFile /\ OneTurnPerOperation

\* The events that turns leave, whatever is rolled back beside them, form a
\* conversation that can be read: parents stay, and sort before their children.
EventsOrdered == ParentsKept /\ SequenceAfterParent
============================================================================
