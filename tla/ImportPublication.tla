-------------------------- MODULE ImportPublication --------------------------
(***************************************************************************)
(* GenericImportPublisher: the preview of a staged import against the      *)
(* state, the user's approval of exactly that preview, and its publication *)
(* as one managed file and one transaction.  Clients publish into one      *)
(* workspace at the same time, crash, and try again.                       *)
(*                                                                         *)
(* Record identifiers are uuid5 values of what they stand for, so the      *)
(* model keys the tables by that: a source mapping by adapter and source   *)
(* object, a canonical record by kind and source object, and the batch,    *)
(* report, loss, quarantine and snapshot records of a batch by the batch.  *)
(***************************************************************************)
EXTENDS Naturals, FiniteSets

CONSTANTS
    Clients,         \* publishers
    Batches,         \* import batch identifiers
    SourceIds,       \* source object identifiers
    Environments,    \* contents of the source environment record
    Adapters,        \* adapter contracts: records with id, version, ...
    Imports,            \* what clients import: batch, src, adapter, env, preserve
    Stage(_, _),     \* the staging of a source by an adapter
    NoRecord

VARIABLES
    env,         \* the persisted source environment, or NoRecord
    mapping,     \* source mapping records: [<<adapter id, source id>> -> ...]
    canonical,   \* conversations and events: [<<kind, source id>> -> ...]
    batch,       \* import batch records with all they bring: [Batches -> ...]
    file,        \* managed copies of sources under artifacts/imports/
    pc, task,     \* where each client is and what it imports
    preview,     \* the approved preview
    torn         \* clients whose cleanup of a file failed

stateVars == <<env, mapping, canonical, batch>>
importVars == <<stateVars, file, pc, task, preview, torn>>

PC == {"idle", "staged", "previewed", "approved", "filed", "committed", "done", "failed"}

ImportInit ==
    /\ env = NoRecord
    /\ mapping = <<>>
    /\ canonical = <<>>
    /\ batch = [b \in Batches |-> NoRecord]
    /\ file = [b \in Batches |-> NoRecord]
    /\ pc = [c \in Clients |-> "idle"]
    /\ task = [c \in Clients |-> NoRecord]
    /\ preview = [c \in Clients |-> NoRecord]
    /\ torn = {}

Goto(c, l) == pc' = [pc EXCEPT ![c] = l]
Objects(j) == j.stage.objects

(* What a client imports, with the staging of its source. *)
Staged(j) == [batch |-> j.batch, src |-> j.src, adapter |-> j.adapter, env |-> j.env,
              preserve |-> j.preserve, stage |-> Stage(j.src, j.adapter)]
-----------------------------------------------------------------------------
Kind(o) == IF o.type = "conversation" THEN "conversation" ELSE "event"

(* What staging leaves: parents are staged too, and none descends from      *)
(* itself (_quarantine_cycles_and_missing_dependencies).                   *)
Grounded(objs) ==
    /\ \A id \in DOMAIN objs : objs[id].parents \subseteq DOMAIN objs
    /\ \A S \in (SUBSET DOMAIN objs) \ {{}} : \E id \in S : objs[id].parents \intersect S = {}

(* _canonical_record_id, _mapping_id *)
CanonicalKey(objs, id) == <<Kind(objs[id]), id>>
MappingKey(j, id) == <<j.adapter.id, id>>

(* _conversation_root: the conversations a staged object descends from. *)
Roots(objs, id) ==
    LET r[x \in DOMAIN objs] == IF objs[x].type = "conversation" THEN {x}
                                ELSE UNION {r[p] : p \in objs[x].parents}
    IN  r[id]

(* _canonical_record: an event names its conversation and the events among *)
(* its parents; a conversation has no parents.                             *)
CanonicalRecord(j, id) ==
    LET objs == Objects(j)
    IN  [batch        |-> j.batch,
         conversation |-> <<"conversation", CHOOSE r \in Roots(objs, id) : TRUE>>,
         parents      |-> {CanonicalKey(objs, p) :
                              p \in {p \in objs[id].parents : objs[p].type # "conversation"}}]

SourceMapping(j, id) ==
    [version |-> j.adapter.version, object |-> Objects(j)[id], batch |-> j.batch,
     canonical |-> CanonicalKey(Objects(j), id)]

(* _mapping_conflict_reason: what was imported before differs from what is *)
(* staged now, in adapter version, identity, content or target.            *)
MappingConflict(j, id) ==
    LET old == mapping[MappingKey(j, id)]
    IN  \/ old.version # j.adapter.version
        \/ old.object # Objects(j)[id]
        \/ old.canonical # CanonicalKey(Objects(j), id)

(* What makes preview raise: an object of no or of several conversations,  *)
(* a conversation with parents, another content of the same environment    *)
(* (_plan_source_environment).                                             *)
PreviewRaises(j) ==
    \/ \E id \in DOMAIN Objects(j) :
          \/ Cardinality(Roots(Objects(j), id)) # 1
          \/ Objects(j)[id].type = "conversation" /\ Objects(j)[id].parents # {}
    \/ env # NoRecord /\ env # j.env

(* The plan, computed from the staging and from the state as it is now. *)
Plan(j) ==
    LET ids == DOMAIN Objects(j)
        mapped == {id \in ids : MappingKey(j, id) \in DOMAIN mapping}
        clash == {id \in ids \ mapped : CanonicalKey(Objects(j), id) \in DOMAIN canonical}
        changed == {id \in mapped : MappingConflict(j, id)}
    IN  [newEnv    |-> env = NoRecord,
         created   |-> ids \ (mapped \union clash),
         reused    |-> mapped \ changed,
         conflicts |-> clash \union changed]

(* _final_import_batch *)
FinalBatch(j) ==
    LET s == j.stage
        lost == Cardinality(s.quarantined)
        good == s.total - lost
    IN  [status    |-> IF good = 0 THEN "rejected"
                       ELSE IF lost = 0 THEN "published" ELSE "partially_published",
         staged    |-> s.total,
         published |-> good,
         quarantined |-> lost,
         adapter   |-> j.adapter.id,
         objects   |-> s.objects]

(* _publication_records: the batch with its report, losses, quarantine     *)
(* decisions and the snapshot of its source.                               *)
PublicationRecords(j) ==
    [final       |-> FinalBatch(j),
     losses      |-> j.stage.losses,
     quarantined |-> j.stage.quarantined,
     snapshot    |-> [src |-> j.src, managed |-> j.preserve]]

(* What stands for no record is no value of one, and staging, which is a   *)
(* parameter here, leaves a finite and grounded set of objects             *)
(* (StagedWellFounded of MCImports is about the staging of the code).      *)
ASSUME ImportAssumption ==
    /\ NoRecord \notin Environments
    /\ \A j \in Imports :
          /\ j.batch \in Batches /\ j.adapter \in Adapters
          /\ j.env \in Environments /\ j.preserve \in BOOLEAN /\ j.src # NoRecord
          /\ Staged(j) # NoRecord
          /\ ~Staged(j).stage.refused =>
                LET objs == Objects(Staged(j))
                IN  /\ DOMAIN objs \subseteq SourceIds /\ IsFiniteSet(DOMAIN objs)
                    /\ Grounded(objs)
                    /\ PublicationRecords(Staged(j)) # NoRecord

(* ImportBatchRecord._validate_status_invariants for the final statuses. *)
BatchValid(b) ==
    /\ b.published + b.quarantined <= b.staged
    /\ b.status = "rejected" => b.published = 0
    /\ b.status = "published" => b.published = b.staged /\ b.quarantined = 0
    /\ b.status = "partially_published" => 0 < b.published /\ b.published < b.staged
-----------------------------------------------------------------------------
(* PortabilityState.save_source_environment: create_record refuses an      *)
(* identifier in use.                                                      *)
SaveEnvironment(e) ==
    /\ env = NoRecord
    /\ env' = e
    /\ UNCHANGED <<mapping, canonical, batch, file, pc, task, preview, torn>>

(* GenericImportStager.stage: its result is all the later steps use, and   *)
(* it writes nothing.                                                      *)
StageSource(c, j) ==
    /\ pc[c] = "idle"
    /\ task' = [task EXCEPT ![c] = Staged(j)]
    /\ Goto(c, IF Staged(j).stage.refused THEN "failed" ELSE "staged")
    /\ UNCHANGED <<stateVars, file, preview, torn>>

(* GenericImportPublisher.preview, shown to the user. *)
Preview(c) ==
    /\ pc[c] = "staged"
    /\ \/ /\ PreviewRaises(task[c])
          /\ Goto(c, "failed")
          /\ UNCHANGED preview
       \/ /\ ~PreviewRaises(task[c])
          /\ preview' = [preview EXCEPT ![c] = Plan(task[c])]
          /\ Goto(c, "previewed")
    /\ UNCHANGED <<stateVars, file, task, torn>>

(* publish up to its first write: the preview is computed again and must   *)
(* be the approved one, without conflicts.                                 *)
Publish(c) ==
    /\ pc[c] = "previewed"
    /\ LET current == ~PreviewRaises(task[c]) /\ Plan(task[c]) = preview[c]
           good == /\ current
                   /\ preview[c].conflicts = {}
                   /\ BatchValid(FinalBatch(task[c]))
       IN  Goto(c, IF good THEN "approved" ELSE "failed")
    /\ UNCHANGED <<stateVars, file, task, preview, torn>>

(* publish_new_workspace_file for the managed copy of the source, which    *)
(* refuses a name in use.  Without a copy this step does nothing.          *)
PublishSource(c) ==
    LET b == task[c].batch
    IN  /\ pc[c] = "approved"
        /\ \/ /\ ~task[c].preserve
              /\ Goto(c, "filed")
              /\ UNCHANGED file
           \/ /\ task[c].preserve /\ file[b] = NoRecord
              /\ file' = [file EXCEPT ![b] = task[c].src]
              /\ Goto(c, "filed")
           \/ /\ task[c].preserve
              /\ Goto(c, "failed")
              /\ UNCHANGED file
        /\ UNCHANGED <<stateVars, task, preview, torn>>

(* Mutant: the identifiers are checked for the batch only. *)
OnlyBatchExists(c) == batch[task[c].batch] # NoRecord

(* The first loop of _commit_records_atomic. *)
TargetExists(c) ==
    \/ batch[task[c].batch] # NoRecord
    \/ preview[c].newEnv /\ env # NoRecord
    \/ \E id \in preview[c].created :
          \/ MappingKey(task[c], id) \in DOMAIN mapping
          \/ CanonicalKey(Objects(task[c]), id) \in DOMAIN canonical

Extend(f, S, g(_)) == [k \in DOMAIN f \union S |-> IF k \in S THEN g(k) ELSE f[k]]

(* _commit_records_atomic: every record of the plan in one transaction. *)
CommitRecords(c) ==
    LET j == task[c]
        new == preview[c].created
    IN  /\ pc[c] = "filed"
        /\ ~TargetExists(c)
        /\ env' = IF preview[c].newEnv THEN j.env ELSE env
        /\ canonical' = Extend(canonical, {CanonicalKey(Objects(j), id) : id \in new},
                               LAMBDA k : CanonicalRecord(j, k[2]))
        /\ mapping' = Extend(mapping, {MappingKey(j, id) : id \in new},
                             LAMBDA k : SourceMapping(j, k[2]))
        /\ batch' = [batch EXCEPT ![j.batch] = PublicationRecords(j)]
        /\ Goto(c, "committed")
        /\ UNCHANGED <<file, task, preview, torn>>

(* published_file.cleanup(): removes the client's own file, or fails. *)
Cleanup(c) ==
    \/ /\ task[c].preserve
       /\ file' = [file EXCEPT ![task[c].batch] = NoRecord]
       /\ UNCHANGED torn
    \/ /\ task[c].preserve
       /\ torn' = torn \union {c}
       /\ UNCHANGED file
    \/ ~task[c].preserve /\ UNCHANGED <<file, torn>>

(* The transaction fails, for an identifier in use or for any other cause: *)
(* ROLLBACK, then the cleanup.                                             *)
CommitFails(c) ==
    /\ pc[c] = "filed"
    /\ Goto(c, "failed")
    /\ Cleanup(c)
    /\ UNCHANGED <<stateVars, task, preview>>

(* GenericImportPublicationState: the batch and its snapshot are read back *)
(* and checked, the managed file against the recorded hash and size.       *)
ReadBack(b) ==
    /\ BatchValid(batch[b].final)
    /\ batch[b].snapshot.managed => file[b] = batch[b].snapshot.src

(* _sync_after_commit and the read-back: whether they raise or not, the    *)
(* records stay and the file is only closed.                               *)
Settle(c) ==
    /\ pc[c] = "committed"
    /\ \/ ReadBack(task[c].batch) /\ Goto(c, "done")
       \/ Goto(c, "failed")
    /\ UNCHANGED <<stateVars, file, task, preview, torn>>

(* The process dies, at any step, or the user starts another import. *)
CrashOrLeave(c) ==
    /\ pc[c] # "idle"
    /\ Goto(c, "idle")
    /\ task' = [task EXCEPT ![c] = NoRecord]
    /\ preview' = [preview EXCEPT ![c] = NoRecord]
    /\ torn' = IF pc[c] = "filed" /\ task[c].preserve THEN torn \union {c} ELSE torn
    /\ UNCHANGED <<stateVars, file>>

ImportNext ==
    \/ \E e \in Environments : SaveEnvironment(e)
    \/ \E c \in Clients :
          \/ \E j \in Imports : StageSource(c, j)
          \/ Preview(c) \/ Publish(c) \/ PublishSource(c)
          \/ CommitRecords(c) \/ CommitFails(c) \/ Settle(c)
          \/ CrashOrLeave(c)

ImportSpec == ImportInit /\ [][ImportNext]_importVars
-----------------------------------------------------------------------------
(* _validate_conversation_package_graph: what a state package wants of     *)
(* conversations and events.                                               *)
ConversationGraphOk ==
    /\ \A k \in DOMAIN canonical :
          /\ canonical[k].conversation \in DOMAIN canonical
          /\ \A p \in canonical[k].parents :
                p \in DOMAIN canonical /\ canonical[p].conversation = canonical[k].conversation
    /\ \A loop \in (SUBSET DOMAIN canonical) \ {{}} :
          \E k \in loop : canonical[k].parents \intersect loop = {}

(* validate_portability_package_graph; losses, quarantine decisions and    *)
(* snapshots are part of their batch.                                      *)
PortabilityGraphOk ==
    /\ \A b \in Batches : batch[b] # NoRecord => env # NoRecord
    /\ \A k \in DOMAIN mapping :
          /\ env # NoRecord
          /\ batch[mapping[k].batch] # NoRecord
          /\ mapping[k].canonical \in DOMAIN canonical

ImportTypeOK ==
    /\ env \in Environments \union {NoRecord}
    /\ DOMAIN mapping \subseteq {ad.id : ad \in Adapters} \X SourceIds
    /\ DOMAIN canonical \subseteq {"conversation", "event"} \X SourceIds
    /\ \A b \in Batches : batch[b] = NoRecord \/ BatchValid(batch[b].final)
    /\ file \in [Batches -> {NoRecord} \union {j.src : j \in Imports}]
    /\ pc \in [Clients -> PC]
    /\ torn \subseteq Clients

(* What a batch record stands for is there: each object it holds has its   *)
(* mapping, with the content of this batch even when an earlier batch      *)
(* brought it, and the canonical record the mapping names; and what        *)
(* imports leave never makes the export of the workspace fail: no record   *)
(* names an environment, batch, conversation or parent that does not exist *)
(* or belongs elsewhere, and no events are in a circle.  Publication is    *)
(* one transaction against a plan that may be out of date (publish and     *)
(* _commit_records_atomic), so this is about the identifiers checked       *)
(* there, and about what is reused without being checked.                  *)
PublicationWhole ==
    /\ ImportTypeOK
    /\ \A b \in Batches : batch[b] # NoRecord =>
          \A id \in DOMAIN batch[b].final.objects :
             LET k == <<batch[b].final.adapter, id>>
             IN  /\ k \in DOMAIN mapping
                 /\ mapping[k].object = batch[b].final.objects[id]
                 /\ mapping[k].canonical \in DOMAIN canonical
    /\ ConversationGraphOk /\ PortabilityGraphOk

(* A batch that claims a managed copy has the file with the source it was  *)
(* made of; and an import that failed leaves no file that no batch claims, *)
(* unless its cleanup failed or it crashed between file and transaction.   *)
SnapshotBacked ==
    \A b \in Batches :
       /\ batch[b] # NoRecord /\ batch[b].snapshot.managed => file[b] = batch[b].snapshot.src
       /\ file[b] # NoRecord /\ torn = {} =>
             \/ batch[b] # NoRecord /\ batch[b].snapshot.managed
             \/ \E c \in Clients : pc[c] = "filed" /\ task[c].batch = b /\ task[c].preserve

(* A source object keeps the canonical record of its first import: later   *)
(* imports, of the same or of changed sources, by the same or by another   *)
(* adapter, rewrite neither the link nor the record.                       *)
FirstImportStands ==
    /\ \A k \in DOMAIN mapping : k \in DOMAIN mapping' /\ mapping'[k] = mapping[k]
    /\ \A k \in DOMAIN canonical : k \in DOMAIN canonical' /\ canonical'[k] = canonical[k]
    /\ \A b \in Batches : batch[b] # NoRecord => batch'[b] = batch[b]

(* Publications that race, fail and crash: what a batch record stands for  *)
(* is there, in the database and on disk, nothing else is left, and the    *)
(* first import of an object stands.                                       *)
PublicationSound == [](PublicationWhole /\ SnapshotBacked) /\ [][FirstImportStands]_importVars
=============================================================================
