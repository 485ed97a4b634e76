---------------------------- MODULE PackageGraph ----------------------------
(***************************************************************************)
(* What a state package says of the records in it, before it is published  *)
(* and again before it is imported: state_package.py.  The records of a    *)
(* workspace are a set recs of                                             *)
(*   [id, type, active, secret, dated, rev, links, info]                   *)
(* where dated says that it was not last changed before it was created,    *)
(* links pairs each identifier a record names with the type that is wanted *)
(* there ("any": present, "live": present and active), and info holds what *)
(* the rules of its type need.  One rule that fails makes the export of    *)
(* the whole workspace fail.                                               *)
(***************************************************************************)
EXTENDS Naturals, FiniteSets

(* PACKAGE_RECORD_REGISTRIES[2], with the portability categories. *)
RecordTypes ==
    {"preference", "policy", "permission", "memory", "claim", "evidence", "inference",
     "trust_assessment", "instruction_origin", "project", "decision", "artifact",
     "backup_manifest", "work_item", "procedure", "project_checkpoint",
     "runtime_manifest", "model_manifest", "model_binding", "conversation",
     "conversation_event", "project_experience", "source_environment",
     "portability_import_batch", "portability_mapping_report", "portability_loss",
     "portability_source_mapping", "portability_quarantine", "portability_original_source"}

(* _record_payload *)
Record(id, type, row, links, info) ==
    [id |-> id, type |-> type, active |-> row.active, secret |-> row.secret, dated |-> row.dated,
     rev |-> row.rev, links |-> links, info |-> info]

(* A record that is written once, or is of no interest but for its type.   *)
Plain == [active |-> TRUE, secret |-> FALSE, dated |-> TRUE, rev |-> 1]

(* _build_export_members: secret records stay behind. *)
Exported(recs) == {r \in recs : ~r.secret}

(* _envelope_from_payload, the part that can fail for a stored row.  The   *)
(* services take the time from the clock at every change and never compare *)
(* it with the creation time they keep.                                    *)
EnvelopeOk(r) == r.dated

OfType(pack, type) == {r \in pack : r.type = type}

(* _validate_cross_record_links, _require_link_type *)
LinkOk(pack, r, link) ==
    /\ \E q \in pack :
          /\ q.id = link[1]
          /\ link[2] = "live" => q.active
          /\ link[2] \notin {"live", "any"} => q.type = link[2]
          /\ link[2] \in {"work_item", "project_experience"} => q.info.project = r.info.project
    /\ link[2] \in {"decision", "project_experience"} => link[1] # r.id

CrossLinksOk(pack) == \A r \in pack : \A link \in r.links : LinkOk(pack, r, link)

ActiveProject(pack, w) == \E q \in pack : q.id = w /\ q.type = "project" /\ q.active

(* _validate_work_item_package_graph, but for the cycles, which are in     *)
(* module WorkItems.                                                       *)
WorkItemGraphOk(pack) ==
    LET items == OfType(pack, "work_item")
    IN  \A r \in items :
           /\ ActiveProject(pack, r.info.project)
           /\ \A id \in r.info.dependsOn \union r.info.blockedBy : \E q \in items :
                 /\ q.id = id /\ q.active /\ q.info.project = r.info.project
                 /\ id \in r.info.blockedBy => q.info.status \notin {"completed", "cancelled"}

(* Mutant: the predecessor is looked up and nothing else. *)
PredecessorFound(r, q) == TRUE

(* The two halves of _validate_procedure_package_graph. *)
PredecessorPackaged(r, q) ==
    /\ q.info.project = r.info.project
    /\ q.info.version < r.info.version
    /\ q.info.status \in {"approved", "superseded"}
    /\ q.info.status = "superseded" => q.info.supersededBy = {r.id}

ReplacementPackaged(r, q) ==
    /\ q.info.project = r.info.project
    /\ q.info.version > r.info.version
    /\ q.info.supersedes = {r.id}

ProcedureGraphOk(pack) ==
    LET procedures == OfType(pack, "procedure")
    IN  \A r \in procedures :
           /\ ActiveProject(pack, r.info.project)
           /\ \A id \in r.info.supersedes : \E q \in procedures : q.id = id /\ PredecessorPackaged(r, q)
           /\ \A id \in r.info.supersededBy : \E q \in procedures : q.id = id /\ ReplacementPackaged(r, q)

(* _validate_current_checkpoint_package_links: work is the set of items it *)
(* lists, with the status their role asks for.                             *)
CheckpointLinksOk(pack, k) ==
    /\ ActiveProject(pack, k.info.project)
    /\ \A w \in k.info.work : \E i \in pack :
          /\ i.id = w.id
          /\ i.type = "work_item" /\ i.active
          /\ i.info.project = k.info.project
          /\ i.info.status = w.status
          /\ w.milestone => i.info.milestone
    /\ \A b \in k.info.basis : \E q \in pack : q.id = b /\ q.active


(* _validate_checkpoint_package_graph, for one checkpoint: the links of a  *)
(* confirmed one are followed only while its basis is what it was.         *)
CheckpointOk(pack, k) ==
    \/ /\ k.info.state # "proposed"
       /\ \E b \in DOMAIN k.info.revisions : \A q \in pack : q.id = b => q.rev # k.info.revisions[b]
    \/ CheckpointLinksOk(pack, k)

(* _validate_package_payloads, as far as records are concerned, of what    *)
(* _build_export_members wrote.                                            *)
PackageValid(recs) ==
    LET pack == Exported(recs)
    IN  /\ \A r \in recs : r.type \in RecordTypes
        /\ \A r \in pack : EnvelopeOk(r)
        /\ CrossLinksOk(pack)
        /\ WorkItemGraphOk(pack)
        /\ ProcedureGraphOk(pack)
        /\ \A k \in OfType(pack, "project_checkpoint") : CheckpointOk(pack, k)
=============================================================================
