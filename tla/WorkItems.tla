------------------------------ MODULE WorkItems ------------------------------
(***************************************************************************)
(* WorkItemService: the units of work of one project, their lifecycle,     *)
(* their dependency and blocker links, and their verification.             *)
(*                                                                         *)
(* Every operation loads and validates outside the transaction and commits *)
(* inside it, where only the item's own revision and envelope status are   *)
(* checked again: the two halves are two steps of a client.                *)
(*                                                                         *)
(* Timestamps are reduced to whether they are set; decisions, artifacts,   *)
(* evidence and generic sources to one set of linkable records.            *)
(***************************************************************************)
EXTENDS Naturals

CONSTANTS
    Clients,    \* processes (or callers) using the service
    Items,      \* work item identifiers
    Sources,    \* records other than work items that an item may link
    MaxCommits  \* bound: transactions that commit

(* "none" marks a client with no operation under way: no identifier is it. *)
ASSUME WorkItemAssumption == MaxCommits \in Nat /\ "none" \notin Items

VARIABLES
    items,          \* the work_item rows
    projectActive,  \* the project's envelope status
    commits,        \* transactions of the service that committed
    live,           \* the linkable records that are active
    pending,        \* what each client has validated and not yet committed
    overlapped      \* history: two operations were under way at once

vars == <<items, projectActive, commits, live, pending, overlapped>>

Status == {"proposed", "ready", "in_progress", "blocked", "completed", "cancelled"}
Terminal == {"completed", "cancelled"}

(* none: not_verified or not_applicable; judged: passed or failed. *)
Verification == {"none", "pending", "judged"}

(* _ALLOWED_TRANSITIONS *)
AllowedTransitions ==
    [proposed |-> {"ready", "cancelled"},
     ready |-> {"in_progress", "blocked", "cancelled"},
     in_progress |-> {"blocked", "completed", "cancelled"},
     blocked |-> {"ready", "in_progress", "cancelled"},
     completed |-> {},
     cancelled |-> {}]

Item == [rev : Nat, life : {"none", "active", "archived"}, status : Status,
         trusted : BOOLEAN, started : BOOLEAN, completed : BOOLEAN,
         deps : SUBSET Items, blockers : SUBSET Items, links : SUBSET Sources,
         verification : Verification, evidence : SUBSET Sources]

(* What create and propose pass for the values they do not take. *)
FreshItem ==
    [rev |-> 0, life |-> "none", status |-> "proposed", trusted |-> FALSE,
     started |-> FALSE, completed |-> FALSE, deps |-> {}, blockers |-> {},
     links |-> {}, verification |-> "none", evidence |-> {}]

NoOp == [item |-> "none", row |-> FreshItem]

Active(i) == items[i].life = "active"
Exists(i) == items[i].life # "none"

Init ==
    /\ items = [i \in Items |-> FreshItem]
    /\ projectActive = TRUE
    /\ commits = 0
    /\ live = Sources
    /\ pending = [c \in Clients |-> NoOp]
    /\ overlapped = FALSE
-----------------------------------------------------------------------------
(* _validate_persisted_semantics, which the requested values meet too. *)
SemanticsValid(i, row) ==
    /\ row.completed <=> row.status = "completed"
    /\ row.completed => row.started
    /\ row.status = "blocked" <=> row.blockers # {}
    /\ i \notin row.deps \union row.blockers
    /\ row.deps \intersect row.blockers = {}
    /\ row.verification = "judged" => row.evidence # {}
    /\ row.verification = "none" => row.evidence = {}

(* visit finds no node on its own path: no set of nodes each of which      *)
(* depends on a member of the set.                                         *)
AcyclicOn(nodes, depends) ==
    \A loop \in SUBSET nodes :
        loop # {} => \E n \in loop : depends[n] \intersect loop = {}

(* _validate_dependency_graph: the active items with the candidate's new   *)
(* dependencies put in.                                                    *)
DependencyGraphValid(i, row) ==
    LET nodes == {n \in Items : Active(n)} \union {i}
    IN  AcyclicOn(nodes, [n \in nodes |-> IF n = i THEN row.deps ELSE items[n].deps])

(* _validate_work_item_relations *)
RelationsValid(i, row) ==
    /\ \A n \in row.deps \union row.blockers : Active(n)
    /\ \A n \in row.blockers : items[n].status \notin Terminal
    /\ DependencyGraphValid(i, row)

(* _validated_work_item_values *)
ValuesValid(i, row) ==
    /\ SemanticsValid(i, row)
    /\ projectActive
    /\ RelationsValid(i, row)
    /\ row.links \union row.evidence \subseteq live

(* _work_item_from_record with a repository: get, list and every mutation  *)
(* start here, and raise WorkItemCorruptError when it fails.               *)
Readable(i) ==
    /\ items[i].status # "proposed" => items[i].trusted
    /\ ValuesValid(i, items[i])

(* A mutation loads its item with _work_item_from_record and requires the  *)
(* user and an active envelope.                                            *)
Loadable(i) == Active(i) /\ Readable(i)
-----------------------------------------------------------------------------
Prepare(c, i, row) ==
    /\ pending' = [pending EXCEPT ![c] = [item |-> i, row |-> row]]
    /\ overlapped' = (overlapped \/ \E d \in Clients : pending[d] # NoOp)
    /\ UNCHANGED <<items, projectActive, commits, live>>

(* create (the user path: ready, user-created) and propose (any actor:     *)
(* proposed, trusted provenance only for the user).                        *)
PrepareNew(c, i, status, trusted, deps, links) ==
    LET row == [FreshItem EXCEPT !.life = "active", !.status = status,
                  !.trusted = trusted, !.deps = deps, !.links = links]
    IN  /\ ~Exists(i)
        /\ \A d \in Clients : pending[d].item # i
        /\ ValuesValid(i, row)
        /\ Prepare(c, i, row)

Create(c, i) ==
    \E deps \in SUBSET Items, links \in SUBSET Sources :
        PrepareNew(c, i, "ready", TRUE, deps, links)

Propose(c, i) ==
    \E deps \in SUBSET Items, links \in SUBSET Sources, trusted \in BOOLEAN :
        PrepareNew(c, i, "proposed", trusted, deps, links)

(* update_definition: dependencies and links are replaced. *)
UpdateDefinition(c, i) ==
    /\ Loadable(i)
    /\ \E deps \in SUBSET Items, links \in SUBSET Sources :
          LET row == [items[i] EXCEPT !.deps = deps, !.links = links, !.trusted = TRUE]
          IN  ValuesValid(i, row) /\ Prepare(c, i, row)

(* The row a transition writes: started_at on the first start, completed_at *)
(* only on completion, blockers only while blocked.                        *)
KeepProvenance(i, to, blockers) ==
    [items[i] EXCEPT !.status = to,
                     !.started = @ \/ to \in {"in_progress", "completed"},
                     !.completed = (to = "completed"),
                     !.blockers = IF to = "blocked" THEN blockers ELSE {}]
TransitionRow(i, to, blockers) ==
    [items[i] EXCEPT !.status = to,
                     !.started = @ \/ to \in {"in_progress", "completed"},
                     !.completed = (to = "completed"),
                     !.blockers = IF to = "blocked" THEN blockers ELSE {},
                     !.trusted = TRUE]

TransitionAllowed(i, to) == to \in AllowedTransitions[items[i].status]

Transition(c, i) ==
    /\ Loadable(i)
    /\ \E to \in Status, blockers \in SUBSET Items :
          /\ TransitionAllowed(i, to)
          /\ to # "blocked" => blockers = {}
          /\ ValuesValid(i, TransitionRow(i, to, blockers))
          /\ Prepare(c, i, TransitionRow(i, to, blockers))

SetVerification(c, i) ==
    /\ Loadable(i)
    /\ \E v \in Verification, evidence \in SUBSET Sources :
          LET row == [items[i] EXCEPT !.verification = v, !.evidence = evidence,
                                      !.trusted = TRUE]
          IN  ValuesValid(i, row) /\ Prepare(c, i, row)

(* archive: the stored values are kept and not validated again. *)
Archive(c, i) ==
    /\ Loadable(i)
    /\ Prepare(c, i, [items[i] EXCEPT !.life = "archived", !.trusted = TRUE])
-----------------------------------------------------------------------------
(* _update_work_item: WHERE id = ? AND revision = ? AND status = 'active'.  *)
(* The row was computed from revision row.rev.                             *)
CommitAnyRevision(c) == TRUE
RevisionUnchanged(c) ==
    LET i == pending[c].item
    IN  items[i].rev = pending[c].row.rev /\ items[i].life \in {"none", "active"}

(* The record, its audit event and the state revision commit together. *)
Commit(c) ==
    /\ pending[c] # NoOp
    /\ RevisionUnchanged(c)
    /\ commits < MaxCommits
    /\ commits' = commits + 1
    /\ items' = [items EXCEPT ![pending[c].item] =
                    [pending[c].row EXCEPT !.rev = items[pending[c].item].rev + 1]]
    /\ pending' = [pending EXCEPT ![c] = NoOp]
    /\ UNCHANGED <<projectActive, live, overlapped>>

(* StaleRevisionError, a lock timeout or a crash: nothing was written. *)
Abandon(c) ==
    /\ pending[c] # NoOp
    /\ pending' = [pending EXCEPT ![c] = NoOp]
    /\ UNCHANGED <<items, projectActive, commits, live, overlapped>>

(* ProjectService.archive looks at the project only. *)
ArchiveProject ==
    /\ projectActive
    /\ projectActive' = FALSE
    /\ UNCHANGED <<items, commits, live, pending, overlapped>>

(* Archiving a linked record looks at that record only. *)
ArchiveSource(s) ==
    /\ s \in live
    /\ live' = live \ {s}
    /\ UNCHANGED <<items, projectActive, commits, pending, overlapped>>

(* A client has one operation under way at a time; none starts at the bound. *)
Operation(c, i) ==
    /\ pending[c] = NoOp
    /\ commits < MaxCommits
    /\ \/ Create(c, i) \/ Propose(c, i) \/ UpdateDefinition(c, i)
       \/ Transition(c, i) \/ SetVerification(c, i) \/ Archive(c, i)

Next ==
    \/ \E c \in Clients, i \in Items : Operation(c, i)
    \/ \E c \in Clients : Commit(c) \/ Abandon(c)
    \/ ArchiveProject
    \/ \E s \in Sources : ArchiveSource(s)

Spec == Init /\ [][Next]_vars
-----------------------------------------------------------------------------
TypeOK ==
    /\ items \in [Items -> Item]
    /\ projectActive \in BOOLEAN
    /\ commits \in 0..MaxCommits
    /\ live \subseteq Sources
    /\ pending \in [Clients -> [item : Items \union {"none"}, row : Item]]
    /\ overlapped \in BOOLEAN

(* "An untrusted proposal never becomes accepted ready work merely because  *)
(* it exists in storage" (IMP-041): whatever clients interleave, every item *)
(* that left proposed was put there by the trusted path, and every stored   *)
(* row satisfies the rules for its own fields (completion, blockers, self   *)
(* links, evidence) that a load checks, so a row is never unreadable by     *)
(* itself, only through a record it links.                                  *)
StoredRowsSound ==
    \A i \in Items : Exists(i) =>
        /\ items[i].status # "proposed" => items[i].trusted
        /\ SemanticsValid(i, items[i])

(* The lifecycle is followed by every committed step, even when another     *)
(* client changed the item after the transition was validated: in           *)
(* particular completed and cancelled are final and archived rows are       *)
(* frozen.                                                                  *)
LifecycleFollowed ==
    \A i \in Items :
        /\ Exists(i) /\ items'[i].status # items[i].status =>
              items'[i].status \in AllowedTransitions[items[i].status]
        /\ items[i].life = "archived" => items'[i] = items[i]

(* "dependency cycles are rejected" (IMP-041), as long as no two operations *)
(* were ever under way at once: one client cannot build a cycle, two that   *)
(* validate before either commits can.                                      *)
NoDependencyCycle ==
    LET nodes == {n \in Items : Active(n)}
    IN  ~overlapped => AcyclicOn(nodes, [n \in nodes |-> items[n].deps])

(* "terminal work cannot remain a current blocker" (IMP-041). *)
NoTerminalBlocker ==
    \A i \in Items : Active(i) =>
        \A b \in items[i].blockers : items[b].status \notin Terminal

(* An item that links something dead (an archived project, record or item,  *)
(* or a terminal blocker) and that no operation had loaded before stays so  *)
(* for ever: no client can repair, unblock, cancel or archive it, because   *)
(* every operation of the service loads it first and the load raises.       *)
Stranded(i) ==
    /\ Exists(i)
    /\ \A c \in Clients : pending[c].item # i
    /\ \/ ~projectActive
       \/ ~(items[i].links \union items[i].evidence \subseteq live)
       \/ \E n \in items[i].deps \union items[i].blockers : items[n].life = "archived"
       \/ \E n \in items[i].blockers : items[n].status \in Terminal

StrandedForever == \A i \in Items : Stranded(i) => Stranded(i)'

(* What is stored, whatever two clients validate and commit in between:     *)
(* rows that follow their own rules and never hold untrusted work, and no   *)
(* cycle that one client could have built.                                  *)
WorkSound == TypeOK /\ StoredRowsSound /\ NoDependencyCycle

(* What a step may do to an item: follow the lifecycle, and nothing at all  *)
(* once the item is archived or stranded.                                   *)
WorkStepsSound == [][LifecycleFollowed /\ StrandedForever]_vars
=============================================================================
