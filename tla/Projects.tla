------------------------------ MODULE Projects ------------------------------
(***************************************************************************)
(* ProjectService, DecisionService, ProjectExperienceService, and as much  *)
(* of WorkItemService as these and the readers of a project need.          *)
(* Projects name decisions, governing policies and memories; decisions     *)
(* name a project, memories and a decision they supersede; work items name *)
(* decisions, sources and each other; experiences are appended to a        *)
(* project, may be about one of its items and may correct an earlier one.  *)
(* A service reads and checks what it needs, then writes in one            *)
(* transaction that re-reads only its own record: a pending write, and its *)
(* commit.                                                                 *)
(*                                                                         *)
(* A record is secret from its creation or never.  Its updated_at is what  *)
(* the clock says at the last change: dated is FALSE when that is before   *)
(* its created_at.                                                         *)
(***************************************************************************)
EXTENDS PackageGraph

CONSTANTS
    Clients,        \* processes with the workspace open
    Projs,          \* project identifiers
    Decisions,      \* decision identifiers, taken in order
    Experiences,    \* experience identifiers, taken in order
    Policies,       \* policies: they govern projects and are sources of items
    Memos,          \* confirmed memories, which projects and decisions name
    Items,          \* work items
    Milestones,     \* those of kind milestone
    ItemStatuses,   \* the work statuses they take
    Home,           \* the project they belong to
    DependsOn,      \* [Items -> items it depends on]
    BlockedBy,      \* [Items -> items that block it while it is blocked]
    MaxCommits,     \* bound: transactions in a behaviour
    None

Statuses == {"proposed", "accepted"}
Assertions == {"user_recorded", "user_confirmed", "deterministic_system",
               "imported_external", "model_proposed"}
Actors == {"user", "system", "importer", "model"}
Optional(set) == set \union {None}
Outside == Policies \union Memos

ProjectRow == [decisions : SUBSET Decisions, linked : SUBSET Outside,
               active : BOOLEAN, secret : BOOLEAN, dated : BOOLEAN, rev : Nat \ {0}]
DecisionRow == [status : Statuses, supersedes : Optional(Decisions), project : Optional(Projs),
                linked : SUBSET Memos, active : BOOLEAN, secret : BOOLEAN, dated : BOOLEAN, rev : Nat]
ItemRow == [status : ItemStatuses, decisions : SUBSET Decisions, linked : SUBSET Policies,
            active : BOOLEAN, secret : BOOLEAN, dated : BOOLEAN, rev : Nat]
ExperienceRow == [project : Projs, item : Optional(Items), related : SUBSET Decisions,
                  assertion : Assertions, actor : Actors, failed : BOOLEAN,
                  supersedes : Optional(Experiences)]
OutsideRow == [active : BOOLEAN, enabled : BOOLEAN, secret : BOOLEAN, dated : BOOLEAN]

ASSUME ProjectsAssumption ==
    /\ Decisions \subseteq Nat /\ Experiences \subseteq Nat /\ MaxCommits \in Nat
    /\ IsFiniteSet(Clients)
    /\ Policies \intersect Memos = {} /\ Home \in Projs
    /\ {"ready", "completed"} \subseteq ItemStatuses /\ Milestones \subseteq Items
    /\ DependsOn \in [Items -> SUBSET Items] /\ BlockedBy \in [Items -> SUBSET Items]
    /\ \A i \in Items : i \notin DependsOn[i] \union BlockedBy[i]
    /\ None \notin Projs \union Decisions \union Experiences \union Items
    /\ None \notin DecisionRow /\ None \notin ExperienceRow

VARIABLES
    project,     \* [Projs -> row]
    decision,    \* [Decisions -> row or None]
    item,        \* [Items -> row]
    experience,  \* [Experiences -> row or None]
    outside,     \* [Outside -> row]: the records of other services
    pending,     \* [Clients -> the write a client is about to commit, or None]
    commits      \* the state revision, counted from the start

projectVars == <<project, decision, item, experience, outside, pending, commits>>
Existing(table) == {x \in DOMAIN table : table[x] # None}
-----------------------------------------------------------------------------
(* _project_from_record, _decision_from_record without the repository: the *)
(* links are not followed.                                                 *)
ProjectParses(w) == w \in Projs /\ project[w].rev >= 1 /\ project[w].dated
DecisionParses(d, row) == row # None /\ row.supersedes # d /\ row.dated

(* PolicyService and ConfirmedMemoryService of what is named. *)
Usable(x) == IF x \in Policies THEN outside[x].active ELSE outside[x].dated

(* _validate_typed_links.  A linked decision or project is parsed without  *)
(* its own links and may be archived; a policy must be active.             *)
ProjectLinksOk(row) ==
    /\ \A d \in row.decisions : DecisionParses(d, decision[d])
    /\ \A x \in row.linked : Usable(x)

DecisionLinksOk(row) ==
    /\ row.project # None => ProjectParses(row.project)
    /\ row.supersedes # None => DecisionParses(row.supersedes, decision[row.supersedes])
    /\ \A x \in row.linked : Usable(x)

(* _project_from_record, _decision_from_record with the repository: get,   *)
(* list, export_json and the first step of every change.                   *)
ProjectReadable(w) == ProjectParses(w) /\ ProjectLinksOk(project[w])
DecisionReadable(d) == DecisionParses(d, decision[d]) /\ DecisionLinksOk(decision[d])

(* _validate_project_link *)
ProjectLive(w) == project[w].active /\ ProjectReadable(w)
DecisionLive(d) == decision[d].active /\ DecisionReadable(d)

(* Terminal work is no blocker. *)
Ended(status) == status \in {"completed", "cancelled"}
Blockers(i, row) == IF row.status = "blocked" THEN BlockedBy[i] ELSE {}

(* _validate_work_item_relations and _validate_typed_links of work items.  *)
ItemLinksOk(i, row) ==
    /\ ProjectLive(Home)
    /\ \A j \in DependsOn[i] \union Blockers(i, row) : item[j].active
    /\ \A j \in Blockers(i, row) : ~Ended(item[j].status)
    /\ \A d \in row.decisions : decision[d] # None /\ DecisionLive(d)
    /\ \A x \in row.linked : outside[x].active /\ ~outside[x].secret

(* _work_item_from_record with the repository: all of them, whenever the   *)
(* item is read, active or not.                                            *)
ItemReadable(i) == ItemLinksOk(i, item[i])
-----------------------------------------------------------------------------
Room == commits + Cardinality({d \in Clients : pending[d] # None}) < MaxCommits

Prepare(c, table, id, row, rev) ==
    /\ pending[c] = None
    /\ Room
    /\ pending' = [pending EXCEPT ![c] = [table |-> table, id |-> id, row |-> row, rev |-> rev]]
    /\ UNCHANGED <<project, decision, item, experience, outside, commits>>

(* Mutant: the project is read without its links. *)
ChangeProjectUnread(c, w, row) ==
    project[w].active /\ Prepare(c, "project", w, row, project[w].rev)

(* What update, update_v2 and archive have in common. *)
ChangeProject(c, w, row) ==
    /\ ProjectReadable(w) /\ project[w].active
    /\ Prepare(c, "project", w, row, project[w].rev)

UpdateProject(c, w, decisions, linked) ==
    LET row == [project[w] EXCEPT !.decisions = decisions, !.linked = linked]
    IN  ProjectLinksOk(row) /\ ChangeProject(c, w, row)

ArchiveProject(c, w) == ChangeProject(c, w, [project[w] EXCEPT !.active = FALSE])

(* uuid4: the next identifier nobody uses. *)
Unused(table) ==
    LET free == {x \in DOMAIN table : table[x] = None}
    IN  {x \in free : \A y \in free : x <= y}

(* _create_record.  What a create has checked is not removed before its    *)
(* transaction, and what stops parsing meanwhile might as well stop after  *)
(* it, so the operation is one step.                                       *)
CreateDecision(d, status, supersedes, w, linked, secret) ==
    LET row == [status |-> status, supersedes |-> supersedes, project |-> w, linked |-> linked,
                active |-> TRUE, secret |-> secret, dated |-> TRUE, rev |-> 1]
    IN  /\ Room
        /\ DecisionLinksOk(row)
        /\ decision' = [decision EXCEPT ![d] = row]
        /\ commits' = commits + 1
        /\ UNCHANGED <<project, item, experience, outside, pending>>

(* _validated_decision_values of an update *)
DecisionValid(d, row) == row.supersedes # d /\ DecisionLinksOk(row)

ChangeDecision(c, d, row) ==
    /\ DecisionReadable(d) /\ decision[d].active
    /\ Prepare(c, "decision", d, row, decision[d].rev)

UpdateDecision(c, d, status, supersedes, w, linked) ==
    LET row == [decision[d] EXCEPT !.status = status, !.supersedes = supersedes, !.project = w,
                                   !.linked = linked]
    IN  DecisionValid(d, row) /\ ChangeDecision(c, d, row)

ArchiveDecision(c, d) == ChangeDecision(c, d, [decision[d] EXCEPT !.active = FALSE])

(* The checks inside _update_record's transaction. *)
CommitAllowed(row, w) == row.rev = w.rev /\ row.active

(* _update_record.  The time it writes is not compared with anything. *)
CommitRecord(c) ==
    \E dated \in BOOLEAN :
       LET w == pending[c]
           row == [w.row EXCEPT !.rev = w.rev + 1, !.dated = dated]
       IN  /\ w # None
           /\ \/ /\ w.table = "project" /\ CommitAllowed(project[w.id], w)
                 /\ project' = [project EXCEPT ![w.id] = row]
                 /\ UNCHANGED decision
              \/ /\ w.table = "decision" /\ CommitAllowed(decision[w.id], w)
                 /\ decision' = [decision EXCEPT ![w.id] = row]
                 /\ UNCHANGED project
           /\ pending' = [pending EXCEPT ![c] = None]
           /\ commits' = commits + 1
           /\ UNCHANGED <<item, experience, outside>>

(* The transaction is refused or fails, or the client dies. *)
Abandon(c) ==
    /\ pending[c] # None
    /\ pending' = [pending EXCEPT ![c] = None]
    /\ UNCHANGED <<project, decision, item, experience, outside, commits>>

(* PolicyService.update and archive, and those of a memory, which read it  *)
(* first; neither knows who names it.                                      *)
ChangeOutside(x, active, enabled) ==
    /\ outside[x].active /\ Room
    /\ x \in Memos => outside[x].dated /\ enabled
    /\ \E dated \in BOOLEAN :
          outside' = [outside EXCEPT ![x] = [@ EXCEPT !.active = active, !.enabled = enabled,
                                                      !.dated = dated]]
    /\ commits' = commits + 1
    /\ UNCHANGED <<project, decision, item, experience, pending>>

(* WorkItemService: transition, update_definition and archive, which read  *)
(* the item and check what they write (the race between the two, and the   *)
(* transitions, are in module WorkItems).                                  *)
ChangeItem(i, status, decisions, linked, active) ==
    LET row == [item[i] EXCEPT !.status = status, !.decisions = decisions, !.linked = linked,
                               !.active = active, !.rev = @ + 1]
    IN  /\ Room
        /\ item[i].active /\ ItemReadable(i)
        /\ Ended(item[i].status) => status = item[i].status
        /\ ItemLinksOk(i, row)
        /\ \E dated \in BOOLEAN : item' = [item EXCEPT ![i] = [row EXCEPT !.dated = dated]]
        /\ commits' = commits + 1
        /\ UNCHANGED <<project, decision, experience, outside, pending>>
-----------------------------------------------------------------------------
AssertionActor(a) ==
    CASE a \in {"user_recorded", "user_confirmed"} -> "user"
      [] a = "deterministic_system" -> "system"
      [] a = "imported_external"    -> "importer"
      [] a = "model_proposed"       -> "model"

(* _validate_supersedes *)
SupersedesOk(e, w) == e # None => experience[e] # None /\ experience[e].project = w

(* _validate_project, _validate_work_item, _validate_generic_links: an     *)
(* experience is never secret and names nothing that is.  The project need *)
(* not be readable with its links, the item must be with all of its own.   *)
ExperienceLinksOk(e) ==
    /\ ProjectParses(e.project) /\ ~project[e.project].secret
    /\ e.item # None => ItemReadable(e.item) /\ ~item[e.item].secret /\ e.project = Home
    /\ \A d \in e.related : decision[d] # None /\ ~decision[d].secret
    /\ SupersedesOk(e.supersedes, e.project)

(* _project_experience_from_record with the repository: get, list and      *)
(* export_json check all of it again.                                      *)
ExperienceReadable(x) == ExperienceLinksOk(experience[x])

(* record: appended, never changed. *)
RecordExperience(x, e) ==
    /\ Room
    /\ e.actor = AssertionActor(e.assertion)
    /\ ExperienceLinksOk(e)
    /\ experience' = [experience EXCEPT ![x] = e]
    /\ commits' = commits + 1
    /\ UNCHANGED <<project, decision, item, outside, pending>>

(* correct: a record in the project, and about the item, of what it        *)
(* corrects, which is read first.                                          *)
CorrectExperience(x, e) ==
    LET prior == e.supersedes
    IN  /\ prior # None /\ experience[prior] # None /\ ExperienceReadable(prior)
        /\ e.project = experience[prior].project /\ e.item = experience[prior].item
        /\ RecordExperience(x, e)
-----------------------------------------------------------------------------
NewProject(secret) ==
    [decisions |-> {}, linked |-> {}, active |-> TRUE, secret |-> secret, dated |-> TRUE, rev |-> 1]
NewItem(status, secret) ==
    [status |-> status, decisions |-> {}, linked |-> {}, active |-> TRUE, secret |-> secret,
     dated |-> TRUE, rev |-> 1]
NewOutside(secret) == [active |-> TRUE, enabled |-> TRUE, secret |-> secret, dated |-> TRUE]

ProjectsInit ==
    /\ project \in [Projs -> {NewProject(secret) : secret \in BOOLEAN}]
    /\ decision = [d \in Decisions |-> None]
    /\ item \in [Items -> {NewItem(s, secret) : s \in {"ready", "completed"}, secret \in BOOLEAN}]
    /\ experience = [x \in Experiences |-> None]
    /\ outside \in [Outside -> {NewOutside(secret) : secret \in BOOLEAN}]
    /\ pending = [c \in Clients |-> None]
    /\ commits = 0

Experience(w, i, related, a, actor, failed, prior) ==
    [project |-> w, item |-> i, related |-> related, assertion |-> a, actor |-> actor,
     failed |-> failed, supersedes |-> prior]

ExperienceNext(assertions, items, related, failures) ==
    \E x \in Unused(experience), a \in assertions, actor \in Actors, failed \in failures,
          i \in Optional(items), ds \in SUBSET (related \intersect Existing(decision)),
          w \in Projs, p \in Optional(Existing(experience)) :
       LET e == Experience(w, i, ds, a, actor, failed, p)
       IN  RecordExperience(x, e) \/ CorrectExperience(x, e)

RecordsNext(projs, outer, secrecy) ==
    \/ \E c \in Clients :
          \/ \E w \in projs :
                \/ \E ds \in SUBSET Existing(decision), xs \in SUBSET outer :
                      UpdateProject(c, w, ds, xs)
                \/ ArchiveProject(c, w)
          \/ \E d \in Existing(decision) :
                \/ \E s \in Statuses, p \in Optional(Existing(decision)), w \in Optional(projs),
                      xs \in SUBSET (outer \intersect Memos) : UpdateDecision(c, d, s, p, w, xs)
                \/ ArchiveDecision(c, d)
          \/ CommitRecord(c)
          \/ Abandon(c)
    \/ \E d \in Unused(decision), s \in Statuses, p \in Optional(Existing(decision)),
          w \in Optional(projs), xs \in SUBSET (outer \intersect Memos), secret \in secrecy :
             CreateDecision(d, s, p, w, xs, secret)
    \/ \E x \in outer, a \in BOOLEAN, on \in BOOLEAN : ChangeOutside(x, a, on)

ItemsNext(statuses, sources) ==
    \E i \in Items, s \in statuses, ds \in SUBSET Existing(decision), xs \in SUBSET sources, a \in BOOLEAN :
       ChangeItem(i, s, ds, xs, a)

ProjectsNext ==
    \/ RecordsNext(Projs, Outside, BOOLEAN)
    \/ ItemsNext(ItemStatuses, Policies)
    \/ ExperienceNext(Assertions, Items, Decisions, BOOLEAN)
ProjectsSpec == ProjectsInit /\ [][ProjectsNext]_projectVars
-----------------------------------------------------------------------------
(* The records of a state package. *)
LinkTo(table, set, type) == {<<<<table, y>>, type>> : y \in set \ {None}}
LinkToOutside(set) == LinkTo("outside", set \intersect Policies, "policy")
                         \union LinkTo("outside", set \intersect Memos, "memory")

ExperienceRecord(x) ==
    LET e == experience[x]
    IN  Record(<<"experience", x>>, "project_experience", Plain,
               LinkTo("project", {e.project}, "project") \union LinkTo("item", {e.item}, "work_item")
                  \union LinkTo("decision", e.related, "any")
                  \union LinkTo("experience", {e.supersedes}, "project_experience"),
               [project |-> <<"project", e.project>>])

ItemRecord(i) ==
    LET Ids(set) == {<<"item", j>> : j \in set}
        blockers == Blockers(i, item[i])
    IN  Record(<<"item", i>>, "work_item", item[i],
               LinkTo("project", {Home}, "project") \union LinkTo("item", DependsOn[i] \union blockers, "work_item")
                  \union LinkTo("decision", item[i].decisions, "decision")
                  \union LinkTo("outside", item[i].linked, "live"),
               [project |-> <<"project", Home>>, status |-> item[i].status, milestone |-> i \in Milestones,
                dependsOn |-> Ids(DependsOn[i]), blockedBy |-> Ids(blockers)])

ProjectRecord(w) ==
    Record(<<"project", w>>, "project", project[w],
           LinkTo("decision", project[w].decisions, "decision") \union LinkToOutside(project[w].linked), {})

DecisionRecord(d) ==
    Record(<<"decision", d>>, "decision", decision[d],
           LinkTo("project", {decision[d].project}, "project")
              \union LinkTo("decision", {decision[d].supersedes}, "decision")
              \union LinkToOutside(decision[d].linked), {})

OutsideRecord(x) ==
    Record(<<"outside", x>>, IF x \in Policies THEN "policy" ELSE "memory",
           [Plain EXCEPT !.active = outside[x].active, !.secret = outside[x].secret,
                         !.dated = outside[x].dated], {}, {})

ProjectPackage ==
    {ProjectRecord(w) : w \in Projs} \union {DecisionRecord(d) : d \in Existing(decision)}
       \union {ItemRecord(i) : i \in Items} \union {ExperienceRecord(x) : x \in Existing(experience)}
       \union {OutsideRecord(x) : x \in Outside}

ProjectsTypeOK ==
    /\ \A w \in Projs : project[w] \in ProjectRow
    /\ \A d \in Existing(decision) : decision[d] \in DecisionRow
    /\ \A i \in Items : item[i] \in ItemRow
    /\ commits \in 0 .. MaxCommits

(* What is not readable is so for a reason on this list, and never because *)
(* checks outside transactions let a link to nothing, to itself, to a      *)
(* secret record or to another project through: a change of it, or of what *)
(* it names, with a clock behind its creation; for a project, a policy     *)
(* that was archived since; for an item, a project, item, decision or      *)
(* policy that was, or a blocker that ended; for an experience, the item   *)
(* it is about.  Decisions that supersede each other in a circle are       *)
(* readable, and the corrections of an experience stay in its project and  *)
(* lead to earlier ones.                                                   *)
RecordsReadable ==
    /\ ProjectsTypeOK
    /\ \A w \in Projs : ~ProjectReadable(w) =>
          \/ ~project[w].dated
          \/ \E d \in project[w].decisions : ~decision[d].dated
          \/ \E x \in project[w].linked : ~Usable(x)
    /\ \A d \in Existing(decision) :
          LET row == decision[d]
          IN  ~DecisionReadable(d) =>
                 \/ ~row.dated \/ \E x \in row.linked : ~Usable(x)
                 \/ row.project # None /\ ~project[row.project].dated
                 \/ row.supersedes # None /\ ~decision[row.supersedes].dated
    /\ \A i \in Items : ~ItemReadable(i) =>
          \/ ~ProjectLive(Home)
          \/ \E j \in DependsOn[i] \union BlockedBy[i] : ~item[j].active \/ Ended(item[j].status)
          \/ \E d \in item[i].decisions : ~DecisionLive(d)
          \/ \E x \in item[i].linked : ~outside[x].active
    /\ \A x \in Existing(experience) :
          LET e == experience[x]
          IN  /\ ~ExperienceReadable(x) =>
                    ~project[e.project].dated \/ (e.item # None /\ ~ItemReadable(e.item))
              /\ e.supersedes # None => e.supersedes < x /\ experience[e.supersedes].project = e.project

Untouched(table, id) ==
    \A c \in Clients : pending[c] # None /\ pending[c].table = table => pending[c].id # id

(* A project or a decision that cannot be read, and that nobody was        *)
(* changing when it came to that, stays as it is: update, update_v2 and    *)
(* archive read it first (_project_from_record, _decision_from_record with *)
(* the repository), so neither the link nor the record can be removed.     *)
RecordsStranded ==
    /\ \A w \in Projs : ~ProjectReadable(w) /\ Untouched("project", w) =>
          project'[w] = project[w] /\ ~ProjectReadable(w)' /\ Untouched("project", w)'
    /\ \A d \in Existing(decision) : ~DecisionReadable(d) /\ Untouched("decision", d) =>
          decision'[d] = decision[d] /\ ~DecisionReadable(d)' /\ Untouched("decision", d)'

(* Projects, decisions, items and experience, changed by clients that      *)
(* check outside their transactions: a record becomes unreadable for one   *)
(* of few reasons, and a project or a decision then for ever.              *)
ProjectsSound == []RecordsReadable /\ [][RecordsStranded]_projectVars
=============================================================================
