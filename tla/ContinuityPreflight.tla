------------------------ MODULE ContinuityPreflight ------------------------
(***************************************************************************)
(* ContinuityPreflightService.check: before an action, a read-only client  *)
(* asks whether anything stands in its way: the project, the work item and *)
(* what it depends on, policies and procedures the caller names, a         *)
(* capability and the permission for it, and failures met before.  Every   *)
(* record is a read of its own, with its links, and others write in        *)
(* between.                                                                *)
(***************************************************************************)
EXTENDS Checkpoints

CONSTANTS
    CapabilityNames,  \* what callers ask for
    Registry,         \* the capabilities there are: [risky, released, scoped]
    Asked             \* requests; scope: one of the kind of a scoped capability

ASSUME PreflightAssumption ==
    /\ DOMAIN Registry \subseteq CapabilityNames /\ None \notin CapabilityNames
    /\ \A n \in DOMAIN Registry : Registry[n] \in [risky : BOOLEAN, released : BOOLEAN, scoped : BOOLEAN]
    /\ Asked \subseteq [item : Optional(Items), policies : SUBSET Policies, procedure : BOOLEAN,
                        capability : Optional(CapabilityNames), scope : BOOLEAN]

VARIABLES
    permit,      \* the mode PermissionService.resolve finds
    steps,       \* the required procedure, of the project Home:
                 \*   [status, active, secret, linked: what it names can be read]
    checking     \* the check under way, or None

preflightVars == <<permit, steps, checking>>

Modes == {"ask", "denied", "allow_once", "scoped"}
Granted == {"allow_once", "scoped"}

(* PermissionService and ProcedureService change what a check depends on   *)
(* (modules Authorization and Procedures).                                 *)
SetPermission(mode) ==
    /\ Room
    /\ mode # permit
    /\ permit' = mode
    /\ commits' = commits + 1
    /\ UNCHANGED <<project, decision, item, experience, outside, pending, cpVars, steps, checking>>

(* _procedure_from_record with the repository *)
ProcedureReadable == steps.linked /\ ProjectLive(Home)

ChangeSteps(row) ==
    /\ Room
    /\ steps' = row
    /\ commits' = commits + 1
    /\ UNCHANGED <<project, decision, item, experience, outside, pending, cpVars, permit, checking>>

ChangeProcedure(status, active) ==
    /\ steps.active /\ ProcedureReadable
    /\ ChangeSteps([steps EXCEPT !.status = status, !.active = active])

(* A source or an evidence of it is archived. *)
LoseProcedureLink == steps.linked /\ ChangeSteps([steps EXCEPT !.linked = FALSE])
-----------------------------------------------------------------------------
(* A failure that nobody has superseded, in the scope of a request. *)
OpenFailures(w, i) ==
    {x \in Existing(experience) :
       /\ experience[x].project = w /\ experience[x].failed
       /\ experience[x].item \in {None, i}
       /\ \A y \in Existing(experience) : experience[y].project = w => experience[y].supersedes # x}

ScopeFits(q) ==
    q.scope <=> q.capability \in DOMAIN Registry /\ Registry[q.capability].scoped

(* What stands in the way now: the reference for the answers. *)
NothingInTheWay(w, q) ==
    /\ ProjectLive(w)
    /\ q.item # None =>
          /\ w = Home /\ ItemReadable(q.item) /\ item[q.item].active /\ item[q.item].status # "blocked"
          /\ \A i \in DependsOn[q.item] : ItemReadable(i) /\ item[i].active /\ item[i].status = "completed"
    /\ q.policies = {}
    /\ q.procedure =>
          w = Home /\ ProcedureReadable /\ ~steps.secret /\ steps.active /\ steps.status = "approved"
    /\ ScopeFits(q)
    /\ q.capability # None =>
          /\ q.capability \in DOMAIN Registry
          /\ Registry[q.capability].released /\ ~Registry[q.capability].risky
          /\ Registry[q.capability].scoped => permit \in Granted
    /\ \A x \in Existing(experience) : ExperienceReadable(x)
    /\ OpenFailures(w, q.item) = {}

Finding(x, warning, blocker, confirm) ==
    [x EXCEPT !.warned = @ \/ warning, !.blocked = @ \/ blocker, !.confirm = @ \/ confirm]
Silent(x) == Finding(x, FALSE, FALSE, FALSE)
Blocked(x) == Finding(x, TRUE, TRUE, FALSE)

(* check raises, or answers. *)
Answered(x, status) ==
    /\ checking' = [x EXCEPT !.phase = status, !.after = NothingInTheWay(x.project, x.request)]
    /\ UNCHANGED <<projectVars, cpVars, permit, steps>>
Raised(x) == Answered(x, "refused")
Onward(x, phase) ==
    /\ checking' = [x EXCEPT !.phase = phase]
    /\ UNCHANGED <<projectVars, cpVars, permit, steps>>

(* The arguments, and ProjectService.get. *)
CheckProject(w, q) ==
    LET x == [project |-> w, request |-> q, phase |-> "item", warned |-> FALSE, blocked |-> FALSE,
              confirm |-> FALSE, began |-> commits, before |-> NothingInTheWay(w, q), after |-> FALSE]
    IN  /\ checking = None
        /\ IF ProjectLive(w) THEN Onward(x, "item") ELSE Raised(x)

At(phase) == checking # None /\ checking.phase = phase

(* WorkItemService.get, with every link of the item; then whose it is. *)
CheckItem ==
    LET x == checking
        i == x.request.item
    IN  /\ At("item")
        /\ IF i = None THEN Onward(x, "policies")
           ELSE IF ~ItemReadable(i) \/ x.project # Home \/ ~item[i].active THEN Raised(x)
           ELSE Onward(IF item[i].status = "blocked" THEN Blocked(x) ELSE Silent(x), "dependencies")

(* Mutant: an archived dependency does not count. *)
DependencyCompleted(i) == item[i].active => item[i].status = "completed"

DependencyDone(i) == item[i].active /\ item[i].status = "completed"

CheckDependencies ==
    LET x == checking
        needed == DependsOn[x.request.item]
    IN  /\ At("dependencies")
        /\ IF \E i \in needed : ~ItemReadable(i) \/ x.project # Home THEN Raised(x)
           ELSE Onward(IF \A i \in needed : DependencyDone(i) THEN Silent(x) ELSE Blocked(x), "policies")

(* A policy the caller names must be in force and no secret, and then it   *)
(* denies.                                                                 *)
CheckPolicies ==
    LET x == checking
    IN  /\ At("policies")
        /\ IF \E y \in x.request.policies :
                 ~outside[y].active \/ ~outside[y].enabled \/ outside[y].secret
           THEN Raised(x)
           ELSE Onward(IF x.request.policies # {} THEN Blocked(x) ELSE Silent(x), "procedures")

CheckProcedures ==
    LET x == checking
    IN  /\ At("procedures")
        /\ IF ~x.request.procedure THEN Onward(x, "capability")
           ELSE IF ~ProcedureReadable \/ x.project # Home \/ ~steps.active \/ steps.secret THEN Raised(x)
           ELSE Onward(IF steps.status # "approved" THEN Blocked(x) ELSE Silent(x), "capability")

(* A capability that is not registered, or a scope it does not take, is    *)
(* refused.  High risk asks for a confirmation, and so does a permission   *)
(* that asks; what is denied or not released is blocked.                   *)
CheckCapability ==
    LET x == checking
        n == x.request.capability
        def == Registry[n]
    IN  /\ At("capability")
        /\ IF n = None
           THEN IF x.request.scope THEN Raised(x) ELSE Onward(x, "experience")
           ELSE IF n \notin DOMAIN Registry THEN Raised(x)
           ELSE IF x.request.scope # def.scoped THEN Raised(x)
           ELSE LET asks == def.risky \/ (def.scoped /\ permit = "ask")
                    denied == ~def.released \/ (def.scoped /\ permit \notin Granted \union {"ask"})
                IN  Onward(Finding(x, asks \/ denied, denied, asks), "experience")

(* _add_failed_experience_warnings.  The list of a project's experience    *)
(* reads that of every project, and fails when one cannot be read.         *)
(* Superseded failures are left out, whoever superseded them.  Then the    *)
(* status.                                                                 *)
CheckExperience ==
    LET x == Finding(checking, OpenFailures(checking.project, checking.request.item) # {}, FALSE, FALSE)
    IN  /\ At("experience")
        /\ IF \E e \in Existing(experience) : ~ExperienceReadable(e) THEN Raised(checking)
           ELSE Answered(x, IF x.blocked THEN "blocked" ELSE IF x.confirm THEN "confirmation_required"
                            ELSE IF x.warned THEN "warning" ELSE "clear")

Answers == {"refused", "blocked", "confirmation_required", "warning", "clear"}

(* The client has its answer. *)
CheckEnds ==
    /\ checking # None /\ checking.phase \in Answers
    /\ checking' = None
    /\ UNCHANGED <<projectVars, cpVars, permit, steps>>

PreflightInit ==
    /\ permit \in Modes
    /\ steps \in [status : {"approved"}, active : {TRUE}, secret : BOOLEAN, linked : {TRUE}]
    /\ checking = None

PreflightNext ==
    \/ \E w \in Projs, q \in Asked : CheckProject(w, q)
    \/ CheckItem \/ CheckDependencies \/ CheckPolicies \/ CheckProcedures \/ CheckCapability
    \/ CheckExperience \/ CheckEnds

(* A check beside every writer. *)
WritersNext ==
    \/ CheckpointsNext /\ UNCHANGED preflightVars
    \/ \E m \in Modes : SetPermission(m)
    \/ \E s \in {"draft", "approved"}, a \in BOOLEAN : ChangeProcedure(s, a)
    \/ LoseProcedureLink

PreflightSpec ==
    /\ CheckpointsInit /\ PreflightInit
    /\ [][WritersNext \/ PreflightNext]_<<projectVars, cpVars, preflightVars>>
-----------------------------------------------------------------------------
(* What a "clear" is worth.  Unless two transactions overlapped the check, *)
(* nothing stood in the way at its start or at its end, and any other      *)
(* answer means that something did at one of the two; with two             *)
(* transactions a check can be clear although it never was                 *)
(* (ContinuityPreflightService.check reads record by record).              *)
PreflightClear ==
    checking # None /\ checking.phase \in Answers /\ commits <= checking.began + 1 =>
       IF checking.phase = "clear" THEN checking.before \/ checking.after
       ELSE ~checking.before \/ ~checking.after
=============================================================================
