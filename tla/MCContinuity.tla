--------------------------- MODULE MCContinuity ---------------------------
(***************************************************************************)
(* Model-checking instance of Projects, Checkpoints, ResumeBundles,        *)
(* GenericExport, ShutdownEscape and ContinuityPreflight.  A behaviour     *)
(* works on one part: the records of a project, secret and backdated       *)
(* records, its experience, its checkpoints, the contents of a bundle,     *)
(* those of an escape, the publication of exports, that of generic         *)
(* exports, or the check before an action.  Each part has the writers that *)
(* can disturb it.                                                         *)
(***************************************************************************)
EXTENDS ShutdownEscape, ContinuityPreflight, TLC

CONSTANTS
    w1, w2, i1, i2, x1, m1, e1,
    FewerCommits,   \* bound: transactions in the parts hidden, bundles, escape and preflight
    SomeCommits     \* bound: transactions in the part experience

VARIABLE part

Parts == {"records", "hidden", "experience", "checkpoints", "bundles", "exports", "escape",
          "publish", "preflight"}

MCLayouts ==
    {[roles |-> [i \in {i1} |-> "next"], extra |-> {}],
     [roles |-> [i \in {i2} |-> "milestone"], extra |-> {1}]}

(* A conversation with or without a line separator in its title, and two   *)
(* events, one after the other.                                            *)
Saying(id, parents, text) == [id |-> id, conversation |-> 1, parents |-> parents, text |-> text]
MCSayings == {Saying(1, {}, "plain"), Saying(1, {}, "separated"), Saying(2, {}, "plain"),
              Saying(3, {2}, "plain"), Saying(3, {2}, "separated")}

(* Checks of an action on the item i1, which depends on i2; a blocked i2   *)
(* waits for i1.                                                           *)
Ask(i, xs, procedure, capability) ==
    [item |-> i, policies |-> xs, procedure |-> procedure, capability |-> capability,
     scope |-> capability = "write"]
MCAsked == {Ask(i1, {}, TRUE, "write"), Ask(None, {}, FALSE, "delete"),
            Ask(None, {x1}, FALSE, "fetch"), Ask(None, {}, FALSE, "other")}
MCRegistry == [n \in {"write", "delete", "fetch"} |->
                 [risky |-> n = "delete", released |-> n # "fetch", scoped |-> n = "write"]]
MCDependsOn == [i \in {i1, i2} |-> IF i = i1 THEN {i2} ELSE {}]
MCBlockedBy == [i \in {i1, i2} |-> IF i = i2 THEN {i1} ELSE {}]
FewStatuses == {"ready", "completed"}

Accepted(w, memos, secret) ==
    [status |-> "accepted", supersedes |-> None, project |-> w, linked |-> memos,
     active |-> TRUE, secret |-> secret, dated |-> TRUE, rev |-> 1]

(* A policy governs the projects, and there is a decision. *)
Prepared(secrecy) ==
    /\ project \in [Projs -> {[NewProject(z) EXCEPT !.linked = {x1}] : z \in secrecy}]
    /\ decision \in {[d \in Decisions |-> IF d = 1 THEN Accepted(w1, {m1}, z) ELSE None] : z \in secrecy}
    /\ item \in [Items -> {NewItem("ready", z) : z \in secrecy}
                             \union (IF part = "preflight" THEN {NewItem("completed", FALSE)} ELSE {})]
    /\ outside \in [Outside -> {NewOutside(z) : z \in secrecy}]
    /\ experience = [x \in Experiences |-> None]
    /\ pending = [c \in Clients |-> None]
    /\ commits = 0

SecretRows(table) == {x \in Existing(table) : table[x].secret}
BackdatedRows(table) == {x \in Existing(table) : ~table[x].dated}
SecretCount == Cardinality(SecretRows(project)) + Cardinality(SecretRows(decision))
                  + Cardinality(SecretRows(item)) + Cardinality(SecretRows(outside))
BackdatedCount == Cardinality(BackdatedRows(project)) + Cardinality(BackdatedRows(decision))
                     + Cardinality(BackdatedRows(item)) + Cardinality(BackdatedRows(outside))
                     + Cardinality(BackdatedRows(cp))

MCInit ==
    /\ part \in Parts
    /\ IF part = "records" THEN ProjectsInit ELSE Prepared(IF part = "hidden" THEN BOOLEAN ELSE {FALSE})
    /\ part = "records" => \A i \in Items : item[i].status = "ready"
    /\ SecretCount <= IF part = "hidden" THEN 1 ELSE 0
    /\ permit \in {"scoped"} \union (IF part = "preflight" THEN {"denied"} ELSE {})
    /\ part = "preflight" => item[i1].status = "ready" /\ (permit = "denied" => item[i2].status = "completed")
    /\ CpInit /\ BundleInit /\ PublishInit /\ PreflightInit
    /\ ~steps.secret
    /\ talk \in {{}} \union (IF part = "escape" THEN {{Saying(1, {}, "plain")}} ELSE {})

Revise(statuses) == \E i \in Items, s \in statuses, a \in BOOLEAN : ChangeItem(i, s, {}, {}, a)
ArchivePolicy(x) == outside[x].active /\ ChangeOutside(x, FALSE, TRUE)
Committed == \E c \in Clients : CommitRecord(c)
Alone == \A c \in Clients : pending[c] = None

(* Secret and backdated records, of every kind and named by every kind. *)
HiddenNext ==
    \/ /\ \/ \E d \in Unused(decision), p \in Optional(Existing(decision)), secret \in BOOLEAN :
                CreateDecision(d, "accepted", p, w1, {m1}, secret)
          \/ \E c \in Clients : Alone /\ \/ ArchiveProject(c, w1) \/ ArchiveDecision(c, 1)
                                         \/ \E ds \in SUBSET Existing(decision), xs \in SUBSET Outside :
                                               UpdateProject(c, w1, ds, xs)
          \/ Committed
          \/ \E x \in Outside, a \in BOOLEAN : ChangeOutside(x, a, TRUE)
          \/ \E ds \in SUBSET Existing(decision), xs \in SUBSET {x1} : ChangeItem(i1, "ready", ds, xs, TRUE)
          \/ \E s \in ItemStatuses : ChangeItem(i2, s, {}, {}, s # "completed")
          \/ \E x \in Unused(experience), i \in Optional(Items), ds \in SUBSET Existing(decision), w \in Projs :
                RecordExperience(x, Experience(w, i, ds, "user_recorded", "user", FALSE, None))
       /\ UNCHANGED cpVars
    \/ \E k \in Unused(cp), l \in Layouts : Propose(k, w1, l, FALSE)
    \/ \E c \in Clients : CommitCp(c) \/ (Alone /\ \E k \in Existing(cp) : ArchiveCp(c, k))

(* The writers beside an escape. *)
Writers ==
    \/ \E r \in Sayings : SaySomething(r)
    \/ /\ ArchivePolicy(x1) \/ Committed \/ \E c \in Clients : UpdateProject(c, w1, {}, {}) \/ ArchiveProject(c, w2)
       /\ UNCHANGED <<cpVars, bundleVars, escapeVars>>

(* The writers beside a check. *)
Disturb ==
    \/ \E m \in Modes : SetPermission(m)
    \/ \E s \in {"draft", "approved"} : ChangeProcedure(s, TRUE)
    \/ ChangeProcedure("approved", FALSE) \/ LoseProcedureLink
    \/ /\ \/ ArchivePolicy(x1) \/ ChangeOutside(x1, TRUE, FALSE)
          \/ ExperienceNext({"user_recorded"}, {i1}, {}, BOOLEAN)
          \/ Revise(ItemStatuses)
          \/ Committed \/ \E c \in Clients : Alone /\ (ArchiveProject(c, w1) \/ UpdateProject(c, w1, {}, {}))
       /\ UNCHANGED <<cpVars, preflightVars>>

AllDated == BackdatedCount = 0

MCNext ==
    \/ /\ part # "preflight"
       /\ UNCHANGED <<part, preflightVars>>
       /\ \/ /\ part = "records" /\ RecordsNext({w1}, {x1}, {FALSE})
             /\ UNCHANGED <<cpVars, bundleVars, escapeVars>>
             /\ BackdatedCount' <= 1
          \/ /\ part = "hidden" /\ HiddenNext
             /\ SecretCount' + BackdatedCount' <= 1 /\ commits' <= FewerCommits
             /\ UNCHANGED <<bundleVars, escapeVars>>
          \/ /\ part = "experience"
             /\ \/ ExperienceNext({"user_recorded", "model_proposed"}, {i1}, {1}, {FALSE})
                \/ Revise(FewStatuses) \/ ArchivePolicy(x1) \/ Committed
                \/ \E c \in Clients : ArchiveProject(c, w1)
             /\ commits' <= SomeCommits
             /\ UNCHANGED <<cpVars, bundleVars, escapeVars>>
          \/ /\ part = "checkpoints"
             /\ \/ CpNext({w1}, {FALSE})
                \/ /\ \/ ArchivePolicy(x1) \/ Committed \/ Revise(FewStatuses)
                      \/ \E c \in Clients : ArchiveDecision(c, 1)
                   /\ UNCHANGED cpVars
             /\ AllDated'
             /\ UNCHANGED <<bundleVars, escapeVars>>
          \/ /\ part = "bundles"
             /\ \/ /\ \/ ArchivePolicy(x1) \/ Revise(FewStatuses) \/ Committed
                      \/ \E c \in Clients : UpdateProject(c, w1, {}, {}) \/ ArchiveProject(c, w1)
                   /\ UNCHANGED <<cpVars, bundleVars>>
                \/ BundleNext /\ \A e \in Exporters \ {e1} : exporting'[e] = None
             /\ commits' <= FewerCommits /\ AllDated'
             /\ UNCHANGED escapeVars
          \/ /\ part = "exports"
             /\ BundleNext /\ UNCHANGED escapeVars
          \/ /\ part = "escape"
             /\ Writers \/ EscapeNext
             /\ commits' <= FewerCommits /\ AllDated'
             /\ \A e \in Exporters \ {e1} : exporting'[e] = None
          \/ part = "exports" /\ EscapeNext
          \/ part = "publish" /\ PublishNext /\ UNCHANGED <<projectVars, cpVars, bundleVars, talk>>
    \/ /\ part = "preflight"
       /\ Disturb \/ PreflightNext
       /\ commits' <= FewerCommits
       /\ checking' # None => commits' <= checking'.began + 1
       /\ BackdatedCount' = Cardinality(BackdatedRows(project)')
       /\ \A x \in Existing(experience)' : experience'[x].project = Home
       /\ checking' # None /\ checking'.project # Home => checking'.request.item # None
       /\ UNCHANGED <<part, bundleVars, escapeVars>>

MCSpec == MCInit /\ [][MCNext]_<<projectVars, cpVars, bundleVars, escapeVars, preflightVars, part>>
Symmetry == Permutations(Clients)
=============================================================================
