----------------------------- MODULE Procedures -----------------------------
(***************************************************************************)
(* ProcedureService: drafts, their approval, verification, deprecation,    *)
(* supersession and archiving.  A procedure belongs to a project, names    *)
(* source and evidence records (TruthRecords), and may replace an earlier  *)
(* procedure; whoever reads it checks all of these links again, so a       *)
(* change of another record can make it unreadable.                        *)
(***************************************************************************)
EXTENDS TruthRecords

CONSTANTS
    Procs,       \* procedure identifiers, taken in order
    Projects,    \* project identifiers
    Versions,    \* version numbers clients use
    Forms        \* what clients create: status, version, complete, provenance, secret

(* _TRUSTED_PROVENANCE, and what _draft_provenance gives the others. *)
Trusted == {"user-created", "user-confirmed"}
Provenances == Trusted \union {"model-proposed", "imported", "system-generated"}

Accepted == {"approved", "deprecated", "superseded"}
Statuses == {"draft"} \union Accepted

(* A stored procedure. *)
ProcRow == [status : Statuses, project : Projects, version : Versions, complete : BOOLEAN,
            sources : SUBSET Truths, supersedes : Procs \union {None},
            supersededBy : Procs \union {None}, evidence : SUBSET Truths, verified : BOOLEAN,
            provenance : Provenances, secret : BOOLEAN, dated : BOOLEAN, active : BOOLEAN,
            rev : Nat \ {0}]

(* What the other services leave of a project: whether it is active,       *)
(* whether the records it is linked to are as they should be, and whether  *)
(* it was last changed after it was created.                               *)
ProjectRow == [active : BOOLEAN, linked : BOOLEAN, dated : BOOLEAN, secret : BOOLEAN]

ASSUME ProcedureAssumption ==
    /\ Procs \subseteq Nat
    /\ Versions \subseteq Nat \ {0}
    /\ Forms \subseteq [status : {"draft", "approved"}, version : Versions, complete : BOOLEAN,
                        provenance : Provenances, secret : BOOLEAN]
    /\ None \notin Procs \union ProcRow

VARIABLES
    proc,        \* [Procs -> row or None]
    project      \* [Projects -> row]

procVars == <<proc, project>>
-----------------------------------------------------------------------------
(* _validate_persisted_semantics, and what _validated_values says of the   *)
(* row itself.                                                             *)
SemanticsOk(p, row) ==
    /\ p \notin {row.supersedes, row.supersededBy}
    /\ row.status \in Accepted => row.complete /\ row.provenance \in Trusted
    /\ (row.status = "superseded") <=> (row.supersededBy # None)
    /\ row.evidence # {} => row.verified

(* _validate_project_link, with _project_from_record *)
ProjectUsable(prj) == project[prj].active /\ project[prj].linked /\ project[prj].dated

(* _validate_source_links, _validate_evidence_links *)
RecordsOk(row) ==
    /\ \A s \in row.sources : truth[s] # None /\ truth[s].active /\ ~truth[s].secret
    /\ \A e \in row.evidence : TruthIs(e, "evidence") /\ truth[e].active

(* _validate_procedure_links: the linked rows are parsed without their own *)
(* links.                                                                  *)
PredecessorOk(p, row) ==
    row.supersedes # None =>
       LET q == row.supersedes
       IN  /\ proc[q] # None /\ SemanticsOk(q, proc[q])
           /\ proc[q].project = row.project
           /\ proc[q].version < row.version
           /\ proc[q].status \in {"approved", "superseded"}
           /\ proc[q].status = "superseded" => proc[q].supersededBy = p

ReplacementOk(p, row) ==
    row.supersededBy # None =>
       LET q == row.supersededBy
       IN  /\ proc[q] # None /\ SemanticsOk(q, proc[q])
           /\ proc[q].project = row.project
           /\ proc[q].version > row.version
           /\ proc[q].supersedes = p

LinksOk(p, row) ==
    ProjectUsable(row.project) /\ RecordsOk(row) /\ PredecessorOk(p, row) /\ ReplacementOk(p, row)

(* _procedure_from_record, and so get, list and export_json, and the first *)
(* step of every change.  list reads every procedure of the workspace.     *)
Readable(p) == proc[p] # None /\ SemanticsOk(p, proc[p]) /\ LinksOk(p, proc[p])
-----------------------------------------------------------------------------
NewProc(prj, form, sources, supersedes) ==
    [status |-> form.status, project |-> prj, version |-> form.version,
     complete |-> form.complete, sources |-> sources, supersedes |-> supersedes,
     supersededBy |-> None, evidence |-> {}, verified |-> FALSE,
     provenance |-> form.provenance, secret |-> form.secret, dated |-> TRUE,
     active |-> TRUE, rev |-> 1]

PrepareProc(c, p, row, rev) ==
    /\ SemanticsOk(p, row) /\ LinksOk(p, row)
    /\ Prepare(c, "procedure", p, row, rev)
    /\ UNCHANGED <<truth, reviewed, commits, procVars>>

(* create_draft: by anyone; create_approved: by the user, and complete. *)
CreateProcedure(c, p, prj, form, sources, supersedes) ==
    /\ form.status = "approved" => form.complete /\ form.provenance = "user-created"
    /\ PrepareProc(c, p, NewProc(prj, form, sources, supersedes), 0)

(* Mutant: the procedure is read without its links. *)
ChangeUnread(c, p, from, row) ==
    /\ proc[p].active /\ proc[p].status \in from
    /\ Prepare(c, "procedure", p, [row EXCEPT !.provenance = "user-confirmed"], proc[p].rev)
    /\ UNCHANGED <<truth, reviewed, commits, procVars>>

(* The common start of every change: read the procedure with its links. *)
Change(c, p, from, row) ==
    /\ Readable(p) /\ proc[p].active
    /\ proc[p].status \in from
    /\ Prepare(c, "procedure", p, [row EXCEPT !.provenance = "user-confirmed"], proc[p].rev)
    /\ UNCHANGED <<truth, reviewed, commits, procVars>>

UpdateDraft(c, p, version, complete, sources, supersedes) ==
    LET row == [proc[p] EXCEPT !.version = version, !.complete = complete,
                               !.sources = sources, !.supersedes = supersedes]
    IN  /\ SemanticsOk(p, row) /\ LinksOk(p, row)
        /\ Change(c, p, {"draft"}, row)

Approve(c, p) ==
    /\ proc[p].complete
    /\ Change(c, p, {"draft"}, [proc[p] EXCEPT !.status = "approved"])

Verify(c, p, evidence) ==
    /\ \A e \in evidence : TruthIs(e, "evidence") /\ truth[e].active
    /\ Change(c, p, {"approved"}, [proc[p] EXCEPT !.verified = TRUE, !.evidence = evidence])

Deprecate(c, p) ==
    Change(c, p, {"approved"}, [proc[p] EXCEPT !.status = "deprecated"])

MayReplace(p, q) ==
    /\ Readable(q) /\ proc[q].active /\ proc[q].status = "approved"
    /\ proc[q].project = proc[p].project
    /\ proc[q].version > proc[p].version
    /\ proc[q].supersedes = p

Supersede(c, p, q) ==
    /\ MayReplace(p, q)
    /\ Change(c, p, {"approved"}, [proc[p] EXCEPT !.status = "superseded", !.supersededBy = q])

ArchiveProcedure(c, p) ==
    Change(c, p, Statuses, [proc[p] EXCEPT !.active = FALSE])

(* _create_procedure, and _update_procedure, whose time is the clock's. *)
CommitProcedure(c, dated) ==
    LET w == pending[c]
    IN  /\ w # None /\ w.table = "procedure"
        /\ CommitAllowed(proc[w.id], w)
        /\ w.rev = 0 => dated
        /\ proc' = [proc EXCEPT ![w.id] = [w.row EXCEPT !.rev = w.rev + 1, !.dated = dated]]
        /\ pending' = [pending EXCEPT ![c] = None]
        /\ commits' = commits + 1
        /\ UNCHANGED <<truth, reviewed, project>>

(* A project is archived or cannot be read any more, which nobody undoes. *)
LoseProject(prj, row) ==
    /\ ProjectUsable(prj)
    /\ row.secret = project[prj].secret /\ ~(row.active /\ row.linked /\ row.dated)
    /\ project' = [project EXCEPT ![prj] = row]
    /\ UNCHANGED <<truthVars, proc>>

ProcInit ==
    /\ proc = [p \in Procs |-> None]
    /\ project \in [Projects -> {row \in ProjectRow : row.active /\ row.linked /\ row.dated}]

OptProcs == Procs \union {None}
AtMostOne(kind) == {{}} \union {{t} : t \in {u \in Truths : truth[u] # None /\ truth[u].kind = kind}}

Reserved == {pending[c].id : c \in {d \in Clients : pending[d] # None /\ pending[d].rev = 0}}

ProcNext ==
    \/ \E c \in Clients :
          \/ \E p \in Unused(proc, Reserved), prj \in Projects, f \in Forms,
                sup \in OptProcs, src \in AtMostOne("claim") : CreateProcedure(c, p, prj, f, src, sup)
          \/ \E p \in {q \in Procs : proc[q] # None} :
                \/ \E v \in Versions, full \in BOOLEAN, sup \in OptProcs, src \in AtMostOne("claim") :
                      UpdateDraft(c, p, v, full, src, sup)
                \/ \E ev \in AtMostOne("evidence") : Verify(c, p, ev)
                \/ \E q \in Procs : Supersede(c, p, q)
                \/ Approve(c, p) \/ Deprecate(c, p) \/ ArchiveProcedure(c, p)
          \/ \E dated \in BOOLEAN :
                CommitProcedure(c, dated) \/ (CommitTruth(c, dated) /\ UNCHANGED procVars)
          \/ \E t \in Truths : ArchiveTruth(c, t) /\ UNCHANGED procVars
          \/ Abandon(c) /\ UNCHANGED procVars
    \/ \E prj \in Projects, row \in ProjectRow : LoseProject(prj, row)

(* Procedures, with the truth records they rest on. *)
ProceduresSpec ==
    /\ TruthInit /\ ProcInit
    /\ [][(TruthNext /\ UNCHANGED procVars) \/ ProcNext]_<<truthVars, procVars>>
-----------------------------------------------------------------------------
StoredProcs == {p \in Procs : proc[p] # None}

(* The records of a state package. *)
Named(p) == {<<"procedure", q>> : q \in {p} \ {None}}

ProcPackage ==
    {LET row == project[prj]
     IN  Record(<<"project", prj>>, "project",
                [active |-> row.active, secret |-> row.secret, dated |-> row.dated, rev |-> 1],
                {}, {}) :
       prj \in Projects}
    \union
    {LET row == proc[p]
     IN  Record(<<"procedure", p>>, "procedure", row,
                {<<<<"project", row.project>>, "project">>}
                   \union {<<<<"truth", s>>, "live">> : s \in row.sources}
                   \union {<<<<"truth", e>>, "evidence">> : e \in row.evidence}
                   \union {<<q, "procedure">> :
                              q \in Named(row.supersedes) \union Named(row.supersededBy)},
                [project |-> <<"project", row.project>>, version |-> row.version,
                 status |-> row.status, supersedes |-> Named(row.supersedes),
                 supersededBy |-> Named(row.supersededBy)]) :
       p \in StoredProcs}

ProcTypeOK ==
    proc \in [Procs -> ProcRow \union {None}] /\ project \in [Projects -> ProjectRow]

(* Supersession is a set of chains: a superseded procedure has a           *)
(* replacement of a higher version that names it and was approved, and no  *)
(* procedure replaces two, although supersede checks the replacement       *)
(* outside its transaction.  And a procedure is unreadable only for its    *)
(* project, for an archived source or evidence, or because its predecessor *)
(* was changed after it was written (deprecated, or given to another       *)
(* replacement): never for its own contents or its replacement.            *)
SupersessionSound ==
    /\ ProcTypeOK
    /\ \A p \in Procs : proc[p] # None =>
          /\ SemanticsOk(p, proc[p]) /\ ReplacementOk(p, proc[p])
          /\ proc[p].supersededBy # None => proc[proc[p].supersededBy].status \in Accepted
          /\ ~PredecessorOk(p, proc[p]) =>
                LET q == proc[proc[p].supersedes]
                IN  \/ q.status = "deprecated"
                    \/ q.status = "superseded" /\ q.supersededBy # p
          /\ \A q \in Procs \ {p} : proc[q] # None /\ proc[q].supersededBy # None =>
                proc[p].supersededBy # proc[q].supersededBy

(* A procedure or a truth record names one that stays behind. *)
NamesSecretRecord(p) ==
    LET row == proc[p]
    IN  \/ project[row.project].secret
        \/ \E e \in row.evidence : truth[e].secret
        \/ \E q \in {row.supersedes, row.supersededBy} \ {None} : proc[q].secret

NamesSecretTruth(t) == \E u \in TruthsNamed(t) : truth[u].secret

PublicTruths == {t \in StoredTruths : ~truth[t].secret}
PublicProcs == {p \in StoredProcs : ~proc[p].secret}

(* A record that goes out was last changed before it was created. *)
Undated ==
    \/ \E t \in PublicTruths : ~truth[t].dated
    \/ \E p \in PublicProcs : ~proc[p].dated
    \/ \E prj \in Projects : ~project[prj].secret /\ ~project[prj].dated

(* Truth records make the export of the workspace fail exactly when one    *)
(* that goes out names one that does not, which no service asks about, or  *)
(* has its dates the wrong way round.                                      *)
TruthsPackaged ==
    PackageValid(TruthPackage) <=> \A t \in PublicTruths : truth[t].dated /\ ~NamesSecretTruth(t)

(* What the exporter says of procedures, checked with rules of its own,    *)
(* against what the service reads.  The export fails only for dates, for a *)
(* record that goes out and names one that does not, or for a procedure    *)
(* that cannot be read and goes out; and such a procedure does make it     *)
(* fail, unless all that is wrong is archived evidence or what its project *)
(* is linked to (_validate_procedure_package_graph,                        *)
(* _validate_procedure_links, _validate_cross_record_links).               *)
ProceduresPackaged ==
    IF PackageValid(ProcPackage \union TruthPackage)
    THEN /\ ~Undated
         /\ \A t \in PublicTruths : ~NamesSecretTruth(t)
         /\ \A p \in PublicProcs :
               /\ ~NamesSecretRecord(p)
               /\ ~Readable(p) => \/ \E e \in proc[p].evidence : ~truth[e].active
                                 \/ ~project[proc[p].project].linked
    ELSE \/ Undated
         \/ \E t \in PublicTruths : NamesSecretTruth(t)
         \/ \E p \in PublicProcs : ~Readable(p) \/ NamesSecretRecord(p)

(* What was accepted stays as it was accepted: an approved procedure never *)
(* becomes a draft again and never changes its content, a deprecated or    *)
(* superseded one changes only by being archived, an archived one never,   *)
(* although every change was computed from a row read earlier.             *)
AcceptedFrozen ==
    \A p \in Procs : proc[p] # None /\ proc'[p] # proc[p] =>
        /\ proc[p].active
        /\ proc[p].status \in Accepted =>
              /\ proc'[p].status \in Accepted
              /\ proc'[p].complete = proc[p].complete /\ proc'[p].version = proc[p].version
              /\ proc'[p].sources = proc[p].sources
              /\ proc'[p].supersedes = proc[p].supersedes
              /\ proc[p].status # "approved" =>
                    proc'[p].status = proc[p].status /\ ~proc'[p].active

(* A procedure that cannot be read, and that nobody was changing when that *)
(* happened, stays as it is for ever: no service repairs, replaces or      *)
(* archives it, because every change starts by reading it                  *)
(* (_procedure_from_record with the repository).                           *)
ProcedureStranded ==
    \A p \in Procs :
        /\ proc[p] # None /\ ~Readable(p)
        /\ \A c \in Clients : pending[c] # None /\ pending[c].table = "procedure" => pending[c].id # p
        => proc'[p] = proc[p] /\ ~Readable(p)' /\ \A c \in Clients :
              pending'[c] # None /\ pending'[c].table = "procedure" => pending'[c].id # p

(* Procedures that users approve, replace, deprecate and archive while     *)
(* others edit: versions replace each other one to one, what was accepted  *)
(* is not changed, and what cannot be read never changes at all.           *)
ProceduresSound ==
    /\ []SupersessionSound
    /\ [][AcceptedFrozen /\ ProcedureStranded]_<<proc, project, truth, pending>>
=============================================================================
