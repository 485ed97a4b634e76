--------------------------- MODULE ResumeBundles ---------------------------
(***************************************************************************)
(* ProjectStatusService.build and ResumeBundleService.export, and how an   *)
(* export is published, for resume bundles and for state packages.         *)
(*                                                                         *)
(* A bundle is made of two walks over the records: the status decides what *)
(* is in it, then every selected record is read again for its content;     *)
(* last comes the state revision the manifest names.                       *)
(***************************************************************************)
EXTENDS Checkpoints

CONSTANTS
    Exporters,   \* processes that export
    Paths        \* output paths

VARIABLES
    exporting,   \* [Exporters -> the export a process is in, or None]
    file         \* [Paths -> the file published there, or None]

bundleVars == <<exporting, file>>

Everything == {<<"project", w>> : w \in Projs} \union {<<"item", i>> : i \in Items}
Sections == {"in_progress", "ready", "blocked"}
-----------------------------------------------------------------------------
(* Mutant: an existing output is not noticed. *)
OutputFreeAlways(p) == TRUE

(* The check both exports begin with; p is not looked at again. *)
OutputFree(p) == file[p] = None

(* export, up to the first query; the exporter's repository is read-only. *)
BeginBundle(e, w, p) ==
    /\ exporting[e] = None
    /\ OutputFree(p)
    /\ exporting' = [exporting EXCEPT ![e] =
          [kind |-> "bundle", path |-> p, project |-> w, phase |-> "status",
           todo |-> {<<"project", w>>}, listed |-> <<>>, got |-> <<>>,
           low |-> Revisions(Everything), high |-> None]]
    /\ UNCHANGED <<projectVars, cpVars, file>>

Put(f, r, v) == [x \in (DOMAIN f) \union {r} |-> IF x = r THEN v ELSE f[x]]

(* The export fails before it has a temporary file. *)
Give(e) == exporting' = [exporting EXCEPT ![e] = None]

(* _work_items and the sections build makes of them.  Checkpoints,         *)
(* decisions, policies and procedures are selected in the same way, by     *)
(* their project, activity and state.                                      *)
Selected(i) == item[i].active /\ ~item[i].secret /\ item[i].status \in Sections

(* build: the project first, which must be readable, active and not        *)
(* secret; then the other records one by one.                              *)
ReadStatus(e) ==
    LET x == exporting[e]
    IN  /\ x # None /\ x.phase = "status" /\ x.todo # {}
        /\ \E r \in x.todo :
              IF r[1] = "project"
              THEN IF ProjectLive(r[2]) /\ ~project[r[2]].secret
                   THEN exporting' = [exporting EXCEPT
                           ![e].todo = {<<"item", i>> : i \in Items},
                           ![e].listed = Put(@, r, [section |-> "project", rev |-> RevisionOf(r)])]
                   ELSE Give(e)
              ELSE exporting' = [exporting EXCEPT
                           ![e].todo = @ \ {r},
                           ![e].listed = IF Selected(r[2])
                                         THEN Put(@, r, [section |-> item[r[2]].status,
                                                         rev |-> RevisionOf(r)])
                                         ELSE @]
        /\ UNCHANGED <<projectVars, cpVars, file>>

(* Mutant: the manifest names the revision the status was built from. *)
RevisionOfStatus(phase) == phase = "members"

(* Where the walk takes the state revision for the manifest. *)
RevisionRead(phase) == phase = "manifest"

Moved(x, phase, todo) ==
    [x EXCEPT !.phase = phase, !.todo = todo,
              !.high = IF RevisionRead(phase) THEN Revisions(Everything) ELSE @]

StatusBuilt(e) ==
    LET x == exporting[e]
    IN  /\ x # None /\ x.phase = "status" /\ x.todo = {}
        /\ exporting' = [exporting EXCEPT ![e] = Moved(x, "members", DOMAIN x.listed)]
        /\ UNCHANGED <<projectVars, cpVars, file>>

(* _members: the selected records again, archived or not, in the section   *)
(* the status gave them.                                                   *)
ReadMember(e) ==
    LET x == exporting[e]
    IN  /\ x # None /\ x.phase = "members" /\ x.todo # {}
        /\ \E r \in NextLinks(x.todo) :
              IF r[1] = "project" /\ ~ProjectReadable(r[2]) THEN Give(e)
              ELSE exporting' = [exporting EXCEPT ![e].todo = @ \ {r},
                                                  ![e].got = Put(@, r, RevisionOf(r))]
        /\ UNCHANGED <<projectVars, cpVars, file>>

(* The manifest, and the temporary archive. *)
WriteBundle(e) ==
    LET x == exporting[e]
    IN  /\ x # None /\ x.phase = "members" /\ x.todo = {}
        /\ exporting' = [exporting EXCEPT ![e] = Moved(x, "manifest", {})]
        /\ UNCHANGED <<projectVars, cpVars, file>>

(* verify_resume_bundle of the temporary archive. *)
VerifyBundle(e) ==
    /\ exporting[e] # None /\ exporting[e].phase = "manifest"
    /\ exporting' = [exporting EXCEPT ![e].phase = "verified"]
    /\ UNCHANGED <<projectVars, cpVars, file>>

(* export_state_package up to its verified temporary archive, whose        *)
(* contents are those of module WorkspaceCopy.                             *)
WritePackage(e, p) ==
    /\ exporting[e] = None
    /\ OutputFree(p)
    /\ exporting' = [exporting EXCEPT ![e] =
          [kind |-> "package", path |-> p, project |-> None, phase |-> "verified",
           todo |-> {}, listed |-> <<>>, got |-> <<>>, low |-> <<>>, high |-> <<>>]]
    /\ UNCHANGED <<projectVars, cpVars, file>>

Publication(e, finished) ==
    [by |-> e, bundle |-> exporting[e],
     rivals |-> {d \in Exporters \ {e} :
                    exporting[d] # None /\ exporting[d].path = exporting[e].path},
     finished |-> finished]

(* os.replace: what is there is overwritten.  A bundle is then finished. *)
PublishBundle(e) ==
    LET x == exporting[e]
    IN  /\ x # None /\ x.phase = "verified" /\ x.kind = "bundle"
        /\ file' = [file EXCEPT ![x.path] = Publication(e, TRUE)]
        /\ exporting' = [exporting EXCEPT ![e] = None]
        /\ UNCHANGED <<projectVars, cpVars>>

(* A package is finished once its directory is synchronized. *)
PublishPackage(e) ==
    LET x == exporting[e]
    IN  /\ x # None /\ x.phase = "verified" /\ x.kind = "package"
        /\ file' = [file EXCEPT ![x.path] = Publication(e, FALSE)]
        /\ exporting' = [exporting EXCEPT ![e].phase = "published"]
        /\ UNCHANGED <<projectVars, cpVars>>

SyncPackage(e) ==
    LET x == exporting[e]
    IN  /\ x # None /\ x.phase = "published"
        /\ file' = IF file[x.path] # None /\ file[x.path].by = e
                   THEN [file EXCEPT ![x.path] = Publication(e, TRUE)] ELSE file
        /\ exporting' = [exporting EXCEPT ![e] = None]
        /\ UNCHANGED <<projectVars, cpVars>>

(* A failure from the temporary archive on: a bundle's export removes the  *)
(* output whoever made it, a package's only after its own publication.     *)
FailExport(e) ==
    LET x == exporting[e]
    IN  /\ x # None /\ x.phase \in {"manifest", "verified", "published"}
        /\ file' = IF x.kind = "bundle" \/ x.phase = "published"
                   THEN [file EXCEPT ![x.path] = None] ELSE file
        /\ exporting' = [exporting EXCEPT ![e] = None]
        /\ UNCHANGED <<projectVars, cpVars>>

(* The process dies, and a temporary archive stays behind; or the export   *)
(* is refused before there is one (_validate_shareable_members, a record   *)
(* that cannot be read).                                                   *)
CrashExport(e) ==
    /\ exporting[e] # None
    /\ exporting' = [exporting EXCEPT ![e] = None]
    /\ UNCHANGED <<projectVars, cpVars, file>>
-----------------------------------------------------------------------------
BundleInit ==
    /\ exporting = [e \in Exporters |-> None]
    /\ file = [p \in Paths |-> None]

BundleNext ==
    \E e \in Exporters :
       \/ \E w \in Projs, p \in Paths : BeginBundle(e, w, p)
       \/ \E p \in Paths : WritePackage(e, p)
       \/ ReadStatus(e) \/ StatusBuilt(e) \/ ReadMember(e) \/ WriteBundle(e) \/ VerifyBundle(e)
       \/ PublishBundle(e) \/ PublishPackage(e) \/ SyncPackage(e)
       \/ FailExport(e) \/ CrashExport(e)
-----------------------------------------------------------------------------
(* Nothing in a published bundle is newer than the state revision its      *)
(* manifest names, nor older than the start of the export; what a record   *)
(* is listed as was true of it at some moment of the export, and in an     *)
(* export no transaction overlapped the bundle is that one state.          *)
BundleBounded ==
    \A p \in Paths : file[p] # None /\ file[p].bundle.kind = "bundle" =>
       LET b == file[p].bundle
       IN  /\ DOMAIN b.got = DOMAIN b.listed
           /\ \A r \in DOMAIN b.got :
                 /\ b.low[r] <= b.listed[r].rev /\ b.listed[r].rev <= b.got[r]
                 /\ b.got[r] <= b.high[r]

(* A finished export is overwritten or removed only by an export that was  *)
(* already under way when it finished, never by one that began later:      *)
(* the existence check and the replace are apart, and a failure removes    *)
(* the output without knowing whose it is.                                 *)
FinishedExportStays ==
    \A p \in Paths : file[p] # None /\ file[p].finished /\ file'[p] # file[p] =>
        \E e \in file[p].rivals : exporting'[e] # exporting[e]
=============================================================================
