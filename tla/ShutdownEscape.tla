--------------------------- MODULE ShutdownEscape ---------------------------
(***************************************************************************)
(* export_shutdown_escape_bundle: one archive with a state package, the    *)
(* conversations as plain files, and a resume bundle of every project,     *)
(* made by a read-only process while others write.  Each part is read at   *)
(* its own time; the revision is compared last, when the archive already   *)
(* has its name.  Secret projects are left out; conversations and events   *)
(* cannot be secret (save_conversation).                                   *)
(***************************************************************************)
EXTENDS ResumeBundles, GenericExport

CONSTANT Sayings    \* the conversation and event records that may be saved

ASSUME SayingsAssumption == \A r \in Sayings : r.text \in {"plain", "separated"}

VARIABLE talk       \* those that are there

escapeVars == <<talk, publishVars>>
others == <<projectVars, cpVars, talk, publishVars>>

(* save_conversation, save_conversation_event: a conversation, or an event *)
(* whose conversation and parents are there.  Nothing changes them later.  *)
SaySomething(r) ==
    /\ Room
    /\ \A q \in talk : q.id # r.id
    /\ r.conversation # r.id => \E q \in talk : q.id = r.conversation
    /\ \A p \in r.parents : \E q \in talk : q.id = p /\ q.conversation = r.conversation
    /\ talk' = talk \union {r}
    /\ commits' = commits + 1
    /\ UNCHANGED <<project, decision, item, experience, outside, pending, cpVars, bundleVars, publishVars>>
-----------------------------------------------------------------------------
Escaping(e, phase) ==
    exporting[e] # None /\ exporting[e].kind = "escape" /\ exporting[e].phase = phase

(* The checks at the start, with the status to compare with later. *)
BeginEscape(e, p) ==
    /\ exporting[e] = None
    /\ OutputFree(p)
    /\ exporting' = [exporting EXCEPT ![e] =
          [kind |-> "escape", path |-> p, phase |-> "package", revision |-> commits,
           package |-> None, said |-> {}, todo |-> {}, got |-> <<>>,
           began |-> [project |-> project, talk |-> talk]]]
    /\ UNCHANGED <<others, file>>

(* Whatever fails removes the output, whoever made it. *)
EscapeFails(e) ==
    /\ exporting[e] # None /\ exporting[e].kind = "escape"
    /\ file' = [file EXCEPT ![exporting[e].path] = None]
    /\ exporting' = [exporting EXCEPT ![e] = None]
    /\ UNCHANGED others

Advance(e, y) == exporting' = [exporting EXCEPT ![e] = y] /\ UNCHANGED <<others, file>>

(* _validate_conversation_package_graph and _load_jsonl_bytes of the       *)
(* conversations in a package.                                             *)
TalkPackaged == talk = {} \/ Buildable(talk)

(* export_state_package into the staging directory.  It refuses a state    *)
(* that is not the one the repository was opened on.                       *)
EscapePackage(e) ==
    LET x == exporting[e]
        good == commits = x.revision /\ PackageValid(Records) /\ TalkPackaged
    IN  /\ Escaping(e, "package")
        /\ IF good THEN Advance(e, [x EXCEPT !.package = [project |-> project, talk |-> talk],
                                             !.phase = "conversations"])
           ELSE EscapeFails(e)

(* _exportable_conversations: one query for the conversations ... *)
ListConversations(e) ==
    /\ Escaping(e, "conversations")
    /\ Advance(e, [exporting[e] EXCEPT !.said = Conversations(talk), !.phase = "events"])

(* ... one for the events, of which those of other conversations are left  *)
(* out; and the generic export, when there is anything to export.          *)
ListEvents(e) ==
    LET x == exporting[e]
        said == x.said \union {r \in Events(talk) : \E q \in x.said : q.id = r.conversation}
    IN  /\ Escaping(e, "events")
        /\ IF x.said = {} \/ Buildable(said)
           THEN Advance(e, [x EXCEPT !.said = said, !.phase = "projects"])
           ELSE EscapeFails(e)

(* _non_secret_project_ids: archived projects too. *)
Shared(projects) == {w \in Projs : ~projects[w].secret}

ListProjects(e) ==
    /\ Escaping(e, "projects")
    /\ Advance(e, [exporting[e] EXCEPT !.todo = Shared(project), !.phase = "resume"])

(* ResumeBundleService.export of one of them. *)
EscapeResume(e) ==
    LET x == exporting[e]
    IN  /\ Escaping(e, "resume")
        /\ \E w \in x.todo :
              IF ProjectLive(w) /\ ~project[w].secret
              THEN Advance(e, [x EXCEPT !.todo = @ \ {w},
                                        !.got = Put(@, w, RevisionOf(<<"project", w>>))])
              ELSE EscapeFails(e)

(* The members, and what the manifest says of them. *)
EscapeMembers(x) ==
    {<<"state", "package">>}
    \union {<<"conversations", n>> : n \in IF x.said = {} THEN {} ELSE Names}
    \union {<<"resume", w>> : w \in DOMAIN x.got}

EscapeManifest(x) ==
    [members |-> EscapeMembers(x), generic |-> x.said # {}, resume |-> DOMAIN x.got]

(* inspect_bundle: the inventory is the declared one, and each surface the *)
(* manifest names is complete.                                             *)
InspectorAccepts(members, manifest) ==
    /\ members = manifest.members
    /\ <<"state", "package">> \in members
    /\ manifest.generic => \A n \in Names : <<"conversations", n>> \in members
    /\ \A w \in manifest.resume : <<"resume", w>> \in members

(* The temporary archive and its verification. *)
WriteEscape(e) ==
    /\ Escaping(e, "resume") /\ exporting[e].todo = {}
    /\ InspectorAccepts(EscapeMembers(exporting[e]), EscapeManifest(exporting[e]))
    /\ Advance(e, [exporting[e] EXCEPT !.phase = "written"])

(* os.replace *)
ReplaceEscape(e) ==
    LET x == exporting[e]
    IN  /\ Escaping(e, "written")
        /\ file' = [file EXCEPT ![x.path] = Publication(e, FALSE)]
        /\ exporting' = [exporting EXCEPT ![e].phase = "replaced"]
        /\ UNCHANGED others

(* Mutant: the status is not compared. *)
StatusIgnored(x) == TRUE

(* status_after != status_before *)
StatusUnchanged(x) == commits = x.revision

(* The last check; without it the output is removed. *)
CompareStatus(e) ==
    LET x == exporting[e]
    IN  /\ Escaping(e, "replaced")
        /\ StatusUnchanged(x)
        /\ file' = IF file[x.path] # None /\ file[x.path].by = e
                   THEN [file EXCEPT ![x.path] = Publication(e, TRUE)] ELSE file
        /\ exporting' = [exporting EXCEPT ![e] = None]
        /\ UNCHANGED others

EscapeNext ==
    \E e \in Exporters :
       \/ \E p \in Paths : BeginEscape(e, p)
       \/ EscapePackage(e) \/ ListConversations(e) \/ ListEvents(e) \/ ListProjects(e)
       \/ EscapeResume(e) \/ WriteEscape(e) \/ ReplaceEscape(e) \/ CompareStatus(e)
       \/ EscapeFails(e)
       \/ CrashExport(e) /\ UNCHANGED escapeVars

(* Every kind of export, beside each other and beside every writer. *)
ExportsInit == CheckpointsInit /\ BundleInit /\ PublishInit /\ talk = {}

ExportsNext ==
    \/ CheckpointsNext /\ UNCHANGED <<bundleVars, escapeVars>>
    \/ \E r \in Sayings : SaySomething(r)
    \/ BundleNext /\ UNCHANGED escapeVars
    \/ EscapeNext
    \/ PublishNext /\ UNCHANGED <<projectVars, cpVars, bundleVars, talk>>

exportsVars == <<projectVars, cpVars, bundleVars, escapeVars>>
ExportsSpec == ExportsInit /\ [][ExportsNext]_exportsVars
-----------------------------------------------------------------------------
(* An archive whose export returned is of one moment: package,             *)
(* conversations and resume bundles are what the workspace held when the   *)
(* export began, and nothing is missing but secret projects.  So at that   *)
(* moment every other project was active and readable and no text held a   *)
(* line separator: a workspace of which this is not so, or no longer so    *)
(* because a project was archived, has no escape (_build_members,          *)
(* _non_secret_project_ids).  What an export killed before its last check  *)
(* leaves may be torn.                                                     *)
EscapeIsOneMoment ==
    \A p \in Paths : file[p] # None /\ file[p].bundle.kind = "escape" /\ file[p].finished =>
       LET b == file[p].bundle
       IN  /\ b.package = b.began
           /\ b.said = b.began.talk
           /\ b.got = [w \in Shared(b.began.project) |-> b.began.project[w].rev]
           /\ \A w \in DOMAIN b.got : b.began.project[w].active
           /\ \A r \in b.began.talk : r.text = "plain"

(* Exports that fail, crash and share an output: what one has finished is  *)
(* lost only to one that was already under way, and the five files of a    *)
(* generic export are there together or not at all.                        *)
ExportsKept == []PublishedWhole /\ [][FinishedExportStays]_<<exporting, file>>
=============================================================================
